------------------------------- MODULE LiveRun -------------------------------
(***************************************************************************)
(* The life of a live-auto strategy run: LiveStrategyHost, RunRegistry,    *)
(* NautilusLiveEngineController and the post-trade safety rail of the      *)
(* backend, as they interleave on the threads of the in-process build:     *)
(*                                                                         *)
(*   - the one transport worker, which executes the RPC handlers one at a  *)
(*     time (Start, Pause, Resume, Stop, SetExecutionMode, VenueLogin and  *)
(*     VenueLogout);                                                       *)
(*   - one "phase10-daily-loss-stop" thread for each run whose loss limit  *)
(*     was breached;                                                       *)
(*   - the live asyncio loop, which runs the coroutines the other threads  *)
(*     schedule in the order they were scheduled, evaluates account        *)
(*     snapshots and carries the strategy's orders.                        *)
(*                                                                         *)
(* Run ids are numbered in the order they are drawn, which is also the     *)
(* order of started_ts_ms.  A rejected StartLiveStrategy is not given a    *)
(* number: nothing ever refers to its id.                                  *)
(***************************************************************************)
EXTENDS Integers, Sequences, FiniteSets

CONSTANTS
    MaxRuns,      \* bound: how many runs are ever registered
    MaxHistory,   \* RunRegistry max_terminal_history (64 in the code)
    None          \* no run, no thread, no status

ASSUME ConstantsAssumption ==
    /\ MaxRuns \in Nat \ {0}
    /\ MaxHistory \in Nat \ {0}
    /\ None \notin 0 .. MaxRuns

Run    == 1 .. MaxRuns
Worker == 0
Thread == {Worker} \cup Run        \* thread r \in Run is the loss thread of run r

Status == {"IDLE", "READY", "RUNNING", "PAUSED", "STOPPING", "STOPPED", "ERROR"}
Mode   == {"Replay", "LiveManual", "LiveAuto"}

(* Steps at which a thread holds _live_strategy_lock.                      *)
Holding == {"attach_wait", "cancel", "cancel_wait", "detach", "stop_wait",
            "finish"}
Step    == Holding \cup
           {"idle", "start_lock", "pause_lock", "resume_lock", "stop_lock",
            "fail_lock", "set_rails", "release", "read", "push"}

AttachStep  == {"none", "queued", "subscribing", "done", "failed"}
OrderStatus == {"none", "sent", "open", "cancelling", "refused"}
LoopTask    == [task : {"attach", "cancel", "stop"}, run : Run]

VARIABLES
    mode,        \* ModeManager.current_mode
    session,     \* the order facade exists: the venue session is logged in
    sm,          \* state machine of each run record
    registered,  \* RunRegistry._runs
    fresh,       \* the next run id
    lock,        \* holder of _live_strategy_lock
    pc,          \* step each thread is at
    job,         \* the run the worker's handler is about
    seen,        \* status a thread has read and not yet published
    loopq,       \* coroutines scheduled on the live loop and not yet begun
    attach,      \* progress of each run's _do_attach
    kernel,      \* NautilusLiveEngineController._kernel
    kernels,     \* kernels started and not stopped
    listener,    \* NautilusLiveEngineController._tick_listener
    taps,        \* tick listeners added to the runner and not removed
    ord,         \* the order of each run that is in play
    swept,       \* runs whose orders the teardown has asked to cancel
    rails,       \* _run_rails
    baseline,    \* _run_equity_baseline
    fetching,    \* AccountSync._tick awaits fetch_account
    shown,       \* last status pushed for each run
    announced    \* runs for which STOPPED has been pushed

hostVars   == <<sm, registered, fresh, lock>>
threadVars == <<pc, job, seen>>
kernelVars == <<loopq, attach, kernel, kernels, listener, taps>>
orderVars  == <<ord, swept>>
railVars   == <<rails, baseline, fetching>>
envVars    == <<mode, session>>
uiVars     == <<shown, announced>>
vars == <<hostVars, threadVars, kernelVars, orderVars, railVars, envVars, uiVars>>

TypeOK ==
    /\ mode \in Mode
    /\ session \in BOOLEAN
    /\ sm \in [Run -> Status]
    /\ registered \subseteq Run
    /\ fresh \in 1 .. MaxRuns + 1
    /\ lock \in Thread \cup {None}
    /\ pc \in [Thread -> Step]
    /\ job \in Run \cup {None}
    /\ seen \in [Thread -> Status \cup {None}]
    /\ loopq \in Seq(LoopTask)
    /\ attach \in [Run -> AttachStep]
    /\ kernel \in Run \cup {None}
    /\ kernels \subseteq Run
    /\ listener \in Run \cup {None}
    /\ taps \subseteq Run
    /\ ord \in [Run -> OrderStatus]
    /\ swept \subseteq Run
    /\ rails \subseteq Run
    /\ baseline \subseteq Run
    /\ fetching \in BOOLEAN
    /\ shown \in [Run -> Status \cup {None}]
    /\ announced \subseteq Run

Init ==
    /\ mode = "Replay"
    /\ session = FALSE
    /\ sm = [r \in Run |-> "IDLE"]
    /\ registered = {}
    /\ fresh = 1
    /\ lock = None
    /\ pc = [t \in Thread |-> "idle"]
    /\ job = None
    /\ seen = [t \in Thread |-> None]
    /\ loopq = <<>>
    /\ attach = [r \in Run |-> "none"]
    /\ kernel = None
    /\ kernels = {}
    /\ listener = None
    /\ taps = {}
    /\ ord = [r \in Run |-> "none"]
    /\ swept = {}
    /\ rails = {}
    /\ baseline = {}
    /\ fetching = FALSE
    /\ shown = [r \in Run |-> None]
    /\ announced = {}

-----------------------------------------------------------------------------
(* Helpers.                                                                *)

(* RunRegistry._active_locked: registered and not terminal.                *)
Active == {r \in registered : sm[r] # "STOPPED"}

(* RunRegistry._evict_terminal_locked: beyond MaxHistory terminal runs the *)
(* oldest go.                                                              *)
Evicted(runs) ==
    LET terminal == {r \in runs : sm[r] = "STOPPED"}
    IN  {r \in terminal : Cardinality({q \in terminal : q > r}) >= MaxHistory}

(* LiveStrategyStateMachine._ALLOWED for the two guarded transitions.      *)
CanPause(r)  == sm[r] = "RUNNING"
CanResume(r) == sm[r] = "PAUSED"

(* _is_run_gated: the run is in the registry and not RUNNING.  A run the   *)
(* registry does not know is not gated.  (Faulty: only PAUSED gates.)      *)
Faulty_Gated(r) == r \in registered /\ sm[r] = "PAUSED"

Gated(r) == r \in registered /\ sm[r] # "RUNNING"

(* The run a thread works for.  (Faulty: the worker's, whoever asks.)      *)
Faulty_RunOf(t) == job

RunOf(t) == IF t = Worker THEN job ELSE t

Goto(t, step) == pc' = [pc EXCEPT ![t] = step]

Schedule(task, r) == loopq' = Append(loopq, [task |-> task, run |-> r])

-----------------------------------------------------------------------------
(* Faulty variants of steps below.  They are no part of the specification: *)
(* each shows that a property notices the bug its comment names.           *)

(* attach is waited for without a timeout *)
Faulty_AttachGivenUp ==
    /\ pc[Worker] = "attach_wait"
    /\ attach[job] = "failed"
    /\ registered' = registered \ {job}
    /\ sm' = [sm EXCEPT ![job] = "ERROR"]
    /\ lock' = None
    /\ job' = None
    /\ Goto(Worker, "idle")
    /\ UNCHANGED <<fresh, seen, kernelVars, orderVars, railVars, envVars,
                   uiVars>>

(* _control_run releases the rails whatever the status *)
Faulty_PauseRun ==
    /\ pc[Worker] = "pause_lock"
    /\ lock = None
    /\ job \in registered
    /\ CanPause(job)
    /\ sm' = [sm EXCEPT ![job] = "PAUSED"]
    /\ Goto(Worker, "release")
    /\ UNCHANGED <<registered, fresh, lock, job, seen, kernelVars, orderVars,
                   railVars, envVars, uiVars>>

(* fail_run does not ask whether the run is already terminal *)
Faulty_FailStopped(r) ==
    /\ pc[r] = "fail_lock"
    /\ lock = None
    /\ r \in registered
    /\ sm[r] = "STOPPED"
    /\ sm' = [sm EXCEPT ![r] = "ERROR"]
    /\ lock' = r
    /\ Goto(r, "cancel")
    /\ UNCHANGED <<registered, fresh, job, seen, kernelVars, orderVars,
                   railVars, envVars, uiVars>>

(* only a RUNNING run can be failed *)
Faulty_FailRun(r) ==
    /\ pc[r] = "fail_lock"
    /\ lock = None
    /\ r \in registered
    /\ sm[r] = "RUNNING"
    /\ lock' = r
    /\ sm' = [sm EXCEPT ![r] = "ERROR"]
    /\ Goto(r, "cancel")
    /\ UNCHANGED <<registered, fresh, job, seen, kernelVars, orderVars,
                   railVars, envVars, uiVars>>

(* detach leaves the tick listener on the runner *)
Faulty_DetachTap(t) ==
    /\ pc[t] = "detach"
    /\ listener' = None
    /\ kernel' = None
    /\ IF kernel = None
       THEN Goto(t, "finish") /\ UNCHANGED loopq
       ELSE Goto(t, "stop_wait") /\ Schedule("stop", kernel)
    /\ UNCHANGED <<hostVars, job, seen, attach, kernels, taps, orderVars,
                   railVars, envVars, uiVars>>

(* the controller's kernel is set after the await of runner.subscribe *)
Faulty_AttachTap(r) ==
    /\ attach[r] = "subscribing"
    /\ attach' = [attach EXCEPT ![r] = "done"]
    /\ kernel' = r
    /\ listener' = r
    /\ taps' = taps \cup {r}
    /\ UNCHANGED <<hostVars, threadVars, loopq, kernels, orderVars, railVars,
                   envVars, uiVars>>

(* the exec client does not ask the gate *)
Faulty_SubmitOrder(r) ==
    /\ r \in kernels
    /\ ord[r] = "none"
    /\ ord' = [ord EXCEPT ![r] = "sent"]
    /\ UNCHANGED <<hostVars, threadVars, kernelVars, swept, railVars, envVars,
                   uiVars>>

-----------------------------------------------------------------------------
(* The worker: StartLiveStrategy.                                          *)

(* The mode gate of the handler; the run lock is taken after it.           *)
StartLiveStrategy ==
    /\ pc[Worker] = "idle"
    /\ mode = "LiveAuto"
    /\ Goto(Worker, "start_lock")
    /\ UNCHANGED <<hostVars, job, seen, kernelVars, orderVars, railVars,
                   envVars, uiVars>>

(* start_run refuses: no session, the file does not load (any file may     *)
(* not), or the slot is taken.  The record made so far is dropped.         *)
StartRefused ==
    /\ pc[Worker] = "start_lock"
    /\ lock = None
    /\ Goto(Worker, "idle")
    /\ UNCHANGED <<hostVars, job, seen, kernelVars, orderVars, railVars,
                   envVars, uiVars>>

(* start_run registers the run, then schedules the attach and waits.  With *)
(* one active run the DuplicateStrategyInstrument check never decides.     *)
StartRegistered ==
    /\ pc[Worker] = "start_lock"
    /\ lock = None
    /\ session
    /\ Active = {}
    /\ fresh <= MaxRuns
    /\ lock' = Worker
    /\ job' = fresh
    /\ fresh' = fresh + 1
    /\ sm' = [sm EXCEPT ![fresh] = "READY"]
    /\ registered' = (registered \cup {fresh}) \ Evicted(registered)
    /\ attach' = [attach EXCEPT ![fresh] = "queued"]
    /\ Schedule("attach", fresh)
    /\ Goto(Worker, "attach_wait")
    /\ UNCHANGED <<seen, kernel, kernels, listener, taps, orderVars, railVars,
                   envVars, uiVars>>

AttachSucceeded ==
    /\ pc[Worker] = "attach_wait"
    /\ attach[job] = "done"
    /\ sm' = [sm EXCEPT ![job] = "RUNNING"]
    /\ lock' = None
    /\ Goto(Worker, "set_rails")
    /\ UNCHANGED <<registered, fresh, job, seen, kernelVars, orderVars,
                   railVars, envVars, uiVars>>

(* attach raised, or its 10 s ran out with the coroutine still going: the  *)
(* registration is rolled back, nothing is detached, nothing is cancelled. *)
AttachGivenUp ==
    /\ pc[Worker] = "attach_wait"
    /\ attach[job] # "done"
    /\ registered' = registered \ {job}
    /\ sm' = [sm EXCEPT ![job] = "ERROR"]
    /\ lock' = None
    /\ job' = None
    /\ Goto(Worker, "idle")
    /\ UNCHANGED <<fresh, seen, kernelVars, orderVars, railVars, envVars,
                   uiVars>>

(* Outside the run lock: the rails of the new run, and no baseline yet.    *)
SetRails ==
    /\ pc[Worker] = "set_rails"
    /\ rails' = rails \cup {job}
    /\ baseline' = baseline \ {job}
    /\ Goto(Worker, "read")
    /\ UNCHANGED <<hostVars, job, seen, kernelVars, orderVars, fetching,
                   envVars, uiVars>>

-----------------------------------------------------------------------------
(* The worker: Pause, Resume and Stop, all through _control_run.           *)

ControlRun(step, r) ==
    /\ pc[Worker] = "idle"
    /\ job' = r
    /\ Goto(Worker, step)
    /\ UNCHANGED <<hostVars, seen, kernelVars, orderVars, railVars, envVars,
                   uiVars>>

PauseLiveStrategy(r)  == ControlRun("pause_lock", r)
ResumeLiveStrategy(r) == ControlRun("resume_lock", r)
StopLiveStrategy(r)   == ControlRun("stop_lock", r)

(* UNKNOWN_RUN, or INVALID_LIVE_STRATEGY_STATE.                            *)
ControlRefused ==
    /\ lock = None
    /\ \/ pc[Worker] = "pause_lock" /\ ~(job \in registered /\ CanPause(job))
       \/ pc[Worker] = "resume_lock" /\ ~(job \in registered /\ CanResume(job))
       \/ pc[Worker] = "stop_lock" /\ job \notin registered
    /\ job' = None
    /\ Goto(Worker, "idle")
    /\ UNCHANGED <<hostVars, seen, kernelVars, orderVars, railVars, envVars,
                   uiVars>>

PauseRun ==
    /\ pc[Worker] = "pause_lock"
    /\ lock = None
    /\ job \in registered
    /\ CanPause(job)
    /\ sm' = [sm EXCEPT ![job] = "PAUSED"]
    /\ Goto(Worker, "read")
    /\ UNCHANGED <<registered, fresh, lock, job, seen, kernelVars, orderVars,
                   railVars, envVars, uiVars>>

ResumeRun ==
    /\ pc[Worker] = "resume_lock"
    /\ lock = None
    /\ job \in registered
    /\ CanResume(job)
    /\ sm' = [sm EXCEPT ![job] = "RUNNING"]
    /\ Goto(Worker, "read")
    /\ UNCHANGED <<registered, fresh, lock, job, seen, kernelVars, orderVars,
                   railVars, envVars, uiVars>>

(* stop_run of a run that is already STOPPED only reports it again.        *)
StopAgain ==
    /\ pc[Worker] = "stop_lock"
    /\ lock = None
    /\ job \in registered
    /\ sm[job] = "STOPPED"
    /\ Goto(Worker, "release")
    /\ UNCHANGED <<hostVars, job, seen, kernelVars, orderVars, railVars,
                   envVars, uiVars>>

StopRun ==
    /\ pc[Worker] = "stop_lock"
    /\ lock = None
    /\ job \in Active
    /\ lock' = Worker
    /\ sm' = [sm EXCEPT ![job] = IF @ = "ERROR" THEN @ ELSE "STOPPING"]
    /\ Goto(Worker, "cancel")
    /\ UNCHANGED <<registered, fresh, job, seen, kernelVars, orderVars,
                   railVars, envVars, uiVars>>

(* _control_run, after the lock: a terminal run gives up rails and         *)
(* baseline together.                                                      *)
ReleaseRails ==
    /\ pc[Worker] = "release"
    /\ rails' = rails \ {job}
    /\ baseline' = baseline \ {job}
    /\ Goto(Worker, "read")
    /\ UNCHANGED <<hostVars, job, seen, kernelVars, orderVars, fetching,
                   envVars, uiVars>>

-----------------------------------------------------------------------------
(* The loss thread of run r: _fail_run_for_loss.                           *)

FailUnknown(r) ==
    /\ pc[r] = "fail_lock"
    /\ lock = None
    /\ r \notin registered
    /\ Goto(r, "idle")
    /\ UNCHANGED <<hostVars, job, seen, kernelVars, orderVars, railVars,
                   envVars, uiVars>>

FailStopped(r) ==
    /\ pc[r] = "fail_lock"
    /\ lock = None
    /\ r \in registered
    /\ sm[r] = "STOPPED"
    /\ Goto(r, "read")
    /\ UNCHANGED <<hostVars, job, seen, kernelVars, orderVars, railVars,
                   envVars, uiVars>>

FailRun(r) ==
    /\ pc[r] = "fail_lock"
    /\ lock = None
    /\ r \in Active
    /\ lock' = r
    /\ sm' = [sm EXCEPT ![r] = "ERROR"]
    /\ Goto(r, "cancel")
    /\ UNCHANGED <<registered, fresh, job, seen, kernelVars, orderVars,
                   railVars, envVars, uiVars>>

-----------------------------------------------------------------------------
(* _teardown, by the worker or a loss thread, under the run lock.          *)

(* cancel_inflight_orders acts on the controller's current kernel.         *)
CancelInflight(t) ==
    /\ pc[t] = "cancel"
    /\ IF kernel = None
       THEN Goto(t, "detach") /\ UNCHANGED loopq
       ELSE Goto(t, "cancel_wait") /\ Schedule("cancel", kernel)
    /\ UNCHANGED <<hostVars, job, seen, attach, kernel, kernels, listener,
                   taps, orderVars, railVars, envVars, uiVars>>

(* The wait ends when the sweep saw every order leave (or its 3 s passed), *)
(* or after 6 s whatever the loop has done; all of it is best effort.      *)
CancelWaited(t) ==
    /\ pc[t] = "cancel_wait"
    /\ Goto(t, "detach")
    /\ UNCHANGED <<hostVars, job, seen, kernelVars, orderVars, railVars,
                   envVars, uiVars>>

(* _teardown_kernel: the tap comes off, the fields are cleared, and the    *)
(* stop is scheduled.                                                      *)
Detach(t) ==
    /\ pc[t] = "detach"
    /\ taps' = taps \ {listener}
    /\ listener' = None
    /\ kernel' = None
    /\ IF kernel = None
       THEN Goto(t, "finish") /\ UNCHANGED loopq
       ELSE Goto(t, "stop_wait") /\ Schedule("stop", kernel)
    /\ UNCHANGED <<hostVars, job, seen, attach, kernels, orderVars, railVars,
                   envVars, uiVars>>

(* kernel.stop has run, or 10 s have passed.                               *)
StopWaited(t) ==
    /\ pc[t] = "stop_wait"
    /\ Goto(t, "finish")
    /\ UNCHANGED <<hostVars, job, seen, kernelVars, orderVars, railVars,
                   envVars, uiVars>>

Finish(t) ==
    /\ pc[t] = "finish"
    /\ sm' = [sm EXCEPT ![RunOf(t)] = "STOPPED"]
    /\ lock' = None
    /\ Goto(t, IF t = Worker THEN "release" ELSE "read")
    /\ UNCHANGED <<registered, fresh, job, seen, kernelVars, orderVars,
                   railVars, envVars, uiVars>>

(* _publish_live_strategy_event reads the status, then pushes it.          *)
ReadStatus(t) ==
    /\ pc[t] = "read"
    /\ seen' = [seen EXCEPT ![t] = sm[RunOf(t)]]
    /\ Goto(t, "push")
    /\ UNCHANGED <<hostVars, job, kernelVars, orderVars, railVars, envVars,
                   uiVars>>

PushStatus(t) ==
    /\ pc[t] = "push"
    /\ shown' = [shown EXCEPT ![RunOf(t)] = seen[t]]
    /\ announced' = IF seen[t] = "STOPPED" THEN announced \cup {RunOf(t)}
                                           ELSE announced
    /\ seen' = [seen EXCEPT ![t] = None]
    /\ job' = IF t = Worker THEN None ELSE job
    /\ Goto(t, "idle")
    /\ UNCHANGED <<hostVars, kernelVars, orderVars, railVars, envVars>>

-----------------------------------------------------------------------------
(* The live loop: coroutines begin in the order they were scheduled.       *)

Begin(task, r) ==
    /\ loopq # <<>>
    /\ Head(loopq) = [task |-> task, run |-> r]
    /\ loopq' = Tail(loopq)

(* _do_attach raises before kernel.start().                                *)
AttachFails(r) ==
    /\ Begin("attach", r)
    /\ attach' = [attach EXCEPT ![r] = "failed"]
    /\ UNCHANGED <<hostVars, threadVars, kernel, kernels, listener, taps,
                   orderVars, railVars, envVars, uiVars>>

(* Up to the await of runner.subscribe.  Without a runner there is no tap  *)
(* and nothing to await.                                                   *)
AttachKernel(r) ==
    /\ Begin("attach", r)
    /\ kernels' = kernels \cup {r}
    /\ kernel' = r
    /\ attach' = [attach EXCEPT ![r] = IF session THEN "subscribing" ELSE "done"]
    /\ UNCHANGED <<hostVars, threadVars, listener, taps, orderVars, railVars,
                   envVars, uiVars>>

AttachTap(r) ==
    /\ attach[r] = "subscribing"
    /\ attach' = [attach EXCEPT ![r] = "done"]
    /\ listener' = r
    /\ taps' = taps \cup {r}
    /\ UNCHANGED <<hostVars, threadVars, loopq, kernel, kernels, orderVars,
                   railVars, envVars, uiVars>>

(* _cancel_and_wait: every open or unacknowledged order of the strategy is *)
(* asked to cancel; the sweep itself may fail.                             *)
CancelSweep(r) ==
    /\ Begin("cancel", r)
    /\ \/ /\ ord' = [ord EXCEPT ![r] = IF @ \in {"sent", "open"} THEN "cancelling"
                                                                ELSE @]
          /\ swept' = swept \cup {r}
       \/ UNCHANGED orderVars
    /\ UNCHANGED <<hostVars, threadVars, attach, kernel, kernels, listener,
                   taps, railVars, envVars, uiVars>>

KernelStops(r) ==
    /\ Begin("stop", r)
    /\ kernels' = kernels \ {r}
    /\ UNCHANGED <<hostVars, threadVars, attach, kernel, listener, taps,
                   orderVars, railVars, envVars, uiVars>>

(* NautilusVenueExecClient._submit_order up to the venue call.             *)
SubmitOrder(r) ==
    /\ r \in kernels
    /\ ord[r] = "none"
    /\ ~Gated(r)
    /\ ord' = [ord EXCEPT ![r] = "sent"]
    /\ UNCHANGED <<hostVars, threadVars, kernelVars, swept, railVars, envVars,
                   uiVars>>

(* The venue accepts, or the order ends (filled, rejected, adapter error). *)
SubmitAnswered(r) ==
    /\ ord[r] = "sent"
    /\ \E s \in {"open", "none"} : ord' = [ord EXCEPT ![r] = s]
    /\ UNCHANGED <<hostVars, threadVars, kernelVars, swept, railVars, envVars,
                   uiVars>>

(* The cancel of the sweep is answered: a REJECTED cancel leaves the order *)
(* live at the venue.                                                      *)
CancelAnswered(r) ==
    /\ ord[r] = "cancelling"
    /\ \E s \in {"none", "refused"} : ord' = [ord EXCEPT ![r] = s]
    /\ UNCHANGED <<hostVars, threadVars, kernelVars, swept, railVars, envVars,
                   uiVars>>

(* AccountSync._tick: the mode gate comes before the await only.           *)
AccountFetch ==
    /\ session
    /\ ~fetching
    /\ mode # "Replay"
    /\ fetching' = TRUE
    /\ UNCHANGED <<hostVars, threadVars, kernelVars, orderVars, rails, baseline,
                   envVars, uiVars>>

(* _evaluate_post_trade_loss on a snapshot that breaches nothing.          *)
SnapshotWithinLimit ==
    /\ fetching
    /\ fetching' = FALSE
    /\ baseline' = baseline \cup (Active \cap rails)
    /\ UNCHANGED <<hostVars, threadVars, kernelVars, orderVars, rails, envVars,
                   uiVars>>

(* ... on one that breaches max_daily_loss of the active run: the rails go *)
(* first, then the thread that fails the run starts.                       *)
SnapshotBreach(r) ==
    /\ fetching
    /\ r \in Active \cap rails
    /\ r \in baseline
    /\ fetching' = FALSE
    /\ rails' = rails \ {r}
    /\ baseline' = baseline \ {r}
    /\ Goto(r, "fail_lock")
    /\ UNCHANGED <<hostVars, job, seen, kernelVars, orderVars, envVars, uiVars>>

-----------------------------------------------------------------------------
(* The rest of the worker, as far as a run can tell.                       *)

SetExecutionMode(m) ==
    /\ pc[Worker] = "idle"
    /\ m # mode
    /\ m # "Replay" => session
    /\ mode' = m
    /\ UNCHANGED <<hostVars, threadVars, kernelVars, orderVars, railVars,
                   session, uiVars>>

VenueLogin ==
    /\ pc[Worker] = "idle"
    /\ ~session
    /\ session' = TRUE
    /\ UNCHANGED <<hostVars, threadVars, kernelVars, orderVars, railVars, mode,
                   uiVars>>

(* Stops AccountSync; no run is asked to stop and the mode stays.          *)
VenueLogout ==
    /\ pc[Worker] = "idle"
    /\ session
    /\ session' = FALSE
    /\ fetching' = FALSE
    /\ UNCHANGED <<hostVars, threadVars, kernelVars, orderVars, rails, baseline,
                   mode, uiVars>>

WorkerRequest ==
    \/ StartLiveStrategy
    \/ \E r \in Run : r < fresh /\ PauseLiveStrategy(r)
    \/ \E r \in Run : r < fresh /\ ResumeLiveStrategy(r)
    \/ \E r \in Run : r < fresh /\ StopLiveStrategy(r)
    \/ \E m \in Mode : SetExecutionMode(m)
    \/ VenueLogin
    \/ VenueLogout

WorkerStep ==
    \/ StartRefused \/ StartRegistered
    \/ AttachSucceeded \/ AttachGivenUp \/ SetRails
    \/ ControlRefused \/ PauseRun \/ ResumeRun \/ StopAgain \/ StopRun
    \/ ReleaseRails

ThreadStep(t) ==
    \/ CancelInflight(t) \/ CancelWaited(t)
    \/ Detach(t) \/ StopWaited(t) \/ Finish(t)
    \/ ReadStatus(t) \/ PushStatus(t)

LossStep(r) == FailUnknown(r) \/ FailStopped(r) \/ FailRun(r)

LoopStep(r) == AttachFails(r) \/ AttachKernel(r) \/ CancelSweep(r) \/ KernelStops(r)

VenueStep(r) == AttachTap(r) \/ SubmitOrder(r) \/ SubmitAnswered(r) \/ CancelAnswered(r)

AccountStep ==
    \/ AccountFetch
    \/ SnapshotWithinLimit
    \/ \E r \in Run : SnapshotBreach(r)

Next ==
    \/ WorkerRequest
    \/ WorkerStep
    \/ \E t \in Thread : ThreadStep(t)
    \/ \E r \in Run : LossStep(r) \/ LoopStep(r) \/ VenueStep(r)
    \/ AccountStep

Spec == Init /\ [][Next]_vars

(* Every wait of a thread has a timeout and the loop serves its queue; the *)
(* venue and the user owe nothing.                                         *)
Fairness ==
    /\ WF_vars(WorkerStep)
    /\ \A t \in Thread : WF_vars(ThreadStep(t))
    /\ \A r \in Run : WF_vars(LossStep(r))
    /\ WF_vars(\E r \in Run : LoopStep(r))

FairSpec == Spec /\ Fairness

-----------------------------------------------------------------------------
(* Safety.                                                                 *)

(* A run whose attach was given up: its id is in no table, but its         *)
(* coroutine was not cancelled.                                            *)
Abandoned(r) == sm[r] = "ERROR" /\ r \notin registered

(* The slot: at most one registered run is not terminal, whatever the      *)
(* worker and the loss threads are doing (RunRegistry, "single run").      *)
OneActiveRun ==
    \A q, r \in registered : sm[q] # "STOPPED" /\ sm[r] # "STOPPED" => q = r

(* Nobody leaves a run half way: when the run lock is free every           *)
(* registered run is RUNNING, PAUSED or STOPPED (the teardown comment:     *)
(* stop paths must not strand a run in an intermediate state).             *)
NoStrandedRun ==
    lock = None => \A r \in registered : sm[r] \in {"RUNNING", "PAUSED", "STOPPED"}

(* The kernel the controller would tear down is the one of the run it is   *)
(* asked about: a run that can trade owns the controller's kernel, and the *)
(* kernel is started.  Late coroutines of earlier runs must not take it.   *)
(* And a started kernel has a run that is not terminal, or its stop is     *)
(* scheduled; the one exception is the kernel of an attach that was given  *)
(* up.                                                                     *)
KernelOwned ==
    /\ \A r \in registered : sm[r] \in {"RUNNING", "PAUSED"} =>
          kernel = r /\ r \in kernels
    /\ \A r \in kernels :
          \/ r \in Active
          \/ Abandoned(r)
          \/ \E i \in 1 .. Len(loopq) : loopq[i] = [task |-> "stop", run |-> r]

(* Once the teardown has swept a run's orders, no order of it goes out any *)
(* more: what is still live at the venue is an order whose cancel is under *)
(* way or was refused.                                                     *)
SweepIsFinal == \A r \in swept : ord[r] \notin {"sent", "open"}

(* A run that can trade is watched: its rails are in the table, or a       *)
(* thread is on its way to fail it, or the worker is about to store them.  *)
LossWatched ==
    \A r \in registered : sm[r] \in {"RUNNING", "PAUSED"} =>
        \/ r \in rails
        \/ pc[r] = "fail_lock"
        \/ pc[Worker] = "set_rails" /\ job = r

(* Rails and baseline are released together and never outlive the run: a   *)
(* terminal run has rails only while the worker is between the lock and    *)
(* the release.                                                            *)
RailsReleased ==
    /\ baseline \subseteq rails
    /\ \A r \in rails : r \in Active \/ (pc[Worker] = "release" /\ job = r)

(* As long as no attach was given up, a tick listener on the runner is the *)
(* controller's own and belongs to the active run: none is left behind to  *)
(* feed a stopped kernel.                                                  *)
TapRemoved ==
    (\A r \in Run : ~Abandoned(r)) =>
        taps \subseteq {listener} /\ listener \in Active \cup {None}

(* An order leaves for the venue only from a RUNNING run, or from a kernel *)
(* whose attach was given up (is_running: "RUNNING only; PAUSED denies").  *)
OrdersNeedRun ==
    [][\A r \in Run : ord'[r] = "sent" /\ ord[r] # "sent" =>
            sm[r] = "RUNNING" \/ Abandoned(r)]_vars

(* STOPPED is final: no thread revives or re-fails a stopped run.          *)
StoppedIsFinal ==
    [][\A r \in Run : sm[r] = "STOPPED" => sm'[r] = "STOPPED"]_vars

-----------------------------------------------------------------------------
(* The abstract life of the runs.                                          *)

Lifecycle == INSTANCE RunLifecycle WITH status <- sm, active <- Active

(* Worker, loss threads and timeouts move the runs only as RunLifecycle    *)
(* allows: no transition_to ever raises in the middle of a teardown, and   *)
(* no run moves that does not hold the slot.                               *)
ImplementsLifecycle == Lifecycle!Spec

-----------------------------------------------------------------------------
(* Liveness, under FairSpec.                                               *)

(* A breached loss limit ends the run, even if the user keeps pausing and  *)
(* resuming it and even if the venue never answers.                        *)
BreachStopsRun == \A r \in Run : pc[r] = "fail_lock" ~> sm[r] = "STOPPED"

(* Every handler returns: worker, loss threads and loop never wait for     *)
(* each other in a circle.                                                 *)
WorkerReturns == pc[Worker] # "idle" ~> pc[Worker] = "idle"
=============================================================================
