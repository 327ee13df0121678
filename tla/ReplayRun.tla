------------------------------ MODULE ReplayRun ------------------------------
(***************************************************************************)
(* A backtest run from the footer's buttons to its last bar and back.      *)
(*                                                                         *)
(* The buttons act on what the UI last heard of the replay; the worker     *)
(* takes their commands one at a time and steers the run by two events,    *)
(* pause and step; the run streams its bars on a thread of its own, which  *)
(* looks at the events before each bar.  What comes back does so on two    *)
(* channels, states and statuses, that are drained independently.          *)
(***************************************************************************)
EXTENDS Naturals, Sequences

CONSTANTS
    MaxRuns,     \* bound: startup ids the UI gives out
    Bars,        \* bars of a run
    MaxQueue,    \* bound: commands that wait for the worker
    MaxPresses,  \* bound: presses of the buttons that start no run
    MaxStatus,   \* bound: statuses that wait when the worker takes a command
    AnyOrder     \* pause, resume, step and stop come in any order, as the calls of
                 \* InprocLiveServer may, and not only when the footer offers them

ASSUME ConstantsAssumption ==
    /\ {MaxRuns, Bars, MaxQueue, MaxPresses, MaxStatus} \subseteq Nat \ {0}
    /\ AnyOrder \in BOOLEAN

Run == 1 .. MaxRuns

VARIABLES
    cmds,      \* TransportCommands
    core,      \* replay_state of the data engine, which is what a poll reads
    ctl,       \* run whose events InprocLiveServer holds, 0 for none
    gate,      \* its events: go (pause_event set), token (step_event set)
    thread,    \* backtest-runner threads: at, and the bars left
    news,      \* replay_state of the last state not yet drained
    status,    \* BackendStatusUpdates not yet drained
    ui,        \* CurrentRun.state, TradingSession.replay_state
    launched,  \* startup ids given out
    ghost,     \* since the last resume: steps given, bars shown while paused
    presses    \* bounded

replayVars == <<cmds, core, ctl, gate, thread, news, status, ui, launched, ghost, presses>>
python == <<core, ctl, gate, thread, ghost>>

Replays == {"none", "IDLE", "LOADED", "RUNNING", "PAUSED"}

Alive(r) == thread[r].at \notin {"none", "done"}

Started(r)  == thread[r].at # "none"
IsLatest(r) == Started(r) /\ \A q \in Run : Started(q) => q <= r

Fresh  == [go |-> TRUE, token |-> FALSE]
Unheld == [given |-> 0, shown |-> 0]

ReplayInit ==
    /\ cmds = <<>> /\ core = "IDLE" /\ ctl = 0
    /\ gate = [r \in Run |-> Fresh]
    /\ thread = [r \in Run |-> [at |-> "none", left |-> Bars]]
    /\ news = "nothing" /\ status = <<>>
    /\ ui = [run |-> "Idle", replay |-> "none"]
    /\ launched = 0
    /\ ghost = Unheld
    /\ presses = 0

-----------------------------------------------------------------------------
(* The footer, in Replay mode                                              *)

Room == Len(cmds) < MaxQueue
Press == presses < MaxPresses /\ presses' = presses + 1
Offered(replays) == AnyOrder \/ ui.replay \in replays
Send(c) == cmds' = Append(cmds, c)
Command(what, id) == [what |-> what, id |-> id]

\* handle_strategy_run_system: the command is sent under a new startup id.
Launch(what) ==
    /\ launched < MaxRuns
    /\ launched' = launched + 1
    /\ Send(Command(what, launched'))

\* The run is trusted to be over if the replay is heard to be idle.
Blocked == ui.run = "Running" /\ ui.replay \notin {"IDLE", "LOADED"}

PressPause ==
    /\ Press /\ Room /\ Offered({"RUNNING"})
    /\ Send(Command("pause", 0))
    /\ UNCHANGED <<python, news, status, ui, launched>>

PressResume ==
    /\ Press /\ Room /\ Offered({"PAUSED"})
    /\ Send(Command("resume", 0))
    /\ UNCHANGED <<python, news, status, ui, launched>>

PressRun ==
    /\ Room /\ ui.replay \notin {"RUNNING", "PAUSED"} /\ ~Blocked
    /\ Launch("run")
    /\ ui' = [ui EXCEPT !.run = "Running"]
    /\ UNCHANGED <<python, news, status, presses>>

\* No strategy, or no cache path.
PressRunInVain ==
    /\ Press /\ ui.replay \notin {"RUNNING", "PAUSED"} /\ ~Blocked
    /\ ui' = [ui EXCEPT !.run = "Failed"]
    /\ UNCHANGED <<python, cmds, news, status, launched>>

\* |> steps a replay that is paused or loaded; from idle it loads first.
PressStep ==
    /\ Press /\ Room
    /\ \/ Offered({"PAUSED", "LOADED"})
          /\ Send(Command("step", 0)) /\ UNCHANGED launched
       \/ ui.replay \in {"none", "IDLE"} /\ Launch("load_and_step")
    /\ UNCHANGED <<python, news, status, ui>>

PressStop ==
    /\ Press /\ Room /\ Offered({"RUNNING", "PAUSED", "LOADED"})
    /\ Send(Command("force_stop", 0))
    /\ UNCHANGED <<python, news, status, ui, launched>>

PressJumpToStart ==
    /\ Press /\ Room
    /\ Send(Command("restart", 0))
    /\ UNCHANGED <<python, news, status, ui, launched>>

-----------------------------------------------------------------------------
(* The worker                                                              *)

Takes(what) ==
    /\ cmds # <<>> /\ Head(cmds).what = what
    /\ Len(status) < MaxStatus
    /\ cmds' = Tail(cmds)

Say(msgs) == status' = status \o msgs
Message(what, id) == [what |-> what, id |-> id]

Pause ==
    /\ Takes("pause")
    /\ gate' = IF ctl = 0 THEN gate ELSE [gate EXCEPT ![ctl].go = FALSE]
    /\ Say(<<Message("PAUSED", 0)>>)
    /\ UNCHANGED <<core, ctl, thread, ghost, news, ui, launched, presses>>

Faulty_Resume ==
    /\ Takes("resume")
    /\ gate' = IF ctl = 0 THEN gate ELSE [gate EXCEPT ![ctl].go = TRUE]
    /\ ghost' = Unheld
    /\ Say(<<Message("RUNNING", 0)>>)
    /\ UNCHANGED <<core, ctl, thread, news, ui, launched, presses>>

\* A step that was not taken does not outlive the pause.
Resume ==
    /\ Takes("resume")
    /\ gate' = IF ctl = 0 THEN gate
               ELSE [gate EXCEPT ![ctl] = Fresh]
    /\ ghost' = Unheld
    /\ Say(<<Message("RUNNING", 0)>>)
    /\ UNCHANGED <<core, ctl, thread, news, ui, launched, presses>>

\* The step is followed by a poll.
StepForward ==
    /\ Takes("step")
    /\ IF ctl = 0 THEN UNCHANGED <<gate, ghost>>
       ELSE /\ gate' = [gate EXCEPT ![ctl].token = TRUE]
            /\ ghost' = [ghost EXCEPT !.given = IF gate[ctl].token THEN @ ELSE @ + 1]
    /\ news' = core
    /\ UNCHANGED <<core, ctl, thread, status, ui, launched, presses>>

\* It stops the data engine, not the backtest.
ForceStop ==
    /\ Takes("force_stop")
    /\ core' = "IDLE"
    /\ UNCHANGED <<ctl, gate, thread, ghost, news, status, ui, launched, presses>>

RestartReplay ==
    /\ Takes("restart")
    /\ \/ core' = "LOADED" /\ Say(<<Message("LOADED", 0)>>)
       \/ core' = "IDLE" /\ Say(<<Message("RunFailed", 0)>>)
    /\ UNCHANGED <<ctl, gate, thread, ghost, news, ui, launched, presses>>

LoadAndStep ==
    /\ Takes("load_and_step")
    /\ Say(<<Message("RunFailed", Head(cmds).id)>>)
    /\ UNCHANGED <<python, news, ui, launched, presses>>

\* start_nautilus_replay: refused at once, or on a thread with events of its own.
RunStrategy ==
    /\ Takes("run")
    /\ LET r == Head(cmds).id
       IN  \/ /\ Say(<<Message("RunStarted", r), Message("RunFailed", r)>>)
              /\ UNCHANGED <<ctl, gate, thread, ghost, presses>>
           \/ /\ Say(<<Message("RunStarted", r)>>)
              /\ ctl' = r
              /\ thread' = [thread EXCEPT ![r].at = "loading"]
              /\ ghost' = Unheld
              /\ UNCHANGED gate
    /\ UNCHANGED <<core, news, ui, launched, presses>>

Poll ==
    /\ cmds = <<>>
    /\ news' = core
    /\ UNCHANGED <<python, cmds, status, ui, launched, presses>>

-----------------------------------------------------------------------------
(* The thread of a run                                                     *)

Goto(r, at) == thread' = [thread EXCEPT ![r].at = at]
ThreadEnds(r) == thread' = [thread EXCEPT ![r] = [at |-> "over", left |-> 0]]

Load(r) ==
    /\ thread[r].at = "loading"
    /\ Goto(r, "bar")
    /\ UNCHANGED <<cmds, core, ctl, gate, ghost, news, status, ui, launched, presses>>

Faulty_Fails(r) ==
    /\ thread[r].at \in {"loading", "bar"}
    /\ ThreadEnds(r)
    /\ UNCHANGED <<cmds, core, ctl, gate, ghost, news, status, ui, launched, presses>>

\* The strategy or the catalog cannot be loaded, or the engine raises.
Fails(r) ==
    /\ thread[r].at \in {"loading", "bar"}
    /\ ThreadEnds(r)
    /\ Say(<<Message("RunFailed", r)>>)
    /\ UNCHANGED <<cmds, core, ctl, gate, ghost, news, ui, launched, presses>>

\* pause_event.is_set(): the bar goes on, or the thread looks for a step.
LookAtPause(r) ==
    /\ thread[r].at \in {"bar", "held"} /\ thread[r].left > 0
    /\ Goto(r, IF gate[r].go THEN "push" ELSE "paused")
    /\ UNCHANGED <<cmds, core, ctl, gate, ghost, news, status, ui, launched, presses>>

\* step_event.is_set(), then wait for the pause event a while.
LookAtStep(r) ==
    /\ thread[r].at = "paused"
    /\ Goto(r, IF gate[r].token THEN "step" ELSE "held")
    /\ UNCHANGED <<cmds, core, ctl, gate, ghost, news, status, ui, launched, presses>>

\* step_event.clear()
TakeStep(r) ==
    /\ thread[r].at = "step"
    /\ gate' = [gate EXCEPT ![r].token = FALSE]
    /\ Goto(r, "push")
    /\ UNCHANGED <<cmds, core, ctl, ghost, news, status, ui, launched, presses>>

\* The state of a bar has no replay_state.
PushBar(r) ==
    /\ thread[r].at = "push"
    /\ thread' = [thread EXCEPT ![r] = [at |-> "bar", left |-> @.left - 1]]
    /\ ghost' = IF r = ctl /\ ~gate[r].go THEN [ghost EXCEPT !.shown = @ + 1] ELSE ghost
    /\ news' = "none"
    /\ UNCHANGED <<cmds, core, ctl, gate, status, ui, launched, presses>>

Complete(r) ==
    /\ thread[r].at = "bar" /\ thread[r].left = 0
    /\ ThreadEnds(r)
    /\ Say(<<Message("RunComplete", r)>>)
    /\ UNCHANGED <<cmds, core, ctl, gate, ghost, news, ui, launched, presses>>

Faulty_Release(r) ==
    /\ thread[r].at = "over"
    /\ ctl' = 0
    /\ gate' = [gate EXCEPT ![r] = Fresh]
    /\ ghost' = Unheld
    /\ Goto(r, "done")
    /\ UNCHANGED <<cmds, core, news, status, ui, launched, presses>>

\* Only its own events are taken from the server; they go with the thread.
Release(r) ==
    /\ thread[r].at = "over"
    /\ ctl' = IF ctl = r THEN 0 ELSE ctl
    /\ gate' = [gate EXCEPT ![r] = Fresh]
    /\ ghost' = IF ctl = r THEN Unheld ELSE ghost
    /\ Goto(r, "done")
    /\ UNCHANGED <<cmds, core, news, status, ui, launched, presses>>

-----------------------------------------------------------------------------
(* The UI hears of it                                                      *)

\* backend_update_system
DrainState ==
    /\ news # "nothing"
    /\ ui' = [ui EXCEPT !.replay = news]
    /\ news' = "nothing"
    /\ UNCHANGED <<python, cmds, status, launched, presses>>

Shows(m) == CASE m.what = "RunStarted"  -> "Running"
              [] m.what = "RunComplete" -> "Completed"
              [] m.what = "RunFailed"   -> "Failed"
              [] OTHER                  -> ui.run

\* apply_status_update
DrainStatus ==
    /\ status # <<>>
    /\ LET m == Head(status)
       IN  ui' = [run |-> Shows(m),
                  replay |-> IF m.what \in Replays THEN m.what ELSE ui.replay]
    /\ status' = Tail(status)
    /\ UNCHANGED <<python, cmds, news, launched, presses>>

-----------------------------------------------------------------------------
Person ==
    \/ PressPause \/ PressResume \/ PressRun \/ PressRunInVain \/ PressStep
    \/ PressStop \/ PressJumpToStart

Worker ==
    \/ Pause \/ Resume \/ StepForward \/ ForceStop \/ RestartReplay
    \/ LoadAndStep \/ RunStrategy \/ Poll

Thread(r) ==
    \/ Load(r) \/ Fails(r) \/ LookAtPause(r) \/ LookAtStep(r) \/ TakeStep(r)
    \/ PushBar(r) \/ Complete(r) \/ Release(r)

Drain == DrainState \/ DrainStatus

ReplayNext == Person \/ Worker \/ (\E r \in Run : Thread(r)) \/ Drain

\* The worker and the threads go on, and every frame drains.
ReplaySpec == /\ ReplayInit /\ [][ReplayNext]_replayVars
        /\ WF_replayVars(Worker) /\ WF_replayVars(DrainState) /\ WF_replayVars(DrainStatus)
        /\ \A r \in Run : WF_replayVars(Thread(r))

-----------------------------------------------------------------------------
\* A pause holds: until the next resume the run shows no more bars than steps
\* were given since the last one, but for the bar that was past the gate when
\* the pause came.  A step left over from before the resume is not taken
\* (GuiBridgeActor's gate, resume_backtest).
PauseHolds == ghost.shown <= ghost.given + 1

\* The buttons reach the run that was started last, as long as its thread
\* lives, however late the threads before it end; and nothing but it
\* (start_nautilus_replay's identity check).
ControlsReachLatest ==
    /\ \A r \in Run : IsLatest(r) /\ Alive(r) => ctl = r
    /\ ctl # 0 => Alive(ctl)

\* A run that is not held ends and is shown to have ended: complete, refused,
\* failed while loading or in the middle.
EndIsShown ==
    (ui.run = "Running") ~>
        \/ ui.run # "Running"
        \/ \E r \in Run : IsLatest(r) /\ Alive(r) /\ ~gate[r].go

=============================================================================
