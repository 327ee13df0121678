---------------------------- MODULE LiveRunProofs ----------------------------
(***************************************************************************)
(* Proofs about LiveRun, for every number of runs and every length of the  *)
(* registry's history: type correctness; the inductive invariant from      *)
(* which the slot, the absence of stranded runs, the loss watch and the    *)
(* release of the rails follow; that the runs live as RunLifecycle says;   *)
(* and a second inductive invariant, about the order of the live loop's    *)
(* queue, from which follow whose kernel the controller holds, that the    *)
(* sweep of the orders is final and that no order leaves without a run.    *)
(***************************************************************************)
EXTENDS LiveRun, FiniteSetTheorems, TLAPS

-----------------------------------------------------------------------------
(* Type correctness is inductive by itself, except that a thread that      *)
(* works must know its run.                                                *)

(* The worker past its lock works for a run.                               *)
JobKnown == pc[Worker] \notin {"idle", "start_lock"} => job \in Run

TypeInv == TypeOK /\ JobKnown

(* The steps at which a thread tears a run down.                           *)
TeardownSteps == {"cancel", "cancel_wait", "detach", "stop_wait", "finish"}

(* Which steps belong to whom.                                             *)
Roles ==
    /\ pc[Worker] # "fail_lock"
    /\ \A r \in Run : pc[r] \in TeardownSteps \cup {"idle", "fail_lock", "read", "push"}

(* The lock is held exactly by the thread whose step says so.              *)
LockHeld == \A t \in Thread : pc[t] \in Holding <=> lock = t

(* Numbers not yet drawn are untouched.                                    *)
Numbering ==
    \A r \in Run : r >= fresh =>
        r \notin registered /\ sm[r] = "IDLE" /\ pc[r] = "idle" /\ r \notin rails

(* What the worker knows about its run on the way through a start: nobody  *)
(* else touches it, because the loss thread needs its rails.               *)
StartPhases ==
    /\ pc[Worker] = "attach_wait" =>
         job \in registered /\ sm[job] = "READY" /\ pc[job] = "idle" /\ job \notin rails
    /\ pc[Worker] = "set_rails" =>
         job \in registered /\ sm[job] = "RUNNING" /\ pc[job] = "idle" /\ job \notin rails

(* ... and about a run it or a loss thread is stopping.                    *)
StopPhases ==
    /\ pc[Worker] = "release" => sm[job] = "STOPPED"
    /\ \A t \in Thread : pc[t] \in TeardownSteps =>
         RunOf(t) \in registered /\ sm[RunOf(t)] \in {"STOPPING", "ERROR"}

(* A registered run is settled, or some thread is at work on it under the  *)
(* lock.                                                                   *)
Settled ==
    \A r \in registered :
        \/ sm[r] \in {"RUNNING", "PAUSED", "STOPPED"}
        \/ pc[Worker] = "attach_wait" /\ job = r
        \/ \E t \in Thread : pc[t] \in TeardownSteps /\ RunOf(t) = r

(* A run whose rails are still there has no loss thread yet.               *)
RailsIdle == \A r \in rails : pc[r] = "idle"

HostInv ==
    /\ Roles
    /\ LockHeld
    /\ Numbering
    /\ StartPhases
    /\ StopPhases
    /\ Settled
    /\ OneActiveRun
    /\ RailsIdle
    /\ LossWatched
    /\ RailsReleased

IInv == TypeInv /\ HostInv

-----------------------------------------------------------------------------

LEMMA EvictedStopped ==
    ASSUME NEW runs, NEW r \in Evicted(runs)
    PROVE  r \in runs /\ sm[r] = "STOPPED"
BY DEF Evicted

LEMMA ScheduleType ==
    ASSUME loopq \in Seq(LoopTask), NEW r \in Run,
           NEW task \in {"attach", "cancel", "stop"}, Schedule(task, r)
    PROVE  loopq' \in Seq(LoopTask)
BY DEF Schedule, LoopTask

LEMMA BeginType ==
    ASSUME loopq \in Seq(LoopTask), NEW r, NEW task, Begin(task, r)
    PROVE  loopq' \in Seq(LoopTask) /\ r \in Run
BY DEF Begin, LoopTask

LEMMA TypeInit == Init => TypeInv
<1> SUFFICES ASSUME Init PROVE TypeInv
  OBVIOUS
<1> USE ConstantsAssumption DEF Init, Run, Worker, Thread
<1>1. mode \in Mode /\ session \in BOOLEAN /\ fetching \in BOOLEAN
  BY DEF Mode
<1>2. sm \in [Run -> Status] /\ registered \subseteq Run /\ fresh \in 1 .. MaxRuns + 1
  BY DEF Status
<1>3. lock \in Thread \cup {None} /\ job \in Run \cup {None}
  OBVIOUS
<1>4. pc \in [Thread -> Step] /\ seen \in [Thread -> Status \cup {None}]
  BY DEF Step
<1>5. loopq \in Seq(LoopTask)
  OBVIOUS
<1>6. attach \in [Run -> AttachStep] /\ ord \in [Run -> OrderStatus]
  BY DEF AttachStep, OrderStatus
<1>7. kernel \in Run \cup {None} /\ listener \in Run \cup {None}
  OBVIOUS
<1>8. kernels \subseteq Run /\ taps \subseteq Run /\ swept \subseteq Run
  OBVIOUS
<1>9. rails \subseteq Run /\ baseline \subseteq Run /\ announced \subseteq Run
  OBVIOUS
<1>10. shown \in [Run -> Status \cup {None}]
  OBVIOUS
<1>11. JobKnown
  BY DEF JobKnown
<1>12. QED
  BY <1>1, <1>2, <1>3, <1>4, <1>5, <1>6, <1>7, <1>8, <1>9, <1>10, <1>11 DEF TypeInv, TypeOK

USE DEF hostVars, threadVars, kernelVars, orderVars, railVars, envVars, uiVars

(* Each step of the worker, of a thread, of the loop, of the venue, of     *)
(* account sync and of the user keeps the types.                           *)
LEMMA TypeStep == TypeInv /\ [Next]_vars => TypeInv'
<1> SUFFICES ASSUME TypeInv, [Next]_vars PROVE TypeInv'
  OBVIOUS
<1> USE ConstantsAssumption DEF TypeInv, TypeOK, JobKnown, Run, Worker, Thread, Status,
      Mode, Holding, Step, AttachStep, OrderStatus, Goto
<1>1. CASE StartLiveStrategy
  BY <1>1 DEF StartLiveStrategy
<1>2. CASE \E r \in Run : r < fresh /\ (PauseLiveStrategy(r) \/ ResumeLiveStrategy(r)
                                        \/ StopLiveStrategy(r))
  <2>1. ASSUME NEW r \in Run, NEW step \in {"pause_lock", "resume_lock", "stop_lock"},
               ControlRun(step, r)
        PROVE  TypeInv'
    BY <2>1 DEF ControlRun
  <2>2. QED
    BY <1>2, <2>1 DEF PauseLiveStrategy, ResumeLiveStrategy, StopLiveStrategy
<1>3. CASE (\E m \in Mode : SetExecutionMode(m)) \/ VenueLogin \/ VenueLogout
  BY <1>3 DEF SetExecutionMode, VenueLogin, VenueLogout
<1>4. CASE StartRefused \/ AttachSucceeded \/ AttachGivenUp \/ SetRails
  <2>1. CASE StartRefused
    BY <2>1 DEF StartRefused
  <2>2. CASE AttachSucceeded
    BY <2>2 DEF AttachSucceeded
  <2>3. CASE AttachGivenUp
    BY <2>3 DEF AttachGivenUp
  <2>4. CASE SetRails
    BY <2>4 DEF SetRails
  <2>5. QED
    BY <1>4, <2>1, <2>2, <2>3, <2>4
<1>5. CASE StartRegistered
  <2>1. loopq' \in Seq(LoopTask)
    BY <1>5, ScheduleType DEF StartRegistered
  <2>2. fresh \in Run /\ fresh' \in 1 .. MaxRuns + 1
    BY <1>5 DEF StartRegistered
  <2>3. registered' \subseteq Run /\ job' \in Run /\ lock' \in Thread
    BY <1>5, <2>2 DEF StartRegistered
  <2>4. sm' \in [Run -> Status] /\ attach' \in [Run -> AttachStep] /\ pc' \in [Thread -> Step]
    BY <1>5, <2>2 DEF StartRegistered
  <2>5. UNCHANGED <<mode, session, seen, kernel, kernels, listener, taps, ord, swept,
                    rails, baseline, fetching, shown, announced>>
    BY <1>5 DEF StartRegistered
  <2>6. QED
    BY <2>1, <2>2, <2>3, <2>4, <2>5
<1>6. CASE ControlRefused \/ PauseRun \/ ResumeRun \/ StopAgain \/ StopRun \/ ReleaseRails
  <2>1. CASE ControlRefused
    BY <2>1 DEF ControlRefused
  <2>2. CASE PauseRun
    BY <2>2 DEF PauseRun
  <2>3. CASE ResumeRun
    BY <2>3 DEF ResumeRun
  <2>4. CASE StopAgain
    BY <2>4 DEF StopAgain
  <2>5. CASE StopRun
    BY <2>5 DEF StopRun
  <2>6. CASE ReleaseRails
    BY <2>6 DEF ReleaseRails
  <2>7. QED
    BY <1>6, <2>1, <2>2, <2>3, <2>4, <2>5, <2>6
<1>7. ASSUME NEW t \in Thread, CancelInflight(t) PROVE TypeInv'
  <2>1. loopq' \in Seq(LoopTask)
    BY <1>7, ScheduleType DEF CancelInflight
  <2>2. QED
    BY <1>7, <2>1 DEF CancelInflight
<1>8. ASSUME NEW t \in Thread, Detach(t) PROVE TypeInv'
  <2>1. loopq' \in Seq(LoopTask)
    BY <1>8, ScheduleType DEF Detach
  <2>2. QED
    BY <1>8, <2>1 DEF Detach
<1>9. ASSUME NEW t \in Thread, CancelWaited(t) \/ StopWaited(t) PROVE TypeInv'
  <2>1. CASE CancelWaited(t)
    BY <2>1 DEF CancelWaited
  <2>2. CASE StopWaited(t)
    BY <2>2 DEF StopWaited
  <2>3. QED
    BY <1>9, <2>1, <2>2
<1>10. ASSUME NEW t \in Thread, Finish(t) PROVE TypeInv'
  BY <1>10 DEF Finish, RunOf
<1>11. ASSUME NEW t \in Thread, ReadStatus(t) PROVE TypeInv'
  BY <1>11 DEF ReadStatus, RunOf
<1>12. ASSUME NEW t \in Thread, PushStatus(t) PROVE TypeInv'
  BY <1>12 DEF PushStatus, RunOf
<1>13. ASSUME NEW r \in Run, LossStep(r) PROVE TypeInv'
  <2>1. CASE FailUnknown(r)
    BY <2>1 DEF FailUnknown
  <2>2. CASE FailStopped(r)
    BY <2>2 DEF FailStopped
  <2>3. CASE FailRun(r)
    BY <2>3 DEF FailRun
  <2>4. QED
    BY <1>13, <2>1, <2>2, <2>3 DEF LossStep
<1>14. ASSUME NEW r \in Run, LoopStep(r) PROVE TypeInv'
  <2>1. loopq' \in Seq(LoopTask)
    BY <1>14, BeginType DEF LoopStep, AttachFails, AttachKernel, CancelSweep, KernelStops
  <2>2. CASE AttachFails(r) \/ AttachKernel(r)
    BY <2>1, <2>2 DEF AttachFails, AttachKernel
  <2>3. CASE CancelSweep(r)
    <3>1. ord' \in [Run -> OrderStatus]
      <4>1. PICK s \in OrderStatus : ord' = [ord EXCEPT ![r] = s]
        BY <2>3 DEF CancelSweep
      <4>2. QED
        BY <4>1
    <3>2. swept' \subseteq Run
      BY <2>3 DEF CancelSweep
    <3>3. QED
      BY <2>1, <2>3, <3>1, <3>2 DEF CancelSweep
  <2>4. CASE KernelStops(r)
    BY <2>1, <2>4 DEF KernelStops
  <2>5. QED
    BY <1>14, <2>2, <2>3, <2>4 DEF LoopStep
<1>15. ASSUME NEW r \in Run, VenueStep(r) PROVE TypeInv'
  <2>1. CASE AttachTap(r)
    BY <2>1 DEF AttachTap
  <2>2. CASE SubmitOrder(r)
    BY <2>2 DEF SubmitOrder
  <2>3. CASE SubmitAnswered(r)
    BY <2>3 DEF SubmitAnswered
  <2>4. CASE CancelAnswered(r)
    BY <2>4 DEF CancelAnswered
  <2>5. QED
    BY <1>15, <2>1, <2>2, <2>3, <2>4 DEF VenueStep
<1>16. CASE AccountStep
  <2>1. CASE AccountFetch
    BY <2>1 DEF AccountFetch
  <2>2. CASE SnapshotWithinLimit
    BY <2>2 DEF SnapshotWithinLimit
  <2>3. ASSUME NEW r \in Run, SnapshotBreach(r) PROVE TypeInv'
    <3>1. pc' \in [Thread -> Step] /\ pc'[Worker] = pc[Worker]
      BY <2>3 DEF SnapshotBreach
    <3>2. rails' \subseteq Run /\ baseline' \subseteq Run /\ fetching' \in BOOLEAN
      BY <2>3 DEF SnapshotBreach
    <3>3. QED
      BY <2>3, <3>1, <3>2 DEF SnapshotBreach
  <2>4. QED
    BY <1>16, <2>1, <2>2, <2>3 DEF AccountStep
<1>17. CASE UNCHANGED vars
  BY <1>17 DEF vars
<1>18. QED
  BY <1>1, <1>2, <1>3, <1>4, <1>5, <1>6, <1>7, <1>8, <1>9, <1>10, <1>11, <1>12,
     <1>13, <1>14, <1>15, <1>16, <1>17
     DEF Next, WorkerRequest, WorkerStep, ThreadStep

(* Every state the backend can reach is well typed, and a worker past its  *)
(* lock has a run to work on.                                              *)
THEOREM TypeCorrect == Spec => []TypeOK
<1>1. TypeInv => TypeOK
  BY DEF TypeInv
<1>2. QED
  BY <1>1, TypeInit, TypeStep, PTL DEF Spec

-----------------------------------------------------------------------------
(* The inductive invariant.  Only these variables matter to it.            *)

watched == <<sm, registered, fresh, lock, pc, job, rails, baseline>>

LEMMA HostInit == Init => HostInv
BY ConstantsAssumption DEF Init, HostInv, Roles, LockHeld, Numbering, StartPhases, StopPhases,
   Settled, OneActiveRun, RailsIdle, LossWatched, RailsReleased, Run, Worker, Thread, Holding,
   TeardownSteps

LEMMA HostUnchanged == HostInv /\ UNCHANGED watched => HostInv'
BY DEF watched, HostInv, Roles, LockHeld, Numbering, StartPhases, StopPhases, Settled,
   OneActiveRun, RailsIdle, LossWatched, RailsReleased, RunOf, Active

LEMMA StartLiveStrategyKeeps ==
    ASSUME IInv, StartLiveStrategy
    PROVE  HostInv'
<1> USE ConstantsAssumption DEF IInv, TypeInv, TypeOK, JobKnown, HostInv, Run,
     Worker, Thread, Holding, TeardownSteps, RunOf, Goto
<1>1. Roles'
  BY DEF StartLiveStrategy, Roles
<1>2. LockHeld'
  BY DEF StartLiveStrategy, LockHeld
<1>3. Numbering'
  BY DEF StartLiveStrategy, Numbering
<1>4. StartPhases'
  BY DEF StartLiveStrategy, StartPhases
<1>5. StopPhases'
  BY DEF StartLiveStrategy, StopPhases
<1>6. Settled'
  BY DEF StartLiveStrategy, Settled
<1>7. OneActiveRun'
  BY DEF StartLiveStrategy, OneActiveRun
<1>8. RailsIdle'
  BY DEF StartLiveStrategy, RailsIdle
<1>9. LossWatched'
  BY DEF StartLiveStrategy, LossWatched
<1>10. RailsReleased'
  BY DEF StartLiveStrategy, RailsReleased, Active
<1>11. QED
  BY <1>1, <1>2, <1>3, <1>4, <1>5, <1>6, <1>7, <1>8, <1>9, <1>10

LEMMA StartRefusedKeeps ==
    ASSUME IInv, StartRefused
    PROVE  HostInv'
<1> USE ConstantsAssumption DEF IInv, TypeInv, TypeOK, JobKnown, HostInv, Run,
     Worker, Thread, Holding, TeardownSteps, RunOf, Goto
<1>1. Roles'
  BY DEF StartRefused, Roles
<1>2. LockHeld'
  BY DEF StartRefused, LockHeld
<1>3. Numbering'
  BY DEF StartRefused, Numbering
<1>4. StartPhases'
  BY DEF StartRefused, StartPhases
<1>5. StopPhases'
  BY DEF StartRefused, StopPhases
<1>6. Settled'
  BY DEF StartRefused, Settled
<1>7. OneActiveRun'
  BY DEF StartRefused, OneActiveRun
<1>8. RailsIdle'
  BY DEF StartRefused, RailsIdle
<1>9. LossWatched'
  BY DEF StartRefused, LossWatched
<1>10. RailsReleased'
  BY DEF StartRefused, RailsReleased, Active
<1>11. QED
  BY <1>1, <1>2, <1>3, <1>4, <1>5, <1>6, <1>7, <1>8, <1>9, <1>10

LEMMA StartRegisteredKeeps ==
    ASSUME IInv, StartRegistered
    PROVE  HostInv'
<1> USE ConstantsAssumption DEF IInv, TypeInv, TypeOK, JobKnown, HostInv, Run,
     Worker, Thread, Holding, TeardownSteps, RunOf, Goto
<1>1. fresh \in Run /\ fresh \notin registered /\ pc[fresh] = "idle" /\ fresh \notin rails
  BY DEF StartRegistered, Numbering
<1>2. fresh \in registered' /\ registered' \subseteq registered \cup {fresh}
  BY <1>1, EvictedStopped DEF StartRegistered
<1>3. \A r \in registered : sm[r] = "STOPPED" /\ sm'[r] = "STOPPED"
  BY <1>1 DEF StartRegistered, Active
<1>4. \A r \in rails : (r \in registered /\ sm[r] # "STOPPED") \/ pc[Worker] = "release"
  BY DEF RailsReleased, Active
<1>5. Roles'
  BY <1>1, <1>2, <1>3, <1>4 DEF StartRegistered, Roles, Active
<1>6. LockHeld'
  BY <1>1, <1>2, <1>3, <1>4 DEF StartRegistered, LockHeld, Active
<1>7. Numbering'
  BY <1>1, <1>2, <1>3, <1>4 DEF StartRegistered, Numbering, Active
<1>8. StartPhases'
  BY <1>1, <1>2, <1>3, <1>4 DEF StartRegistered, StartPhases, Active
<1>9. StopPhases'
  BY <1>1, <1>2, <1>3, <1>4 DEF StartRegistered, StopPhases, Active
<1>10. Settled'
  BY <1>1, <1>2, <1>3, <1>4 DEF StartRegistered, Settled, Active
<1>11. OneActiveRun'
  BY <1>1, <1>2, <1>3, <1>4 DEF StartRegistered, OneActiveRun, Active
<1>12. RailsIdle'
  BY <1>1, <1>2, <1>3, <1>4 DEF StartRegistered, RailsIdle, Active
<1>13. LossWatched'
  BY <1>1, <1>2, <1>3, <1>4 DEF StartRegistered, LossWatched, Active
<1>14. RailsReleased'
  BY <1>1, <1>2, <1>3, <1>4 DEF StartRegistered, RailsReleased, Active
<1>15. QED
  BY <1>5, <1>6, <1>7, <1>8, <1>9, <1>10, <1>11, <1>12, <1>13, <1>14

LEMMA AttachSucceededKeeps ==
    ASSUME IInv, AttachSucceeded
    PROVE  HostInv'
<1> USE ConstantsAssumption DEF IInv, TypeInv, TypeOK, JobKnown, HostInv, Run,
     Worker, Thread, Holding, TeardownSteps, RunOf, Goto
<1>1. Roles'
  BY DEF AttachSucceeded, Roles
<1>2. LockHeld'
  BY DEF AttachSucceeded, LockHeld
<1>3. Numbering'
  BY DEF AttachSucceeded, Numbering, LockHeld, Roles, StartPhases, StopPhases
<1>4. StartPhases'
  BY DEF AttachSucceeded, StartPhases
<1>5. StopPhases'
  BY DEF AttachSucceeded, StopPhases, LockHeld, Roles
<1>6. Settled'
  BY DEF AttachSucceeded, Settled
<1>7. OneActiveRun'
  BY DEF AttachSucceeded, OneActiveRun, LockHeld, Roles, StartPhases, StopPhases
<1>8. RailsIdle'
  BY DEF AttachSucceeded, RailsIdle
<1>9. LossWatched'
  BY DEF AttachSucceeded, LossWatched
<1>10. RailsReleased'
  BY DEF AttachSucceeded, RailsReleased, Active
<1>11. QED
  BY <1>1, <1>2, <1>3, <1>4, <1>5, <1>6, <1>7, <1>8, <1>9, <1>10

LEMMA AttachGivenUpKeeps ==
    ASSUME IInv, AttachGivenUp
    PROVE  HostInv'
<1> USE ConstantsAssumption DEF IInv, TypeInv, TypeOK, JobKnown, HostInv, Run,
     Worker, Thread, Holding, TeardownSteps, RunOf, Goto
<1>1. Roles'
  BY DEF AttachGivenUp, Roles
<1>2. LockHeld'
  BY DEF AttachGivenUp, LockHeld
<1>3. Numbering'
  BY DEF AttachGivenUp, Numbering, LockHeld, Roles, StartPhases, StopPhases
<1>4. StartPhases'
  BY DEF AttachGivenUp, StartPhases
<1>5. StopPhases'
  BY DEF AttachGivenUp, StopPhases, LockHeld, Roles
<1>6. Settled'
  BY DEF AttachGivenUp, Settled
<1>7. OneActiveRun'
  BY DEF AttachGivenUp, OneActiveRun
<1>8. RailsIdle'
  BY DEF AttachGivenUp, RailsIdle
<1>9. LossWatched'
  BY DEF AttachGivenUp, LossWatched
<1>10. RailsReleased'
  BY DEF AttachGivenUp, RailsReleased, LockHeld, Roles, StartPhases, StopPhases,
     Active
<1>11. QED
  BY <1>1, <1>2, <1>3, <1>4, <1>5, <1>6, <1>7, <1>8, <1>9, <1>10

LEMMA SetRailsKeeps ==
    ASSUME IInv, SetRails
    PROVE  HostInv'
<1> USE ConstantsAssumption DEF IInv, TypeInv, TypeOK, JobKnown, HostInv, Run,
     Worker, Thread, Holding, TeardownSteps, RunOf, Goto
<1>1. Roles'
  BY DEF SetRails, Roles
<1>2. LockHeld'
  BY DEF SetRails, LockHeld
<1>3. Numbering'
  BY DEF SetRails, Numbering, LockHeld, Roles, StartPhases, StopPhases
<1>4. StartPhases'
  BY DEF SetRails, StartPhases
<1>5. StopPhases'
  BY DEF SetRails, StopPhases
<1>6. Settled'
  BY DEF SetRails, Settled
<1>7. OneActiveRun'
  BY DEF SetRails, OneActiveRun
<1>8. RailsIdle'
  BY DEF SetRails, RailsIdle, LockHeld, Roles, StartPhases, StopPhases
<1>9. LossWatched'
  BY DEF SetRails, LossWatched
<1>10. RailsReleased'
  BY DEF SetRails, RailsReleased, LockHeld, Roles, StartPhases, StopPhases, Active
<1>11. QED
  BY <1>1, <1>2, <1>3, <1>4, <1>5, <1>6, <1>7, <1>8, <1>9, <1>10

LEMMA ControlRefusedKeeps ==
    ASSUME IInv, ControlRefused
    PROVE  HostInv'
<1> USE ConstantsAssumption DEF IInv, TypeInv, TypeOK, JobKnown, HostInv, Run,
     Worker, Thread, Holding, TeardownSteps, RunOf, Goto
<1>1. Roles'
  BY DEF ControlRefused, Roles
<1>2. LockHeld'
  BY DEF ControlRefused, LockHeld
<1>3. Numbering'
  BY DEF ControlRefused, Numbering
<1>4. StartPhases'
  BY DEF ControlRefused, StartPhases
<1>5. StopPhases'
  BY DEF ControlRefused, StopPhases
<1>6. Settled'
  BY DEF ControlRefused, Settled
<1>7. OneActiveRun'
  BY DEF ControlRefused, OneActiveRun
<1>8. RailsIdle'
  BY DEF ControlRefused, RailsIdle
<1>9. LossWatched'
  BY DEF ControlRefused, LossWatched
<1>10. RailsReleased'
  BY DEF ControlRefused, RailsReleased, Active
<1>11. QED
  BY <1>1, <1>2, <1>3, <1>4, <1>5, <1>6, <1>7, <1>8, <1>9, <1>10

LEMMA PauseRunKeeps ==
    ASSUME IInv, PauseRun
    PROVE  HostInv'
<1> USE ConstantsAssumption DEF IInv, TypeInv, TypeOK, JobKnown, HostInv, Run,
     Worker, Thread, Holding, TeardownSteps, RunOf, Goto
<1>1. Roles'
  BY DEF PauseRun, Roles, CanPause
<1>2. LockHeld'
  BY DEF PauseRun, LockHeld, CanPause
<1>3. Numbering'
  BY DEF PauseRun, Numbering, CanPause
<1>4. StartPhases'
  BY DEF PauseRun, StartPhases, CanPause
<1>5. StopPhases'
  BY DEF PauseRun, StopPhases, CanPause
<1>6. Settled'
  BY DEF PauseRun, Settled, CanPause
<1>7. OneActiveRun'
  BY DEF PauseRun, OneActiveRun, CanPause
<1>8. RailsIdle'
  BY DEF PauseRun, RailsIdle, CanPause
<1>9. LossWatched'
  BY DEF PauseRun, LossWatched, CanPause
<1>10. RailsReleased'
  BY DEF PauseRun, RailsReleased, Active, CanPause
<1>11. QED
  BY <1>1, <1>2, <1>3, <1>4, <1>5, <1>6, <1>7, <1>8, <1>9, <1>10

LEMMA ResumeRunKeeps ==
    ASSUME IInv, ResumeRun
    PROVE  HostInv'
<1> USE ConstantsAssumption DEF IInv, TypeInv, TypeOK, JobKnown, HostInv, Run,
     Worker, Thread, Holding, TeardownSteps, RunOf, Goto
<1>1. Roles'
  BY DEF ResumeRun, Roles, CanResume
<1>2. LockHeld'
  BY DEF ResumeRun, LockHeld, CanResume
<1>3. Numbering'
  BY DEF ResumeRun, Numbering, CanResume
<1>4. StartPhases'
  BY DEF ResumeRun, StartPhases, CanResume
<1>5. StopPhases'
  BY DEF ResumeRun, StopPhases, CanResume
<1>6. Settled'
  BY DEF ResumeRun, Settled, CanResume
<1>7. OneActiveRun'
  BY DEF ResumeRun, OneActiveRun, CanResume
<1>8. RailsIdle'
  BY DEF ResumeRun, RailsIdle, CanResume
<1>9. LossWatched'
  BY DEF ResumeRun, LossWatched, CanResume
<1>10. RailsReleased'
  BY DEF ResumeRun, RailsReleased, Active, CanResume
<1>11. QED
  BY <1>1, <1>2, <1>3, <1>4, <1>5, <1>6, <1>7, <1>8, <1>9, <1>10

LEMMA StopAgainKeeps ==
    ASSUME IInv, StopAgain
    PROVE  HostInv'
<1> USE ConstantsAssumption DEF IInv, TypeInv, TypeOK, JobKnown, HostInv, Run,
     Worker, Thread, Holding, TeardownSteps, RunOf, Goto
<1>1. Roles'
  BY DEF StopAgain, Roles
<1>2. LockHeld'
  BY DEF StopAgain, LockHeld
<1>3. Numbering'
  BY DEF StopAgain, Numbering
<1>4. StartPhases'
  BY DEF StopAgain, StartPhases
<1>5. StopPhases'
  BY DEF StopAgain, StopPhases
<1>6. Settled'
  BY DEF StopAgain, Settled
<1>7. OneActiveRun'
  BY DEF StopAgain, OneActiveRun
<1>8. RailsIdle'
  BY DEF StopAgain, RailsIdle
<1>9. LossWatched'
  BY DEF StopAgain, LossWatched
<1>10. RailsReleased'
  BY DEF StopAgain, RailsReleased, Active
<1>11. QED
  BY <1>1, <1>2, <1>3, <1>4, <1>5, <1>6, <1>7, <1>8, <1>9, <1>10

LEMMA StopRunKeeps ==
    ASSUME IInv, StopRun
    PROVE  HostInv'
<1> USE ConstantsAssumption DEF IInv, TypeInv, TypeOK, JobKnown, HostInv, Run,
     Worker, Thread, Holding, TeardownSteps, RunOf, Goto
<1>1. Roles'
  BY DEF StopRun, Roles, Active
<1>2. LockHeld'
  BY DEF StopRun, LockHeld, Active
<1>3. Numbering'
  BY DEF StopRun, Numbering, Active
<1>4. StartPhases'
  BY DEF StopRun, StartPhases, Active
<1>5. StopPhases'
  BY DEF StopRun, StopPhases, Active
<1>6. Settled'
  BY DEF StopRun, Settled, Active
<1>7. OneActiveRun'
  BY DEF StopRun, OneActiveRun, Active
<1>8. RailsIdle'
  BY DEF StopRun, RailsIdle, Active
<1>9. LossWatched'
  BY DEF StopRun, LossWatched, Active
<1>10. RailsReleased'
  BY DEF StopRun, RailsReleased, Active
<1>11. QED
  BY <1>1, <1>2, <1>3, <1>4, <1>5, <1>6, <1>7, <1>8, <1>9, <1>10

LEMMA ReleaseRailsKeeps ==
    ASSUME IInv, ReleaseRails
    PROVE  HostInv'
<1> USE ConstantsAssumption DEF IInv, TypeInv, TypeOK, JobKnown, HostInv, Run,
     Worker, Thread, Holding, TeardownSteps, RunOf, Goto
<1>1. Roles'
  BY DEF ReleaseRails, Roles
<1>2. LockHeld'
  BY DEF ReleaseRails, LockHeld
<1>3. Numbering'
  BY DEF ReleaseRails, Numbering
<1>4. StartPhases'
  BY DEF ReleaseRails, StartPhases
<1>5. StopPhases'
  BY DEF ReleaseRails, StopPhases
<1>6. Settled'
  BY DEF ReleaseRails, Settled
<1>7. OneActiveRun'
  BY DEF ReleaseRails, OneActiveRun
<1>8. RailsIdle'
  BY DEF ReleaseRails, RailsIdle
<1>9. LossWatched'
  BY DEF ReleaseRails, LossWatched, LockHeld, Roles, StartPhases, StopPhases
<1>10. RailsReleased'
  BY DEF ReleaseRails, RailsReleased, Active
<1>11. QED
  BY <1>1, <1>2, <1>3, <1>4, <1>5, <1>6, <1>7, <1>8, <1>9, <1>10

LEMMA CancelInflightKeeps ==
    ASSUME IInv, NEW t \in Thread, CancelInflight(t)
    PROVE  HostInv'
<1> USE ConstantsAssumption DEF IInv, TypeInv, TypeOK, JobKnown, HostInv, Run,
     Worker, Thread, Holding, TeardownSteps, RunOf, Goto
<1>1. PICK step \in {"detach", "cancel_wait"} : pc' = [pc EXCEPT ![t] = step]
  BY DEF CancelInflight
<1>2. pc[t] = "cancel" /\ UNCHANGED <<sm, registered, fresh, lock, job, rails, baseline>>
  BY DEF CancelInflight
<1>3. Roles'
  BY <1>1, <1>2 DEF Roles
<1>4. LockHeld'
  BY <1>1, <1>2 DEF LockHeld
<1>5. Numbering'
  BY <1>1, <1>2 DEF Numbering
<1>6. StartPhases'
  BY <1>1, <1>2 DEF StartPhases
<1>7. StopPhases'
  BY <1>1, <1>2 DEF StopPhases
<1>8. Settled'
  BY <1>1, <1>2 DEF Settled
<1>9. OneActiveRun'
  BY <1>1, <1>2 DEF OneActiveRun
<1>10. RailsIdle'
  BY <1>1, <1>2 DEF RailsIdle
<1>11. LossWatched'
  BY <1>1, <1>2 DEF LossWatched
<1>12. RailsReleased'
  BY <1>1, <1>2 DEF RailsReleased, Active
<1>13. QED
  BY <1>3, <1>4, <1>5, <1>6, <1>7, <1>8, <1>9, <1>10, <1>11, <1>12

LEMMA CancelWaitedKeeps ==
    ASSUME IInv, NEW t \in Thread, CancelWaited(t)
    PROVE  HostInv'
<1> USE ConstantsAssumption DEF IInv, TypeInv, TypeOK, JobKnown, HostInv, Run,
     Worker, Thread, Holding, TeardownSteps, RunOf, Goto
<1>1. Roles'
  BY DEF CancelWaited, Roles
<1>2. LockHeld'
  BY DEF CancelWaited, LockHeld
<1>3. Numbering'
  BY DEF CancelWaited, Numbering
<1>4. StartPhases'
  BY DEF CancelWaited, StartPhases
<1>5. StopPhases'
  BY DEF CancelWaited, StopPhases
<1>6. Settled'
  BY DEF CancelWaited, Settled
<1>7. OneActiveRun'
  BY DEF CancelWaited, OneActiveRun
<1>8. RailsIdle'
  BY DEF CancelWaited, RailsIdle
<1>9. LossWatched'
  BY DEF CancelWaited, LossWatched
<1>10. RailsReleased'
  BY DEF CancelWaited, RailsReleased, Active
<1>11. QED
  BY <1>1, <1>2, <1>3, <1>4, <1>5, <1>6, <1>7, <1>8, <1>9, <1>10

LEMMA DetachKeeps ==
    ASSUME IInv, NEW t \in Thread, Detach(t)
    PROVE  HostInv'
<1> USE ConstantsAssumption DEF IInv, TypeInv, TypeOK, JobKnown, HostInv, Run,
     Worker, Thread, Holding, TeardownSteps, RunOf, Goto
<1>1. PICK step \in {"finish", "stop_wait"} : pc' = [pc EXCEPT ![t] = step]
  BY DEF Detach
<1>2. pc[t] = "detach" /\ UNCHANGED <<sm, registered, fresh, lock, job, rails, baseline>>
  BY DEF Detach
<1>3. Roles'
  BY <1>1, <1>2 DEF Roles
<1>4. LockHeld'
  BY <1>1, <1>2 DEF LockHeld
<1>5. Numbering'
  BY <1>1, <1>2 DEF Numbering
<1>6. StartPhases'
  BY <1>1, <1>2 DEF StartPhases
<1>7. StopPhases'
  BY <1>1, <1>2 DEF StopPhases
<1>8. Settled'
  BY <1>1, <1>2 DEF Settled
<1>9. OneActiveRun'
  BY <1>1, <1>2 DEF OneActiveRun
<1>10. RailsIdle'
  BY <1>1, <1>2 DEF RailsIdle
<1>11. LossWatched'
  BY <1>1, <1>2 DEF LossWatched
<1>12. RailsReleased'
  BY <1>1, <1>2 DEF RailsReleased, Active
<1>13. QED
  BY <1>3, <1>4, <1>5, <1>6, <1>7, <1>8, <1>9, <1>10, <1>11, <1>12

LEMMA StopWaitedKeeps ==
    ASSUME IInv, NEW t \in Thread, StopWaited(t)
    PROVE  HostInv'
<1> USE ConstantsAssumption DEF IInv, TypeInv, TypeOK, JobKnown, HostInv, Run,
     Worker, Thread, Holding, TeardownSteps, RunOf, Goto
<1>1. Roles'
  BY DEF StopWaited, Roles
<1>2. LockHeld'
  BY DEF StopWaited, LockHeld
<1>3. Numbering'
  BY DEF StopWaited, Numbering
<1>4. StartPhases'
  BY DEF StopWaited, StartPhases
<1>5. StopPhases'
  BY DEF StopWaited, StopPhases
<1>6. Settled'
  BY DEF StopWaited, Settled
<1>7. OneActiveRun'
  BY DEF StopWaited, OneActiveRun
<1>8. RailsIdle'
  BY DEF StopWaited, RailsIdle
<1>9. LossWatched'
  BY DEF StopWaited, LossWatched
<1>10. RailsReleased'
  BY DEF StopWaited, RailsReleased, Active
<1>11. QED
  BY <1>1, <1>2, <1>3, <1>4, <1>5, <1>6, <1>7, <1>8, <1>9, <1>10

LEMMA FinishKeeps ==
    ASSUME IInv, NEW t \in Thread, Finish(t)
    PROVE  HostInv'
<1> USE ConstantsAssumption DEF IInv, TypeInv, TypeOK, JobKnown, HostInv, Run,
     Worker, Thread, Holding, TeardownSteps, RunOf, Goto
<1>1. Roles'
  BY DEF Finish, Roles
<1>2. LockHeld'
  BY DEF Finish, LockHeld
<1>3. Numbering'
  BY DEF Finish, Numbering, LockHeld, Roles, StartPhases, StopPhases
<1>4. StartPhases'
  BY DEF Finish, StartPhases
<1>5. StopPhases'
  BY DEF Finish, StopPhases, LockHeld, Roles
<1>6. Settled'
  BY DEF Finish, Settled
<1>7. OneActiveRun'
  BY DEF Finish, OneActiveRun
<1>8. RailsIdle'
  BY DEF Finish, RailsIdle
<1>9. LossWatched'
  BY DEF Finish, LossWatched
<1>10. RailsReleased'
  BY DEF Finish, RailsReleased, StartPhases, StopPhases, RailsIdle, Numbering,
     Active
<1>11. QED
  BY <1>1, <1>2, <1>3, <1>4, <1>5, <1>6, <1>7, <1>8, <1>9, <1>10

LEMMA ReadStatusKeeps ==
    ASSUME IInv, NEW t \in Thread, ReadStatus(t)
    PROVE  HostInv'
<1> USE ConstantsAssumption DEF IInv, TypeInv, TypeOK, JobKnown, HostInv, Run,
     Worker, Thread, Holding, TeardownSteps, RunOf, Goto
<1>1. Roles'
  BY DEF ReadStatus, Roles
<1>2. LockHeld'
  BY DEF ReadStatus, LockHeld
<1>3. Numbering'
  BY DEF ReadStatus, Numbering
<1>4. StartPhases'
  BY DEF ReadStatus, StartPhases
<1>5. StopPhases'
  BY DEF ReadStatus, StopPhases
<1>6. Settled'
  BY DEF ReadStatus, Settled
<1>7. OneActiveRun'
  BY DEF ReadStatus, OneActiveRun
<1>8. RailsIdle'
  BY DEF ReadStatus, RailsIdle
<1>9. LossWatched'
  BY DEF ReadStatus, LossWatched
<1>10. RailsReleased'
  BY DEF ReadStatus, RailsReleased, Active
<1>11. QED
  BY <1>1, <1>2, <1>3, <1>4, <1>5, <1>6, <1>7, <1>8, <1>9, <1>10

LEMMA PushStatusKeeps ==
    ASSUME IInv, NEW t \in Thread, PushStatus(t)
    PROVE  HostInv'
<1> USE ConstantsAssumption DEF IInv, TypeInv, TypeOK, JobKnown, HostInv, Run,
     Worker, Thread, Holding, TeardownSteps, RunOf, Goto
<1>1. Roles'
  BY DEF PushStatus, Roles
<1>2. LockHeld'
  BY DEF PushStatus, LockHeld
<1>3. Numbering'
  BY DEF PushStatus, Numbering
<1>4. StartPhases'
  BY DEF PushStatus, StartPhases
<1>5. StopPhases'
  BY DEF PushStatus, StopPhases
<1>6. Settled'
  BY DEF PushStatus, Settled
<1>7. OneActiveRun'
  BY DEF PushStatus, OneActiveRun
<1>8. RailsIdle'
  BY DEF PushStatus, RailsIdle
<1>9. LossWatched'
  BY DEF PushStatus, LossWatched
<1>10. RailsReleased'
  BY DEF PushStatus, RailsReleased, Active
<1>11. QED
  BY <1>1, <1>2, <1>3, <1>4, <1>5, <1>6, <1>7, <1>8, <1>9, <1>10

LEMMA FailUnknownKeeps ==
    ASSUME IInv, NEW r \in Run, FailUnknown(r)
    PROVE  HostInv'
<1> USE ConstantsAssumption DEF IInv, TypeInv, TypeOK, JobKnown, HostInv, Run,
     Worker, Thread, Holding, TeardownSteps, RunOf, Goto
<1>1. Roles'
  BY DEF FailUnknown, Roles
<1>2. LockHeld'
  BY DEF FailUnknown, LockHeld
<1>3. Numbering'
  BY DEF FailUnknown, Numbering
<1>4. StartPhases'
  BY DEF FailUnknown, StartPhases
<1>5. StopPhases'
  BY DEF FailUnknown, StopPhases
<1>6. Settled'
  BY DEF FailUnknown, Settled
<1>7. OneActiveRun'
  BY DEF FailUnknown, OneActiveRun
<1>8. RailsIdle'
  BY DEF FailUnknown, RailsIdle
<1>9. LossWatched'
  BY DEF FailUnknown, LossWatched
<1>10. RailsReleased'
  BY DEF FailUnknown, RailsReleased, Active
<1>11. QED
  BY <1>1, <1>2, <1>3, <1>4, <1>5, <1>6, <1>7, <1>8, <1>9, <1>10

LEMMA FailStoppedKeeps ==
    ASSUME IInv, NEW r \in Run, FailStopped(r)
    PROVE  HostInv'
<1> USE ConstantsAssumption DEF IInv, TypeInv, TypeOK, JobKnown, HostInv, Run,
     Worker, Thread, Holding, TeardownSteps, RunOf, Goto
<1>1. Roles'
  BY DEF FailStopped, Roles
<1>2. LockHeld'
  BY DEF FailStopped, LockHeld
<1>3. Numbering'
  BY DEF FailStopped, Numbering
<1>4. StartPhases'
  BY DEF FailStopped, StartPhases
<1>5. StopPhases'
  BY DEF FailStopped, StopPhases
<1>6. Settled'
  BY DEF FailStopped, Settled
<1>7. OneActiveRun'
  BY DEF FailStopped, OneActiveRun
<1>8. RailsIdle'
  BY DEF FailStopped, RailsIdle
<1>9. LossWatched'
  BY DEF FailStopped, LossWatched
<1>10. RailsReleased'
  BY DEF FailStopped, RailsReleased, Active
<1>11. QED
  BY <1>1, <1>2, <1>3, <1>4, <1>5, <1>6, <1>7, <1>8, <1>9, <1>10

LEMMA FailRunKeeps ==
    ASSUME IInv, NEW r \in Run, FailRun(r)
    PROVE  HostInv'
<1> USE ConstantsAssumption DEF IInv, TypeInv, TypeOK, JobKnown, HostInv, Run,
     Worker, Thread, Holding, TeardownSteps, RunOf, Goto
<1>1. Roles'
  BY DEF FailRun, Roles, Active
<1>2. LockHeld'
  BY DEF FailRun, LockHeld, Active
<1>3. Numbering'
  BY DEF FailRun, Numbering, Active
<1>4. StartPhases'
  BY DEF FailRun, StartPhases, Active
<1>5. StopPhases'
  BY DEF FailRun, StopPhases, Active
<1>6. Settled'
  BY DEF FailRun, Settled, Active
<1>7. OneActiveRun'
  BY DEF FailRun, OneActiveRun, Active
<1>8. RailsIdle'
  BY DEF FailRun, RailsIdle, Active
<1>9. LossWatched'
  BY DEF FailRun, LossWatched, Active
<1>10. RailsReleased'
  BY DEF FailRun, RailsReleased, Active
<1>11. QED
  BY <1>1, <1>2, <1>3, <1>4, <1>5, <1>6, <1>7, <1>8, <1>9, <1>10

LEMMA SnapshotBreachKeeps ==
    ASSUME IInv, NEW r \in Run, SnapshotBreach(r)
    PROVE  HostInv'
<1> USE ConstantsAssumption DEF IInv, TypeInv, TypeOK, JobKnown, HostInv, Run,
     Worker, Thread, Holding, TeardownSteps, RunOf, Goto
<1>1. Roles'
  BY DEF SnapshotBreach, Roles, Active
<1>2. LockHeld'
  BY DEF SnapshotBreach, LockHeld, StartPhases, StopPhases, RailsIdle, Numbering,
     Active
<1>3. Numbering'
  BY DEF SnapshotBreach, Numbering, Active
<1>4. StartPhases'
  BY DEF SnapshotBreach, StartPhases, Active
<1>5. StopPhases'
  BY DEF SnapshotBreach, StopPhases, Active
<1>6. Settled'
  BY DEF SnapshotBreach, Settled, StartPhases, StopPhases, RailsIdle, Numbering,
     Active
<1>7. OneActiveRun'
  BY DEF SnapshotBreach, OneActiveRun, Active
<1>8. RailsIdle'
  BY DEF SnapshotBreach, RailsIdle, Active
<1>9. LossWatched'
  BY DEF SnapshotBreach, LossWatched, Active
<1>10. RailsReleased'
  BY DEF SnapshotBreach, RailsReleased, Active
<1>11. QED
  BY <1>1, <1>2, <1>3, <1>4, <1>5, <1>6, <1>7, <1>8, <1>9, <1>10

(* Every other step leaves the watched variables alone.                    *)
LEMMA OthersKeep ==
    ASSUME \/ \E m \in Mode : SetExecutionMode(m)
           \/ VenueLogin
           \/ VenueLogout
           \/ \E r \in Run : LoopStep(r) \/ VenueStep(r)
           \/ AccountFetch
           \/ UNCHANGED vars
    PROVE  UNCHANGED watched
BY DEF watched, vars, SetExecutionMode, VenueLogin, VenueLogout, LoopStep, AttachFails,
   AttachKernel, CancelSweep, KernelStops, VenueStep, AttachTap, SubmitOrder,
   SubmitAnswered, CancelAnswered, AccountFetch

LEMMA ControlKeeps ==
    ASSUME IInv, NEW r \in Run, r < fresh,
           NEW step \in {"pause_lock", "resume_lock", "stop_lock"}, ControlRun(step, r)
    PROVE  HostInv'
<1> USE ConstantsAssumption DEF IInv, TypeInv, TypeOK, HostInv, Run, Worker, Thread, Holding,
     TeardownSteps, RunOf, Goto, ControlRun
<1>1. Roles' /\ LockHeld' /\ Numbering'
  BY DEF Roles, LockHeld, Numbering
<1>2. StartPhases' /\ StopPhases'
  BY DEF StartPhases, StopPhases
<1>3. Settled'
  BY DEF Settled, StopPhases
<1>4. OneActiveRun' /\ RailsIdle'
  BY DEF OneActiveRun, RailsIdle, Numbering
<1>5. LossWatched' /\ RailsReleased'
  BY DEF LossWatched, RailsReleased, Active
<1>6. QED
  BY <1>1, <1>2, <1>3, <1>4, <1>5

(* A first snapshot only adds the baseline of a run that has rails.        *)
LEMMA SnapshotWithinLimitKeeps ==
    ASSUME IInv, SnapshotWithinLimit
    PROVE  HostInv'
BY DEF IInv, SnapshotWithinLimit, HostInv, Roles, LockHeld, Numbering, StartPhases, StopPhases,
   Settled, OneActiveRun, RailsIdle, LossWatched, RailsReleased, RunOf, Active

LEMMA HostStep == IInv /\ [Next]_vars => HostInv'
<1> SUFFICES ASSUME IInv, [Next]_vars PROVE HostInv'
  OBVIOUS
<1>1. CASE WorkerStep
  BY <1>1, StartRefusedKeeps, StartRegisteredKeeps, AttachSucceededKeeps,
     AttachGivenUpKeeps, SetRailsKeeps, ControlRefusedKeeps, PauseRunKeeps,
     ResumeRunKeeps, StopAgainKeeps, StopRunKeeps, ReleaseRailsKeeps
     DEF WorkerStep
<1>2. ASSUME NEW t \in Thread, ThreadStep(t) PROVE HostInv'
  BY <1>2, CancelInflightKeeps, CancelWaitedKeeps, DetachKeeps, StopWaitedKeeps,
     FinishKeeps, ReadStatusKeeps, PushStatusKeeps
     DEF ThreadStep
<1>3. ASSUME NEW r \in Run, LossStep(r) PROVE HostInv'
  BY <1>3, FailUnknownKeeps, FailStoppedKeeps, FailRunKeeps DEF LossStep
<1>4. CASE \E r \in Run : SnapshotBreach(r)
  BY <1>4, SnapshotBreachKeeps
<1>5. CASE SnapshotWithinLimit
  BY <1>5, SnapshotWithinLimitKeeps
<1>6. CASE StartLiveStrategy
  BY <1>6, StartLiveStrategyKeeps
<1>7. CASE \E r \in Run : r < fresh /\ (PauseLiveStrategy(r) \/ ResumeLiveStrategy(r)
                                        \/ StopLiveStrategy(r))
  BY <1>7, ControlKeeps DEF PauseLiveStrategy, ResumeLiveStrategy, StopLiveStrategy
<1>8. CASE \/ \E m \in Mode : SetExecutionMode(m)
           \/ VenueLogin
           \/ VenueLogout
           \/ \E r \in Run : LoopStep(r) \/ VenueStep(r)
           \/ AccountFetch
           \/ UNCHANGED vars
  <2>1. HostInv
    BY DEF IInv
  <2>2. QED
    BY <1>8, <2>1, OthersKeep, HostUnchanged
<1>9. QED
  BY <1>1, <1>2, <1>3, <1>4, <1>5, <1>6, <1>7, <1>8 DEF Next, WorkerRequest, AccountStep

LEMMA Invariance == Spec => []IInv
<1>1. Init => IInv
  BY TypeInit, HostInit DEF IInv
<1>2. IInv /\ [Next]_vars => IInv'
  BY TypeStep, HostStep DEF IInv
<1>3. QED
  BY <1>1, <1>2, PTL DEF Spec

-----------------------------------------------------------------------------
(* The results.                                                            *)

(* At most one registered run is not terminal, in every interleaving of    *)
(* the worker with the loss threads and the loop.                          *)
THEOREM SlotIsSingle == Spec => []OneActiveRun
<1>1. IInv => OneActiveRun
  BY DEF IInv, HostInv
<1>2. QED
  BY <1>1, Invariance, PTL

(* When the run lock is free no registered run is half started or half     *)
(* stopped: whoever moved it there holds the lock until it is settled.     *)
THEOREM NobodyStranded == Spec => []NoStrandedRun
<1>1. IInv => NoStrandedRun
  <2> SUFFICES ASSUME IInv, lock = None, NEW r \in registered
               PROVE  sm[r] \in {"RUNNING", "PAUSED", "STOPPED"}
    BY DEF NoStrandedRun
  <2>1. \A t \in Thread : pc[t] \notin Holding
    BY ConstantsAssumption DEF IInv, HostInv, LockHeld, Thread, Worker, Run
  <2>2. pc[Worker] # "attach_wait" /\ \A t \in Thread : pc[t] \notin TeardownSteps
    BY <2>1 DEF Holding, TeardownSteps, Thread
  <2>3. QED
    BY <2>2 DEF IInv, HostInv, Settled
<1>2. QED
  BY <1>1, Invariance, PTL

(* A run that can trade has its rails in the table, or the thread that     *)
(* will fail it is already there, or the worker is about to store them.    *)
THEOREM TradingIsWatched == Spec => []LossWatched
<1>1. IInv => LossWatched
  BY DEF IInv, HostInv
<1>2. QED
  BY <1>1, Invariance, PTL

(* Rails and baseline never outlive their run.                             *)
THEOREM RailsAreReleased == Spec => []RailsReleased
<1>1. IInv => RailsReleased
  BY DEF IInv, HostInv
<1>2. QED
  BY <1>1, Invariance, PTL

(* No step revives or re-fails a run that is STOPPED.                      *)
THEOREM StoppedStaysStopped == Spec => StoppedIsFinal
<1>1. ASSUME IInv, [Next]_vars, NEW r \in Run, sm[r] = "STOPPED" PROVE sm'[r] = "STOPPED"
  <2> USE ConstantsAssumption DEF IInv, TypeInv, TypeOK
  <2>1. CASE WorkerStep
    <3>1. CASE StartRegistered
      <4>1. fresh \in Run /\ sm' = [sm EXCEPT ![fresh] = "READY"]
        BY <1>1, <3>1 DEF StartRegistered, Run
      <4>2. sm[fresh] = "IDLE"
        BY <1>1, <4>1 DEF HostInv, Numbering, Run
      <4>3. QED
        BY <1>1, <4>1, <4>2
    <3>2. CASE AttachSucceeded \/ AttachGivenUp
      BY <1>1, <3>2 DEF AttachSucceeded, AttachGivenUp, HostInv, StartPhases
    <3>3. CASE PauseRun \/ ResumeRun \/ StopRun
      BY <1>1, <3>3 DEF PauseRun, ResumeRun, StopRun, CanPause, CanResume, Active
    <3>4. QED
      BY <1>1, <2>1, <3>1, <3>2, <3>3
         DEF WorkerStep, StartRefused, SetRails, ControlRefused, StopAgain, ReleaseRails
  <2>2. ASSUME NEW t \in Thread, ThreadStep(t) PROVE sm'[r] = "STOPPED"
    <3>1. CASE Finish(t)
      <4>1. pc[t] \in TeardownSteps /\ sm' = [sm EXCEPT ![RunOf(t)] = "STOPPED"]
        BY <3>1 DEF Finish, TeardownSteps
      <4>2. QED
        BY <1>1, <4>1
    <3>2. QED
      BY <1>1, <2>2, <3>1
         DEF ThreadStep, CancelInflight, CancelWaited, Detach, StopWaited, ReadStatus, PushStatus
  <2>3. ASSUME NEW q \in Run, LossStep(q) PROVE sm'[r] = "STOPPED"
    BY <1>1, <2>3 DEF LossStep, FailUnknown, FailStopped, FailRun, Active
  <2>4. CASE WorkerRequest \/ AccountStep
    BY <1>1, <2>4 DEF WorkerRequest, StartLiveStrategy, PauseLiveStrategy, ResumeLiveStrategy,
       StopLiveStrategy, ControlRun, SetExecutionMode, VenueLogin, VenueLogout, AccountStep,
       AccountFetch, SnapshotWithinLimit, SnapshotBreach
  <2>5. CASE (\E q \in Run : LoopStep(q) \/ VenueStep(q)) \/ UNCHANGED vars
    <3>1. UNCHANGED watched
      BY <2>5, OthersKeep
    <3>2. QED
      BY <1>1, <3>1 DEF watched
  <2>6. QED
    BY <1>1, <2>1, <2>2, <2>3, <2>4, <2>5 DEF Next
<1>2. IInv /\ [Next]_vars => [\A r \in Run : sm[r] = "STOPPED" => sm'[r] = "STOPPED"]_vars
  BY <1>1
<1>3. QED
  BY <1>2, Invariance, PTL DEF Spec, StoppedIsFinal

-----------------------------------------------------------------------------
(* The refinement: every step of LiveRun is a step of RunLifecycle, or one *)
(* that moves no run.                                                      *)

LEMMA SlotOfActive ==
    ASSUME IInv, NEW r \in Active
    PROVE  Active = {r} /\ r \in Run
BY DEF IInv, TypeInv, TypeOK, HostInv, OneActiveRun, Active

(* A move that keeps the slot.                                             *)
LEMMA MoveMaps ==
    ASSUME IInv, NEW r \in Active, NEW target \in Status \ {"STOPPED"},
           target \in Lifecycle!Allowed[sm[r]],
           sm' = [sm EXCEPT ![r] = target], registered' = registered
    PROVE  Lifecycle!Next
<1>1. Active = {r} /\ r \in Run
  BY SlotOfActive
<1>2. sm \in [Run -> Status] /\ registered \subseteq Run
  BY DEF IInv, TypeInv, TypeOK
<1>3. Active' = Active
  <2>1. \A q \in registered : q # r => sm'[q] = sm[q]
    BY <1>2
  <2>2. sm'[r] # "STOPPED" /\ sm[r] # "STOPPED"
    BY <1>1, <1>2 DEF Active
  <2>3. QED
    BY <2>1, <2>2 DEF Active
<1>4. target \in DOMAIN Lifecycle!Allowed
  BY <1>1, <1>2 DEF Lifecycle!Allowed, Status
<1>5. Lifecycle!Move(r, target)
  BY <1>1, <1>3 DEF Lifecycle!Move
<1>6. QED
  BY <1>1, <1>4, <1>5 DEF Lifecycle!Next

LEMMA TakeMaps ==
    ASSUME IInv, StartRegistered
    PROVE  Lifecycle!Next
<1> USE ConstantsAssumption
<1>1. fresh \in Run /\ sm \in [Run -> Status] /\ registered \subseteq Run
  BY DEF IInv, TypeInv, TypeOK, StartRegistered, Run
<1>2. sm[fresh] = "IDLE" /\ fresh \notin registered
  BY <1>1 DEF IInv, HostInv, Numbering, Run
<1>3. Active = {} /\ sm' = [sm EXCEPT ![fresh] = "READY"]
  BY DEF StartRegistered
<1>4. registered' \subseteq registered \cup {fresh} /\ fresh \in registered'
  BY <1>2, EvictedStopped DEF StartRegistered
<1>5. \A r \in registered : sm'[r] = "STOPPED"
  BY <1>1, <1>2, <1>3 DEF Active
<1>6. sm'[fresh] = "READY"
  BY <1>1, <1>3
<1>7. Active' = {fresh}
  BY <1>4, <1>5, <1>6 DEF Active
<1>8. Lifecycle!Take(fresh)
  BY <1>2, <1>3, <1>7 DEF Lifecycle!Take
<1>9. QED
  BY <1>1, <1>8 DEF Lifecycle!Next

LEMMA GiveUpMaps ==
    ASSUME IInv, AttachGivenUp
    PROVE  Lifecycle!Next
<1>1. job \in registered /\ sm[job] = "READY"
  BY DEF IInv, HostInv, StartPhases, AttachGivenUp
<1>2. Active = {job} /\ job \in Run
  BY <1>1, SlotOfActive DEF Active
<1>3. sm' = [sm EXCEPT ![job] = "ERROR"] /\ registered' = registered \ {job}
  BY DEF AttachGivenUp
<1>4. Active' = {}
  <2>1. \A q \in registered' : sm'[q] = sm[q] /\ q \notin Active
    BY <1>2, <1>3 DEF IInv, TypeInv, TypeOK
  <2>2. QED
    BY <2>1, <1>3 DEF Active
<1>5. Lifecycle!GiveUp(job)
  BY <1>1, <1>2, <1>3, <1>4 DEF Lifecycle!GiveUp
<1>6. QED
  BY <1>2, <1>5 DEF Lifecycle!Next

LEMMA StopMaps ==
    ASSUME IInv, NEW t \in Thread, Finish(t)
    PROVE  Lifecycle!Next
<1>1. RunOf(t) \in registered /\ sm[RunOf(t)] \in {"STOPPING", "ERROR"}
  <2>1. pc[t] \in TeardownSteps
    BY DEF Finish, TeardownSteps
  <2>2. QED
    BY <2>1 DEF IInv, HostInv, StopPhases
<1>2. Active = {RunOf(t)} /\ RunOf(t) \in Run
  BY <1>1, SlotOfActive DEF Active
<1>3. sm' = [sm EXCEPT ![RunOf(t)] = "STOPPED"] /\ registered' = registered
  BY DEF Finish
<1>4. Active' = {}
  <2>1. \A q \in registered : sm'[q] = "STOPPED"
    BY <1>2, <1>3 DEF IInv, TypeInv, TypeOK, Active
  <2>2. QED
    BY <2>1, <1>3 DEF Active
<1>5. Lifecycle!Stop(RunOf(t))
  BY <1>1, <1>2, <1>3, <1>4 DEF Lifecycle!Stop, Lifecycle!Allowed
<1>6. QED
  BY <1>2, <1>5 DEF Lifecycle!Next

LEMMA Stutters ==
    ASSUME UNCHANGED <<sm, registered>>
    PROVE  UNCHANGED Lifecycle!vars
BY DEF Active, Lifecycle!vars

(* The moves of a run that is settled: by the user or by a loss thread.    *)
LEMMA SettledMoves ==
    ASSUME IInv, lock = None, NEW r \in Active
    PROVE  sm[r] \in {"RUNNING", "PAUSED"}
<1>1. \A t \in Thread : pc[t] \notin Holding
  BY ConstantsAssumption DEF IInv, HostInv, LockHeld, Thread, Worker, Run
<1>2. pc[Worker] # "attach_wait" /\ \A t \in Thread : pc[t] \notin TeardownSteps
  BY <1>1 DEF Holding, TeardownSteps, Thread
<1>3. QED
  BY <1>2 DEF IInv, HostInv, Settled, Active

LEMMA WorkerMoves ==
    ASSUME IInv, AttachSucceeded \/ PauseRun \/ ResumeRun \/ StopRun
    PROVE  Lifecycle!Next
<1>1. CASE AttachSucceeded
  <2>1. job \in Active /\ sm[job] = "READY"
    BY <1>1 DEF AttachSucceeded, IInv, HostInv, StartPhases, Active
  <2>2. "RUNNING" \in Lifecycle!Allowed[sm[job]]
    BY <2>1 DEF Lifecycle!Allowed
  <2>3. QED
    BY <1>1, <2>1, <2>2, MoveMaps DEF AttachSucceeded, Status
<1>2. CASE PauseRun
  <2>1. job \in Active /\ sm[job] = "RUNNING"
    BY <1>2 DEF PauseRun, CanPause, Active
  <2>2. "PAUSED" \in Lifecycle!Allowed[sm[job]]
    BY <2>1 DEF Lifecycle!Allowed
  <2>3. QED
    BY <1>2, <2>1, <2>2, MoveMaps DEF PauseRun, Status
<1>3. CASE ResumeRun
  <2>1. job \in Active /\ sm[job] = "PAUSED"
    BY <1>3 DEF ResumeRun, CanResume, Active
  <2>2. "RUNNING" \in Lifecycle!Allowed[sm[job]]
    BY <2>1 DEF Lifecycle!Allowed
  <2>3. QED
    BY <1>3, <2>1, <2>2, MoveMaps DEF ResumeRun, Status
<1>4. CASE StopRun
  <2>1. job \in Active /\ sm[job] \in {"RUNNING", "PAUSED"}
    BY <1>4, SettledMoves DEF StopRun
  <2>2. "STOPPING" \in Lifecycle!Allowed[sm[job]]
    BY <2>1 DEF Lifecycle!Allowed
  <2>3. sm' = [sm EXCEPT ![job] = "STOPPING"]
    BY <1>4, <2>1 DEF StopRun
  <2>4. QED
    BY <1>4, <2>1, <2>2, <2>3, MoveMaps DEF StopRun, Status
<1>5. QED
  BY <1>1, <1>2, <1>3, <1>4

LEMMA LossMoves ==
    ASSUME IInv, NEW r \in Run, FailRun(r)
    PROVE  Lifecycle!Next
<1>1. r \in Active /\ sm[r] \in {"RUNNING", "PAUSED"}
  BY SettledMoves DEF FailRun
<1>2. "ERROR" \in Lifecycle!Allowed[sm[r]]
  BY <1>1 DEF Lifecycle!Allowed
<1>3. QED
  BY <1>1, <1>2, MoveMaps DEF FailRun, Status

(* The interleaved worker, loss threads and loop implement RunLifecycle.   *)
THEOREM LifecycleImplemented == Spec => ImplementsLifecycle
<1>1. Init => Lifecycle!Init
  BY DEF Init, Lifecycle!Init, Active
<1>2. IInv /\ [Next]_vars => [Lifecycle!Next]_Lifecycle!vars
  <2> SUFFICES ASSUME IInv, [Next]_vars
               PROVE  Lifecycle!Next \/ UNCHANGED <<sm, registered>>
    BY Stutters
  <2>1. CASE WorkerStep
    BY <2>1, TakeMaps, GiveUpMaps, WorkerMoves
       DEF WorkerStep, StartRefused, SetRails, ControlRefused, StopAgain, ReleaseRails
  <2>2. ASSUME NEW t \in Thread, ThreadStep(t)
        PROVE  Lifecycle!Next \/ UNCHANGED <<sm, registered>>
    BY <2>2, StopMaps
       DEF ThreadStep, CancelInflight, CancelWaited, Detach, StopWaited, ReadStatus, PushStatus
  <2>3. ASSUME NEW r \in Run, LossStep(r)
        PROVE  Lifecycle!Next \/ UNCHANGED <<sm, registered>>
    BY <2>3, LossMoves DEF LossStep, FailUnknown, FailStopped
  <2>4. CASE WorkerRequest \/ AccountStep
    BY <2>4 DEF WorkerRequest, StartLiveStrategy, PauseLiveStrategy, ResumeLiveStrategy,
       StopLiveStrategy, ControlRun, SetExecutionMode, VenueLogin, VenueLogout, AccountStep,
       AccountFetch, SnapshotWithinLimit, SnapshotBreach
  <2>5. CASE (\E q \in Run : LoopStep(q) \/ VenueStep(q)) \/ UNCHANGED vars
    BY <2>5, OthersKeep DEF watched
  <2>6. QED
    BY <2>1, <2>2, <2>3, <2>4, <2>5 DEF Next
<1>3. QED
  BY <1>1, <1>2, Invariance, PTL DEF Spec, ImplementsLifecycle, Lifecycle!Spec

-----------------------------------------------------------------------------
(* The controller's kernel, the queue of the loop and the orders: a second *)
(* inductive invariant, on top of the first.                               *)

(* The tasks in the queue of the loop, and the runs they are about.         *)
Queued(task, r) ==
    \E i \in 1 .. Len(loopq) : loopq[i] = [task |-> task, run |-> r]

(* A run that a teardown has been through, or is in.                        *)
TornDown(r) ==
    \/ sm[r] = "STOPPED"
    \/ sm[r] \in {"STOPPING", "ERROR"} /\ r \in registered

(* Runs not yet numbered have no trace in the loop.                         *)
LoopNumbering ==
    \A r \in Run : r >= fresh => attach[r] = "none" /\ r \notin kernels /\ r \notin swept

(* The queue is in the order of the runs, and a run's attach comes first.   *)
QueueSorted ==
    \A i, j \in 1 .. Len(loopq) : i < j =>
        /\ loopq[i].run <= loopq[j].run
        /\ loopq[j].task = "attach" => loopq[i].run < loopq[j].run

AttachQueued == \A r \in Run : attach[r] = "queued" <=> Queued("attach", r)

(* First come, first served: a task of an older run is still to be done     *)
(* only if the attach of every younger one is.                              *)
QueueInOrder ==
    \A i \in 1 .. Len(loopq), r \in Run :
        loopq[i].run < r /\ r < fresh => attach[r] = "queued"

TasksTearDown ==
    \A i \in 1 .. Len(loopq) : loopq[i].task # "attach" => TornDown(loopq[i].run)

(* The active run is the youngest.                                          *)
ActiveIsYoungest == \A r \in Active : r + 1 = fresh

AttachWaited ==
    \A r \in Run : attach[r] \in {"queued", "subscribing"} =>
        \/ pc[Worker] = "attach_wait" /\ job = r
        \/ Abandoned(r)

(* The controller's kernel, from the attach to the detach.                  *)
KernelPhases ==
    /\ pc[Worker] = "attach_wait" /\ attach[job] \in {"subscribing", "done"} =>
           kernel = job /\ job \in kernels
    /\ \A t \in Thread : pc[t] \in {"cancel", "cancel_wait", "detach"} =>
           kernel = RunOf(t)
    /\ \A t \in Thread : pc[t] \in {"stop_wait", "finish"} =>
           (RunOf(t) \in kernels => Queued("stop", RunOf(t)))

KernelsKnown == \A r \in kernels : r \in registered \/ Abandoned(r)

SweptTornDown == \A r \in swept : TornDown(r)

(* Without an abandoned run, the teardown leaves no listener behind.        *)
TapPhases ==
    (\A r \in Run : ~Abandoned(r)) =>
        \A t \in Thread : pc[t] \in {"stop_wait", "finish"} => listener = None

KernelInv ==
    /\ LoopNumbering
    /\ QueueSorted
    /\ AttachQueued
    /\ QueueInOrder
    /\ TasksTearDown
    /\ ActiveIsYoungest
    /\ AttachWaited
    /\ KernelPhases
    /\ KernelsKnown
    /\ SweptTornDown
    /\ TapPhases
    /\ KernelOwned
    /\ SweepIsFinal
    /\ TapRemoved

(* The steps of a teardown before the detach is done, and after it.        *)
HeldSteps == {"cancel", "cancel_wait", "detach"}
GoneSteps == {"stop_wait", "finish"}

QueueInv == QueueSorted /\ AttachQueued /\ QueueInOrder /\ TasksTearDown

-----------------------------------------------------------------------------
(* What scheduling and beginning a task do to the queue.                   *)

LEMMA AppendQueue ==
    ASSUME loopq \in Seq(LoopTask), NEW task \in {"attach", "cancel", "stop"},
           NEW r \in Run, Schedule(task, r)
    PROVE  /\ Len(loopq') = Len(loopq) + 1 /\ Len(loopq) \in Nat
           /\ \A i \in 1 .. Len(loopq) : loopq'[i] = loopq[i]
           /\ loopq'[Len(loopq) + 1] = [task |-> task, run |-> r]
           /\ \A k, q : Queued(k, q)' <=> Queued(k, q) \/ (k = task /\ q = r)
<1>1. [task |-> task, run |-> r] \in LoopTask
  BY DEF LoopTask
<1>2. Len(loopq') = Len(loopq) + 1 /\ Len(loopq) \in Nat
  BY <1>1 DEF Schedule
<1>3. \A i \in 1 .. Len(loopq) : loopq'[i] = loopq[i]
  BY <1>1 DEF Schedule
<1>4. loopq'[Len(loopq) + 1] = [task |-> task, run |-> r]
  BY <1>1 DEF Schedule
<1>5. ASSUME NEW k, NEW q
      PROVE  Queued(k, q)' <=> Queued(k, q) \/ (k = task /\ q = r)
  <2>1. Queued(k, q) => Queued(k, q)'
    BY <1>2, <1>3 DEF Queued
  <2>2. k = task /\ q = r => Queued(k, q)'
    BY <1>2, <1>4 DEF Queued
  <2>3. ASSUME Queued(k, q)', ~(k = task /\ q = r) PROVE Queued(k, q)
    <3>1. PICK i \in 1 .. Len(loopq') : loopq'[i] = [task |-> k, run |-> q]
      BY <2>3 DEF Queued
    <3>2. i # Len(loopq) + 1
      BY <1>4, <2>3, <3>1
    <3>3. i \in 1 .. Len(loopq)
      BY <1>2, <3>1, <3>2
    <3>4. QED
      BY <1>3, <3>1, <3>3 DEF Queued
  <2>4. QED
    BY <2>1, <2>2, <2>3
<1>6. QED
  BY <1>2, <1>3, <1>4, <1>5

LEMMA BeginQueue ==
    ASSUME loopq \in Seq(LoopTask), NEW task, NEW r, Begin(task, r)
    PROVE  /\ Len(loopq) \in Nat \ {0} /\ Len(loopq') = Len(loopq) - 1
           /\ \A i \in 1 .. Len(loopq') : i + 1 \in 1 .. Len(loopq) /\ loopq'[i] = loopq[i + 1]
           /\ 1 \in 1 .. Len(loopq) /\ loopq[1] = [task |-> task, run |-> r]
           /\ \A k, q : Queued(k, q) <=> Queued(k, q)' \/ (k = task /\ q = r)
<1>1. Len(loopq) \in Nat \ {0} /\ loopq' = Tail(loopq) /\ Len(loopq') = Len(loopq) - 1
  BY DEF Begin
<1>2. \A i \in 1 .. Len(loopq') : i + 1 \in 1 .. Len(loopq) /\ loopq'[i] = loopq[i + 1]
  BY <1>1
<1>3. 1 \in 1 .. Len(loopq) /\ loopq[1] = [task |-> task, run |-> r]
  BY <1>1 DEF Begin
<1>4. ASSUME NEW k, NEW q
      PROVE  Queued(k, q) <=> Queued(k, q)' \/ (k = task /\ q = r)
  <2>1. Queued(k, q)' => Queued(k, q)
    BY <1>1, <1>2 DEF Queued
  <2>2. k = task /\ q = r => Queued(k, q)
    BY <1>1, <1>3 DEF Queued
  <2>3. ASSUME Queued(k, q), ~(k = task /\ q = r) PROVE Queued(k, q)'
    <3>1. PICK i \in 1 .. Len(loopq) : loopq[i] = [task |-> k, run |-> q]
      BY <2>3 DEF Queued
    <3>2. i # 1
      BY <1>3, <2>3, <3>1
    <3>3. i - 1 \in 1 .. Len(loopq') /\ (i - 1) + 1 = i
      BY <1>1, <3>1, <3>2
    <3>4. loopq'[i - 1] = [task |-> k, run |-> q]
      BY <1>2, <3>1, <3>3
    <3>5. QED
      BY <3>3, <3>4 DEF Queued
  <2>4. QED
    BY <2>1, <2>2, <2>3
<1>5. QED
  BY <1>1, <1>2, <1>3, <1>4

LEMMA EntryType ==
    ASSUME loopq \in Seq(LoopTask), NEW i \in 1 .. Len(loopq)
    PROVE  /\ loopq[i].task \in {"attach", "cancel", "stop"} /\ loopq[i].run \in Run
           /\ loopq[i] = [task |-> loopq[i].task, run |-> loopq[i].run]
           /\ Queued(loopq[i].task, loopq[i].run)
<1>1. loopq[i] \in LoopTask
  OBVIOUS
<1>2. QED
  BY <1>1 DEF LoopTask, Queued

(* Whatever is queued is about a run that has a number.                    *)
LEMMA EntryNumbered ==
    ASSUME TypeInv, HostInv, LoopNumbering, QueueInv, NEW i \in 1 .. Len(loopq)
    PROVE  loopq[i].run \in Run /\ loopq[i].run < fresh
<1>1. /\ loopq[i].task \in {"attach", "cancel", "stop"} /\ loopq[i].run \in Run
      /\ Queued(loopq[i].task, loopq[i].run)
  BY EntryType DEF TypeInv, TypeOK
<1>2. loopq[i].task = "attach" => attach[loopq[i].run] = "queued"
  BY <1>1 DEF QueueInv, AttachQueued
<1>3. loopq[i].task # "attach" => sm[loopq[i].run] # "IDLE"
  BY <1>1 DEF QueueInv, TasksTearDown, TornDown
<1>4. ~(loopq[i].run >= fresh)
  BY <1>1, <1>2, <1>3 DEF LoopNumbering, HostInv, Numbering
<1>5. QED
  BY <1>1, <1>4 DEF TypeInv, TypeOK, Run

(* While a run is active and past its attach, no attach is queued.         *)
LEMMA NoAttachQueued ==
    ASSUME TypeInv, HostInv, KernelInv, NEW r \in Active,
           ~(pc[Worker] = "attach_wait" /\ job = r)
    PROVE  /\ attach[r] \notin {"queued", "subscribing"}
           /\ \A q \in Run : attach[q] # "queued" /\ ~Queued("attach", q)
<1>1. r \in Run /\ r + 1 = fresh /\ fresh \in 1 .. MaxRuns + 1
  BY DEF KernelInv, ActiveIsYoungest, Active, TypeInv, TypeOK
<1>2. attach[r] \notin {"queued", "subscribing"}
  BY <1>1 DEF KernelInv, AttachWaited, Abandoned, Active
<1>3. ASSUME NEW q \in Run, Queued("attach", q) PROVE FALSE
  <2>1. PICK i \in 1 .. Len(loopq) : loopq[i] = [task |-> "attach", run |-> q]
    BY <1>3 DEF Queued
  <2>2. loopq[i].run = q /\ q < fresh
    BY <2>1, EntryNumbered DEF KernelInv, QueueInv
  <2>3. attach[q] = "queued"
    BY <1>3 DEF KernelInv, AttachQueued
  <2>4. q < r /\ r < fresh
    BY <1>1, <1>2, <2>2, <2>3, ConstantsAssumption DEF Run
  <2>5. attach[r] = "queued"
    BY <1>1, <2>2, <2>4 DEF KernelInv, QueueInOrder
  <2>6. QED
    BY <1>2, <2>5
<1>4. QED
  BY <1>2, <1>3 DEF KernelInv, AttachQueued

-----------------------------------------------------------------------------
(* The queue part of the invariant.                                        *)

(* A task of the teardown of the youngest run joins the queue.             *)
LEMMA ScheduleKeeps ==
    ASSUME TypeInv, HostInv, LoopNumbering, QueueInv,
           NEW r \in Run, r + 1 = fresh, NEW task \in {"cancel", "stop"},
           TornDown(r), Schedule(task, r), UNCHANGED <<sm, registered, fresh, attach>>
    PROVE  QueueInv'
<1> USE DEF QueueInv
<1> DEFINE n == Len(loopq)
<1>1. /\ Len(loopq') = n + 1 /\ n \in Nat
      /\ \A i \in 1 .. n : loopq'[i] = loopq[i]
      /\ loopq'[n + 1] = [task |-> task, run |-> r]
      /\ \A k, q : Queued(k, q)' <=> Queued(k, q) \/ (k = task /\ q = r)
  BY AppendQueue DEF TypeInv, TypeOK
<1>2. \A i \in 1 .. n : loopq[i].run \in Run /\ loopq[i].run < fresh
  BY EntryNumbered
<1>3. fresh \in 1 .. MaxRuns + 1 /\ MaxRuns \in Nat
  BY ConstantsAssumption DEF TypeInv, TypeOK
<1> HIDE DEF n
<1>4. QueueSorted'
  <2> SUFFICES ASSUME NEW i \in 1 .. n + 1, NEW j \in 1 .. n + 1, i < j
               PROVE  /\ loopq'[i].run <= loopq'[j].run
                      /\ loopq'[j].task = "attach" => loopq'[i].run < loopq'[j].run
    BY <1>1 DEF QueueSorted
  <2>1. i \in 1 .. n
    BY <1>1
  <2>2. CASE j \in 1 .. n
    BY <1>1, <2>1, <2>2 DEF QueueSorted, n
  <2>3. CASE j = n + 1
    BY <1>1, <1>2, <1>3, <2>1, <2>3 DEF Run
  <2>4. QED
    BY <1>1, <2>2, <2>3
<1>5. AttachQueued'
  BY <1>1 DEF AttachQueued
<1>6. QueueInOrder'
  <2> SUFFICES ASSUME NEW i \in 1 .. n + 1, NEW q \in Run, loopq'[i].run < q, q < fresh
               PROVE  attach[q] = "queued"
    BY <1>1 DEF QueueInOrder
  <2>1. i # n + 1
    BY <1>1, <1>3 DEF Run
  <2>2. i \in 1 .. n
    BY <1>1, <2>1
  <2>3. QED
    BY <1>1, <2>2 DEF QueueInOrder, n
<1>7. TasksTearDown'
  <2> SUFFICES ASSUME NEW i \in 1 .. n + 1, loopq'[i].task # "attach"
               PROVE  TornDown(loopq'[i].run)
    BY <1>1 DEF TasksTearDown, TornDown
  <2>1. CASE i = n + 1
    BY <1>1, <2>1
  <2>2. CASE i \in 1 .. n
    BY <1>1, <2>2 DEF TasksTearDown, n
  <2>3. QED
    BY <1>1, <2>1, <2>2
<1>8. QED
  BY <1>4, <1>5, <1>6, <1>7

(* The loop begins the first task; an attach leaves the state "queued".    *)
LEMMA BeginKeeps ==
    ASSUME TypeInv, QueueInv, NEW r \in Run, NEW task \in {"attach", "cancel", "stop"},
           Begin(task, r), UNCHANGED <<sm, registered, fresh>>,
           \A q \in Run : q # r => attach'[q] = attach[q],
           task = "attach" => attach'[r] # "queued",
           task # "attach" => attach'[r] = attach[r]
    PROVE  QueueInv'
<1> USE DEF QueueInv
<1>1. /\ Len(loopq) \in Nat \ {0} /\ Len(loopq') = Len(loopq) - 1
      /\ \A i \in 1 .. Len(loopq') : i + 1 \in 1 .. Len(loopq) /\ loopq'[i] = loopq[i + 1]
      /\ 1 \in 1 .. Len(loopq) /\ loopq[1] = [task |-> task, run |-> r]
      /\ \A k, q : Queued(k, q) <=> Queued(k, q)' \/ (k = task /\ q = r)
  BY BeginQueue DEF TypeInv, TypeOK
<1>2. ASSUME NEW i \in 1 .. Len(loopq')
      PROVE  /\ loopq'[i].run \in Run /\ r <= loopq'[i].run
             /\ loopq'[i].task = "attach" => r < loopq'[i].run
  <2>1. i + 1 \in 1 .. Len(loopq) /\ 1 < i + 1 /\ loopq'[i] = loopq[i + 1]
    BY <1>1
  <2>2. loopq[i + 1].run \in Run
    BY <2>1, EntryType DEF TypeInv, TypeOK
  <2>3. QED
    BY <1>1, <2>1, <2>2 DEF QueueSorted
<1>3. QueueSorted'
  <2> SUFFICES ASSUME NEW i \in 1 .. Len(loopq'), NEW j \in 1 .. Len(loopq'), i < j
               PROVE  /\ loopq'[i].run <= loopq'[j].run
                      /\ loopq'[j].task = "attach" => loopq'[i].run < loopq'[j].run
    BY DEF QueueSorted
  <2>1. /\ i + 1 \in 1 .. Len(loopq) /\ loopq'[i] = loopq[i + 1]
        /\ j + 1 \in 1 .. Len(loopq) /\ loopq'[j] = loopq[j + 1]
    BY <1>1
  <2>2. i + 1 < j + 1
    OBVIOUS
  <2>3. QED
    BY <2>1, <2>2 DEF QueueSorted
<1>4. AttachQueued'
  <2> SUFFICES ASSUME NEW q \in Run PROVE attach'[q] = "queued" <=> Queued("attach", q)'
    BY DEF AttachQueued
  <2>1. CASE q = r /\ task = "attach"
    <3>1. SUFFICES ASSUME Queued("attach", r)' PROVE FALSE
      BY <2>1
    <3>2. PICK i \in 1 .. Len(loopq') : loopq'[i] = [task |-> "attach", run |-> r]
      BY <3>1 DEF Queued
    <3>3. r < r
      BY <1>2, <3>2
    <3>4. QED
      BY <3>3 DEF Run
  <2>2. CASE q # r \/ task # "attach"
    BY <1>1, <2>2 DEF AttachQueued
  <2>3. QED
    BY <2>1, <2>2
<1>5. QueueInOrder'
  <2> SUFFICES ASSUME NEW i \in 1 .. Len(loopq'), NEW q \in Run, loopq'[i].run < q, q < fresh
               PROVE  attach'[q] = "queued"
    BY DEF QueueInOrder
  <2>1. i + 1 \in 1 .. Len(loopq) /\ loopq'[i] = loopq[i + 1]
    BY <1>1
  <2>2. attach[q] = "queued"
    BY <2>1 DEF QueueInOrder
  <2>3. q # r
    BY <1>2 DEF Run
  <2>4. QED
    BY <2>2, <2>3
<1>6. TasksTearDown'
  <2> SUFFICES ASSUME NEW i \in 1 .. Len(loopq'), loopq'[i].task # "attach"
               PROVE  TornDown(loopq'[i].run)
    BY DEF TasksTearDown, TornDown
  <2>1. i + 1 \in 1 .. Len(loopq) /\ loopq'[i] = loopq[i + 1]
    BY <1>1
  <2>2. QED
    BY <2>1 DEF TasksTearDown
<1>7. QED
  BY <1>3, <1>4, <1>5, <1>6

(* A step of the runs that leaves the queue alone.                         *)
LEMMA QueueStays ==
    ASSUME TypeInv, QueueInv, UNCHANGED <<loopq, attach, fresh>>,
           \A r \in Run : TornDown(r) => TornDown(r)'
    PROVE  QueueInv'
<1> USE DEF QueueInv
<1>1. QueueSorted' /\ AttachQueued' /\ QueueInOrder'
  BY DEF QueueSorted, AttachQueued, QueueInOrder, Queued
<1>2. TasksTearDown'
  <2> SUFFICES ASSUME NEW i \in 1 .. Len(loopq), loopq[i].task # "attach"
               PROVE  TornDown(loopq[i].run)'
    BY DEF TasksTearDown
  <2>1. loopq[i].run \in Run
    BY EntryType DEF TypeInv, TypeOK
  <2>2. QED
    BY <2>1 DEF TasksTearDown
<1>3. QED
  BY <1>1, <1>2

-----------------------------------------------------------------------------
(* The rest of it.                                                         *)

(* Steps that move no run and touch neither the loop nor an order: threads *)
(* only come and go outside the attach and outside the teardown, or go on  *)
(* inside of it.                                                           *)
LEMMA PcMovesKeep ==
    ASSUME TypeInv, KernelInv,
           UNCHANGED <<sm, registered, fresh, kernelVars, orderVars>>,
           pc[Worker] = "attach_wait" <=> pc'[Worker] = "attach_wait",
           pc[Worker] = "attach_wait" => job' = job,
           \A t \in Thread : pc'[t] \in HeldSteps =>
               pc[t] \in HeldSteps /\ RunOf(t)' = RunOf(t),
           \A t \in Thread : pc'[t] \in GoneSteps =>
               pc[t] \in GoneSteps /\ RunOf(t)' = RunOf(t)
    PROVE  KernelInv'
<1> USE DEF KernelInv
<1>1. \A r \in Run : TornDown(r)' <=> TornDown(r)
  BY DEF TornDown
<1>2. QueueInv'
  BY <1>1, QueueStays DEF QueueInv
<1>3. LoopNumbering' /\ KernelsKnown' /\ SweepIsFinal'
  BY DEF LoopNumbering, KernelsKnown, SweepIsFinal, Abandoned
<1>4. ActiveIsYoungest' /\ AttachWaited'
  BY DEF ActiveIsYoungest, AttachWaited, Abandoned, Active
<1>5. KernelPhases'
  BY DEF KernelPhases, HeldSteps, GoneSteps, Queued
<1>6. SweptTornDown'
  BY <1>1 DEF SweptTornDown, TypeInv, TypeOK
<1>7. TapPhases'
  BY DEF TapPhases, GoneSteps, Abandoned
<1>8. KernelOwned' /\ TapRemoved'
  BY DEF KernelOwned, TapRemoved, Abandoned, Active
<1>9. QED
  BY <1>2, <1>3, <1>4, <1>5, <1>6, <1>7, <1>8 DEF QueueInv

(* A run that holds the slot changes its status and keeps the slot.        *)
LEMMA StatusKeeps ==
    ASSUME TypeInv, KernelInv, NEW r \in Active, sm[r] \in {"READY", "RUNNING", "PAUSED"},
           NEW s \in Status \ {"STOPPED"}, sm' = [sm EXCEPT ![r] = s],
           UNCHANGED <<registered, fresh, kernelVars, orderVars>>,
           s \in {"RUNNING", "PAUSED"} => kernel = r /\ r \in kernels,
           AttachWaited', KernelPhases', TapPhases'
    PROVE  KernelInv'
<1> USE DEF KernelInv
<1>1. /\ r \in Run /\ r \in registered /\ sm'[r] = s
      /\ \A q \in Run : q # r => sm'[q] = sm[q]
  BY DEF Active, TypeInv, TypeOK
<1>2. \A q \in Run : Abandoned(q)' <=> Abandoned(q)
  BY <1>1 DEF Abandoned
<1>3. \A q \in Run : TornDown(q) => TornDown(q)'
  BY <1>1 DEF TornDown
<1>4. Active' = Active /\ registered \subseteq Run /\ kernels \subseteq Run /\ swept \subseteq Run
  BY <1>1 DEF Active, TypeInv, TypeOK
<1>5. QueueInv'
  BY <1>3, QueueStays DEF QueueInv
<1>6. LoopNumbering' /\ SweepIsFinal'
  BY DEF LoopNumbering, SweepIsFinal
<1>7. KernelsKnown'
  BY <1>2, <1>4 DEF KernelsKnown
<1>8. ActiveIsYoungest'
  BY <1>4 DEF ActiveIsYoungest
<1>9. SweptTornDown'
  BY <1>3, <1>4 DEF SweptTornDown
<1>10. KernelOwned'
  BY <1>1, <1>2, <1>4 DEF KernelOwned
<1>11. TapRemoved'
  BY <1>2, <1>4 DEF TapRemoved
<1>12. QED
  BY <1>5, <1>6, <1>7, <1>8, <1>9, <1>10, <1>11 DEF QueueInv

(* Threads that only come and go.                                          *)
LEMMA IdleThreadsKeep ==
    ASSUME TypeInv, HostInv, KernelInv,
           \/ StartLiveStrategy \/ StartRefused \/ SetRails
           \/ ControlRefused \/ StopAgain \/ ReleaseRails
           \/ \E r \in Run : \E step \in {"pause_lock", "resume_lock", "stop_lock"} :
                 ControlRun(step, r)
    PROVE  KernelInv'
<1>1. pc \in [Thread -> Step] /\ Worker \in Thread /\ Worker \notin Run
  BY DEF TypeInv, TypeOK, Thread, Worker, Run
<1>2. UNCHANGED <<sm, registered, fresh, kernelVars, orderVars>>
  BY DEF StartLiveStrategy, StartRefused, SetRails, ControlRefused, StopAgain, ReleaseRails,
     ControlRun
<1>3. PICK step \in {"start_lock", "idle", "read", "release", "pause_lock", "resume_lock",
                     "stop_lock"} : pc' = [pc EXCEPT ![Worker] = step]
  BY DEF StartLiveStrategy, StartRefused, SetRails, ControlRefused, StopAgain, ReleaseRails,
     ControlRun, Goto
<1>4. pc[Worker] \in {"idle", "start_lock", "set_rails", "pause_lock", "resume_lock",
                      "stop_lock", "release"}
  BY DEF StartLiveStrategy, StartRefused, SetRails, ControlRefused, StopAgain, ReleaseRails,
     ControlRun
<1>5. pc[Worker] # "attach_wait" /\ pc'[Worker] # "attach_wait"
  BY <1>1, <1>3, <1>4
<1>6. ASSUME NEW t \in Thread, pc'[t] \in HeldSteps \cup GoneSteps
      PROVE  pc'[t] = pc[t] /\ RunOf(t)' = RunOf(t)
  BY <1>1, <1>3, <1>6 DEF HeldSteps, GoneSteps, RunOf
<1>7. QED
  BY <1>2, <1>5, <1>6, PcMovesKeep

LEMMA ThreadsMoveOn ==
    ASSUME TypeInv, HostInv, KernelInv,
           \/ \E t \in Thread : \/ CancelWaited(t) \/ StopWaited(t)
                                \/ ReadStatus(t) \/ PushStatus(t)
           \/ \E r \in Run : FailUnknown(r) \/ FailStopped(r) \/ SnapshotBreach(r)
    PROVE  KernelInv'
<1>1. pc \in [Thread -> Step] /\ Worker \in Thread /\ Worker \notin Run /\ Run \subseteq Thread
  BY DEF TypeInv, TypeOK, Thread, Worker, Run
<1>2. UNCHANGED <<sm, registered, fresh, kernelVars, orderVars>>
  BY DEF CancelWaited, StopWaited, ReadStatus, PushStatus, FailUnknown, FailStopped,
     SnapshotBreach
<1>3. CASE \E t \in Thread : CancelWaited(t) \/ StopWaited(t)
  <2>1. PICK t \in Thread : CancelWaited(t) \/ StopWaited(t)
    BY <1>3
  <2>2. /\ \/ pc[t] = "cancel_wait" /\ pc' = [pc EXCEPT ![t] = "detach"]
           \/ pc[t] = "stop_wait" /\ pc' = [pc EXCEPT ![t] = "finish"]
        /\ job' = job
    BY <2>1 DEF CancelWaited, StopWaited, Goto
  <2>3. pc[Worker] = "attach_wait" <=> pc'[Worker] = "attach_wait"
    BY <1>1, <2>2
  <2>4. \A u \in Thread : RunOf(u)' = RunOf(u)
    BY <2>2 DEF RunOf
  <2>5. /\ \A u \in Thread : pc'[u] \in HeldSteps => pc[u] \in HeldSteps
        /\ \A u \in Thread : pc'[u] \in GoneSteps => pc[u] \in GoneSteps
    BY <1>1, <2>2 DEF HeldSteps, GoneSteps
  <2>6. QED
    BY <1>2, <2>2, <2>3, <2>4, <2>5, PcMovesKeep
<1>4. CASE \/ \E t \in Thread : ReadStatus(t) \/ PushStatus(t)
           \/ \E r \in Run : FailUnknown(r) \/ FailStopped(r) \/ SnapshotBreach(r)
  <2>1. PICK t \in Thread : \E step \in {"push", "idle", "read", "fail_lock"} :
              /\ pc' = [pc EXCEPT ![t] = step]
              /\ (job' # job => t = Worker)
              /\ (t = Worker => pc[t] \in {"read", "push"})
    BY <1>1, <1>4 DEF ReadStatus, PushStatus, FailUnknown, FailStopped, SnapshotBreach, Goto
  <2>2. pc[Worker] = "attach_wait" <=> pc'[Worker] = "attach_wait"
    BY <1>1, <2>1
  <2>3. pc[Worker] = "attach_wait" => job' = job
    BY <1>1, <2>1
  <2>4. ASSUME NEW u \in Thread, pc'[u] \in HeldSteps \cup GoneSteps
        PROVE  pc'[u] = pc[u] /\ RunOf(u)' = RunOf(u)
    BY <1>1, <2>1, <2>4 DEF HeldSteps, GoneSteps, RunOf
  <2>5. QED
    BY <1>2, <2>2, <2>3, <2>4, PcMovesKeep
<1>5. QED
  BY <1>3, <1>4

(* Steps that leave runs, threads, loop and orders alone.                  *)
LEMMA ElsewhereKeeps ==
    ASSUME TypeInv, HostInv, KernelInv,
           \/ \E m \in Mode : SetExecutionMode(m)
           \/ VenueLogin \/ VenueLogout
           \/ AccountFetch \/ SnapshotWithinLimit
           \/ UNCHANGED vars
    PROVE  KernelInv'
<1>1. UNCHANGED <<sm, registered, fresh, kernelVars, orderVars>> /\ UNCHANGED <<pc, job>>
  BY DEF SetExecutionMode, VenueLogin, VenueLogout, AccountFetch, SnapshotWithinLimit, vars
<1>2. \A t \in Thread : RunOf(t)' = RunOf(t)
  BY <1>1 DEF RunOf
<1>3. QED
  BY <1>1, <1>2, PcMovesKeep

-----------------------------------------------------------------------------
(* The moves of the runs.                                                  *)

(* Nobody tears down while the lock is free or the worker attaches.        *)
LEMMA NoTeardown ==
    ASSUME HostInv, lock = None \/ pc[Worker] = "attach_wait",
           NEW t \in Thread
    PROVE  pc[t] \notin HeldSteps \cup GoneSteps
<1>1. Worker \in Thread /\ None \notin Thread
  BY ConstantsAssumption DEF Thread, Worker, Run
<1>2. pc[t] \in Holding <=> lock = t
  BY DEF HostInv, LockHeld
<1>3. CASE lock = None
  BY <1>1, <1>2, <1>3 DEF Holding, HeldSteps, GoneSteps
<1>4. CASE pc[Worker] = "attach_wait"
  <2>1. lock = Worker
    BY <1>1, <1>4 DEF HostInv, LockHeld, Holding
  <2>2. QED
    BY <1>2, <1>4, <2>1 DEF Holding, HeldSteps, GoneSteps
<1>5. QED
  BY <1>3, <1>4

LEMMA PauseResumeKeep ==
    ASSUME IInv, KernelInv, PauseRun \/ ResumeRun
    PROVE  KernelInv'
<1>1. job \in Active /\ job \in Run /\ sm[job] \in {"RUNNING", "PAUSED"} /\ lock = None
  BY DEF PauseRun, ResumeRun, CanPause, CanResume, Active, IInv, TypeInv, TypeOK
<1>2. PICK s \in {"RUNNING", "PAUSED"} : sm' = [sm EXCEPT ![job] = s]
  BY DEF PauseRun, ResumeRun
<1>3. /\ UNCHANGED <<registered, fresh, kernelVars, orderVars, job>>
      /\ pc[Worker] \in {"pause_lock", "resume_lock"} /\ pc' = [pc EXCEPT ![Worker] = "read"]
  BY DEF PauseRun, ResumeRun, Goto
<1>4. kernel = job /\ job \in kernels
  BY <1>1 DEF KernelInv, KernelOwned, Active
<1>5. Worker \in Thread /\ pc \in [Thread -> Step] /\ sm \in [Run -> Status]
  BY DEF IInv, TypeInv, TypeOK, Thread
<1>6. \A t \in Thread : pc'[t] \notin HeldSteps \cup GoneSteps
  BY <1>1, <1>3, <1>5, NoTeardown DEF IInv, HeldSteps, GoneSteps
<1>7. pc'[Worker] = "read"
  BY <1>3, <1>5
<1>8. AttachWaited'
  <2> SUFFICES ASSUME NEW r \in Run, attach[r] \in {"queued", "subscribing"}
               PROVE  sm'[r] = "ERROR" /\ r \notin registered
    BY <1>3 DEF AttachWaited, Abandoned
  <2>1. Abandoned(r)
    BY <1>3 DEF KernelInv, AttachWaited
  <2>2. QED
    BY <1>1, <1>2, <1>5, <2>1 DEF Abandoned, Active
<1>9. KernelPhases' /\ TapPhases'
  BY <1>6, <1>7 DEF KernelPhases, TapPhases, HeldSteps, GoneSteps
<1>10. QED
  BY <1>1, <1>2, <1>3, <1>4, <1>8, <1>9, StatusKeeps DEF IInv, Status

LEMMA StopFailKeep ==
    ASSUME IInv, KernelInv, NEW t \in Thread,
           (t = Worker /\ StopRun) \/ (t \in Run /\ FailRun(t))
    PROVE  KernelInv'
<1> DEFINE r == RunOf(t)
<1>1. Worker \in Thread /\ Worker \notin Run /\ pc \in [Thread -> Step] /\ sm \in [Run -> Status]
  BY DEF IInv, TypeInv, TypeOK, Thread, Worker, Run
<1>2. r \in Active /\ r \in Run /\ lock = None
  BY <1>1 DEF StopRun, FailRun, RunOf, Active, IInv, TypeInv, TypeOK
<1>3. sm[r] \in {"RUNNING", "PAUSED"}
  BY <1>2, SettledMoves
<1>4. PICK s \in {"STOPPING", "ERROR"} : sm' = [sm EXCEPT ![r] = s]
  <2>1. CASE t = Worker /\ StopRun
    BY <1>3, <2>1 DEF StopRun, RunOf
  <2>2. CASE t \in Run /\ FailRun(t)
    BY <1>1, <2>2 DEF FailRun, RunOf
  <2>3. QED
    BY <2>1, <2>2
<1>5. /\ UNCHANGED <<registered, fresh, kernelVars, orderVars, job>>
      /\ pc[t] # "attach_wait" /\ pc' = [pc EXCEPT ![t] = "cancel"]
  BY DEF StopRun, FailRun, Goto
<1>6. kernel = r /\ r \in kernels
  BY <1>2, <1>3 DEF KernelInv, KernelOwned, Active
<1>7. pc[Worker] # "attach_wait" /\ pc'[Worker] # "attach_wait"
  <2>1. pc[Worker] \notin Holding
    BY <1>1, <1>2, ConstantsAssumption DEF IInv, HostInv, LockHeld, Thread, Worker, Run
  <2>2. QED
    BY <1>1, <1>5, <2>1 DEF Holding
<1>8. \A u \in Thread : u # t => pc'[u] \notin HeldSteps \cup GoneSteps
  BY <1>1, <1>2, <1>5, NoTeardown DEF IInv
<1>9. AttachWaited'
  <2> SUFFICES ASSUME NEW q \in Run, attach[q] \in {"queued", "subscribing"}
               PROVE  sm'[q] = "ERROR" /\ q \notin registered
    BY <1>5 DEF AttachWaited, Abandoned
  <2>1. Abandoned(q)
    BY <1>7 DEF KernelInv, AttachWaited
  <2>2. QED
    BY <1>1, <1>2, <1>4, <2>1 DEF Abandoned, Active
<1>10. pc'[t] = "cancel" /\ RunOf(t)' = r /\ kernel' = kernel
  BY <1>1, <1>5 DEF RunOf
<1>11. KernelPhases' /\ TapPhases'
  BY <1>6, <1>7, <1>8, <1>10 DEF KernelPhases, TapPhases, HeldSteps, GoneSteps
<1> HIDE DEF r
<1>12. QED
  BY <1>2, <1>3, <1>4, <1>5, <1>9, <1>11, StatusKeeps DEF IInv, Status

LEMMA AttachSucceededOwns ==
    ASSUME IInv, KernelInv, AttachSucceeded
    PROVE  KernelInv'
<1>1. pc[Worker] = "attach_wait" /\ attach[job] = "done" /\ job \in registered /\ sm[job] = "READY"
  BY DEF AttachSucceeded, IInv, HostInv, StartPhases
<1>2. job \in Active /\ job \in Run
  BY <1>1 DEF Active, IInv, TypeInv, TypeOK
<1>3. /\ sm' = [sm EXCEPT ![job] = "RUNNING"] /\ pc' = [pc EXCEPT ![Worker] = "set_rails"]
      /\ UNCHANGED <<registered, fresh, kernelVars, orderVars, job>>
  BY DEF AttachSucceeded, Goto
<1>4. kernel = job /\ job \in kernels
  BY <1>1 DEF KernelInv, KernelPhases
<1>5. Worker \in Thread /\ pc \in [Thread -> Step] /\ sm \in [Run -> Status]
  BY DEF IInv, TypeInv, TypeOK, Thread
<1>6. \A t \in Thread : pc'[t] \notin HeldSteps \cup GoneSteps
  BY <1>1, <1>3, <1>5, NoTeardown DEF IInv, HeldSteps, GoneSteps
<1>7. pc'[Worker] = "set_rails"
  BY <1>3, <1>5
<1>8. AttachWaited'
  <2> SUFFICES ASSUME NEW r \in Run, attach[r] \in {"queued", "subscribing"}
               PROVE  sm'[r] = "ERROR" /\ r \notin registered
    BY <1>3 DEF AttachWaited, Abandoned
  <2>1. Abandoned(r)
    BY <1>1 DEF KernelInv, AttachWaited
  <2>2. QED
    BY <1>1, <1>2, <1>3, <1>5, <2>1 DEF Abandoned
<1>9. KernelPhases' /\ TapPhases'
  BY <1>6, <1>7 DEF KernelPhases, TapPhases, HeldSteps, GoneSteps
<1>10. QED
  BY <1>1, <1>2, <1>3, <1>4, <1>8, <1>9, StatusKeeps DEF IInv, Status

(* The attach is given up: nothing of the run is left but its coroutine.   *)
LEMMA AttachGivenUpOwns ==
    ASSUME IInv, KernelInv, AttachGivenUp
    PROVE  KernelInv'
<1> USE DEF KernelInv
<1> PICK r \in Run : r = job
  BY DEF AttachGivenUp, IInv, TypeInv, JobKnown
<1>1. pc[Worker] = "attach_wait" /\ job = r /\ r \in registered /\ sm[r] = "READY"
  BY DEF AttachGivenUp, IInv, HostInv, StartPhases
<1>2. r \in Active /\ Active = {r}
  BY <1>1, SlotOfActive DEF Active
<1>3. /\ sm' = [sm EXCEPT ![r] = "ERROR"] /\ registered' = registered \ {r}
      /\ pc' = [pc EXCEPT ![Worker] = "idle"] /\ UNCHANGED <<fresh, kernelVars, orderVars>>
  BY DEF AttachGivenUp, Goto
<1>4. /\ Worker \in Thread /\ pc \in [Thread -> Step] /\ sm \in [Run -> Status]
      /\ registered \subseteq Run /\ kernels \subseteq Run /\ swept \subseteq Run
  BY DEF IInv, TypeInv, TypeOK, Thread
<1>5. \A t \in Thread : pc'[t] \notin HeldSteps \cup GoneSteps \cup {"attach_wait"}
  <2>1. ASSUME NEW t \in Thread PROVE pc[t] \notin HeldSteps \cup GoneSteps
    BY <1>1, NoTeardown DEF IInv
  <2>2. ASSUME NEW t \in Thread, t # Worker PROVE pc[t] # "attach_wait"
    BY <2>2, ConstantsAssumption
       DEF IInv, HostInv, Roles, TeardownSteps, Thread
  <2>3. QED
    BY <1>3, <1>4, <2>1, <2>2 DEF HeldSteps, GoneSteps
<1>6. /\ sm'[r] = "ERROR" /\ \A q \in Run : q # r => sm'[q] = sm[q]
      /\ \A q \in Run : q # r => (q \in registered' <=> q \in registered)
  BY <1>2, <1>3, <1>4
<1>7. Abandoned(r)' /\ \A q \in Run : Abandoned(q) => Abandoned(q)'
  BY <1>1, <1>3, <1>6 DEF Abandoned
<1>8. \A q \in Run : TornDown(q) => TornDown(q)'
  BY <1>1, <1>6 DEF TornDown
<1>9. Active' = {}
  BY <1>2, <1>3, <1>4, <1>6 DEF Active
<1>10. QueueInv'
  BY <1>3, <1>8, QueueStays DEF QueueInv, IInv
<1>11. LoopNumbering' /\ SweepIsFinal'
  BY <1>3 DEF LoopNumbering, SweepIsFinal
<1>12. KernelsKnown'
  BY <1>3, <1>4, <1>6, <1>7 DEF KernelsKnown
<1>13. ActiveIsYoungest' /\ TapRemoved'
  BY <1>2, <1>7, <1>9 DEF ActiveIsYoungest, TapRemoved
<1>14. SweptTornDown'
  BY <1>3, <1>4, <1>8 DEF SweptTornDown
<1>15. AttachWaited'
  BY <1>3, <1>7 DEF AttachWaited
<1>16. KernelPhases' /\ TapPhases'
  BY <1>4, <1>5 DEF KernelPhases, TapPhases, HeldSteps, GoneSteps
<1>17. KernelOwned'
  <2>1. ASSUME NEW q \in registered' PROVE sm'[q] \notin {"RUNNING", "PAUSED"}
    BY <1>2, <1>3, <1>4, <1>6 DEF Active
  <2>2. ASSUME NEW q \in kernels'
        PROVE  Abandoned(q)' \/ \E i \in 1 .. Len(loopq') : loopq'[i] = [task |-> "stop", run |-> q]
    BY <1>2, <1>3, <1>4, <1>7, <2>2 DEF KernelOwned
  <2>3. QED
    BY <2>1, <2>2 DEF KernelOwned
<1>18. QED
  BY <1>10, <1>11, <1>12, <1>13, <1>14, <1>15, <1>16, <1>17 DEF QueueInv

(* The teardown is over: the stop of the kernel is queued or done.         *)
LEMMA FinishOwns ==
    ASSUME IInv, KernelInv, NEW t \in Thread, Finish(t)
    PROVE  KernelInv'
<1> DEFINE r == RunOf(t)
<1> USE DEF KernelInv
<1>1. pc[t] = "finish" /\ lock = t /\ r \in registered /\ sm[r] \in {"STOPPING", "ERROR"}
  BY DEF Finish, IInv, HostInv, LockHeld, Holding, StopPhases, TeardownSteps
<1>2. r \in Active /\ r \in Run /\ Active = {r}
  BY <1>1, SlotOfActive DEF Active
<1>3. /\ sm' = [sm EXCEPT ![r] = "STOPPED"] /\ UNCHANGED <<registered, fresh, job, kernelVars, orderVars>>
      /\ \E step \in {"release", "read"} : pc' = [pc EXCEPT ![t] = step]
  BY DEF Finish, Goto
<1>4. /\ Worker \in Thread /\ pc \in [Thread -> Step] /\ sm \in [Run -> Status]
      /\ registered \subseteq Run /\ kernels \subseteq Run /\ swept \subseteq Run
  BY DEF IInv, TypeInv, TypeOK, Thread
<1>5. \A u \in Thread : pc'[u] \notin HeldSteps \cup GoneSteps \cup {"attach_wait"}
  BY <1>1, <1>3, <1>4 DEF IInv, HostInv, LockHeld, Holding, HeldSteps, GoneSteps
<1>6. sm'[r] = "STOPPED" /\ \A q \in Run : q # r => sm'[q] = sm[q]
  BY <1>2, <1>3, <1>4
<1>7. \A q \in Run : Abandoned(q)' <=> Abandoned(q)
  BY <1>1, <1>3, <1>6 DEF Abandoned
<1>8. \A q \in Run : TornDown(q) => TornDown(q)'
  BY <1>3, <1>6 DEF TornDown
<1>9. Active' = {}
  BY <1>2, <1>3, <1>4, <1>6 DEF Active
<1>10. QueueInv'
  BY <1>3, <1>8, QueueStays DEF QueueInv, IInv
<1>11. LoopNumbering' /\ SweepIsFinal'
  BY <1>3 DEF LoopNumbering, SweepIsFinal
<1>12. KernelsKnown'
  BY <1>3, <1>4, <1>7 DEF KernelsKnown
<1>13. ActiveIsYoungest'
  BY <1>9 DEF ActiveIsYoungest
<1>14. SweptTornDown'
  BY <1>3, <1>4, <1>8 DEF SweptTornDown
<1>15. AttachWaited'
  <2>1. pc[Worker] # "attach_wait"
    BY <1>1, <1>4 DEF IInv, HostInv, LockHeld, Holding
  <2>2. QED
    BY <1>3, <1>7, <2>1 DEF AttachWaited
<1>16. KernelPhases' /\ TapPhases'
  BY <1>4, <1>5 DEF KernelPhases, TapPhases, HeldSteps, GoneSteps
<1>17. KernelOwned'
  <2>1. ASSUME NEW q \in registered' PROVE sm'[q] \notin {"RUNNING", "PAUSED"}
    BY <1>2, <1>3, <1>4, <1>6 DEF Active
  <2>2. ASSUME NEW q \in kernels'
        PROVE  Abandoned(q)' \/ \E i \in 1 .. Len(loopq') : loopq'[i] = [task |-> "stop", run |-> q]
    <3>1. q \in kernels /\ q \in Run
      BY <1>3, <1>4, <2>2
    <3>2. CASE q = r
      <4>1. Queued("stop", r)
        BY <1>1, <3>1, <3>2 DEF KernelPhases
      <4>2. QED
        BY <1>3, <3>2, <4>1 DEF Queued
    <3>3. CASE q # r
      BY <1>2, <1>3, <1>7, <3>1, <3>3 DEF KernelOwned
    <3>4. QED
      BY <3>2, <3>3
  <2>3. QED
    BY <2>1, <2>2 DEF KernelOwned
<1>18. TapRemoved'
  <2> SUFFICES ASSUME \A q \in Run : ~Abandoned(q)'
               PROVE  taps' \subseteq {listener'} /\ listener' \in Active' \cup {None}
    BY DEF TapRemoved
  <2>1. \A q \in Run : ~Abandoned(q)
    BY <1>7
  <2>2. listener = None
    BY <1>1, <2>1 DEF TapPhases
  <2>3. QED
    BY <1>3, <2>1, <2>2 DEF TapRemoved
<1>19. QED
  BY <1>10, <1>11, <1>12, <1>13, <1>14, <1>15, <1>16, <1>17, <1>18 DEF QueueInv

(* A run the registry forgets is STOPPED and so is a younger one: that one *)
(* was attached after everything queued for the older one had been done.   *)
LEMMA EvictedHasNoKernel ==
    ASSUME IInv, KernelInv, NEW r \in Evicted(registered)
    PROVE  r \in Run /\ sm[r] = "STOPPED" /\ r \notin kernels
<1> USE DEF KernelInv
<1> DEFINE terminal == {q \in registered : sm[q] = "STOPPED"}
           newer == {q \in terminal : q > r}
<1>1. r \in registered /\ sm[r] = "STOPPED" /\ Cardinality(newer) >= MaxHistory
  BY DEF Evicted
<1>2. r \in Run /\ registered \subseteq Run /\ fresh \in 1 .. MaxRuns + 1
  BY <1>1 DEF IInv, TypeInv, TypeOK
<1>3. newer # {}
  <2>1. newer = {} => Cardinality(newer) = 0
    BY FS_EmptySet
  <2>2. QED
    BY <1>1, <2>1, ConstantsAssumption
<1>4. PICK q \in registered : sm[q] = "STOPPED" /\ q > r
  BY <1>3
<1>5. q \in Run /\ q < fresh
  BY <1>2, <1>4 DEF IInv, HostInv, Numbering, Run
<1>6. attach[q] # "queued"
  <2>1. ~Abandoned(q)
    BY <1>4 DEF Abandoned
  <2>2. ~(pc[Worker] = "attach_wait" /\ job = q)
    BY <1>4 DEF IInv, HostInv, StartPhases
  <2>3. QED
    BY <1>5, <2>1, <2>2 DEF AttachWaited
<1>7. ASSUME r \in kernels PROVE FALSE
  <2>1. PICK i \in 1 .. Len(loopq) : loopq[i] = [task |-> "stop", run |-> r]
    BY <1>1, <1>7 DEF KernelOwned, Active, Abandoned
  <2>2. loopq[i].run < q
    BY <1>2, <1>4, <1>5, <2>1 DEF Run
  <2>3. QED
    BY <1>5, <1>6, <2>2 DEF QueueInOrder
<1>8. QED
  BY <1>1, <1>2, <1>7

(* A run is numbered, registered and its attach is queued behind all else. *)
LEMMA StartRegisteredOwns ==
    ASSUME IInv, KernelInv, StartRegistered
    PROVE  KernelInv'
<1> USE DEF KernelInv
<1>1. /\ Active = {} /\ fresh \in Run /\ fresh' = fresh + 1 /\ lock = None
      /\ fresh \notin registered /\ sm[fresh] = "IDLE"
  BY DEF StartRegistered, IInv, TypeInv, TypeOK, HostInv, Numbering, Run
<1>2. /\ sm' = [sm EXCEPT ![fresh] = "READY"] /\ job' = fresh
      /\ registered' = (registered \cup {fresh}) \ Evicted(registered)
      /\ attach' = [attach EXCEPT ![fresh] = "queued"] /\ Schedule("attach", fresh)
      /\ pc' = [pc EXCEPT ![Worker] = "attach_wait"]
      /\ UNCHANGED <<kernel, kernels, listener, taps, ord, swept>>
  BY DEF StartRegistered, Goto
<1>3. /\ Worker \in Thread /\ pc \in [Thread -> Step] /\ sm \in [Run -> Status]
      /\ registered \subseteq Run /\ kernels \subseteq Run /\ swept \subseteq Run
      /\ attach \in [Run -> AttachStep] /\ loopq \in Seq(LoopTask)
  BY DEF IInv, TypeInv, TypeOK, Thread
<1>4. \A t \in Thread : pc'[t] \notin HeldSteps \cup GoneSteps
  BY <1>1, <1>2, <1>3, NoTeardown DEF IInv, HeldSteps, GoneSteps
<1>5. /\ sm'[fresh] = "READY" /\ attach'[fresh] = "queued" /\ pc'[Worker] = "attach_wait"
      /\ \A q \in Run : q # fresh => sm'[q] = sm[q] /\ attach'[q] = attach[q]
  BY <1>1, <1>2, <1>3
<1>6. /\ attach[fresh] = "none" /\ fresh \notin kernels /\ fresh \notin swept
      /\ \A i \in 1 .. Len(loopq) : loopq[i].run \in Run /\ loopq[i].run < fresh
  <2>1. attach[fresh] = "none" /\ fresh \notin kernels /\ fresh \notin swept
    BY <1>1 DEF LoopNumbering, Run
  <2>2. QED
    BY <2>1, EntryNumbered DEF IInv, QueueInv
<1>7. \A q \in Evicted(registered) : q \in Run /\ q \in registered /\ sm[q] = "STOPPED" /\ q \notin kernels
  BY EvictedHasNoKernel, EvictedStopped
<1>8. fresh \in registered' /\ \A q \in registered : sm[q] = "STOPPED" /\ sm'[q] = "STOPPED"
  BY <1>1, <1>2, <1>3, <1>5, <1>7 DEF Active
<1>9. \A q \in Run : Abandoned(q) => Abandoned(q)' /\ q # fresh
  BY <1>1, <1>2, <1>5 DEF Abandoned
<1>10. \A q \in Run : TornDown(q) => TornDown(q)'
  BY <1>1, <1>5, <1>8 DEF TornDown
<1>11. Active' = {fresh}
  BY <1>2, <1>5, <1>8 DEF Active
<1> DEFINE n == Len(loopq)
<1>12. /\ Len(loopq') = n + 1 /\ n \in Nat
       /\ \A i \in 1 .. n : loopq'[i] = loopq[i]
       /\ loopq'[n + 1] = [task |-> "attach", run |-> fresh]
       /\ \A k, q : Queued(k, q)' <=> Queued(k, q) \/ (k = "attach" /\ q = fresh)
  BY <1>1, <1>2, <1>3, AppendQueue
<1>13. LoopNumbering'
  BY <1>1, <1>2, <1>5 DEF LoopNumbering, Run
<1>14. QueueSorted'
  <2> SUFFICES ASSUME NEW i \in 1 .. n + 1, NEW j \in 1 .. n + 1, i < j
               PROVE  /\ loopq'[i].run <= loopq'[j].run
                      /\ loopq'[j].task = "attach" => loopq'[i].run < loopq'[j].run
    BY <1>12 DEF QueueSorted
  <2>1. i \in 1 .. n
    BY <1>12
  <2>2. CASE j \in 1 .. n
    BY <1>12, <2>1, <2>2 DEF QueueSorted
  <2>3. CASE j = n + 1
    BY <1>1, <1>6, <1>12, <2>1, <2>3 DEF Run
  <2>4. QED
    BY <1>12, <2>2, <2>3
<1>15. AttachQueued'
  BY <1>5, <1>12 DEF AttachQueued
<1>16. QueueInOrder'
  <2> SUFFICES ASSUME NEW i \in 1 .. n + 1, NEW q \in Run, loopq'[i].run < q, q < fresh + 1
               PROVE  attach'[q] = "queued"
    BY <1>1, <1>12 DEF QueueInOrder
  <2>1. CASE q = fresh
    BY <1>5, <2>1
  <2>2. CASE q # fresh
    <3>1. q < fresh
      BY <1>1, <2>2 DEF Run
    <3>2. i # n + 1
      BY <1>1, <1>12, <3>1 DEF Run
    <3>3. i \in 1 .. n
      BY <1>12, <3>2
    <3>4. QED
      BY <1>5, <1>12, <2>2, <3>1, <3>3 DEF QueueInOrder
  <2>3. QED
    BY <2>1, <2>2
<1>17. TasksTearDown'
  <2> SUFFICES ASSUME NEW i \in 1 .. n + 1, loopq'[i].task # "attach"
               PROVE  TornDown(loopq[i].run)'
    BY <1>12 DEF TasksTearDown
  <2>1. i \in 1 .. n
    BY <1>12
  <2>2. QED
    BY <1>6, <1>10, <1>12, <2>1 DEF TasksTearDown
<1> HIDE DEF n
<1>18. ActiveIsYoungest'
  BY <1>1, <1>11 DEF ActiveIsYoungest
<1>19. AttachWaited'
  <2> SUFFICES ASSUME NEW q \in Run, attach'[q] \in {"queued", "subscribing"}, q # fresh
               PROVE  Abandoned(q)'
    BY <1>2, <1>5 DEF AttachWaited
  <2>1. pc[Worker] # "attach_wait"
    BY <1>1, <1>3, ConstantsAssumption DEF IInv, HostInv, LockHeld, Holding, Thread, Worker, Run
  <2>2. QED
    BY <1>5, <1>9, <2>1 DEF AttachWaited
<1>20. KernelPhases'
  BY <1>2, <1>4, <1>5 DEF KernelPhases, HeldSteps, GoneSteps
<1>21. KernelsKnown'
  BY <1>2, <1>3, <1>7, <1>9 DEF KernelsKnown
<1>22. SweptTornDown'
  BY <1>2, <1>3, <1>10 DEF SweptTornDown
<1>23. TapPhases'
  BY <1>4 DEF TapPhases, GoneSteps
<1>24. KernelOwned'
  <2>1. ASSUME NEW q \in registered' PROVE sm'[q] \notin {"RUNNING", "PAUSED"}
    BY <1>2, <1>5, <1>8
  <2>2. ASSUME NEW q \in kernels'
        PROVE  Abandoned(q)' \/ \E i \in 1 .. Len(loopq') : loopq'[i] = [task |-> "stop", run |-> q]
    <3>1. q \in kernels /\ q \in Run
      BY <1>2, <1>3
    <3>2. Abandoned(q) \/ Queued("stop", q)
      BY <1>1, <3>1 DEF KernelOwned, Queued
    <3>3. QED
      BY <1>9, <1>12, <3>1, <3>2 DEF Queued
  <2>3. QED
    BY <2>1, <2>2 DEF KernelOwned
<1>25. SweepIsFinal'
  BY <1>2 DEF SweepIsFinal
<1>26. TapRemoved'
  <2> SUFFICES ASSUME \A q \in Run : ~Abandoned(q)'
               PROVE  taps' \subseteq {listener'} /\ listener' \in Active' \cup {None}
    BY DEF TapRemoved
  <2>1. \A q \in Run : ~Abandoned(q)
    BY <1>9
  <2>2. QED
    BY <1>1, <1>2, <2>1 DEF TapRemoved
<1>27. QED
  BY <1>13, <1>14, <1>15, <1>16, <1>17, <1>18, <1>19, <1>20, <1>21, <1>22, <1>23, <1>24,
     <1>25, <1>26

-----------------------------------------------------------------------------
(* The teardown as it schedules the loop's tasks.                          *)

(* A run in its teardown holds the slot; nobody attaches, nobody else      *)
(* tears down.                                                             *)
LEMMA TearingAlone ==
    ASSUME IInv, NEW t \in Thread, pc[t] \in TeardownSteps
    PROVE  /\ RunOf(t) \in Active /\ RunOf(t) \in Run /\ Active = {RunOf(t)}
           /\ sm[RunOf(t)] \in {"STOPPING", "ERROR"} /\ TornDown(RunOf(t))
           /\ pc[Worker] # "attach_wait"
           /\ \A u \in Thread : u # t => pc[u] \notin HeldSteps \cup GoneSteps
<1>1. RunOf(t) \in registered /\ sm[RunOf(t)] \in {"STOPPING", "ERROR"}
  BY DEF IInv, HostInv, StopPhases
<1>2. RunOf(t) \in Active /\ RunOf(t) \in Run /\ Active = {RunOf(t)}
  BY <1>1, SlotOfActive DEF Active
<1>3. TornDown(RunOf(t))
  BY <1>1 DEF TornDown
<1>4. lock = t /\ \A u \in Thread : u # t => pc[u] \notin Holding
  BY DEF IInv, HostInv, LockHeld, Holding, TeardownSteps
<1>5. pc[Worker] # "attach_wait"
  <2>1. Worker \in Thread
    BY DEF Thread
  <2>2. CASE t = Worker
    BY <2>2 DEF TeardownSteps
  <2>3. CASE t # Worker
    BY <1>4, <2>1, <2>3 DEF Holding
  <2>4. QED
    BY <2>2, <2>3
<1>6. QED
  BY <1>1, <1>2, <1>3, <1>4, <1>5 DEF Holding, HeldSteps, GoneSteps

LEMMA CancelInflightOwns ==
    ASSUME IInv, KernelInv, NEW t \in Thread, CancelInflight(t)
    PROVE  KernelInv'
<1> USE DEF KernelInv
<1> PICK r \in Run : r = RunOf(t) /\ r \in Active
  <2>1. pc[t] \in TeardownSteps
    BY DEF CancelInflight, TeardownSteps
  <2>2. QED
    BY <2>1, TearingAlone
<1>1. pc[t] = "cancel" /\ r = RunOf(t) /\ TornDown(r) /\ pc[Worker] # "attach_wait"
      /\ \A u \in Thread : u # t => pc[u] \notin HeldSteps \cup GoneSteps
  <2>1. pc[t] = "cancel" /\ pc[t] \in TeardownSteps
    BY DEF CancelInflight, TeardownSteps
  <2>2. QED
    BY <2>1, TearingAlone
<1>2. kernel = r /\ r + 1 = fresh /\ r # None
  BY <1>1, ConstantsAssumption DEF KernelPhases, ActiveIsYoungest, Run
<1>3. /\ pc' = [pc EXCEPT ![t] = "cancel_wait"] /\ Schedule("cancel", r)
      /\ UNCHANGED <<sm, registered, fresh, job, attach, kernel, kernels, listener, taps, ord, swept>>
  BY <1>2 DEF CancelInflight, Goto
<1>4. /\ Worker \in Thread /\ pc \in [Thread -> Step] /\ loopq \in Seq(LoopTask)
      /\ kernels \subseteq Run /\ swept \subseteq Run
  BY DEF IInv, TypeInv, TypeOK, Thread
<1>5. /\ pc'[t] = "cancel_wait" /\ pc'[Worker] # "attach_wait" /\ RunOf(t)' = r
      /\ \A u \in Thread : u # t => pc'[u] \notin HeldSteps \cup GoneSteps
  BY <1>1, <1>3, <1>4 DEF RunOf
<1>6. \A q \in Run : (Abandoned(q)' <=> Abandoned(q)) /\ (TornDown(q)' <=> TornDown(q))
  BY <1>3 DEF Abandoned, TornDown
<1>7. Active' = Active
  BY <1>3 DEF Active
<1>8. QueueInv'
  BY <1>1, <1>2, <1>3, ScheduleKeeps DEF IInv, QueueInv
<1>9. \A k, q : Queued(k, q) => Queued(k, q)'
  BY <1>3, <1>4, AppendQueue
<1>10. LoopNumbering' /\ SweepIsFinal'
  BY <1>3 DEF LoopNumbering, SweepIsFinal
<1>11. ActiveIsYoungest'
  BY <1>3, <1>7 DEF ActiveIsYoungest
<1>12. AttachWaited'
  BY <1>1, <1>3, <1>6 DEF AttachWaited
<1>13. KernelPhases' /\ TapPhases'
  BY <1>2, <1>3, <1>5 DEF KernelPhases, TapPhases, HeldSteps, GoneSteps
<1>14. KernelsKnown' /\ SweptTornDown'
  BY <1>3, <1>4, <1>6 DEF KernelsKnown, SweptTornDown
<1>15. KernelOwned'
  <2>1. \A q \in kernels : q \in Active \/ Abandoned(q) \/ Queued("stop", q)
    BY DEF KernelOwned, Queued
  <2>2. \A q \in kernels' : q \in Active' \/ Abandoned(q)' \/ Queued("stop", q)'
    BY <1>3, <1>4, <1>6, <1>7, <1>9, <2>1
  <2>3. QED
    BY <1>3, <2>2 DEF KernelOwned, Queued
<1>16. TapRemoved'
  BY <1>3, <1>6, <1>7 DEF TapRemoved
<1>17. QED
  BY <1>8, <1>10, <1>11, <1>12, <1>13, <1>14, <1>15, <1>16 DEF QueueInv

LEMMA DetachOwns ==
    ASSUME IInv, KernelInv, NEW t \in Thread, Detach(t)
    PROVE  KernelInv'
<1> USE DEF KernelInv
<1> PICK r \in Run : r = RunOf(t) /\ r \in Active
  <2>1. pc[t] \in TeardownSteps
    BY DEF Detach, TeardownSteps
  <2>2. QED
    BY <2>1, TearingAlone
<1>1. pc[t] = "detach" /\ r = RunOf(t) /\ TornDown(r) /\ sm[r] \in {"STOPPING", "ERROR"}
      /\ pc[Worker] # "attach_wait" /\ Active = {r}
      /\ \A u \in Thread : u # t => pc[u] \notin HeldSteps \cup GoneSteps
  <2>1. pc[t] = "detach" /\ pc[t] \in TeardownSteps
    BY DEF Detach, TeardownSteps
  <2>2. QED
    BY <2>1, TearingAlone
<1>2. kernel = r /\ r + 1 = fresh /\ r # None
  BY <1>1, ConstantsAssumption DEF KernelPhases, ActiveIsYoungest, Run
<1>3. /\ pc' = [pc EXCEPT ![t] = "stop_wait"] /\ Schedule("stop", r)
      /\ taps' = taps \ {listener} /\ listener' = None
      /\ UNCHANGED <<sm, registered, fresh, job, attach, kernels, ord, swept>>
  BY <1>2 DEF Detach, Goto
<1>4. /\ Worker \in Thread /\ pc \in [Thread -> Step] /\ loopq \in Seq(LoopTask)
      /\ kernels \subseteq Run /\ swept \subseteq Run
  BY DEF IInv, TypeInv, TypeOK, Thread
<1>5. /\ pc'[t] = "stop_wait" /\ pc'[Worker] # "attach_wait" /\ RunOf(t)' = r
      /\ \A u \in Thread : u # t => pc'[u] \notin HeldSteps \cup GoneSteps
  BY <1>1, <1>3, <1>4 DEF RunOf
<1>6. \A q \in Run : (Abandoned(q)' <=> Abandoned(q)) /\ (TornDown(q)' <=> TornDown(q))
  BY <1>3 DEF Abandoned, TornDown
<1>7. Active' = Active
  BY <1>3 DEF Active
<1>8. QueueInv'
  BY <1>1, <1>2, <1>3, ScheduleKeeps DEF IInv, QueueInv
<1>9. Queued("stop", r)' /\ \A k, q : Queued(k, q) => Queued(k, q)'
  BY <1>3, <1>4, AppendQueue
<1>10. LoopNumbering' /\ SweepIsFinal'
  BY <1>3 DEF LoopNumbering, SweepIsFinal
<1>11. ActiveIsYoungest'
  BY <1>3, <1>7 DEF ActiveIsYoungest
<1>12. AttachWaited'
  BY <1>1, <1>3, <1>6 DEF AttachWaited
<1>13. KernelPhases' /\ TapPhases'
  <2>1. /\ pc'[t] \notin HeldSteps
        /\ \A u \in Thread : u # t => pc'[u] \notin HeldSteps \cup GoneSteps
    BY <1>5 DEF HeldSteps
  <2>2. QED
    BY <1>3, <1>5, <1>9, <2>1 DEF KernelPhases, TapPhases, HeldSteps, GoneSteps
<1>14. KernelsKnown' /\ SweptTornDown'
  BY <1>3, <1>4, <1>6 DEF KernelsKnown, SweptTornDown
<1>15. KernelOwned'
  <2>1. \A q \in kernels : q \in Active \/ Abandoned(q) \/ Queued("stop", q)
    BY DEF KernelOwned, Queued
  <2>2. \A q \in kernels' : q \in Active' \/ Abandoned(q)' \/ Queued("stop", q)'
    BY <1>3, <1>4, <1>6, <1>7, <1>9, <2>1
  <2>3. ASSUME NEW q \in registered' PROVE sm'[q] \notin {"RUNNING", "PAUSED"}
    BY <1>1, <1>3 DEF Active
  <2>4. QED
    BY <2>2, <2>3 DEF KernelOwned, Queued
<1>16. TapRemoved'
  BY <1>3, <1>6 DEF TapRemoved
<1>17. QED
  BY <1>8, <1>10, <1>11, <1>12, <1>13, <1>14, <1>15, <1>16 DEF QueueInv

-----------------------------------------------------------------------------
(* The loop.                                                               *)

(* The attach at the head of the queue is of a run nobody registered any   *)
(* more, or of the one the worker waits for; no run trades or is torn down *)
(* meanwhile unless the worker waits for it.                               *)
LEMMA AttachAtHead ==
    ASSUME IInv, KernelInv, NEW r \in Run, Begin("attach", r)
    PROVE  /\ attach[r] = "queued"
           /\ (pc[Worker] = "attach_wait" /\ job = r) \/ Abandoned(r)
           /\ \A q \in Active : pc[Worker] = "attach_wait" /\ job = q
           /\ \A t \in Thread : pc[t] \notin HeldSteps \cup GoneSteps
           /\ pc[Worker] = "attach_wait" /\ job # r => attach[job] = "queued"
<1> USE DEF KernelInv
<1>1. Queued("attach", r) /\ attach[r] = "queued"
  <2>1. \A k, q : Queued(k, q) <=> Queued(k, q)' \/ (k = "attach" /\ q = r)
    BY BeginQueue DEF IInv, TypeInv, TypeOK
  <2>2. Queued("attach", r)
    BY <2>1
  <2>3. QED
    BY <2>2 DEF AttachQueued
<1>2. (pc[Worker] = "attach_wait" /\ job = r) \/ Abandoned(r)
  BY <1>1 DEF AttachWaited
<1>3. ASSUME NEW q \in Active PROVE pc[Worker] = "attach_wait" /\ job = q
  BY <1>1, <1>3, NoAttachQueued DEF IInv
<1>4. ASSUME NEW t \in Thread PROVE pc[t] \notin HeldSteps \cup GoneSteps
  <2>1. SUFFICES ASSUME pc[t] \in HeldSteps \cup GoneSteps PROVE FALSE
    OBVIOUS
  <2>2. pc[t] \in TeardownSteps
    BY <2>1 DEF HeldSteps, GoneSteps, TeardownSteps
  <2>3. RunOf(t) \in Active /\ pc[Worker] # "attach_wait"
    BY <2>2, TearingAlone
  <2>4. QED
    BY <1>3, <2>3
<1>5. ASSUME pc[Worker] = "attach_wait", job # r PROVE attach[job] = "queued"
  <2>1. job \in Active /\ job \in Run /\ job + 1 = fresh
    BY <1>5 DEF IInv, TypeInv, TypeOK, HostInv, StartPhases, Active, ActiveIsYoungest
  <2>2. PICK i \in 1 .. Len(loopq) : loopq[i] = [task |-> "attach", run |-> r]
    BY <1>1 DEF Queued
  <2>3. loopq[i].run = r /\ r < fresh
    BY <2>2, EntryNumbered DEF IInv, QueueInv
  <2>4. fresh \in 1 .. MaxRuns + 1
    BY DEF IInv, TypeInv, TypeOK
  <2>5. r < job /\ job < fresh
    BY <1>5, <2>1, <2>3, <2>4, ConstantsAssumption DEF Run
  <2>6. QED
    BY <2>1, <2>2, <2>5 DEF QueueInOrder
<1>6. QED
  BY <1>1, <1>2, <1>3, <1>4, <1>5

LEMMA AttachFailsOwns ==
    ASSUME IInv, KernelInv, NEW r \in Run, AttachFails(r)
    PROVE  KernelInv'
<1> USE DEF KernelInv
<1>1. /\ Begin("attach", r) /\ attach' = [attach EXCEPT ![r] = "failed"]
      /\ UNCHANGED <<sm, registered, fresh, pc, job, kernel, kernels, listener, taps, ord, swept>>
  BY DEF AttachFails
<1>2. attach'[r] = "failed" /\ \A q \in Run : q # r => attach'[q] = attach[q]
  BY <1>1 DEF IInv, TypeInv, TypeOK
<1>3. /\ attach[r] = "queued"
      /\ \A t \in Thread : pc[t] \notin HeldSteps \cup GoneSteps
  BY <1>1, AttachAtHead
<1>4. QueueInv'
  BY <1>1, <1>2, BeginKeeps DEF IInv, QueueInv
<1>5. \A q \in Run : (Abandoned(q)' <=> Abandoned(q)) /\ (TornDown(q)' <=> TornDown(q))
  BY <1>1 DEF Abandoned, TornDown
<1>6. Active' = Active /\ kernels \subseteq Run /\ swept \subseteq Run
  BY <1>1 DEF Active, IInv, TypeInv, TypeOK
<1>7. \A q : Queued("stop", q)' <=> Queued("stop", q)
  <2>1. \A k, q : Queued(k, q) <=> Queued(k, q)' \/ (k = "attach" /\ q = r)
    BY <1>1, BeginQueue DEF IInv, TypeInv, TypeOK
  <2>2. QED
    BY <2>1
<1>8. LoopNumbering'
  BY <1>1, <1>2, <1>3 DEF LoopNumbering
<1>9. ActiveIsYoungest' /\ SweepIsFinal'
  BY <1>1, <1>6 DEF ActiveIsYoungest, SweepIsFinal
<1>10. AttachWaited'
  BY <1>1, <1>2, <1>5 DEF AttachWaited
<1>11. KernelPhases' /\ TapPhases'
  <2>1. pc[Worker] = "attach_wait" => job \in Run
    BY DEF IInv, TypeInv, JobKnown
  <2>2. QED
    BY <1>1, <1>2, <1>3, <2>1 DEF KernelPhases, TapPhases, HeldSteps, GoneSteps
<1>12. KernelsKnown' /\ SweptTornDown'
  BY <1>1, <1>5, <1>6 DEF KernelsKnown, SweptTornDown
<1>13. KernelOwned'
  BY <1>1, <1>5, <1>6, <1>7 DEF KernelOwned, Queued
<1>14. TapRemoved'
  BY <1>1, <1>5, <1>6 DEF TapRemoved
<1>15. QED
  BY <1>4, <1>8, <1>9, <1>10, <1>11, <1>12, <1>13, <1>14 DEF QueueInv

LEMMA AttachKernelOwns ==
    ASSUME IInv, KernelInv, NEW r \in Run, AttachKernel(r)
    PROVE  KernelInv'
<1> USE DEF KernelInv
<1>1. /\ Begin("attach", r) /\ kernels' = kernels \cup {r} /\ kernel' = r
      /\ \E s \in {"subscribing", "done"} : attach' = [attach EXCEPT ![r] = s]
      /\ UNCHANGED <<sm, registered, fresh, pc, job, listener, taps, ord, swept>>
  BY DEF AttachKernel
<1>2. /\ attach'[r] \in {"subscribing", "done"}
      /\ \A q \in Run : q # r => attach'[q] = attach[q]
  BY <1>1 DEF IInv, TypeInv, TypeOK
<1>3. /\ attach[r] = "queued"
      /\ (pc[Worker] = "attach_wait" /\ job = r) \/ Abandoned(r)
      /\ \A q \in Active : pc[Worker] = "attach_wait" /\ job = q
      /\ \A t \in Thread : pc[t] \notin HeldSteps \cup GoneSteps
      /\ pc[Worker] = "attach_wait" /\ job # r => attach[job] = "queued"
  BY <1>1, AttachAtHead
<1>4. QueueInv'
  BY <1>1, <1>2, BeginKeeps DEF IInv, QueueInv
<1>5. \A q \in Run : (Abandoned(q)' <=> Abandoned(q)) /\ (TornDown(q)' <=> TornDown(q))
  BY <1>1 DEF Abandoned, TornDown
<1>6. Active' = Active /\ kernels \subseteq Run /\ swept \subseteq Run
  BY <1>1 DEF Active, IInv, TypeInv, TypeOK
<1>7. \A q : Queued("stop", q)' <=> Queued("stop", q)
  <2>1. \A k, q : Queued(k, q) <=> Queued(k, q)' \/ (k = "attach" /\ q = r)
    BY <1>1, BeginQueue DEF IInv, TypeInv, TypeOK
  <2>2. QED
    BY <2>1
<1>8. r < fresh
  BY <1>3 DEF LoopNumbering, IInv, TypeInv, TypeOK, Run
<1>9. LoopNumbering'
  BY <1>1, <1>2, <1>8 DEF LoopNumbering, IInv, TypeInv, TypeOK, Run
<1>10. ActiveIsYoungest' /\ SweepIsFinal'
  BY <1>1, <1>6 DEF ActiveIsYoungest, SweepIsFinal
<1>11. AttachWaited'
  BY <1>1, <1>2, <1>3, <1>5 DEF AttachWaited
<1>12. KernelPhases' /\ TapPhases'
  <2>1. pc[Worker] = "attach_wait" => job \in Run
    BY DEF IInv, TypeInv, JobKnown
  <2>2. pc[Worker] = "attach_wait" /\ attach'[job] \in {"subscribing", "done"} => job = r
    BY <1>2, <1>3, <2>1
  <2>3. QED
    BY <1>1, <1>3, <2>2 DEF KernelPhases, TapPhases, HeldSteps, GoneSteps
<1>13. r \in registered \/ Abandoned(r)
  BY <1>3 DEF IInv, HostInv, StartPhases
<1>14. KernelsKnown' /\ SweptTornDown'
  BY <1>1, <1>5, <1>6, <1>13 DEF KernelsKnown, SweptTornDown
<1>15. KernelOwned'
  <2>1. ASSUME NEW q \in registered' PROVE sm'[q] \notin {"RUNNING", "PAUSED"}
    BY <1>1, <1>3 DEF Active, IInv, HostInv, StartPhases
  <2>2. r \in Active \/ Abandoned(r)
    BY <1>3 DEF IInv, HostInv, StartPhases, Active
  <2>3. \A q \in kernels' : q \in Active' \/ Abandoned(q)' \/ Queued("stop", q)'
    BY <1>1, <1>5, <1>6, <1>7, <2>2 DEF KernelOwned, Queued
  <2>4. QED
    BY <2>1, <2>3 DEF KernelOwned, Queued
<1>16. TapRemoved'
  BY <1>1, <1>5, <1>6 DEF TapRemoved
<1>17. QED
  BY <1>4, <1>9, <1>10, <1>11, <1>12, <1>14, <1>15, <1>16 DEF QueueInv

LEMMA AttachTapOwns ==
    ASSUME IInv, KernelInv, NEW r \in Run, AttachTap(r)
    PROVE  KernelInv'
<1> USE DEF KernelInv
<1>1. /\ attach[r] = "subscribing" /\ attach' = [attach EXCEPT ![r] = "done"]
      /\ listener' = r /\ taps' = taps \cup {r}
      /\ UNCHANGED <<sm, registered, fresh, pc, job, loopq, kernel, kernels, ord, swept>>
  BY DEF AttachTap
<1>2. attach'[r] = "done" /\ \A q \in Run : q # r => attach'[q] = attach[q]
  BY <1>1 DEF IInv, TypeInv, TypeOK
<1>3. (pc[Worker] = "attach_wait" /\ job = r) \/ Abandoned(r)
  BY <1>1 DEF AttachWaited
<1>4. \A q \in Run : (Abandoned(q)' <=> Abandoned(q)) /\ (TornDown(q)' <=> TornDown(q))
  BY <1>1 DEF Abandoned, TornDown
<1>5. Active' = Active /\ kernels \subseteq Run /\ swept \subseteq Run /\ taps \subseteq Run
  BY <1>1 DEF Active, IInv, TypeInv, TypeOK
<1>6. QueueInv'
  <2>1. QueueSorted' /\ TasksTearDown'
    BY <1>1 DEF QueueSorted, TasksTearDown, TornDown
  <2>2. AttachQueued' /\ QueueInOrder'
    BY <1>1, <1>2 DEF AttachQueued, QueueInOrder, Queued
  <2>3. QED
    BY <2>1, <2>2 DEF QueueInv
<1>7. LoopNumbering'
  BY <1>1, <1>2 DEF LoopNumbering
<1>8. ActiveIsYoungest' /\ SweepIsFinal' /\ KernelOwned'
  BY <1>1, <1>4, <1>5 DEF ActiveIsYoungest, SweepIsFinal, KernelOwned, IInv, TypeInv, TypeOK
<1>9. AttachWaited'
  BY <1>1, <1>2, <1>4 DEF AttachWaited
<1>10. KernelPhases'
  <2>1. pc[Worker] = "attach_wait" => job \in Run
    BY DEF IInv, TypeInv, JobKnown
  <2>2. \A t \in Thread : RunOf(t)' = RunOf(t)
    BY <1>1 DEF RunOf
  <2>3. \A k, q : Queued(k, q)' <=> Queued(k, q)
    BY <1>1 DEF Queued
  <2>4. pc[Worker] = "attach_wait" /\ attach'[job] \in {"subscribing", "done"} =>
            attach[job] \in {"subscribing", "done"}
    BY <1>1, <1>2, <2>1
  <2>5. QED
    BY <1>1, <2>2, <2>3, <2>4 DEF KernelPhases
<1>11. KernelsKnown' /\ SweptTornDown'
  BY <1>1, <1>4, <1>5 DEF KernelsKnown, SweptTornDown
<1>12. ASSUME \A q \in Run : ~Abandoned(q)' PROVE pc[Worker] = "attach_wait" /\ job = r
  BY <1>3, <1>4, <1>12
<1>13. TapPhases'
  <2> SUFFICES ASSUME \A q \in Run : ~Abandoned(q)', NEW t \in Thread,
                      pc[t] \in {"stop_wait", "finish"}
               PROVE  FALSE
    BY <1>1 DEF TapPhases
  <2>1. pc[Worker] = "attach_wait"
    BY <1>12
  <2>2. QED
    BY <2>1, NoTeardown DEF IInv, GoneSteps
<1>14. TapRemoved'
  <2> SUFFICES ASSUME \A q \in Run : ~Abandoned(q)'
               PROVE  taps' \subseteq {listener'} /\ listener' \in Active' \cup {None}
    BY DEF TapRemoved
  <2>1. r \in Active
    BY <1>12 DEF IInv, HostInv, StartPhases, Active
  <2>2. taps \subseteq {listener} /\ listener \in Active \cup {None}
    BY <1>4 DEF TapRemoved
  <2>3. Active = {r} /\ None \notin Run
    BY <2>1, SlotOfActive, ConstantsAssumption DEF Run
  <2>4. QED
    BY <1>1, <1>5, <2>2, <2>3
<1>15. QED
  BY <1>6, <1>7, <1>8, <1>9, <1>10, <1>11, <1>13, <1>14 DEF QueueInv

LEMMA CancelSweepOwns ==
    ASSUME IInv, KernelInv, NEW r \in Run, CancelSweep(r)
    PROVE  KernelInv'
<1> USE DEF KernelInv
<1>1. /\ Begin("cancel", r)
      /\ UNCHANGED <<sm, registered, fresh, pc, job, attach, kernel, kernels, listener, taps>>
  BY DEF CancelSweep
<1>2. \/ ord' = ord /\ swept' = swept
      \/ /\ swept' = swept \cup {r}
         /\ ord' = [ord EXCEPT ![r] = IF @ \in {"sent", "open"} THEN "cancelling" ELSE @]
  BY DEF CancelSweep
<1>3. QueueInv'
  BY <1>1, BeginKeeps DEF IInv, QueueInv
<1>4. \A q \in Run : (Abandoned(q)' <=> Abandoned(q)) /\ (TornDown(q)' <=> TornDown(q))
  BY <1>1 DEF Abandoned, TornDown
<1>5. Active' = Active /\ kernels \subseteq Run /\ swept \subseteq Run /\ taps \subseteq Run
  BY <1>1 DEF Active, IInv, TypeInv, TypeOK
<1>6. \A q : Queued("stop", q)' <=> Queued("stop", q)
  <2>1. \A k, q : Queued(k, q) <=> Queued(k, q)' \/ (k = "cancel" /\ q = r)
    BY <1>1, BeginQueue DEF IInv, TypeInv, TypeOK
  <2>2. QED
    BY <2>1
<1>7. TornDown(r) /\ r < fresh
  <2>1. 1 \in 1 .. Len(loopq) /\ loopq[1] = [task |-> "cancel", run |-> r]
    BY <1>1, BeginQueue DEF IInv, TypeInv, TypeOK
  <2>2. TornDown(loopq[1].run) /\ loopq[1].run < fresh
    BY <2>1, EntryNumbered DEF TasksTearDown, IInv, QueueInv
  <2>3. QED
    BY <2>1, <2>2
<1>8. LoopNumbering'
  BY <1>1, <1>2, <1>7 DEF LoopNumbering, IInv, TypeInv, TypeOK, Run
<1>9. ActiveIsYoungest'
  BY <1>1, <1>5 DEF ActiveIsYoungest
<1>10. AttachWaited'
  BY <1>1, <1>4 DEF AttachWaited
<1>11. KernelPhases' /\ TapPhases'
  <2>1. \A t \in Thread : RunOf(t)' = RunOf(t)
    BY <1>1 DEF RunOf
  <2>2. KernelPhases'
    BY <1>1, <1>6, <2>1 DEF KernelPhases
  <2>3. TapPhases'
    BY <1>1, <1>4 DEF TapPhases
  <2>4. QED
    BY <2>2, <2>3
<1>12. KernelsKnown' /\ TapRemoved'
  BY <1>1, <1>4, <1>5 DEF KernelsKnown, TapRemoved
<1>13. SweptTornDown'
  BY <1>2, <1>4, <1>5, <1>7 DEF SweptTornDown
<1>14. KernelOwned'
  BY <1>1, <1>4, <1>5, <1>6 DEF KernelOwned, Queued
<1>15. SweepIsFinal'
  <2> SUFFICES ASSUME NEW q \in swept' PROVE ord'[q] \notin {"sent", "open"}
    BY DEF SweepIsFinal
  <2>1. CASE ord' = ord /\ swept' = swept
    BY <2>1 DEF SweepIsFinal
  <2>2. CASE /\ swept' = swept \cup {r}
             /\ ord' = [ord EXCEPT ![r] = IF @ \in {"sent", "open"} THEN "cancelling" ELSE @]
    <3>1. q \in Run /\ ord \in [Run -> OrderStatus]
      BY <1>5, <2>2 DEF IInv, TypeInv, TypeOK
    <3>2. CASE q = r
      BY <2>2, <3>1, <3>2
    <3>3. CASE q # r
      BY <2>2, <3>1, <3>3 DEF SweepIsFinal
    <3>4. QED
      BY <3>2, <3>3
  <2>3. QED
    BY <1>2, <2>1, <2>2
<1>16. QED
  BY <1>3, <1>8, <1>9, <1>10, <1>11, <1>12, <1>13, <1>14, <1>15 DEF QueueInv

(* The kernel that stops is of a run that does not trade any more.         *)
LEMMA KernelStopsOwns ==
    ASSUME IInv, KernelInv, NEW r \in Run, KernelStops(r)
    PROVE  KernelInv'
<1> USE DEF KernelInv
<1>1. /\ Begin("stop", r) /\ kernels' = kernels \ {r}
      /\ UNCHANGED <<sm, registered, fresh, pc, job, attach, kernel, listener, taps, ord, swept>>
  BY DEF KernelStops
<1>2. QueueInv'
  BY <1>1, BeginKeeps DEF IInv, QueueInv
<1>3. \A q \in Run : (Abandoned(q)' <=> Abandoned(q)) /\ (TornDown(q)' <=> TornDown(q))
  BY <1>1 DEF Abandoned, TornDown
<1>4. Active' = Active /\ kernels \subseteq Run /\ swept \subseteq Run /\ taps \subseteq Run
  BY <1>1 DEF Active, IInv, TypeInv, TypeOK
<1>5. \A q : q # r => (Queued("stop", q)' <=> Queued("stop", q))
  <2>1. \A k, q : Queued(k, q) <=> Queued(k, q)' \/ (k = "stop" /\ q = r)
    BY <1>1, BeginQueue DEF IInv, TypeInv, TypeOK
  <2>2. QED
    BY <2>1
<1>6. TornDown(r)
  <2>1. 1 \in 1 .. Len(loopq) /\ loopq[1] = [task |-> "stop", run |-> r]
    BY <1>1, BeginQueue DEF IInv, TypeInv, TypeOK
  <2>2. TornDown(loopq[1].run)
    BY <2>1 DEF TasksTearDown
  <2>3. QED
    BY <2>1, <2>2
<1>7. sm[r] \notin {"READY", "RUNNING", "PAUSED"}
  BY <1>6 DEF TornDown
<1>8. LoopNumbering'
  BY <1>1 DEF LoopNumbering
<1>9. ActiveIsYoungest' /\ SweepIsFinal'
  BY <1>1, <1>4 DEF ActiveIsYoungest, SweepIsFinal
<1>10. AttachWaited'
  BY <1>1, <1>3 DEF AttachWaited
<1>11. KernelPhases' /\ TapPhases'
  <2>1. \A t \in Thread : RunOf(t)' = RunOf(t)
    BY <1>1 DEF RunOf
  <2>2. pc[Worker] = "attach_wait" => job # r
    BY <1>7 DEF IInv, HostInv, StartPhases
  <2>3. KernelPhases'
    BY <1>1, <1>5, <2>1, <2>2 DEF KernelPhases
  <2>4. TapPhases'
    BY <1>1, <1>3 DEF TapPhases
  <2>5. QED
    BY <2>3, <2>4
<1>12. KernelsKnown' /\ TapRemoved' /\ SweptTornDown'
  BY <1>1, <1>3, <1>4 DEF KernelsKnown, TapRemoved, SweptTornDown
<1>13. KernelOwned'
  <2>1. \A q \in registered' : sm'[q] \in {"RUNNING", "PAUSED"} => kernel' = q /\ q \in kernels'
    BY <1>1, <1>7 DEF KernelOwned
  <2>2. \A q \in kernels' : q \in Active' \/ Abandoned(q)' \/ Queued("stop", q)'
    BY <1>1, <1>3, <1>4, <1>5 DEF KernelOwned, Queued
  <2>3. QED
    BY <2>1, <2>2 DEF KernelOwned, Queued
<1>14. QED
  BY <1>2, <1>8, <1>9, <1>10, <1>11, <1>12, <1>13 DEF QueueInv

(* Orders: a swept run is gated, or its kernel is gone with its record.    *)
LEMMA SubmitNeedsRun ==
    ASSUME IInv, KernelInv, NEW r \in Run, SubmitOrder(r)
    PROVE  /\ sm[r] = "RUNNING" \/ Abandoned(r)
           /\ r \notin swept
<1>1. r \in kernels /\ ~(r \in registered /\ sm[r] # "RUNNING")
  BY DEF SubmitOrder, Gated
<1>2. r \in registered \/ Abandoned(r)
  BY <1>1 DEF KernelInv, KernelsKnown
<1>3. r \in swept => TornDown(r)
  BY DEF KernelInv, SweptTornDown
<1>4. QED
  BY <1>1, <1>2, <1>3 DEF TornDown, Abandoned

LEMMA OrdersOwn ==
    ASSUME IInv, KernelInv, NEW r \in Run,
           SubmitOrder(r) \/ SubmitAnswered(r) \/ CancelAnswered(r)
    PROVE  KernelInv'
<1> USE DEF KernelInv
<1>1. UNCHANGED <<sm, registered, fresh, pc, job, kernelVars, swept>>
  BY DEF SubmitOrder, SubmitAnswered, CancelAnswered
<1>2. ord \in [Run -> OrderStatus] /\ swept \subseteq Run
  BY DEF IInv, TypeInv, TypeOK
<1>3. SweepIsFinal'
  <2>1. CASE SubmitOrder(r)
    BY <1>1, <1>2, <2>1, SubmitNeedsRun DEF SweepIsFinal, SubmitOrder
  <2>2. CASE SubmitAnswered(r)
    BY <1>1, <1>2, <2>2 DEF SweepIsFinal, SubmitAnswered
  <2>3. CASE CancelAnswered(r)
    BY <1>1, <1>2, <2>3 DEF SweepIsFinal, CancelAnswered
  <2>4. QED
    BY <2>1, <2>2, <2>3
<1>4. \A q \in Run : (Abandoned(q)' <=> Abandoned(q)) /\ (TornDown(q)' <=> TornDown(q))
  BY <1>1 DEF Abandoned, TornDown
<1>5. QueueInv'
  BY <1>1, <1>4, QueueStays DEF IInv, QueueInv
<1>6. LoopNumbering' /\ KernelsKnown'
  BY <1>1 DEF LoopNumbering, KernelsKnown, Abandoned
<1>7. ActiveIsYoungest' /\ AttachWaited'
  BY <1>1 DEF ActiveIsYoungest, AttachWaited, Abandoned, Active
<1>8. KernelPhases' /\ TapPhases'
  BY <1>1 DEF KernelPhases, TapPhases, Queued, RunOf, Abandoned
<1>9. SweptTornDown'
  BY <1>1, <1>2, <1>4 DEF SweptTornDown
<1>10. KernelOwned' /\ TapRemoved'
  BY <1>1 DEF KernelOwned, TapRemoved, Abandoned, Active
<1>11. QED
  BY <1>3, <1>5, <1>6, <1>7, <1>8, <1>9, <1>10 DEF QueueInv

-----------------------------------------------------------------------------

LEMMA KernelInit == Init => KernelInv
<1> SUFFICES ASSUME Init PROVE KernelInv
  OBVIOUS
<1>1. /\ loopq = <<>> /\ registered = {} /\ kernels = {} /\ swept = {} /\ taps = {}
      /\ listener = None /\ attach = [r \in Run |-> "none"]
      /\ pc = [t \in Thread |-> "idle"] /\ Worker \in Thread
  BY DEF Init, Thread
<1>2. Len(loopq) = 0 /\ \A k, q : ~Queued(k, q)
  BY <1>1 DEF Queued
<1>3. LoopNumbering /\ KernelsKnown /\ SweptTornDown /\ SweepIsFinal
  BY <1>1 DEF LoopNumbering, KernelsKnown, SweptTornDown, SweepIsFinal
<1>4. QueueSorted /\ AttachQueued /\ QueueInOrder /\ TasksTearDown
  BY <1>1, <1>2 DEF QueueSorted, AttachQueued, QueueInOrder, TasksTearDown
<1>5. ActiveIsYoungest /\ AttachWaited /\ KernelPhases /\ TapPhases
  BY <1>1 DEF ActiveIsYoungest, AttachWaited, KernelPhases, TapPhases, Active
<1>6. KernelOwned /\ TapRemoved
  BY <1>1 DEF KernelOwned, TapRemoved
<1>7. QED
  BY <1>3, <1>4, <1>5, <1>6 DEF KernelInv

LEMMA KernelStep == IInv /\ KernelInv /\ [Next]_vars => KernelInv'
<1> SUFFICES ASSUME IInv, KernelInv, [Next]_vars PROVE KernelInv'
  OBVIOUS
<1>1. TypeInv /\ HostInv
  BY DEF IInv
<1>2. CASE WorkerStep
  <2>1. Worker \in Thread
    BY DEF Thread
  <2>2. QED
    BY <1>1, <1>2, <2>1, IdleThreadsKeep, StartRegisteredOwns, AttachSucceededOwns,
       AttachGivenUpOwns, PauseResumeKeep, StopFailKeep DEF WorkerStep
<1>3. ASSUME NEW t \in Thread, ThreadStep(t) PROVE KernelInv'
  BY <1>1, <1>3, CancelInflightOwns, DetachOwns, FinishOwns, ThreadsMoveOn DEF ThreadStep
<1>4. ASSUME NEW r \in Run, LossStep(r) PROVE KernelInv'
  <2>1. r \in Thread
    BY DEF Thread
  <2>2. QED
    BY <1>1, <1>4, <2>1, ThreadsMoveOn, StopFailKeep DEF LossStep
<1>5. ASSUME NEW r \in Run, LoopStep(r) PROVE KernelInv'
  BY <1>5, AttachFailsOwns, AttachKernelOwns, CancelSweepOwns, KernelStopsOwns DEF LoopStep
<1>6. ASSUME NEW r \in Run, VenueStep(r) PROVE KernelInv'
  BY <1>6, AttachTapOwns, OrdersOwn DEF VenueStep
<1>7. CASE StartLiveStrategy
  BY <1>1, <1>7, IdleThreadsKeep
<1>8. CASE \E r \in Run : r < fresh /\ (PauseLiveStrategy(r) \/ ResumeLiveStrategy(r)
                                        \/ StopLiveStrategy(r))
  <2>1. \E r \in Run : \E step \in {"pause_lock", "resume_lock", "stop_lock"} : ControlRun(step, r)
    BY <1>8 DEF PauseLiveStrategy, ResumeLiveStrategy, StopLiveStrategy
  <2>2. QED
    BY <1>1, <2>1, IdleThreadsKeep
<1>9. CASE \E r \in Run : SnapshotBreach(r)
  BY <1>1, <1>9, ThreadsMoveOn
<1>10. CASE \/ \E m \in Mode : SetExecutionMode(m)
            \/ VenueLogin \/ VenueLogout
            \/ AccountFetch \/ SnapshotWithinLimit
            \/ UNCHANGED vars
  BY <1>1, <1>10, ElsewhereKeeps
<1>11. QED
  BY <1>2, <1>3, <1>4, <1>5, <1>6, <1>7, <1>8, <1>9, <1>10 DEF Next, WorkerRequest, AccountStep

LEMMA KernelInvariance == Spec => []KernelInv
<1>1. Init => KernelInv
  BY KernelInit
<1>2. IInv /\ KernelInv /\ [Next]_vars => KernelInv'
  BY KernelStep
<1>3. QED
  BY <1>1, <1>2, Invariance, PTL DEF Spec

(* The controller's kernel is the started one of the run that can trade,   *)
(* however late the coroutine of an attach that was given up comes; and a  *)
(* started kernel has an active run, or its stop is queued, or its attach  *)
(* was given up.                                                           *)
THEOREM KernelIsOwned == Spec => []KernelOwned
<1>1. KernelInv => KernelOwned
  BY DEF KernelInv
<1>2. QED
  BY <1>1, KernelInvariance, PTL

(* After the sweep of its teardown a run sends no order any more, even     *)
(* when the registry has forgotten it and the order gate does not know it: *)
(* its kernel was stopped before.                                          *)
THEOREM SweptRunsSendNothing == Spec => []SweepIsFinal
<1>1. KernelInv => SweepIsFinal
  BY DEF KernelInv
<1>2. QED
  BY <1>1, KernelInvariance, PTL

(* As long as no attach was given up, every tick listener is taken off     *)
(* again with its run.                                                     *)
THEOREM TapsAreRemoved == Spec => []TapRemoved
<1>1. KernelInv => TapRemoved
  BY DEF KernelInv
<1>2. QED
  BY <1>1, KernelInvariance, PTL

(* An order leaves only from a RUNNING run or an attach given up.          *)
THEOREM OnlyRunsSendOrders == Spec => OrdersNeedRun
<1>1. ASSUME IInv, KernelInv, [Next]_vars, NEW r \in Run, ord'[r] = "sent", ord[r] # "sent"
      PROVE  sm[r] = "RUNNING" \/ Abandoned(r)
  <2>1. ord \in [Run -> OrderStatus] /\ ord' # ord
    BY <1>1 DEF IInv, TypeInv, TypeOK
  <2>2. (\E q \in Run : LoopStep(q) \/ VenueStep(q)) => SubmitOrder(r)
    <3>1. ASSUME NEW q \in Run, SubmitOrder(q) PROVE SubmitOrder(r)
      BY <1>1, <2>1, <3>1 DEF SubmitOrder
    <3>2. ASSUME NEW q \in Run, SubmitAnswered(q) PROVE FALSE
      BY <1>1, <2>1, <3>2 DEF SubmitAnswered
    <3>3. ASSUME NEW q \in Run, CancelAnswered(q) PROVE FALSE
      BY <1>1, <2>1, <3>3 DEF CancelAnswered
    <3>4. ASSUME NEW q \in Run, CancelSweep(q) PROVE FALSE
      BY <1>1, <2>1, <3>4 DEF CancelSweep
    <3>5. QED
      BY <2>1, <3>1, <3>2, <3>3, <3>4
         DEF LoopStep, VenueStep, AttachFails, AttachKernel, KernelStops, AttachTap
  <2>3. CASE WorkerRequest \/ AccountStep \/ UNCHANGED vars
    BY <2>1, <2>3 DEF WorkerRequest, StartLiveStrategy, PauseLiveStrategy, ResumeLiveStrategy,
       StopLiveStrategy, ControlRun, SetExecutionMode, VenueLogin, VenueLogout, AccountStep,
       AccountFetch, SnapshotWithinLimit, SnapshotBreach, vars
  <2>4. CASE WorkerStep
    BY <2>1, <2>4 DEF WorkerStep, StartRefused, StartRegistered, AttachSucceeded, AttachGivenUp,
       SetRails, ControlRefused, PauseRun, ResumeRun, StopAgain, StopRun, ReleaseRails
  <2>5. ASSUME NEW t \in Thread, ThreadStep(t) PROVE FALSE
    BY <2>1, <2>5 DEF ThreadStep, CancelInflight, CancelWaited, Detach, StopWaited, Finish,
       ReadStatus, PushStatus
  <2>6. ASSUME NEW q \in Run, LossStep(q) PROVE FALSE
    BY <2>1, <2>6 DEF LossStep, FailUnknown, FailStopped, FailRun
  <2>7. CASE \E q \in Run : LoopStep(q) \/ VenueStep(q)
    BY <2>1, <2>2, <2>7, SubmitNeedsRun, <1>1
  <2>8. QED
    BY <1>1, <2>3, <2>4, <2>5, <2>6, <2>7 DEF Next
<1>2. IInv /\ KernelInv /\ [Next]_vars =>
        [\A r \in Run : ord'[r] = "sent" /\ ord[r] # "sent" =>
            sm[r] = "RUNNING" \/ Abandoned(r)]_vars
  BY <1>1
<1>3. QED
  BY <1>2, Invariance, KernelInvariance, PTL DEF Spec, OrdersNeedRun
=============================================================================
