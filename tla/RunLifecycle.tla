---------------------------- MODULE RunLifecycle ----------------------------
(***************************************************************************)
(* What the backend promises about the runs of live strategies, without    *)
(* saying by which threads and under which lock: one slot, held by one run *)
(* at a time, and a run that moves only while it holds the slot, only      *)
(* along the table of LiveStrategyStateMachine, and leaves the slot either *)
(* stopped or because its start failed.                                    *)
(*                                                                         *)
(* transition_to raises on any other move; a handler or a loss thread that *)
(* met the exception would leave its run half way.  That no interleaving   *)
(* of them ever meets it is what the refinement says.                      *)
(***************************************************************************)

CONSTANT Run

VARIABLES
    status,   \* LiveStrategyStateMachine.current of each run
    active    \* the run in the slot (RunRegistry.active_run)

vars == <<status, active>>

(* _ALLOWED, LOADING passed over: a record is loaded before it is seen.    *)
Allowed ==
    [IDLE     |-> {"READY"},
     READY    |-> {"RUNNING", "STOPPING", "ERROR"},
     RUNNING  |-> {"PAUSED", "STOPPING", "ERROR"},
     PAUSED   |-> {"RUNNING", "STOPPING", "ERROR"},
     STOPPING |-> {"STOPPED", "ERROR"},
     ERROR    |-> {"STOPPED"},
     STOPPED  |-> {}]

Init == status = [r \in Run |-> "IDLE"] /\ active = {}

(* A start takes the free slot.                                            *)
Take(r) ==
    /\ active = {}
    /\ status[r] = "IDLE"
    /\ status' = [status EXCEPT ![r] = "READY"]
    /\ active' = {r}

(* The run in the slot moves and keeps it.                                 *)
Move(r, target) ==
    /\ active = {r}
    /\ target \in Allowed[status[r]] \ {"STOPPED"}
    /\ status' = [status EXCEPT ![r] = target]
    /\ UNCHANGED active

(* A start that fails before the run ever traded.                          *)
GiveUp(r) ==
    /\ active = {r}
    /\ status[r] = "READY"
    /\ status' = [status EXCEPT ![r] = "ERROR"]
    /\ active' = {}

Stop(r) ==
    /\ active = {r}
    /\ "STOPPED" \in Allowed[status[r]]
    /\ status' = [status EXCEPT ![r] = "STOPPED"]
    /\ active' = {}

Next == \E r \in Run :
    Take(r) \/ GiveUp(r) \/ Stop(r) \/ \E target \in DOMAIN Allowed : Move(r, target)

Spec == Init /\ [][Next]_vars
=============================================================================
