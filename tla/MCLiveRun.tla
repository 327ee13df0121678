------------------------------ MODULE MCLiveRun ------------------------------
(***************************************************************************)
(* Model-checking bounds for LiveRun.                                      *)
(***************************************************************************)
EXTENDS LiveRun

(* LiveManual differs from LiveAuto only in refusing StartLiveStrategy,    *)
(* which Replay refuses too: its states are checked but not explored from. *)
TwoModes == mode # "LiveManual"

(* A third run is there to have the first forgotten while its loss thread   *)
(* waits: nothing else is explored from it.                                *)
Explored == TwoModes /\ (fresh > 3 => pc[1] = "fail_lock" /\ attach[3] = "queued")

=============================================================================
