---------------------------- MODULE MCOrderRows ----------------------------
(* OrderRows for TLC: the UI keeps up with its channels, and the venue     *)
(* does not report more than three times.                                  *)
EXTENDS OrderRows

MaxEvents == 2
MaxUpdates == 1
MaxLog == 3

KeepsUp ==
    /\ Len(events) <= MaxEvents
    /\ Len(updates) <= MaxUpdates
    /\ Len(log) <= MaxLog
=============================================================================
