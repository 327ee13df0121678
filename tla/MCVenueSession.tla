--------------------------- MODULE MCVenueSession ---------------------------
\* Both live modes, two instruments, one subscription: with two instruments the
\* cap is met and passed. From the start of the program, and from a session at
\* rest with an instrument listed and subscribed.
EXTENDS VenueSession
CONSTANT a
BothModes == {"LiveManual", "LiveAuto"}

LiveAtRest ==
    /\ session = [venue |-> "CONNECTED", mode |-> "LiveManual", dead |-> FALSE,
                  subscribed |-> {a}, late |-> NoneLate, warming |-> FALSE,
                  stored |-> TRUE]
    /\ worker = [cmds |-> <<>>, busy |-> "none",
                 seen |-> [venue |-> "CONNECTED", mode |-> "LiveManual"]]
    /\ updates = <<>>
    /\ ui = [venue |-> "CONNECTED", mode |-> "LiveManual", changed |-> FALSE]
    /\ tickers = [source |-> "LiveVenue", status |-> "Loaded"]
    /\ registry = {a}
    /\ chain = [venue |-> "CONNECTED", mode |-> "LiveManual", ids |-> {a},
                pending |-> FALSE]
    /\ ops = 0 /\ hasty = FALSE /\ skipped = {}

MCSpec == (Init \/ LiveAtRest) /\ [][Next]_vars /\ Fairness
=============================================================================
