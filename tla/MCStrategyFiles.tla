--------------------------- MODULE MCStrategyFiles ---------------------------
(* StrategyFiles for TLC: one strategy with its window laid out, and a      *)
(* second without a sidecar, with a scenario only, with another window laid *)
(* out, or with a sidecar that names the first, as one does that was copied *)
(* or renamed; or a layout whose strategy is gone, and a second strategy    *)
(* whose sidecar names that one.                                            *)
EXTENDS StrategyFiles

CONSTANTS a, b

Shape(f) == IF py[f] = None THEN None ELSE Written(py[f])
Laid(f, wins) == [path |-> f, wins |-> wins]

First  == [py |-> {1}, side |-> Laid(a, {1})]
Second == {
    [py |-> {1, 2}, side |-> None],
    [py |-> {1, 2}, side |-> ScenarioOnly],
    [py |-> {2},    side |-> Laid(b, {2})],
    [py |-> {1, 2}, side |-> Laid(a, {2})]}

Moved == [f \in Files |-> [py |-> IF f = a THEN None ELSE {1}, side |-> Laid(a, {1})]]

Starts ==
    {[f \in Files |-> IF f = a THEN First ELSE second] : second \in Second} \union {Moved}

MCInit ==
    /\ Init
    /\ [f \in Files |-> [py |-> Shape(f), side |-> side[f]]] \in Starts

MCFairSpec == MCInit /\ [][Next]_vars /\ Fairness
=============================================================================
