--------------------------- MODULE MCScenarioSync ---------------------------
(* ScenarioSync for TLC: one strategy with its instruments in the sidecar, *)
(* and a second one whose sidecar names another file.                      *)
EXTENDS ScenarioSync

CONSTANTS a, b, s, t

Inline(ids, e) == [kind |-> "inline", ids |-> ids, end |-> e]
Ref(ids, e) == [kind |-> "ref", ids |-> ids, end |-> e]

MCInit ==
    /\ Init
    /\ file[s] = Inline({a}, 1)
    /\ file[t] = Ref({a, b}, 1)
    /\ file[Cache] \in {NoScenario, file[s], file[t]}
    /\ orig = IF file[Cache] = file[s] THEN s ELSE IF file[Cache] = file[t] THEN t ELSE None
    /\ target = IF orig = None THEN None ELSE Cache

MCFairSpec == MCInit /\ [][Next]_vars /\ Fairness
=============================================================================
