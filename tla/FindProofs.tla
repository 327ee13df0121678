----------------------------- MODULE FindProofs -----------------------------
(***************************************************************************)
(* The find panel: it points to what exists, shows exactly the occurrences *)
(* of its query and replaces what it shows, for any editors, texts,        *)
(* alphabets and numbers of keys.                                          *)
(*                                                                         *)
(* What the recursive functions of FindReplace compute is proved by        *)
(* climbing their argument: StepsExist gives the function that goes on     *)
(* from its value before, SameSteps that the definition is it, and Climb   *)
(* what holds of its values.                                               *)
(***************************************************************************)
EXTENDS FindReplace, FiniteSets, FiniteSetTheorems, WellFoundedInduction,
        SequenceTheorems, TLAPS

-----------------------------------------------------------------------------
(* The find panel: target and focus are alive, and the matches are of the  *)
(* text that is there, for any editors, texts and number of keys.          *)

\* Widgets go after their windows, so a window has its widget.
WindowsHaveWidgets == roots \subseteq peers

AliveInv == WindowsHaveWidgets /\ FocusIsAlive

pointers == <<target, focus, roots, peers>>

-----------------------------------------------------------------------------
LEMMA AliveInit == FindInit => AliveInv
  BY DEF FindInit, AliveInv, WindowsHaveWidgets, FocusIsAlive

LEMMA ElseKeeps == AliveInv /\ UNCHANGED pointers => AliveInv'
  BY DEF AliveInv, WindowsHaveWidgets, FocusIsAlive, pointers

\* The focus goes to what is alive already: a window, the target, or nothing.
LEMMA PointKeeps ==
    ASSUME AliveInv, UNCHANGED <<roots, peers>>,
           target' \in {target, focus, Nothing}, focus' \in roots \union {target, focus, Nothing}
    PROVE  AliveInv'
  BY DEF AliveInv, WindowsHaveWidgets, FocusIsAlive

LEMMA PersonKeeps == AliveInv /\ Person => AliveInv'
  <1> SUFFICES ASSUME AliveInv, Person PROVE AliveInv'
    OBVIOUS
  <1>1. ASSUME NEW key, NEW clicks, Begin(key, clicks) PROVE AliveInv'
    BY <1>1, ElseKeeps DEF Begin, pointers
  <1>2. ASSUME NEW e, ClickEditor(e) PROVE AliveInv'
    BY <1>2, PointKeeps DEF ClickEditor
  <1>3. ASSUME NEW e, CloseEditorWindow(e) PROVE AliveInv'
    BY <1>3 DEF CloseEditorWindow, AliveInv, WindowsHaveWidgets, FocusIsAlive
  <1> QED
    BY <1>1, <1>2, <1>3 DEF Person

LEMMA KeyboardKeeps == AliveInv /\ Keyboard => AliveInv'
  BY PointKeeps DEF Keyboard, Dismiss

LEMMA FieldInputKeeps == AliveInv /\ FieldInput => AliveInv'
  BY PointKeeps DEF FieldInput, Dismiss

LEMMA ComputeKeeps == AliveInv /\ Compute => AliveInv'
  BY PointKeeps DEF Compute, Forget, Recompute

LEMMA CleanupKeeps == AliveInv /\ Cleanup => AliveInv'
  BY DEF Cleanup, AliveInv, WindowsHaveWidgets, FocusIsAlive

LEMMA AliveStep == AliveInv /\ [FindNext]_findVars => AliveInv'
  <1> SUFFICES ASSUME AliveInv, [FindNext]_findVars PROVE AliveInv'
    OBVIOUS
  <1>1. CASE Person
    BY <1>1, PersonKeeps
  <1>2. CASE Keyboard
    BY <1>2, KeyboardKeeps
  <1>3. CASE FieldInput
    BY <1>3, FieldInputKeeps
  <1>4. CASE Compute
    BY <1>4, ComputeKeeps
  <1>5. CASE Navigate
    BY <1>5, ElseKeeps DEF Navigate, pointers
  <1>6. CASE Replace
    BY <1>6, ElseKeeps DEF Replace, pointers
  <1>7. CASE ToFragment
    BY <1>7, ElseKeeps DEF ToFragment, pointers
  <1>8. CASE Cleanup
    BY <1>8, CleanupKeeps
  <1>9. CASE UNCHANGED findVars
    BY <1>9, ElseKeeps DEF findVars, pointers
  <1> QED
    BY <1>1, <1>2, <1>3, <1>4, <1>5, <1>6, <1>7, <1>8, <1>9 DEF FindNext, FrameSystem

\* The panel's target and the focus are never a widget that is gone, whatever
\* editors are closed and whenever the clean-up of a frame runs.
THEOREM FocusAlwaysAlive == FindSpec => []FocusIsAlive
  <1>1. AliveInv => FocusIsAlive
    BY DEF AliveInv
  <1> QED
    BY <1>1, AliveInit, AliveStep, PTL DEF FindSpec

-----------------------------------------------------------------------------
(* The matches                                                             *)

\* Windows are of editors, and the matches are those of the inputs of the last
\* computation, unless the text it was made of has changed since.
MatchesFollow ==
    last.open /\ last.target \in roots \ fragChanged =>
        matches = FindMatches(source[last.target], last.query)

MatchInv == roots \subseteq Editors /\ MatchesFollow

search == <<last, matches, roots, source, fragChanged>>

LEMMA MatchInit == FindInit => MatchInv
  BY DEF FindInit, MatchInv, MatchesFollow, Default

LEMMA MatchesElse == MatchInv /\ UNCHANGED search => MatchInv'
  BY DEF MatchInv, MatchesFollow, search

LEMMA CloseMatches == ASSUME MatchInv, NEW e, CloseEditorWindow(e) PROVE MatchInv'
  <1>1. /\ roots' = roots \ {e} /\ fragChanged' = fragChanged \ {e}
        /\ last' = last /\ matches' = matches
        /\ \A t : t # e => source'[t] = source[t]
    BY DEF CloseEditorWindow, shown
  <1> QED
    BY <1>1 DEF MatchInv, MatchesFollow

\* A text that the fragment takes over is noted as a change.
LEMMA FragmentMatches == MatchInv /\ ToFragment => MatchInv'
  <1> SUFFICES ASSUME MatchInv, ToFragment PROVE MatchInv'
    OBVIOUS
  <1> DEFINE news == {e \in bufChanged \intersect roots : source[e] # buf[e]}
  <1>1. /\ source' = [e \in Editors |-> IF e \in news THEN buf[e] ELSE source[e]]
        /\ fragChanged' = fragChanged \union news
        /\ last' = last /\ matches' = matches /\ roots' = roots
    BY DEF ToFragment, shown
  <1> HIDE DEF news
  <1>2. ASSUME NEW t \in roots, t \notin fragChanged'
        PROVE  source'[t] = source[t] /\ t \notin fragChanged
    BY <1>1, <1>2 DEF MatchInv
  <1> QED
    BY <1>1, <1>2 DEF MatchInv, MatchesFollow

LEMMA ComputeMatches ==
    ASSUME MatchInv, Compute
    PROVE  MatchInv'
  <1>1. roots' = roots /\ source' = source /\ fragChanged' = {}
    BY DEF Compute
  <1>2. Nothing \notin roots
    BY FindReplaceAssumption DEF MatchInv
  <1>3. CASE Orphaned
    <2>1. last' = Default
      BY <1>3 DEF Compute, Forget
    <2> QED
      BY <1>1, <2>1 DEF MatchInv, MatchesFollow, Default
  <1>4. CASE ~Orphaned
    <2> DEFINE changed == last # Inputs \/ fragChanged # {}
    <2>1. Recompute(changed)
      BY <1>4, Zenon DEF Compute
    <2>2. CASE ~changed
      <3>1. last' = last /\ matches' = matches /\ fragChanged = {}
        BY <2>1, <2>2 DEF Recompute, shown
      <3> QED
        BY <1>1, <3>1 DEF MatchInv, MatchesFollow
    <2>3. CASE changed
      <3>1. last' = Inputs
        BY <2>1, <2>3 DEF Recompute
      <3>2. last'.open = open /\ last'.target = target /\ last'.query = query
        BY <3>1 DEF Inputs
      <3>3. ASSUME open, target \in roots
            PROVE  matches' = FindMatches(source[target], query)
        <4>1. target # Nothing
          BY <1>2, <3>3
        <4>2. CASE query = << >>
          <5>1. matches' = << >>
            BY <2>1, <2>3, <4>1, <4>2 DEF Recompute
          <5> QED
            BY <4>2, <5>1 DEF FindMatches
        <4>3. CASE query # << >>
          BY <2>1, <2>3, <3>3, <4>1, <4>3 DEF Recompute
        <4> QED
          BY <4>2, <4>3
      <3> QED
        BY <1>1, <3>2, <3>3 DEF MatchInv, MatchesFollow
    <2> QED
      BY <2>2, <2>3
  <1> QED
    BY <1>3, <1>4

LEMMA MatchStep == MatchInv /\ [FindNext]_findVars => MatchInv'
  <1> SUFFICES ASSUME MatchInv, [FindNext]_findVars PROVE MatchInv'
    OBVIOUS
  <1>1. ASSUME NEW key, NEW clicks, Begin(key, clicks) PROVE MatchInv'
    BY <1>1, MatchesElse DEF Begin, shown, search
  <1>2. ASSUME NEW e, ClickEditor(e) PROVE MatchInv'
    BY <1>2, MatchesElse DEF ClickEditor, shown, texts, search
  <1>3. ASSUME NEW e, CloseEditorWindow(e) PROVE MatchInv'
    BY <1>3, CloseMatches
  <1>4. CASE Keyboard
    BY <1>4, MatchesElse DEF Keyboard, shown, texts, search
  <1>5. CASE FieldInput
    BY <1>5, MatchesElse DEF FieldInput, shown, texts, search
  <1>6. CASE Compute
    BY <1>6, ComputeMatches
  <1>7. CASE Navigate
    BY <1>7, MatchesElse DEF Navigate, texts, search
  <1>8. CASE Replace
    BY <1>8, MatchesElse DEF Replace, shown, texts, search
  <1>9. CASE ToFragment
    BY <1>9, FragmentMatches
  <1>10. CASE Cleanup
    BY <1>10, MatchesElse DEF Cleanup, shown, texts, search
  <1>11. CASE UNCHANGED findVars
    BY <1>11, MatchesElse DEF findVars, shown, texts, search
  <1> QED
    BY <1>1, <1>2, <1>3, <1>4, <1>5, <1>6, <1>7, <1>8, <1>9, <1>10, <1>11
       DEF FindNext, Person, FrameSystem

\* What ShownIsFound says of the matches, but for what a search finds.
MatchesAreOfTheText ==
    AtRest /\ open /\ target # Nothing => matches = FindMatches(source[target], query)

LEMMA RestHasMatches ==
    ASSUME AliveInv, MatchInv, AtRest, open, target # Nothing
    PROVE  matches = FindMatches(source[target], query)
  <1>1. last.open = open /\ last.target = target /\ last.query = query
    BY DEF AtRest, Inputs
  <1>2. target \in roots \ fragChanged
    BY DEF AtRest, AliveInv, FocusIsAlive
  <1> QED
    BY <1>1, <1>2 DEF MatchInv, MatchesFollow

\* Once nothing is on its way the matches are those of the query in the text
\* the target has, whatever was typed, replaced, closed or searched before and
\* in whatever order the systems of the frames ran.
THEOREM MatchesAlwaysOfTheText == FindSpec => []MatchesAreOfTheText
  <1>1. AliveInv /\ MatchInv => MatchesAreOfTheText
    BY RestHasMatches DEF MatchesAreOfTheText
  <1> QED
    BY <1>1, AliveInit, AliveStep, MatchInit, MatchStep, PTL DEF FindSpec

-----------------------------------------------------------------------------
(* Functions that go on from what they were: they exist, and what holds at *)
(* the start and is kept by a step holds of them.                          *)

\* A nonempty set of numbers has a least one.
LEMMA LeastOf ==
    ASSUME NEW T \in SUBSET Nat, T # {}
    PROVE  \E m \in T : \A k \in T : m <= k
  <1> DEFINE R == {p \in Nat \X Nat : p[1] < p[2]}
  <1>1. IsWellFoundedOn(R, Nat)
    BY NatLessThanWellFounded DEF OpToRel
  <1>2. \A x, y \in Nat : x < y => <<x, y>> \in R
    OBVIOUS
  <1> HIDE DEF R
  <1>3. PICK m \in T : \A k \in T : ~(<<k, m>> \in R)
    BY <1>1, WFMin
  <1>4. ASSUME NEW k \in T PROVE m <= k
    <2>1. ~(k < m)
      BY <1>2, <1>3
    <2> QED
      BY <2>1
  <1> QED
    BY <1>4

LEMMA Climb ==
    ASSUME NEW N \in Nat, NEW T, 0 \in T, \A n \in 1 .. N : n - 1 \in T => n \in T
    PROVE  \A n \in 0 .. N : n \in T
  <1> DEFINE odd == {n \in 0 .. N : n \notin T}
  <1> SUFFICES ASSUME odd # {} PROVE FALSE
    OBVIOUS
  <1>1. odd \in SUBSET Nat
    OBVIOUS
  <1>2. PICK m \in odd : \A k \in odd : m <= k
    BY <1>1, LeastOf
  <1>3. m # 0 /\ m \in 1 .. N
    BY <1>2
  <1>4. m - 1 \in 0 .. N /\ ~(m <= m - 1)
    BY <1>3
  <1>5. m - 1 \in T
    BY <1>2, <1>4
  <1> QED
    BY <1>2, <1>3, <1>5

Goes(f, N, base, G) ==
    f[0] = base /\ \A n \in 1 .. N : f[n] = G[n][f[n - 1]]

LEMMA StepsExist ==
    ASSUME NEW N \in Nat, NEW V, NEW base \in V, NEW G \in [1 .. N -> [V -> V]]
    PROVE  \E f \in [0 .. N -> V] : Goes(f, N, base, G)
  <1> DEFINE T == {m \in 0 .. N : \E f \in [0 .. m -> V] : Goes(f, m, base, G)}
  <1>1. 0 \in T
    <2> DEFINE f == [n \in 0 .. 0 |-> base]
    <2>1. f \in [0 .. 0 -> V] /\ Goes(f, 0, base, G)
      BY DEF Goes
    <2> QED
      BY <2>1
  <1>2. ASSUME NEW m \in 1 .. N, m - 1 \in T PROVE m \in T
    <2>1. PICK f \in [0 .. m - 1 -> V] : Goes(f, m - 1, base, G)
      BY <1>2
    <2> DEFINE g == [n \in 0 .. m |-> IF n = m THEN G[m][f[m - 1]] ELSE f[n]]
    <2>2. /\ m \in Nat /\ m - 1 \in 0 .. m - 1 /\ 0 \in 0 .. m /\ m # 0
          /\ \A n \in 0 .. m : n = m \/ n \in 0 .. m - 1
          /\ \A n \in 1 .. m : n \in 0 .. m /\ n - 1 \in 0 .. m /\ n - 1 # m /\ n - 1 \in 0 .. m - 1
          /\ \A n \in 1 .. m : n # m => n \in 1 .. m - 1
      OBVIOUS
    <2>3. G[m][f[m - 1]] \in V
      BY <2>2
    <2>4. g \in [0 .. m -> V]
      BY <2>2, <2>3
    <2>5. g[0] = base
      BY <2>1, <2>2 DEF Goes
    <2>6. ASSUME NEW n \in 1 .. m PROVE g[n] = G[n][g[n - 1]]
      <3>1. CASE n = m
        BY <2>2, <3>1
      <3>2. CASE n # m
        BY <2>1, <2>2, <3>2 DEF Goes
      <3> QED
        BY <3>1, <3>2
    <2>7. Goes(g, m, base, G)
      BY <2>5, <2>6 DEF Goes
    <2> QED
      BY <2>4, <2>7
  <1> HIDE DEF T
  <1>3. \A n \in 0 .. N : n \in T
    <2>1. \A n \in 1 .. N : n - 1 \in T => n \in T
      BY <1>2
    <2> QED
      BY <1>1, <2>1, Climb
  <1>4. N \in T
    BY <1>3
  <1> QED
    BY <1>4 DEF T

Follows(p, N, V, base, G) ==
    p[0] = base /\ \A n \in 1 .. N : p[n - 1] \in V => p[n] = G[n][p[n - 1]]

LEMMA SameSteps ==
    ASSUME NEW N \in Nat, NEW V, NEW base, NEW G, NEW f \in [0 .. N -> V],
           Goes(f, N, base, G), NEW p, Follows(p, N, V, base, G)
    PROVE  \A n \in 0 .. N : p[n] = f[n] /\ p[n] \in V
  <1> DEFINE T == {n \in 0 .. N : p[n] = f[n]}
  <1>1. 0 \in T
    BY DEF Goes, Follows
  <1>2. ASSUME NEW n \in 1 .. N, n - 1 \in T PROVE n \in T
    <2>1. p[n - 1] = f[n - 1] /\ n - 1 \in 0 .. N /\ n \in 0 .. N
      BY <1>2
    <2>2. p[n - 1] \in V
      BY <2>1
    <2>3. p[n] = G[n][p[n - 1]] /\ f[n] = G[n][f[n - 1]]
      BY <2>2 DEF Goes, Follows
    <2> QED
      BY <2>1, <2>3
  <1>3. \A n \in 1 .. N : n - 1 \in T => n \in T
    BY <1>2
  <1> HIDE DEF T
  <1>4. \A n \in 0 .. N : n \in T
    BY <1>1, <1>3, Climb
  <1> QED
    BY <1>4 DEF T

-----------------------------------------------------------------------------
(* Where the lines of a text begin                                         *)

StartsGo(f, s) ==
    f = [i \in 0 .. Len(s) |->
            IF i = 0 THEN <<0>>
            ELSE IF s[i] = Newline THEN Append(f[i - 1], i) ELSE f[i - 1]]

LEMMA StartsStep ==
    ASSUME NEW s, Len(s) \in Nat
    PROVE  \E f : StartsGo(f, s) /\ LineStarts(s) = f[Len(s)]
  <1> DEFINE N == Len(s)
             V == Seq(Nat)
             G == [i \in 1 .. N |-> [x \in V |-> IF s[i] = Newline THEN Append(x, i) ELSE x]]
             p == CHOOSE g : StartsGo(g, s)
  <1>1. G \in [1 .. N -> [V -> V]]
    <2>1. \A i \in 1 .. N, x \in V : Append(x, i) \in V
      OBVIOUS
    <2> QED
      BY <2>1
  <1>2. \A i \in 1 .. N, x \in V : G[i][x] = IF s[i] = Newline THEN Append(x, i) ELSE x
    OBVIOUS
  <1>3. <<0>> \in V /\ N \in Nat
    OBVIOUS
  <1> HIDE DEF N, V, G
  <1>4. PICK f \in [0 .. N -> V] : Goes(f, N, <<0>>, G)
    BY <1>1, <1>3, StepsExist
  <1>5. StartsGo(f, s)
    <2>1. f = [i \in 0 .. N |-> f[i]]
      BY <1>4
    <2>2. ASSUME NEW i \in 0 .. N
          PROVE  f[i] = IF i = 0 THEN <<0>>
                        ELSE IF s[i] = Newline THEN Append(f[i - 1], i) ELSE f[i - 1]
      <3>1. CASE i = 0
        BY <1>4, <3>1 DEF Goes
      <3>2. CASE i # 0
        <4>1. i \in 1 .. N /\ i - 1 \in 0 .. N
          BY <1>3, <3>2
        <4>2. f[i] = G[i][f[i - 1]] /\ f[i - 1] \in V
          BY <1>4, <4>1 DEF Goes
        <4> QED
          BY <1>2, <3>2, <4>1, <4>2
      <3> QED
        BY <3>1, <3>2
    <2> QED
      BY <2>1, <2>2 DEF StartsGo, N
  <1>6. StartsGo(p, s)
    BY <1>5
  <1>7. LineStarts(s) = p[Len(s)]
    BY DEF LineStarts, StartsGo
  <1> QED
    BY <1>6, <1>7

\* The starts found in the first n characters.
StartsOf(starts, s, n) ==
    /\ starts \in Seq(Nat) /\ Len(starts) >= 1 /\ starts[1] = 0
    /\ \A i \in 1 .. Len(starts) : starts[i] <= n
    /\ \A i \in 2 .. Len(starts) : starts[i] >= 1 /\ s[starts[i]] = Newline
    /\ \A i, j \in 1 .. Len(starts) : i < j => starts[i] < starts[j]

LEMMA StartsGrow ==
    ASSUME NEW s, NEW st, NEW n \in Nat, n >= 1, StartsOf(st, s, n - 1), s[n] = Newline
    PROVE  StartsOf(Append(st, n), s, n)
  <1> DEFINE t == Append(st, n)
             m == Len(st)
  <1>1. /\ t \in Seq(Nat) /\ Len(t) = m + 1 /\ m \in Nat /\ m >= 1
        /\ t[m + 1] = n
        /\ \A i \in 1 .. m : t[i] = st[i] /\ st[i] \in Nat
    BY DEF StartsOf
  <1> HIDE DEF t, m
  <1>2. \A i \in 1 .. m : st[i] <= n - 1
    BY DEF StartsOf, m
  <1>3. \A i \in 2 .. m : st[i] >= 1 /\ s[st[i]] = Newline
    BY DEF StartsOf, m
  <1>4. \A i, j \in 1 .. m : i < j => st[i] < st[j]
    BY DEF StartsOf, m
  <1>5. st[1] = 0
    BY DEF StartsOf
  <1>6. ASSUME NEW i \in 1 .. m + 1 PROVE t[i] <= n
    BY <1>1, <1>2
  <1>7. ASSUME NEW i \in 2 .. m + 1 PROVE t[i] >= 1 /\ s[t[i]] = Newline
    <2>1. CASE i = m + 1
      BY <1>1, <2>1
    <2>2. CASE i # m + 1
      <3>1. i \in 1 .. m /\ i \in 2 .. m
        BY <1>1, <2>2
      <3> QED
        BY <1>1, <1>3, <3>1
    <2> QED
      BY <2>1, <2>2
  <1>8. ASSUME NEW i \in 1 .. m + 1, NEW j \in 1 .. m + 1, i < j PROVE t[i] < t[j]
    <2>1. i \in 1 .. m
      BY <1>1, <1>8
    <2>2. CASE j = m + 1
      BY <1>1, <1>2, <2>1, <2>2
    <2>3. CASE j # m + 1
      <3>1. j \in 1 .. m
        BY <1>1, <2>3
      <3> QED
        BY <1>1, <1>4, <1>8, <2>1, <3>1
    <2> QED
      BY <2>2, <2>3
  <1>9. t[1] = 0
    BY <1>1, <1>5
  <1>10. StartsOf(t, s, n)
    BY <1>1, <1>6, <1>7, <1>8, <1>9 DEF StartsOf
  <1> QED
    BY <1>10 DEF t

LEMMA StartsAre ==
    ASSUME NEW s, Len(s) \in Nat
    PROVE  StartsOf(LineStarts(s), s, Len(s))
  <1> DEFINE N == Len(s)
  <1>1. PICK f : StartsGo(f, s) /\ LineStarts(s) = f[N]
    BY StartsStep
  <1> DEFINE T == {n \in 0 .. N : StartsOf(f[n], s, n)}
  <1>2. N \in Nat
    OBVIOUS
  <1>3. /\ f[0] = <<0>>
        /\ \A n \in 1 .. N : f[n] = IF s[n] = Newline THEN Append(f[n - 1], n) ELSE f[n - 1]
    <2>1. \A i \in 0 .. N : f[i] = IF i = 0 THEN <<0>>
                                   ELSE IF s[i] = Newline THEN Append(f[i - 1], i) ELSE f[i - 1]
      BY <1>1 DEF StartsGo
    <2> HIDE DEF N
    <2>2. 0 \in 0 .. N /\ \A n \in 1 .. N : n \in 0 .. N /\ n # 0
      BY <1>2
    <2> QED
      BY <2>1, <2>2
  <1> HIDE DEF N
  <1>4. 0 \in T
    <2>1. StartsOf(<<0>>, s, 0)
      BY DEF StartsOf
    <2> QED
      BY <1>2, <1>3, <2>1
  <1>5. ASSUME NEW n \in 1 .. N, n - 1 \in T PROVE n \in T
    <2>1. StartsOf(f[n - 1], s, n - 1) /\ n \in Nat /\ n >= 1 /\ n \in 0 .. N
      BY <1>2, <1>5
    <2>2. CASE s[n] = Newline
      BY <1>3, <2>1, <2>2, StartsGrow
    <2>3. CASE s[n] # Newline
      <3>1. f[n] = f[n - 1]
        BY <1>3, <2>3
      <3>2. StartsOf(f[n - 1], s, n)
        <4>1. \A i \in 1 .. Len(f[n - 1]) : f[n - 1][i] \in Nat /\ f[n - 1][i] <= n - 1
          BY <2>1 DEF StartsOf
        <4>2. \A i \in 1 .. Len(f[n - 1]) : f[n - 1][i] <= n
          BY <2>1, <4>1
        <4> QED
          BY <2>1, <4>2 DEF StartsOf
      <3> QED
        BY <2>1, <3>1, <3>2
    <2> QED
      BY <2>2, <2>3
  <1> HIDE DEF T
  <1>6. \A n \in 0 .. N : n \in T
    <2>1. \A n \in 1 .. N : n - 1 \in T => n \in T
      BY <1>5
    <2> QED
      BY <1>2, <1>4, <2>1, Climb
  <1> QED
    BY <1>1, <1>2, <1>6 DEF T, N

-----------------------------------------------------------------------------
(* What is found in a line                                                 *)

Free(from, q, b) == from = << >> \/ from[Len(from)] + Len(q) <= b - 1
Scanned(from, line, q, b) ==
    IF Free(from, q, b) /\ MatchesAt(line, b - 1, q) THEN Append(from, b - 1) ELSE from

FoundGo(f, line, q) ==
    f = [b \in 0 .. Len(line) |-> IF b = 0 THEN << >> ELSE Scanned(f[b - 1], line, q, b)]

LEMMA FoundStep ==
    ASSUME NEW line, Len(line) \in Nat, NEW q
    PROVE  \E f : FoundGo(f, line, q) /\ FoundIn(line, q) = f[Len(line)]
  <1> DEFINE N == Len(line)
             V == Seq(Nat)
             G == [b \in 1 .. N |-> [x \in V |-> Scanned(x, line, q, b)]]
             p == CHOOSE g : FoundGo(g, line, q)
  <1>1. G \in [1 .. N -> [V -> V]]
    <2>1. \A b \in 1 .. N, x \in V : Append(x, b - 1) \in V
      OBVIOUS
    <2>2. \A b \in 1 .. N, x \in V : Scanned(x, line, q, b) \in V
      BY <2>1 DEF Scanned
    <2> QED
      BY <2>2
  <1>2. \A b \in 1 .. N, x \in V : G[b][x] = Scanned(x, line, q, b)
    OBVIOUS
  <1>3. << >> \in V /\ N \in Nat
    OBVIOUS
  <1> HIDE DEF N, V, G
  <1>4. PICK f \in [0 .. N -> V] : Goes(f, N, << >>, G)
    BY <1>1, <1>3, StepsExist
  <1>5. FoundGo(f, line, q)
    <2>1. f = [b \in 0 .. N |-> f[b]]
      BY <1>4
    <2>2. ASSUME NEW b \in 0 .. N
          PROVE  f[b] = IF b = 0 THEN << >> ELSE Scanned(f[b - 1], line, q, b)
      <3>1. CASE b = 0
        BY <1>4, <3>1 DEF Goes
      <3>2. CASE b # 0
        <4>1. b \in 1 .. N /\ b - 1 \in 0 .. N
          BY <1>3, <3>2
        <4>2. f[b] = G[b][f[b - 1]] /\ f[b - 1] \in V
          BY <1>4, <4>1 DEF Goes
        <4> QED
          BY <1>2, <3>2, <4>1, <4>2
      <3> QED
        BY <3>1, <3>2
    <2> QED
      BY <2>1, <2>2 DEF FoundGo, N
  <1>6. FoundGo(p, line, q)
    BY <1>5
  <1>7. FoundIn(line, q) = p[Len(line)]
    BY DEF FoundIn, FoundGo, Scanned, Free
  <1> QED
    BY <1>6, <1>7

\* The matches found in front of b: apart, and none is missed.
FoundOf(from, line, q, b) ==
    /\ from \in Seq(Nat)
    /\ \A i \in 1 .. Len(from) : from[i] < b /\ MatchesAt(line, from[i], q)
    /\ \A i, j \in 1 .. Len(from) : i < j => from[i] + Len(q) <= from[j]
    /\ \A c \in 0 .. b - 1 : MatchesAt(line, c, q) =>
           \E i \in 1 .. Len(from) : from[i] <= c /\ c < from[i] + Len(q)

LEMMA FoundGrows ==
    ASSUME NEW line, NEW q, Len(q) \in Nat, Len(q) >= 1, NEW b \in Nat, b >= 1,
           NEW from, FoundOf(from, line, q, b - 1)
    PROVE  FoundOf(Scanned(from, line, q, b), line, q, b)
  <1> DEFINE m == Len(from)
             L == Len(q)
  <1>1. /\ from \in Seq(Nat) /\ m \in Nat /\ L \in Nat /\ L >= 1
        /\ \A i \in 1 .. m : from[i] \in Nat
    BY DEF FoundOf
  <1>2. \A i \in 1 .. m : from[i] < b - 1 /\ MatchesAt(line, from[i], q)
    BY DEF FoundOf
  <1>3. \A i, j \in 1 .. m : i < j => from[i] + L <= from[j]
    BY DEF FoundOf
  <1>4. \A c \in 0 .. b - 2 : MatchesAt(line, c, q) =>
           \E i \in 1 .. m : from[i] <= c /\ c < from[i] + L
    <2>1. b - 1 - 1 = b - 2
      OBVIOUS
    <2> QED
      BY <2>1 DEF FoundOf
  <1>5. from # << >> => m >= 1
    BY <1>1
  <1>6. \A c \in 0 .. b - 1 : c = b - 1 \/ c \in 0 .. b - 2
    OBVIOUS
  <1>7. CASE Free(from, q, b) /\ MatchesAt(line, b - 1, q)
    <2> DEFINE t == Append(from, b - 1)
    <2>1. /\ t \in Seq(Nat) /\ Len(t) = m + 1 /\ t[m + 1] = b - 1
          /\ \A i \in 1 .. m : t[i] = from[i]
      BY <1>1
    <2>2. Scanned(from, line, q, b) = t
      BY <1>7 DEF Scanned
    <2> HIDE DEF t, m
    <2>3. \A i \in 1 .. m : from[i] + L <= b - 1
      <3> SUFFICES ASSUME NEW i \in 1 .. m PROVE from[i] + L <= b - 1
        OBVIOUS
      <3>1. m >= 1 /\ m \in 1 .. m /\ from # << >>
        BY <1>1 DEF m
      <3>2. from[m] + L <= b - 1
        BY <1>7, <3>1 DEF Free, m
      <3>3. CASE i = m
        BY <3>2, <3>3
      <3>4. CASE i # m
        <4>1. from[i] + L <= from[m]
          BY <1>1, <1>3, <3>1, <3>4
        <4> HIDE DEF L
        <4>2. from[i] \in Nat /\ from[m] \in Nat /\ L \in Nat
          BY <1>1, <3>1
        <4> QED
          BY <3>2, <4>1, <4>2
      <3> QED
        BY <3>3, <3>4
    <2>4. ASSUME NEW i \in 1 .. m + 1 PROVE t[i] < b /\ MatchesAt(line, t[i], q)
      <3>1. CASE i = m + 1
        BY <1>7, <2>1, <3>1
      <3>2. CASE i # m + 1
        <4>1. i \in 1 .. m
          BY <1>1, <3>2
        <4>2. t[i] = from[i] /\ from[i] \in Nat /\ from[i] < b - 1 /\ MatchesAt(line, from[i], q)
          BY <1>1, <1>2, <2>1, <4>1
        <4> QED
          BY <4>2
      <3> QED
        BY <3>1, <3>2
    <2>5. ASSUME NEW i \in 1 .. m + 1, NEW j \in 1 .. m + 1, i < j PROVE t[i] + L <= t[j]
      <3>1. i \in 1 .. m
        BY <1>1, <2>5
      <3>2. CASE j = m + 1
        BY <2>1, <2>3, <3>1, <3>2
      <3>3. CASE j # m + 1
        <4>1. j \in 1 .. m
          BY <1>1, <3>3
        <4> QED
          BY <1>3, <2>1, <2>5, <3>1, <4>1
      <3> QED
        BY <3>2, <3>3
    <2>6. ASSUME NEW c \in 0 .. b - 1, MatchesAt(line, c, q)
          PROVE  \E i \in 1 .. m + 1 : t[i] <= c /\ c < t[i] + L
      <3>1. CASE c = b - 1
        <4>1. m + 1 \in 1 .. m + 1 /\ t[m + 1] <= c /\ c < t[m + 1] + L
          <5> HIDE DEF L
          <5> QED
            BY <1>1, <2>1, <3>1
        <4> QED
          BY <4>1
      <3>2. CASE c \in 0 .. b - 2
        <4>1. PICK i \in 1 .. m : from[i] <= c /\ c < from[i] + L
          BY <1>4, <2>6, <3>2
        <4>2. i \in 1 .. m + 1 /\ t[i] = from[i]
          BY <1>1, <2>1
        <4> QED
          BY <4>1, <4>2
      <3> QED
        BY <1>6, <3>1, <3>2
    <2>7. FoundOf(t, line, q, b)
      BY <2>1, <2>4, <2>5, <2>6 DEF FoundOf
    <2> QED
      BY <2>2, <2>7
  <1>8. CASE ~(Free(from, q, b) /\ MatchesAt(line, b - 1, q))
    <2>1. Scanned(from, line, q, b) = from
      BY <1>8 DEF Scanned
    <2> HIDE DEF m
    <2>2. ASSUME NEW i \in 1 .. m PROVE from[i] < b /\ MatchesAt(line, from[i], q)
      BY <1>1, <1>2
    <2>3. ASSUME NEW c \in 0 .. b - 1, MatchesAt(line, c, q)
          PROVE  \E i \in 1 .. m : from[i] <= c /\ c < from[i] + L
      <3>1. CASE c = b - 1
        <4>1. ~Free(from, q, b)
          BY <1>8, <2>3, <3>1
        <4>2. m >= 1 /\ m \in 1 .. m /\ ~(from[m] + L <= b - 1)
          BY <1>1, <1>5, <4>1 DEF Free, m
        <4>3. from[m] < b - 1 /\ from[m] \in Nat
          BY <1>1, <1>2, <4>2
        <4> HIDE DEF L
        <4>4. from[m] <= c /\ c < from[m] + L
          BY <1>1, <3>1, <4>2, <4>3
        <4> QED
          BY <4>2, <4>4
      <3>2. CASE c \in 0 .. b - 2
        BY <1>4, <2>3, <3>2
      <3> QED
        BY <1>6, <3>1, <3>2
    <2>4. FoundOf(from, line, q, b)
      BY <1>1, <1>3, <2>2, <2>3 DEF FoundOf, m
    <2> QED
      BY <2>1, <2>4
  <1> QED
    BY <1>7, <1>8

LEMMA FoundAre ==
    ASSUME NEW line, Len(line) \in Nat, NEW q, Len(q) \in Nat, Len(q) >= 1
    PROVE  FoundOf(FoundIn(line, q), line, q, Len(line))
  <1> DEFINE N == Len(line)
  <1>1. PICK f : FoundGo(f, line, q) /\ FoundIn(line, q) = f[N]
    BY FoundStep
  <1> DEFINE T == {n \in 0 .. N : FoundOf(f[n], line, q, n)}
  <1>2. N \in Nat
    OBVIOUS
  <1>3. /\ f[0] = << >>
        /\ \A n \in 1 .. N : f[n] = Scanned(f[n - 1], line, q, n)
    <2>1. \A b \in 0 .. N : f[b] = IF b = 0 THEN << >> ELSE Scanned(f[b - 1], line, q, b)
      BY <1>1 DEF FoundGo
    <2> HIDE DEF N
    <2>2. 0 \in 0 .. N /\ \A n \in 1 .. N : n \in 0 .. N /\ n # 0
      BY <1>2
    <2> QED
      BY <2>1, <2>2
  <1> HIDE DEF N
  <1>4. 0 \in T
    <2>1. FoundOf(<< >>, line, q, 0)
      BY DEF FoundOf
    <2> QED
      BY <1>2, <1>3, <2>1
  <1>5. ASSUME NEW n \in 1 .. N, n - 1 \in T PROVE n \in T
    <2>1. FoundOf(f[n - 1], line, q, n - 1) /\ n \in Nat /\ n >= 1 /\ n \in 0 .. N
      BY <1>2, <1>5
    <2>2. FoundOf(Scanned(f[n - 1], line, q, n), line, q, n)
      BY <2>1, FoundGrows
    <2> QED
      BY <1>3, <2>1, <2>2
  <1> HIDE DEF T
  <1>6. \A n \in 0 .. N : n \in T
    <2>1. \A n \in 1 .. N : n - 1 \in T => n \in T
      BY <1>5
    <2> QED
      BY <1>2, <1>4, <2>1, Climb
  <1> QED
    BY <1>1, <1>2, <1>6 DEF T, N

-----------------------------------------------------------------------------
(* What is found in a text                                                 *)

LEMMA SameText ==
    ASSUME NEW C, NEW u \in Seq(C), NEW v \in Seq(C), Len(u) = Len(v),
           \A i \in 1 .. Len(u) : u[i] = v[i]
    PROVE  u = v
  <1>1. u = [i \in 1 .. Len(u) |-> u[i]] /\ v = [i \in 1 .. Len(v) |-> v[i]]
    OBVIOUS
  <1> QED
    BY <1>1

LEMMA PartOfPart ==
    ASSUME NEW C, NEW s \in Seq(C), NEW a \in Nat, NEW e \in Nat, a <= e, e <= Len(s),
           NEW b \in Nat, NEW d \in Nat, d <= e - a
    PROVE  SubSeq(SubSeq(s, a + 1, e), b + 1, d) = SubSeq(s, a + b + 1, a + d)
  <1> DEFINE t == SubSeq(s, a + 1, e)
             u == SubSeq(t, b + 1, d)
             v == SubSeq(s, a + b + 1, a + d)
  <1>1. /\ t \in Seq(C) /\ Len(t) = e - a
        /\ \A i \in 1 .. e - a : t[i] = s[a + i]
    OBVIOUS
  <1>2. /\ v \in Seq(C) /\ Len(v) = (IF b < d THEN d - b ELSE 0)
        /\ \A i \in 1 .. Len(v) : v[i] = s[a + b + i]
    OBVIOUS
  <1> HIDE DEF t, v
  <1>3. /\ u \in Seq(C) /\ Len(u) = (IF b < d THEN d - b ELSE 0)
        /\ \A i \in 1 .. Len(u) : u[i] = t[b + i]
    BY <1>1
  <1> HIDE DEF u
  <1>4. ASSUME NEW i \in 1 .. Len(u) PROVE u[i] = v[i]
    <2>1. b + i \in 1 .. e - a /\ i \in 1 .. Len(v) /\ a + (b + i) = a + b + i
      BY <1>2, <1>3
    <2> QED
      BY <1>1, <1>2, <1>3, <2>1
  <1>5. u = v
    <2>1. Len(u) = Len(v)
      BY <1>2, <1>3
    <2> QED
      BY <1>2, <1>3, <1>4, <2>1, SameText
  <1> QED
    BY <1>5 DEF t, u, v

\* Where line k ends, and that its end is a line break or that of the text.
LEMMA LineIs ==
    ASSUME NEW C, NEW s \in Seq(C), NEW k \in 1 .. Len(LineStarts(s))
    PROVE  LET st == LineStarts(s)
               e  == LineEnd(s, st, k)
           IN  /\ st[k] \in Nat /\ e \in Nat /\ st[k] <= e /\ e <= Len(s)
               /\ Line(s, k) = SubSeq(s, st[k] + 1, e)
               /\ Line(s, k) \in Seq(C) /\ Len(Line(s, k)) = e - st[k]
               /\ k < Len(st) => st[k + 1] = e + 1 /\ s[e + 1] = Newline
  <1> DEFINE st == LineStarts(s)
             e == LineEnd(s, st, k)
             K == Len(st)
  <1>1. Len(s) \in Nat
    OBVIOUS
  <1>2. StartsOf(st, s, Len(s))
    BY <1>1, StartsAre
  <1>3. Line(s, k) = SubSeq(s, st[k] + 1, e)
    BY DEF Line
  <1> HIDE DEF st, K
  <1>4. /\ K \in Nat /\ k \in 1 .. K /\ \A i \in 1 .. K : st[i] \in Nat
        /\ \A i \in 1 .. K : st[i] <= Len(s)
        /\ \A i \in 2 .. K : st[i] >= 1 /\ s[st[i]] = Newline
        /\ \A i, j \in 1 .. K : i < j => st[i] < st[j]
    BY <1>2 DEF StartsOf, K, st
  <1>5. /\ st[k] \in Nat /\ e \in Nat /\ st[k] <= e /\ e <= Len(s)
        /\ k < K => st[k + 1] = e + 1 /\ s[e + 1] = Newline
    <2>1. CASE k < K
      <3>1. k + 1 \in 2 .. K /\ k + 1 \in 1 .. K /\ k < k + 1
        BY <1>4, <2>1
      <3>2. /\ st[k] \in Nat /\ st[k + 1] \in Nat /\ st[k] < st[k + 1] /\ st[k + 1] <= Len(s)
            /\ st[k + 1] >= 1 /\ s[st[k + 1]] = Newline
        BY <1>4, <3>1
      <3>3. e = st[k + 1] - 1
        BY <2>1 DEF LineEnd, K
      <3> QED
        BY <1>1, <3>2, <3>3
    <2>2. CASE ~(k < K)
      <3>1. e = Len(s)
        BY <2>2 DEF LineEnd, K
      <3> QED
        BY <1>1, <1>4, <2>2, <3>1
    <2> QED
      BY <2>1, <2>2
  <1> HIDE DEF e
  <1>6. SubSeq(s, st[k] + 1, e) \in Seq(C) /\ Len(SubSeq(s, st[k] + 1, e)) = e - st[k]
    BY <1>1, <1>5
  <1> QED
    BY <1>3, <1>5, <1>6 DEF st, e, K

\* A match in a line is an occurrence in the text that ends with the line.
LEMMA InLine ==
    ASSUME NEW C, NEW s \in Seq(C), NEW k \in 1 .. Len(LineStarts(s)),
           NEW q \in Seq(C), NEW b \in Nat
    PROVE  LET st == LineStarts(s)
           IN  MatchesAt(Line(s, k), b, q) <=>
                   /\ st[k] + b + Len(q) <= LineEnd(s, st, k)
                   /\ Occurs(s, q, st[k] + b + 1)
  <1> DEFINE st == LineStarts(s)
             a == st[k]
             e == LineEnd(s, st, k)
             L == Len(q)
  <1>1. /\ a \in Nat /\ e \in Nat /\ a <= e /\ e <= Len(s)
        /\ Line(s, k) = SubSeq(s, a + 1, e) /\ Len(Line(s, k)) = e - a
    BY LineIs
  <1>2. L \in Nat /\ Len(s) \in Nat
    OBVIOUS
  <1> HIDE DEF st, a, e, L
  <1>3. MatchesAt(Line(s, k), b, q) <=> b + L <= e - a /\ SubSeq(SubSeq(s, a + 1, e), b + 1, b + L) = q
    BY <1>1 DEF MatchesAt, L
  <1>4. b + L <= e - a <=> a + b + L <= e
    BY <1>1, <1>2
  <1>5. ASSUME b + L <= e - a
        PROVE  SubSeq(SubSeq(s, a + 1, e), b + 1, b + L) = q <=> Occurs(s, q, a + b + 1)
    <2>1. SubSeq(SubSeq(s, a + 1, e), b + 1, b + L) = SubSeq(s, a + b + 1, a + (b + L))
      BY <1>1, <1>2, <1>5, PartOfPart
    <2>2. a + (b + L) = a + b + 1 + L - 1 /\ a + b + 1 + L - 1 <= Len(s)
      BY <1>1, <1>2, <1>5
    <2>3. Occurs(s, q, a + b + 1) <=> SubSeq(s, a + b + 1, a + (b + L)) = q
      BY <2>2 DEF Occurs, L
    <2> QED
      BY <2>1, <2>3
  <1> QED
    BY <1>3, <1>4, <1>5 DEF st, a, e, L

-----------------------------------------------------------------------------
FoundMatch == {m \in [line : Nat \ {0}, from : Nat, to : Nat] : m.from <= m.to}

LEMMA MatchesOfAre ==
    ASSUME NEW C, NEW s \in Seq(C), NEW k \in 1 .. Len(LineStarts(s)),
           NEW q \in Seq(C), Len(q) >= 1
    PROVE  LET from == FoundIn(Line(s, k), q)
               new  == MatchesOf(s, k, q)
           IN  /\ FoundOf(from, Line(s, k), q, Len(Line(s, k)))
               /\ new \in Seq(FoundMatch) /\ Len(new) = Len(from)
               /\ \A i \in 1 .. Len(from) :
                      new[i] = [line |-> k, from |-> from[i], to |-> from[i] + Len(q)]
  <1> DEFINE from == FoundIn(Line(s, k), q)
             L == Len(q)
  <1>1. Len(Line(s, k)) \in Nat /\ L \in Nat /\ k \in Nat
    BY LineIs
  <1>2. FoundOf(from, Line(s, k), q, Len(Line(s, k)))
    BY <1>1, FoundAre
  <1>3. from \in Seq(Nat)
    BY <1>2 DEF FoundOf
  <1>4. MatchesOf(s, k, q) =
            [i \in 1 .. Len(from) |-> [line |-> k, from |-> from[i], to |-> from[i] + L]]
    BY DEF MatchesOf
  <1> HIDE DEF from, L
  <1>5. \A i \in 1 .. Len(from) : [line |-> k, from |-> from[i], to |-> from[i] + L] \in FoundMatch
    BY <1>1, <1>3 DEF FoundMatch
  <1>6. Len(from) \in Nat
    BY <1>3
  <1> DEFINE new == MatchesOf(s, k, q)
  <1>7. new \in Seq(FoundMatch)
    BY <1>4, <1>5, <1>6
  <1>8. Len(new) = Len(from)
    BY <1>4, <1>6
  <1>9. \A i \in 1 .. Len(from) :
            new[i] = [line |-> k, from |-> from[i], to |-> from[i] + L]
    BY <1>4
  <1> HIDE DEF new
  <1> QED
    BY <1>2, <1>7, <1>8, <1>9 DEF from, L, new

MatchesGo(f, s, q) ==
    f = [k \in 0 .. Len(LineStarts(s)) |-> IF k = 0 THEN << >> ELSE f[k - 1] \o MatchesOf(s, k, q)]

LEMMA MatchesStep ==
    ASSUME NEW C, NEW s \in Seq(C), NEW q \in Seq(C), Len(q) >= 1
    PROVE  \E f : MatchesGo(f, s, q) /\ FindMatches(s, q) = f[Len(LineStarts(s))]
  <1> DEFINE N == Len(LineStarts(s))
             V == Seq(FoundMatch)
             G == [k \in 1 .. N |-> [x \in V |-> x \o MatchesOf(s, k, q)]]
             p == CHOOSE g : MatchesGo(g, s, q)
  <1>1. G \in [1 .. N -> [V -> V]]
    <2>1. \A k \in 1 .. N : MatchesOf(s, k, q) \in V
      BY MatchesOfAre
    <2>2. \A k \in 1 .. N, x \in V : x \o MatchesOf(s, k, q) \in V
      BY <2>1
    <2> QED
      BY <2>2
  <1>2. \A k \in 1 .. N, x \in V : G[k][x] = x \o MatchesOf(s, k, q)
    OBVIOUS
  <1>3. << >> \in V /\ N \in Nat
    <2>1. Len(s) \in Nat
      OBVIOUS
    <2> QED
      BY <2>1, StartsAre DEF StartsOf
  <1> HIDE DEF N, V, G
  <1>4. PICK f \in [0 .. N -> V] : Goes(f, N, << >>, G)
    BY <1>1, <1>3, StepsExist
  <1>5. MatchesGo(f, s, q)
    <2>1. f = [k \in 0 .. N |-> f[k]]
      BY <1>4
    <2>2. ASSUME NEW k \in 0 .. N
          PROVE  f[k] = IF k = 0 THEN << >> ELSE f[k - 1] \o MatchesOf(s, k, q)
      <3>1. CASE k = 0
        BY <1>4, <3>1 DEF Goes
      <3>2. CASE k # 0
        <4>1. k \in 1 .. N /\ k - 1 \in 0 .. N
          BY <1>3, <3>2
        <4>2. f[k] = G[k][f[k - 1]] /\ f[k - 1] \in V
          BY <1>4, <4>1 DEF Goes
        <4> QED
          BY <1>2, <3>2, <4>1, <4>2
      <3> QED
        BY <3>1, <3>2
    <2> QED
      BY <2>1, <2>2 DEF MatchesGo, N
  <1>6. MatchesGo(p, s, q)
    BY <1>5
  <1>7. q # << >>
    OBVIOUS
  <1>8. FindMatches(s, q) = p[Len(LineStarts(s))]
    BY <1>7 DEF FindMatches, MatchesGo
  <1> QED
    BY <1>6, <1>8

AbsAt(s, m) == LineStarts(s)[m.line] + m.from
Reach(s, k) == IF k < Len(LineStarts(s)) THEN LineStarts(s)[k + 1] ELSE Len(s)

\* The matches found in the first k lines: occurrences, apart, none missed.
TextOf(M, s, q, k) ==
    /\ M \in Seq(FoundMatch)
    /\ \A i \in 1 .. Len(M) :
           /\ M[i].line \in 1 .. Len(LineStarts(s)) /\ M[i].to = M[i].from + Len(q)
           /\ AbsAt(s, M[i]) + Len(q) <= Reach(s, k)
           /\ Occurs(s, q, AbsAt(s, M[i]) + 1)
    /\ \A i, j \in 1 .. Len(M) : i < j => AbsAt(s, M[i]) + Len(q) <= AbsAt(s, M[j])
    /\ \A p \in Nat : p < Reach(s, k) /\ Occurs(s, q, p + 1) =>
           \E i \in 1 .. Len(M) : AbsAt(s, M[i]) <= p /\ p < AbsAt(s, M[i]) + Len(q)

OneLine(q) == \A i \in 1 .. Len(q) : q[i] # Newline

LEMMA OccursInLine ==
    ASSUME NEW C, NEW s \in Seq(C), NEW q \in Seq(C), OneLine(q), Len(q) >= 1,
           NEW k \in 1 .. Len(LineStarts(s)), NEW p \in Nat, p < Reach(s, k),
           Occurs(s, q, p + 1)
    PROVE  p + Len(q) <= LineEnd(s, LineStarts(s), k)
  <1> DEFINE st == LineStarts(s)
             e == LineEnd(s, st, k)
             L == Len(q)
  <1>1. /\ e \in Nat /\ e <= Len(s) /\ L \in Nat /\ Len(s) \in Nat
        /\ k < Len(st) => st[k + 1] = e + 1 /\ s[e + 1] = Newline
    BY LineIs
  <1>2. p + L <= Len(s) /\ SubSeq(s, p + 1, p + L) = q
    <2>1. p + 1 + L - 1 = p + L
      BY <1>1
    <2> QED
      BY <2>1 DEF Occurs, L
  <1>3. CASE k < Len(st)
    <2> SUFFICES ASSUME ~(p + L <= e) PROVE FALSE
      OBVIOUS
    <2>1. p < e + 1
      BY <1>1, <1>3 DEF Reach
    <2>2. e + 1 - p \in 1 .. L /\ p + 1 - 1 + (e + 1 - p) = e + 1 /\ p + L - (p + 1) + 1 = L
      BY <1>1, <2>1
    <2>3. SubSeq(s, p + 1, p + L)[e + 1 - p] = s[e + 1]
      BY <1>1, <1>2, <2>2
    <2>4. q[e + 1 - p] = Newline
      BY <1>1, <1>2, <1>3, <2>3
    <2> QED
      BY <2>2, <2>4 DEF OneLine, L
  <1>4. CASE ~(k < Len(st))
    BY <1>2, <1>4 DEF LineEnd
  <1> QED
    BY <1>3, <1>4

Regroups(u, v, w) == (u \o v) \o w = u \o (v \o w)

LEMMA Regrouped ==
    ASSUME NEW C, NEW u \in Seq(C), NEW v \in Seq(C), NEW w \in Seq(C)
    PROVE  Regroups(u, v, w)
  BY ConcatAssociative, SMTT(30) DEF Regroups

LEMMA Joined ==
    ASSUME NEW C, NEW u \in Seq(C), NEW v \in Seq(C)
    PROVE  /\ u \o v \in Seq(C) /\ Len(u \o v) = Len(u) + Len(v)
           /\ \A i \in 1 .. Len(u) : (u \o v)[i] = u[i]
           /\ \A i \in 1 .. Len(v) : (u \o v)[Len(u) + i] = v[i]
  OBVIOUS

LEMMA TextGrows ==
    ASSUME NEW C, NEW s \in Seq(C), NEW q \in Seq(C), OneLine(q), Len(q) >= 1,
           NEW k \in 1 .. Len(LineStarts(s)), NEW M, TextOf(M, s, q, k - 1)
    PROVE  TextOf(M \o MatchesOf(s, k, q), s, q, k)
  <1> DEFINE st == LineStarts(s)
             K == Len(st)
             e == LineEnd(s, st, k)
             L == Len(q)
             from == FoundIn(Line(s, k), q)
             new == MatchesOf(s, k, q)
             m == Len(M)
             n == Len(from)
             t == M \o new
             At(x) == AbsAt(s, x)
  <1>1. /\ st[k] \in Nat /\ e \in Nat /\ st[k] <= e /\ e <= Len(s)
        /\ Len(Line(s, k)) = e - st[k]
        /\ k < K => st[k + 1] = e + 1
    BY LineIs
  <1>2. /\ FoundOf(from, Line(s, k), q, e - st[k])
        /\ new \in Seq(FoundMatch) /\ Len(new) = n
        /\ \A i \in 1 .. n : new[i] = [line |-> k, from |-> from[i], to |-> from[i] + L]
    BY <1>1, MatchesOfAre
  <1>3. /\ k \in Nat /\ k >= 1 /\ k <= K /\ L \in Nat /\ L >= 1 /\ Len(s) \in Nat
        /\ K \in Nat
    <2>1. Len(s) \in Nat
      OBVIOUS
    <2>2. K \in Nat
      BY <2>1, StartsAre DEF StartsOf
    <2> QED
      BY <2>1, <2>2
  <1>4. Reach(s, k - 1) = st[k]
    BY <1>3 DEF Reach
  <1>5. Reach(s, k) \in Nat /\ e <= Reach(s, k) /\ st[k] <= Reach(s, k)
    BY <1>1, <1>3 DEF Reach
  <1>6. /\ from \in Seq(Nat) /\ n \in Nat
        /\ \A i \in 1 .. n : from[i] \in Nat /\ MatchesAt(Line(s, k), from[i], q)
        /\ \A i, j \in 1 .. n : i < j => from[i] + L <= from[j]
        /\ \A c \in 0 .. e - st[k] - 1 : MatchesAt(Line(s, k), c, q) =>
             \E i \in 1 .. n : from[i] <= c /\ c < from[i] + L
    <2> HIDE DEF from, e, st, new, t, m
    <2>1. from \in Seq(Nat) /\ n \in Nat /\ \A i \in 1 .. n : from[i] \in Nat
      BY <1>2 DEF FoundOf
    <2> HIDE DEF L
    <2>2. \A i \in 1 .. n : MatchesAt(Line(s, k), from[i], q)
      BY <1>2 DEF FoundOf
    <2> USE DEF L
    <2>3. \A i, j \in 1 .. n : i < j => from[i] + L <= from[j]
      BY <1>2 DEF FoundOf
    <2>4. \A c \in 0 .. e - st[k] - 1 : MatchesAt(Line(s, k), c, q) =>
             \E i \in 1 .. n : from[i] <= c /\ c < from[i] + L
      BY <1>2 DEF FoundOf
    <2> QED
      BY <2>1, <2>2, <2>3, <2>4
  <1>7. \A b \in Nat : MatchesAt(Line(s, k), b, q) <=>
            st[k] + b + L <= e /\ Occurs(s, q, st[k] + b + 1)
    BY InLine
  <1>8. /\ M \in Seq(FoundMatch) /\ m \in Nat
        /\ \A i \in 1 .. m :
              /\ M[i].line \in 1 .. K /\ M[i].to = M[i].from + L
              /\ At(M[i]) + L <= st[k]
              /\ Occurs(s, q, At(M[i]) + 1)
        /\ \A i, j \in 1 .. m : i < j => At(M[i]) + L <= At(M[j])
        /\ \A p \in Nat : p < st[k] /\ Occurs(s, q, p + 1) =>
              \E i \in 1 .. m : At(M[i]) <= p /\ p < At(M[i]) + L
    <2> HIDE DEF e, from, new, n, t
    <2>1. M \in Seq(FoundMatch) /\ m \in Nat
      BY DEF TextOf
    <2>2. \A i \in 1 .. m :
              /\ M[i].line \in 1 .. K /\ M[i].to = M[i].from + L
              /\ At(M[i]) + L <= Reach(s, k - 1)
              /\ Occurs(s, q, At(M[i]) + 1)
      BY DEF TextOf
    <2>3. \A i, j \in 1 .. m : i < j => At(M[i]) + L <= At(M[j])
      BY DEF TextOf
    <2>4. \A p \in Nat : p < Reach(s, k - 1) /\ Occurs(s, q, p + 1) =>
              \E i \in 1 .. m : At(M[i]) <= p /\ p < At(M[i]) + L
      BY DEF TextOf
    <2> HIDE DEF st, K, L, m, At
    <2> QED
      BY <1>4, <2>1, <2>2, <2>3, <2>4
  <1>9. \A i \in 1 .. m : At(M[i]) \in Nat
    <2> SUFFICES ASSUME NEW i \in 1 .. m PROVE At(M[i]) \in Nat
      OBVIOUS
    <2>1. M[i].from \in Nat /\ M[i].line \in 1 .. K
      <3>1. M[i] \in FoundMatch
        BY <1>8
      <3>2. M[i].line \in 1 .. K
        BY <1>8
      <3> QED
        BY <3>1, <3>2 DEF FoundMatch
    <2>2. st[M[i].line] \in Nat
      BY <2>1, LineIs
    <2> QED
      BY <2>1, <2>2 DEF AbsAt
  <1>10. \A p \in Nat : st[k] <= p /\ p < Reach(s, k) /\ Occurs(s, q, p + 1) => p + L <= e
    BY OccursInLine
  <1>11. /\ t \in Seq(FoundMatch) /\ Len(t) = m + n
         /\ \A i \in 1 .. m : t[i] = M[i]
         /\ \A i \in 1 .. n : t[m + i] = new[i]
    <2>1. new \in Seq(FoundMatch) /\ Len(new) = n /\ M \in Seq(FoundMatch) /\ m = Len(M)
      BY <1>2, <1>8
    <2> HIDE DEF new, n, m
    <2>2. new \in Seq(FoundMatch) /\ M \in Seq(FoundMatch)
      BY <2>1
    <2>3. /\ t \in Seq(FoundMatch) /\ Len(t) = Len(M) + Len(new)
          /\ \A i \in 1 .. Len(M) : t[i] = M[i]
          /\ \A i \in 1 .. Len(new) : t[Len(M) + i] = new[i]
      BY <2>2, Joined
    <2> HIDE DEF t
    <2> QED
      BY <2>1, <2>3
  <1>12. \A i \in 1 .. n : /\ new[i].line = k /\ new[i].to = new[i].from + L
                           /\ At(new[i]) = st[k] + from[i]
    <2> HIDE DEF from, new, m, n, t, e, L, K
    <2> SUFFICES ASSUME NEW i \in 1 .. n
                 PROVE  /\ new[i].line = k /\ new[i].to = new[i].from + L
                        /\ At(new[i]) = st[k] + from[i]
      OBVIOUS
    <2>1. new[i] = [line |-> k, from |-> from[i], to |-> from[i] + L]
      BY <1>2
    <2>2. new[i].line = k /\ new[i].from = from[i] /\ new[i].to = from[i] + L
      BY <2>1
    <2> QED
      BY <2>2 DEF AbsAt
  <1> HIDE DEF st, K, e, L, from, new, m, n, t, At
  <1>13. \A i \in 1 .. m + n : i \in 1 .. m \/ (i - m \in 1 .. n /\ i = m + (i - m))
    BY <1>6, <1>8
  <1>14. ASSUME NEW i \in 1 .. n
         PROVE  /\ t[m + i].line \in 1 .. K /\ t[m + i].to = t[m + i].from + L
                /\ At(t[m + i]) = st[k] + from[i] /\ from[i] \in Nat
                /\ At(t[m + i]) + L <= e /\ Occurs(s, q, At(t[m + i]) + 1)
    <2>1. /\ from[i] \in Nat /\ st[k] + from[i] + L <= e
          /\ Occurs(s, q, st[k] + from[i] + 1)
      BY <1>6, <1>7
    <2> QED
      BY <1>3, <1>11, <1>12, <2>1
  <1>15. ASSUME NEW i \in 1 .. m + n
         PROVE  /\ t[i].line \in 1 .. K /\ t[i].to = t[i].from + L
                /\ At(t[i]) + L <= Reach(s, k) /\ Occurs(s, q, At(t[i]) + 1)
    <2>1. CASE i \in 1 .. m
      <3>1. t[i] = M[i] /\ At(M[i]) \in Nat
        BY <1>9, <1>11, <2>1
      <3>2. /\ M[i].line \in 1 .. K /\ M[i].to = M[i].from + L
            /\ At(M[i]) + L <= st[k] /\ Occurs(s, q, At(M[i]) + 1)
        BY <1>8, <2>1
      <3>3. At(M[i]) + L <= Reach(s, k)
        BY <1>1, <1>3, <1>5, <3>1, <3>2
      <3> QED
        BY <3>1, <3>2, <3>3
    <2>2. CASE i - m \in 1 .. n /\ i = m + (i - m)
      <3>1. PICK j \in 1 .. n : i = m + j
        BY <2>2
      <3>2. /\ t[i].line \in 1 .. K /\ t[i].to = t[i].from + L
            /\ At(t[i]) = st[k] + from[j] /\ from[j] \in Nat
            /\ At(t[i]) + L <= e /\ Occurs(s, q, At(t[i]) + 1)
        BY <1>14, <3>1
      <3>3. At(t[i]) \in Nat
        <4>1. st[k] \in Nat /\ from[j] \in Nat /\ At(t[i]) = st[k] + from[j]
          BY <1>1, <3>2
        <4>2. \A y, w \in Nat : y + w \in Nat
          OBVIOUS
        <4> QED
          BY <4>1, <4>2
      <3> DEFINE x == At(t[i])
                 z == Reach(s, k)
      <3>4. x + L <= z
        <4>1. x \in Nat /\ L \in Nat /\ e \in Nat /\ z \in Nat /\ x + L <= e /\ e <= z
          BY <1>1, <1>3, <1>5, <3>2, <3>3
        <4> HIDE DEF x, z
        <4> QED
          BY <4>1
      <3> QED
        BY <3>2, <3>4
    <2> QED
      BY <1>13, <2>1, <2>2
  <1>16. ASSUME NEW i \in 1 .. m + n, NEW j \in 1 .. m + n, i < j
         PROVE  At(t[i]) + L <= At(t[j])
    <2>1. CASE i \in 1 .. m /\ j \in 1 .. m
      BY <1>8, <1>11, <1>16, <2>1
    <2>2. CASE i \in 1 .. m /\ j - m \in 1 .. n
      <3>1. PICK h \in 1 .. n : j = m + h
        BY <1>6, <1>8, <2>2
      <3>2. At(t[j]) = st[k] + from[h] /\ from[h] \in Nat
        BY <1>14, <3>1
      <3>3. At(t[i]) + L <= st[k]
        BY <1>8, <1>11, <2>2
      <3>4. At(t[i]) \in Nat
        BY <1>9, <1>11, <2>2
      <3> DEFINE x == At(t[i])
                 b == st[k]
                 y == from[h]
      <3>5. x \in Nat /\ L \in Nat /\ b \in Nat /\ y \in Nat /\ x + L <= b
        BY <1>1, <1>3, <3>2, <3>3, <3>4
      <3> HIDE DEF x, b, y
      <3>6. x + L <= b + y
        BY <3>5
      <3> QED
        BY <3>2, <3>6 DEF x, b, y
    <2>3. CASE i - m \in 1 .. n
      <3>1. PICK g \in 1 .. n : i = m + g
        BY <1>6, <1>8, <2>3
      <3>2. j - m \in 1 .. n
        BY <1>6, <1>8, <1>16, <2>3
      <3>3. PICK h \in 1 .. n : j = m + h
        BY <1>6, <1>8, <3>2
      <3>4. g < h
        BY <1>6, <1>8, <1>16, <3>1, <3>3
      <3>5. from[g] + L <= from[h]
        BY <1>6, <3>4
      <3>6. At(t[i]) = st[k] + from[g] /\ from[g] \in Nat
        BY <1>14, <3>1
      <3>7. At(t[j]) = st[k] + from[h] /\ from[h] \in Nat
        BY <1>14, <3>3
      <3>8. At(t[i]) + L = st[k] + from[g] + L /\ st[k] \in Nat /\ L \in Nat
        BY <1>1, <1>3, <3>6
      <3> DEFINE b == st[k]
                 x == from[g]
                 y == from[h]
      <3>9. b \in Nat /\ x \in Nat /\ y \in Nat /\ L \in Nat /\ x + L <= y
        BY <3>5, <3>6, <3>7, <3>8
      <3> HIDE DEF b, x, y
      <3>10. b + x + L <= b + y
        BY <3>9
      <3> QED
        BY <3>7, <3>8, <3>10 DEF b, x, y
    <2> QED
      BY <1>13, <2>1, <2>2, <2>3
  <1>17. ASSUME NEW p \in Nat, p < Reach(s, k), Occurs(s, q, p + 1)
         PROVE  \E i \in 1 .. m + n : At(t[i]) <= p /\ p < At(t[i]) + L
    <2>1. CASE p < st[k]
      <3>1. PICK i \in 1 .. m : At(M[i]) <= p /\ p < At(M[i]) + L
        BY <1>8, <1>17, <2>1
      <3>2. i \in 1 .. m + n /\ t[i] = M[i]
        BY <1>6, <1>8, <1>11
      <3> QED
        BY <3>1, <3>2
    <2>2. CASE ~(p < st[k])
      <3>1. st[k] <= p /\ p - st[k] \in Nat /\ st[k] + (p - st[k]) = p
        BY <1>1, <2>2
      <3>2. p + L <= e
        BY <1>10, <1>17, <3>1
      <3>3. MatchesAt(Line(s, k), p - st[k], q)
        BY <1>7, <1>17, <3>1, <3>2
      <3>4. p - st[k] \in 0 .. e - st[k] - 1
        <4> DEFINE b == st[k]
        <4>1. b \in Nat /\ p \in Nat /\ e \in Nat /\ L \in Nat /\ L >= 1 /\ b <= p /\ p + L <= e
          BY <1>1, <1>3, <3>1, <3>2
        <4> HIDE DEF b
        <4>2. p - b \in 0 .. e - b - 1
          BY <4>1
        <4> QED
          BY <4>2 DEF b
      <3>5. PICK i \in 1 .. n : from[i] <= p - st[k] /\ p - st[k] < from[i] + L
        BY <1>6, <3>3, <3>4
      <3>6. At(t[m + i]) = st[k] + from[i] /\ from[i] \in Nat /\ m + i \in 1 .. m + n
        BY <1>6, <1>8, <1>14
      <3>7. At(t[m + i]) <= p /\ p < At(t[m + i]) + L
        <4>1. st[k] + from[i] <= p /\ p < st[k] + from[i] + L
          <5>1. st[k] \in Nat /\ from[i] \in Nat /\ L \in Nat /\ p \in Nat
            BY <1>1, <1>3, <3>6
          <5>2. from[i] <= p - st[k] /\ p - st[k] < from[i] + L
            BY <3>5
          <5> QED
            BY <5>1, <5>2
        <4> QED
          BY <3>6, <4>1
      <3> QED
        BY <3>6, <3>7
    <2> QED
      BY <2>1, <2>2
  <1>18. TextOf(t, s, q, k)
    BY <1>11, <1>15, <1>16, <1>17 DEF TextOf, At, K, st, L
  <1> QED
    BY <1>18 DEF t, new

\* What a search finds: occurrences, apart and in their order, and none is missed
\* but those that overlap an earlier one.
LEMMA FoundInText ==
    ASSUME NEW C, NEW s \in Seq(C), NEW q \in Seq(C), OneLine(q), Len(q) >= 1
    PROVE  TextOf(FindMatches(s, q), s, q, Len(LineStarts(s)))
  <1> DEFINE N == Len(LineStarts(s))
  <1>1. PICK f : MatchesGo(f, s, q) /\ FindMatches(s, q) = f[N]
    BY MatchesStep
  <1> DEFINE T == {n \in 0 .. N : TextOf(f[n], s, q, n)}
  <1>2. N \in Nat /\ LineStarts(s)[1] = 0 /\ N >= 1
    <2>1. Len(s) \in Nat
      OBVIOUS
    <2> QED
      BY <2>1, StartsAre DEF StartsOf
  <1>3. /\ f[0] = << >>
        /\ \A n \in 1 .. N : f[n] = f[n - 1] \o MatchesOf(s, n, q)
    <2>1. \A k \in 0 .. N : f[k] = IF k = 0 THEN << >> ELSE f[k - 1] \o MatchesOf(s, k, q)
      BY <1>1 DEF MatchesGo
    <2> HIDE DEF N
    <2>2. 0 \in 0 .. N /\ \A n \in 1 .. N : n \in 0 .. N /\ n # 0
      BY <1>2
    <2> QED
      BY <2>1, <2>2
  <1>4. 0 \in T
    <2>1. Reach(s, 0) = 0
      BY <1>2 DEF Reach
    <2>2. TextOf(<< >>, s, q, 0)
      BY <2>1 DEF TextOf
    <2> HIDE DEF N
    <2> QED
      BY <1>2, <1>3, <2>2
  <1>5. ASSUME NEW n \in 1 .. N, n - 1 \in T PROVE n \in T
    <2>1. TextOf(f[n - 1], s, q, n - 1) /\ n \in 0 .. N
      BY <1>2, <1>5
    <2>2. TextOf(f[n - 1] \o MatchesOf(s, n, q), s, q, n)
      BY <2>1, TextGrows
    <2> QED
      BY <1>3, <2>1, <2>2
  <1> HIDE DEF T, N
  <1>6. \A n \in 0 .. N : n \in T
    <2>1. \A n \in 1 .. N : n - 1 \in T => n \in T
      BY <1>5
    <2> QED
      BY <1>2, <1>4, <2>1, Climb
  <1> QED
    BY <1>1, <1>2, <1>6 DEF T, N

-----------------------------------------------------------------------------
(* The matches in the text as a whole, and the places where they are       *)

TextRange == {x \in [from : Nat, to : Nat] : x.from <= x.to}

Ranged(x, s, m) ==
    IF m.line <= Len(LineStarts(s)) THEN Append(x, Absolute(LineStarts(s), m)) ELSE x

RangesGo(f, s, ms) ==
    f = [n \in 0 .. Len(ms) |-> IF n = 0 THEN << >> ELSE Ranged(f[n - 1], s, ms[n])]

InText(s, ms) ==
    ms \in Seq(FoundMatch) /\ \A i \in 1 .. Len(ms) : ms[i].line \in 1 .. Len(LineStarts(s))

LEMMA AbsoluteIs ==
    ASSUME NEW C, NEW s \in Seq(C), NEW m \in FoundMatch, m.line \in 1 .. Len(LineStarts(s))
    PROVE  /\ Absolute(LineStarts(s), m) \in TextRange /\ AbsAt(s, m) \in Nat
           /\ Absolute(LineStarts(s), m).from = AbsAt(s, m)
           /\ m.to \in Nat /\ m.from \in Nat
           /\ \A d \in Nat : m.to = m.from + d =>
                  Absolute(LineStarts(s), m).to = AbsAt(s, m) + d
  <1> DEFINE b == LineStarts(s)[m.line]
  <1>1. b \in Nat
    BY LineIs
  <1>2. Absolute(LineStarts(s), m) = [from |-> b + m.from, to |-> b + m.to]
    BY DEF Absolute
  <1>3. AbsAt(s, m) = b + m.from
    BY DEF AbsAt
  <1>4. m.from \in Nat /\ m.to \in Nat
    BY DEF FoundMatch
  <1> HIDE DEF b
  <1>5. ASSUME NEW d \in Nat, m.to = m.from + d PROVE b + m.to = b + m.from + d
    BY <1>1, <1>4, <1>5
  <1>6. m.from <= m.to
    BY DEF FoundMatch
  <1>7. b + m.from <= b + m.to /\ b + m.from \in Nat /\ b + m.to \in Nat
    BY <1>1, <1>4, <1>6
  <1> QED
    BY <1>1, <1>2, <1>3, <1>4, <1>5, <1>7 DEF TextRange

LEMMA RangesStep ==
    ASSUME NEW C, NEW s \in Seq(C), NEW ms \in Seq(FoundMatch)
    PROVE  /\ \E f : RangesGo(f, s, ms) /\ Ranges(s, ms) = f[Len(ms)]
           /\ Ranges(s, ms) \in Seq(TextRange)
  <1> DEFINE N == Len(ms)
             V == Seq(TextRange)
             G == [n \in 1 .. N |-> [x \in V |-> Ranged(x, s, ms[n])]]
             p == CHOOSE g : RangesGo(g, s, ms)
  <1>1. G \in [1 .. N -> [V -> V]]
    <2>1. \A n \in 1 .. N : ms[n] \in FoundMatch /\ ms[n].line \in Nat \ {0}
      BY DEF FoundMatch
    <2>2. Len(LineStarts(s)) \in Nat
      <3>1. Len(s) \in Nat
        OBVIOUS
      <3> QED
        BY <3>1, StartsAre DEF StartsOf
    <2>3. \A n \in 1 .. N : ms[n].line <= Len(LineStarts(s)) =>
              Absolute(LineStarts(s), ms[n]) \in TextRange
      BY <2>1, <2>2, AbsoluteIs
    <2>4. \A n \in 1 .. N, x \in V : Ranged(x, s, ms[n]) \in V
      BY <2>3 DEF Ranged
    <2> QED
      BY <2>4
  <1>2. \A n \in 1 .. N, x \in V : G[n][x] = Ranged(x, s, ms[n])
    OBVIOUS
  <1>3. << >> \in V /\ N \in Nat
    OBVIOUS
  <1> HIDE DEF N, V, G
  <1>4. PICK f \in [0 .. N -> V] : Goes(f, N, << >>, G)
    BY <1>1, <1>3, StepsExist
  <1>5. RangesGo(f, s, ms)
    <2>1. f = [n \in 0 .. N |-> f[n]]
      BY <1>4
    <2>2. ASSUME NEW n \in 0 .. N
          PROVE  f[n] = IF n = 0 THEN << >> ELSE Ranged(f[n - 1], s, ms[n])
      <3>1. CASE n = 0
        BY <1>4, <3>1 DEF Goes
      <3>2. CASE n # 0
        <4>1. n \in 1 .. N /\ n - 1 \in 0 .. N
          BY <1>3, <3>2
        <4>2. f[n] = G[n][f[n - 1]] /\ f[n - 1] \in V
          BY <1>4, <4>1 DEF Goes
        <4> QED
          BY <1>2, <3>2, <4>1, <4>2
      <3> QED
        BY <3>1, <3>2
    <2> QED
      BY <2>1, <2>2 DEF RangesGo, N
  <1>6. RangesGo(p, s, ms)
    BY <1>5
  <1>7. Ranges(s, ms) = p[Len(ms)]
    BY DEF Ranges, RangesGo, Ranged
  <1>8. p[N] \in V
    <2> HIDE DEF p
    <2>1. \A n \in 0 .. N : p[n] = IF n = 0 THEN << >> ELSE Ranged(p[n - 1], s, ms[n])
      BY <1>6 DEF RangesGo, N
    <2>2. 0 \in 0 .. N /\ N \in 0 .. N /\ \A n \in 1 .. N : n \in 0 .. N /\ n # 0
      BY <1>3
    <2>3. p[0] = << >> /\ \A n \in 1 .. N : p[n - 1] \in V => p[n] = G[n][p[n - 1]]
      BY <1>2, <2>1, <2>2
    <2>4. p[0] = << >>
      BY <2>3
    <2>5. \A n \in 1 .. N : p[n - 1] \in V => p[n] = G[n][p[n - 1]]
      BY <2>3
    <2>6. \A n \in 0 .. N : p[n] = f[n] /\ p[n] \in V
      <3>1. Follows(p, N, V, << >>, G)
        BY <2>4, <2>5 DEF Follows
      <3> QED
        BY <1>3, <1>4, <3>1, SameSteps
    <2> QED
      BY <2>2, <2>6
  <1> QED
    BY <1>6, <1>7, <1>8 DEF V, N

\* Matches on lines that are there have their ranges in their order.
LEMMA RangesAre ==
    ASSUME NEW C, NEW s \in Seq(C), NEW ms, InText(s, ms)
    PROVE  /\ Ranges(s, ms) \in Seq(TextRange) /\ Len(Ranges(s, ms)) = Len(ms)
           /\ \A i \in 1 .. Len(ms) : Ranges(s, ms)[i] = Absolute(LineStarts(s), ms[i])
  <1> DEFINE N == Len(ms)
             Ok(x, n) == /\ x \in Seq(TextRange) /\ Len(x) = n
                         /\ \A i \in 1 .. n : x[i] = Absolute(LineStarts(s), ms[i])
  <1>1. PICK f : RangesGo(f, s, ms) /\ Ranges(s, ms) = f[N]
    BY RangesStep DEF InText
  <1> DEFINE T == {n \in 0 .. N : Ok(f[n], n)}
  <1>2. N \in Nat
    BY DEF InText
  <1>3. /\ f[0] = << >>
        /\ \A n \in 1 .. N : f[n] = Ranged(f[n - 1], s, ms[n])
    <2>1. \A n \in 0 .. N : f[n] = IF n = 0 THEN << >> ELSE Ranged(f[n - 1], s, ms[n])
      BY <1>1 DEF RangesGo
    <2> HIDE DEF N
    <2>2. 0 \in 0 .. N /\ \A n \in 1 .. N : n \in 0 .. N /\ n # 0
      BY <1>2
    <2> QED
      BY <2>1, <2>2
  <1>4. 0 \in T
    <2>1. Ok(<< >>, 0)
      OBVIOUS
    <2> HIDE DEF N, Ok
    <2> QED
      BY <1>2, <1>3, <2>1
  <1>5. ASSUME NEW n \in 1 .. N, n - 1 \in T PROVE n \in T
    <2> DEFINE x == f[n - 1]
               a == Absolute(LineStarts(s), ms[n])
    <2>1. /\ x \in Seq(TextRange) /\ Len(x) = n - 1
          /\ \A i \in 1 .. n - 1 : x[i] = Absolute(LineStarts(s), ms[i])
      BY <1>5
    <2>2. ms[n] \in FoundMatch /\ ms[n].line \in 1 .. Len(LineStarts(s))
      BY DEF InText
    <2>3. ms[n].line <= Len(LineStarts(s)) /\ a \in TextRange
      BY <2>2, AbsoluteIs
    <2>4. f[n] = Append(x, a)
      BY <1>3, <2>3 DEF Ranged
    <2> HIDE DEF x, a
    <2>5. n \in Nat /\ n >= 1 /\ n \in 0 .. N
      BY <1>2
    <2>6. Append(x, a) \in Seq(TextRange) /\ Len(Append(x, a)) = n
      BY <2>1, <2>3, <2>5
    <2>7. ASSUME NEW i \in 1 .. n PROVE Append(x, a)[i] = Absolute(LineStarts(s), ms[i])
      <3>1. CASE i = n
        BY <2>1, <2>5, <3>1 DEF a
      <3>2. CASE i # n
        <4>1. i \in 1 .. n - 1
          BY <2>5, <3>2
        <4> QED
          BY <2>1, <4>1
      <3> QED
        BY <3>1, <3>2
    <2>8. Ok(f[n], n)
      BY <2>4, <2>6, <2>7
    <2> QED
      BY <2>5, <2>8
  <1> HIDE DEF T, N, Ok
  <1>6. \A n \in 0 .. N : n \in T
    <2>1. \A n \in 1 .. N : n - 1 \in T => n \in T
      BY <1>5
    <2> QED
      BY <1>2, <1>4, <2>1, Climb
  <1>7. Ok(f[N], N)
    BY <1>2, <1>6 DEF T
  <1> QED
    BY <1>1, <1>7 DEF N, Ok

\* What counts, by definition.
Counts(S, s, q) ==
    \A i \in 1 .. Len(s) :
        i \in S <=> Occurs(s, q, i) /\ \A j \in S : j < i => j + Len(q) <= i

\* An occurrence counts or not according to what is in front of it, so one set does.
LEMMA CountedOnce ==
    ASSUME NEW s, Len(s) \in Nat, NEW q,
           NEW S \in SUBSET (1 .. Len(s)), NEW R \in SUBSET (1 .. Len(s)),
           Counts(S, s, q), Counts(R, s, q)
    PROVE  S = R
  <1> DEFINE odd == {i \in 1 .. Len(s) : i \in S <=> i \notin R}
  <1> SUFFICES ASSUME odd # {} PROVE FALSE
    OBVIOUS
  <1>1. odd \in SUBSET Nat
    OBVIOUS
  <1>2. PICK m \in odd : \A k \in odd : m <= k
    BY <1>1, LeastOf
  <1>3. m \in 1 .. Len(s) /\ (m \in S <=> m \notin R)
    OBVIOUS
  <1>4. \A j \in 1 .. Len(s) : j < m => (j \in S <=> j \in R)
    <2> SUFFICES ASSUME NEW j \in 1 .. Len(s), j < m, ~(j \in S <=> j \in R) PROVE FALSE
      OBVIOUS
    <2>1. j \in odd
      OBVIOUS
    <2> QED
      BY <1>2, <1>3, <2>1
  <1> HIDE DEF odd
  <1>5. (\A j \in S : j < m => j + Len(q) <= m) <=> (\A j \in R : j < m => j + Len(q) <= m)
    BY <1>4
  <1>6. m \in S <=> Occurs(s, q, m) /\ \A j \in S : j < m => j + Len(q) <= m
    BY <1>3 DEF Counts
  <1>7. m \in R <=> Occurs(s, q, m) /\ \A j \in R : j < m => j + Len(q) <= m
    BY <1>3 DEF Counts
  <1> QED
    BY <1>3, <1>5, <1>6, <1>7

\* The places of matches.
PlacesOf(s, M) == {AbsAt(s, M[i]) + 1 : i \in 1 .. Len(M)}

LEMMA PlacesAre ==
    ASSUME NEW C, NEW s \in Seq(C), NEW q \in Seq(C), OneLine(q), Len(q) >= 1
    PROVE  Places(s, q) = PlacesOf(s, FindMatches(s, q))
  <1> DEFINE K == Len(LineStarts(s))
             M == FindMatches(s, q)
             L == Len(q)
             m == Len(M)
             S == PlacesOf(s, M)
             At(i) == AbsAt(s, M[i])
  <1>1. TextOf(M, s, q, K)
    BY FoundInText
  <1>2. Len(s) \in Nat /\ L \in Nat /\ L >= 1
    OBVIOUS
  <1>3. K \in Nat /\ Reach(s, K) = Len(s)
    BY <1>2, StartsAre DEF StartsOf, Reach
  <1> HIDE DEF M, K
  <1>4. M \in Seq(FoundMatch) /\ m \in Nat
    BY <1>1 DEF TextOf
  <1>5. ASSUME NEW i \in 1 .. m
        PROVE  /\ At(i) \in Nat /\ At(i) + L <= Len(s) /\ Occurs(s, q, At(i) + 1)
    <2>1. M[i] \in FoundMatch
      BY <1>4
    <2>2. /\ M[i].line \in 1 .. Len(LineStarts(s))
          /\ AbsAt(s, M[i]) + L <= Reach(s, K) /\ Occurs(s, q, AbsAt(s, M[i]) + 1)
      BY <1>1 DEF TextOf
    <2>3. AbsAt(s, M[i]) \in Nat
      BY <2>1, <2>2, AbsoluteIs
    <2> QED
      BY <1>3, <2>2, <2>3
  <1>6. \A i, j \in 1 .. m : i < j => At(i) + L <= At(j)
    BY <1>1 DEF TextOf
  <1>7. \A p \in Nat : p < Len(s) /\ Occurs(s, q, p + 1) =>
            \E i \in 1 .. m : At(i) <= p /\ p < At(i) + L
    <2>1. \A p \in Nat : p < Reach(s, K) /\ Occurs(s, q, p + 1) =>
            \E i \in 1 .. m : At(i) <= p /\ p < At(i) + L
      BY <1>1 DEF TextOf
    <2> QED
      BY <1>3, <2>1
  <1>8. /\ \A x \in S : \E i \in 1 .. m : x = At(i) + 1
        /\ \A i \in 1 .. m : At(i) + 1 \in S
    BY DEF PlacesOf
  <1> HIDE DEF S, At, L, m
  <1>9. S \in SUBSET (1 .. Len(s))
    <2> SUFFICES ASSUME NEW x \in S PROVE x \in 1 .. Len(s)
      OBVIOUS
    <2>1. PICK i \in 1 .. m : x = At(i) + 1
      BY <1>8
    <2>2. At(i) \in Nat /\ At(i) + L <= Len(s)
      BY <1>5
    <2> QED
      BY <1>2, <2>1, <2>2
  <1>10. ASSUME NEW x \in 1 .. Len(s)
         PROVE  x \in S <=> Occurs(s, q, x) /\ \A y \in S : y < x => y + L <= x
    <2>1. ASSUME x \in S PROVE Occurs(s, q, x) /\ \A y \in S : y < x => y + L <= x
      <3>1. PICK i \in 1 .. m : x = At(i) + 1
        BY <1>8, <2>1
      <3>2. Occurs(s, q, x) /\ At(i) \in Nat
        BY <1>5, <3>1
      <3>3. ASSUME NEW y \in S, y < x PROVE y + L <= x
        <4>1. PICK j \in 1 .. m : y = At(j) + 1
          BY <1>8
        <4>2. At(j) \in Nat /\ At(j) < At(i)
          BY <1>5, <3>1, <3>2, <3>3, <4>1
        <4>3. ~(i < j)
          <5>1. i < j => At(i) + L <= At(j)
            BY <1>6
          <5> QED
            BY <1>2, <3>2, <4>2, <5>1
        <4>4. i # j
          BY <3>2, <4>2
        <4>5. j < i
          BY <1>4, <4>3, <4>4
        <4>6. At(j) + L <= At(i)
          BY <1>6, <4>5
        <4> QED
          BY <1>2, <3>1, <3>2, <4>1, <4>2, <4>6
      <3> QED
        BY <3>2, <3>3
    <2>2. ASSUME Occurs(s, q, x), \A y \in S : y < x => y + L <= x PROVE x \in S
      <3>1. x - 1 \in Nat /\ x - 1 < Len(s) /\ (x - 1) + 1 = x
        BY <1>2
      <3>2. PICK i \in 1 .. m : At(i) <= x - 1 /\ x - 1 < At(i) + L
        BY <1>7, <2>2, <3>1
      <3>3. At(i) \in Nat /\ At(i) + 1 \in S
        BY <1>5, <1>8
      <3>4. At(i) + 1 < x => At(i) + 1 + L <= x
        BY <2>2, <3>3
      <3>5. ~(At(i) + 1 < x)
        BY <1>2, <3>1, <3>2, <3>3, <3>4
      <3>6. x = At(i) + 1
        BY <3>1, <3>2, <3>3, <3>5
      <3> QED
        BY <3>3, <3>6
    <2> QED
      BY <2>1, <2>2
  <1>11. Counts(S, s, q)
    BY <1>10 DEF Counts, L
  <1>12. q # << >>
    BY <1>2 DEF L
  <1>13. Places(s, q) = CHOOSE R \in SUBSET (1 .. Len(s)) : Counts(R, s, q)
    BY <1>12 DEF Places, Counts
  <1>14. \E R \in SUBSET (1 .. Len(s)) : Counts(R, s, q)
    BY <1>9, <1>11
  <1>15. Places(s, q) \in SUBSET (1 .. Len(s)) /\ Counts(Places(s, q), s, q)
    BY <1>13, <1>14
  <1>16. Places(s, q) = S
    BY <1>2, <1>9, <1>11, <1>15, CountedOnce
  <1> QED
    BY <1>16 DEF S, M

-----------------------------------------------------------------------------
(* The ranges from the right                                               *)

Inserted(x, c, e, n) == SubSeq(x, 1, c) \o <<e>> \o SubSeq(x, c + 1, n - 1)
Put(x, rs, n) ==
    Inserted(x, Cardinality({i \in 1 .. n - 1 : x[i].from >= rs[n].from}), rs[n], n)

\* y is x with an element more; if that came first, the others follow.
Longer(y, x, c, e, n, V) ==
    /\ y \in Seq(V) /\ Len(y) = n
    /\ c = 0 => y[1] = e /\ \A i \in 1 .. n - 1 : y[i + 1] = x[i]

LEMMA InsertIs ==
    ASSUME NEW V, NEW x \in Seq(V), NEW e \in V, NEW n \in Nat, Len(x) = n - 1,
           NEW c \in 0 .. n - 1
    PROVE  Longer(Inserted(x, c, e, n), x, c, e, n, V)
  <1> DEFINE a == SubSeq(x, 1, c)
             b == SubSeq(x, c + 1, n - 1)
             d == a \o <<e>>
  <1>1. c \in Nat /\ Len(x) \in Nat /\ c <= Len(x) /\ n - 1 = Len(x) /\ n = Len(x) + 1
    OBVIOUS
  <1>2. Inserted(x, c, e, n) = d \o b
    BY DEF Inserted
  <1>3. a \in Seq(V) /\ Len(a) = c
    BY <1>1
  <1>4. /\ b \in Seq(V) /\ Len(b) = Len(x) - c
        /\ c = 0 => \A i \in 1 .. n - 1 : b[i] = x[i]
    BY <1>1
  <1> HIDE DEF a, b
  <1>5. d \in Seq(V) /\ Len(d) = c + 1
    BY <1>1, <1>3
  <1>6. c = 0 => d[1] = e
    BY <1>3
  <1> HIDE DEF d
  <1>7. d \in Seq(V) /\ Len(d) = c + 1 /\ (c = 0 => d[1] = e)
    BY <1>5, <1>6
  <1>8. /\ d \o b \in Seq(V) /\ Len(d \o b) = n
        /\ c = 0 => /\ (d \o b)[1] = e
                    /\ \A i \in 1 .. n - 1 : (d \o b)[i + 1] = x[i]
    <2>1. d \o b \in Seq(V)
      BY <1>4, <1>7
    <2>2. Len(d \o b) = n
      BY <1>1, <1>4, <1>7
    <2>3. ASSUME c = 0 PROVE (d \o b)[1] = e
      <3>1. \A i \in 1 .. Len(d) : (d \o b)[i] = d[i]
        BY <1>4, <1>7, Joined
      <3>2. 1 \in 1 .. Len(d)
        BY <1>7, <2>3
      <3> QED
        BY <1>7, <2>3, <3>1, <3>2
    <2>4. ASSUME c = 0, NEW i \in 1 .. n - 1 PROVE (d \o b)[i + 1] = x[i]
      <3>1. \A j \in 1 .. Len(b) : (d \o b)[Len(d) + j] = b[j]
        BY <1>4, <1>7, Joined
      <3>2. Len(d) = 1 /\ i \in 1 .. Len(b) /\ 1 + i = i + 1 /\ b[i] = x[i]
        BY <1>1, <1>4, <1>7, <2>4
      <3> QED
        BY <3>1, <3>2
    <2> QED
      BY <2>1, <2>2, <2>3, <2>4
  <1> QED
    BY <1>2, <1>8 DEF d, Longer

LEMMA PutIs ==
    ASSUME NEW rs \in Seq(TextRange), NEW n \in 1 .. Len(rs),
           NEW x \in Seq(TextRange), Len(x) = n - 1
    PROVE  /\ Put(x, rs, n) \in Seq(TextRange) /\ Len(Put(x, rs, n)) = n
           /\ (\A i \in 1 .. n - 1 : x[i].from < rs[n].from) =>
                  /\ Put(x, rs, n)[1] = rs[n]
                  /\ \A i \in 1 .. n - 1 : Put(x, rs, n)[i + 1] = x[i]
  <1> DEFINE before == {i \in 1 .. n - 1 : x[i].from >= rs[n].from}
             c == Cardinality(before)
  <1>1. n \in Nat /\ n >= 1 /\ rs[n] \in TextRange
    OBVIOUS
  <1>2. IsFiniteSet(1 .. n - 1) /\ Cardinality(1 .. n - 1) = n - 1
    <2>1. n - 1 \in Int /\ 1 \in Int /\ (IF 1 > n - 1 THEN 0 ELSE n - 1 - 1 + 1) = n - 1
      BY <1>1
    <2>2. IsFiniteSet(1 .. n - 1) /\ Cardinality(1 .. n - 1) = IF 1 > n - 1 THEN 0 ELSE n - 1 - 1 + 1
      BY <2>1, FS_Interval
    <2> QED
      BY <2>1, <2>2
  <1>3. before \subseteq 1 .. n - 1
    OBVIOUS
  <1>4. c \in 0 .. n - 1
    <2> HIDE DEF before
    <2>1. IsFiniteSet(before) /\ Cardinality(before) <= n - 1
      BY <1>2, <1>3, FS_Subset
    <2>2. Cardinality(before) \in Nat
      BY <2>1, FS_CardinalityType
    <2> QED
      BY <2>1, <2>2
  <1>5. ASSUME \A i \in 1 .. n - 1 : x[i].from < rs[n].from PROVE c = 0
    <2>1. rs[n].from \in Nat
      BY <1>1 DEF TextRange
    <2>2. \A i \in 1 .. n - 1 : x[i].from \in Nat
      <3>1. \A i \in 1 .. n - 1 : x[i] \in TextRange
        BY <1>1
      <3> QED
        BY <3>1 DEF TextRange
    <2>3. before = {}
      BY <1>5, <2>1, <2>2
    <2> QED
      BY <2>3, FS_EmptySet
  <1>6. Put(x, rs, n) = Inserted(x, c, rs[n], n)
    BY DEF Put
  <1> HIDE DEF c
  <1> DEFINE V == TextRange
             e == rs[n]
  <1>7. x \in Seq(V) /\ e \in V
    BY <1>1
  <1> HIDE DEF V, e
  <1>8. Longer(Inserted(x, c, e, n), x, c, e, n, V)
    <2>1. n \in Nat /\ Len(x) = n - 1 /\ c \in 0 .. n - 1
      BY <1>1, <1>4
    <2> QED
      BY <1>7, <2>1, InsertIs
  <1>9. Put(x, rs, n) = Inserted(x, c, e, n)
    BY <1>6 DEF e
  <1> QED
    <2>1. Longer(Put(x, rs, n), x, c, e, n, V)
      BY <1>8, <1>9
    <2> QED
      BY <1>5, <2>1 DEF V, e, Longer

RightGo(f, rs) ==
    f = [n \in 0 .. Len(rs) |-> IF n = 0 THEN << >> ELSE Put(f[n - 1], rs, n)]

LEMMA RightStep ==
    ASSUME NEW rs \in Seq(TextRange)
    PROVE  \E f : RightGo(f, rs) /\ FromTheRight(rs) = f[Len(rs)]
  <1> DEFINE N == Len(rs)
             V == Seq(TextRange)
             G == [n \in 1 .. N |->
                      [x \in V |-> IF Len(x) = n - 1 THEN Put(x, rs, n) ELSE x]]
             p == CHOOSE g : RightGo(g, rs)
  <1>1. G \in [1 .. N -> [V -> V]]
    <2>1. \A n \in 1 .. N, x \in V : Len(x) = n - 1 => Put(x, rs, n) \in V
      BY PutIs
    <2> QED
      BY <2>1
  <1>2. \A n \in 1 .. N, x \in V : Len(x) = n - 1 => G[n][x] = Put(x, rs, n) /\ Len(Put(x, rs, n)) = n
    BY PutIs
  <1>3. << >> \in V /\ N \in Nat /\ Len(<< >>) = 0
    OBVIOUS
  <1> HIDE DEF N, V, G
  <1>4. PICK f \in [0 .. N -> V] : Goes(f, N, << >>, G)
    BY <1>1, <1>3, StepsExist
  <1>5. \A n \in 0 .. N : Len(f[n]) = n
    <2> DEFINE T == {n \in 0 .. N : Len(f[n]) = n}
    <2>1. 0 \in T
      BY <1>3, <1>4 DEF Goes
    <2>2. ASSUME NEW n \in 1 .. N, n - 1 \in T PROVE n \in T
      <3>1. Len(f[n - 1]) = n - 1 /\ n - 1 \in 0 .. N /\ n \in 0 .. N
        BY <1>3, <2>2
      <3>2. f[n] = G[n][f[n - 1]] /\ f[n - 1] \in V
        BY <1>4, <3>1 DEF Goes
      <3> QED
        BY <1>2, <3>1, <3>2
    <2>3. \A n \in 1 .. N : n - 1 \in T => n \in T
      BY <2>2
    <2> HIDE DEF T
    <2>4. \A n \in 0 .. N : n \in T
      BY <1>3, <2>1, <2>3, Climb
    <2> QED
      BY <2>4 DEF T
  <1>6. RightGo(f, rs)
    <2>1. f = [n \in 0 .. N |-> f[n]]
      BY <1>4
    <2>2. ASSUME NEW n \in 0 .. N
          PROVE  f[n] = IF n = 0 THEN << >> ELSE Put(f[n - 1], rs, n)
      <3>1. CASE n = 0
        BY <1>4, <3>1 DEF Goes
      <3>2. CASE n # 0
        <4>1. n \in 1 .. N /\ n - 1 \in 0 .. N
          BY <1>3, <3>2
        <4>2. f[n] = G[n][f[n - 1]] /\ f[n - 1] \in V /\ Len(f[n - 1]) = n - 1
          BY <1>4, <1>5, <4>1 DEF Goes
        <4> QED
          BY <1>2, <3>2, <4>1, <4>2
      <3> QED
        BY <3>1, <3>2
    <2> QED
      BY <2>1, <2>2 DEF RightGo, N
  <1>7. RightGo(p, rs)
    BY <1>6
  <1>8. FromTheRight(rs) = p[Len(rs)]
    BY DEF FromTheRight, RightGo, Put, Inserted
  <1> QED
    BY <1>7, <1>8

\* Sorting loses no range; ranges that were found from the left get turned round.
Ascending(rs) == \A i, j \in 1 .. Len(rs) : i < j => rs[i].from < rs[j].from

LEMMA RightIs ==
    ASSUME NEW rs \in Seq(TextRange)
    PROVE  /\ FromTheRight(rs) \in Seq(TextRange) /\ Len(FromTheRight(rs)) = Len(rs)
           /\ Ascending(rs) =>
                  \A i \in 1 .. Len(rs) : FromTheRight(rs)[i] = rs[Len(rs) + 1 - i]
  <1> DEFINE N == Len(rs)
             Ok(x, n) == /\ x \in Seq(TextRange) /\ Len(x) = n
                         /\ Ascending(rs) => \A i \in 1 .. n : x[i] = rs[n + 1 - i]
  <1>1. PICK f : RightGo(f, rs) /\ FromTheRight(rs) = f[N]
    BY RightStep
  <1> DEFINE T == {n \in 0 .. N : Ok(f[n], n)}
  <1>2. N \in Nat
    OBVIOUS
  <1>3. /\ f[0] = << >>
        /\ \A n \in 1 .. N : f[n] = Put(f[n - 1], rs, n)
    <2>1. \A n \in 0 .. N : f[n] = IF n = 0 THEN << >> ELSE Put(f[n - 1], rs, n)
      BY <1>1 DEF RightGo
    <2> HIDE DEF N
    <2>2. 0 \in 0 .. N /\ \A n \in 1 .. N : n \in 0 .. N /\ n # 0
      BY <1>2
    <2> QED
      BY <2>1, <2>2
  <1>4. 0 \in T
    <2>1. Ok(<< >>, 0)
      OBVIOUS
    <2> HIDE DEF N, Ok
    <2> QED
      BY <1>2, <1>3, <2>1
  <1>5. ASSUME NEW n \in 1 .. N, n - 1 \in T PROVE n \in T
    <2> DEFINE x == f[n - 1]
               y == Put(x, rs, n)
    <2>1. /\ x \in Seq(TextRange) /\ Len(x) = n - 1
          /\ Ascending(rs) => \A i \in 1 .. n - 1 : x[i] = rs[n - 1 + 1 - i]
      BY <1>5
    <2>2. n \in Nat /\ n >= 1 /\ n \in 0 .. N /\ n <= N
      BY <1>2
    <2>3. f[n] = y
      BY <1>3
    <2> HIDE DEF x
    <2>4. /\ y \in Seq(TextRange) /\ Len(y) = n
          /\ (\A i \in 1 .. n - 1 : x[i].from < rs[n].from) =>
                /\ y[1] = rs[n] /\ \A i \in 1 .. n - 1 : y[i + 1] = x[i]
      BY <2>1, PutIs
    <2> HIDE DEF y
    <2>5. ASSUME Ascending(rs) PROVE \A i \in 1 .. n : y[i] = rs[n + 1 - i]
      <3>1. ASSUME NEW i \in 1 .. n - 1
            PROVE  x[i] = rs[n - i] /\ x[i].from < rs[n].from
        <4>1. n - 1 + 1 - i = n - i /\ n - i \in 1 .. Len(rs) /\ n - i < n
          BY <2>2
        <4>2. x[i] = rs[n - i]
          BY <2>1, <2>5, <4>1
        <4>3. rs[n - i].from < rs[n].from
          BY <2>5, <4>1 DEF Ascending
        <4> QED
          BY <4>2, <4>3
      <3>2. y[1] = rs[n] /\ \A i \in 1 .. n - 1 : y[i + 1] = x[i]
        BY <2>4, <3>1
      <3> SUFFICES ASSUME NEW i \in 1 .. n PROVE y[i] = rs[n + 1 - i]
        OBVIOUS
      <3>3. CASE i = 1
        <4>1. n + 1 - 1 = n
          BY <2>2
        <4> QED
          BY <3>2, <3>3, <4>1
      <3>4. CASE i # 1
        <4>1. i - 1 \in 1 .. n - 1 /\ (i - 1) + 1 = i /\ n - (i - 1) = n + 1 - i
          BY <2>2, <3>4
        <4>2. y[(i - 1) + 1] = x[i - 1] /\ x[i - 1] = rs[n - (i - 1)]
          BY <3>1, <3>2, <4>1
        <4> QED
          BY <4>1, <4>2
      <3> QED
        BY <3>3, <3>4
    <2>6. Ok(f[n], n)
      BY <2>3, <2>4, <2>5
    <2> QED
      BY <2>2, <2>6
  <1> HIDE DEF T, N, Ok
  <1>6. \A n \in 0 .. N : n \in T
    <2>1. \A n \in 1 .. N : n - 1 \in T => n \in T
      BY <1>5
    <2> QED
      BY <1>2, <1>4, <2>1, Climb
  <1>7. Ok(f[N], N)
    BY <1>2, <1>6 DEF T
  <1> QED
    BY <1>1, <1>7 DEF N, Ok

-----------------------------------------------------------------------------
(* Texts with ranges replaced                                              *)

LEMMA SpliceIs ==
    ASSUME NEW C, NEW s \in Seq(C), NEW r \in Seq(C), NEW x \in TextRange
    PROVE  Splice(s, x, r) \in Seq(C)
  <1>1. x.from \in Nat /\ x.to \in Nat /\ x.from <= x.to
    BY DEF TextRange
  <1>2. CASE x.to <= Len(s)
    <2> DEFINE u == SubSeq(s, 1, x.from)
               v == SubSeq(s, x.to + 1, Len(s))
    <2>1. u \in Seq(C)
      BY <1>1, <1>2
    <2>2. v \in Seq(C)
      BY <1>1, <1>2
    <2>3. Splice(s, x, r) = u \o r \o v
      BY <1>2 DEF Splice, Spliced
    <2> HIDE DEF u, v
    <2> QED
      BY <2>1, <2>2, <2>3
  <1>3. CASE ~(x.to <= Len(s))
    BY <1>3 DEF Splice
  <1> QED
    BY <1>2, <1>3

SplicesGo(f, s, rs, r) ==
    f = [n \in 0 .. Len(rs) |-> IF n = 0 THEN s ELSE Splice(f[n - 1], rs[n], r)]

\* The texts a replacement goes through, one range after the other.
LEMMA SplicesAre ==
    ASSUME NEW C, NEW s \in Seq(C), NEW r \in Seq(C), NEW rs \in Seq(TextRange)
    PROVE  \E f \in [0 .. Len(rs) -> Seq(C)] :
               /\ f[0] = s /\ Replaced(s, rs, r) = f[Len(rs)]
               /\ \A n \in 1 .. Len(rs) : f[n] = Splice(f[n - 1], rs[n], r)
  <1> DEFINE N == Len(rs)
             V == Seq(C)
             G == [n \in 1 .. N |-> [x \in V |-> Splice(x, rs[n], r)]]
             p == CHOOSE g : SplicesGo(g, s, rs, r)
  <1>1. G \in [1 .. N -> [V -> V]]
    <2>1. \A n \in 1 .. N : rs[n] \in TextRange
      OBVIOUS
    <2>2. \A n \in 1 .. N, x \in V : Splice(x, rs[n], r) \in V
      BY <2>1, SpliceIs
    <2> QED
      BY <2>2
  <1>2. \A n \in 1 .. N, x \in V : G[n][x] = Splice(x, rs[n], r)
    OBVIOUS
  <1>3. s \in V /\ N \in Nat
    OBVIOUS
  <1> HIDE DEF N, V, G
  <1>4. PICK f \in [0 .. N -> V] : Goes(f, N, s, G)
    BY <1>1, <1>3, StepsExist
  <1>5. \A n \in 1 .. N : f[n] = Splice(f[n - 1], rs[n], r)
    <2> SUFFICES ASSUME NEW n \in 1 .. N PROVE f[n] = Splice(f[n - 1], rs[n], r)
      OBVIOUS
    <2>1. f[n] = G[n][f[n - 1]] /\ f[n - 1] \in V
      <3>1. n - 1 \in 0 .. N
        BY <1>3
      <3> QED
        BY <1>4, <3>1 DEF Goes
    <2> QED
      BY <1>2, <2>1
  <1>6. f[0] = s
    BY <1>4 DEF Goes
  <1>7. SplicesGo(f, s, rs, r)
    <2>1. f = [n \in 0 .. N |-> f[n]]
      BY <1>4
    <2>2. ASSUME NEW n \in 0 .. N
          PROVE  f[n] = IF n = 0 THEN s ELSE Splice(f[n - 1], rs[n], r)
      <3>1. n = 0 \/ n \in 1 .. N
        BY <1>3
      <3> QED
        BY <1>5, <1>6, <3>1
    <2> QED
      BY <2>1, <2>2 DEF SplicesGo, N
  <1>8. SplicesGo(p, s, rs, r)
    BY <1>7
  <1>9. Replaced(s, rs, r) = p[N]
    BY DEF Replaced, SplicesGo, N
  <1>10. \A n \in 0 .. N : p[n] = f[n] /\ p[n] \in V
    <2> HIDE DEF p
    <2>1. \A n \in 0 .. N : p[n] = IF n = 0 THEN s ELSE Splice(p[n - 1], rs[n], r)
      BY <1>8 DEF SplicesGo, N
    <2>2. 0 \in 0 .. N /\ \A n \in 1 .. N : n \in 0 .. N /\ n # 0
      BY <1>3
    <2>3. p[0] = s
      BY <2>1, <2>2
    <2>4. \A n \in 1 .. N : p[n - 1] \in V => p[n] = G[n][p[n - 1]]
      BY <1>2, <2>1, <2>2
    <2>5. Follows(p, N, V, s, G)
      BY <2>3, <2>4 DEF Follows
    <2> QED
      BY <1>3, <1>4, <2>5, SameSteps
  <1>11. Replaced(s, rs, r) = f[N]
    BY <1>3, <1>9, <1>10
  <1> QED
    BY <1>4, <1>5, <1>6, <1>11 DEF N, V

\* A replacement gives a text, whatever matches it is given.
LEMMA ReplacementIs ==
    ASSUME NEW C, NEW s \in Seq(C), NEW r \in Seq(C), NEW ms \in Seq(FoundMatch)
    PROVE  ApplyReplacement(s, ms, r) \in Seq(C)
  <1> DEFINE rs == FromTheRight(Ranges(s, ms))
  <1>1. rs \in Seq(TextRange)
    BY RangesStep, RightIs
  <1> HIDE DEF rs
  <1>2. PICK f \in [0 .. Len(rs) -> Seq(C)] : Replaced(s, rs, r) = f[Len(rs)]
    BY <1>1, SplicesAre
  <1>3. Len(rs) \in 0 .. Len(rs)
    BY <1>1
  <1> QED
    BY <1>2, <1>3 DEF ApplyReplacement, rs

-----------------------------------------------------------------------------
(* The text with some places replaced, from the right                      *)

Plain(at, L, x) == x \notin at /\ \A j \in at : ~(j < x /\ x < j + L)
Silent(at, L, x) == x \notin at /\ \E j \in at : j < x /\ x < j + L

LEMMA InsteadIs ==
    ASSUME NEW C, NEW s \in Seq(C), NEW r \in Seq(C), NEW q, NEW at, NEW x \in 1 .. Len(s)
    PROVE  /\ Instead(s, q, r, at, x) \in Seq(C)
           /\ x \in at => Instead(s, q, r, at, x) = r
           /\ Silent(at, Len(q), x) => Instead(s, q, r, at, x) = << >>
           /\ Plain(at, Len(q), x) => Instead(s, q, r, at, x) = <<s[x]>>
  <1>1. x \in at => Instead(s, q, r, at, x) = r
    BY DEF Instead
  <1>2. Silent(at, Len(q), x) => Instead(s, q, r, at, x) = << >>
    BY DEF Instead, Silent
  <1>3. Plain(at, Len(q), x) => Instead(s, q, r, at, x) = <<s[x]>>
    BY DEF Instead, Plain
  <1>4. x \in at \/ Silent(at, Len(q), x) \/ Plain(at, Len(q), x)
    BY DEF Silent, Plain
  <1>5. << >> \in Seq(C) /\ <<s[x]>> \in Seq(C)
    OBVIOUS
  <1> QED
    BY <1>1, <1>2, <1>3, <1>4, <1>5

\* h[x] is what comes of the text after its first x letters.
Tails(h, s, q, r, at, C) ==
    /\ h \in [0 .. Len(s) -> Seq(C)] /\ h[Len(s)] = << >>
    /\ \A x \in 1 .. Len(s) : h[x - 1] = Instead(s, q, r, at, x) \o h[x]

RestGo(f, s, q, r, at) ==
    f = [n \in 0 .. Len(s) |->
            IF n = 0 THEN << >> ELSE Instead(s, q, r, at, Len(s) + 1 - n) \o f[n - 1]]

LEMMA TailsExist ==
    ASSUME NEW C, NEW s \in Seq(C), NEW r \in Seq(C), NEW q, NEW at
    PROVE  \E h : Tails(h, s, q, r, at, C) /\ Substituted(s, q, r, at) = h[0]
  <1> DEFINE N == Len(s)
             V == Seq(C)
             at_(n) == Instead(s, q, r, at, N + 1 - n)
             G == [n \in 1 .. N |-> [x \in V |-> at_(n) \o x]]
             p == CHOOSE g : RestGo(g, s, q, r, at)
  <1>0. N \in Nat
    OBVIOUS
  <1>1. G \in [1 .. N -> [V -> V]]
    <2>1. \A n \in 1 .. N : N + 1 - n \in 1 .. Len(s)
      BY <1>0
    <2>2. \A n \in 1 .. N : at_(n) \in V
      BY <2>1, InsteadIs
    <2> HIDE DEF at_
    <2>3. \A n \in 1 .. N, x \in V : at_(n) \o x \in V
      BY <2>2
    <2> QED
      BY <2>3
  <1>2. \A n \in 1 .. N, x \in V : G[n][x] = at_(n) \o x
    OBVIOUS
  <1>3. << >> \in V
    OBVIOUS
  <1> HIDE DEF N, V, G, at_
  <1>4. PICK f \in [0 .. N -> V] : Goes(f, N, << >>, G)
    BY <1>0, <1>1, <1>3, StepsExist
  <1>5. \A n \in 1 .. N : f[n] = at_(n) \o f[n - 1]
    <2> SUFFICES ASSUME NEW n \in 1 .. N PROVE f[n] = at_(n) \o f[n - 1]
      OBVIOUS
    <2>1. f[n] = G[n][f[n - 1]] /\ f[n - 1] \in V
      <3>1. n - 1 \in 0 .. N
        BY <1>0
      <3> QED
        BY <1>4, <3>1 DEF Goes
    <2> QED
      BY <1>2, <2>1
  <1>6. f[0] = << >>
    BY <1>4 DEF Goes
  <1>7. RestGo(f, s, q, r, at)
    <2>1. f = [n \in 0 .. N |-> f[n]]
      BY <1>4
    <2>2. ASSUME NEW n \in 0 .. N
          PROVE  f[n] = IF n = 0 THEN << >> ELSE at_(n) \o f[n - 1]
      <3>1. n = 0 \/ n \in 1 .. N
        BY <1>0
      <3> QED
        BY <1>5, <1>6, <3>1
    <2> QED
      BY <2>1, <2>2 DEF RestGo, N, at_
  <1>8. RestGo(p, s, q, r, at)
    BY <1>7
  <1>9. Substituted(s, q, r, at) = p[N]
    BY DEF Substituted, RestGo, N
  <1>10. \A n \in 0 .. N : p[n] = f[n] /\ p[n] \in V
    <2> HIDE DEF p
    <2>1. \A n \in 0 .. N : p[n] = IF n = 0 THEN << >> ELSE at_(n) \o p[n - 1]
      BY <1>8 DEF RestGo, N, at_
    <2>2. 0 \in 0 .. N /\ \A n \in 1 .. N : n \in 0 .. N /\ n # 0
      BY <1>0
    <2>3. p[0] = << >>
      BY <2>1, <2>2
    <2>4. \A n \in 1 .. N : p[n - 1] \in V => p[n] = G[n][p[n - 1]]
      BY <1>2, <2>1, <2>2
    <2>5. Follows(p, N, V, << >>, G)
      BY <2>3, <2>4 DEF Follows
    <2> QED
      BY <1>0, <1>4, <2>5, SameSteps
  <1>11. Substituted(s, q, r, at) = f[N]
    BY <1>0, <1>9, <1>10
  <1> DEFINE h == [x \in 0 .. N |-> f[N - x]]
  <1>12. h \in [0 .. N -> V] /\ h[N] = << >> /\ h[0] = f[N]
    <2>1. \A x \in 0 .. N : N - x \in 0 .. N
      BY <1>0
    <2>2. 0 \in 0 .. N /\ N \in 0 .. N /\ N - N = 0 /\ N - 0 = N
      BY <1>0
    <2> QED
      BY <1>4, <1>6, <2>1, <2>2
  <1>13. ASSUME NEW x \in 1 .. N PROVE h[x - 1] = Instead(s, q, r, at, x) \o h[x]
    <2>1. /\ N + 1 - x \in 1 .. N /\ x - 1 \in 0 .. N /\ x \in 0 .. N
          /\ N - (x - 1) = N + 1 - x /\ (N + 1 - x) - 1 = N - x
          /\ N + 1 - (N + 1 - x) = x
      BY <1>0
    <2>2. h[x - 1] = f[N + 1 - x] /\ h[x] = f[N - x]
      BY <2>1
    <2>3. f[N + 1 - x] = at_(N + 1 - x) \o f[N - x]
      BY <1>5, <2>1
    <2>4. at_(N + 1 - x) = Instead(s, q, r, at, x)
      BY <2>1 DEF at_
    <2> QED
      BY <2>2, <2>3, <2>4
  <1> HIDE DEF h
  <1>14. Tails(h, s, q, r, at, C)
    BY <1>12, <1>13 DEF Tails, N, V
  <1> QED
    BY <1>11, <1>12, <1>14

\* The first x letters as they were, the others done.
HalfDone(s, h, x) == SubSeq(s, 1, x) \o h[x]

LEMMA PlainStep ==
    ASSUME NEW C, NEW s \in Seq(C), NEW r \in Seq(C), NEW q, NEW at, NEW h,
           Tails(h, s, q, r, at, C), NEW x \in 1 .. Len(s), Plain(at, Len(q), x)
    PROVE  HalfDone(s, h, x - 1) = HalfDone(s, h, x)
  <1> DEFINE u == SubSeq(s, 1, x - 1)
             v == h[x]
             c == <<s[x]>>
  <1>1. h[x - 1] = c \o v
    <2>1. Instead(s, q, r, at, x) = c
      BY InsteadIs
    <2>2. h[x - 1] = Instead(s, q, r, at, x) \o v
      BY DEF Tails
    <2> QED
      BY <2>1, <2>2
  <1>2. SubSeq(s, 1, x) = u \o c
    <2>1. 1 \in 1 .. Len(s) /\ x \in 1 .. Len(s)
      OBVIOUS
    <2> QED
      BY <2>1, SubSeqRecursiveSecond
  <1>3. u \in Seq(C) /\ c \in Seq(C)
    OBVIOUS
  <1>4. v \in Seq(C)
    <2>1. x \in 0 .. Len(s)
      OBVIOUS
    <2> QED
      BY <2>1 DEF Tails
  <1> HIDE DEF u, v, c
  <1>5. (u \o c) \o v = u \o (c \o v)
    <2>1. Regroups(u, c, v)
      BY <1>3, <1>4, Regrouped
    <2> QED
      BY <2>1 DEF Regroups
  <1>6. HalfDone(s, h, x - 1) = u \o (c \o v)
    BY <1>1 DEF HalfDone, u
  <1>7. HalfDone(s, h, x) = (u \o c) \o v
    BY <1>2 DEF HalfDone, v
  <1> QED
    BY <1>5, <1>6, <1>7

\* A step of the way down from b.
Down(a, b, x) == a < x /\ x <= b

LEMMA PlainStretch ==
    ASSUME NEW C, NEW s \in Seq(C), NEW r \in Seq(C), NEW q, NEW at, NEW h,
           Tails(h, s, q, r, at, C), NEW a \in Nat, NEW b \in Nat, a <= b, b <= Len(s),
           \A x \in Nat : Down(a, b, x) => Plain(at, Len(q), x)
    PROVE  HalfDone(s, h, a) = HalfDone(s, h, b)
  <1> DEFINE N == b - a
             T == {n \in 0 .. N : HalfDone(s, h, b - n) = HalfDone(s, h, b)}
  <1>1. N \in Nat /\ b - 0 = b /\ b - N = a /\ Len(s) \in Nat
    OBVIOUS
  <1>2. 0 \in T
    BY <1>1
  <1>3. ASSUME NEW n \in 1 .. N, n - 1 \in T PROVE n \in T
    <2> DEFINE x == b - (n - 1)
    <2>1. x \in 1 .. Len(s) /\ x \in Nat /\ Down(a, b, x) /\ x - 1 = b - n
      BY <1>1 DEF Down
    <2>2. HalfDone(s, h, x) = HalfDone(s, h, b)
      BY <1>3
    <2> HIDE DEF x
    <2>3. HalfDone(s, h, x - 1) = HalfDone(s, h, x)
      BY <2>1, PlainStep
    <2> QED
      BY <1>1, <2>1, <2>2, <2>3
  <1>4. \A n \in 1 .. N : n - 1 \in T => n \in T
    BY <1>3
  <1> HIDE DEF T, N
  <1>5. \A n \in 0 .. N : n \in T
    BY <1>1, <1>2, <1>4, Climb
  <1> QED
    BY <1>1, <1>5 DEF T

LEMMA SilentStretch ==
    ASSUME NEW C, NEW s \in Seq(C), NEW r \in Seq(C), NEW q, NEW at, NEW h,
           Tails(h, s, q, r, at, C), NEW a \in Nat, NEW b \in Nat, a <= b, b <= Len(s),
           \A x \in Nat : Down(a, b, x) => Silent(at, Len(q), x)
    PROVE  h[a] = h[b]
  <1> DEFINE N == b - a
             T == {n \in 0 .. N : h[b - n] = h[b]}
  <1>1. N \in Nat /\ b - 0 = b /\ b - N = a /\ Len(s) \in Nat
    OBVIOUS
  <1>2. 0 \in T
    BY <1>1
  <1>3. ASSUME NEW n \in 1 .. N, n - 1 \in T PROVE n \in T
    <2> DEFINE x == b - (n - 1)
    <2>1. x \in 1 .. Len(s) /\ x \in Nat /\ Down(a, b, x) /\ x - 1 = b - n /\ x \in 0 .. Len(s)
      BY <1>1 DEF Down
    <2>2. h[x] = h[b]
      BY <1>3
    <2> HIDE DEF x
    <2>3. Instead(s, q, r, at, x) = << >>
      BY <2>1, InsteadIs
    <2>4. h[x - 1] = << >> \o h[x] /\ h[x] \in Seq(C)
      BY <2>1, <2>3 DEF Tails
    <2>5. h[x - 1] = h[x]
      BY <2>4, ConcatEmptySeq
    <2> QED
      BY <1>1, <2>1, <2>2, <2>5
  <1>4. \A n \in 1 .. N : n - 1 \in T => n \in T
    BY <1>3
  <1> HIDE DEF T, N
  <1>5. \A n \in 0 .. N : n \in T
    BY <1>1, <1>2, <1>4, Climb
  <1> QED
    BY <1>1, <1>5 DEF T

Covers(h, x, r) == h[x.from] = r \o h[x.to]

\* To replace a range of what is done so far is to do the text from its start.
LEMMA SpliceHalf ==
    ASSUME NEW C, NEW s \in Seq(C), NEW r \in Seq(C), NEW q, NEW at, NEW h,
           Tails(h, s, q, r, at, C), NEW x \in TextRange, x.to <= Len(s),
           Covers(h, x, r)
    PROVE  Splice(HalfDone(s, h, x.to), x, r) = HalfDone(s, h, x.from)
  <1> DEFINE a == x.from
             b == x.to
             t == SubSeq(s, 1, a)
             u == SubSeq(s, 1, b)
             v == h[b]
             w == u \o v
             head == SubSeq(w, 1, a)
             tail == SubSeq(w, b + 1, Len(w))
  <1>1. a \in Nat /\ b \in Nat /\ a <= b /\ b <= Len(s) /\ Len(s) \in Nat
    BY DEF TextRange
  <1>2. /\ t \in Seq(C) /\ Len(t) = a /\ u \in Seq(C) /\ Len(u) = b
        /\ \A i \in 1 .. a : t[i] = s[i]
        /\ \A i \in 1 .. b : u[i] = s[i]
    <2> HIDE DEF a, b
    <2> QED
      BY <1>1
  <1>3. v \in Seq(C) /\ Len(v) \in Nat
    <2>1. b \in 0 .. Len(s)
      BY <1>1
    <2>2. v \in Seq(C)
      BY <2>1 DEF Tails
    <2> QED
      BY <2>2
  <1>4. HalfDone(s, h, b) = w /\ HalfDone(s, h, a) = t \o h[a]
    BY DEF HalfDone
  <1> HIDE DEF t, u, v
  <1>5. /\ w \in Seq(C) /\ Len(w) = b + Len(v)
        /\ \A i \in 1 .. b : w[i] = u[i]
        /\ \A i \in 1 .. Len(v) : w[b + i] = v[i]
    <2> HIDE DEF a, b
    <2>0. u \in Seq(C) /\ v \in Seq(C)
      BY <1>2, <1>3
    <2>1. /\ u \o v \in Seq(C) /\ Len(u \o v) = Len(u) + Len(v)
          /\ \A i \in 1 .. Len(u) : (u \o v)[i] = u[i]
          /\ \A i \in 1 .. Len(v) : (u \o v)[Len(u) + i] = v[i]
      BY <2>0, Joined
    <2> QED
      BY <1>2, <2>1
  <1> HIDE DEF w, a, b
  <1>6. head = t
    <2>1. head \in Seq(C) /\ Len(head) = a /\ \A i \in 1 .. a : head[i] = w[i]
      BY <1>1, <1>3, <1>5
    <2> HIDE DEF head
    <2>2. \A i \in 1 .. Len(head) : head[i] = t[i]
      <3> SUFFICES ASSUME NEW i \in 1 .. Len(head) PROVE head[i] = t[i]
        OBVIOUS
      <3>1. i \in 1 .. a /\ i \in 1 .. b
        BY <1>1, <2>1
      <3> QED
        BY <1>2, <1>5, <2>1, <3>1
    <2> QED
      BY <1>2, <2>1, <2>2, SameText
  <1>7. tail = v
    <2>1. tail \in Seq(C) /\ Len(tail) = Len(v) /\ \A i \in 1 .. Len(v) : tail[i] = w[b + i]
      BY <1>1, <1>3, <1>5
    <2> HIDE DEF tail
    <2>2. \A i \in 1 .. Len(tail) : tail[i] = v[i]
      BY <1>5, <2>1
    <2> QED
      BY <1>3, <2>1, <2>2, SameText
  <1>8. Splice(w, x, r) = head \o r \o tail
    <2>1. b <= Len(w)
      BY <1>1, <1>3, <1>5
    <2> QED
      BY <2>1 DEF Splice, Spliced, a, b
  <1>9. (t \o r) \o v = t \o (r \o v)
    <2>1. Regroups(t, r, v)
      BY <1>2, <1>3, Regrouped
    <2> QED
      BY <2>1 DEF Regroups
  <1>10. h[a] = r \o v
    BY DEF Covers, a, v, b
  <1>11. Splice(w, x, r) = HalfDone(s, h, a)
    BY <1>4, <1>6, <1>7, <1>8, <1>9, <1>10
  <1> QED
    BY <1>4, <1>11 DEF a, b

\* The ranges of some occurrences, as a search finds them.
Apart(rs, L, N) ==
    /\ rs \in Seq(TextRange)
    /\ \A i \in 1 .. Len(rs) : rs[i].to = rs[i].from + L /\ rs[i].to <= N
    /\ \A i, j \in 1 .. Len(rs) : i < j => rs[i].from + L <= rs[j].from

Starts(rs) == {rs[i].from + 1 : i \in 1 .. Len(rs)}

\* Where the stretch behind the k-th range begins and ends.
Behind(rs, L, k) == IF k = 0 THEN 0 ELSE rs[k].from + L
Before(rs, N, k) == IF k < Len(rs) THEN rs[k + 1].from ELSE N

LEMMA StretchIs ==
    ASSUME NEW L \in Nat, L >= 1, NEW N \in Nat, NEW rs, Apart(rs, L, N),
           NEW k \in 0 .. Len(rs)
    PROVE  /\ Behind(rs, L, k) \in Nat /\ Before(rs, N, k) \in Nat
           /\ Behind(rs, L, k) <= Before(rs, N, k) /\ Before(rs, N, k) <= N
           /\ \A i \in 1 .. k : rs[i].from + L <= Behind(rs, L, k)
           /\ \A i \in k + 1 .. Len(rs) : Before(rs, N, k) <= rs[i].from
  <1> DEFINE K == Len(rs)
             a(i) == rs[i].from
  <1>1. K \in Nat /\ k \in Nat /\ k <= K
    BY DEF Apart
  <1>2. \A i \in 1 .. K : a(i) \in Nat /\ a(i) + L <= N
    <2>1. \A i \in 1 .. K : rs[i] \in TextRange
      BY DEF Apart
    <2>2. \A i \in 1 .. K : rs[i].to = rs[i].from + L /\ rs[i].to <= N
      BY DEF Apart
    <2> QED
      BY <2>1, <2>2 DEF TextRange
  <1>3. \A i, j \in 1 .. K : i < j => a(i) + L <= a(j)
    BY DEF Apart
  <1>4. k = 0 => Behind(rs, L, k) = 0
    BY DEF Behind
  <1>5. k # 0 => k \in 1 .. K /\ Behind(rs, L, k) = a(k) + L
    BY <1>1 DEF Behind
  <1>6. k < K => k + 1 \in 1 .. K /\ Before(rs, N, k) = a(k + 1)
    BY <1>1 DEF Before
  <1>7. ~(k < K) => Before(rs, N, k) = N /\ k = K
    BY <1>1 DEF Before
  <1> HIDE DEF K, a
  <1> DEFINE lo == Behind(rs, L, k)
             hi == Before(rs, N, k)
  <1>8. lo \in Nat
    BY <1>2, <1>4, <1>5
  <1>9. hi \in Nat /\ hi <= N
    <2>1. CASE k < K
      BY <1>2, <1>6, <2>1
    <2>2. CASE ~(k < K)
      BY <1>7, <2>2
    <2> QED
      BY <2>1, <2>2
  <1>10. lo <= hi
    <2>1. CASE k = 0
      BY <1>4, <1>9, <2>1
    <2>2. CASE k # 0 /\ k < K
      <3>1. k < k + 1 /\ k \in 1 .. K /\ k + 1 \in 1 .. K
        BY <1>1, <1>5, <1>6, <2>2
      <3>2. a(k) + L <= a(k + 1)
        BY <1>3, <3>1
      <3> QED
        BY <1>5, <1>6, <2>2, <3>2
    <2>3. CASE k # 0 /\ ~(k < K)
      BY <1>2, <1>5, <1>7, <2>3
    <2> QED
      BY <2>1, <2>2, <2>3
  <1>11. ASSUME NEW i \in 1 .. k PROVE a(i) + L <= lo
    <2>1. k # 0 /\ i \in 1 .. K /\ (i = k \/ i < k)
      BY <1>1
    <2>2. a(i) \in Nat /\ k \in 1 .. K
      BY <1>2, <1>5, <2>1
    <2>3. CASE i = k
      <3>1. a(i) + L = lo
        BY <1>5, <2>1, <2>3
      <3> QED
        BY <1>8, <3>1
    <2>4. CASE i < k
      <3>1. a(i) + L <= a(k) /\ a(k) \in Nat
        BY <1>2, <1>3, <2>1, <2>2, <2>4
      <3>2. lo = a(k) + L
        BY <1>5, <2>1
      <3> QED
        BY <2>2, <3>1, <3>2
    <2> QED
      BY <2>1, <2>3, <2>4
  <1>12. ASSUME NEW i \in k + 1 .. K PROVE hi <= a(i)
    <2>1. k < K /\ i \in 1 .. K /\ (i = k + 1 \/ k + 1 < i)
      BY <1>1
    <2>2. a(i) \in Nat /\ k + 1 \in 1 .. K /\ hi = a(k + 1)
      BY <1>2, <1>6, <2>1
    <2>3. CASE i = k + 1
      BY <2>2, <2>3
    <2>4. CASE k + 1 < i
      <3>1. a(k + 1) + L <= a(i) /\ a(k + 1) \in Nat
        BY <1>2, <1>3, <2>1, <2>2, <2>4
      <3> QED
        BY <2>2, <3>1
    <2> QED
      BY <2>1, <2>3, <2>4
  <1> QED
    BY <1>8, <1>9, <1>10, <1>11, <1>12 DEF K, a

LEMMA BehindIsPlain ==
    ASSUME NEW L \in Nat, L >= 1, NEW N \in Nat, NEW rs, Apart(rs, L, N),
           NEW k \in 0 .. Len(rs), NEW x \in Nat,
           Down(Behind(rs, L, k), Before(rs, N, k), x)
    PROVE  Plain(Starts(rs), L, x)
  <1> DEFINE K == Len(rs)
             lo == Behind(rs, L, k)
             hi == Before(rs, N, k)
  <1>1. /\ lo \in Nat /\ hi \in Nat
        /\ \A i \in 1 .. k : rs[i].from + L <= lo
        /\ \A i \in k + 1 .. K : hi <= rs[i].from
    BY StretchIs
  <1>2. lo < x /\ x <= hi
    BY DEF Down
  <1>3. K \in Nat /\ k \in Nat
    BY DEF Apart
  <1>4. \A i \in 1 .. K : rs[i].from \in Nat
    <2>1. \A i \in 1 .. K : rs[i] \in TextRange
      BY DEF Apart
    <2> QED
      BY <2>1 DEF TextRange
  <1> HIDE DEF lo, hi
  <1>5. ASSUME NEW i \in 1 .. K
        PROVE  x # rs[i].from + 1 /\ ~(rs[i].from + 1 < x /\ x < rs[i].from + 1 + L)
    <2>1. i \in 1 .. k \/ i \in k + 1 .. K
      BY <1>3
    <2>2. rs[i].from \in Nat
      BY <1>4
    <2>3. CASE i \in 1 .. k
      <3>1. rs[i].from + L <= lo
        BY <1>1, <2>3
      <3> QED
        BY <1>1, <1>2, <2>2, <3>1
    <2>4. CASE i \in k + 1 .. K
      <3>1. hi <= rs[i].from
        BY <1>1, <2>4
      <3> QED
        BY <1>1, <1>2, <2>2, <3>1
    <2> QED
      BY <2>1, <2>3, <2>4
  <1>6. \A y \in Starts(rs) : \E i \in 1 .. K : y = rs[i].from + 1
    BY DEF Starts
  <1>7. ASSUME NEW y \in Starts(rs) PROVE x # y /\ ~(y < x /\ x < y + L)
    BY <1>5, <1>6
  <1> QED
    BY <1>7 DEF Plain

LEMMA InsideIsSilent ==
    ASSUME NEW L \in Nat, L >= 1, NEW N \in Nat, NEW rs, Apart(rs, L, N),
           NEW k \in 1 .. Len(rs), NEW x \in Nat,
           Down(rs[k].from + 1, rs[k].from + L, x)
    PROVE  Silent(Starts(rs), L, x)
  <1> DEFINE K == Len(rs)
             p == rs[k].from
  <1>1. \A i \in 1 .. K : rs[i].from \in Nat
    <2>1. \A i \in 1 .. K : rs[i] \in TextRange
      BY DEF Apart
    <2> QED
      BY <2>1 DEF TextRange
  <1>2. \A i, j \in 1 .. K : i < j => rs[i].from + L <= rs[j].from
    BY DEF Apart
  <1>3. K \in Nat
    BY DEF Apart
  <1>4. p + 1 < x /\ x <= p + L /\ p \in Nat
    BY <1>1 DEF Down
  <1>5. p + 1 \in Starts(rs) /\ p + 1 < x /\ x < p + 1 + L
    BY <1>4 DEF Starts
  <1>6. ASSUME NEW i \in 1 .. K PROVE x # rs[i].from + 1
    <2>1. rs[i].from \in Nat
      BY <1>1
    <2>2. CASE i = k
      BY <1>4, <2>2
    <2>3. CASE i < k
      <3>1. rs[i].from + L <= p
        BY <1>2, <2>3
      <3> QED
        BY <1>4, <2>1, <3>1
    <2>4. CASE k < i
      <3>1. p + L <= rs[i].from
        BY <1>2, <2>4
      <3> QED
        BY <1>4, <2>1, <3>1
    <2> QED
      BY <1>3, <2>2, <2>3, <2>4
  <1>7. x \notin Starts(rs)
    BY <1>6 DEF Starts
  <1> QED
    BY <1>5, <1>7 DEF Silent

\* Replacing the ranges one by one from the right does to the text what replacing
\* the letters at their starts does.
LEMMA ReplacedIsSubstituted ==
    ASSUME NEW C, NEW s \in Seq(C), NEW r \in Seq(C), NEW q \in Seq(C), Len(q) >= 1,
           NEW rs, Apart(rs, Len(q), Len(s))
    PROVE  Replaced(s, FromTheRight(rs), r) = Substituted(s, q, r, Starts(rs))
  <1> DEFINE N == Len(s)
             L == Len(q)
             K == Len(rs)
             at == Starts(rs)
             sorted == FromTheRight(rs)
             lo(k) == Behind(rs, L, k)
             hi(k) == Before(rs, N, k)
  <1>1. N \in Nat /\ L \in Nat /\ L >= 1
    OBVIOUS
  <1>2. rs \in Seq(TextRange) /\ K \in Nat
    BY DEF Apart
  <1>3. \A i \in 1 .. K : /\ rs[i].from \in Nat /\ rs[i] \in TextRange
                          /\ rs[i].to = rs[i].from + L /\ rs[i].to <= N
    <2>1. \A i \in 1 .. K : rs[i] \in TextRange
      BY <1>2
    <2>2. \A i \in 1 .. K : rs[i].to = rs[i].from + L /\ rs[i].to <= N
      BY DEF Apart
    <2> QED
      BY <2>1, <2>2 DEF TextRange
  <1>4. Ascending(rs)
    <2>1. \A i, j \in 1 .. K : i < j => rs[i].from + L <= rs[j].from
      BY DEF Apart
    <2> HIDE DEF K, L
    <2>2. \A i, j \in 1 .. K : i < j => rs[i].from < rs[j].from
      BY <1>1, <1>3, <2>1
    <2> QED
      BY <2>2 DEF Ascending, K
  <1>5. /\ sorted \in Seq(TextRange) /\ Len(sorted) = K
        /\ \A i \in 1 .. K : sorted[i] = rs[K + 1 - i]
    BY <1>2, <1>4, RightIs
  <1>6. PICK h : Tails(h, s, q, r, at, C) /\ Substituted(s, q, r, at) = h[0]
    BY TailsExist
  <1> HIDE DEF sorted
  <1>7. PICK f \in [0 .. Len(sorted) -> Seq(C)] :
            /\ f[0] = s /\ Replaced(s, sorted, r) = f[Len(sorted)]
            /\ \A n \in 1 .. Len(sorted) : f[n] = Splice(f[n - 1], sorted[n], r)
    BY <1>5, SplicesAre
  <1>8. ASSUME NEW k \in 0 .. K PROVE HalfDone(s, h, lo(k)) = HalfDone(s, h, hi(k))
    <2>1. lo(k) \in Nat /\ hi(k) \in Nat /\ lo(k) <= hi(k) /\ hi(k) <= N
      BY <1>1, StretchIs
    <2>2. \A x \in Nat : Down(lo(k), hi(k), x) => Plain(at, L, x)
      BY <1>1, BehindIsPlain
    <2> HIDE DEF lo, hi, at
    <2> QED
      BY <1>6, <2>1, <2>2, PlainStretch
  <1>9. ASSUME NEW k \in 1 .. K
        PROVE  Splice(HalfDone(s, h, rs[k].to), rs[k], r) = HalfDone(s, h, rs[k].from)
    <2> DEFINE p == rs[k].from
               e == rs[k].to
    <2>1. p \in Nat /\ e = p + L /\ e <= N /\ rs[k] \in TextRange
      BY <1>3
    <2>2. p + 1 \in 1 .. N /\ p + 1 \in Nat /\ e \in Nat /\ p + 1 <= e /\ (p + 1) - 1 = p
      BY <1>1, <2>1
    <2>3. p + 1 \in at
      BY DEF Starts
    <2>4. Instead(s, q, r, at, p + 1) = r
      BY <2>2, <2>3, InsteadIs
    <2>5. h[p] = r \o h[p + 1]
      <3>1. \A x \in 1 .. Len(s) : h[x - 1] = Instead(s, q, r, at, x) \o h[x]
        BY <1>6 DEF Tails
      <3>2. h[(p + 1) - 1] = Instead(s, q, r, at, p + 1) \o h[p + 1]
        BY <2>2, <3>1
      <3> HIDE DEF p, at
      <3> QED
        BY <2>2, <2>4, <3>2
    <2>6. \A x \in Nat : Down(p + 1, e, x) => Silent(at, L, x)
      BY <1>1, <2>1, InsideIsSilent
    <2>7. h[p + 1] = h[e]
      <3> DEFINE a == p + 1
      <3>1. a \in Nat /\ e \in Nat /\ a <= e /\ e <= Len(s)
        BY <2>1, <2>2
      <3>2. \A x \in Nat : Down(a, e, x) => Silent(at, Len(q), x)
        BY <2>6
      <3> HIDE DEF a, e, at
      <3>3. h[a] = h[e]
        BY <1>6, <3>1, <3>2, SilentStretch
      <3> QED
        BY <3>3 DEF a
    <2>8. h[p] = r \o h[e]
      BY <2>5, <2>7
    <2> DEFINE x == rs[k]
    <2>9. x \in TextRange /\ x.to <= Len(s) /\ Covers(h, x, r)
      BY <2>1, <2>8 DEF Covers
    <2> HIDE DEF at, p, e, x
    <2>10. Splice(HalfDone(s, h, x.to), x, r) = HalfDone(s, h, x.from)
      BY <1>6, <2>9, SpliceHalf
    <2> QED
      BY <2>10 DEF x
  <1> DEFINE T == {n \in 0 .. K : f[n] = HalfDone(s, h, hi(K - n))}
  <1>10. HalfDone(s, h, N) = s
    <2>1. h[N] = << >> /\ SubSeq(s, 1, N) = s
      BY <1>6, SubSeqFull DEF Tails
    <2>2. s \o << >> = s
      BY ConcatEmptySeq
    <2> QED
      BY <2>1, <2>2 DEF HalfDone
  <1>11. 0 \in T
    <2>1. hi(K - 0) = N /\ 0 \in 0 .. K
      BY <1>2 DEF Before
    <2> HIDE DEF hi, N
    <2> QED
      BY <1>7, <1>10, <2>1
  <1>12. ASSUME NEW n \in 1 .. K, n - 1 \in T PROVE n \in T
    <2> DEFINE k == K + 1 - n
    <2>1. k \in 1 .. K /\ k \in 0 .. K /\ K - (n - 1) = k /\ K - n = k - 1 /\ n \in 0 .. K
      BY <1>2
    <2>2. f[n - 1] = HalfDone(s, h, hi(k))
      BY <1>12, <2>1
    <2>3. HalfDone(s, h, lo(k)) = HalfDone(s, h, hi(k))
      BY <1>8, <2>1
    <2>4. lo(k) = rs[k].to
      BY <1>3, <2>1 DEF Behind
    <2>5. hi(K - n) = rs[k].from
      <3>1. k - 1 < Len(rs) /\ (k - 1) + 1 = k
        BY <1>2, <2>1
      <3> QED
        BY <2>1, <3>1 DEF Before
    <2>6. sorted[n] = rs[k]
      BY <1>5
    <2>7. f[n] = Splice(f[n - 1], sorted[n], r)
      BY <1>5, <1>7
    <2> HIDE DEF k, hi, lo
    <2>8. f[n] = Splice(HalfDone(s, h, rs[k].to), rs[k], r)
      BY <2>2, <2>3, <2>4, <2>6, <2>7
    <2>9. f[n] = HalfDone(s, h, rs[k].from)
      BY <1>9, <2>1, <2>8
    <2> QED
      BY <2>1, <2>5, <2>9
  <1> HIDE DEF T
  <1>13. \A n \in 0 .. K : n \in T
    <2>1. \A n \in 1 .. K : n - 1 \in T => n \in T
      BY <1>12
    <2> HIDE DEF K
    <2> QED
      BY <1>2, <1>11, <2>1, Climb
  <1>14. f[K] = HalfDone(s, h, hi(0))
    <2>1. K \in T /\ K - K = 0
      BY <1>2, <1>13
    <2> QED
      BY <2>1 DEF T
  <1>15. HalfDone(s, h, hi(0)) = h[0]
    <2>1. lo(0) = 0 /\ 0 \in 0 .. K
      BY <1>2 DEF Behind
    <2>2. HalfDone(s, h, hi(0)) = HalfDone(s, h, 0)
      BY <1>8, <2>1
    <2>3. SubSeq(s, 1, 0) = << >>
      OBVIOUS
    <2>4. h[0] \in Seq(C)
      <3>1. h \in [0 .. Len(s) -> Seq(C)]
        BY <1>6 DEF Tails
      <3>2. 0 \in 0 .. Len(s)
        OBVIOUS
      <3> QED
        BY <3>1, <3>2
    <2>5. << >> \o h[0] = h[0]
      BY <2>4, ConcatEmptySeq
    <2> QED
      BY <2>2, <2>3, <2>5 DEF HalfDone
  <1>16. Replaced(s, sorted, r) = h[0]
    BY <1>5, <1>7, <1>14, <1>15
  <1> QED
    BY <1>6, <1>16 DEF sorted

-----------------------------------------------------------------------------
(* The match that is shown, among the places of all                        *)

Rising(f, m) ==
    f \in [1 .. m -> Nat] /\ \A i, j \in 1 .. m : i < j => f[i] < f[j]

\* As many members of a rising list come before one as its index tells.
LEMMA BeforeNth ==
    ASSUME NEW m \in Nat, NEW f, Rising(f, m), NEW i \in 1 .. m
    PROVE  Cardinality({o \in {f[j] : j \in 1 .. m} : o < f[i]}) = i - 1
  <1> DEFINE S == 1 .. i - 1
             T == {o \in {f[j] : j \in 1 .. m} : o < f[i]}
             g == [j \in S |-> f[j]]
  <1>1. f \in [1 .. m -> Nat] /\ \A x, y \in 1 .. m : x < y => f[x] < f[y]
    BY DEF Rising
  <1>2. \A j \in S : j \in 1 .. m /\ j < i
    OBVIOUS
  <1>3. \A j \in S : g[j] = f[j] /\ g[j] \in T
    BY <1>1, <1>2
  <1>4. g \in [S -> T]
    BY <1>3
  <1>5. ASSUME NEW o \in T PROVE \E j \in S : g[j] = o
    <2>1. PICK j \in 1 .. m : o = f[j]
      OBVIOUS
    <2>2. f[j] < f[i] /\ f[j] \in Nat /\ f[i] \in Nat
      BY <1>1, <2>1
    <2>3. j # i /\ ~(i < j)
      BY <1>1, <2>2
    <2>4. j \in S
      BY <2>3
    <2> QED
      BY <1>3, <2>1, <2>4
  <1>6. ASSUME NEW x \in S, NEW y \in S, g[x] = g[y] PROVE x = y
    <2>1. f[x] = f[y] /\ f[x] \in Nat /\ x \in 1 .. m /\ y \in 1 .. m
      BY <1>1, <1>2, <1>3, <1>6
    <2>2. ~(f[x] < f[y]) /\ ~(f[y] < f[x])
      BY <2>1
    <2>3. ~(x < y) /\ ~(y < x)
      BY <1>1, <2>1, <2>2
    <2> QED
      BY <2>3
  <1> HIDE DEF g, T
  <1>7. g \in Bijection(S, T)
    <2>1. g \in Injection(S, T)
      BY <1>4, <1>6 DEF Injection, IsInjective
    <2>2. g \in Surjection(S, T)
      BY <1>4, <1>5 DEF Surjection
    <2> QED
      BY <2>1, <2>2 DEF Bijection
  <1>8. IsFiniteSet(S) /\ Cardinality(S) = i - 1
    <2>1. 1 \in Int /\ i - 1 \in Int /\ (IF 1 > i - 1 THEN 0 ELSE i - 1 - 1 + 1) = i - 1
      OBVIOUS
    <2>2. IsFiniteSet(1 .. i - 1) /\ Cardinality(1 .. i - 1) = IF 1 > i - 1 THEN 0 ELSE i - 1 - 1 + 1
      BY <2>1, FS_Interval
    <2> QED
      BY <2>1, <2>2
  <1> HIDE DEF S
  <1>9. ExistsBijection(S, T)
    BY <1>7 DEF ExistsBijection
  <1>10. Cardinality(T) = Cardinality(S)
    BY <1>8, <1>9, FS_Bijection
  <1> QED
    BY <1>8, <1>10 DEF T

NthOf(P, c) == {p \in P : Cardinality({o \in P : o < p}) = c}
Listed(P, f, m) == P = {f[j] : j \in 1 .. m}

LEMMA OnlyNth ==
    ASSUME NEW m \in Nat, NEW f, Rising(f, m), NEW c \in Nat, c < m,
           NEW P, Listed(P, f, m)
    PROVE  NthOf(P, c) = {f[c + 1]}
  <1>1. c + 1 \in 1 .. m /\ (c + 1) - 1 = c
    OBVIOUS
  <1>2. \A i \in 1 .. m : Cardinality({o \in P : o < f[i]}) = i - 1
    BY BeforeNth DEF Listed
  <1>3. \A p \in P : \E i \in 1 .. m : p = f[i]
    BY DEF Listed
  <1>4. f[c + 1] \in P
    BY <1>1 DEF Listed
  <1>5. ASSUME NEW p \in P
        PROVE  Cardinality({o \in P : o < p}) = c <=> p = f[c + 1]
    <2>1. PICK i \in 1 .. m : p = f[i]
      BY <1>3
    <2>2. Cardinality({o \in P : o < p}) = i - 1
      BY <1>2, <2>1
    <2>3. CASE i = c + 1
      BY <1>1, <2>1, <2>2, <2>3
    <2>4. CASE i # c + 1
      <3>1. i - 1 # c
        BY <2>4
      <3>2. p # f[c + 1]
        <4>1. /\ f[i] \in Nat /\ f[c + 1] \in Nat
              /\ i < c + 1 => f[i] < f[c + 1]
              /\ c + 1 < i => f[c + 1] < f[i]
          BY <1>1 DEF Rising
        <4>2. i < c + 1 \/ c + 1 < i
          BY <2>4
        <4> QED
          BY <2>1, <4>1, <4>2
      <3> QED
        BY <2>2, <3>1, <3>2
    <2> QED
      BY <2>3, <2>4
  <1> QED
    BY <1>4, <1>5 DEF NthOf

\* The ranges of what a search finds, and of one match of it.
LEMMA FoundApart ==
    ASSUME NEW C, NEW s \in Seq(C), NEW q \in Seq(C), OneLine(q), Len(q) >= 1
    PROVE  LET M  == FindMatches(s, q)
               rs == Ranges(s, M)
           IN  /\ Apart(rs, Len(q), Len(s)) /\ Len(rs) = Len(M)
               /\ Starts(rs) = Places(s, q)
               /\ M \in Seq(FoundMatch)
               /\ \A i \in 1 .. Len(M) : M[i].line \in 1 .. Len(LineStarts(s))
               /\ \A i \in 1 .. Len(M) : rs[i] = Absolute(LineStarts(s), M[i])
  <1> DEFINE M == FindMatches(s, q)
             rs == Ranges(s, M)
             L == Len(q)
             m == Len(M)
             K == Len(LineStarts(s))
  <1>1. TextOf(M, s, q, K) /\ Places(s, q) = PlacesOf(s, M)
    BY FoundInText, PlacesAre
  <1>2. L \in Nat /\ L >= 1 /\ Len(s) \in Nat
    OBVIOUS
  <1>3. K \in Nat /\ Reach(s, K) = Len(s)
    BY <1>2, StartsAre DEF StartsOf, Reach
  <1> HIDE DEF M, K, L
  <1>4. M \in Seq(FoundMatch) /\ m \in Nat
    BY <1>1 DEF TextOf
  <1>5. \A i \in 1 .. m : /\ M[i].line \in 1 .. Len(LineStarts(s)) /\ M[i].to = M[i].from + L
                          /\ AbsAt(s, M[i]) + L <= Len(s)
    BY <1>1, <1>3 DEF TextOf, L
  <1>6. \A i, j \in 1 .. m : i < j => AbsAt(s, M[i]) + L <= AbsAt(s, M[j])
    BY <1>1 DEF TextOf, L
  <1>7. InText(s, M)
    BY <1>4, <1>5 DEF InText
  <1>8. /\ rs \in Seq(TextRange) /\ Len(rs) = m
        /\ \A i \in 1 .. m : rs[i] = Absolute(LineStarts(s), M[i])
    BY <1>7, RangesAre
  <1> HIDE DEF rs, m
  <1>9. ASSUME NEW i \in 1 .. m
        PROVE  /\ rs[i].from = AbsAt(s, M[i]) /\ rs[i].to = AbsAt(s, M[i]) + L
               /\ rs[i].from \in Nat
    <2>1. M[i] \in FoundMatch
      BY <1>4 DEF m
    <2>2. M[i].line \in 1 .. Len(LineStarts(s)) /\ M[i].to = M[i].from + L
      BY <1>5
    <2>3. /\ AbsAt(s, M[i]) \in Nat
          /\ Absolute(LineStarts(s), M[i]).from = AbsAt(s, M[i])
          /\ Absolute(LineStarts(s), M[i]).to = AbsAt(s, M[i]) + L
      BY <1>2, <2>1, <2>2, AbsoluteIs
    <2> QED
      BY <1>8, <2>3
  <1>10. Apart(rs, L, Len(s))
    <2>1. \A i \in 1 .. m : rs[i].to = rs[i].from + L /\ rs[i].to <= Len(s)
      BY <1>5, <1>9
    <2>2. \A i, j \in 1 .. m : i < j => rs[i].from + L <= rs[j].from
      BY <1>6, <1>9
    <2> QED
      BY <1>8, <2>1, <2>2 DEF Apart
  <1>11. Starts(rs) = PlacesOf(s, M)
    BY <1>8, <1>9 DEF Starts, PlacesOf, m
  <1> QED
    BY <1>1, <1>4, <1>5, <1>8, <1>10, <1>11 DEF M, rs, m, L

\* Replacing all that is found, or the match of an index, is exact.
LEMMA AllReplaced ==
    ASSUME NEW C, NEW s \in Seq(C), NEW q \in Seq(C), NEW r \in Seq(C),
           OneLine(q), Len(q) >= 1
    PROVE  ApplyReplacement(s, FindMatches(s, q), r) = Substituted(s, q, r, Places(s, q))
  <1> DEFINE rs == Ranges(s, FindMatches(s, q))
  <1>1. Apart(rs, Len(q), Len(s)) /\ Starts(rs) = Places(s, q)
    BY FoundApart
  <1> HIDE DEF rs
  <1>2. Replaced(s, FromTheRight(rs), r) = Substituted(s, q, r, Starts(rs))
    BY <1>1, ReplacedIsSubstituted
  <1> QED
    BY <1>1, <1>2 DEF ApplyReplacement, rs

LEMMA NthReplaced ==
    ASSUME NEW C, NEW s \in Seq(C), NEW q \in Seq(C), NEW r \in Seq(C),
           OneLine(q), Len(q) >= 1, NEW c \in Nat, c < Len(FindMatches(s, q))
    PROVE  ApplyReplacement(s, <<FindMatches(s, q)[c + 1]>>, r)
             = Substituted(s, q, r, NthOf(Places(s, q), c))
  <1> DEFINE M == FindMatches(s, q)
             rs == Ranges(s, M)
             m == Len(M)
             one == <<M[c + 1]>>
             ro == Ranges(s, one)
             f == [i \in 1 .. m |-> rs[i].from + 1]
             L == Len(q)
             P == Places(s, q)
  <1>1. /\ Apart(rs, L, Len(s)) /\ Len(rs) = m
        /\ Starts(rs) = P
        /\ M \in Seq(FoundMatch)
        /\ \A i \in 1 .. m : M[i].line \in 1 .. Len(LineStarts(s))
        /\ \A i \in 1 .. m : rs[i] = Absolute(LineStarts(s), M[i])
    BY FoundApart
  <1>2. L \in Nat /\ L >= 1 /\ Len(s) \in Nat /\ c < m
    OBVIOUS
  <1> HIDE DEF M, rs, L, P
  <1>3. m \in Nat /\ c + 1 \in 1 .. m
    BY <1>1, <1>2
  <1>4. rs \in Seq(TextRange) /\ \A i \in 1 .. m : rs[i].from \in Nat
    <2>1. rs \in Seq(TextRange) /\ \A i \in 1 .. m : rs[i] \in TextRange
      BY <1>1 DEF Apart
    <2> QED
      BY <2>1 DEF TextRange
  <1>5. Rising(f, m)
    <2>1. \A i, j \in 1 .. m : i < j => rs[i].from + L <= rs[j].from
      BY <1>1 DEF Apart
    <2> HIDE DEF m
    <2>2. \A i, j \in 1 .. m : i < j => rs[i].from + 1 < rs[j].from + 1
      <3> SUFFICES ASSUME NEW i \in 1 .. m, NEW j \in 1 .. m, i < j
                   PROVE  rs[i].from + 1 < rs[j].from + 1
        OBVIOUS
      <3>1. rs[i].from + L <= rs[j].from
        BY <2>1
      <3>2. rs[i].from \in Nat /\ rs[j].from \in Nat
        BY <1>4
      <3> DEFINE x == rs[i].from
                 y == rs[j].from
      <3>3. x \in Nat /\ y \in Nat /\ L \in Nat /\ L >= 1 /\ x + L <= y
        BY <1>2, <3>1, <3>2
      <3> HIDE DEF x, y
      <3>4. x + 1 < y + 1
        BY <3>3
      <3> QED
        BY <3>4 DEF x, y
    <2>3. f \in [1 .. m -> Nat] /\ \A i \in 1 .. m : f[i] = rs[i].from + 1
      BY <1>4
    <2> HIDE DEF f
    <2> QED
      BY <2>2, <2>3 DEF Rising
  <1>6. Listed(P, f, m)
    BY <1>1 DEF Starts, Listed
  <1>7. f[c + 1] = rs[c + 1].from + 1
    BY <1>3
  <1>8. InText(s, one) /\ Len(one) = 1 /\ one[1] = M[c + 1]
    BY <1>1, <1>3 DEF InText
  <1> HIDE DEF f, one
  <1>9. NthOf(P, c) = {f[c + 1]}
    BY <1>2, <1>3, <1>5, <1>6, OnlyNth
  <1>10. /\ ro \in Seq(TextRange) /\ Len(ro) = 1
         /\ ro[1] = rs[c + 1]
    <2>1. /\ ro \in Seq(TextRange) /\ Len(ro) = Len(one)
          /\ \A i \in 1 .. Len(one) : ro[i] = Absolute(LineStarts(s), one[i])
      BY <1>8, RangesAre
    <2>2. rs[c + 1] = Absolute(LineStarts(s), M[c + 1])
      BY <1>1, <1>3
    <2> QED
      BY <1>8, <2>1, <2>2
  <1> HIDE DEF ro, m
  <1>11. Apart(ro, L, Len(s))
    <2>1. rs[c + 1].to = rs[c + 1].from + L /\ rs[c + 1].to <= Len(s)
      BY <1>1, <1>3 DEF Apart
    <2>2. \A i \in 1 .. Len(ro) : i = 1
      BY <1>10
    <2> QED
      BY <1>10, <2>1, <2>2 DEF Apart
  <1>12. Starts(ro) = {f[c + 1]}
    <2>1. \A i \in 1 .. Len(ro) : i = 1
      BY <1>10
    <2>2. 1 \in 1 .. Len(ro)
      BY <1>10
    <2> QED
      BY <1>7, <1>10, <2>1, <2>2 DEF Starts
  <1>13. Replaced(s, FromTheRight(ro), r) = Substituted(s, q, r, Starts(ro))
    BY <1>11, <1>2, ReplacedIsSubstituted DEF L
  <1>14. ApplyReplacement(s, one, r) = Substituted(s, q, r, {f[c + 1]})
    BY <1>12, <1>13 DEF ApplyReplacement, ro
  <1> QED
    BY <1>9, <1>14 DEF one, M, P

-----------------------------------------------------------------------------
(* The texts, the queries and the matches of a state                       *)

Letters == Chars \union {Newline}
Written == Seq(Letters)

TextsInv ==
    /\ query \in Seq(Chars) /\ repl \in Seq(Chars) /\ last.query \in Seq(Chars)
    /\ source \in [Editors -> Written] /\ buf \in [Editors -> Written]
    /\ sent \in [Editors -> Written \union {Nothing}]
    /\ matches \in Seq(FoundMatch)
    /\ peers \subseteq Editors

\* The match that is shown is there.
IndexInv ==
    /\ current \in Nat
    /\ current < Len(matches) \/ (matches = << >> /\ current = 0)

LEMMA QueryIs ==
    ASSUME NEW q \in Seq(Chars)
    PROVE  q \in Written /\ OneLine(q)
  BY FindReplaceAssumption DEF Written, Letters, OneLine

LEMMA FoundIsTyped ==
    ASSUME NEW s \in Written, NEW q \in Seq(Chars)
    PROVE  FindMatches(s, q) \in Seq(FoundMatch)
  <1>1. CASE q = << >>
    BY <1>1 DEF FindMatches
  <1>2. CASE q # << >>
    <2>1. q \in Seq(Letters) /\ OneLine(q) /\ s \in Seq(Letters)
      BY QueryIs DEF Written
    <2>2. Len(q) >= 1
      BY <1>2
    <2>3. TextOf(FindMatches(s, q), s, q, Len(LineStarts(s)))
      BY <2>1, <2>2, FoundInText
    <2> QED
      BY <2>3 DEF TextOf
  <1> QED
    BY <1>1, <1>2

LEMMA TextsInit == FindInit => TextsInv
  <1> SUFFICES ASSUME FindInit PROVE TextsInv
    OBVIOUS
  <1>1. source \in [Editors -> Written]
    BY FindReplaceAssumption DEF FindInit, Written, Letters
  <1>2. Default.query = << >>
    BY DEF Default
  <1> QED
    BY <1>1, <1>2 DEF FindInit, TextsInv

LEMMA TextsElse ==
    ASSUME TextsInv, UNCHANGED <<query, repl, last, source, buf, sent, matches>>,
           peers' \subseteq Editors
    PROVE  TextsInv'
  BY DEF TextsInv

LEMMA BeginTexts ==
    ASSUME TextsInv, NEW key, NEW clicks, Begin(key, clicks)
    PROVE  TextsInv'
  <1>1. /\ sent' = [e \in Editors |-> Nothing] /\ Typed(key)
        /\ UNCHANGED <<query, repl, last, source, matches, peers>>
    BY DEF Begin, panel, shown
  <1>2. Delivered \in [Editors -> Written]
    BY DEF Delivered, TextsInv
  <1>3. buf' \in [Editors -> Written]
    <2>1. CASE focus = Nothing \/ key \notin Chars \union {"enter"}
      BY <1>1, <1>2, <2>1 DEF Typed
    <2>2. CASE ~(focus = Nothing \/ key \notin Chars \union {"enter"})
      <3> DEFINE letter == IF key = "enter" THEN Newline ELSE key
                 new(t, k) == SubSeq(t, 1, k) \o <<letter>> \o SubSeq(t, k + 1, Len(t))
      <3>1. letter \in Letters
        BY <2>2 DEF Letters
      <3>2. PICK k \in {0, Len(Delivered[focus])} :
                buf' = [Delivered EXCEPT ![focus] = new(@, k)]
        BY <1>1, <2>2 DEF Typed
      <3>3. CASE focus \in Editors
        <4> DEFINE t == Delivered[focus]
        <4>1. t \in Seq(Letters) /\ k \in {0, Len(t)}
          BY <1>2, <3>2, <3>3 DEF Written
        <4> HIDE DEF t, letter
        <4>2. new(t, k) \in Seq(Letters)
          <5>1. SubSeq(t, 1, k) \in Seq(Letters) /\ SubSeq(t, k + 1, Len(t)) \in Seq(Letters)
            BY <4>1
          <5> QED
            BY <3>1, <5>1
        <4> HIDE DEF new
        <4>3. buf' = [Delivered EXCEPT ![focus] = new(t, k)]
          BY <3>2 DEF t
        <4> QED
          BY <1>2, <4>2, <4>3 DEF Written
      <3>4. CASE focus \notin Editors
        BY <1>2, <3>2, <3>4
      <3> QED
        BY <3>3, <3>4
    <2> QED
      BY <2>1, <2>2
  <1> QED
    BY <1>1, <1>3 DEF TextsInv

LEMMA EditedIs ==
    ASSUME NEW t \in Seq(Chars)
    PROVE  Edited(t) \in Seq(Chars)
  BY DEF Edited, Front

LEMMA FieldInputTexts == TextsInv /\ FieldInput => TextsInv'
  <1> SUFFICES ASSUME TextsInv, FieldInput PROVE TextsInv'
    OBVIOUS
  <1>1. UNCHANGED <<last, source, buf, sent, matches, peers>>
    BY DEF FieldInput, shown, texts
  <1>2. query' \in {query, Edited(query)} /\ repl' \in {repl, Edited(repl)}
    BY DEF FieldInput, panel, Dismiss
  <1>3. query' \in Seq(Chars) /\ repl' \in Seq(Chars)
    BY <1>2, EditedIs DEF TextsInv
  <1> QED
    BY <1>1, <1>3 DEF TextsInv

LEMMA ComputeTexts ==
    ASSUME AliveInv, TextsInv, Compute
    PROVE  TextsInv'
  <1>1. UNCHANGED <<source, buf, sent, peers>>
    BY DEF Compute
  <1>2. CASE Orphaned
    <2>1. query' = << >> /\ repl' = << >> /\ matches' = << >> /\ last' = Default
      BY <1>2 DEF Compute, Forget
    <2>2. Default.query = << >>
      BY DEF Default
    <2> QED
      BY <1>1, <2>1, <2>2 DEF TextsInv
  <1>3. CASE ~Orphaned
    <2> DEFINE changed == last # Inputs \/ fragChanged # {}
    <2>1. Recompute(changed)
      BY <1>3, Zenon DEF Compute
    <2>2. query' = query /\ repl' = repl
      BY <2>1 DEF Recompute, panel
    <2>3. last' \in {Inputs, last} /\ Inputs.query = query
      BY <2>1 DEF Recompute, Inputs
    <2>4. matches' \in Seq(FoundMatch)
      <3>1. \/ matches' \in {matches, << >>}
            \/ target \in roots /\ matches' = FindMatches(source[target], query)
        BY <2>1 DEF Recompute, shown
      <3>2. target \in roots => source[target] \in Written
        BY DEF AliveInv, WindowsHaveWidgets, TextsInv
      <3>3. query \in Seq(Chars) /\ matches \in Seq(FoundMatch) /\ << >> \in Seq(FoundMatch)
        BY DEF TextsInv
      <3>4. target \in roots => FindMatches(source[target], query) \in Seq(FoundMatch)
        BY <3>2, <3>3, FoundIsTyped
      <3> QED
        BY <3>1, <3>3, <3>4
    <2> QED
      BY <1>1, <2>2, <2>3, <2>4 DEF TextsInv
  <1> QED
    BY <1>2, <1>3

LEMMA ReplaceTexts ==
    ASSUME AliveInv, TextsInv, IndexInv, Replace
    PROVE  TextsInv'
  <1> DEFINE text == ApplyReplacement(source[target], Chosen, repl)
  <1>1. UNCHANGED <<query, repl, last, source, buf, matches, peers>>
    BY DEF Replace, panel, shown, texts
  <1>2. sent' = sent \/ (target \in roots /\ sent' = [sent EXCEPT ![target] = text])
    BY DEF Replace
  <1>3. ASSUME target \in roots PROVE text \in Written
    <2>1. source[target] \in Seq(Letters) /\ repl \in Seq(Letters)
      BY <1>3, QueryIs DEF AliveInv, WindowsHaveWidgets, TextsInv, Written
    <2>2. Chosen \in Seq(FoundMatch)
      <3>1. matches \in Seq(FoundMatch) /\ current \in Nat /\ << >> \in Seq(FoundMatch)
        BY DEF TextsInv, IndexInv
      <3>2. current < Len(matches) => current + 1 \in 1 .. Len(matches)
        BY <3>1
      <3>3. current < Len(matches) => <<matches[current + 1]>> \in Seq(FoundMatch)
        BY <3>1, <3>2
      <3> QED
        BY <3>1, <3>3 DEF Chosen
    <2> QED
      BY <2>1, <2>2, ReplacementIs DEF Written
  <1> HIDE DEF text
  <1>4. sent' \in [Editors -> Written \union {Nothing}]
    BY <1>2, <1>3 DEF TextsInv
  <1> QED
    BY <1>1, <1>4 DEF TextsInv

LEMMA ToFragmentTexts == TextsInv /\ ToFragment => TextsInv'
  <1> SUFFICES ASSUME TextsInv, ToFragment PROVE TextsInv'
    OBVIOUS
  <1>1. UNCHANGED <<query, repl, last, buf, sent, matches, peers>>
    BY DEF ToFragment, panel, shown
  <1>2. source' \in [Editors -> Written]
    BY DEF ToFragment, TextsInv
  <1> QED
    BY <1>1, <1>2 DEF TextsInv

LEMMA CloseTexts ==
    ASSUME TextsInv, NEW e, CloseEditorWindow(e)
    PROVE  TextsInv'
  <1>1. UNCHANGED <<query, repl, last, buf, sent, matches, peers>>
    BY DEF CloseEditorWindow, panel, shown
  <1>2. source' \in [Editors -> Written]
    <2>1. << >> \in Written
      BY DEF Written
    <2> QED
      BY <2>1 DEF CloseEditorWindow, TextsInv
  <1> QED
    BY <1>1, <1>2 DEF TextsInv

LEMMA TextsStep == AliveInv /\ TextsInv /\ IndexInv /\ [FindNext]_findVars => TextsInv'
  <1> SUFFICES ASSUME AliveInv, TextsInv, IndexInv, [FindNext]_findVars PROVE TextsInv'
    OBVIOUS
  <1>0. peers \subseteq Editors /\ roots \subseteq Editors
    BY DEF AliveInv, WindowsHaveWidgets, TextsInv
  <1>1. ASSUME NEW key, NEW clicks, Begin(key, clicks) PROVE TextsInv'
    BY <1>1, BeginTexts
  <1>2. ASSUME NEW e, ClickEditor(e) PROVE TextsInv'
    BY <1>0, <1>2, TextsElse DEF ClickEditor, panel, shown, texts
  <1>3. ASSUME NEW e, CloseEditorWindow(e) PROVE TextsInv'
    BY <1>3, CloseTexts
  <1>4. CASE Keyboard
    <2>1. query' = query /\ repl' = repl
      BY <1>4 DEF Keyboard, panel, Dismiss
    <2> QED
      BY <1>0, <1>4, <2>1, TextsElse DEF Keyboard, shown, texts
  <1>5. CASE FieldInput
    BY <1>5, FieldInputTexts
  <1>6. CASE Compute
    BY <1>6, ComputeTexts
  <1>7. CASE Navigate
    BY <1>0, <1>7, TextsElse DEF Navigate, panel, texts
  <1>8. CASE Replace
    BY <1>8, ReplaceTexts
  <1>9. CASE ToFragment
    BY <1>9, ToFragmentTexts
  <1>10. CASE Cleanup
    BY <1>0, <1>10, TextsElse DEF Cleanup, panel, shown, texts
  <1>11. CASE UNCHANGED findVars
    BY <1>0, <1>11, TextsElse DEF findVars, panel, shown, texts
  <1> QED
    BY <1>1, <1>2, <1>3, <1>4, <1>5, <1>6, <1>7, <1>8, <1>9, <1>10, <1>11
       DEF FindNext, Person, FrameSystem

LEMMA IndexElse == IndexInv /\ UNCHANGED shown => IndexInv'
  BY DEF IndexInv, shown

LEMMA ComputeIndex ==
    ASSUME AliveInv, TextsInv, IndexInv, Compute
    PROVE  IndexInv'
  <1>1. CASE Orphaned
    <2>1. matches' = << >> /\ current' = 0
      BY <1>1 DEF Compute, Forget
    <2> QED
      BY <2>1 DEF IndexInv
  <1>2. CASE ~Orphaned
    <2> DEFINE changed == last # Inputs \/ fragChanged # {}
               found == FindMatches(source[target], query)
               kept == IF last.query # query \/ last.target # target THEN 0 ELSE current
    <2>1. Recompute(changed)
      BY <1>2, Zenon DEF Compute
    <2>2. \/ UNCHANGED shown
          \/ matches' = << >> /\ current' = 0
          \/ /\ target \in roots /\ matches' = found
             /\ current' = IF kept < Len(found) THEN kept
                           ELSE IF found = << >> THEN 0 ELSE Len(found) - 1
      BY <2>1 DEF Recompute
    <2>3. target \in roots => found \in Seq(FoundMatch)
      <3>1. target \in roots => source[target] \in Written
        BY DEF AliveInv, WindowsHaveWidgets, TextsInv
      <3>2. query \in Seq(Chars)
        BY DEF TextsInv
      <3> QED
        BY <3>1, <3>2, FoundIsTyped
    <2>4. kept \in Nat
      BY DEF IndexInv
    <2> HIDE DEF found, kept
    <2>5. CASE UNCHANGED shown
      BY <2>5, IndexElse
    <2>6. CASE matches' = << >> /\ current' = 0
      BY <2>6 DEF IndexInv
    <2>7. CASE /\ target \in roots /\ matches' = found
               /\ current' = IF kept < Len(found) THEN kept
                             ELSE IF found = << >> THEN 0 ELSE Len(found) - 1
      <3>1. found \in Seq(FoundMatch)
        BY <2>3, <2>7
      <3>2. found = << >> \/ Len(found) >= 1
        BY <3>1
      <3>3. Len(found) \in Nat /\ Len(<< >>) = 0
        BY <3>1
      <3>4. current' \in Nat /\ (current' < Len(found) \/ (found = << >> /\ current' = 0))
        BY <2>4, <2>7, <3>2, <3>3
      <3> QED
        BY <2>7, <3>4 DEF IndexInv
    <2> QED
      BY <2>2, <2>5, <2>6, <2>7
  <1> QED
    BY <1>1, <1>2

LEMMA NavigateIndex ==
    ASSUME TextsInv, IndexInv, Navigate
    PROVE  IndexInv'
  <1> DEFINE n == Len(matches)
  <1>1. matches' = matches
    BY DEF Navigate
  <1>2. \/ current' = current
        \/ n > 0 /\ current' \in {(current + 1) % n, (current + n - 1) % n}
    BY DEF Navigate
  <1>3. n \in Nat /\ current \in Nat
    BY DEF TextsInv, IndexInv
  <1>4. CASE current' = current
    BY <1>1, <1>4 DEF IndexInv
  <1>5. CASE n > 0 /\ current' \in {(current + 1) % n, (current + n - 1) % n}
    <2>1. current + 1 \in Nat /\ current + n - 1 \in Nat /\ n \in Nat \ {0}
      BY <1>3, <1>5
    <2> HIDE DEF n
    <2>2. \A j \in Nat : j % n \in Nat /\ j % n < n
      BY <2>1
    <2>3. current' \in Nat /\ current' < n
      BY <1>5, <2>1, <2>2
    <2> QED
      BY <1>1, <2>3 DEF IndexInv, n
  <1> QED
    BY <1>2, <1>4, <1>5

LEMMA IndexStep == AliveInv /\ TextsInv /\ IndexInv /\ [FindNext]_findVars => IndexInv'
  <1> SUFFICES ASSUME AliveInv, TextsInv, IndexInv, [FindNext]_findVars PROVE IndexInv'
    OBVIOUS
  <1>1. ASSUME NEW key, NEW clicks, Begin(key, clicks) PROVE IndexInv'
    BY <1>1, IndexElse DEF Begin
  <1>2. ASSUME NEW e, ClickEditor(e) PROVE IndexInv'
    BY <1>2, IndexElse DEF ClickEditor
  <1>3. ASSUME NEW e, CloseEditorWindow(e) PROVE IndexInv'
    BY <1>3, IndexElse DEF CloseEditorWindow
  <1>4. CASE Keyboard
    BY <1>4, IndexElse DEF Keyboard
  <1>5. CASE FieldInput
    BY <1>5, IndexElse DEF FieldInput
  <1>6. CASE Compute
    BY <1>6, ComputeIndex
  <1>7. CASE Navigate
    BY <1>7, NavigateIndex
  <1>8. CASE Replace
    BY <1>8, IndexElse DEF Replace
  <1>9. CASE ToFragment
    BY <1>9, IndexElse DEF ToFragment
  <1>10. CASE Cleanup
    BY <1>10, IndexElse DEF Cleanup
  <1>11. CASE UNCHANGED findVars
    BY <1>11, IndexElse DEF findVars
  <1> QED
    BY <1>1, <1>2, <1>3, <1>4, <1>5, <1>6, <1>7, <1>8, <1>9, <1>10, <1>11
       DEF FindNext, Person, FrameSystem

PanelInv == AliveInv /\ MatchInv /\ TextsInv /\ IndexInv

LEMMA PanelAlways == FindSpec => []PanelInv
  <1>1. FindInit => PanelInv
    BY AliveInit, MatchInit, TextsInit DEF PanelInv, IndexInv, FindInit
  <1>2. PanelInv /\ [FindNext]_findVars => PanelInv'
    BY AliveStep, MatchStep, TextsStep, IndexStep DEF PanelInv
  <1> QED
    BY <1>1, <1>2, PTL DEF FindSpec

\* What is found in a text has its ranges at the places where the query counts.
LEMMA FoundHasItsPlaces ==
    ASSUME NEW s \in Written, NEW q \in Seq(Chars)
    PROVE  LET r == Ranges(s, FindMatches(s, q))
           IN  {r[i].from + 1 : i \in DOMAIN r} = Places(s, q)
  <1> DEFINE M == FindMatches(s, q)
             r == Ranges(s, M)
  <1>1. CASE q = << >>
    <2>1. M = << >>
      BY <1>1 DEF FindMatches
    <2>2. InText(s, << >>)
      BY DEF InText
    <2>3. r \in Seq(TextRange) /\ Len(r) = Len(<< >>)
      BY <2>1, <2>2, RangesAre DEF Written
    <2>4. DOMAIN r = {}
      BY <2>3
    <2> QED
      BY <1>1, <2>4 DEF Places
  <1>2. CASE q # << >>
    <2>1. s \in Seq(Letters) /\ q \in Seq(Letters) /\ OneLine(q) /\ Len(q) >= 1
      BY <1>2, QueryIs DEF Written
    <2>2. TextOf(M, s, q, Len(LineStarts(s)))
      BY <2>1, FoundInText
    <2>3. Places(s, q) = PlacesOf(s, M)
      BY <2>1, PlacesAre
    <2> HIDE DEF M
    <2>4. InText(s, M)
      BY <2>2 DEF TextOf, InText
    <2>5. /\ r \in Seq(TextRange) /\ Len(r) = Len(M)
          /\ \A i \in 1 .. Len(M) : r[i] = Absolute(LineStarts(s), M[i])
      BY <2>1, <2>4, RangesAre
    <2>6. \A i \in 1 .. Len(M) : r[i].from = AbsAt(s, M[i])
      <3>1. \A i \in 1 .. Len(M) : M[i] \in FoundMatch /\ M[i].line \in 1 .. Len(LineStarts(s))
        BY <2>4 DEF InText
      <3> QED
        BY <2>1, <2>5, <3>1, AbsoluteIs
    <2> HIDE DEF r
    <2>7. DOMAIN r = 1 .. Len(M)
      BY <2>5
    <2>8. {r[i].from + 1 : i \in DOMAIN r} = PlacesOf(s, M)
      BY <2>6, <2>7 DEF PlacesOf
    <2> QED
      BY <2>3, <2>8 DEF r, M
  <1> QED
    BY <1>1, <1>2

\* Once nothing is on its way the matches of an open panel are exactly the
\* occurrences of the query in the text of its target that do not overlap an
\* earlier one, whatever was typed, replaced, closed or searched before, and the
\* match it steps to is one of them.
THEOREM ShownAlwaysFound == FindSpec => []ShownIsFound
  <1>1. PanelInv => ShownIsFound
    <2> SUFFICES ASSUME PanelInv, AtRest, open, target # Nothing
                 PROVE  /\ LET r == Ranges(source[target], matches)
                           IN  {r[i].from + 1 : i \in DOMAIN r} = Places(source[target], query)
                        /\ current < Len(matches) \/ (matches = << >> /\ current = 0)
      BY DEF ShownIsFound
    <2>1. matches = FindMatches(source[target], query)
      BY RestHasMatches DEF PanelInv
    <2>2. source[target] \in Written /\ query \in Seq(Chars)
      <3>1. target \in Editors
        BY DEF PanelInv, AliveInv, FocusIsAlive, TextsInv
      <3> QED
        BY <3>1 DEF PanelInv, TextsInv
    <2>3. LET r == Ranges(source[target], matches)
          IN  {r[i].from + 1 : i \in DOMAIN r} = Places(source[target], query)
      BY <2>1, <2>2, FoundHasItsPlaces
    <2> QED
      BY <2>3 DEF PanelInv, IndexInv
  <1> QED
    BY <1>1, PanelAlways, PTL

-----------------------------------------------------------------------------
(* Replacements clicked at rest                                            *)

IsFrame ==
    frame = [todo |-> frame.todo, key |-> frame.key, clicks |-> frame.clicks,
             kept |-> frame.kept, calm |-> frame.calm]

\* A frame that began at rest finds what was at rest as it was, until it ends.
CalmNow ==
    /\ last = Inputs /\ fragChanged = {} /\ roots = peers
    /\ frame.todo # {} /\ frame.todo \subseteq {"compute", "navigate", "replace"}
    /\ "replace" \in frame.todo =>
           frame.kept = {} /\ \E button \in Replacing : frame.clicks = {button}

CalmInv == IsFrame /\ (frame.calm => CalmNow)

LEMMA CalmInit == FindInit => CalmInv
  BY DEF FindInit, CalmInv, IsFrame, Idle

LEMMA CalmElse ==
    ASSUME CalmInv, UNCHANGED <<query, open, target, last, fragChanged, roots, peers, frame>>
    PROVE  CalmInv'
  BY DEF CalmInv, IsFrame, CalmNow, Inputs

\* Nothing of a window is touched between two frames of which one is calm.
LEMMA CalmIdle == CalmInv /\ frame.todo = {} => ~frame.calm
  BY DEF CalmInv, CalmNow

LEMMA BeginCalm ==
    ASSUME TextsInv, NEW key, NEW clicks, Begin(key, clicks),
           clicks = {} \/ \E button \in Buttons : clicks = {button}
    PROVE  CalmInv'
  <1>1. /\ UNCHANGED <<query, open, target, last, roots, peers, fragChanged>>
        /\ bufChanged' = bufChanged \union {e \in peers : buf'[e] # buf[e]}
        /\ Typed(key)
    BY DEF Begin, panel
  <1>2. frame' = [todo |-> {"compute"}
                     \union (IF bufChanged' = {} THEN {} ELSE {"toFragment"})
                     \union (IF key \in {"find", "escape"} THEN {"keyboard"} ELSE {})
                     \union (IF key = "none" THEN {} ELSE {"field"})
                     \union (IF key \in NavKeys \/ clicks \union frame.kept # {} THEN {"navigate"} ELSE {})
                     \union (IF Replacing \intersect (clicks \union frame.kept) # {} THEN {"replace"} ELSE {})
                     \union (IF roots # peers THEN {"cleanup"} ELSE {}),
                 key |-> key, clicks |-> clicks, kept |-> frame.kept,
                 calm |-> AtRest /\ frame.kept = {} /\ key = "none"]
    BY DEF Begin
  <1>3. IsFrame'
    BY <1>2 DEF IsFrame
  <1>4. ASSUME AtRest, frame.kept = {}, key = "none" PROVE CalmNow'
    <2>1. last = Inputs /\ fragChanged = {} /\ bufChanged = {} /\ roots = peers
      BY <1>4 DEF AtRest
    <2>2. bufChanged' = {}
      <3>1. buf' = Delivered
        BY <1>1, <1>4, FindReplaceAssumption DEF Typed
      <3>2. \A e \in peers : buf'[e] = buf[e]
        BY <1>4, <3>1 DEF Delivered, AtRest, TextsInv
      <3> QED
        BY <1>1, <2>1, <3>2
    <2>3. last' = Inputs' /\ fragChanged' = {} /\ roots' = peers'
      BY <1>1, <2>1 DEF Inputs
    <2>4. frame'.todo = {"compute"} \union (IF clicks # {} THEN {"navigate"} ELSE {})
                          \union (IF Replacing \intersect clicks # {} THEN {"replace"} ELSE {})
      BY <1>2, <1>4, <2>1, <2>2 DEF NavKeys
    <2>5. frame'.todo # {} /\ frame'.todo \subseteq {"compute", "navigate", "replace"}
      BY <2>4
    <2>6. "replace" \in frame'.todo => Replacing \intersect clicks # {}
      BY <2>4
    <2>7. frame'.kept = {} /\ frame'.clicks = clicks
      BY <1>2, <1>4
    <2>8. Replacing \intersect clicks # {} => \E button \in Replacing : clicks = {button}
      OBVIOUS
    <2> QED
      BY <2>3, <2>5, <2>6, <2>7, <2>8 DEF CalmNow
  <1>5. frame'.calm => AtRest /\ frame.kept = {} /\ key = "none"
    BY <1>2
  <1> QED
    BY <1>3, <1>4, <1>5 DEF CalmInv

LEMMA LeavingIs ==
    ASSUME IsFrame, NEW s, s \in frame.todo, NEW kept, Leaving(s, kept)
    PROVE  /\ IsFrame'
           /\ frame'.calm => /\ frame.calm /\ frame'.todo = frame.todo \ {s}
                             /\ frame'.todo # {} /\ frame'.clicks = frame.clicks
                             /\ frame'.kept = kept
  <1>1. CASE frame.todo = {s}
    <2>1. frame' = [todo |-> {}, key |-> "none", clicks |-> {}, kept |-> kept, calm |-> FALSE]
      BY <1>1 DEF Leaving, Idle
    <2> QED
      BY <2>1 DEF IsFrame
  <1>2. CASE frame.todo # {s}
    <2>1. frame' = [todo |-> frame.todo \ {s}, key |-> frame.key, clicks |-> frame.clicks,
                    kept |-> kept, calm |-> frame.calm]
      BY <1>2 DEF Leaving, IsFrame
    <2>2. frame.todo \ {s} # {}
      BY <1>2
    <2> QED
      BY <2>1, <2>2 DEF IsFrame
  <1> QED
    BY <1>1, <1>2

\* A system that a calm frame does not run.
LEMMA OtherCalm ==
    ASSUME CalmInv, NEW s, s \in frame.todo, s \notin {"compute", "navigate", "replace"},
           NEW kept, Leaving(s, kept)
    PROVE  CalmInv'
  <1>1. ~frame.calm
    BY DEF CalmInv, CalmNow
  <1> QED
    BY <1>1, LeavingIs DEF CalmInv

\* One that it runs, and that leaves what it rests on.
LEMMA CalmGoesOn ==
    ASSUME CalmInv, NEW s, s \in frame.todo, NEW kept, Leaving(s, kept),
           frame.calm => last' = last /\ Inputs' = Inputs /\ fragChanged' = {}
                         /\ roots' = roots /\ peers' = peers,
           frame.calm /\ "replace" \in frame.todo \ {s} => kept = {}
    PROVE  CalmInv'
  <1>1. /\ IsFrame'
        /\ frame'.calm => /\ frame.calm /\ frame'.todo = frame.todo \ {s}
                          /\ frame'.todo # {} /\ frame'.clicks = frame.clicks
                          /\ frame'.kept = kept
    BY LeavingIs DEF CalmInv
  <1>2. ASSUME frame'.calm PROVE CalmNow'
    BY <1>1, <1>2 DEF CalmInv, CalmNow
  <1> QED
    BY <1>1, <1>2 DEF CalmInv

LEMMA ComputeCalm ==
    ASSUME AliveInv, CalmInv, Compute
    PROVE  CalmInv'
  <1>1. "compute" \in frame.todo /\ Leaving("compute", frame.kept)
    BY DEF Compute, Run, Ran
  <1>2. roots' = roots /\ peers' = peers /\ fragChanged' = {}
    BY DEF Compute
  <1>3. ASSUME frame.calm PROVE last' = last /\ Inputs' = Inputs
    <2>1. ~(last # Inputs \/ fragChanged # {})
      BY <1>3 DEF CalmInv, CalmNow
    <2>2. ~Orphaned
      BY DEF AliveInv, FocusIsAlive, Orphaned
    <2>3. Recompute(last # Inputs \/ fragChanged # {})
      BY <2>2, Zenon DEF Compute
    <2>4. last' = last /\ UNCHANGED <<panel, open, target>>
      BY <2>1, <2>3 DEF Recompute
    <2> QED
      BY <2>4 DEF panel, Inputs
  <1>4. frame.calm /\ "replace" \in frame.todo \ {"compute"} => frame.kept = {}
    BY DEF CalmInv, CalmNow
  <1> QED
    BY <1>1, <1>2, <1>3, <1>4, CalmGoesOn

LEMMA NavigateCalm ==
    ASSUME CalmInv, Navigate
    PROVE  CalmInv'
  <1> DEFINE n == Len(matches)
             read == open /\ n > 0
             kept == (frame.kept \ Stepping)
                     \union (IF read THEN {} ELSE frame.clicks \intersect Stepping)
  <1>1. "navigate" \in frame.todo /\ Leaving("navigate", kept)
    BY DEF Navigate, Run, RanReading
  <1>2. UNCHANGED <<query, open, target, last, fragChanged, roots, peers>>
    BY DEF Navigate, panel, texts
  <1>3. ASSUME frame.calm, "replace" \in frame.todo \ {"navigate"} PROVE kept = {}
    <2>1. frame.kept = {} /\ \E button \in Replacing : frame.clicks = {button}
      BY <1>3 DEF CalmInv, CalmNow
    <2> QED
      BY <2>1 DEF Replacing, Stepping
  <1> HIDE DEF kept
  <1>4. Inputs' = Inputs
    BY <1>2 DEF Inputs
  <1>5. frame.calm => fragChanged' = {}
    BY <1>2 DEF CalmInv, CalmNow
  <1> QED
    BY <1>1, <1>2, <1>3, <1>4, <1>5, CalmGoesOn

LEMMA ReplaceCalm ==
    ASSUME CalmInv, Replace
    PROVE  CalmInv'
  <1> DEFINE kept == (frame.kept \ Replacing)
                     \union (IF open THEN {} ELSE frame.clicks \intersect Replacing)
  <1>1. "replace" \in frame.todo /\ Leaving("replace", kept)
    BY DEF Replace, Run, RanReading
  <1>2. UNCHANGED <<query, open, target, last, fragChanged, roots, peers>>
    BY DEF Replace, panel, texts
  <1> HIDE DEF kept
  <1>3. Inputs' = Inputs
    BY <1>2 DEF Inputs
  <1>4. frame.calm => fragChanged' = {}
    BY <1>2 DEF CalmInv, CalmNow
  <1> QED
    BY <1>1, <1>2, <1>3, <1>4, CalmGoesOn

LEMMA CalmStep == AliveInv /\ TextsInv /\ CalmInv /\ [FindNext]_findVars => CalmInv'
  <1> SUFFICES ASSUME AliveInv, TextsInv, CalmInv, [FindNext]_findVars PROVE CalmInv'
    OBVIOUS
  <1>1. ASSUME NEW key \in Keys \union {"none"}, Begin(key, {}) PROVE CalmInv'
    BY <1>1, BeginCalm
  <1>2. ASSUME NEW button \in Buttons, Begin("none", {button}) PROVE CalmInv'
    BY <1>2, BeginCalm
  <1>3. ASSUME NEW e, ClickEditor(e) PROVE CalmInv'
    BY <1>3, CalmElse DEF ClickEditor, panel, texts
  <1>4. ASSUME NEW e, CloseEditorWindow(e) PROVE CalmInv'
    BY <1>4, CalmIdle DEF CloseEditorWindow, CalmInv, IsFrame
  <1>5. CASE Keyboard
    BY <1>5, OtherCalm DEF Keyboard, Run, Ran
  <1>6. CASE FieldInput
    BY <1>6, OtherCalm DEF FieldInput, Run, Ran
  <1>7. CASE Compute
    BY <1>7, ComputeCalm
  <1>8. CASE Navigate
    BY <1>8, NavigateCalm
  <1>9. CASE Replace
    BY <1>9, ReplaceCalm
  <1>10. CASE ToFragment
    BY <1>10, OtherCalm DEF ToFragment, Run, Ran
  <1>11. CASE Cleanup
    BY <1>11, OtherCalm DEF Cleanup, Run, Ran
  <1>12. CASE UNCHANGED findVars
    BY <1>12, CalmElse DEF findVars, panel, texts
  <1> QED
    BY <1>1, <1>2, <1>3, <1>4, <1>5, <1>6, <1>7, <1>8, <1>9, <1>10, <1>11, <1>12
       DEF FindNext, Person, FrameSystem

LEMMA CalmAlways == FindSpec => []CalmInv
  <1>1. PanelInv /\ CalmInv /\ [FindNext]_findVars => CalmInv'
    BY CalmStep DEF PanelInv
  <1> QED
    BY <1>1, CalmInit, PanelAlways, PTL DEF FindSpec

\* The text a calm frame sends.
LEMMA ReplaceSends ==
    ASSUME PanelInv, CalmInv, Replace, frame.calm,
           NEW e \in Editors, sent'[e] # sent[e]
    PROVE  /\ e = target
           /\ sent'[e] = Substituted(source[e], query, repl,
                  IF "all" \in frame.clicks THEN Places(source[e], query)
                  ELSE NthOf(Places(source[e], query), current))
  <1> DEFINE s == source[target]
             text == ApplyReplacement(s, Chosen, repl)
  <1>1. /\ open /\ matches # << >> /\ target \in roots
        /\ sent' = [sent EXCEPT ![target] = text]
    BY DEF Replace
  <1>2. e = target /\ sent'[e] = text
    BY <1>1 DEF PanelInv, TextsInv
  <1>3. /\ last = Inputs /\ fragChanged = {} /\ frame.kept = {}
    <2>1. "replace" \in frame.todo
      BY DEF Replace, Run
    <2> QED
      BY <2>1 DEF CalmInv, CalmNow
  <1>4. matches = FindMatches(s, query)
    <2>1. last.open = open /\ last.target = target /\ last.query = query
      BY <1>3 DEF Inputs
    <2> QED
      BY <1>1, <1>3, <2>1 DEF PanelInv, MatchInv, MatchesFollow
  <1>5. s \in Seq(Letters) /\ query \in Seq(Letters) /\ OneLine(query) /\ repl \in Seq(Letters)
    <2>1. query \in Seq(Chars) /\ repl \in Seq(Chars) /\ s \in Written
      BY <1>2 DEF PanelInv, TextsInv
    <2> QED
      BY <2>1, QueryIs DEF Written
  <1>6. Len(query) >= 1
    <2>1. query # << >>
      BY <1>1, <1>4 DEF FindMatches
    <2> QED
      BY <1>5, <2>1
  <1>7. Clicked = frame.clicks
    BY <1>3 DEF Clicked
  <1>8. current \in Nat /\ current < Len(matches)
    BY <1>1 DEF PanelInv, IndexInv
  <1> HIDE DEF s
  <1>9. CASE "all" \in frame.clicks
    <2>1. text = ApplyReplacement(s, FindMatches(s, query), repl)
      BY <1>4, <1>7, <1>9 DEF Chosen
    <2>2. text = Substituted(s, query, repl, Places(s, query))
      BY <1>5, <1>6, <2>1, AllReplaced
    <2> QED
      BY <1>2, <1>9, <2>2 DEF s
  <1>10. CASE "all" \notin frame.clicks
    <2>1. text = ApplyReplacement(s, <<FindMatches(s, query)[current + 1]>>, repl)
      BY <1>4, <1>7, <1>8, <1>10 DEF Chosen
    <2>2. current \in Nat /\ current < Len(FindMatches(s, query))
      BY <1>4, <1>8
    <2>3. text = Substituted(s, query, repl, NthOf(Places(s, query), current))
      BY <1>5, <1>6, <2>1, <2>2, NthReplaced
    <2> QED
      BY <1>2, <1>10, <2>3 DEF s
  <1> QED
    BY <1>9, <1>10

\* A replacement that is clicked when nothing is on its way gives the target, and
\* no other editor, its text with the occurrence that is shown replaced, or with
\* all of them, letter by letter, in whatever order the systems of the frame run.
THEOREM ReplaceAlwaysExact == FindSpec => ReplaceIsExact
  <1>1. ASSUME PanelInv, CalmInv, [FindNext]_findVars,
               NEW e \in Editors, sent'[e] # sent[e], sent'[e] # Nothing, frame.calm
        PROVE  LET places == Places(source[e], query)
                   nth    == {p \in places : Cardinality({o \in places : o < p}) = current}
               IN  e = target /\ sent'[e] = Substituted(source[e], query, repl,
                       IF "all" \in frame.clicks THEN places ELSE nth)
    <2>1. Replace
      <3>1. ASSUME NEW key, NEW clicks, Begin(key, clicks) PROVE FALSE
        BY <1>1, <3>1 DEF Begin
      <3>2. sent' # sent
        BY <1>1
      <3>3. ASSUME NEW a, ClickEditor(a) \/ CloseEditorWindow(a) PROVE FALSE
        BY <3>2, <3>3 DEF ClickEditor, CloseEditorWindow
      <3>4. ~(Keyboard \/ FieldInput \/ Compute \/ Navigate \/ ToFragment \/ Cleanup)
        BY <3>2 DEF Keyboard, FieldInput, Compute, Navigate, ToFragment, Cleanup
      <3>5. ~UNCHANGED findVars
        BY <3>2 DEF findVars
      <3> QED
        BY <1>1, <3>1, <3>3, <3>4, <3>5 DEF FindNext, Person, FrameSystem
    <2> QED
      BY <1>1, <2>1, ReplaceSends DEF NthOf
  <1>2. PanelInv /\ CalmInv /\ [FindNext]_findVars
          => [\A e \in Editors : sent'[e] # sent[e] /\ sent'[e] # Nothing /\ frame.calm =>
                LET places == Places(source[e], query)
                    nth    == {p \in places : Cardinality({o \in places : o < p}) = current}
                IN  e = target /\ sent'[e] = Substituted(source[e], query, repl,
                        IF "all" \in frame.clicks THEN places ELSE nth)]_findVars
    BY <1>1
  <1> QED
    BY <1>2, PanelAlways, CalmAlways, PTL DEF FindSpec, ReplaceIsExact
=============================================================================
