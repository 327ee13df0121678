---------------------------- MODULE HistoryProofs ----------------------------
(***************************************************************************)
(* Proofs about the history of edits: that it records again after an undo,  *)
(* and that it tells the truth about the windows. The windows that are      *)
(* there differ from those the record gives only for the one window an undo *)
(* is on its way to; where that one stands is said by Reached. The record   *)
(* is played by a recursive function; that a function which steps like it   *)
(* is that function is shown by the least entry where the two would differ. *)
(***************************************************************************)
EXTENDS EditHistory, WellFoundedInduction, TLAPS

(* What the state holds while nothing was typed at the wrong time *)

\* Texts are numbered as they are typed: those up to n are there.
Numbers(n) == 0 .. n
Pos == {0, 1}
Shape(n) == [src : Numbers(n), pos : Pos]
Window(n) == [src : Numbers(n), pos : Pos, buf : Numbers(n) \union {None},
              seed : Numbers(n) \union {None}, told : Numbers(n) \union {None}]
Regions == Keys \ {0}
\* What may be known of the window of a key: the panel has no text.
Known(n, k) == {s \in Shape(n) : k = 0 => s.src = 0} \union {None}
Worlds(n) == {w \in [Keys -> Shape(n) \union {None}] : \A k \in Keys : w[k] \in Known(n, k)}

Texts(n) == [kind : {"text"}, key : Regions, before : Numbers(n), after : Numbers(n)]
Moves == [kind : {"move"}, key : Keys, before : Pos, after : Pos]
Spawns == [kind : {"spawn"}, key : Keys, before : {None}, after : {Blank}]
Despawns(n) == {e \in [kind : {"despawn"}, key : Keys, before : Shape(n), after : {None}] :
                   e.before \in Known(n, e.key)}
Entries(n) == Texts(n) \union Moves \union Spawns \union Despawns(n)

Request == [key : Keys, user : BOOLEAN, pos : Pos]
Snapshot(n) == [key : Regions, text : Numbers(n)]

WindowsTyped ==
    /\ win \in [Keys -> Window(ops) \union {None}]
    /\ win[0] # None => /\ win[0].src = 0 /\ win[0].buf = None
                        /\ win[0].seed = None /\ win[0].told = None
    /\ changed \subseteq Regions /\ edited \subseteq Regions
    /\ echo \in Snapshot(ops) \union {None} /\ restore \in Snapshot(ops) \union {None}
    /\ spawnQ # << >> => spawnQ = <<spawnQ[1]>> /\ spawnQ[1] \in Request

\* A play of entries from a world, each entry about the windows it finds.
Steps(w, world, entries) ==
    w = [i \in 0 .. Len(entries) |-> IF i = 0 THEN world ELSE Done(w[i - 1], entries[i])]
Plays(w, n, world, entries) ==
    /\ Steps(w, world, entries)
    /\ \A i \in 0 .. Len(entries) : w[i] \in Worlds(n)
    /\ \A i \in 1 .. Len(entries) : Fits(entries[i], w[i - 1])

RecordTells ==
    /\ record \in Seq(Entries(ops)) /\ Len(record) <= Limit /\ cursor \in 0 .. Len(record)
    /\ Plays(Played(base, record), ops, base, record)

\* The action that takes window k from what it is to what the record says.
Leads(a, k, goal) ==
    \/ a.do = "text" /\ k # 0 /\ win[k] # None /\ a.to \in Numbers(ops)
       /\ goal = [src |-> a.to, pos |-> win[k].pos]
    \/ a.do = "move" /\ win[k] # None /\ a.to \in Pos
       /\ goal = [src |-> win[k].src, pos |-> a.to]
    \/ a.do = "despawn" /\ win[k] # None /\ goal = None
    \/ a.do = "spawn" /\ win[k] = None /\ a.to \in Shape(ops) /\ goal = a.to
       /\ a.snapshot \in Numbers(ops) \union {None}
       /\ a.to.src = IF k # 0 /\ a.snapshot # None THEN a.snapshot ELSE 0

\* Where the window of a key stands to what the record says it is: on the way
\* of an undo, or there.
Reached(k, goal) ==
    IF queue # << >> /\ queue[1].key = k THEN Leads(queue[1], k, goal)
    ELSE IF spawnQ # << >> /\ spawnQ[1].key = k
    THEN /\ win[k] = None
         /\ goal = IF spawnQ[1].user THEN None
                   ELSE [src |-> IF restore = None THEN 0 ELSE restore.text,
                         pos |-> spawnQ[1].pos]
    ELSE IF restore # None /\ restore.key = k
    THEN /\ win[k] # None /\ win[k].src = 0 /\ win[k].buf = None /\ win[k].told = None
         /\ goal = [src |-> restore.text, pos |-> win[k].pos]
    ELSE Shown(win[k]) = goal

Settled(k) ==
    win[k] # None => win[k].buf = win[k].src /\ win[k].seed = None /\ win[k].told = None

\* The widget of an editor, its fragment and what is between them.
EditorWell(k) ==
    win[k] # None =>
    LET w == win[k] IN
    \/ Settled(k)
    \* typed, or seeded with a text that was replaced meanwhile
    \/ /\ w.buf \notin {None, w.src} /\ w.seed = None /\ w.told = None
       /\ k \in changed /\ k \notin edited /\ echo # [key |-> k, text |-> w.buf]
    \* to be told
    \/ /\ w.buf # None /\ w.seed = None /\ w.told = None
       /\ k \in edited /\ k \notin changed
    \* told
    \/ /\ w.buf # None /\ w.seed = None /\ w.told = w.src
       /\ k \notin edited /\ k \notin changed
    \* new
    \/ /\ w.buf = None /\ k \notin changed /\ w.told \in {None, w.src}
       /\ w.told # None => w.seed # None
       /\ w.seed \notin {None, w.src} => echo # [key |-> k, text |-> w.seed]

\* One undo at a time, and nothing else is under way with it.
OneAtATime ==
    /\ queue # << >> => spawnQ = << >> /\ restore = None /\ queue[1].key \in Keys
    /\ restore # None /\ spawnQ # << >> =>
          restore.key = spawnQ[1].key /\ ~spawnQ[1].user
    /\ spawnQ # << >> /\ spawnQ[1].user => spawnQ[1].pos = 0
    /\ queue # << >> \/ spawnQ # << >> \/ restore # None =>
          /\ changed = {} /\ edited = {}
          /\ \A k \in Regions : (restore # None /\ restore.key = k) \/ Settled(k)

\* The windows as the done part of the record gives them.
Goals == Played(base, record)[cursor]

WindowsTrue == \A k \in Keys : Reached(k, Goals[k])
EditorsWell == \A k \in Regions : EditorWell(k)

Truth == WindowsTyped /\ RecordTells /\ OneAtATime /\ WindowsTrue /\ EditorsWell

Resumes ==
    /\ ops \in Nat /\ stray \in BOOLEAN /\ turn \in {"undo", "apply"}
    /\ replaying \in {0, 1} /\ (replaying = 0 <=> queue = << >>)
    /\ turn = "undo" => replaying = 0
    /\ queue # << >> => queue = <<queue[1]>>

IInv == Resumes /\ (~stray => Truth)

-----------------------------------------------------------------------------
(* Playing a record *)

\* A nonempty set of numbers has a least one.
LEMMA LeastOf ==
    ASSUME NEW T \in SUBSET Nat, T # {}
    PROVE  \E m \in T : \A k \in T : m <= k
  <1> DEFINE R == {p \in Nat \X Nat : p[1] < p[2]}
  <1>1. IsWellFoundedOn(R, Nat)
    BY NatLessThanWellFounded DEF OpToRel
  <1>2. \A x, y \in Nat : x < y => <<x, y>> \in R
    OBVIOUS
  <1> HIDE DEF R
  <1>3. PICK m \in T : \A k \in T : ~(<<k, m>> \in R)
    BY <1>1, WFMin
  <1>4. ASSUME NEW k \in T PROVE m <= k
    <2>1. ~(k < m)
      BY <1>2, <1>3
    <2> QED
      BY <2>1
  <1> QED
    BY <1>4

\* A function that steps like the play of a record is that play.
LEMMA PlayedIs ==
    ASSUME NEW b, NEW es, Len(es) \in Nat, NEW w, Steps(w, b, es)
    PROVE  Played(b, es) = w
<1> DEFINE p == CHOOSE g : Steps(g, b, es)
           odd == {i \in 0 .. Len(es) : p[i] # w[i]}
<1>1. Steps(p, b, es)
  OBVIOUS
<1>2. Played(b, es) = p
  BY DEF Played, Steps
<1> HIDE DEF p
<1>3. odd = {}
  <2> SUFFICES ASSUME odd # {} PROVE FALSE
    OBVIOUS
  <2>1. PICK i \in odd : \A j \in odd : i <= j
    BY LeastOf, odd \subseteq Nat
  <2>2. CASE i = 0
    BY <1>1, <2>2, <2>1 DEF Steps
  <2>3. CASE i # 0
    <3>1. i - 1 \in 0 .. Len(es) /\ i - 1 \notin odd
      BY <2>1, <2>3
    <3>2. p[i - 1] = w[i - 1]
      BY <3>1
    <3>3. p[i] = Done(p[i - 1], es[i]) /\ w[i] = Done(w[i - 1], es[i])
      BY <1>1, <2>1, <2>3 DEF Steps
    <3> QED
      BY <3>2, <3>3, <2>1
  <2> QED
    BY <2>2, <2>3
<1> QED
  <2>1. DOMAIN p = DOMAIN w /\ p = [i \in DOMAIN p |-> p[i]] /\ w = [i \in DOMAIN w |-> w[i]]
        /\ DOMAIN p = 0 .. Len(es)
    BY <1>1 DEF Steps
  <2> QED
    BY <1>2, <1>3, <2>1

-----------------------------------------------------------------------------
(* The history records again *)

LEMMA InitResumes == Init => Resumes
<1> SUFFICES ASSUME Init PROVE Resumes
  OBVIOUS
<1>1. /\ queue = << >> /\ replaying = 0 /\ turn = "undo" /\ ops = 0 /\ stray = FALSE
  BY DEF Init
<1> QED
  BY <1>1 DEF Resumes

\* Pushing never puts an action in the queue; it is refused while there is one.
LEMMA PushResumes ==
    ASSUME NEW e, Push(e), Resumes, UNCHANGED replaying
    PROVE  queue' = queue /\ stray' \in BOOLEAN
<1>1. CASE replaying > 0 /\ stray' = TRUE /\ UNCHANGED <<record, cursor, queue, base>>
  BY <1>1
<1>2. CASE replaying = 0 /\ queue' = << >> /\ stray' = (stray \/ record[cursor].key # e.key)
  BY <1>2 DEF Resumes
<1>3. CASE replaying = 0 /\ queue' = << >> /\ UNCHANGED stray
  BY <1>3 DEF Resumes
<1> QED
  BY <1>1, <1>2, <1>3 DEF Push

LEMMA NextResumes == Resumes /\ [Next]_vars => Resumes'
<1> SUFFICES ASSUME Resumes, [Next]_vars PROVE Resumes'
  OBVIOUS
<1> USE DEF history
<1>1. ASSUME NEW forth \in BOOLEAN, UndoRedo(forth) PROVE Resumes'
  <2>1. turn = "undo" /\ turn' = "apply" /\ queue = << >> /\ replaying = 0
        /\ UNCHANGED <<ops, stray>>
    BY <1>1 DEF UndoRedo, Idle, Carried, Resumes
  <2>2. CASE IF forth THEN cursor < Len(record) ELSE cursor > 0
    <3>1. /\ \E a : queue' = Append(queue, a)
          /\ replaying' = replaying + 1
      BY <1>1, <2>2 DEF UndoRedo
    <3>2. PICK a : queue' = <<a>>
      BY <3>1, <2>1
    <3> QED
      BY <2>1, <3>1, <3>2 DEF Resumes
  <2>3. CASE ~(IF forth THEN cursor < Len(record) ELSE cursor > 0)
    <3>1. UNCHANGED <<queue, replaying>>
      BY <1>1, <2>3 DEF UndoRedo
    <3> QED
      BY <2>1, <3>1 DEF Resumes
  <2> QED
    BY <2>2, <2>3
<1>2. CASE ApplyPending
  <2>1. CASE queue = << >>
    BY <1>2, <2>1 DEF ApplyPending, Resumes
  <2>2. CASE queue # << >>
    BY <1>2, <2>2 DEF ApplyPending, Resumes
  <2> QED
    BY <2>1, <2>2
<1>3. CASE RestoreSnapshot
  BY <1>3 DEF RestoreSnapshot, Resumes
<1>4. CASE Dispatch
  <2>1. CASE UNCHANGED <<queue, stray>>
    BY <1>4, <2>1 DEF Dispatch, Resumes
  <2>2. CASE \E e : Push(e)
    BY <1>4, <2>2, PushResumes DEF Dispatch, Resumes
  <2> QED
    BY <1>4, <2>1, <2>2 DEF Dispatch
<1>5. CASE LayoutAutosave
  BY <1>5 DEF LayoutAutosave, Resumes
<1>6. CASE Open
  BY <1>6 DEF Open, Resumes
<1>7. ASSUME NEW k \in Keys, Move(k) PROVE Resumes'
  BY <1>7, PushResumes DEF Move, Resumes
<1>8. ASSUME NEW k \in Keys, Close(k) PROVE Resumes'
  <2>1. UNCHANGED <<replaying, turn>> /\ ops' = ops + 1
    BY <1>8 DEF Close
  <2>2. CASE replaying = 0
    BY <1>8, <2>1, <2>2, PushResumes DEF Close, Resumes
  <2>3. CASE replaying # 0
    BY <1>8, <2>1, <2>3 DEF Close, Resumes
  <2> QED
    BY <2>2, <2>3
<1>9. ASSUME NEW r \in Keys, FromWidget(r) PROVE Resumes'
  <2>1. UNCHANGED <<replaying, turn, ops>>
    BY <1>9 DEF FromWidget
  <2>2. CASE UNCHANGED <<queue, stray>>
    BY <2>1, <2>2 DEF Resumes
  <2>3. CASE \E e : Push(e)
    BY <2>1, <2>3, PushResumes DEF Resumes
  <2> QED
    BY <1>9, <2>2, <2>3 DEF FromWidget
<1>10. ASSUME NEW r \in Keys, SpawnPeer(r) \/ SeedPeer(r) \/ ToWidget(r) \/ WidgetShows(r)
       PROVE  Resumes'
  BY <1>10 DEF SpawnPeer, SeedPeer, ToWidget, WidgetShows, Resumes
<1>11. ASSUME NEW r \in Keys, Type(r) PROVE Resumes'
  BY <1>11 DEF Type, Resumes
<1>12. CASE UNCHANGED vars
  BY <1>12 DEF vars, Resumes
<1> QED
  BY <1>1, <1>2, <1>3, <1>4, <1>5, <1>6, <1>7, <1>8, <1>9, <1>10, <1>11, <1>12 DEF Next

\* Once an undo has been handed on the history records again, in any run and for
\* any number of editors: undo_redo_system counts the depth up exactly when
\* apply_pending_app_edits_system is going to count it down.
THEOREM HistoryAlwaysResumes == Spec => []RecordingResumes
<1>1. Resumes => RecordingResumes
  BY DEF Resumes, RecordingResumes
<1> QED
  BY <1>1, InitResumes, NextResumes, PTL DEF Spec

-----------------------------------------------------------------------------
(* Entries and the windows they are about *)

\* What an entry makes of the window it is about.
Outcome(w, e) ==
    CASE e.kind = "text" -> [src |-> e.after, pos |-> w[e.key].pos]
      [] e.kind = "move" -> [src |-> w[e.key].src, pos |-> e.after]
      [] OTHER -> e.after

LEMMA ConstantsAre ==
    /\ MaxRegion \in Nat /\ Limit \in Nat /\ Limit >= 1 /\ MaxOps \in Nat
    /\ 0 \in Keys
  BY EditHistoryAssumption DEF Keys

LEMMA NoneIsNoWindow ==
    ASSUME NEW n \in Nat
    PROVE  /\ None \notin Shape(n) /\ None \notin Window(n) /\ None \notin Snapshot(n)
           /\ None \notin Numbers(n) /\ None \notin Pos
           /\ \A m \in Numbers(n) : m \in Nat
<1>1. Numbers(n) \subseteq Nat /\ Pos \subseteq Nat /\ Regions \subseteq Nat
  BY EditHistoryAssumption DEF Numbers, Pos, Regions, Keys
<1>2. None \notin Shape(n)
  BY <1>1, EditHistoryAssumption DEF Shape
<1>3. None \notin Window(n)
  BY <1>1, EditHistoryAssumption DEF Window
<1>4. None \notin Snapshot(n)
  BY <1>1, EditHistoryAssumption DEF Snapshot
<1> QED
  BY <1>1, <1>2, <1>3, <1>4, EditHistoryAssumption

\* A later operation leaves what was typed as it is.
LEMMA Grow ==
    ASSUME NEW m \in Nat, NEW n \in Nat, m <= n
    PROVE  /\ Numbers(m) \subseteq Numbers(n) /\ Shape(m) \subseteq Shape(n)
           /\ Window(m) \subseteq Window(n) /\ Snapshot(m) \subseteq Snapshot(n)
           /\ Worlds(m) \subseteq Worlds(n) /\ Entries(m) \subseteq Entries(n)
           /\ \A k \in Keys : Known(m, k) \subseteq Known(n, k)
<1>1. Numbers(m) \subseteq Numbers(n)
  BY DEF Numbers
<1>2. Shape(m) \subseteq Shape(n)
  BY <1>1 DEF Shape
<1>3. Window(m) \subseteq Window(n)
  BY <1>1 DEF Window
<1>4. Snapshot(m) \subseteq Snapshot(n)
  BY <1>1 DEF Snapshot
<1>5. ASSUME NEW k \in Keys PROVE Known(m, k) \subseteq Known(n, k)
  BY <1>2 DEF Known
<1>6. Worlds(m) \subseteq Worlds(n)
  <2> SUFFICES ASSUME NEW w \in Worlds(m) PROVE w \in Worlds(n)
    OBVIOUS
  <2>1. w \in [Keys -> Shape(m) \union {None}] /\ \A k \in Keys : w[k] \in Known(m, k)
    BY DEF Worlds
  <2>2. w \in [Keys -> Shape(n) \union {None}]
    BY <1>2, <2>1
  <2> QED
    BY <1>5, <2>1, <2>2 DEF Worlds
<1>7. Texts(m) \subseteq Texts(n)
  BY <1>1 DEF Texts
<1>8. Despawns(m) \subseteq Despawns(n)
  <2> SUFFICES ASSUME NEW e \in Despawns(m) PROVE e \in Despawns(n)
    OBVIOUS
  <2>1. /\ e \in [kind : {"despawn"}, key : Keys, before : Shape(m), after : {None}]
        /\ e.before \in Known(m, e.key)
    BY DEF Despawns
  <2>2. e \in [kind : {"despawn"}, key : Keys, before : Shape(n), after : {None}]
    BY <1>2, <2>1
  <2>3. e.before \in Known(n, e.key)
    BY <1>5, <2>1
  <2> QED
    BY <2>2, <2>3 DEF Despawns
<1> QED
  BY <1>1, <1>2, <1>3, <1>4, <1>5, <1>6, <1>7, <1>8 DEF Entries

\* An entry that fits makes one window of the world what it says, and no other.
LEMMA DoneIs ==
    ASSUME NEW n \in Nat, NEW w \in Worlds(n), NEW e \in Entries(n), Fits(e, w)
    PROVE  /\ e.key \in Keys
           /\ Done(w, e) \in Worlds(n)
           /\ Done(w, e) = [w EXCEPT ![e.key] = Outcome(w, e)]
           /\ Outcome(w, e) \in Known(n, e.key)
<1>1. w \in [Keys -> Shape(n) \union {None}] /\ \A k \in Keys : w[k] \in Known(n, k)
  BY DEF Worlds
<1>2. e.key \in Keys /\ Done(w, e) = [w EXCEPT ![e.key] = Outcome(w, e)]
      /\ Outcome(w, e) \in Known(n, e.key)
  <2>1. CASE e \in Texts(n)
    <3>1. e.key \in Keys /\ e.key # 0 /\ e.kind = "text" /\ e.after \in Numbers(n)
      BY <2>1 DEF Texts, Regions
    <3>2. w[e.key] \in Shape(n)
      BY <1>1, <3>1 DEF Fits
    <3>3. w[e.key].pos \in Pos
          /\ [w[e.key] EXCEPT !.src = e.after] = [src |-> e.after, pos |-> w[e.key].pos]
      BY <3>2 DEF Shape
    <3>4. Outcome(w, e) = [src |-> e.after, pos |-> w[e.key].pos]
      BY <3>1 DEF Outcome
    <3>5. Done(w, e) = [w EXCEPT ![e.key] = [w[e.key] EXCEPT !.src = e.after]]
      BY <1>1, <3>1 DEF Done
    <3> QED
      BY <3>1, <3>3, <3>4, <3>5 DEF Known, Shape
  <2>2. CASE e \in Moves
    <3>1. e.key \in Keys /\ e.kind = "move" /\ e.after \in Pos
      BY <2>2 DEF Moves
    <3>2. w[e.key] \in Shape(n) /\ (e.key = 0 => w[e.key].src = 0)
      BY <1>1, <3>1 DEF Fits, Known
    <3>3. w[e.key].src \in Numbers(n)
          /\ [w[e.key] EXCEPT !.pos = e.after] = [src |-> w[e.key].src, pos |-> e.after]
      BY <3>2 DEF Shape
    <3>4. Outcome(w, e) = [src |-> w[e.key].src, pos |-> e.after]
      BY <3>1 DEF Outcome
    <3>5. Done(w, e) = [w EXCEPT ![e.key] = [w[e.key] EXCEPT !.pos = e.after]]
      BY <1>1, <3>1 DEF Done
    <3> QED
      BY <3>1, <3>2, <3>3, <3>4, <3>5 DEF Known, Shape
  <2>3. CASE e \in Spawns
    <3>1. e.key \in Keys /\ e.kind = "spawn" /\ e.after = Blank
      BY <2>3 DEF Spawns
    <3>2. Blank \in Known(n, e.key)
      BY DEF Known, Shape, Blank, Numbers, Pos
    <3> QED
      BY <3>1, <3>2 DEF Done, Outcome
  <2>4. CASE e \in Despawns(n)
    <3>1. e.key \in Keys /\ e.kind = "despawn" /\ e.after = None
      BY <2>4 DEF Despawns
    <3> QED
      BY <3>1 DEF Done, Outcome, Known
  <2> QED
    BY <2>1, <2>2, <2>3, <2>4 DEF Entries
<1>3. Known(n, e.key) \subseteq Shape(n) \union {None}
  BY DEF Known
<1> HIDE DEF Outcome
<1>4. [w EXCEPT ![e.key] = Outcome(w, e)] \in [Keys -> Shape(n) \union {None}]
  BY <1>1, <1>2, <1>3
<1>5. \A k \in Keys : [w EXCEPT ![e.key] = Outcome(w, e)][k] \in Known(n, k)
  BY <1>1, <1>2
<1> QED
  BY <1>2, <1>4, <1>5 DEF Worlds

-----------------------------------------------------------------------------
(* The record *)

\* The done part with an entry more, without its oldest, or with its last
\* entry extended.
Extended(s, c, e) == Append(SubSeq(s, 1, c), e)
Dropped(s, c, e) == Tail(Extended(s, c, e))
Merged(s, c, x) == [SubSeq(s, 1, c) EXCEPT ![c].after = x]

LEMMA ExtendedIs ==
    ASSUME NEW S, NEW s \in Seq(S), NEW c \in 0 .. Len(s), NEW e \in S
    PROVE  /\ Extended(s, c, e) \in Seq(S) /\ Len(Extended(s, c, e)) = c + 1
           /\ \A i \in 1 .. c : Extended(s, c, e)[i] = s[i]
           /\ Extended(s, c, e)[c + 1] = e
           /\ Dropped(s, c, e) \in Seq(S) /\ Len(Dropped(s, c, e)) = c
           /\ \A i \in 1 .. c : Dropped(s, c, e)[i] = Extended(s, c, e)[i + 1]
<1> DEFINE p == SubSeq(s, 1, c)
           t == Append(p, e)
<1>1. p \in Seq(S) /\ Len(p) = c /\ \A i \in 1 .. c : p[i] = s[i]
  OBVIOUS
<1> HIDE DEF p
<1>2. t \in Seq(S) /\ Len(t) = c + 1 /\ (\A i \in 1 .. c : t[i] = p[i]) /\ t[c + 1] = e
  BY <1>1
<1> HIDE DEF t
<1>3. t # << >>
  BY <1>2
<1>4. Tail(t) \in Seq(S) /\ Len(Tail(t)) = c /\ \A i \in 1 .. c : Tail(t)[i] = t[i + 1]
  BY <1>2, <1>3
<1>5. Extended(s, c, e) = t /\ Dropped(s, c, e) = Tail(t)
  BY Zenon DEF Extended, Dropped, t, p
<1> QED
  BY <1>1, <1>2, <1>4, <1>5

LEMMA MergedIs ==
    ASSUME NEW S, NEW s \in Seq(S), NEW c \in 1 .. Len(s), NEW e, NEW x \in S,
           x = [s[c] EXCEPT !.after = e]
    PROVE  /\ Merged(s, c, e) \in Seq(S) /\ Len(Merged(s, c, e)) = c
           /\ \A i \in 1 .. c : i # c => Merged(s, c, e)[i] = s[i]
           /\ Merged(s, c, e)[c] = x
<1> DEFINE p == SubSeq(s, 1, c)
           t == [p EXCEPT ![c] = x]
<1>1. p \in Seq(S) /\ Len(p) = c /\ \A i \in 1 .. c : p[i] = s[i]
  OBVIOUS
<1>2. Merged(s, c, e) = t
  <2>1. p[c] = s[c]
    BY <1>1
  <2>2. Merged(s, c, e) = [p EXCEPT ![c] = [p[c] EXCEPT !.after = e]]
    BY DEF Merged
  <2> HIDE DEF p
  <2> QED
    BY <2>1, <2>2
<1> HIDE DEF p
<1>3. t \in Seq(S) /\ Len(t) = c /\ (\A i \in 1 .. c : i # c => t[i] = p[i]) /\ t[c] = x
  BY <1>1
<1> HIDE DEF t
<1> QED
  BY <1>1, <1>2, <1>3

\* How each way of pushing changes the play.
LEMMA PlayAppended ==
    ASSUME NEW n \in Nat, NEW w, NEW b, NEW s \in Seq(Entries(n)), Plays(w, n, b, s),
           NEW c \in 0 .. Len(s), NEW e \in Entries(n), Fits(e, w[c]),
           NEW t \in Seq(Entries(n)), Len(t) = c + 1,
           \A i \in 1 .. c : t[i] = s[i], t[c + 1] = e
    PROVE  /\ Plays(Played(b, t), n, b, t)
           /\ Played(b, t)[c + 1] = Done(w[c], e)
           /\ \A i \in 0 .. c : Played(b, t)[i] = w[i]
<1> DEFINE v == [i \in 0 .. Len(t) |-> IF i = c + 1 THEN Done(w[c], e) ELSE w[i]]
<1>1. /\ w = [i \in 0 .. Len(s) |-> IF i = 0 THEN b ELSE Done(w[i - 1], s[i])]
      /\ \A i \in 0 .. Len(s) : w[i] \in Worlds(n)
      /\ \A i \in 1 .. Len(s) : Fits(s[i], w[i - 1])
  BY DEF Plays, Steps
<1>2. Done(w[c], e) \in Worlds(n)
  BY <1>1, DoneIs
<1>3. Steps(v, b, t)
  <2> SUFFICES ASSUME NEW i \in 0 .. Len(t)
               PROVE  v[i] = IF i = 0 THEN b ELSE Done(v[i - 1], t[i])
    BY DEF Steps
  <2>1. CASE i = c + 1
    BY <2>1
  <2>2. CASE i = 0
    BY <1>1, <2>2
  <2>3. CASE i \in 1 .. c
    BY <1>1, <2>3
  <2> QED
    BY <2>1, <2>2, <2>3
<1>4. \A i \in 0 .. Len(t) : v[i] \in Worlds(n)
  BY <1>1, <1>2
<1>5. \A i \in 1 .. Len(t) : Fits(t[i], v[i - 1])
  BY <1>1
<1>6. v[c + 1] = Done(w[c], e) /\ \A i \in 0 .. c : v[i] = w[i]
  OBVIOUS
<1> HIDE DEF v
<1>7. Played(b, t) = v
  <2>1. Len(t) \in Nat
    OBVIOUS
  <2> QED
    BY <2>1, <1>3, PlayedIs
<1> QED
  BY <1>3, <1>4, <1>5, <1>6, <1>7 DEF Plays

LEMMA PlayShifted ==
    ASSUME NEW n \in Nat, NEW b, NEW s \in Seq(Entries(n)), s # << >>,
           Plays(Played(b, s), n, b, s),
           NEW t \in Seq(Entries(n)), Len(t) = Len(s) - 1,
           \A i \in 1 .. Len(t) : t[i] = s[i + 1]
    PROVE  LET from == Done(b, s[1]) IN
           /\ Plays(Played(from, t), n, from, t)
           /\ \A i \in 0 .. Len(t) : Played(from, t)[i] = Played(b, s)[i + 1]
<1> DEFINE w == Played(b, s)
           from == Done(b, s[1])
           v == [i \in 0 .. Len(t) |-> w[i + 1]]
<1>1. /\ w = [i \in 0 .. Len(s) |-> IF i = 0 THEN b ELSE Done(w[i - 1], s[i])]
      /\ \A i \in 0 .. Len(s) : w[i] \in Worlds(n)
      /\ \A i \in 1 .. Len(s) : Fits(s[i], w[i - 1])
  BY DEF Plays, Steps
<1>2. Len(s) \in Nat /\ Len(s) >= 1 /\ Len(t) \in Nat
  OBVIOUS
<1> HIDE DEF w
<1>3. w[0] = b /\ w[1] = from
  BY <1>1, <1>2
<1>4. Steps(v, from, t)
  <2> SUFFICES ASSUME NEW i \in 0 .. Len(t)
               PROVE  v[i] = IF i = 0 THEN from ELSE Done(v[i - 1], t[i])
    BY DEF Steps
  <2>1. CASE i = 0
    BY <1>3, <2>1, <1>2
  <2>2. CASE i # 0
    <3>1. i \in 1 .. Len(t) /\ i + 1 \in 1 .. Len(s) /\ i - 1 \in 0 .. Len(t) /\ (i + 1) - 1 = i
          /\ (i - 1) + 1 = i /\ i + 1 \in 0 .. Len(s) /\ i + 1 # 0
      BY <2>2, <1>2
    <3>2. w[i + 1] = Done(w[i], s[i + 1])
      BY <1>1, <3>1
    <3>3. v[i] = w[i + 1] /\ v[i - 1] = w[i]
      BY <3>1
    <3> QED
      BY <3>1, <3>2, <3>3, <2>2
  <2> QED
    BY <2>1, <2>2
<1>5. ASSUME NEW i \in 0 .. Len(t) PROVE v[i] \in Worlds(n)
  <2>1. i + 1 \in 0 .. Len(s)
    BY <1>2
  <2>2. v[i] = w[i + 1]
    OBVIOUS
  <2> QED
    BY <1>1, <2>1, <2>2
<1>6. ASSUME NEW i \in 1 .. Len(t) PROVE Fits(t[i], v[i - 1])
  <2>1. i + 1 \in 1 .. Len(s) /\ i - 1 \in 0 .. Len(t) /\ (i + 1) - 1 = i /\ (i - 1) + 1 = i
    BY <1>2
  <2>2. Fits(s[i + 1], w[i])
    BY <1>1, <2>1
  <2> QED
    BY <2>1, <2>2
<1>7. \A i \in 0 .. Len(t) : v[i] = w[i + 1]
  OBVIOUS
<1> HIDE DEF v, from
<1>8. Played(from, t) = v
  BY <1>2, <1>4, PlayedIs
<1> QED
  BY <1>4, <1>5, <1>6, <1>7, <1>8 DEF Plays, from, w

\* Extending the last entry is as good as a new one.
LEMMA PlayMerged ==
    ASSUME NEW n \in Nat, NEW w, NEW b, NEW s \in Seq(Entries(n)), Plays(w, n, b, s),
           NEW c \in 1 .. Len(s), NEW e \in Texts(n), Fits(e, w[c]),
           s[c].kind = "text", s[c].key = e.key
    PROVE  LET t == Merged(s, c, e.after) IN
           /\ t \in Seq(Entries(n)) /\ Len(t) = c
           /\ Plays(Played(b, t), n, b, t)
           /\ Played(b, t)[c] = Done(w[c], e)
<1> DEFINE f == [s[c] EXCEPT !.after = e.after]
           t == Merged(s, c, e.after)
<1>1. /\ \A i \in 0 .. Len(s) : w[i] \in Worlds(n)
      /\ w[c] = Done(w[c - 1], s[c])
      /\ Fits(s[c], w[c - 1])
      /\ w[c - 1] \in Worlds(n) /\ w[c] \in Worlds(n)
      /\ c - 1 \in 0 .. Len(s)
  BY DEF Plays, Steps
<1>2. /\ f \in Entries(n) /\ f.kind = "text" /\ f.key = e.key /\ f.before = s[c].before
      /\ f.after = e.after /\ e.kind = "text"
  <2>1. s[c] \in Entries(n)
    OBVIOUS
  <2>2. s[c] \in Texts(n)
    BY <2>1 DEF Entries, Texts, Moves, Spawns, Despawns
  <2>3. e.after \in Numbers(n) /\ e.kind = "text"
    BY DEF Texts
  <2>4. f \in Texts(n) /\ f.kind = "text" /\ f.key = e.key /\ f.before = s[c].before
        /\ f.after = e.after
    BY <2>2, <2>3 DEF Texts
  <2> QED
    BY <2>3, <2>4 DEF Entries
<1>3. /\ t \in Seq(Entries(n)) /\ Len(t) = c
      /\ \A i \in 1 .. c : i # c => t[i] = s[i]
      /\ t[c] = f
  BY <1>2, MergedIs
<1> HIDE DEF f, t
<1>4. Fits(f, w[c - 1])
  BY <1>1, <1>2 DEF Fits
<1>5. Done(w[c - 1], f) = Done(w[c], e)
  <2> DEFINE u == w[c - 1]
             k == e.key
  <2>1. /\ s[c] \in Entries(n) /\ e \in Entries(n) /\ u \in Worlds(n) /\ u \in [Keys -> Shape(n) \union {None}]
    BY <1>1 DEF Entries, Worlds
  <2>2. w[c] = [u EXCEPT ![k] = Outcome(u, s[c])] /\ k \in Keys
    BY <1>1, <2>1, DoneIs
  <2>3. Outcome(u, s[c]) = [src |-> s[c].after, pos |-> u[k].pos]
    BY DEF Outcome
  <2>4. w[c][k].pos = u[k].pos
    BY <2>1, <2>2, <2>3
  <2>5. Done(w[c], e) = [w[c] EXCEPT ![k] = Outcome(w[c], e)]
    BY <1>1, <2>1, DoneIs
  <2>6. Outcome(w[c], e) = [src |-> e.after, pos |-> u[k].pos]
    BY <1>2, <2>4 DEF Outcome
  <2>7. Done(u, f) = [u EXCEPT ![k] = Outcome(u, f)]
    BY <1>2, <1>4, <2>1, DoneIs
  <2>8. Outcome(u, f) = [src |-> e.after, pos |-> u[k].pos]
    BY <1>2 DEF Outcome
  <2> HIDE DEF u, k
  <2> QED
    BY <2>1, <2>2, <2>5, <2>6, <2>7, <2>8 DEF u
<1>6. c - 1 \in 0 .. Len(s) /\ Len(t) = (c - 1) + 1 /\ (c - 1) + 1 = c
      /\ \A i \in 1 .. c - 1 : t[i] = s[i]
  BY <1>3
<1>7. Plays(Played(b, t), n, b, t) /\ Played(b, t)[(c - 1) + 1] = Done(w[c - 1], f)
  BY <1>2, <1>3, <1>4, <1>6, PlayAppended
<1> QED
  BY <1>3, <1>5, <1>6, <1>7 DEF t

LEMMA TellsGrow ==
    ASSUME RecordTells, NEW n \in Nat, ops \in Nat, ops <= n
    PROVE  /\ record \in Seq(Entries(n)) /\ Plays(Played(base, record), n, base, record)
           /\ Goals \in Worlds(n)
<1>1. Entries(ops) \subseteq Entries(n) /\ Worlds(ops) \subseteq Worlds(n)
  BY Grow
<1>2. record \in Seq(Entries(n))
  BY <1>1 DEF RecordTells
<1>3. Plays(Played(base, record), n, base, record)
  BY <1>1 DEF RecordTells, Plays
<1> QED
  BY <1>2, <1>3 DEF RecordTells, Plays, Goals

LEMMA TellsKept ==
    ASSUME RecordTells, Resumes, Resumes', ops <= ops', UNCHANGED <<record, base>>,
           cursor' \in 0 .. Len(record)
    PROVE  RecordTells' /\ (UNCHANGED cursor => Goals' = Goals)
<1>1. ops \in Nat /\ ops' \in Nat
  BY DEF Resumes
<1>2. record \in Seq(Entries(ops')) /\ Plays(Played(base, record), ops', base, record)
  BY <1>1, TellsGrow
<1> QED
  BY <1>2 DEF RecordTells, Goals

\* Whatever a push does to the record, the record then says what the entry says.
LEMMA PushTells ==
    ASSUME RecordTells, Resumes, Resumes', ops <= ops', ~stray', NEW e \in Entries(ops'),
           Push(e), Fits(e, Goals), UNCHANGED replaying
    PROVE  RecordTells' /\ Goals' = Done(Goals, e)
<1> DEFINE w == Played(base, record)
           n == ops'
<1>1. ops \in Nat /\ n \in Nat /\ replaying \in {0, 1}
  BY DEF Resumes
<1>2. /\ record \in Seq(Entries(n)) /\ Plays(w, n, base, record) /\ w[cursor] = Goals
      /\ cursor \in 0 .. Len(record) /\ Len(record) <= Limit
  BY <1>1, TellsGrow DEF RecordTells, Goals
<1> HIDE DEF w
<1>3. CASE replaying > 0 /\ stray' = TRUE
  BY <1>3
<1>4. CASE /\ replaying = 0 /\ Mergeable(e)
           /\ record' = Merged(record, cursor, e.after)
           /\ stray' = (stray \/ record[cursor].key # e.key)
           /\ UNCHANGED <<cursor, base>>
  <2>1. cursor \in 1 .. Len(record) /\ e.kind = "text" /\ record[cursor].kind = "text"
        /\ record[cursor].key = e.key
    <3>1. cursor \in 1 .. Len(record) /\ e.kind = "text" /\ record[cursor].kind = "text"
      BY <1>2, <1>4 DEF Mergeable
    <3>2. ASSUME record[cursor].key # e.key PROVE FALSE
      <4>1. stray' = TRUE
        BY <1>4, <3>2
      <4> QED
        BY <4>1
    <3> QED
      BY <3>1, <3>2
  <2>2. e \in Texts(n)
    BY <2>1 DEF Entries, Texts, Moves, Spawns, Despawns
  <2>3. /\ record' \in Seq(Entries(n)) /\ Len(record') = cursor
        /\ Plays(Played(base, record'), n, base, record')
        /\ Played(base, record')[cursor] = Done(w[cursor], e)
    <3>1. Fits(e, w[cursor]) /\ record' = Merged(record, cursor, e.after)
      BY <1>2, <1>4
    <3> HIDE DEF n
    <3> QED
      BY <1>1, <1>2, <2>1, <2>2, <3>1, PlayMerged
  <2>4. Len(record') <= Limit /\ cursor' \in 0 .. Len(record')
    BY <1>2, <1>4, <2>3, EditHistoryAssumption
  <2> QED
    BY <1>2, <1>4, <2>3, <2>4 DEF RecordTells, Goals
<1>5. CASE /\ replaying = 0
           /\ LET entries == Extended(record, cursor, e) IN
              IF cursor = Limit
              THEN /\ record' = Dropped(record, cursor, e) /\ base' = Done(base, entries[1])
                   /\ UNCHANGED cursor
              ELSE record' = entries /\ cursor' = cursor + 1 /\ UNCHANGED base
  <2> DEFINE t == Extended(record, cursor, e)
             d == Dropped(record, cursor, e)
  <2>1. /\ t \in Seq(Entries(n)) /\ Len(t) = cursor + 1
        /\ \A i \in 1 .. cursor : t[i] = record[i]
        /\ t[cursor + 1] = e
        /\ d \in Seq(Entries(n)) /\ Len(d) = cursor
        /\ \A i \in 1 .. cursor : d[i] = t[i + 1]
    <3>1. cursor \in 0 .. Len(record) /\ record \in Seq(Entries(n)) /\ e \in Entries(n)
      BY <1>2
    <3> HIDE DEF n
    <3> QED
      BY <3>1, ExtendedIs
  <2>2. IF cursor = Limit THEN record' = d /\ base' = Done(base, t[1]) /\ UNCHANGED cursor
                          ELSE record' = t /\ cursor' = cursor + 1 /\ UNCHANGED base
    BY <1>5
  <2> HIDE DEF t, d
  <2>3. /\ Plays(Played(base, t), n, base, t)
        /\ Played(base, t)[cursor + 1] = Done(w[cursor], e)
    <3>1. /\ Fits(e, w[cursor]) /\ e \in Entries(n) /\ n \in Nat
          /\ record \in Seq(Entries(n)) /\ cursor \in 0 .. Len(record)
          /\ Plays(w, n, base, record)
          /\ t \in Seq(Entries(n)) /\ Len(t) = cursor + 1
          /\ \A i \in 1 .. cursor : t[i] = record[i]
          /\ t[cursor + 1] = e
      BY <1>1, <1>2, <2>1
    <3> HIDE DEF n
    <3> QED
      BY <3>1, PlayAppended
  <2>4. CASE cursor = Limit
    <3>1. t # << >> /\ Len(d) = Len(t) - 1 /\ cursor \in 0 .. Len(d)
          /\ \A i \in 1 .. Len(d) : d[i] = t[i + 1]
      BY <2>1, <1>2
    <3>2. LET from == Done(base, t[1]) IN
          /\ Plays(Played(from, d), n, from, d)
          /\ \A i \in 0 .. Len(d) : Played(from, d)[i] = Played(base, t)[i + 1]
      <4>1. /\ n \in Nat /\ t \in Seq(Entries(n)) /\ t # << >>
            /\ Plays(Played(base, t), n, base, t)
            /\ d \in Seq(Entries(n)) /\ Len(d) = Len(t) - 1
            /\ \A i \in 1 .. Len(d) : d[i] = t[i + 1]
        BY <1>1, <2>1, <2>3, <3>1
      <4> HIDE DEF n
      <4> QED
        BY <4>1, PlayShifted
    <3>3. /\ Plays(Played(base', record'), n, base', record')
          /\ Played(base', record')[cursor'] = Played(base, t)[cursor + 1]
      BY <2>2, <2>4, <3>1, <3>2
    <3>4. record' \in Seq(Entries(n)) /\ Len(record') <= Limit /\ cursor' \in 0 .. Len(record')
      BY <1>2, <2>1, <2>2, <2>4
    <3> QED
      BY <1>2, <2>3, <3>3, <3>4 DEF RecordTells, Goals
  <2>5. CASE cursor # Limit
    <3>1. record' \in Seq(Entries(n)) /\ Len(record') <= Limit /\ cursor' \in 0 .. Len(record')
      BY <1>2, <2>1, <2>2, <2>5, ConstantsAre
    <3> QED
      BY <1>2, <2>2, <2>3, <2>5, <3>1 DEF RecordTells, Goals
  <2> QED
    BY <2>4, <2>5
<1> QED
  BY <1>3, <1>4, <1>5 DEF Push, Extended, Dropped, Merged

-----------------------------------------------------------------------------
(* Steps that leave the record alone *)

LEMMA GoalsTyped ==
    ASSUME Truth, Resumes
    PROVE  /\ ops \in Nat /\ Goals \in [Keys -> Shape(ops) \union {None}]
           /\ \A k \in Keys : Goals[k] \in Known(ops, k)
  BY TellsGrow DEF Truth, Resumes, Worlds

\* What a window shows.
LEMMA ShownIs ==
    ASSUME NEW n \in Nat, NEW w
    PROVE  /\ w = None => Shown(w) = None
           /\ w \in Window(n) => /\ w # None
                                 /\ Shown(w) = [src |-> w.src, pos |-> w.pos]
                                 /\ w.src \in Numbers(n) /\ w.pos \in Pos
                                 /\ Shown(w) \in Shape(n) /\ Shown(w) # None
<1>1. w = None => Shown(w) = None
  BY DEF Shown
<1>2. ASSUME w \in Window(n)
      PROVE  /\ w # None
             /\ Shown(w) = [src |-> w.src, pos |-> w.pos]
             /\ w.src \in Numbers(n) /\ w.pos \in Pos
             /\ Shown(w) \in Shape(n) /\ Shown(w) # None
  <2>1. w # None /\ w.src \in Numbers(n) /\ w.pos \in Pos
    BY <1>2, NoneIsNoWindow DEF Window
  <2>2. Shown(w) = [src |-> w.src, pos |-> w.pos]
    BY <2>1 DEF Shown
  <2>3. Shown(w) \in Shape(n)
    BY <2>1, <2>2 DEF Shape
  <2> QED
    BY <2>1, <2>2, <2>3, NoneIsNoWindow
<1> QED
  BY <1>1, <1>2

LEMMA Resting ==
    ASSUME Truth, Resumes, queue = << >>, spawnQ = << >>, restore = None
    PROVE  \A k \in Keys : Shown(win[k]) = Goals[k]
  BY DEF Truth, WindowsTrue, Reached

\* Before a hand reaches a button, every editor has come to rest.
LEMMA IdleSettles ==
    ASSUME Truth, Resumes, Idle
    PROVE  /\ \A k \in Regions : Settled(k)
           /\ \A k \in Keys : Shown(win[k]) = Goals[k]
           /\ queue = << >> /\ spawnQ = << >> /\ restore = None
           /\ edited = {} /\ changed = {} /\ replaying = 0
<1>1. /\ queue = << >> /\ spawnQ = << >> /\ restore = None /\ edited = {} /\ changed = {}
      /\ \A k \in Regions : win[k] # None =>
            win[k].buf # None /\ win[k].seed = None /\ win[k].told = None
  BY DEF Idle, Carried, Regions
<1>2. ASSUME NEW k \in Regions PROVE Settled(k)
  <2>1. EditorWell(k)
    BY DEF Truth, EditorsWell
  <2>2. CASE win[k] = None
    BY <2>2 DEF Settled
  <2>3. CASE win[k] # None
    <3>1. win[k].src # None
      <4>1. win[k] \in Window(ops) /\ ops \in Nat
        BY <2>3 DEF Truth, WindowsTyped, Resumes, Regions
      <4> QED
        BY <4>1, ShownIs, NoneIsNoWindow
    <3> QED
      BY <1>1, <2>1, <2>3, <3>1 DEF EditorWell
  <2> QED
    BY <2>2, <2>3
<1> QED
  BY <1>1, <1>2, Resting DEF Resumes

\* A step of a widget changes what one editor holds, not what it shows.
Touches(r, v) ==
    /\ r \in Regions /\ win[r] # None /\ win' = [win EXCEPT ![r] = v]
    /\ v \in Window(ops') /\ v.src = win[r].src /\ v.pos = win[r].pos
    /\ queue = << >>
    /\ restore # None /\ restore.key = r => v.buf = None /\ v.told = None
    /\ changed' \subseteq Regions /\ edited' \subseteq Regions
    /\ UNCHANGED <<record, cursor, base, queue, echo, spawnQ, restore>>

LEMMA TouchedIs ==
    ASSUME Truth, Resumes, Resumes', ops <= ops', NEW r, NEW v, Touches(r, v)
    PROVE  /\ WindowsTyped' /\ RecordTells' /\ WindowsTrue'
           /\ win'[r] = v
           /\ \A k \in Keys : k # r => win'[k] = win[k]
           /\ win[r] \in Window(ops)
<1>1. ops \in Nat /\ ops' \in Nat
  BY DEF Resumes
<1>2. /\ win \in [Keys -> Window(ops) \union {None}]
      /\ win[0] # None => /\ win[0].src = 0 /\ win[0].buf = None
                          /\ win[0].seed = None /\ win[0].told = None
      /\ echo \in Snapshot(ops) \union {None} /\ restore \in Snapshot(ops) \union {None}
      /\ spawnQ # << >> => spawnQ = <<spawnQ[1]>> /\ spawnQ[1] \in Request
  BY DEF Truth, WindowsTyped
<1>3. Window(ops) \subseteq Window(ops') /\ Snapshot(ops) \subseteq Snapshot(ops')
  BY <1>1, Grow
<1>4. /\ r \in Keys /\ r # 0 /\ win[r] # None /\ v \in Window(ops')
      /\ win' = [win EXCEPT ![r] = v]
  BY DEF Touches, Regions
<1>5. /\ win'[r] = v
      /\ \A k \in Keys : k # r => win'[k] = win[k]
      /\ win[r] \in Window(ops)
      /\ win' \in [Keys -> Window(ops') \union {None}]
  BY <1>2, <1>3, <1>4
<1>6. WindowsTyped'
  <2>1. win'[0] = win[0]
    BY <1>4, <1>5, ConstantsAre
  <2> QED
    BY <1>2, <1>3, <1>5, <2>1 DEF Touches, WindowsTyped
<1>7. RecordTells' /\ Goals' = Goals
  <2>1. UNCHANGED <<record, base, cursor>> /\ cursor \in 0 .. Len(record)
    BY DEF Touches, Truth, RecordTells
  <2> QED
    BY <2>1, TellsKept DEF Truth
<1>8. Shown(win'[r]) = Shown(win[r])
  <2>1. v # None
    BY <1>1, <1>4, ShownIs
  <2> QED
    BY <1>4, <1>5, <2>1 DEF Touches, Shown
<1>9. ASSUME NEW k \in Keys PROVE Reached(k, Goals[k])'
  <2>1. Reached(k, Goals[k])
    BY DEF Truth, WindowsTrue
  <2>2. CASE k # r
    <3>1. win'[k] = win[k] /\ UNCHANGED <<queue, spawnQ, restore>> /\ queue = << >>
      BY <1>5, <2>2 DEF Touches
    <3> QED
      BY <1>7, <2>1, <3>1 DEF Reached
  <2>3. CASE k = r
    <3>1. UNCHANGED <<queue, spawnQ, restore>> /\ queue = << >> /\ win[k] # None
          /\ v.src = win[r].src /\ v.pos = win[r].pos /\ win'[k] = v /\ v # None
          /\ (restore # None /\ restore.key = r => v.buf = None /\ v.told = None)
      BY <1>1, <1>4, <1>5, <2>3, ShownIs DEF Touches
    <3>2. Shown(win'[k]) = Shown(win[k])
      BY <1>8, <2>3
    <3> HIDE DEF Goals
    <3> QED
      BY <1>7, <2>1, <2>3, <3>1, <3>2 DEF Reached
  <2> QED
    BY <2>2, <2>3
<1> QED
  BY <1>5, <1>6, <1>7, <1>9 DEF WindowsTrue

\* An editor that is not at rest is the only one something is under way to.
LEMMA AwakeIs ==
    ASSUME Truth, Resumes, NEW r \in Regions, win[r] # None,
           ~Settled(r) \/ r \in edited \/ r \in changed
    PROVE  /\ queue = << >> /\ spawnQ = << >>
           /\ restore # None =>
                 /\ restore.key = r /\ changed = {} /\ edited = {}
                 /\ win[r].src = 0 /\ win[r].buf = None /\ win[r].told = None
                 /\ \A k \in Regions : k # r => Settled(k)
<1>1. /\ queue # << >> => spawnQ = << >> /\ restore = None
      /\ restore # None /\ spawnQ # << >> => restore.key = spawnQ[1].key
      /\ queue # << >> \/ spawnQ # << >> \/ restore # None =>
            /\ changed = {} /\ edited = {}
            /\ \A k \in Regions : (restore # None /\ restore.key = k) \/ Settled(k)
  BY DEF Truth, OneAtATime
<1>2. queue = << >>
  BY <1>1
<1>3. r \in Keys /\ Reached(r, Goals[r])
  BY DEF Truth, WindowsTrue, Regions
<1>4. spawnQ = << >>
  <2> SUFFICES ASSUME spawnQ # << >> PROVE FALSE
    OBVIOUS
  <2>1. restore # None /\ spawnQ[1].key = r
    BY <1>1
  <2> QED
    BY <1>2, <1>3, <2>1 DEF Reached
<1>5. ASSUME restore # None
      PROVE  /\ restore.key = r /\ changed = {} /\ edited = {}
             /\ win[r].src = 0 /\ win[r].buf = None /\ win[r].told = None
             /\ \A k \in Regions : k # r => Settled(k)
  <2>1. restore.key = r /\ changed = {} /\ edited = {}
        /\ \A k \in Regions : k # r => Settled(k)
    BY <1>1, <1>5
  <2> QED
    BY <1>2, <1>3, <1>4, <1>5, <2>1 DEF Reached
<1> QED
  BY <1>2, <1>4, <1>5

\* What a window holds.
LEMMA HeldIs ==
    ASSUME Truth, Resumes, NEW r \in Regions, win[r] # None
    PROVE  /\ r \in Keys /\ r # 0 /\ win[r] \in Window(ops) /\ ops \in Nat
           /\ win[r].src \in Numbers(ops) /\ win[r].pos \in Pos /\ win[r].src # None
           /\ win[r].buf \in Numbers(ops) \union {None}
           /\ win[r].seed \in Numbers(ops) \union {None}
           /\ win[r].told \in Numbers(ops) \union {None}
           /\ EditorWell(r)
<1>1. r \in Keys /\ r # 0 /\ win[r] \in Window(ops) /\ ops \in Nat /\ EditorWell(r)
  BY DEF Truth, WindowsTyped, EditorsWell, Regions, Resumes
<1>2. /\ win[r].src \in Numbers(ops) /\ win[r].pos \in Pos
      /\ win[r].buf \in Numbers(ops) \union {None}
      /\ win[r].seed \in Numbers(ops) \union {None}
      /\ win[r].told \in Numbers(ops) \union {None}
  BY <1>1 DEF Window
<1> QED
  BY <1>1, <1>2, NoneIsNoWindow

\* The other editors stay as they are.
LEMMA OthersWell ==
    ASSUME Truth, NEW r \in Regions,
           \A k \in Keys : k # r => win'[k] = win[k],
           \A k \in Keys : k # r => (k \in changed' <=> k \in changed) /\ (k \in edited' <=> k \in edited),
           echo' = echo \/ echo' = None, NEW n \in Nat, win \in [Keys -> Window(n) \union {None}]
    PROVE  /\ \A k \in Regions : k # r => EditorWell(k)'
           /\ \A k \in Regions : k # r /\ Settled(k) => Settled(k)'
<1> SUFFICES ASSUME NEW k \in Regions, k # r
             PROVE  EditorWell(k)' /\ (Settled(k) => Settled(k)')
  OBVIOUS
<1>1. /\ k \in Keys /\ win'[k] = win[k] /\ EditorWell(k)
      /\ (k \in changed' <=> k \in changed) /\ (k \in edited' <=> k \in edited)
  BY DEF Truth, EditorsWell, Regions
<1>2. Settled(k) => Settled(k)'
  BY <1>1 DEF Settled
<1>3. \A m \in Nat : None # [key |-> k, text |-> m]
  BY EditHistoryAssumption DEF Regions, Keys
<1>4. win[k] # None => win[k].buf \in Nat \union {None} /\ win[k].seed \in Nat \union {None}
  <2> SUFFICES ASSUME win[k] # None
               PROVE  win[k].buf \in Nat \union {None} /\ win[k].seed \in Nat \union {None}
    OBVIOUS
  <2>1. win[k] \in Window(n)
    BY <1>1
  <2> QED
    BY <2>1 DEF Window, Numbers
<1>5. \A m \in Nat : echo # [key |-> k, text |-> m] => echo' # [key |-> k, text |-> m]
  BY <1>3
<1>6. EditorWell(k)'
  BY <1>1, <1>2, <1>4, <1>5 DEF EditorWell
<1> QED
  BY <1>2, <1>6

LEMMA SpawnPeerTrue ==
    ASSUME Truth, Resumes, Resumes', NEW r \in Keys, SpawnPeer(r)
    PROVE  Truth'
<1> DEFINE v == [win[r] EXCEPT !.seed = win[r].src]
<1>1. /\ r \in Regions /\ win[r] # None /\ win[r].buf = None /\ win[r].seed = None
      /\ win' = [win EXCEPT ![r].seed = win[r].src]
      /\ UNCHANGED <<record, cursor, queue, echo, changed, edited, spawnQ, restore, ops, base>>
  BY DEF SpawnPeer, Regions, history
<1>2. /\ win[r] \in Window(ops) /\ win[r].src \in Numbers(ops) /\ ops \in Nat
      /\ win[r].src # None /\ EditorWell(r)
  BY <1>1, HeldIs
<1>3. win[r].told = None /\ ~Settled(r) /\ r \notin changed
  BY <1>1, <1>2 DEF EditorWell, Settled
<1>4. /\ v \in Window(ops) /\ v.src = win[r].src /\ v.pos = win[r].pos /\ v.buf = None
      /\ v.told = None /\ v.seed = v.src
  BY <1>1, <1>2, <1>3 DEF Window
<1>5. win' = [win EXCEPT ![r] = v]
  BY <1>1
<1> HIDE DEF v
<1>6. Touches(r, v)
  BY <1>1, <1>3, <1>4, <1>5, AwakeIs DEF Touches, Truth, WindowsTyped
<1>7. /\ WindowsTyped' /\ RecordTells' /\ WindowsTrue' /\ win'[r] = v
      /\ \A k \in Keys : k # r => win'[k] = win[k]
  <2>1. ops <= ops'
    BY <1>1, <1>2
  <2> QED
    BY <1>6, <2>1, TouchedIs, Zenon
<1>8. /\ \A k \in Regions : k # r => EditorWell(k)'
      /\ \A k \in Regions : k # r /\ Settled(k) => Settled(k)'
  BY <1>1, <1>2, <1>7, OthersWell DEF Truth, WindowsTyped
<1>9. EditorWell(r)'
  BY <1>1, <1>3, <1>4, <1>7 DEF EditorWell
<1>10. OneAtATime'
  BY <1>1, <1>3, <1>8, AwakeIs DEF OneAtATime
<1> QED
  BY <1>7, <1>8, <1>9, <1>10 DEF Truth, EditorsWell

\* A new editor shows the text it was made with or the one it was sent; the first
\* may be news to the fragment, and is then taken for typed.
LEMMA SeedPeerTrue ==
    ASSUME Truth, Resumes, Resumes', NEW r \in Keys, SeedPeer(r)
    PROVE  Truth'
<1>1. /\ r \in Regions /\ win[r] # None /\ win[r].seed # None /\ restore = None
      /\ r \notin edited
      /\ changed' = changed \union {r}
      /\ UNCHANGED <<record, cursor, queue, echo, edited, spawnQ, restore, ops, base>>
  BY DEF SeedPeer, Regions, history
<1>2. PICK text \in {win[r].seed, win[r].told} \ {None} :
         win' = [win EXCEPT ![r].buf = text, ![r].seed = None, ![r].told = None]
  BY DEF SeedPeer
<1>3. /\ win[r] \in Window(ops) /\ win[r].src \in Numbers(ops) /\ ops \in Nat
      /\ win[r].seed \in Numbers(ops) \union {None}
      /\ win[r].told \in Numbers(ops) \union {None}
      /\ win[r].src # None /\ EditorWell(r)
  BY <1>1, HeldIs
<1>4. /\ ~Settled(r) /\ win[r].buf = None /\ win[r].told \in {None, win[r].src}
      /\ win[r].seed # win[r].src => echo # [key |-> r, text |-> win[r].seed]
  BY <1>1, <1>3 DEF EditorWell, Settled
<1>5. queue = << >> /\ spawnQ = << >>
  BY <1>1, <1>4, AwakeIs
<1> DEFINE v == [win[r] EXCEPT !.buf = text, !.seed = None, !.told = None]
<1>6. /\ v \in Window(ops) /\ v.src = win[r].src /\ v.pos = win[r].pos
      /\ v.buf = text /\ v.seed = None /\ v.told = None
  BY <1>2, <1>3 DEF Window
<1>7. win' = [win EXCEPT ![r] = v]
  BY <1>2, <1>3
<1> HIDE DEF v
<1>8. changed' \subseteq Regions /\ edited' \subseteq Regions
      /\ win \in [Keys -> Window(ops) \union {None}]
  BY <1>1 DEF Truth, WindowsTyped
<1>9. Touches(r, v)
  BY <1>1, <1>5, <1>6, <1>7, <1>8 DEF Touches
<1>10. /\ WindowsTyped' /\ RecordTells' /\ WindowsTrue' /\ win'[r] = v
       /\ \A k \in Keys : k # r => win'[k] = win[k]
  <2>1. ops <= ops'
    BY <1>1, <1>3
  <2> QED
    BY <1>9, <2>1, TouchedIs, Zenon
<1>11. /\ \A k \in Regions : k # r => EditorWell(k)'
       /\ \A k \in Regions : k # r /\ Settled(k) => Settled(k)'
  BY <1>1, <1>3, <1>8, <1>10, OthersWell
<1>12. EditorWell(r)'
  <2>1. text # v.src => text # None /\ echo' # [key |-> r, text |-> text]
    BY <1>1, <1>2, <1>4, <1>6
  <2>2. text = v.src \/ text # v.src
    OBVIOUS
  <2> QED
    BY <1>1, <1>2, <1>6, <1>10, <2>1 DEF EditorWell, Settled
<1>13. OneAtATime'
  BY <1>1, <1>5 DEF OneAtATime
<1> QED
  BY <1>10, <1>11, <1>12, <1>13 DEF Truth, EditorsWell

\* A step that changes no window.
LEMMA StillIs ==
    ASSUME Truth, Resumes, Resumes', changed' \subseteq Regions, edited' \subseteq Regions,
           UNCHANGED <<win, record, cursor, base, queue, echo, spawnQ, restore, ops>>
    PROVE  /\ WindowsTyped' /\ RecordTells' /\ WindowsTrue'
           /\ \A k \in Regions : Settled(k) => Settled(k)'
<1>1. WindowsTyped'
  BY DEF Truth, WindowsTyped
<1>2. RecordTells' /\ Goals' = Goals
  <2>1. cursor' \in 0 .. Len(record) /\ ops <= ops'
    BY DEF Truth, RecordTells, Resumes
  <2> QED
    BY <2>1, TellsKept DEF Truth
<1>3. ASSUME NEW k \in Keys PROVE Reached(k, Goals[k])'
  <2>1. Reached(k, Goals[k])
    BY DEF Truth, WindowsTrue
  <2> HIDE DEF Goals
  <2> QED
    BY <1>2, <2>1 DEF Reached, Leads
<1>4. \A k \in Regions : Settled(k) => Settled(k)'
  BY DEF Settled
<1> QED
  BY <1>1, <1>2, <1>3, <1>4 DEF WindowsTrue

LEMMA QuietTrue ==
    ASSUME Truth, Resumes, Resumes', UNCHANGED vars \/ LayoutAutosave
    PROVE  Truth'
<1>1. UNCHANGED <<win, record, cursor, base, queue, echo, spawnQ, restore, ops, changed, edited>>
  BY DEF vars, history, LayoutAutosave
<1>2. /\ WindowsTyped' /\ RecordTells' /\ WindowsTrue'
      /\ \A k \in Regions : Settled(k) => Settled(k)'
  BY <1>1, StillIs DEF Truth, WindowsTyped
<1>3. OneAtATime'
  BY <1>1, <1>2 DEF Truth, OneAtATime
<1>4. EditorsWell'
  BY <1>1, <1>2 DEF Truth, EditorsWell, EditorWell
<1> QED
  BY <1>2, <1>3, <1>4 DEF Truth

LEMMA ToWidgetTrue ==
    ASSUME Truth, Resumes, Resumes', NEW r \in Keys, ToWidget(r)
    PROVE  Truth'
<1>1. /\ r \in edited /\ r \in Regions
      /\ edited' = edited \ {r}
      /\ UNCHANGED <<record, cursor, queue, echo, changed, spawnQ, restore, ops, base>>
      /\ win \in [Keys -> Window(ops) \union {None}]
      /\ changed' \subseteq Regions /\ edited' \subseteq Regions
  BY DEF ToWidget, Truth, WindowsTyped, history
<1>2. queue = << >> /\ spawnQ = << >> /\ restore = None
  BY <1>1 DEF Truth, OneAtATime
<1>3. OneAtATime'
  BY <1>1, <1>2 DEF OneAtATime
<1>4. CASE win[r] = None
  <2>1. win' = win
    BY <1>4 DEF ToWidget
  <2>2. WindowsTyped' /\ RecordTells' /\ WindowsTrue'
    BY <1>1, <2>1, StillIs
  <2>3. /\ \A k \in Regions : k # r => EditorWell(k)'
    BY <1>1, <2>1, OthersWell, GoalsTyped
  <2>4. EditorWell(r)'
    BY <1>4, <2>1 DEF EditorWell
  <2> QED
    BY <1>3, <2>2, <2>3, <2>4 DEF Truth, EditorsWell
<1>5. CASE win[r] # None
  <2>1. /\ win[r] \in Window(ops) /\ win[r].src \in Numbers(ops) /\ ops \in Nat
        /\ win[r].src # None /\ EditorWell(r)
    BY <1>1, <1>5, HeldIs
  <2> DEFINE still == win[r].buf = win[r].src
                      \/ (win[r].buf = None /\ (win[r].seed = None \/ win[r].src = 0))
             v == IF still THEN win[r] ELSE [win[r] EXCEPT !.told = win[r].src]
  <2>2. win' = [win EXCEPT ![r] = v]
    BY <1>1, <1>5, <2>1 DEF ToWidget
  <2>3. /\ v \in Window(ops') /\ v.src = win[r].src /\ v.pos = win[r].pos
        /\ v.buf = win[r].buf /\ v.seed = win[r].seed
        /\ v.told = IF still THEN win[r].told ELSE win[r].src
    BY <1>1, <2>1 DEF Window
  <2> HIDE DEF v
  <2>4. Touches(r, v)
    BY <1>1, <1>2, <1>5, <2>2, <2>3 DEF Touches
  <2>5. /\ WindowsTyped' /\ RecordTells' /\ WindowsTrue' /\ win'[r] = v
        /\ \A k \in Keys : k # r => win'[k] = win[k]
    <3>1. ops <= ops'
      BY <1>1, <2>1
    <3> QED
      BY <2>4, <3>1, TouchedIs, Zenon
  <2>6. \A k \in Regions : k # r => EditorWell(k)'
    BY <1>1, <2>1, <2>5, OthersWell
  <2>7. r \notin edited' /\ v.src # None /\ echo' = echo /\ changed' = changed
    BY <1>1, <2>1, <2>3
  <2>8. EditorWell(r)'
    <3>1. CASE Settled(r)
      <4>1. v.buf = v.src /\ v.seed = None /\ v.told = None
        BY <1>5, <2>3, <3>1 DEF Settled
      <4> QED
        BY <2>5, <4>1 DEF EditorWell, Settled
    <3>2. CASE ~Settled(r) /\ win[r].buf # None
      <4>1. win[r].seed = None /\ win[r].told = None /\ r \notin changed
        BY <1>1, <1>5, <2>1, <3>2 DEF EditorWell
      <4>2. ~still /\ v.told = v.src
        BY <2>3, <3>2, <4>1, <1>5 DEF Settled
      <4> QED
        BY <2>3, <2>5, <2>7, <3>2, <4>1, <4>2 DEF EditorWell
    <3>3. CASE win[r].buf = None
      <4>1. /\ r \notin changed /\ win[r].told \in {None, win[r].src}
            /\ win[r].told # None => win[r].seed # None
            /\ win[r].seed \notin {None, win[r].src} => echo # [key |-> r, text |-> win[r].seed]
        BY <1>5, <2>1, <3>3 DEF EditorWell, Settled
      <4>2. v.told \in {None, v.src} /\ (v.told # None => v.seed # None)
        BY <2>1, <2>3, <3>3, <4>1
      <4> QED
        BY <2>3, <2>5, <2>7, <3>3, <4>1, <4>2 DEF EditorWell
    <3> QED
      BY <3>1, <3>2, <3>3
  <2> QED
    BY <1>3, <2>5, <2>6, <2>8 DEF Truth, EditorsWell
<1> QED
  BY <1>4, <1>5

LEMMA WidgetShowsTrue ==
    ASSUME Truth, Resumes, Resumes', NEW r \in Keys, WidgetShows(r)
    PROVE  Truth'
<1>1. /\ r \in Regions /\ win[r] # None /\ win[r].told # None /\ win[r].seed = None
      /\ win' = [win EXCEPT ![r].buf = win[r].told, ![r].told = None]
      /\ changed' = changed \union {r}
      /\ UNCHANGED <<record, cursor, queue, echo, edited, spawnQ, restore, ops, base>>
      /\ win \in [Keys -> Window(ops) \union {None}]
      /\ changed' \subseteq Regions /\ edited' \subseteq Regions
  BY DEF WidgetShows, Regions, Truth, WindowsTyped, history
<1>2. /\ win[r] \in Window(ops) /\ win[r].src \in Numbers(ops) /\ ops \in Nat
      /\ win[r].src # None /\ EditorWell(r)
  BY <1>1, HeldIs
<1>3. win[r].told = win[r].src /\ ~Settled(r)
  BY <1>1, <1>2 DEF EditorWell, Settled
<1>4. queue = << >> /\ spawnQ = << >> /\ restore = None
  BY <1>1, <1>3, AwakeIs
<1> DEFINE v == [win[r] EXCEPT !.buf = win[r].told, !.told = None]
<1>5. /\ v \in Window(ops) /\ v.src = win[r].src /\ v.pos = win[r].pos
      /\ v.buf = v.src /\ v.seed = None /\ v.told = None
  BY <1>1, <1>2, <1>3 DEF Window
<1>6. win' = [win EXCEPT ![r] = v]
  BY <1>1, <1>2
<1> HIDE DEF v
<1>7. Touches(r, v)
  BY <1>1, <1>4, <1>5, <1>6 DEF Touches
<1>8. /\ WindowsTyped' /\ RecordTells' /\ WindowsTrue' /\ win'[r] = v
      /\ \A k \in Keys : k # r => win'[k] = win[k]
  <2>1. ops <= ops'
    BY <1>1, <1>2
  <2> QED
    BY <1>7, <2>1, TouchedIs, Zenon
<1>9. \A k \in Regions : k # r => EditorWell(k)'
  BY <1>1, <1>2, <1>8, OthersWell
<1>10. EditorWell(r)'
  BY <1>5, <1>8 DEF EditorWell, Settled
<1>11. OneAtATime'
  BY <1>1, <1>4 DEF OneAtATime
<1> QED
  BY <1>8, <1>9, <1>10, <1>11 DEF Truth, EditorsWell

\* A fresh text is not the one an undo expects to hear.
LEMMA TypeTrue ==
    ASSUME Truth, Resumes, Resumes', NEW r \in Keys, Type(r), ~stray'
    PROVE  Truth'
<1>1. /\ r \in Regions /\ win[r] # None /\ win[r].buf # None
      /\ win' = [win EXCEPT ![r].buf = ops + 1]
      /\ changed' = changed \union {r} /\ ops' = ops + 1
      /\ UNCHANGED <<record, cursor, queue, echo, edited, spawnQ, restore, base>>
      /\ win \in [Keys -> Window(ops) \union {None}]
      /\ changed' \subseteq Regions /\ edited' \subseteq Regions
  BY DEF Type, Regions, Truth, WindowsTyped, history
<1>2. Carried
  <2> SUFFICES ASSUME ~Carried PROVE FALSE
    OBVIOUS
  <2>1. stray' = TRUE
    BY DEF Type
  <2> QED
    BY <2>1
<1>3. /\ queue = << >> /\ spawnQ = << >> /\ restore = None /\ edited = {}
      /\ win[r].seed = None /\ win[r].told = None
  BY <1>1, <1>2 DEF Carried, Regions
<1>4. /\ win[r] \in Window(ops) /\ win[r].src \in Numbers(ops) /\ ops \in Nat
      /\ win[r].src # None
  BY <1>1, HeldIs
<1>5. /\ Numbers(ops) \subseteq Numbers(ops') /\ ops + 1 \in Numbers(ops')
      /\ win[r] \in Window(ops') /\ ops + 1 # win[r].src /\ ops + 1 # None /\ ops <= ops'
  <2>1. ops' \in Nat /\ ops <= ops' /\ ops + 1 \in Numbers(ops')
    BY <1>1, <1>4 DEF Numbers
  <2>2. Numbers(ops) \subseteq Numbers(ops') /\ win[r] \in Window(ops') /\ ops + 1 # None
    BY <1>4, <2>1, Grow, NoneIsNoWindow
  <2>3. ops + 1 # win[r].src
    BY <1>4 DEF Numbers
  <2> QED
    BY <2>1, <2>2, <2>3
<1> DEFINE v == [win[r] EXCEPT !.buf = ops + 1]
<1>6. /\ v \in Window(ops') /\ v.src = win[r].src /\ v.pos = win[r].pos
      /\ v.buf = ops + 1 /\ v.seed = None /\ v.told = None
  BY <1>3, <1>4, <1>5 DEF Window
<1>7. win' = [win EXCEPT ![r] = v]
  BY <1>1, <1>4
<1> HIDE DEF v
<1>8. Touches(r, v)
  BY <1>1, <1>3, <1>6, <1>7 DEF Touches
<1>9. /\ WindowsTyped' /\ RecordTells' /\ WindowsTrue' /\ win'[r] = v
      /\ \A k \in Keys : k # r => win'[k] = win[k]
  <2>1. ops <= ops' /\ Touches(r, v)
    BY <1>5, <1>8
  <2> QED
    BY <2>1, TouchedIs, Zenon
<1>10. \A k \in Regions : k # r => EditorWell(k)'
  BY <1>1, <1>4, <1>9, OthersWell
<1>11. echo # [key |-> r, text |-> ops + 1]
  <2>1. echo \in Snapshot(ops) \union {None}
    BY DEF Truth, WindowsTyped
  <2>2. [key |-> r, text |-> ops + 1] \in [key : Nat, text : Nat]
    BY <1>1, <1>4 DEF Regions, Keys
  <2>3. echo # None => echo.text <= ops
    BY <2>1, <1>4 DEF Snapshot, Numbers
  <2>4. ~(ops + 1 <= ops)
    BY <1>4
  <2> QED
    BY <2>2, <2>3, <2>4, EditHistoryAssumption
<1>12. EditorWell(r)'
  <2>1. r \in changed' /\ r \notin edited'
    BY <1>1, <1>3
  <2> QED
    BY <1>1, <1>5, <1>6, <1>9, <1>11, <2>1 DEF EditorWell
<1>13. OneAtATime'
  BY <1>1, <1>3 DEF OneAtATime
<1> QED
  BY <1>9, <1>10, <1>12, <1>13 DEF Truth, EditorsWell

-----------------------------------------------------------------------------
(* Steps that are recorded *)

LEMMA TypedAfter ==
    ASSUME WindowsTyped, Resumes, Resumes', ops <= ops', NEW k \in Keys,
           NEW v \in Window(ops') \union {None}, win' = [win EXCEPT ![k] = v],
           k = 0 /\ v # None => v.src = 0 /\ v.buf = None /\ v.seed = None /\ v.told = None,
           changed' \subseteq Regions, edited' \subseteq Regions,
           echo' \in Snapshot(ops') \union {None}, restore' \in Snapshot(ops') \union {None},
           spawnQ' # << >> => spawnQ' = <<spawnQ'[1]>> /\ spawnQ'[1] \in Request
    PROVE  /\ WindowsTyped' /\ win'[k] = v
           /\ \A j \in Keys : j # k => win'[j] = win[j]
<1>1. ops \in Nat /\ ops' \in Nat /\ win \in [Keys -> Window(ops) \union {None}]
  BY DEF Resumes, WindowsTyped
<1>2. Window(ops) \subseteq Window(ops')
  BY <1>1, Grow
<1>3. /\ win' \in [Keys -> Window(ops') \union {None}]
      /\ win'[k] = v /\ \A j \in Keys : j # k => win'[j] = win[j]
  BY <1>1, <1>2
<1>4. win'[0] # None => /\ win'[0].src = 0 /\ win'[0].buf = None
                        /\ win'[0].seed = None /\ win'[0].told = None
  BY <1>3, ConstantsAre DEF WindowsTyped
<1> QED
  BY <1>3, <1>4 DEF WindowsTyped

\* With nothing under way the windows are what the record says.
LEMMA RestsAfter ==
    ASSUME queue' = << >>, spawnQ' = << >>, restore' = None,
           \A k \in Keys : Shown(win'[k]) = Goals'[k]
    PROVE  WindowsTrue' /\ OneAtATime'
<1>1. WindowsTrue'
  <2> SUFFICES ASSUME NEW k \in Keys PROVE Reached(k, Goals[k])'
    BY DEF WindowsTrue
  <2> QED
    BY DEF Reached
<1> QED
  BY <1>1 DEF OneAtATime

LEMMA Recorded ==
    ASSUME Truth, Resumes, Resumes', ops <= ops', ~stray', NEW e \in Entries(ops'),
           Push(e), Fits(e, Goals), UNCHANGED replaying
    PROVE  /\ RecordTells' /\ queue' = queue
           /\ Goals'[e.key] = Outcome(Goals, e)
           /\ \A k \in Keys : k # e.key => Goals'[k] = Goals[k]
<1>1. RecordTells' /\ Goals' = Done(Goals, e)
  BY PushTells DEF Truth
<1>2. ops \in Nat /\ ops' \in Nat /\ Goals \in Worlds(ops')
  BY TellsGrow DEF Truth, Resumes
<1> HIDE DEF Goals
<1>3. e.key \in Keys /\ Goals' = [Goals EXCEPT ![e.key] = Outcome(Goals, e)]
  BY <1>1, <1>2, DoneIs
<1>4. Goals \in [Keys -> Shape(ops') \union {None}]
  BY <1>2 DEF Worlds
<1>5. queue' = queue
  BY PushResumes
<1> QED
  BY <1>1, <1>3, <1>4, <1>5

LEMMA FromWidgetTrue ==
    ASSUME Truth, Resumes, Resumes', NEW r \in Keys, FromWidget(r), ~stray'
    PROVE  Truth'
<1>1. /\ r \in changed /\ r \in Regions /\ win[r] # None
      /\ changed' = changed \ {r} /\ echo' = None
      /\ UNCHANGED <<replaying, spawnQ, restore, ops>>
      /\ win \in [Keys -> Window(ops) \union {None}]
      /\ WindowsTyped
      /\ changed \subseteq Regions /\ edited \subseteq Regions
  BY DEF FromWidget, Truth, WindowsTyped
<1>2. /\ win[r] \in Window(ops) /\ win[r].src \in Numbers(ops) /\ ops \in Nat
      /\ win[r].pos \in Pos /\ win[r].buf \in Numbers(ops) \union {None}
      /\ win[r].src # None /\ EditorWell(r)
  BY <1>1, HeldIs
<1>3. queue = << >> /\ spawnQ = << >> /\ restore = None
  BY <1>1, AwakeIs
<1>4. \A k \in Keys : Shown(win[k]) = Goals[k]
  BY <1>3, Resting
<1>5. /\ win[r].seed = None /\ win[r].told = None /\ win[r].buf # None
      /\ win[r].buf # win[r].src => echo # [key |-> r, text |-> win[r].buf]
  BY <1>1, <1>2 DEF EditorWell, Settled
<1> DEFINE v == [win[r] EXCEPT !.src = win[r].buf]
<1>6. /\ v \in Window(ops') /\ v.src = win[r].buf /\ v.pos = win[r].pos
      /\ v.buf = win[r].buf /\ v.seed = None /\ v.told = None
      /\ (win[r].buf = win[r].src => v = win[r])
  BY <1>1, <1>2, <1>5 DEF Window
<1>7. /\ win' = [win EXCEPT ![r] = v] /\ edited' \in {edited, edited \union {r}}
  BY <1>1, <1>2, <1>5, <1>6 DEF FromWidget
<1> HIDE DEF v
<1>8. /\ WindowsTyped' /\ win'[r] = v
      /\ \A j \in Keys : j # r => win'[j] = win[j]
  <2>1. /\ ops <= ops' /\ v \in Window(ops') \union {None} /\ r # 0
        /\ changed' \subseteq Regions /\ edited' \subseteq Regions
        /\ echo' \in Snapshot(ops') \union {None} /\ restore' \in Snapshot(ops') \union {None}
        /\ spawnQ' = << >>
    BY <1>1, <1>2, <1>3, <1>6, <1>7 DEF Regions
  <2> QED
    BY <1>1, <1>7, <2>1, TypedAfter
<1>9. v # None /\ Shown(v) = [src |-> v.src, pos |-> v.pos]
  BY <1>1, <1>2, <1>6, ShownIs
<1>10. RecordTells' /\ queue' = << >> /\ \A k \in Keys : Shown(win'[k]) = Goals'[k]
  <2>1. CASE win[r].buf = win[r].src
    <3>1. UNCHANGED <<record, cursor, queue, base>>
      BY <2>1 DEF FromWidget
    <3>2. RecordTells' /\ Goals' = Goals
      <4>1. cursor' \in 0 .. Len(record) /\ ops <= ops'
        BY <3>1, <1>1, <1>2 DEF Truth, RecordTells
      <4> QED
        BY <3>1, <4>1, TellsKept DEF Truth
    <3>3. win' = win
      BY <1>1, <1>6, <1>7, <2>1
    <3> HIDE DEF Goals
    <3> QED
      BY <1>3, <1>4, <3>1, <3>2, <3>3
  <2>2. CASE win[r].buf # win[r].src
    <3> DEFINE e == [kind |-> "text", key |-> r, before |-> win[r].src, after |-> win[r].buf]
    <3>1. Push(e)
      BY <1>5, <2>2 DEF FromWidget
    <3>2. e \in Entries(ops') /\ e.key = r /\ e.kind = "text" /\ e.before = win[r].src
          /\ e.after = win[r].buf
      BY <1>1, <1>2, <1>5 DEF Entries, Texts
    <3> HIDE DEF e
    <3>3. /\ Goals[r] = [src |-> win[r].src, pos |-> win[r].pos] /\ Goals[r] # None
      BY <1>1, <1>2, <1>4, ShownIs
    <3>4. Fits(e, Goals)
      BY <3>2, <3>3 DEF Fits
    <3>5. ops <= ops' /\ UNCHANGED replaying
      BY <1>1, <1>2
    <3>6. /\ RecordTells' /\ queue' = queue
          /\ Goals'[e.key] = Outcome(Goals, e)
          /\ \A k \in Keys : k # e.key => Goals'[k] = Goals[k]
      BY <3>1, <3>2, <3>4, <3>5, Recorded
    <3>7. Outcome(Goals, e) = [src |-> win[r].buf, pos |-> win[r].pos]
      BY <3>2, <3>3 DEF Outcome
    <3> HIDE DEF Goals
    <3> QED
      BY <1>3, <1>4, <1>6, <1>8, <1>9, <3>2, <3>6, <3>7
  <2> QED
    BY <2>1, <2>2
<1>11. WindowsTrue' /\ OneAtATime'
  BY <1>1, <1>3, <1>10, RestsAfter
<1>12. EditorsWell'
  <2>1. \A k \in Regions : k # r => EditorWell(k)'
    <3>1. \A k \in Keys : k # r => (k \in changed' <=> k \in changed)
                                   /\ (k \in edited' <=> k \in edited)
      BY <1>1, <1>7
    <3> QED
      BY <1>1, <1>2, <1>8, <3>1, OthersWell
  <2>2. EditorWell(r)'
    BY <1>6, <1>8 DEF EditorWell, Settled
  <2> QED
    BY <2>1, <2>2 DEF EditorsWell
<1> QED
  BY <1>8, <1>10, <1>11, <1>12 DEF Truth

\* A step of a hand changes one window; every editor is at rest before and after.
LEMMA HandTrue ==
    ASSUME Truth, Resumes, Resumes', ops <= ops', ~stray', Idle,
           NEW k \in Keys, NEW v \in Window(ops') \union {None}, win' = [win EXCEPT ![k] = v],
           k = 0 /\ v # None => v.src = 0 /\ v.buf = None /\ v.seed = None /\ v.told = None,
           k # 0 /\ v # None => v.buf = v.src /\ v.seed = None /\ v.told = None,
           UNCHANGED <<replaying, echo, changed, edited, spawnQ, restore>>,
           NEW e \in Entries(ops'), Push(e), Fits(e, Goals), e.key = k,
           Shown(v) = Outcome(Goals, e)
    PROVE  Truth'
<1>1. /\ \A j \in Regions : Settled(j)
      /\ \A j \in Keys : Shown(win[j]) = Goals[j]
      /\ queue = << >> /\ spawnQ = << >> /\ restore = None /\ edited = {} /\ changed = {}
  BY IdleSettles
<1>2. ops \in Nat /\ ops' \in Nat /\ WindowsTyped
  BY DEF Resumes, Truth
<1>3. /\ WindowsTyped' /\ win'[k] = v
      /\ \A j \in Keys : j # k => win'[j] = win[j]
  <2>1. Snapshot(ops) \subseteq Snapshot(ops')
    BY <1>2, Grow
  <2>2. /\ changed' \subseteq Regions /\ edited' \subseteq Regions
        /\ echo' \in Snapshot(ops') \union {None} /\ restore' \in Snapshot(ops') \union {None}
        /\ spawnQ' = << >>
    BY <1>1, <1>2, <2>1 DEF WindowsTyped
  <2> QED
    BY <1>2, <2>2, TypedAfter
<1>4. /\ RecordTells' /\ queue' = queue
      /\ Goals'[e.key] = Outcome(Goals, e)
      /\ \A j \in Keys : j # e.key => Goals'[j] = Goals[j]
  BY Recorded
<1> HIDE DEF Goals
<1>5. \A j \in Keys : Shown(win'[j]) = Goals'[j]
  BY <1>1, <1>3, <1>4
<1>6. WindowsTrue' /\ OneAtATime'
  BY <1>1, <1>4, <1>5, RestsAfter
<1>7. EditorsWell'
  <2> SUFFICES ASSUME NEW j \in Regions PROVE Settled(j)'
    BY DEF EditorsWell, EditorWell
  <2>1. CASE j = k
    BY <1>3, <2>1 DEF Settled, Regions
  <2>2. CASE j # k
    BY <1>1, <1>3, <2>2 DEF Settled, Regions
  <2> QED
    BY <2>1, <2>2
<1> QED
  BY <1>3, <1>4, <1>6, <1>7 DEF Truth

LEMMA MoveTrue ==
    ASSUME Truth, Resumes, Resumes', NEW k \in Keys, Move(k), ~stray'
    PROVE  Truth'
<1>1. /\ Idle /\ win[k] # None /\ win' = [win EXCEPT ![k].pos = 1 - win[k].pos]
      /\ ops' = ops + 1 /\ ops \in Nat /\ ops' \in Nat /\ ops <= ops'
      /\ UNCHANGED <<replaying, echo, changed, edited, spawnQ, restore>>
      /\ win \in [Keys -> Window(ops) \union {None}]
  BY DEF Move, Resumes, Truth, WindowsTyped
<1>2. win[k] \in Window(ops)
  BY <1>1
<1>3. win[k] \in Window(ops')
  BY <1>1, <1>2, Grow
<1> DEFINE q == 1 - win[k].pos
           v == [win[k] EXCEPT !.pos = q]
           e == [kind |-> "move", key |-> k, before |-> win[k].pos, after |-> q]
<1>4. win[k].pos \in Pos /\ q \in Pos
  BY <1>2 DEF Window, Pos
<1>5. /\ v \in Window(ops') /\ v.src = win[k].src /\ v.pos = q
      /\ v.buf = win[k].buf /\ v.seed = win[k].seed /\ v.told = win[k].told
  BY <1>3, <1>4 DEF Window
<1>6. win' = [win EXCEPT ![k] = v]
  BY <1>1
<1>7. Push(e)
  BY DEF Move
<1>8. e \in Entries(ops') /\ e.key = k /\ e.kind = "move" /\ e.before = win[k].pos /\ e.after = q
  BY <1>4 DEF Entries, Moves
<1> HIDE DEF v, e, q
<1>9. \A j \in Regions : Settled(j)
  BY <1>1, IdleSettles
<1>10. Goals[k] = [src |-> win[k].src, pos |-> win[k].pos] /\ Goals[k] # None
  BY <1>1, <1>2, IdleSettles, ShownIs
<1>11. Fits(e, Goals)
  BY <1>8, <1>10 DEF Fits
<1>12. Shown(v) = Outcome(Goals, e)
  <2>1. Shown(v) = [src |-> v.src, pos |-> v.pos]
    BY <1>1, <1>5, ShownIs
  <2>2. Outcome(Goals, e) = [src |-> win[k].src, pos |-> q]
    BY <1>8, <1>10 DEF Outcome
  <2> QED
    BY <1>5, <2>1, <2>2
<1>13. k = 0 => v.src = 0 /\ v.buf = None /\ v.seed = None /\ v.told = None
  BY <1>1, <1>5 DEF Truth, WindowsTyped
<1>14. k # 0 => v.buf = v.src /\ v.seed = None /\ v.told = None
  BY <1>1, <1>5, <1>9 DEF Regions, Settled
<1>15. /\ v \in Window(ops') \union {None} /\ e \in Entries(ops')
       /\ ops <= ops' /\ Idle
       /\ k = 0 /\ v # None => v.src = 0 /\ v.buf = None /\ v.seed = None /\ v.told = None
       /\ k # 0 /\ v # None => v.buf = v.src /\ v.seed = None /\ v.told = None
       /\ UNCHANGED <<replaying, echo, changed, edited, spawnQ, restore>>
  BY <1>1, <1>5, <1>8, <1>13, <1>14
<1> QED
  BY <1>6, <1>7, <1>8, <1>11, <1>12, <1>15, HandTrue

LEMMA CloseTrue ==
    ASSUME Truth, Resumes, Resumes', NEW k \in Keys, Close(k), ~stray'
    PROVE  Truth'
<1>1. /\ Idle /\ win[k] # None /\ win' = [win EXCEPT ![k] = None]
      /\ ops' = ops + 1 /\ ops \in Nat /\ ops' \in Nat /\ ops <= ops'
      /\ UNCHANGED <<replaying, echo, changed, edited, spawnQ, restore>>
      /\ win \in [Keys -> Window(ops) \union {None}]
  BY DEF Close, Resumes, Truth, WindowsTyped
<1> DEFINE e == [kind |-> "despawn", key |-> k, before |-> Shown(win[k]), after |-> None]
<1>2. replaying = 0 /\ Goals[k] = Shown(win[k])
  BY <1>1, IdleSettles
<1>3. Push(e)
  BY <1>2 DEF Close
<1>4. Shown(win[k]) \in Shape(ops') /\ Shown(win[k]) \in Known(ops', k)
  <2>1. win[k] \in Window(ops)
    BY <1>1
  <2>2. win[k] \in Window(ops')
    BY <1>1, <2>1, Grow
  <2>3. Shown(win[k]) \in Shape(ops') /\ Shown(win[k]) = [src |-> win[k].src, pos |-> win[k].pos]
    BY <1>1, <2>2, ShownIs
  <2>4. k = 0 => win[k].src = 0
    BY <1>1 DEF Truth, WindowsTyped
  <2> QED
    BY <2>3, <2>4 DEF Known
<1>5. e \in Entries(ops') /\ e.key = k /\ e.kind = "despawn" /\ e.before = Goals[k] /\ e.after = None
  BY <1>2, <1>4 DEF Entries, Despawns
<1> HIDE DEF e
<1>6. Fits(e, Goals)
  BY <1>5 DEF Fits
<1>7. Shown(None) = Outcome(Goals, e)
  BY <1>5 DEF Outcome, Shown
<1> DEFINE v == None
<1>8. /\ v \in Window(ops') \union {None} /\ win' = [win EXCEPT ![k] = v]
      /\ k = 0 /\ v # None => v.src = 0 /\ v.buf = None /\ v.seed = None /\ v.told = None
      /\ k # 0 /\ v # None => v.buf = v.src /\ v.seed = None /\ v.told = None
      /\ Shown(v) = Outcome(Goals, e)
  BY <1>1, <1>7
<1> HIDE DEF v
<1> QED
  BY <1>1, <1>3, <1>5, <1>6, <1>8, HandTrue

-----------------------------------------------------------------------------
(* Opening, and the text of a window that was closed *)

LEMMA OpenTrue ==
    ASSUME Truth, Resumes, Resumes', Open, ~stray'
    PROVE  Truth'
<1>1. PICK k \in {0, alloc + 1} :
          /\ k \in Keys /\ win[k] = None
          /\ spawnQ' = Append(spawnQ, [key |-> k, user |-> TRUE, pos |-> 0])
  BY DEF Open
<1>2. /\ Idle /\ ops' = ops + 1 /\ ops \in Nat /\ ops' \in Nat /\ ops <= ops'
      /\ UNCHANGED <<record, cursor, queue, replaying, echo, win, changed, edited, restore, base>>
      /\ WindowsTyped
  BY DEF Open, history, Resumes, Truth
<1>3. /\ \A j \in Regions : Settled(j)
      /\ \A j \in Keys : Shown(win[j]) = Goals[j]
      /\ queue = << >> /\ spawnQ = << >> /\ restore = None /\ edited = {} /\ changed = {}
  BY <1>2, IdleSettles
<1>4. /\ spawnQ' # << >> /\ spawnQ' = <<spawnQ'[1]>> /\ spawnQ'[1] \in Request
      /\ spawnQ'[1].key = k /\ spawnQ'[1].user = TRUE /\ spawnQ'[1].pos = 0
  <2>1. [key |-> k, user |-> TRUE, pos |-> 0] \in Request
    BY <1>1 DEF Request, Pos
  <2>2. spawnQ' = <<[key |-> k, user |-> TRUE, pos |-> 0]>>
    BY <1>1, <1>3
  <2> QED
    BY <2>1, <2>2
<1>5. WindowsTyped'
  <2>1. Window(ops) \subseteq Window(ops') /\ Snapshot(ops) \subseteq Snapshot(ops')
    BY <1>2, Grow
  <2>2. win' \in [Keys -> Window(ops') \union {None}]
    BY <1>2, <2>1 DEF WindowsTyped
  <2> QED
    BY <1>2, <1>4, <2>1, <2>2 DEF WindowsTyped
<1>6. RecordTells' /\ Goals' = Goals
  <2>1. cursor' \in 0 .. Len(record)
    BY <1>2 DEF Truth, RecordTells
  <2> QED
    BY <1>2, <2>1, TellsKept DEF Truth
<1>7. WindowsTrue'
  <2> SUFFICES ASSUME NEW j \in Keys PROVE Reached(j, Goals[j])'
    BY DEF WindowsTrue
  <2>1. Goals'[j] = Shown(win[j])
    BY <1>3, <1>6
  <2>2. j = k => Goals'[j] = None
    BY <1>1, <2>1 DEF Shown
  <2> HIDE DEF Goals
  <2> QED
    BY <1>1, <1>2, <1>3, <1>4, <2>1, <2>2 DEF Reached
<1>8. \A j \in Regions : Settled(j)'
  BY <1>2, <1>3 DEF Settled
<1>9. OneAtATime'
  BY <1>2, <1>3, <1>4, <1>8 DEF OneAtATime
<1> QED
  BY <1>5, <1>6, <1>7, <1>8, <1>9 DEF Truth, EditorsWell, EditorWell

LEMMA DispatchTrue ==
    ASSUME Truth, Resumes, Resumes', Dispatch, ~stray'
    PROVE  Truth'
<1> DEFINE q == spawnQ[1]
           k == q.key
           v == [src |-> 0, pos |-> q.pos, buf |-> None, seed |-> None, told |-> None]
<1>1. /\ spawnQ # << >> /\ spawnQ = <<q>> /\ q \in Request /\ Head(spawnQ) = q
      /\ WindowsTyped /\ ops \in Nat
      /\ win \in [Keys -> Window(ops) \union {None}]
      /\ echo \in Snapshot(ops) \union {None} /\ restore \in Snapshot(ops) \union {None}
  <2>1. spawnQ # << >> /\ spawnQ = <<q>> /\ q \in Request
    BY DEF Dispatch, Truth, WindowsTyped
  <2> HIDE DEF q
  <2>2. Head(spawnQ) = q
    BY <2>1
  <2> QED
    BY <2>1, <2>2 DEF Truth, WindowsTyped, Resumes
<1>2. k \in Keys /\ q.pos \in Pos /\ q.user \in BOOLEAN
  BY <1>1 DEF Request
<1>3. /\ queue = << >> /\ changed = {} /\ edited = {}
      /\ restore # None => restore.key = k /\ q.user = FALSE
      /\ q.user = TRUE => q.pos = 0
      /\ \A j \in Regions : (restore # None /\ restore.key = j) \/ Settled(j)
  BY <1>1, <1>2 DEF Truth, OneAtATime
<1>4. /\ win[k] = None
      /\ Goals[k] = IF q.user THEN None
                    ELSE [src |-> IF restore = None THEN 0 ELSE restore.text, pos |-> q.pos]
  <2>1. Reached(k, Goals[k])
    BY <1>2 DEF Truth, WindowsTrue
  <2> QED
    BY <1>1, <1>3, <2>1 DEF Reached
<1>5. /\ win' = [win EXCEPT ![k] = v] /\ spawnQ' = << >>
      /\ UNCHANGED <<replaying, echo, changed, edited, restore, ops>>
      /\ IF q.user THEN Push([kind |-> "spawn", key |-> k, before |-> None, after |-> Blank])
         ELSE UNCHANGED <<record, cursor, queue, base, stray>>
  <2>1. Tail(spawnQ) = << >>
    <3> HIDE DEF q
    <3> QED
      BY <1>1
  <2> QED
    BY <1>1, <1>4, <2>1 DEF Dispatch
<1>6. /\ v \in Window(ops') /\ v.src = 0 /\ v.pos = q.pos /\ v.buf = None /\ v.seed = None
      /\ v.told = None
  BY <1>1, <1>2, <1>5 DEF Window, Numbers
<1> HIDE DEF v, q
<1>7. ops <= ops'
  BY <1>1, <1>5
<1>8. /\ WindowsTyped' /\ win'[k] = v
      /\ \A j \in Keys : j # k => win'[j] = win[j]
  <2>1. /\ v \in Window(ops') \union {None}
        /\ changed' \subseteq Regions /\ edited' \subseteq Regions
        /\ echo' \in Snapshot(ops') \union {None} /\ restore' \in Snapshot(ops') \union {None}
    BY <1>1, <1>3, <1>5, <1>6
  <2> HIDE DEF k
  <2> QED
    BY <1>1, <1>2, <1>5, <1>6, <1>7, <2>1, TypedAfter
<1>9. v # None /\ Shown(v) = [src |-> 0, pos |-> q.pos]
  BY <1>1, <1>5, <1>6, ShownIs
<1>10. RecordTells' /\ queue' = queue /\ (\A j \in Keys : j # k => Goals'[j] = Goals[j])
       /\ Goals'[k] = IF q.user THEN Blank ELSE Goals[k]
  <2>1. CASE q.user = TRUE
    <3> DEFINE e == [kind |-> "spawn", key |-> k, before |-> None, after |-> Blank]
    <3>1. Push(e)
      BY <1>5, <2>1
    <3>2. e \in Entries(ops') /\ e.key = k /\ e.kind = "spawn" /\ e.before = None /\ e.after = Blank
      BY <1>2 DEF Entries, Spawns
    <3> HIDE DEF e, k
    <3>3. Fits(e, Goals) /\ Outcome(Goals, e) = Blank
      BY <1>4, <2>1, <3>2 DEF Fits, Outcome
    <3>4. UNCHANGED replaying
      BY <1>5
    <3>5. /\ RecordTells' /\ queue' = queue
          /\ Goals'[e.key] = Outcome(Goals, e)
          /\ \A j \in Keys : j # e.key => Goals'[j] = Goals[j]
      BY <1>7, <3>1, <3>2, <3>3, <3>4, Recorded
    <3> QED
      BY <2>1, <3>2, <3>3, <3>5
  <2>2. CASE q.user = FALSE
    <3>1. UNCHANGED <<record, cursor, queue, base>>
      BY <1>5, <2>2
    <3>2. cursor' \in 0 .. Len(record)
      BY <3>1 DEF Truth, RecordTells
    <3>3. RecordTells' /\ Goals' = Goals
      BY <1>7, <3>1, <3>2, TellsKept DEF Truth
    <3> QED
      BY <2>2, <3>1, <3>3
  <2> QED
    BY <1>2, <2>1, <2>2
<1>11. WindowsTrue'
  <2> SUFFICES ASSUME NEW j \in Keys PROVE Reached(j, Goals[j])'
    BY DEF WindowsTrue
  <2>1. queue' = << >> /\ spawnQ' = << >> /\ restore' = restore
    BY <1>3, <1>5, <1>10
  <2>2. CASE j # k
    <3>1. Reached(j, Goals[j]) /\ win'[j] = win[j] /\ Goals'[j] = Goals[j]
      BY <1>8, <1>10, <2>2 DEF Truth, WindowsTrue
    <3>2. Shown(win[j]) = Goals[j] /\ ~(restore # None /\ restore.key = j)
      BY <1>1, <1>3, <2>2, <3>1 DEF Reached, q
    <3> HIDE DEF Goals
    <3> QED
      BY <2>1, <3>1, <3>2 DEF Reached
  <2>3. CASE j = k /\ q.user = TRUE
    <3>1. restore = None /\ Goals'[j] = Shown(win'[j])
      BY <1>2, <1>3, <1>8, <1>9, <1>10, <2>3 DEF Blank
    <3> HIDE DEF Goals
    <3> QED
      BY <2>1, <3>1 DEF Reached
  <2>4. CASE j = k /\ q.user = FALSE
    <3>1. Goals'[j] = [src |-> IF restore = None THEN 0 ELSE restore.text, pos |-> q.pos]
          /\ win'[j] = v
      BY <1>4, <1>8, <1>10, <2>4
    <3>2. restore # None => restore.key = j
      BY <1>3, <2>4
    <3> HIDE DEF Goals
    <3> QED
      BY <1>6, <1>9, <2>1, <3>1, <3>2 DEF Reached
  <2> QED
    BY <1>2, <2>2, <2>3, <2>4
<1>12. \A j \in Regions : j # k => Settled(j)'
  <2> SUFFICES ASSUME NEW j \in Regions, j # k PROVE Settled(j)'
    OBVIOUS
  <2>1. Settled(j) /\ win'[j] = win[j]
    BY <1>3, <1>8 DEF Regions
  <2> QED
    BY <2>1 DEF Settled
<1>13. OneAtATime'
  <2>1. queue' = << >> /\ spawnQ' = << >> /\ restore' = restore /\ changed' = {} /\ edited' = {}
    BY <1>3, <1>5, <1>10
  <2>2. restore # None => restore.key = k
    BY <1>3
  <2> QED
    BY <1>12, <2>1, <2>2 DEF OneAtATime
<1>14. EditorsWell'
  <2> SUFFICES ASSUME NEW j \in Regions PROVE EditorWell(j)'
    BY DEF EditorsWell
  <2>1. CASE j # k
    BY <1>12, <2>1 DEF EditorWell
  <2>2. CASE j = k
    <3>1. changed' = {} /\ win'[j] = v
      BY <1>3, <1>5, <1>8, <2>2
    <3> QED
      BY <1>6, <3>1 DEF EditorWell
  <2> QED
    BY <2>1, <2>2
<1> QED
  BY <1>8, <1>10, <1>11, <1>13, <1>14 DEF Truth

-----------------------------------------------------------------------------
(* Carrying an undo out *)

\* A text put into the fragment of an editor: the widget is still to be told.
LEMMA SourceSet ==
    ASSUME Truth, Resumes, NEW r \in Regions, NEW text \in Numbers(ops), SetSource(r, text),
           changed = {}, edited = {}, changed' = {}, ops' = ops,
           \A j \in Regions : j = r \/ Settled(j),
           win[r] # None =>
              \/ win[r].told = None /\ win[r].buf = None
              \/ Settled(r),
           restore' \in Snapshot(ops) \union {None}, spawnQ' = spawnQ, Resumes'
    PROVE  /\ WindowsTyped' /\ EditorsWell'
           /\ \A j \in Keys : j # r => win'[j] = win[j]
           /\ win[r] = None => win'[r] = None /\ edited' = {}
           /\ win[r] # None =>
                /\ win'[r] # None /\ win'[r].src = text /\ win'[r].pos = win[r].pos
                /\ Shown(win'[r]) = [src |-> text, pos |-> win[r].pos]
<1>1. /\ r \in Keys /\ r # 0 /\ ops \in Nat /\ echo' = [key |-> r, text |-> text]
      /\ echo' \in Snapshot(ops) /\ WindowsTyped
      /\ win \in [Keys -> Window(ops) \union {None}]
      /\ spawnQ # << >> => spawnQ = <<spawnQ[1]>> /\ spawnQ[1] \in Request
  BY DEF Regions, Resumes, SetSource, Snapshot, Truth, WindowsTyped
<1>2. CASE win[r] = None
  <2>1. win' = win /\ edited' = {}
    BY <1>2 DEF SetSource
  <2>2. WindowsTyped'
    BY <1>1, <2>1 DEF WindowsTyped
  <2>3. EditorsWell'
    <3> SUFFICES ASSUME NEW j \in Regions PROVE EditorWell(j)'
      BY DEF EditorsWell
    <3>1. j = r \/ Settled(j)
      OBVIOUS
    <3> QED
      BY <1>2, <2>1, <3>1 DEF EditorWell, Settled
  <2> QED
    BY <1>2, <2>1, <2>2, <2>3
<1>3. CASE win[r] # None
  <2> DEFINE v == [win[r] EXCEPT !.src = text]
  <2>1. win' = [win EXCEPT ![r] = v] /\ edited' = {r}
    BY <1>1, <1>3 DEF SetSource
  <2>2. win[r] \in Window(ops)
    BY <1>1, <1>3
  <2>3. /\ v \in Window(ops') /\ v.src = text /\ v.pos = win[r].pos /\ v.buf = win[r].buf
        /\ v.seed = win[r].seed /\ v.told = win[r].told
    BY <2>2 DEF Window
  <2> HIDE DEF v
  <2>4. v # None /\ Shown(v) = [src |-> text, pos |-> win[r].pos] /\ text # None
        /\ win[r].src # None
    BY <1>1, <2>2, <2>3, ShownIs, NoneIsNoWindow
  <2>5. /\ WindowsTyped' /\ win'[r] = v
        /\ \A j \in Keys : j # r => win'[j] = win[j]
    <3>1. /\ v \in Window(ops') \union {None} /\ ops <= ops'
          /\ changed' \subseteq Regions /\ edited' \subseteq Regions
          /\ echo' \in Snapshot(ops') \union {None} /\ restore' \in Snapshot(ops') \union {None}
          /\ spawnQ' # << >> => spawnQ' = <<spawnQ'[1]>> /\ spawnQ'[1] \in Request
      BY <1>1, <2>1, <2>3
    <3> QED
      BY <1>1, <2>1, <3>1, TypedAfter
  <2>6. EditorsWell'
    <3> SUFFICES ASSUME NEW j \in Regions PROVE EditorWell(j)'
      BY DEF EditorsWell
    <3>1. CASE j # r
      <4>1. Settled(j) /\ win'[j] = win[j]
        BY <2>5, <3>1 DEF Regions
      <4> QED
        BY <4>1 DEF EditorWell, Settled
    <3>2. CASE j = r /\ Settled(r)
      <4>1. win[r].buf # None /\ win[r].seed = None /\ win[r].told = None
        BY <1>3, <2>4, <3>2 DEF Settled
      <4>2. r \in edited' /\ r \notin changed'
        BY <2>1
      <4> QED
        BY <2>3, <2>5, <3>2, <4>1, <4>2 DEF EditorWell
    <3>3. CASE j = r /\ win[r].told = None /\ win[r].buf = None
      <4>1. win'[r].seed # text => echo' # [key |-> r, text |-> win'[r].seed]
        BY <1>1
      <4>2. r \notin changed'
        OBVIOUS
      <4> QED
        BY <2>3, <2>5, <3>3, <4>1, <4>2 DEF EditorWell
    <3> QED
      BY <1>3, <3>1, <3>2, <3>3
  <2> QED
    BY <1>3, <2>3, <2>4, <2>5, <2>6
<1> QED
  BY <1>2, <1>3

LEMMA RestoreSnapshotTrue ==
    ASSUME Truth, Resumes, Resumes', RestoreSnapshot
    PROVE  Truth'
<1> DEFINE r == restore.key
           text == restore.text
<1>1. /\ restore # None /\ SetSource(r, text)
      /\ restore' = IF win[r] = None THEN restore ELSE None
      /\ UNCHANGED <<record, cursor, queue, replaying, changed, spawnQ, ops, base>>
  BY DEF RestoreSnapshot
<1>2. /\ restore \in Snapshot(ops) /\ r \in Regions /\ r \in Keys /\ text \in Numbers(ops)
  BY <1>1 DEF Truth, WindowsTyped, Snapshot, Regions
<1>3. /\ queue = << >> /\ changed = {} /\ edited = {}
      /\ spawnQ # << >> => spawnQ[1].key = r /\ ~spawnQ[1].user
      /\ \A j \in Regions : j = r \/ Settled(j)
  BY <1>1 DEF Truth, OneAtATime
<1> HIDE DEF r, text
<1>4. ASSUME NEW j \in Keys PROVE Reached(j, Goals[j])
  BY <1>4 DEF Truth, WindowsTrue
<1>5. win[r] # None =>
         /\ spawnQ = << >> /\ win[r].told = None /\ win[r].buf = None
         /\ Goals[r] = [src |-> text, pos |-> win[r].pos]
  <2> SUFFICES ASSUME win[r] # None
               PROVE  /\ spawnQ = << >> /\ win[r].told = None /\ win[r].buf = None
                      /\ Goals[r] = [src |-> text, pos |-> win[r].pos]
    OBVIOUS
  <2>1. Reached(r, Goals[r])
    BY <1>2, <1>4
  <2>2. spawnQ = << >>
    BY <1>3, <2>1 DEF Reached
  <2> QED
    BY <1>1, <1>3, <2>1, <2>2 DEF Reached, r, text
<1>6. /\ WindowsTyped' /\ EditorsWell'
      /\ \A j \in Keys : j # r => win'[j] = win[j]
      /\ win[r] = None => win'[r] = None /\ edited' = {}
      /\ win[r] # None =>
           /\ win'[r] # None /\ win'[r].src = text /\ win'[r].pos = win[r].pos
           /\ Shown(win'[r]) = [src |-> text, pos |-> win[r].pos]
  <2>1. /\ changed' = {} /\ ops' = ops /\ restore' \in Snapshot(ops) \union {None}
        /\ win[r] # None => (win[r].told = None /\ win[r].buf = None) \/ Settled(r)
    BY <1>1, <1>2, <1>3, <1>5
  <2> QED
    BY <1>1, <1>2, <1>3, <2>1, SourceSet
<1>7. RecordTells' /\ Goals' = Goals
  <2>1. cursor' \in 0 .. Len(record) /\ ops <= ops'
    BY <1>1 DEF Truth, RecordTells, Resumes
  <2> QED
    BY <1>1, <2>1, TellsKept DEF Truth
<1>8. WindowsTrue'
  <2> SUFFICES ASSUME NEW j \in Keys PROVE Reached(j, Goals[j])'
    BY DEF WindowsTrue
  <2>1. Reached(j, Goals[j])
    BY <1>4
  <2> HIDE DEF Goals
  <2>2. CASE j # r
    <3>1. win'[j] = win[j] /\ queue = << >> /\ queue' = << >> /\ spawnQ' = spawnQ
          /\ (spawnQ # << >> => spawnQ[1].key # j)
          /\ (restore # None => restore.key # j) /\ (restore' # None => restore'.key # j)
      BY <1>1, <1>3, <1>6, <2>2 DEF r
    <3> QED
      BY <1>7, <2>1, <3>1 DEF Reached
  <2>3. CASE j = r /\ win[r] = None
    <3>1. win'[j] = win[j] /\ queue = << >> /\ queue' = << >> /\ spawnQ' = spawnQ
          /\ restore' = restore
      BY <1>1, <1>3, <1>6, <2>3
    <3> QED
      BY <1>7, <2>1, <3>1 DEF Reached
  <2>4. CASE j = r /\ win[r] # None
    <3>1. queue' = << >> /\ spawnQ' = << >> /\ restore' = None
          /\ Shown(win'[j]) = Goals'[j]
      BY <1>1, <1>3, <1>5, <1>6, <1>7, <2>4
    <3> QED
      BY <3>1 DEF Reached
  <2> QED
    BY <2>2, <2>3, <2>4
<1>9. OneAtATime'
  <2>1. CASE win[r] = None
    <3>1. /\ queue' = << >> /\ restore' = restore /\ spawnQ' = spawnQ /\ changed' = {}
          /\ edited' = {}
      BY <1>1, <1>3, <1>6, <2>1
    <3>2. \A j \in Regions : j = r \/ Settled(j)'
      BY <1>3, <1>6 DEF Settled, Regions
    <3>3. restore # None /\ restore.key = r
      BY <1>1 DEF r
    <3>4. \A j \in Regions : (restore' # None /\ restore'.key = j) \/ Settled(j)'
      BY <3>1, <3>2, <3>3
    <3>5. spawnQ' # << >> => restore'.key = spawnQ'[1].key /\ ~spawnQ'[1].user
      BY <1>3, <3>1, <3>3
    <3> QED
      BY <3>1, <3>4, <3>5 DEF OneAtATime
  <2>2. CASE win[r] # None
    <3>1. queue' = << >> /\ spawnQ' = << >> /\ restore' = None
      BY <1>1, <1>3, <1>5, <2>2
    <3> QED
      BY <3>1 DEF OneAtATime
  <2> QED
    BY <2>1, <2>2
<1> QED
  BY <1>6, <1>7, <1>8, <1>9 DEF Truth

LEMMA ApplyPendingTrue ==
    ASSUME Truth, Resumes, Resumes', ApplyPending
    PROVE  Truth'
<1>1. /\ UNCHANGED <<record, cursor, ops, base>> /\ ops \in Nat /\ ops <= ops'
      /\ WindowsTyped /\ cursor' \in 0 .. Len(record)
  BY DEF ApplyPending, Resumes, Truth, RecordTells
<1>2. RecordTells' /\ Goals' = Goals
  BY <1>1, TellsKept DEF Truth
<1>3. CASE queue = << >>
  <2>1. UNCHANGED <<queue, echo, win, changed, edited, spawnQ, restore>>
    BY <1>3 DEF ApplyPending
  <2>2. /\ WindowsTyped' /\ WindowsTrue'
        /\ \A k \in Regions : Settled(k) => Settled(k)'
    BY <1>1, <2>1, StillIs DEF WindowsTyped
  <2>3. OneAtATime'
    BY <2>1, <2>2 DEF Truth, OneAtATime
  <2>4. EditorsWell'
    BY <2>1, <2>2 DEF Truth, EditorsWell, EditorWell
  <2> QED
    BY <1>2, <2>2, <2>3, <2>4 DEF Truth
<1>4. CASE queue # << >>
  <2> DEFINE a == queue[1]
             k == a.key
  <2>1. queue = <<a>>
    BY <1>4 DEF Resumes
  <2>2. /\ spawnQ = << >> /\ restore = None /\ k \in Keys /\ changed = {} /\ edited = {}
        /\ \A j \in Regions : Settled(j)
    BY <1>4 DEF Truth, OneAtATime
  <2>3. queue' = << >> /\ CarryOut(a)
    <3> HIDE DEF a
    <3>1. Head(queue) = a
      BY <2>1
    <3> QED
      BY <1>4, <3>1 DEF ApplyPending
  <2>4. ASSUME NEW j \in Keys
        PROVE  IF j = k THEN Leads(a, k, Goals[k]) ELSE Shown(win[j]) = Goals[j]
    <3>1. Reached(j, Goals[j])
      BY DEF Truth, WindowsTrue
    <3> QED
      BY <1>4, <2>2, <3>1 DEF Reached
  <2>5. Leads(a, k, Goals[k])
    BY <2>2, <2>4
  <2> HIDE DEF a, k
  <2>6. CASE a.do = "text"
    <3>1. /\ k \in Regions /\ win[k] # None /\ a.to \in Numbers(ops)
          /\ Goals[k] = [src |-> a.to, pos |-> win[k].pos]
      BY <2>2, <2>5, <2>6 DEF Leads, Regions
    <3>2. SetSource(k, a.to) /\ UNCHANGED <<spawnQ, restore, changed>>
      BY <2>3, <2>6 DEF CarryOut, k
    <3>3. /\ WindowsTyped' /\ EditorsWell'
          /\ \A j \in Keys : j # k => win'[j] = win[j]
          /\ Shown(win'[k]) = [src |-> a.to, pos |-> win[k].pos]
      <4>1. /\ changed' = {} /\ ops' = ops /\ restore' \in Snapshot(ops) \union {None}
            /\ (win[k] # None => (win[k].told = None /\ win[k].buf = None) \/ Settled(k))
            /\ \A j \in Regions : j = k \/ Settled(j)
        BY <1>1, <2>2, <3>1, <3>2
      <4> QED
        BY <2>2, <3>1, <3>2, <4>1, SourceSet
    <3>4. \A j \in Keys : Shown(win'[j]) = Goals'[j]
      BY <1>2, <2>4, <3>1, <3>3
    <3>5. WindowsTrue' /\ OneAtATime'
      BY <2>2, <2>3, <3>2, <3>4, RestsAfter
    <3> QED
      BY <1>2, <3>3, <3>5 DEF Truth
  <2>7. CASE a.do = "move" \/ a.do = "despawn"
    <3> DEFINE v == IF a.do = "move" THEN [win[k] EXCEPT !.pos = a.to] ELSE None
    <3>1. win[k] # None /\ win[k] \in Window(ops)
      BY <2>2, <2>5, <2>7 DEF Leads, Truth, WindowsTyped
    <3>2. /\ win' = [win EXCEPT ![k] = v] /\ changed' = {} /\ edited' = {}
          /\ UNCHANGED <<echo, spawnQ, restore>>
      BY <2>2, <2>3, <2>7, <3>1 DEF CarryOut, k
    <3>3. /\ v \in Window(ops') \union {None}
          /\ v # None => /\ v.src = win[k].src /\ v.buf = win[k].buf
                         /\ v.seed = win[k].seed /\ v.told = win[k].told
          /\ Shown(v) = Goals[k]
      <4>1. CASE a.do = "move"
        <5>1. a.to \in Pos /\ Goals[k] = [src |-> win[k].src, pos |-> a.to]
          BY <2>5, <4>1 DEF Leads
        <5>2. /\ v \in Window(ops') /\ v.src = win[k].src /\ v.pos = a.to /\ v.buf = win[k].buf
              /\ v.seed = win[k].seed /\ v.told = win[k].told
          BY <1>1, <3>1, <4>1, <5>1 DEF Window
        <5> HIDE DEF v
        <5>3. Shown(v) = [src |-> v.src, pos |-> v.pos]
          BY <1>1, <5>2, ShownIs
        <5> QED
          BY <5>1, <5>2, <5>3
      <4>2. CASE a.do = "despawn"
        <5>1. Goals[k] = None /\ v = None
          BY <2>5, <4>2 DEF Leads
        <5> QED
          BY <5>1 DEF Shown
      <4> QED
        BY <2>7, <4>1, <4>2
    <3> HIDE DEF v
    <3>4. k = 0 /\ v # None => v.src = 0 /\ v.buf = None /\ v.seed = None /\ v.told = None
      BY <1>1, <3>1, <3>3 DEF WindowsTyped
    <3>5. /\ WindowsTyped' /\ win'[k] = v
          /\ \A j \in Keys : j # k => win'[j] = win[j]
      <4>1. /\ changed' \subseteq Regions /\ edited' \subseteq Regions /\ spawnQ' = << >>
            /\ echo' \in Snapshot(ops') \union {None} /\ restore' \in Snapshot(ops') \union {None}
        BY <1>1, <2>2, <3>2 DEF WindowsTyped
      <4> QED
        BY <1>1, <2>2, <3>2, <3>3, <3>4, <4>1, TypedAfter
    <3>6. \A j \in Keys : Shown(win'[j]) = Goals'[j]
      BY <1>2, <2>4, <3>3, <3>5
    <3>7. WindowsTrue' /\ OneAtATime'
      BY <2>2, <2>3, <3>2, <3>6, RestsAfter
    <3>8. EditorsWell'
      <4> SUFFICES ASSUME NEW j \in Regions PROVE Settled(j)'
        BY DEF EditorsWell, EditorWell
      <4>1. Settled(j) /\ j \in Keys
        BY <2>2 DEF Regions
      <4>2. CASE j = k
        BY <3>1, <3>3, <3>5, <4>1, <4>2 DEF Settled
      <4>3. CASE j # k
        BY <3>5, <4>1, <4>3 DEF Settled
      <4> QED
        BY <4>2, <4>3
    <3> QED
      BY <1>2, <3>5, <3>7, <3>8 DEF Truth
  <2>8. CASE a.do = "spawn"
    <3>1. /\ win[k] = None /\ a.to \in Shape(ops) /\ Goals[k] = a.to
          /\ a.snapshot \in Numbers(ops) \union {None}
          /\ a.to.src = IF k # 0 /\ a.snapshot # None THEN a.snapshot ELSE 0
      BY <2>5, <2>8 DEF Leads
    <3>2. /\ spawnQ' = Append(spawnQ, [key |-> k, user |-> FALSE, pos |-> a.to.pos])
          /\ restore' = IF k # 0 /\ a.snapshot # None THEN [key |-> k, text |-> a.snapshot]
                        ELSE restore
          /\ UNCHANGED <<echo, win, edited, changed>>
      BY <2>3, <2>8 DEF CarryOut, k
    <3>3. /\ spawnQ' # << >> /\ spawnQ' = <<spawnQ'[1]>> /\ spawnQ'[1] \in Request
          /\ spawnQ'[1].key = k /\ spawnQ'[1].user = FALSE /\ spawnQ'[1].pos = a.to.pos
      <4>1. [key |-> k, user |-> FALSE, pos |-> a.to.pos] \in Request
        BY <2>2, <3>1 DEF Request, Shape
      <4>2. spawnQ' = <<[key |-> k, user |-> FALSE, pos |-> a.to.pos]>>
        BY <2>2, <3>2
      <4> QED
        BY <4>1, <4>2
    <3>4. /\ restore' \in Snapshot(ops) \union {None}
          /\ restore' # None => restore'.key = k /\ restore'.text = a.to.src
          /\ restore' = None => a.to.src = 0
      <4>1. CASE k # 0 /\ a.snapshot # None
        <5>1. restore' = [key |-> k, text |-> a.snapshot] /\ restore' \in Snapshot(ops)
          BY <2>2, <3>1, <3>2, <4>1 DEF Snapshot, Regions
        <5> QED
          BY <1>1, <3>1, <4>1, <5>1, NoneIsNoWindow
      <4>2. CASE ~(k # 0 /\ a.snapshot # None)
        BY <2>2, <3>1, <3>2, <4>2
      <4> QED
        BY <4>1, <4>2
    <3>5. WindowsTyped'
      BY <1>1, <3>2, <3>3, <3>4 DEF WindowsTyped
    <3>6. WindowsTrue'
      <4> SUFFICES ASSUME NEW j \in Keys PROVE Reached(j, Goals[j])'
        BY DEF WindowsTrue
      <4>1. CASE j = k
        <5>1. Goals'[j] = [src |-> a.to.src, pos |-> a.to.pos] /\ win'[j] = None
          BY <1>2, <3>1, <3>2, <4>1 DEF Shape
        <5>2. Goals'[j] = [src |-> IF restore' = None THEN 0 ELSE restore'.text,
                           pos |-> spawnQ'[1].pos]
          BY <3>3, <3>4, <5>1
        <5> HIDE DEF Goals
        <5> QED
          BY <2>3, <3>3, <4>1, <5>1, <5>2 DEF Reached
      <4>2. CASE j # k
        <5>1. Shown(win'[j]) = Goals'[j]
          BY <1>2, <2>4, <3>2, <4>2
        <5> HIDE DEF Goals
        <5> QED
          BY <2>3, <3>3, <3>4, <4>2, <5>1 DEF Reached
      <4> QED
        BY <4>1, <4>2
    <3>7. \A j \in Regions : Settled(j)'
      BY <2>2, <3>2 DEF Settled
    <3>8. OneAtATime'
      BY <2>2, <2>3, <3>2, <3>3, <3>4, <3>7 DEF OneAtATime
    <3> QED
      BY <1>2, <3>5, <3>6, <3>7, <3>8 DEF Truth, EditorsWell, EditorWell
  <2> QED
    BY <2>5, <2>6, <2>7, <2>8 DEF Leads
<1> QED
  BY <1>3, <1>4

-----------------------------------------------------------------------------
(* Handing an undo on *)

\* What undo and redo make of an entry leads from what is there to what the
\* record then says.
LEMMA ActionLeads ==
    ASSUME NEW n \in Nat, NEW was \in Worlds(n), NEW e \in Entries(n), Fits(e, was),
           NEW forth \in BOOLEAN, n = ops,
           NEW k, k = e.key, win[k] \in Window(n) \union {None},
           Shown(win[k]) = (IF forth THEN was ELSE Done(was, e))[k]
    PROVE  Leads(Action(k, e, forth), k, (IF forth THEN Done(was, e) ELSE was)[k])
<1> DEFINE a == Action(k, e, forth)
           goal == (IF forth THEN Done(was, e) ELSE was)[k]
           after == Outcome(was, e)
<1>1. /\ k \in Keys /\ Done(was, e)[k] = after /\ after \in Known(n, k)
      /\ was[k] \in Known(n, k)
  <2>1. was \in [Keys -> Shape(n) \union {None}] /\ \A j \in Keys : was[j] \in Known(n, j)
    BY DEF Worlds
  <2>2. e.key \in Keys /\ Done(was, e) = [was EXCEPT ![e.key] = Outcome(was, e)]
        /\ Outcome(was, e) \in Known(n, e.key)
    BY DoneIs
  <2> QED
    BY <2>1, <2>2
<1>2. /\ Shown(win[k]) = IF forth THEN was[k] ELSE after
      /\ goal = IF forth THEN after ELSE was[k]
  BY <1>1
<1>3. /\ win[k] = None => Shown(win[k]) = None
      /\ win[k] # None => /\ Shown(win[k]) = [src |-> win[k].src, pos |-> win[k].pos]
                          /\ Shown(win[k]) # None
  BY ShownIs
<1> HIDE DEF goal
<1>4. CASE e \in Texts(n)
  <2>1. /\ e.kind = "text" /\ k # 0 /\ e.before \in Numbers(n) /\ e.after \in Numbers(n)
    BY <1>4 DEF Texts, Regions
  <2>2. was[k] # None /\ was[k].src = e.before /\ after = [src |-> e.after, pos |-> was[k].pos]
    BY <2>1 DEF Fits, Outcome
  <2>3. was[k] \in Shape(n) /\ after # None
    BY <1>1, <2>1, <2>2, NoneIsNoWindow DEF Known, Shape
  <2>4. was[k] = [src |-> e.before, pos |-> was[k].pos]
    BY <2>2, <2>3 DEF Shape
  <2> HIDE DEF after
  <2>5. win[k] # None /\ win[k].pos = was[k].pos
    BY <1>2, <1>3, <2>2, <2>3, <2>4
  <2>6. a.do = "text" /\ a.to = IF forth THEN e.after ELSE e.before
    BY <2>1 DEF Action
  <2> HIDE DEF a
  <2>7. goal = [src |-> a.to, pos |-> win[k].pos]
    BY <1>2, <2>2, <2>4, <2>5, <2>6
  <2> QED
    BY <2>1, <2>5, <2>6, <2>7 DEF Leads, a, goal
<1>5. CASE e \in Moves
  <2>1. /\ e.kind = "move" /\ e.before \in Pos /\ e.after \in Pos
    BY <1>5 DEF Moves
  <2>2. was[k] # None /\ was[k].pos = e.before /\ after = [src |-> was[k].src, pos |-> e.after]
    BY <2>1 DEF Fits, Outcome
  <2>3. was[k] \in Shape(n) /\ after # None
    BY <1>1, <2>1, <2>2, NoneIsNoWindow DEF Known, Shape
  <2>4. was[k] = [src |-> was[k].src, pos |-> e.before]
    BY <2>2, <2>3 DEF Shape
  <2> HIDE DEF after
  <2>5. win[k] # None /\ win[k].src = was[k].src
    BY <1>2, <1>3, <2>2, <2>3, <2>4
  <2>6. a.do = "move" /\ a.to = IF forth THEN e.after ELSE e.before
    BY <2>1 DEF Action
  <2> HIDE DEF a
  <2>7. goal = [src |-> win[k].src, pos |-> a.to]
    BY <1>2, <2>2, <2>4, <2>5, <2>6
  <2> QED
    BY <2>1, <2>5, <2>6, <2>7 DEF Leads, a, goal
<1>6. CASE e \in Spawns \union Despawns(n)
  <2>1. /\ e.kind \in {"spawn", "despawn"} /\ was[k] = e.before /\ after = e.after
        /\ e.before \in Shape(n) \union {None} /\ e.after \in Shape(n) \union {None}
        /\ (e.before = None <=> e.after # None)
        /\ (e.kind = "spawn" => e.before = None /\ e.after = Blank)
        /\ (e.kind = "despawn" => e.after = None)
    <3>1. Blank \in Shape(n)
      BY DEF Blank, Shape, Numbers, Pos
    <3>2. /\ e.kind \in {"spawn", "despawn"}
          /\ e.before \in Shape(n) \union {None} /\ e.after \in Shape(n) \union {None}
          /\ (e.before = None <=> e.after # None)
          /\ (e.kind = "spawn" => e.before = None /\ e.after = Blank)
          /\ (e.kind = "despawn" => e.after = None)
      BY <1>6, <3>1, NoneIsNoWindow DEF Spawns, Despawns
    <3>3. was[k] = e.before /\ after = e.after
      BY <3>2 DEF Fits, Outcome
    <3> QED
      BY <3>2, <3>3
  <2> DEFINE to == IF forth THEN e.after ELSE e.before
  <2>2. /\ a.do = IF to = None THEN "despawn" ELSE "spawn"
        /\ a.to = to
        /\ a.snapshot = IF e.kind = "despawn" /\ ~forth THEN to.src ELSE None
    BY <2>1 DEF Action
  <2> HIDE DEF a, after
  <2>3. goal = to
    BY <1>2, <2>1
  <2>4. CASE to = None
    <3>1. win[k] # None
      BY <1>2, <1>3, <2>1, <2>4
    <3> QED
      BY <2>2, <2>3, <2>4, <3>1 DEF Leads, a, goal
  <2>5. CASE to # None
    <3>1. win[k] = None
      BY <1>2, <1>3, <2>1, <2>5
    <3>2. to \in Shape(n) /\ to.src \in Numbers(n)
      BY <2>1, <2>5 DEF Shape
    <3>3. k = 0 => to.src = 0
      BY <1>1, <1>2, <2>3, <3>2, NoneIsNoWindow DEF Known, after, goal
    <3>4. e.kind = "spawn" \/ forth => forth /\ e.kind = "spawn" /\ to.src = 0
      BY <2>1, <2>5 DEF Blank
    <3>5. a.snapshot \in Numbers(n) \union {None}
          /\ a.to.src = IF k # 0 /\ a.snapshot # None THEN a.snapshot ELSE 0
      <4>1. CASE forth
        BY <2>2, <3>4, <4>1
      <4>2. CASE ~forth
        BY <2>1, <2>2, <3>2, <3>3, <3>4, <4>2, NoneIsNoWindow
      <4> QED
        BY <4>1, <4>2
    <3> QED
      BY <2>2, <2>3, <2>5, <3>1, <3>2, <3>5 DEF Leads, a, goal
  <2> QED
    BY <2>4, <2>5
<1> QED
  BY <1>4, <1>5, <1>6 DEF Entries

LEMMA UndoRedoTrue ==
    ASSUME Truth, Resumes, Resumes', NEW forth \in BOOLEAN, UndoRedo(forth)
    PROVE  Truth'
<1>1. /\ Idle /\ ops \in Nat /\ ops <= ops'
      /\ UNCHANGED <<record, echo, win, changed, edited, spawnQ, restore, ops, base>>
      /\ WindowsTyped /\ changed \subseteq Regions /\ edited \subseteq Regions
  BY DEF UndoRedo, Resumes, Truth, WindowsTyped
<1>2. /\ \A k \in Regions : Settled(k)
      /\ \A k \in Keys : Shown(win[k]) = Goals[k]
      /\ queue = << >> /\ spawnQ = << >> /\ restore = None /\ edited = {} /\ changed = {}
  BY <1>1, IdleSettles
<1>3. WindowsTyped'
  BY <1>1 DEF WindowsTyped
<1>4. \A k \in Regions : Settled(k)'
  BY <1>1, <1>2 DEF Settled
<1>5. /\ record \in Seq(Entries(ops)) /\ cursor \in 0 .. Len(record)
      /\ Plays(Played(base, record), ops, base, record)
  BY DEF Truth, RecordTells
<1>6. CASE IF forth THEN cursor < Len(record) ELSE cursor > 0
  <2> DEFINE i == IF forth THEN cursor + 1 ELSE cursor
             e == record[i]
             was == Played(base, record)[i - 1]
             is == Played(base, record)[i]
             k == e.key
             a == Action(k, e, forth)
  <2>1. /\ i \in 1 .. Len(record) /\ i - 1 \in 0 .. Len(record) /\ i \in 0 .. Len(record)
        /\ cursor = IF forth THEN i - 1 ELSE i
    BY <1>5, <1>6
  <2>2. cursor' = (IF forth THEN i ELSE i - 1) /\ queue' = Append(queue, a)
    BY <1>6 DEF UndoRedo
  <2>3. /\ e \in Entries(ops) /\ was \in Worlds(ops) /\ Fits(e, was)
        /\ is = Done(was, e)
    <3> HIDE DEF i
    <3>1. i # 0
      BY <2>1
    <3> QED
      BY <1>5, <2>1, <3>1 DEF Plays, Steps
  <2>4. /\ RecordTells'
        /\ Goals = (IF forth THEN was ELSE is)
        /\ Goals' = (IF forth THEN is ELSE was)
    <3>1. cursor' \in 0 .. Len(record)
      BY <2>1, <2>2
    <3>2. RecordTells'
      BY <1>1, <3>1, TellsKept DEF Truth
    <3> HIDE DEF i
    <3>3. Goals = (IF forth THEN was ELSE is)
      BY <2>1 DEF Goals
    <3>4. Goals' = (IF forth THEN is ELSE was)
      BY <1>1, <2>2 DEF Goals
    <3> QED
      BY <3>2, <3>3, <3>4
  <2> HIDE DEF i, e, was, is
  <2>5. k \in Keys /\ Done(was, e) = [was EXCEPT ![k] = Outcome(was, e)]
        /\ was \in [Keys -> Shape(ops) \union {None}]
    BY <1>1, <2>3, DoneIs DEF Worlds
  <2>6. \A j \in Keys : j # k => Goals'[j] = Goals[j]
    BY <2>3, <2>4, <2>5
  <2> HIDE DEF a
  <2>7. queue' = <<a>> /\ queue' # << >> /\ queue'[1] = a
    BY <1>2, <2>2
  <2>8. a.key = k
    BY DEF Action, a
  <2> HIDE DEF k
  <2>9. Leads(a, k, Goals'[k])
    <3>1. win[k] \in Window(ops) \union {None} /\ k = e.key
      BY <1>1, <2>5 DEF WindowsTyped, k
    <3>2. Shown(win[k]) = (IF forth THEN was ELSE Done(was, e))[k]
      BY <1>2, <2>3, <2>4, <2>5
    <3>3. Goals'[k] = (IF forth THEN Done(was, e) ELSE was)[k]
      BY <2>3, <2>4
    <3>4. Leads(Action(k, e, forth), k, (IF forth THEN Done(was, e) ELSE was)[k])
      BY <1>1, <2>3, <3>1, <3>2, ActionLeads
    <3> QED
      BY <3>3, <3>4 DEF a
  <2>10. WindowsTrue'
    <3> SUFFICES ASSUME NEW j \in Keys PROVE Reached(j, Goals[j])'
      BY DEF WindowsTrue
    <3>1. CASE j = k
      <4>1. Leads(queue[1], j, Goals[j])'
        <5> DEFINE g == Goals'[k]
        <5>1. Leads(a, k, g)
          BY <2>9
        <5> HIDE DEF g
        <5>2. /\ \/ a.do = "text" /\ k # 0 /\ win'[k] # None /\ a.to \in Numbers(ops')
                    /\ g = [src |-> a.to, pos |-> win'[k].pos]
                 \/ a.do = "move" /\ win'[k] # None /\ a.to \in Pos
                    /\ g = [src |-> win'[k].src, pos |-> a.to]
                 \/ a.do = "despawn" /\ win'[k] # None /\ g = None
                 \/ a.do = "spawn" /\ win'[k] = None /\ a.to \in Shape(ops') /\ g = a.to
                    /\ a.snapshot \in Numbers(ops') \union {None}
                    /\ a.to.src = IF k # 0 /\ a.snapshot # None THEN a.snapshot ELSE 0
          BY <1>1, <5>1 DEF Leads
        <5> QED
          BY <2>7, <3>1, <5>2 DEF Leads, g
      <4> QED
        BY <2>7, <2>8, <3>1, <4>1 DEF Reached
    <3>2. CASE j # k
      <4>1. Shown(win'[j]) = Goals'[j]
        BY <1>1, <1>2, <2>6, <3>2
      <4> HIDE DEF Goals
      <4> QED
        BY <1>1, <1>2, <2>7, <2>8, <3>2, <4>1 DEF Reached
    <3> QED
      BY <3>1, <3>2
  <2>11. OneAtATime'
    BY <1>1, <1>2, <1>4, <2>5, <2>7, <2>8 DEF OneAtATime
  <2> QED
    BY <1>3, <1>4, <2>4, <2>10, <2>11 DEF Truth, EditorsWell, EditorWell
<1>7. CASE ~(IF forth THEN cursor < Len(record) ELSE cursor > 0)
  <2>1. UNCHANGED <<cursor, queue>>
    BY <1>7 DEF UndoRedo
  <2>2. /\ RecordTells' /\ WindowsTrue'
    BY <1>1, <2>1, StillIs
  <2>3. OneAtATime'
    BY <1>1, <1>2, <2>1 DEF OneAtATime
  <2> QED
    BY <1>3, <1>4, <2>2, <2>3 DEF Truth, EditorsWell, EditorWell
<1> QED
  BY <1>6, <1>7

-----------------------------------------------------------------------------
(* The history tells the truth *)

LEMMA InitTrue == Init => IInv
<1> SUFFICES ASSUME Init PROVE IInv
  OBVIOUS
<1>1. Resumes
  BY InitResumes
<1>2. /\ record = << >> /\ cursor = 0 /\ queue = << >> /\ echo = None
      /\ changed = {} /\ edited = {} /\ spawnQ = << >> /\ restore = None /\ ops = 0
      /\ base = [k \in Keys |-> Shown(win[k])]
      /\ win = [k \in Keys |-> IF k = 0 THEN [src |-> 0, pos |-> 0, buf |-> None,
                                            seed |-> None, told |-> None] ELSE None]
  BY DEF Init
<1>3. /\ win \in [Keys -> Window(0) \union {None}]
      /\ win[0] = [src |-> 0, pos |-> 0, buf |-> None, seed |-> None, told |-> None]
      /\ \A k \in Regions : win[k] = None
  <2>1. [src |-> 0, pos |-> 0, buf |-> None, seed |-> None, told |-> None] \in Window(0)
    BY DEF Window, Numbers, Pos
  <2> QED
    BY <1>2, <2>1, ConstantsAre DEF Regions
<1>4. WindowsTyped
  <2>1. win \in [Keys -> Window(ops) \union {None}]
    BY <1>2, <1>3
  <2>2. win[0].src = 0 /\ win[0].buf = None /\ win[0].seed = None /\ win[0].told = None
    BY <1>3
  <2>3. /\ changed \subseteq Regions /\ edited \subseteq Regions
        /\ echo \in Snapshot(ops) \union {None} /\ restore \in Snapshot(ops) \union {None}
        /\ spawnQ = << >>
    BY <1>2
  <2> QED
    BY <2>1, <2>2, <2>3 DEF WindowsTyped
<1>5. \A k \in Keys : Shown(win[k]) \in Known(0, k)
  <2> SUFFICES ASSUME NEW k \in Keys PROVE Shown(win[k]) \in Known(0, k)
    OBVIOUS
  <2>1. CASE k = 0
    <3>1. win[k] \in Window(0) /\ win[k].src = 0
      BY <1>3, <2>1, NoneIsNoWindow DEF Window, Numbers, Pos
    <3>2. Shown(win[k]) = [src |-> 0, pos |-> win[k].pos] /\ Shown(win[k]) \in Shape(0)
      BY <3>1, ShownIs
    <3> QED
      BY <3>2 DEF Known
  <2>2. CASE k # 0
    <3>1. Shown(win[k]) = None
      BY <1>3, <2>2 DEF Shown, Regions
    <3> QED
      BY <3>1 DEF Known
  <2> QED
    BY <2>1, <2>2
<1>6. base \in Worlds(0)
  <2>1. \A k \in Keys : Known(0, k) \subseteq Shape(0) \union {None}
    BY DEF Known
  <2> QED
    BY <1>2, <1>5, <2>1 DEF Worlds
<1>7. RecordTells /\ Goals = base
  <2> DEFINE w == [i \in 0 .. 0 |-> base]
  <2>1. Steps(w, base, record)
    BY <1>2 DEF Steps
  <2>2. w[0] = base /\ Len(record) = 0 /\ record \in Seq(Entries(0)) /\ Len(record) <= Limit
    BY <1>2, ConstantsAre
  <2> HIDE DEF w
  <2>3. Played(base, record) = w
    BY <2>1, <2>2, PlayedIs
  <2>4. Plays(w, 0, base, record)
    BY <1>6, <2>1, <2>2 DEF Plays
  <2> QED
    BY <1>2, <2>2, <2>3, <2>4 DEF RecordTells, Goals
<1>8. WindowsTrue
  <2> SUFFICES ASSUME NEW k \in Keys PROVE Reached(k, Goals[k])
    BY DEF WindowsTrue
  <2>1. Shown(win[k]) = Goals[k]
    BY <1>2, <1>7
  <2> HIDE DEF Goals
  <2> QED
    BY <1>2, <2>1 DEF Reached
<1>9. OneAtATime
  BY <1>2 DEF OneAtATime
<1>10. EditorsWell
  BY <1>3 DEF EditorsWell, EditorWell
<1> QED
  BY <1>1, <1>4, <1>7, <1>8, <1>9, <1>10 DEF IInv, Truth

LEMMA StrayStays == Resumes /\ [Next]_vars => (stray => stray')
<1> SUFFICES ASSUME Resumes, [Next]_vars, stray PROVE stray'
  OBVIOUS
<1>1. \A e : Push(e) => stray'
  BY DEF Push
<1> QED
  BY <1>1 DEF Next, vars, UndoRedo, ApplyPending, RestoreSnapshot, Dispatch, LayoutAutosave,
      Open, Move, Close, SpawnPeer, SeedPeer, FromWidget, ToWidget, WidgetShows, Type

LEMMA NextTrue == IInv /\ [Next]_vars => IInv'
<1> SUFFICES ASSUME IInv, [Next]_vars PROVE IInv'
  OBVIOUS
<1>1. Resumes /\ Resumes'
  BY NextResumes DEF IInv
<1> SUFFICES ASSUME ~stray' PROVE Truth'
  BY <1>1 DEF IInv
<1>2. Truth
  BY <1>1, StrayStays DEF IInv
<1>3. ASSUME NEW forth \in BOOLEAN, UndoRedo(forth) PROVE Truth'
  BY <1>1, <1>2, <1>3, UndoRedoTrue
<1>4. ASSUME NEW k \in Keys, Move(k) \/ Close(k) PROVE Truth'
  BY <1>1, <1>2, <1>4, MoveTrue, CloseTrue
<1>5. ASSUME NEW r \in Keys,
             SpawnPeer(r) \/ SeedPeer(r) \/ FromWidget(r) \/ ToWidget(r) \/ WidgetShows(r) \/ Type(r)
      PROVE  Truth'
  BY <1>1, <1>2, <1>5, SpawnPeerTrue, SeedPeerTrue, FromWidgetTrue, ToWidgetTrue,
     WidgetShowsTrue, TypeTrue
<1>6. CASE UNCHANGED vars
  BY <1>1, <1>2, <1>6, QuietTrue
<1> QED
  BY <1>1, <1>2, <1>3, <1>4, <1>5, <1>6, ApplyPendingTrue, RestoreSnapshotTrue, DispatchTrue,
     QuietTrue, OpenTrue DEF Next

\* In any run, however long the record grew and whatever the limit dropped of it:
\* when a person can act, the windows and their texts are those the done part of
\* the record gives, and an undo or redo finds each window as its entry says.
THEOREM HistoryAlwaysFits == Spec => []RecordFits
<1>1. IInv => RecordFits
  <2> SUFFICES ASSUME IInv, Idle, ~stray
               PROVE  LET world == Played(base, record) IN
                      /\ \A k \in Keys : Shown(win[k]) = world[cursor][k]
                      /\ \A i \in 1 .. Len(record) : Fits(record[i], world[i - 1])
    BY DEF RecordFits
  <2>1. Truth /\ Resumes
    BY DEF IInv
  <2>2. \A k \in Keys : Shown(win[k]) = Played(base, record)[cursor][k]
    BY <2>1, IdleSettles DEF Goals
  <2> QED
    BY <2>1, <2>2 DEF Truth, RecordTells, Plays
<1> QED
  BY <1>1, InitTrue, NextTrue, PTL DEF Spec
=============================================================================
