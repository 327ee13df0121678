------------------------- MODULE StrategyFilesProofs -------------------------
(***************************************************************************)
(* The strategy editors: what is typed is kept, a file holds its own code  *)
(* and a restart brings back what was there, for any strategies, regions   *)
(* and numbers of edits, saves, openings and mishaps.                      *)
(***************************************************************************)
EXTENDS StrategyFiles, FiniteSets, FiniteSetTheorems, WellFoundedInduction, TLAPS

Messages == [file : Files, user : BOOLEAN]
\* A request for a new window, or for the window of a region.
SpawnRequests ==
    [key : Regions, src : Text \union {None}] \union {[key |-> 0, src |-> Blank]}
Layouts == [wins : SUBSET Regions, others : BOOLEAN, waiting : BOOLEAN,
            asked : SUBSET Regions]

DiskType ==
    /\ py \in [Files -> Source \union {None}]
    /\ side \in [Files -> Sidecar \union {None}]
    /\ cpy \in Source \union {None} /\ cside \in Sidecar \union {None}

WindowType ==
    /\ ed \in [Regions -> Editor \union {None}]
    /\ pend \in Layouts
    /\ DOMAIN frag \subseteq Regions /\ frag \in [DOMAIN frag -> Text]
    /\ alloc \in 0 .. MaxRegion

MessageType ==
    /\ layoutQ \in Seq(Messages) /\ loadQ \in Seq(Messages)
    /\ spawnQ \in Seq(SpawnRequests)

StateType ==
    /\ orig \in Owners /\ loadedFor \in Owners /\ loopback \in Owners
    /\ running \in BOOLEAN /\ cached \in BOOLEAN /\ saDirty \in BOOLEAN /\ laDirty \in BOOLEAN
    /\ dialog \in {"none", "load", "saveas"}

HistoryType ==
    /\ edits \in Nat /\ opens \in Nat /\ saves \in Nat /\ faults \in Nat /\ exits \in Nat
    /\ lineage \in [Files -> SUBSET Owners] /\ \A f \in Files : f \in lineage[f]
    /\ mixed \in BOOLEAN
    /\ left \in Ended \union {None}

TypeInv == DiskType /\ WindowType /\ MessageType /\ StateType /\ HistoryType

\* Nothing outlives the process.
Down == ~running =>
    /\ ed = [r \in Regions |-> None] /\ orig = None
    /\ ~saDirty /\ ~laDirty /\ pend = NoPend /\ frag = NoFrag
    /\ layoutQ = << >> /\ loadQ = << >> /\ spawnQ = << >>

\* A load is under way once at most.
OneMessage == Len(layoutQ) + Len(loadQ) <= 1

\* A load that asks for the layout once more is that of a scenario only.
Echoes ==
    /\ \A i \in DOMAIN loadQ : loadQ[i].user =>
          loopback = loadQ[i].file /\ side[loadQ[i].file] = ScenarioOnly
    /\ \A i \in DOMAIN layoutQ : ~layoutQ[i].user =>
          loopback = layoutQ[i].file /\ side[layoutQ[i].file] = ScenarioOnly

\* While a file is opened no window is on its way.
Stuck == pend.waiting /\ frag = NoFrag
Still == Stuck \/ pend.wins \subseteq pend.asked \ Open
Quiet ==
    /\ \A i \in DOMAIN layoutQ : layoutQ[i].user => spawnQ = << >> /\ Still
    /\ \A i \in DOMAIN loadQ :
          /\ spawnQ = << >>
          /\ IF loadQ[i].user THEN Still
             ELSE frag = NoFrag /\ (Stuck \/ pend.wins = {}) /\ pend.asked = {}

LoadInv == Down /\ OneMessage /\ Echoes /\ Quiet

\* A window whose text ApplyPending is still to replace.
Refill(r) == layoutQ = << >> /\ loadQ = << >> /\ r \in pend.wins \intersect DOMAIN frag

OfOne(t, owners) == t = Blank \/ t.of \in owners
Own(t, f) == OfOne(t, lineage[f])
EditorsOwn == \A r \in Open : Own(ed[r].src, orig) \/ Refill(r)
FragmentsOwn == \A r \in DOMAIN frag : Own(frag[r], orig)
SpawnsOwn == \A i \in DOMAIN spawnQ : spawnQ[i].src # None => Own(spawnQ[i].src, orig)
CacheOwn(f) == cpy # None /\ \A r \in Regions : Own(cpy[r], f)
CacheNames ==
    ~running /\ CacheComplete /\ cside.path # None => CacheOwn(cside.path)

\* What is at hand, in the windows, on its way to one and in the cache, is the
\* code of the strategy.
OwnInv ==
    ~mixed => /\ orig # None => EditorsOwn /\ FragmentsOwn /\ SpawnsOwn /\ CacheOwn(orig)
              /\ CacheNames

Requested(r) == \E i \in DOMAIN spawnQ : spawnQ[i].key = r
Drained(r) == \E i \in DOMAIN spawnQ : spawnQ[i].key = r /\ spawnQ[i].src = None

Kept(t, r) == t.n > 0 /\ t.of = orig => OnDisk(t, r)
EditorsKept == \A r \in Open : ~ed[r].dirty => Kept(ed[r].src, r) \/ Refill(r)
FragmentsKept ==
    \A r \in DOMAIN frag : r \in pend.wins \/ Drained(r) => Kept(frag[r], r)
SpawnsKept == \A i \in DOMAIN spawnQ :
    spawnQ[i].src # None => Kept(spawnQ[i].src, spawnQ[i].key)
AskedComes ==
    \A r \in (pend.wins \intersect DOMAIN frag) \ Open : r \in pend.asked => Requested(r)

\* What is shown, or will be, and does not count as unsaved, is on the disk.
KeptInv == ~mixed => EditorsKept /\ FragmentsKept /\ SpawnsKept /\ AskedComes

\* What a window will show when it opens.
Coming(r) == IF r \in DOMAIN frag THEN frag[r] ELSE Blank

\* A restart on its way: what was left is in the cache, in the windows that are
\* open, or comes with those that are asked for.
OnItsWay ==
    /\ orig = left.orig /\ ~saDirty /\ ~laDirty /\ layoutQ = << >> /\ loadQ = << >>
    /\ Open \subseteq left.open /\ pend.wins \subseteq pend.asked
    /\ \A r \in Open : ed[r].src = left.text[r] /\ r \notin DOMAIN frag
    /\ \A r \in left.open \ Open : Coming(r) = left.text[r] /\ Requested(r)
    /\ \A i \in DOMAIN spawnQ : spawnQ[i].src = None /\ spawnQ[i].key \in left.open \ Open
    /\ \A i, j \in DOMAIN spawnQ : i # j => spawnQ[i].key # spawnQ[j].key

Restoring ==
    left # None /\ Written(left.text) # {} =>
       /\ Written(left.text) \subseteq left.open
       /\ IF running THEN OnItsWay
          ELSE cpy = left.text /\ cside = [path |-> left.orig, wins |-> left.open]

FilesInv == TypeInv /\ LoadInv /\ OwnInv /\ SavedIsOwn /\ KeptInv /\ Restoring

-----------------------------------------------------------------------------
(* Sources, fragments and requests                                         *)

LEMMA BlankIs == Blank \in Text /\ Blank # None /\ Blank.n = 0
  BY NoneAssumption DEF Blank, Text, Owners

LEMMA MergedIs ==
    ASSUME WindowType
    PROVE  /\ Merged \in Source /\ Merged # None
           /\ Open \subseteq Regions
           /\ \A r \in Regions : Merged[r] = IF r \in Open THEN ed[r].src ELSE Blank
           /\ \A r \in Open : ed[r] \in Editor /\ ed[r].src \in Text /\ ed[r].dirty \in BOOLEAN
           /\ Written(Merged) \subseteq Open
  <1>1. \A r \in Open : r \in Regions /\ ed[r] \in Editor
    BY DEF WindowType, Open
  <1>2. \A r \in Open : ed[r].src \in Text /\ ed[r].dirty \in BOOLEAN
    BY <1>1 DEF Editor
  <1>3. Merged = [r \in Regions |-> IF r \in Open THEN ed[r].src ELSE Blank]
    BY DEF Merged
  <1>4. Merged \in [Regions -> Text]
    BY <1>2, <1>3, BlankIs
  <1>5. Written(Merged) \subseteq Open
    BY <1>3 DEF Written
  <1> QED
    BY <1>1, <1>2, <1>3, <1>4, <1>5, NoneAssumption DEF Source

LEMMA CleanIs ==
    ASSUME WindowType
    PROVE  /\ Clean \in [Regions -> Editor \union {None}]
           /\ \A r \in Regions : Clean[r] # None <=> r \in Open
           /\ \A r \in Open : Clean[r].src = ed[r].src /\ Clean[r].dirty = FALSE
  <1>1. \A r \in Open : /\ [ed[r] EXCEPT !.dirty = FALSE] \in Editor
                        /\ [ed[r] EXCEPT !.dirty = FALSE].src = ed[r].src
                        /\ [ed[r] EXCEPT !.dirty = FALSE].dirty = FALSE
    BY MergedIs DEF Editor
  <1>2. \A e \in Editor : e # None
    BY NoneAssumption
  <1> QED
    BY <1>1, <1>2, MergedIs DEF Clean

LEMMA FragmentsAre ==
    ASSUME NEW s \in Source
    PROVE  /\ DOMAIN Fragments(s) \subseteq Regions /\ DOMAIN Fragments(s) # {}
           /\ Fragments(s) \in [DOMAIN Fragments(s) -> Text]
           /\ \A r \in DOMAIN Fragments(s) : \/ Fragments(s)[r] = s[r]
                                             \/ Fragments(s)[r] = Blank /\ Written(s) = {}
           /\ Written(s) # {} => DOMAIN Fragments(s) = Written(s)
           /\ Fragments(s) # NoFrag
           /\ Written(s) \subseteq Regions
           /\ \A r \in Regions : r \notin Written(s) => s[r] = Blank
  <1>1. 1 \in Regions
    BY FilesAssumption DEF Regions
  <1>2. Written(s) \subseteq Regions /\ \A r \in Regions : s[r] \in Text
    BY DEF Written, Source
  <1>3. CASE Written(s) = {}
    <2>1. Fragments(s) = [r \in {1} |-> Blank]
      BY <1>3 DEF Fragments
    <2>2. Fragments(s)[1] = Blank /\ DOMAIN Fragments(s) = {1}
      BY <2>1
    <2>3. Fragments(s) # NoFrag
      BY <2>2 DEF NoFrag
    <2>4. \A r \in Regions : r \notin Written(s) => s[r] = Blank
      BY DEF Written, Source
    <2> QED
      BY <1>1, <1>2, <1>3, <2>1, <2>2, <2>3, <2>4, BlankIs
  <1>4. CASE Written(s) # {}
    <2>1. Fragments(s) = [r \in Written(s) |-> s[r]]
      BY <1>4 DEF Fragments, Restrict
    <2>2. DOMAIN Fragments(s) = Written(s)
      BY <2>1
    <2>3. Fragments(s) # NoFrag
      BY <1>4, <2>2 DEF NoFrag
    <2>4. \A r \in Regions : r \notin Written(s) => s[r] = Blank
      BY DEF Written, Source
    <2>5. \A r \in Written(s) : Fragments(s)[r] = s[r] /\ s[r] \in Text
      BY <1>2, <2>1
    <2>6. Fragments(s) \in [Written(s) -> Text]
      BY <1>2, <2>1
    <2>7. \A r \in DOMAIN Fragments(s) : Fragments(s)[r] = s[r]
      BY <2>2, <2>5
    <2>8. Fragments(s) \in [DOMAIN Fragments(s) -> Text]
      BY <2>2, <2>6
    <2> QED
      BY <1>2, <1>4, <2>2, <2>3, <2>4, <2>7, <2>8
  <1> QED
    BY <1>3, <1>4

LEMMA SpanIs ==
    ASSUME NEW n \in Nat
    PROVE  IsFiniteSet(1 .. n) /\ Cardinality(1 .. n) = n
  <1>1. 1 \in Int /\ n \in Int
    OBVIOUS
  <1>2. /\ IsFiniteSet(1 .. n)
        /\ Cardinality(1 .. n) = IF 1 > n THEN 0 ELSE n - 1 + 1
    BY <1>1, FS_Interval, Zenon
  <1> QED
    BY <1>2

LEMMA RegionsAreFinite == IsFiniteSet(Regions)
  <1>1. MaxRegion \in Nat
    BY FilesAssumption
  <1> QED
    BY <1>1, SpanIs DEF Regions

\* One request for each of the regions, in some order.
LEMMA RequestsAre ==
    ASSUME NEW S \in SUBSET Regions, NEW src, \A r \in S : src[r] \in Text \union {None},
           NEW asks \in Requests(S, src)
    PROVE  /\ asks \in Seq(SpawnRequests)
           /\ \A i \in DOMAIN asks : asks[i].key \in S /\ asks[i].src = src[asks[i].key]
           /\ \A r \in S : \E i \in DOMAIN asks : asks[i].key = r
           /\ \A i, j \in DOMAIN asks : i # j => asks[i].key # asks[j].key
           /\ S = {} => asks = << >>
  <1> DEFINE D == 1 .. Cardinality(S)
  <1>1. IsFiniteSet(S) /\ Cardinality(S) \in Nat
    <2>1. IsFiniteSet(S)
      BY RegionsAreFinite, FS_Subset
    <2> QED
      BY <2>1, FS_CardinalityType
  <1>2. PICK o \in SetToSeqs(S) : asks = [i \in DOMAIN o |-> [key |-> o[i], src |-> src[o[i]]]]
    BY DEF Requests
  <1>3. o \in [D -> S] /\ \A i, j \in D : i # j => o[i] # o[j]
    BY <1>2 DEF SetToSeqs
  <1>4. DOMAIN asks = D /\ asks = [i \in D |-> [key |-> o[i], src |-> src[o[i]]]]
    BY <1>2, <1>3
  <1>5. \A i \in D : /\ o[i] \in S /\ asks[i] = [key |-> o[i], src |-> src[o[i]]]
                     /\ asks[i].key = o[i] /\ asks[i].src = src[o[i]]
    BY <1>3, <1>4
  <1>6. \A i \in D : asks[i] \in SpawnRequests
    <2>1. \A i \in D : o[i] \in Regions /\ src[o[i]] \in Text \union {None}
      BY <1>5
    <2>2. ASSUME NEW i \in D PROVE asks[i] \in SpawnRequests
      <3>1. /\ asks[i] = [key |-> o[i], src |-> src[o[i]]]
            /\ o[i] \in Regions /\ src[o[i]] \in Text \union {None}
        BY <1>5, <2>1, <2>2
      <3> QED
        BY <3>1 DEF SpawnRequests
    <2> QED
      BY <2>2
  <1>7. asks \in [D -> SpawnRequests]
    BY <1>4, <1>6
  <1>8. asks \in Seq(SpawnRequests)
    BY <1>1, <1>7
  <1>9. IsFiniteSet(D) /\ Cardinality(D) = Cardinality(S)
    BY <1>1, SpanIs
  <1>10. o \in Injection(D, S)
    BY <1>3 DEF Injection, IsInjective
  <1>11. o \in Surjection(D, S)
    BY <1>1, <1>9, <1>10, FS_Injection
  <1>12. \A r \in S : \E i \in D : o[i] = r
    BY <1>11 DEF Surjection
  <1>13. S = {} => asks = << >>
    BY <1>4, FS_EmptySet
  <1>14. \A i \in D : asks[i].key \in S /\ asks[i].src = src[asks[i].key]
    BY <1>5
  <1>15. \A r \in S : \E i \in D : asks[i].key = r
    <2>1. ASSUME NEW r \in S PROVE \E i \in D : asks[i].key = r
      <3>1. PICK i \in D : o[i] = r
        BY <1>12
      <3>2. asks[i].key = o[i]
        BY <1>5
      <3> QED
        BY <3>1, <3>2
    <2> QED
      BY <2>1
  <1>16. \A i, j \in D : i # j => asks[i].key # asks[j].key
    <2>1. \A i \in D : asks[i].key = o[i]
      BY <1>5
    <2> QED
      BY <1>3, <2>1
  <1> HIDE DEF D
  <1> QED
    BY <1>4, <1>8, <1>13, <1>14, <1>15, <1>16

\* A queue that grows by some requests.
LEMMA GrownIs ==
    ASSUME NEW p \in Seq(SpawnRequests), NEW q \in Seq(SpawnRequests)
    PROVE  /\ p \o q \in Seq(SpawnRequests)
           /\ \A i \in DOMAIN (p \o q) : (\E j \in DOMAIN p : (p \o q)[i] = p[j])
                                         \/ \E j \in DOMAIN q : (p \o q)[i] = q[j]
           /\ \A j \in DOMAIN p : \E i \in DOMAIN (p \o q) : (p \o q)[i] = p[j]
           /\ \A j \in DOMAIN q : \E i \in DOMAIN (p \o q) : (p \o q)[i] = q[j]
           /\ q = << >> => p \o q = p
           /\ p = << >> => p \o q = q
  <1>1. /\ p \o q \in Seq(SpawnRequests) /\ Len(p \o q) = Len(p) + Len(q)
        /\ DOMAIN (p \o q) = 1 .. Len(p) + Len(q)
        /\ DOMAIN p = 1 .. Len(p) /\ DOMAIN q = 1 .. Len(q)
        /\ Len(p) \in Nat /\ Len(q) \in Nat
    OBVIOUS
  <1>2. \A i \in 1 .. Len(p) + Len(q) :
           (p \o q)[i] = IF i <= Len(p) THEN p[i] ELSE q[i - Len(p)]
    OBVIOUS
  <1>3. ASSUME NEW i \in DOMAIN (p \o q)
        PROVE  (\E j \in DOMAIN p : (p \o q)[i] = p[j])
               \/ \E j \in DOMAIN q : (p \o q)[i] = q[j]
    <2>1. CASE i <= Len(p)
      BY <1>1, <1>2, <2>1
    <2>2. CASE ~(i <= Len(p))
      <3>1. i - Len(p) \in DOMAIN q
        BY <1>1, <2>2
      <3> QED
        BY <1>1, <1>2, <2>2, <3>1
    <2> QED
      BY <2>1, <2>2
  <1>4. ASSUME NEW j \in DOMAIN p
        PROVE  \E i \in DOMAIN (p \o q) : (p \o q)[i] = p[j]
    <2>1. j \in 1 .. Len(p) + Len(q) /\ j <= Len(p)
      BY <1>1
    <2> QED
      BY <1>1, <1>2, <2>1
  <1>5. ASSUME NEW j \in DOMAIN q
        PROVE  \E i \in DOMAIN (p \o q) : (p \o q)[i] = q[j]
    <2>1. /\ j + Len(p) \in 1 .. Len(p) + Len(q) /\ ~(j + Len(p) <= Len(p))
          /\ j + Len(p) - Len(p) = j
      BY <1>1
    <2>2. (p \o q)[j + Len(p)] = q[j]
      BY <1>2, <2>1
    <2> QED
      BY <1>1, <2>1, <2>2
  <1>6. /\ q = << >> => p \o q = p
        /\ p = << >> => p \o q = q
    OBVIOUS
  <1> QED
    BY <1>1, <1>3, <1>4, <1>5, <1>6

LEMMA TailIs ==
    ASSUME NEW S, NEW q \in Seq(S), q # << >>
    PROVE  /\ Tail(q) \in Seq(S) /\ Head(q) \in S /\ Head(q) = q[1] /\ 1 \in DOMAIN q
           /\ \A i \in DOMAIN Tail(q) : i + 1 \in DOMAIN q /\ Tail(q)[i] = q[i + 1] /\ i + 1 # 1
           /\ \A i \in DOMAIN q : i # 1 => i - 1 \in DOMAIN Tail(q) /\ Tail(q)[i - 1] = q[i]
           /\ Len(Tail(q)) = Len(q) - 1 /\ Len(q) \in Nat /\ Len(q) > 0
           /\ Len(q) = 1 => Tail(q) = << >>
  <1>1. /\ Tail(q) \in Seq(S) /\ Head(q) = q[1] /\ Len(q) \in Nat /\ Len(q) > 0
        /\ Len(Tail(q)) = Len(q) - 1
        /\ DOMAIN q = 1 .. Len(q) /\ DOMAIN Tail(q) = 1 .. Len(q) - 1
    OBVIOUS
  <1>2. \A i \in 1 .. Len(q) - 1 : Tail(q)[i] = q[i + 1]
    OBVIOUS
  <1>3. 1 \in DOMAIN q /\ q[1] \in S
    BY <1>1
  <1>4. \A i \in DOMAIN Tail(q) : i + 1 \in DOMAIN q /\ Tail(q)[i] = q[i + 1] /\ i + 1 # 1
    BY <1>1, <1>2
  <1>5. ASSUME NEW i \in DOMAIN q, i # 1
        PROVE  i - 1 \in DOMAIN Tail(q) /\ Tail(q)[i - 1] = q[i]
    <2>1. i - 1 \in 1 .. Len(q) - 1 /\ (i - 1) + 1 = i
      BY <1>1, <1>5
    <2> QED
      BY <1>1, <1>2, <2>1
  <1>6. Len(q) = 1 => Tail(q) = << >>
    BY <1>1
  <1> QED
    BY <1>1, <1>3, <1>4, <1>5, <1>6

-----------------------------------------------------------------------------
(* What the messages of an opening do                                      *)

LEMMA ScenarioIs ==
    ScenarioOnly \in Sidecar /\ ScenarioOnly # None /\ ScenarioOnly.wins = None
  <1>1. ScenarioOnly \in Sidecar
    BY DEF ScenarioOnly, Sidecar, Owners
  <1> QED
    BY <1>1, NoneAssumption DEF ScenarioOnly

LEMMA AppendIs ==
    ASSUME NEW S, NEW q \in Seq(S), NEW x \in S, q = << >>
    PROVE  Append(q, x) = <<x>> /\ <<x>> \in Seq(S) /\ DOMAIN <<x>> = {1} /\ <<x>>[1] = x
           /\ Len(<<x>>) = 1
  OBVIOUS

LEMMA MessageIs ==
    ASSUME MessageType, OneMessage
    PROVE  /\ layoutQ # << >> => /\ Len(layoutQ) = 1 /\ Tail(layoutQ) = << >> /\ loadQ = << >>
                                 /\ Head(layoutQ) = layoutQ[1] /\ DOMAIN layoutQ = {1}
                                 /\ layoutQ[1] \in Messages
           /\ loadQ # << >> => /\ Len(loadQ) = 1 /\ Tail(loadQ) = << >> /\ layoutQ = << >>
                               /\ Head(loadQ) = loadQ[1] /\ DOMAIN loadQ = {1}
                               /\ loadQ[1] \in Messages
  <1>1. Len(layoutQ) \in Nat /\ Len(loadQ) \in Nat
        /\ (layoutQ # << >> => Len(layoutQ) > 0) /\ (loadQ # << >> => Len(loadQ) > 0)
        /\ (Len(layoutQ) = 0 => layoutQ = << >>) /\ (Len(loadQ) = 0 => loadQ = << >>)
    BY DEF MessageType
  <1>2. ASSUME layoutQ # << >>
        PROVE  /\ Len(layoutQ) = 1 /\ Tail(layoutQ) = << >> /\ loadQ = << >>
               /\ Head(layoutQ) = layoutQ[1] /\ DOMAIN layoutQ = {1} /\ layoutQ[1] \in Messages
    <2>1. Len(layoutQ) = 1 /\ Len(loadQ) = 0
      BY <1>1, <1>2, SMTT(60) DEF OneMessage
    <2>2. DOMAIN layoutQ = 1 .. 1
      BY <2>1 DEF MessageType
    <2> QED
      BY <1>1, <1>2, <2>1, <2>2, TailIs DEF MessageType
  <1>3. ASSUME loadQ # << >>
        PROVE  /\ Len(loadQ) = 1 /\ Tail(loadQ) = << >> /\ layoutQ = << >>
               /\ Head(loadQ) = loadQ[1] /\ DOMAIN loadQ = {1} /\ loadQ[1] \in Messages
    <2>1. Len(loadQ) > 0 /\ Len(layoutQ) + Len(loadQ) <= 1
      BY <1>1, <1>3 DEF OneMessage
    <2>1a. Len(loadQ) = 1 /\ Len(layoutQ) = 0
      BY <1>1, <2>1
    <2>2. DOMAIN loadQ = 1 .. 1
      BY <2>1a DEF MessageType
    <2> QED
      BY <1>1, <1>3, <2>1a, <2>2, TailIs DEF MessageType
  <1> QED
    BY <1>2, <1>3

Deferred(f, wins) ==
    /\ f \in Files /\ wins \in (SUBSET Regions) \union {None}
    /\ loadQ' = <<[file |-> f, user |-> FALSE]>>
    /\ frag' = NoFrag /\ loadedFor' = None
    /\ pend' = [wins |-> IF wins = None THEN {} ELSE wins, others |-> wins # None,
                waiting |-> wins # None, asked |-> {}]
    /\ UNCHANGED <<ed, spawnQ, loopback, mixed>>

Windowed(wins, p, fr) ==
    /\ wins \in SUBSET Regions
    /\ \/ p = pend /\ fr = frag
       \/ p = NoPend /\ fr = NoFrag
    /\ \E asks \in Requests((wins \ Open) \ p.asked, Undrained) : spawnQ' = spawnQ \o asks
    /\ pend' = [p EXCEPT !.wins = @ \union (wins \ Open), !.asked = @ \union (wins \ Open)]
    /\ ed' = [r \in Regions |-> IF r \in wins THEN ed[r] ELSE None]
    /\ frag' = fr /\ loadedFor' \in Owners
    /\ mixed' = (mixed \/ (wins \ Open) \intersect DOMAIN fr # {})
    /\ UNCHANGED <<loadQ, loopback>>

Forgotten ==
    /\ pend' = NoPend /\ frag' = NoFrag /\ loadedFor' = None
    /\ UNCHANGED <<ed, loadQ, spawnQ, loopback, mixed>>

\* The five things that can become of a layout: nothing, the strategy of a
\* scenario is asked for, the strategy is loaded first, the windows are opened
\* and closed, or what waited is forgotten.
LEMMA LayoutIs ==
    ASSUME TypeInv, LoadInv, ApplyLayout
    PROVE  /\ running /\ layoutQ # << >> /\ layoutQ' = << >> /\ loadQ = << >>
           /\ DOMAIN layoutQ = {1}
           /\ UNCHANGED <<disk, running, buffer, saDirty, laDirty, dialog, alloc, counts,
                          lineage, left>>
           /\ \E f \in Files, user \in BOOLEAN :
                 /\ layoutQ[1] = [file |-> f, user |-> user]
                 /\ \/ /\ UNCHANGED <<ed, pending, loadQ, spawnQ, mixed>>
                       /\ loopback' \in Owners
                    \/ /\ user /\ side[f] = ScenarioOnly
                       /\ loopback' = f /\ loadQ' = <<[file |-> f, user |-> TRUE]>>
                       /\ UNCHANGED <<ed, spawnQ, pending, mixed>>
                    \/ user /\ \E g, wins : Deferred(g, wins)
                    \/ user /\ \E wins, p, fr : Windowed(wins, p, fr)
                    \/ user /\ Forgotten
  <1>1. /\ layoutQ # << >> /\ layoutQ' = Tail(layoutQ) /\ running
        /\ UNCHANGED <<disk, running, buffer, saDirty, laDirty, dialog, alloc, counts,
                       lineage, left>>
    BY DEF ApplyLayout
  <1>2. /\ layoutQ' = << >> /\ loadQ = << >> /\ DOMAIN layoutQ = {1}
        /\ Head(layoutQ) = layoutQ[1] /\ layoutQ[1] \in Messages
    BY <1>1, MessageIs DEF TypeInv, LoadInv
  <1>3. PICK f \in Files, user \in BOOLEAN : layoutQ[1] = [file |-> f, user |-> user]
    BY <1>2 DEF Messages
  <1>4. Head(layoutQ).file = f /\ Head(layoutQ).user = user
    BY <1>2, <1>3
  <1> DEFINE l == side[f]
  <1>5. l \in Sidecar \union {None} /\ f # None
    BY FilesAssumption DEF TypeInv, DiskType
  <1>6. ~user => loopback = f /\ l = ScenarioOnly
    BY <1>2, <1>3, <1>4 DEF LoadInv, Echoes
  <1>7. loopback \in Owners /\ loadedFor \in Owners /\ f \in Owners /\ None \in Owners
    BY DEF TypeInv, StateType, Owners
  <1>8. CASE l = None
    <2>1. UNCHANGED <<ed, pending, loadQ, spawnQ, loopback, mixed>>
      BY <1>4, <1>8 DEF ApplyLayout
    <2> QED
      BY <1>1, <1>2, <1>3, <1>7, <2>1
  <1>9. CASE l = ScenarioOnly
    <2>1. l # None
      BY <1>9, ScenarioIs
    <2>2. OpenScenario(f)
      BY <1>4, <1>9, <2>1 DEF ApplyLayout
    <2>3. UNCHANGED <<ed, spawnQ, pending, mixed>>
      BY <2>2 DEF OpenScenario
    <2>4. CASE loopback = f
      <3>1. loopback' = None /\ loadQ' = loadQ
        BY <2>2, <2>4 DEF OpenScenario
      <3> QED
        BY <1>1, <1>2, <1>3, <1>7, <2>3, <3>1
    <2>5. CASE loopback # f
      <3>1. user
        BY <1>6, <2>5
      <3>2. CASE py[f] # None
        <4>1. loopback' = f /\ loadQ' = Append(loadQ, [file |-> f, user |-> TRUE])
          BY <2>2, <2>5, <3>2 DEF OpenScenario
        <4>2. [file |-> f, user |-> TRUE] \in Messages
          BY DEF Messages
        <4>3. loadQ' = <<[file |-> f, user |-> TRUE]>>
          BY <1>2, <4>1, <4>2, AppendIs DEF TypeInv, MessageType
        <4> QED
          BY <1>1, <1>2, <1>3, <1>9, <2>3, <3>1, <4>1, <4>3
      <3>3. CASE py[f] = None
        <4>1. UNCHANGED <<loopback, loadQ>>
          BY <2>2, <2>5, <3>3 DEF OpenScenario
        <4> QED
          BY <1>1, <1>2, <1>3, <1>7, <2>3, <4>1
      <3> QED
        BY <3>2, <3>3
    <2> QED
      BY <2>4, <2>5
  <1>10. CASE l # None /\ l # ScenarioOnly
    <2>1. user /\ l \in Sidecar /\ l.path \in Owners /\ l.wins \in (SUBSET Regions) \union {None}
      BY <1>5, <1>6, <1>10 DEF Sidecar
    <2>2. ASSUME NEW g \in Files, Defer(g, l.wins)
          PROVE  Deferred(g, l.wins)
      <3>1. [file |-> g, user |-> FALSE] \in Messages
        BY DEF Messages
      <3>2. loadQ' = <<[file |-> g, user |-> FALSE]>>
        BY <1>2, <2>2, <3>1, AppendIs DEF Defer, TypeInv, MessageType
      <3> QED
        BY <2>1, <2>2, <3>2 DEF Defer, Deferred
    <2>3. CASE l.path # None /\ py[l.path] # None /\ (user \/ loadedFor = None)
      <3>1. Defer(l.path, l.wins)
        BY <1>4, <1>10, <2>3 DEF ApplyLayout
      <3>2. l.path \in Files
        BY <2>1, <2>3 DEF Owners
      <3> QED
        BY <1>1, <1>2, <1>3, <2>1, <2>2, <3>1, <3>2
    <2>4. CASE /\ ~(l.path # None /\ py[l.path] # None /\ (user \/ loadedFor = None))
               /\ l.path # None /\ py[l.path] = None /\ user /\ py[f] # None
      <3>1. Defer(f, l.wins)
        BY <1>4, <1>10, <2>4 DEF ApplyLayout
      <3> QED
        BY <1>1, <1>2, <1>3, <2>1, <2>2, <3>1
    <2>5. CASE /\ ~(l.path # None /\ py[l.path] # None /\ (user \/ loadedFor = None))
               /\ ~(l.path # None /\ py[l.path] = None /\ user /\ py[f] # None)
      <3> DEFINE lost == l.path # None /\ py[l.path] = None /\ user
                 p == IF lost THEN NoPend ELSE pend
                 fr == IF lost THEN NoFrag ELSE frag
                 lf == IF lost THEN None ELSE loadedFor
      <3>1. IF l.wins # None THEN ApplyWindows(l.wins, p, fr, lf)
            ELSE /\ pend' = p /\ frag' = fr /\ loadedFor' = lf
                 /\ UNCHANGED <<ed, loadQ, spawnQ, loopback, mixed>>
        BY <1>4, <1>10, <2>5 DEF ApplyLayout
      <3>2. \/ lost /\ p = NoPend /\ fr = NoFrag /\ lf = None
            \/ ~lost /\ p = pend /\ fr = frag /\ lf = loadedFor
        OBVIOUS
      <3>3. lf \in Owners
        BY <1>7, <3>2
      <3> HIDE DEF lost, p, fr, lf
      <3>4. CASE l.wins # None
        <4>1. ApplyWindows(l.wins, p, fr, lf) /\ l.wins \in SUBSET Regions
          BY <2>1, <3>1, <3>4
        <4>2. (p = pend /\ fr = frag) \/ (p = NoPend /\ fr = NoFrag)
          BY <3>2
        <4>3. Windowed(l.wins, p, fr)
          BY <3>3, <4>1, <4>2 DEF ApplyWindows, Windowed
        <4> QED
          BY <1>1, <1>2, <1>3, <2>1, <4>3
      <3>5. CASE l.wins = None
        <4>1. /\ pend' = p /\ frag' = fr /\ loadedFor' = lf
              /\ UNCHANGED <<ed, loadQ, spawnQ, loopback, mixed>>
          BY <3>1, <3>5
        <4>2. Forgotten \/ UNCHANGED <<ed, pending, loadQ, spawnQ, loopback, mixed>>
          BY <3>2, <4>1 DEF Forgotten, pending
        <4> QED
          BY <1>1, <1>2, <1>3, <1>7, <2>1, <4>2
      <3> QED
        BY <3>4, <3>5
    <2> QED
      BY <2>3, <2>4, <2>5
  <1> QED
    BY <1>8, <1>9, <1>10

Loaded(f) ==
    /\ py[f] # None /\ py[f] \in Source
    /\ orig' = f /\ frag' = Fragments(py[f]) /\ loadedFor' = f
    /\ alloc' = Top(DOMAIN Fragments(py[f]), alloc)
    /\ cached' \in BOOLEAN
    /\ mixed' \in BOOLEAN /\ (mixed => mixed')
    /\ \/ cpy' = py[f] /\ cside' \in {None, side[f], cside}
       \/ cpy' = cpy /\ cside' = cside /\ mixed'

\* The strategy was not read, or it is the one of a scenario, or that of a layout.
LEMMA LoadIs ==
    ASSUME TypeInv, LoadInv, LoadStrategy
    PROVE  /\ running /\ loadQ # << >> /\ loadQ' = << >> /\ layoutQ = << >> /\ spawnQ = << >>
           /\ UNCHANGED <<py, side, running, pend, saDirty, laDirty, dialog, loopback,
                          edits, opens, saves, exits, lineage, left>>
           /\ faults' \in Nat
           /\ \E f \in Files :
                 \/ UNCHANGED <<cpy, cside, ed, buffer, frag, loadedFor, layoutQ, spawnQ,
                                alloc, mixed>>
                 \/ /\ Loaded(f)
                    /\ loopback = f /\ side[f] = ScenarioOnly /\ Still
                    /\ ed' = [r \in Regions |-> None]
                    /\ layoutQ' = <<[file |-> f, user |-> FALSE]>>
                    /\ spawnQ' \in Requests(DOMAIN Fragments(py[f]), py[f])
                 \/ /\ Loaded(f)
                    /\ frag = NoFrag /\ pend.asked = {}
                    /\ ~mixed' => Written(Merged) \subseteq pend.wins \intersect DOMAIN frag'
                    /\ UNCHANGED <<ed, layoutQ, spawnQ>>
  <1>1. /\ loadQ # << >> /\ loadQ' = Tail(loadQ) /\ running
        /\ UNCHANGED <<running, saDirty, laDirty, dialog, loopback, edits, opens, saves,
                       exits, lineage, left>>
    BY DEF LoadStrategy
  <1>2. /\ loadQ' = << >> /\ layoutQ = << >> /\ DOMAIN loadQ = {1}
        /\ Head(loadQ) = loadQ[1] /\ loadQ[1] \in Messages
    BY <1>1, MessageIs DEF TypeInv, LoadInv
  <1>3. PICK f \in Files, user \in BOOLEAN : loadQ[1] = [file |-> f, user |-> user]
    BY <1>2 DEF Messages
  <1>4. Head(loadQ).file = f /\ Head(loadQ).user = user
    BY <1>2, <1>3
  <1>5. spawnQ = << >>
    BY <1>2 DEF LoadInv, Quiet
  <1>6. user => loopback = f /\ side[f] = ScenarioOnly /\ Still
    BY <1>2, <1>3, <1>4 DEF LoadInv, Echoes, Quiet
  <1>7. ~user => frag = NoFrag /\ pend.asked = {}
    BY <1>2, <1>3, <1>4 DEF LoadInv, Quiet
  <1>8. ASSUME NEW ok \in BOOLEAN, Fault(ok) PROVE faults' \in Nat
    BY <1>8 DEF Fault, TypeInv, HistoryType
  <1>9. CASE /\ Fault(py[f] = None)
             /\ UNCHANGED <<disk, ed, buffer, pending, layoutQ, spawnQ, alloc, mixed>>
    <2>1. faults' \in Nat
      BY <1>8, <1>9
    <2> QED
      BY <1>1, <1>2, <1>5, <1>9, <2>1 DEF disk, pending
  <1>10. CASE
           /\ py[f] # None
           /\ frag' = Fragments(py[f]) /\ loadedFor' = f
           /\ \E out \in {"dir", "sync"} \union Copies :
                 /\ Fault(out = "done")
                 /\ SyncToCache(f, out)
                 /\ cached' = (out # "dir")
                 /\ mixed' = \/ mixed \/ out \in {"dir", "sync"}
                             \/ ~user /\ Written(Merged) \ (pend.wins \intersect DOMAIN frag') # {}
           /\ orig' = f
           /\ alloc' = Top(DOMAIN Fragments(py[f]), alloc)
           /\ ed' = IF user THEN [r \in Regions |-> None] ELSE ed
           /\ layoutQ' = IF user /\ side[f] # None
                            THEN Append(layoutQ, [file |-> f, user |-> FALSE]) ELSE layoutQ
           /\ IF user /\ (side[f] = None \/ side[f].wins = None)
               THEN \E asks \in Requests(DOMAIN Fragments(py[f]), py[f]) : spawnQ' = spawnQ \o asks
               ELSE UNCHANGED spawnQ
           /\ UNCHANGED <<py, side, pend>>
    <2>1. PICK out \in {"dir", "sync"} \union Copies :
                 /\ Fault(out = "done")
                 /\ SyncToCache(f, out)
                 /\ cached' = (out # "dir")
                 /\ mixed' = \/ mixed \/ out \in {"dir", "sync"}
                             \/ ~user /\ Written(Merged) \ (pend.wins \intersect DOMAIN frag') # {}
      BY <1>10
    <2>2. py[f] \in Source /\ py[f] # None
      BY <1>10 DEF TypeInv, DiskType
    <2>3. faults' \in Nat
      BY <1>8, <2>1
    <2>4. mixed \in BOOLEAN
      BY DEF TypeInv, HistoryType
    <2>5. mixed' \in BOOLEAN /\ cached' \in BOOLEAN /\ (mixed => mixed')
          /\ (out \in {"dir", "sync"} => mixed')
          /\ (~user /\ ~mixed' => Written(Merged) \subseteq pend.wins \intersect DOMAIN frag')
      BY <2>1
    <2>6. \/ cpy' = py[f] /\ cside' \in {None, side[f], cside}
          \/ cpy' = cpy /\ cside' = cside /\ mixed'
      BY <2>1, <2>5 DEF SyncToCache, SidecarCopy, Copies
    <2>7. Loaded(f)
      BY <1>10, <2>2, <2>5, <2>6 DEF Loaded
    <2>8. CASE user
      <3>1. side[f] # None /\ side[f].wins = None
        BY <1>6, <2>8, ScenarioIs
      <3>2. [file |-> f, user |-> FALSE] \in Messages
        BY DEF Messages
      <3>3. layoutQ' = <<[file |-> f, user |-> FALSE]>>
        <4>1. layoutQ' = Append(layoutQ, [file |-> f, user |-> FALSE])
          BY <1>10, <2>8, <3>1
        <4>2. layoutQ \in Seq(Messages)
          BY DEF TypeInv, MessageType
        <4> QED
          BY <1>2, <3>2, <4>1, <4>2, AppendIs
      <3>4. PICK asks \in Requests(DOMAIN Fragments(py[f]), py[f]) : spawnQ' = spawnQ \o asks
        BY <1>10, <2>8, <3>1
      <3>5. asks \in Seq(SpawnRequests)
        <4>1. \A r \in DOMAIN Fragments(py[f]) : py[f][r] \in Text \union {None}
          BY <2>2, FragmentsAre DEF Source
        <4> QED
          BY <2>2, <4>1, FragmentsAre, RequestsAre
      <3>6. spawnQ' = asks
        BY <1>5, <3>4, <3>5, GrownIs DEF TypeInv, MessageType
      <3> QED
        BY <1>1, <1>2, <1>5, <1>6, <1>10, <2>3, <2>7, <2>8, <3>3, <3>6
    <2>9. CASE ~user
      BY <1>1, <1>2, <1>5, <1>7, <1>10, <2>3, <2>5, <2>7, <2>9
    <2> QED
      BY <2>8, <2>9
  <1> QED
    BY <1>4, <1>9, <1>10 DEF LoadStrategy


-----------------------------------------------------------------------------
(* What the other actions do                                               *)

LEMMA LeastOf ==
    ASSUME NEW T \in SUBSET Nat, T # {}
    PROVE  \E m \in T : \A k \in T : m <= k
  <1> DEFINE R == {p \in Nat \X Nat : p[1] < p[2]}
  <1>1. IsWellFoundedOn(R, Nat)
    BY NatLessThanWellFounded DEF OpToRel
  <1>2. \A x, y \in Nat : x < y => <<x, y>> \in R
    OBVIOUS
  <1> HIDE DEF R
  <1>3. PICK m \in T : \A k \in T : ~(<<k, m>> \in R)
    BY <1>1, WFMin
  <1>4. ASSUME NEW k \in T PROVE m <= k
    <2>1. ~(k < m)
      BY <1>2, <1>3
    <2> QED
      BY <2>1
  <1> QED
    BY <1>4

LEMMA TopIs ==
    ASSUME NEW S \in SUBSET Regions, NEW n \in 0 .. MaxRegion
    PROVE  Top(S, n) \in 0 .. MaxRegion
  <1> DEFINE T == S \union {n}
  <1> DEFINE below == {k \in Nat : MaxRegion - k \in T}
  <1>1. MaxRegion \in Nat /\ \A k \in T : k \in Nat /\ k <= MaxRegion
    BY FilesAssumption DEF Regions
  <1>2. below \in SUBSET Nat /\ below # {}
    <2>1. MaxRegion - n \in Nat /\ MaxRegion - (MaxRegion - n) = n
      BY <1>1
    <2> QED
      BY <2>1
  <1>3. PICK m \in below : \A k \in below : m <= k
    BY <1>2, LeastOf
  <1>4. ASSUME NEW i \in T PROVE i <= MaxRegion - m
    <2>1. i \in Nat /\ MaxRegion - i \in Nat /\ MaxRegion - (MaxRegion - i) = i /\ m \in Nat
      BY <1>1
    <2>2. m <= MaxRegion - i
      BY <1>3, <2>1
    <2> QED
      BY <1>1, <2>1, <2>2
  <1>5. \E x \in T : \A y \in T : y <= x
    BY <1>3, <1>4
  <1>6. Top(S, n) \in T
    BY <1>5 DEF Top
  <1> QED
    BY <1>1, <1>6

\* A dispatched request opens one window: with the text it brings, with the
\* fragment that waits for it, or blank.
Dispatched(req, r) ==
    /\ r \in Regions /\ req.key \in {0, r}
    /\ \/ /\ req.src # None /\ req.src \in Text
          /\ ed' = [ed EXCEPT ![r] = [src |-> req.src, dirty |-> FALSE]]
          /\ frag' = frag
       \/ /\ req.src = None /\ req.key = r /\ Coming(r) \in Text
          /\ ed' = [ed EXCEPT ![r] = [src |-> Coming(r), dirty |-> FALSE]]
          /\ frag' = [k \in DOMAIN frag \ {r} |-> frag[k]]

LEMMA DispatchIs ==
    ASSUME TypeInv, Dispatch
    PROVE  /\ running /\ spawnQ # << >> /\ spawnQ' = Tail(spawnQ)
           /\ UNCHANGED <<disk, running, orig, saDirty, laDirty, pend, loadedFor, layoutQ,
                          loadQ, dialog, loopback, counts, lineage, mixed, left>>
           /\ cached' \in BOOLEAN /\ alloc' \in 0 .. MaxRegion
           /\ spawnQ[1] \in SpawnRequests
           /\ \/ UNCHANGED <<ed, frag>> /\ spawnQ[1].key = 0
              \/ \E r \in Regions : Dispatched(spawnQ[1], r)
  <1> DEFINE req == Head(spawnQ)
             r == IF req.key = 0 THEN alloc + 1 ELSE req.key
             seed == IF req.src # None THEN req.src
                     ELSE IF r \in DOMAIN frag THEN frag[r] ELSE Blank
  <1>1. /\ running /\ spawnQ # << >> /\ spawnQ' = Tail(spawnQ)
        /\ UNCHANGED <<disk, running, orig, saDirty, laDirty, pend, loadedFor, layoutQ,
                       loadQ, dialog, loopback, counts, lineage, mixed, left>>
    BY DEF Dispatch
  <1>2. req = spawnQ[1] /\ req \in SpawnRequests
    BY <1>1, TailIs DEF TypeInv, MessageType
  <1>3. /\ req.key \in Regions \union {0} /\ req.src \in Text \union {None}
        /\ (req.key = 0 => req.src # None)
    <2>1. CASE req \in [key : Regions, src : Text \union {None}]
      <3>1. 0 \notin Regions
        BY DEF Regions
      <3> QED
        BY <2>1, <3>1
    <2>2. CASE req = [key |-> 0, src |-> Blank]
      BY <2>2, BlankIs
    <2> QED
      BY <1>2, <2>1, <2>2 DEF SpawnRequests
  <1>4. MaxRegion \in Nat /\ alloc \in 0 .. MaxRegion
    BY FilesAssumption DEF TypeInv, WindowType
  <1>5. IF r > MaxRegion
         THEN UNCHANGED <<ed, frag, alloc, cached>>
         ELSE /\ ed' = [ed EXCEPT ![r] = [src |-> seed, dirty |-> FALSE]]
              /\ frag' = IF req.src = None THEN Restrict(frag, DOMAIN frag \ {r}) ELSE frag
              /\ alloc' = IF r > alloc THEN r ELSE alloc
              /\ cached' = (cached \/ (req.key = 0 /\ orig = None))
    BY DEF Dispatch
  <1>6. r \in Nat /\ r >= 1 /\ (r > MaxRegion => req.key = 0) /\ (r <= MaxRegion => r \in Regions)
    BY <1>3, <1>4 DEF Regions
  <1>7. req.key \in {0, r}
    BY <1>3
  <1>8. DOMAIN frag \subseteq Regions /\ Coming(r) \in Text
    BY BlankIs DEF TypeInv, WindowType, Coming
  <1>9. seed = IF req.src # None THEN req.src ELSE Coming(r)
    BY DEF Coming
  <1>10. req.src = None => req.key = r
    BY <1>3
  <1> HIDE DEF r, seed
  <1>11. CASE r > MaxRegion
    <2>1. UNCHANGED <<ed, frag, alloc, cached>>
      BY <1>5, <1>11
    <2>2. cached' \in BOOLEAN /\ alloc' \in 0 .. MaxRegion
      BY <1>4, <2>1 DEF TypeInv, StateType
    <2> QED
      BY <1>1, <1>2, <1>6, <1>11, <2>1, <2>2
  <1>12. CASE r <= MaxRegion
    <2>1. /\ ed' = [ed EXCEPT ![r] = [src |-> seed, dirty |-> FALSE]]
          /\ frag' = IF req.src = None THEN Restrict(frag, DOMAIN frag \ {r}) ELSE frag
          /\ alloc' = IF r > alloc THEN r ELSE alloc
          /\ cached' = (cached \/ (req.key = 0 /\ orig = None))
      BY <1>4, <1>5, <1>6, <1>12
    <2>2. r \in Regions
      BY <1>6, <1>12
    <2>3. alloc' \in 0 .. MaxRegion
      BY <1>4, <2>1, <2>2 DEF Regions
    <2>4. cached' \in BOOLEAN
      BY <2>1
    <2>5. CASE req.src # None
      BY <1>1, <1>2, <1>3, <1>7, <1>9, <2>1, <2>2, <2>3, <2>4, <2>5 DEF Dispatched
    <2>6. CASE req.src = None
      <3>1. frag' = [k \in DOMAIN frag \ {r} |-> frag[k]]
        BY <2>1, <2>6 DEF Restrict
      <3> QED
        BY <1>1, <1>2, <1>7, <1>8, <1>9, <1>10, <2>1, <2>2, <2>3, <2>4, <2>6, <3>1
        DEF Dispatched
    <2> QED
      BY <2>5, <2>6
  <1> QED
    BY <1>4, <1>6, <1>11, <1>12

\* A save writes the sidecar, then the source, then the cache pair.
LEMMA WriteIs ==
    ASSUME TypeInv, NEW f \in Files, NEW out \in SaveOutcome, WriteStrategy(f, out)
    PROVE  /\ faults' \in Nat
           /\ JsonWritten(out) \in BOOLEAN /\ PyWritten(out) \in BOOLEAN /\ Synced(out) \in BOOLEAN
           /\ side' = IF JsonWritten(out)
                        THEN [side EXCEPT ![f] = [path |-> f, wins |-> Open]] ELSE side
           /\ [path |-> f, wins |-> Open] \in Sidecar
           /\ py' = IF PyWritten(out) THEN [py EXCEPT ![f] = Merged] ELSE py
           /\ PyWritten(out) => JsonWritten(out) /\ Written(Merged) # {}
           /\ Synced(out) => PyWritten(out)
           /\ \/ /\ Synced(out) /\ cpy' = Merged /\ ed' = Clean /\ saDirty' = FALSE
                 /\ cside' \in {None, [path |-> f, wins |-> Open], cside}
              \/ ~Synced(out) /\ UNCHANGED <<cpy, cside, ed, saDirty>>
  <1>1. faults' \in Nat
    BY DEF WriteStrategy, Fault, TypeInv, HistoryType
  <1>2. /\ side' = IF JsonWritten(out)
                        THEN [side EXCEPT ![f] = [path |-> f, wins |-> Open]] ELSE side
        /\ py' = IF PyWritten(out) THEN [py EXCEPT ![f] = Merged] ELSE py
    BY DEF WriteStrategy
  <1>3. [path |-> f, wins |-> Open] \in Sidecar
    BY DEF Sidecar, Owners, Open
  <1>4. /\ JsonWritten(out) \in BOOLEAN /\ PyWritten(out) \in BOOLEAN /\ Synced(out) \in BOOLEAN
        /\ PyWritten(out) => JsonWritten(out) /\ Written(Merged) # {}
        /\ Synced(out) => PyWritten(out)
    BY DEF JsonWritten, PyWritten, Synced, Copies
  <1>5. CASE Synced(out)
    <2>1. /\ cpy' = Merged /\ ed' = Clean /\ saDirty' = FALSE
          /\ cside' = SidecarCopy(side'[f], out) /\ out \in Copies
      BY <1>5 DEF WriteStrategy, Synced
    <2>2. side' = [side EXCEPT ![f] = [path |-> f, wins |-> Open]]
      BY <1>2, <1>4, <1>5
    <2>3. side'[f] = [path |-> f, wins |-> Open]
      BY <2>2 DEF TypeInv, DiskType
    <2>4. cside' \in {None, [path |-> f, wins |-> Open], cside}
      BY <2>1, <2>3 DEF SidecarCopy, Copies
    <2> QED
      BY <1>1, <1>2, <1>3, <1>4, <1>5, <2>1, <2>4
  <1>6. CASE ~Synced(out)
    <2>1. UNCHANGED <<cpy, cside, ed, saDirty>>
      BY <1>6 DEF WriteStrategy
    <2> QED
      BY <1>1, <1>2, <1>3, <1>4, <1>6, <2>1
  <1> QED
    BY <1>4, <1>5, <1>6

\* A start reads the cache pair when both files are there.
Restored(wins, asked) ==
    /\ cside # None /\ cpy # None /\ cside \in Sidecar /\ cpy \in Source
    /\ wins \in SUBSET Regions /\ asked \in SUBSET Regions
    /\ \/ wins = cside.wins
       \/ cside.wins = None /\ wins = {}
    /\ asked = IF wins # {} THEN wins ELSE DOMAIN Fragments(cpy)
    /\ orig' = cside.path /\ cached' = TRUE
    /\ frag' = Fragments(cpy) /\ loadedFor' = cside.path
    /\ alloc' \in 0 .. MaxRegion
    /\ pend' = [wins |-> wins, others |-> cside.wins # None, waiting |-> FALSE, asked |-> asked]
    /\ spawnQ' \in Requests(asked, Undrained)

LEMMA RestartIs ==
    ASSUME TypeInv, Restart
    PROVE  /\ ~running /\ running' = TRUE
           /\ UNCHANGED <<disk, ed, saDirty, laDirty, layoutQ, loadQ, dialog, loopback, counts,
                          lineage, mixed, left>>
           /\ \/ \E wins, asked : Restored(wins, asked)
              \/ ~CacheComplete /\ UNCHANGED <<buffer, pending, alloc, spawnQ>>
  <1>1. /\ ~running /\ running' = TRUE
        /\ UNCHANGED <<disk, ed, saDirty, laDirty, layoutQ, loadQ, dialog, loopback, counts,
                       lineage, mixed, left>>
    BY DEF Restart
  <1>2. CASE CacheComplete
    <2> DEFINE wins == IF cside.wins = None THEN {} ELSE cside.wins
               asked == IF wins # {} THEN wins ELSE DOMAIN Fragments(cpy)
    <2>1. /\ orig' = cside.path /\ cached' = TRUE
          /\ frag' = Fragments(cpy) /\ loadedFor' = cside.path
          /\ alloc' = Top(DOMAIN Fragments(cpy), 0)
          /\ pend' = [wins |-> wins, others |-> cside.wins # None, waiting |-> FALSE,
                      asked |-> asked]
          /\ spawnQ' \in Requests(asked, Undrained)
      BY <1>2 DEF Restart
    <2>2. cside # None /\ cpy # None /\ cside \in Sidecar /\ cpy \in Source
      BY <1>2 DEF CacheComplete, TypeInv, DiskType
    <2>3. wins \in SUBSET Regions
      BY <2>2 DEF Sidecar
    <2>4. \/ wins = cside.wins
          \/ cside.wins = None /\ wins = {}
      OBVIOUS
    <2>5. asked \in SUBSET Regions
      BY <2>2, <2>3, FragmentsAre
    <2>6. alloc' \in 0 .. MaxRegion
      <3>1. 0 \in 0 .. MaxRegion /\ DOMAIN Fragments(cpy) \in SUBSET Regions
        BY <2>2, FragmentsAre, FilesAssumption
      <3> QED
        BY <2>1, <3>1, TopIs
    <2>7. asked = IF wins # {} THEN wins ELSE DOMAIN Fragments(cpy)
      OBVIOUS
    <2> HIDE DEF wins, asked
    <2>8. Restored(wins, asked)
      BY <2>1, <2>2, <2>3, <2>4, <2>5, <2>6, <2>7 DEF Restored
    <2> QED
      BY <1>1, <2>8
  <1>3. CASE ~CacheComplete
    <2>1. UNCHANGED <<buffer, pending, alloc, spawnQ>>
      BY <1>3 DEF Restart
    <2> QED
      BY <1>1, <1>3, <2>1
  <1> QED
    BY <1>2, <1>3

-----------------------------------------------------------------------------
(* Types                                                                   *)

LEMMA FilesInit == Init => FilesInv
  <1> SUFFICES ASSUME Init PROVE FilesInv
    OBVIOUS
  <1>1. PICK shape \in [Files -> (SUBSET Regions) \union {None}] :
            py = [f \in Files |-> IF shape[f] = None THEN None
                   ELSE [r \in Regions |-> IF r \in shape[f] THEN [of |-> f, n |-> 0] ELSE Blank]]
    BY DEF Init
  <1>2. ASSUME NEW f \in Files
        PROVE  /\ py[f] \in Source \union {None}
               /\ py[f] # None => \A r \in Regions : py[f][r] = Blank \/ py[f][r].of = f
    <2>1. [of |-> f, n |-> 0] \in Text /\ [of |-> f, n |-> 0].of = f
      BY DEF Text, Owners
    <2>2. CASE shape[f] = None
      BY <1>1, <2>2
    <2>3. CASE shape[f] # None
      <3>1. py[f] = [r \in Regions |-> IF r \in shape[f] THEN [of |-> f, n |-> 0] ELSE Blank]
        BY <1>1, <2>3
      <3>2. \A r \in Regions : py[f][r] \in {[of |-> f, n |-> 0], Blank}
        BY <3>1
      <3>3. py[f] \in [Regions -> Text]
        BY <2>1, <3>1, <3>2, BlankIs
      <3> QED
        BY <2>1, <3>2, <3>3 DEF Source
    <2> QED
      BY <2>2, <2>3
  <1>3. DiskType
    <2>1. py \in [Files -> Source \union {None}]
      BY <1>1, <1>2
    <2> QED
      BY <2>1 DEF DiskType, Init
  <1>4. WindowType
    <2>1. DOMAIN frag = {} /\ frag \in [DOMAIN frag -> Text]
      BY DEF Init, NoFrag
    <2>2. pend \in Layouts
      BY DEF Init, NoPend, Layouts
    <2>3. ed \in [Regions -> Editor \union {None}] /\ alloc \in 0 .. MaxRegion
      BY FilesAssumption DEF Init
    <2> QED
      BY <2>1, <2>2, <2>3 DEF WindowType
  <1>5. MessageType
    BY DEF Init, MessageType
  <1>6. StateType
    BY DEF Init, StateType, Owners
  <1>7. HistoryType
    <2>1. lineage = [f \in Files |-> {f}]
      BY DEF Init
    <2>2. lineage \in [Files -> SUBSET Owners] /\ \A f \in Files : f \in lineage[f]
      BY <2>1 DEF Owners
    <2> QED
      BY <2>2 DEF Init, HistoryType
  <1>8. LoadInv
    <2>1. DOMAIN layoutQ = {} /\ DOMAIN loadQ = {} /\ Len(layoutQ) = 0 /\ Len(loadQ) = 0
      BY DEF Init
    <2> QED
      BY <2>1 DEF LoadInv, Down, OneMessage, Echoes, Quiet, Init
  <1>9. OwnInv
    BY DEF OwnInv, CacheNames, Init
  <1>10. SavedIsOwn
    <2>1. \A f \in Files : lineage[f] = {f}
      BY DEF Init
    <2>2. ASSUME NEW f \in Files, py[f] # None, NEW r \in Written(py[f])
          PROVE  py[f][r].of \in lineage[f]
      <3>1. r \in Regions /\ py[f][r] # Blank
        BY <1>2, <2>2 DEF Written, Source
      <3> QED
        BY <1>2, <2>1, <2>2, <3>1
    <2> QED
      BY <2>2 DEF SavedIsOwn
  <1>11. KeptInv
    <2>1. Open = {} /\ DOMAIN frag = {} /\ DOMAIN spawnQ = {}
      BY DEF Init, Open, NoFrag
    <2> QED
      BY <2>1 DEF KeptInv, EditorsKept, FragmentsKept, SpawnsKept, AskedComes
  <1>12. Restoring
    BY DEF Restoring, Init
  <1> QED
    BY <1>3, <1>4, <1>5, <1>6, <1>7, <1>8, <1>9, <1>10, <1>11, <1>12 DEF FilesInv, TypeInv

\* The system in one list.
LEMMA Steps ==
    ASSUME [Next]_vars
    PROVE  \/ \E r \in Regions : Type(r) \/ CloseEditor(r)
           \/ \E f \in Files : SaveAs(f) \/ ChooseFile(f)
           \/ CancelDialog \/ \E kind \in {"load", "saveas"} : OpenDialog(kind)
           \/ AskEditor \/ Save \/ CloseWindow
           \/ Dispatch \/ ApplyLayout \/ LoadStrategy \/ ApplyPending
           \/ StrategyAutosave \/ LayoutAutosave
           \/ Crash \/ Restart \/ UNCHANGED vars
  BY DEF Next, User, System

LEMMA EditorIs ==
    ASSUME NEW t \in Text, NEW d \in BOOLEAN
    PROVE  /\ [src |-> t, dirty |-> d] \in Editor /\ [src |-> t, dirty |-> d] # None
           /\ [src |-> t, dirty |-> d].src = t /\ [src |-> t, dirty |-> d].dirty = d
  <1>1. [src |-> t, dirty |-> d] \in Editor
    BY DEF Editor
  <1> QED
    BY <1>1, NoneAssumption

LEMMA TypeEdit ==
    ASSUME TypeInv, NEW r \in Regions, Type(r) \/ CloseEditor(r) \/ AskEditor
    PROVE  TypeInv'
  <1>1. CASE Type(r)
    <2>1. PICK new \in {Blank, [of |-> IF ed[r].src = Blank THEN orig ELSE ed[r].src.of,
                           n |-> edits + 1]} : ed' = [ed EXCEPT ![r] = [src |-> new, dirty |-> TRUE]]
      BY <1>1 DEF Type
    <2>2. new \in Text
      <3>1. ed[r].src.of \in Owners /\ orig \in Owners /\ edits + 1 \in Nat
        <4>1. ed[r].src \in Text
          BY <1>1, MergedIs DEF Type, TypeInv
        <4> QED
          BY <4>1 DEF Text, TypeInv, StateType, HistoryType
      <3>2. [of |-> IF ed[r].src = Blank THEN orig ELSE ed[r].src.of, n |-> edits + 1] \in Text
        BY <3>1 DEF Text
      <3> QED
        BY <3>2, BlankIs
    <2>3. ed' \in [Regions -> Editor \union {None}]
      BY <2>1, <2>2, EditorIs DEF TypeInv, WindowType
    <2>4. edits' \in Nat /\ saDirty' = TRUE /\ left' = None
      BY <1>1 DEF Type, TypeInv, HistoryType
    <2> QED
      BY <1>1, <2>3, <2>4 DEF Type, TypeInv, DiskType, WindowType, MessageType, StateType,
         HistoryType, disk, buffer, pending, queues
  <1>2. CASE CloseEditor(r)
    <2>1. ed' \in [Regions -> Editor \union {None}]
      BY <1>2 DEF CloseEditor, TypeInv, WindowType
    <2> QED
      BY <1>2, <2>1 DEF CloseEditor, TypeInv, DiskType, WindowType, MessageType, StateType,
         HistoryType, disk, buffer, pending, queues, counts
  <1>3. CASE AskEditor
    <2>1. [key |-> 0, src |-> Blank] \in SpawnRequests
      BY DEF SpawnRequests
    <2>2. spawnQ' \in Seq(SpawnRequests)
      BY <1>3, <2>1 DEF AskEditor
    <2> QED
      BY <1>3, <2>2 DEF AskEditor, TypeInv, DiskType, WindowType, MessageType, StateType,
         HistoryType, disk, buffer, pending, counts
  <1> QED
    BY <1>1, <1>2, <1>3

LEMMA TypeDialog ==
    ASSUME TypeInv, CancelDialog \/ \E kind \in {"load", "saveas"} : OpenDialog(kind)
    PROVE  TypeInv'
  <1>1. opens' \in Nat /\ saves' \in Nat /\ dialog' \in {"none", "load", "saveas"}
    BY DEF CancelDialog, OpenDialog, TypeInv, HistoryType, counts
  <1>2. UNCHANGED <<disk, running, ed, buffer, saDirty, laDirty, pending, queues, loopback,
                    alloc, edits, faults, exits, lineage, mixed, left>>
    BY DEF CancelDialog, OpenDialog, counts
  <1> QED
    BY <1>1, <1>2 DEF TypeInv, DiskType, WindowType, MessageType, StateType, HistoryType,
       disk, buffer, pending, queues

LEMMA TypeAutosave ==
    ASSUME TypeInv, StrategyAutosave \/ LayoutAutosave
    PROVE  TypeInv'
  <1>1. CASE StrategyAutosave
    <2>1. PICK ok \in BOOLEAN :
         /\ IF cached THEN Fault(ok) ELSE ok /\ faults' = faults
         /\ saDirty' = ~ok
         /\ cpy' = IF cached /\ ok THEN Merged ELSE cpy
         /\ ed' = IF cached /\ ok THEN Clean ELSE ed
         /\ mixed' = (mixed \/ (cached /\ ok /\ ~Settled))
      BY <1>1 DEF StrategyAutosave
    <2>2. cpy' \in Source \union {None} /\ ed' \in [Regions -> Editor \union {None}]
      BY <2>1, MergedIs, CleanIs DEF TypeInv, WindowType, DiskType
    <2>3. faults' \in Nat /\ mixed' \in BOOLEAN /\ saDirty' \in BOOLEAN
      BY <2>1 DEF Fault, TypeInv, HistoryType
    <2> QED
      BY <1>1, <2>2, <2>3 DEF StrategyAutosave, TypeInv, DiskType, WindowType, MessageType,
         StateType, HistoryType, buffer, pending, queues
  <1>2. CASE LayoutAutosave
    <2>1. [path |-> orig, wins |-> Open] \in Sidecar
      BY DEF Sidecar, Open, TypeInv, StateType
    <2>2. cside' \in Sidecar \union {None} /\ faults' \in Nat /\ laDirty' = FALSE
      BY <1>2, <2>1 DEF LayoutAutosave, Fault, TypeInv, HistoryType, DiskType
    <2> QED
      BY <1>2, <2>2 DEF LayoutAutosave, TypeInv, DiskType, WindowType, MessageType,
         StateType, HistoryType, buffer, pending, queues
  <1> QED
    BY <1>1, <1>2

\* A written strategy is typed.
LEMMA TypeWrite ==
    ASSUME TypeInv, NEW f \in Files, NEW out \in SaveOutcome, WriteStrategy(f, out)
    PROVE  DiskType' /\ ed' \in [Regions -> Editor \union {None}] /\ saDirty' \in BOOLEAN
           /\ faults' \in Nat
  <1>1. py' \in [Files -> Source \union {None}]
    BY WriteIs, MergedIs DEF TypeInv, DiskType
  <1>2. side' \in [Files -> Sidecar \union {None}]
    BY WriteIs DEF TypeInv, DiskType
  <1>3. cpy' \in Source \union {None} /\ cside' \in Sidecar \union {None}
        /\ saDirty' \in BOOLEAN /\ faults' \in Nat
    BY WriteIs, MergedIs DEF TypeInv, DiskType, StateType
  <1>4. ed' \in [Regions -> Editor \union {None}]
    BY WriteIs, CleanIs DEF TypeInv, WindowType
  <1> QED
    BY <1>1, <1>2, <1>3, <1>4 DEF DiskType

LEMMA AtHandIs == ASSUME TypeInv PROVE AtHand \subseteq Owners
  <1>1. ASSUME orig # None PROVE AtHand \subseteq Owners
    <2>1. orig \in Files
      BY <1>1 DEF TypeInv, StateType, Owners
    <2> QED
      BY <1>1, <2>1 DEF AtHand, TypeInv, HistoryType
  <1>2. ASSUME orig = None PROVE AtHand \subseteq Owners
    <2>1. \A r \in Written(Merged) : Merged[r].of \in Owners
      <3>1. \A r \in Written(Merged) : Merged[r] \in Text
        BY MergedIs DEF TypeInv, Source
      <3> QED
        BY <3>1 DEF Text
    <2>2. \A r \in Written(frag) : frag[r].of \in Owners
      <3>1. \A r \in Written(frag) : frag[r] \in Text
        BY DEF TypeInv, WindowType, Written
      <3> QED
        BY <3>1 DEF Text
    <2> QED
      BY <1>2, <2>1, <2>2 DEF AtHand
  <1> QED
    BY <1>1, <1>2

LEMMA TypeSave == ASSUME TypeInv, Save PROVE TypeInv'
  <1>1. orig \in Files
    BY DEF Save, TypeInv, StateType, Owners
  <1>2. PICK out \in SaveOutcome :
         /\ WriteStrategy(orig, out)
         /\ cached' = IF Synced(out) THEN TRUE
                      ELSE IF PyWritten(out) THEN FALSE ELSE cached
    BY DEF Save
  <1>3. DiskType' /\ ed' \in [Regions -> Editor \union {None}] /\ saDirty' \in BOOLEAN
        /\ faults' \in Nat
    BY <1>1, <1>2, TypeWrite
  <1>4. saves' \in Nat /\ left' = None
    BY DEF Save, TypeInv, HistoryType
  <1>5. cached' \in BOOLEAN
    BY <1>2 DEF TypeInv, StateType
  <1> QED
    BY <1>3, <1>4, <1>5 DEF Save, TypeInv, WindowType, MessageType, StateType, HistoryType,
       pending, queues

LEMMA TypeSaveAs == ASSUME TypeInv, NEW f \in Files, SaveAs(f) PROVE TypeInv'
  <1>1. PICK out \in SaveOutcome :
         LET some == Written(Merged) # {}
             back == ~JsonWritten(out) \/ (out = "py" /\ some) IN
         /\ WriteStrategy(f, out)
         /\ orig' = IF back THEN orig ELSE f
         /\ cached' = IF back THEN cached ELSE ~(out = "sync" /\ some)
         /\ lineage' = IF back THEN lineage
                       ELSE [lineage EXCEPT ![f] = @ \union AtHand]
         /\ mixed' = (mixed \/ ~(back \/ Synced(out)))
    BY DEF SaveAs
  <1>2. DiskType' /\ ed' \in [Regions -> Editor \union {None}] /\ saDirty' \in BOOLEAN
        /\ faults' \in Nat
    BY <1>1, TypeWrite
  <1>3. orig' \in Owners /\ cached' \in BOOLEAN /\ mixed' \in BOOLEAN
    BY <1>1 DEF TypeInv, StateType, Owners
  <1>4. lineage' \in [Files -> SUBSET Owners] /\ \A g \in Files : g \in lineage'[g]
    <2>1. lineage' = lineage \/ lineage' = [lineage EXCEPT ![f] = @ \union AtHand]
      BY <1>1
    <2> QED
      BY <2>1, AtHandIs DEF TypeInv, HistoryType
  <1>5. saves' \in Nat /\ left' = None /\ dialog' = "none"
    BY DEF SaveAs, TypeInv, HistoryType
  <1> QED
    BY <1>2, <1>3, <1>4, <1>5 DEF SaveAs, TypeInv, WindowType, MessageType, StateType,
       HistoryType, pending, queues

LEMMA TypeChoose == ASSUME TypeInv, NEW f \in Files, ChooseFile(f) PROVE TypeInv'
  <1>1. [file |-> f, user |-> TRUE] \in Messages
    BY DEF Messages
  <1>2. layoutQ' \in Seq(Messages) /\ opens' \in Nat /\ dialog' = "none" /\ left' = None
    BY <1>1 DEF ChooseFile, TypeInv, HistoryType
  <1> QED
    BY <1>2 DEF ChooseFile, TypeInv, DiskType, WindowType, MessageType, StateType,
       HistoryType, disk, buffer, pending

\* Requests for regions whose text is still to come.
LEMMA UndrainedAre ==
    ASSUME NEW S \in SUBSET Regions, NEW asks \in Requests(S, Undrained)
    PROVE  /\ asks \in Seq(SpawnRequests)
           /\ \A i \in DOMAIN asks : asks[i].key \in S /\ asks[i].src = None
           /\ \A r \in S : \E i \in DOMAIN asks : asks[i].key = r
           /\ \A i, j \in DOMAIN asks : i # j => asks[i].key # asks[j].key
           /\ S = {} => asks = << >>
  <1>1. \A r \in S : Undrained[r] = None
    BY DEF Undrained
  <1>1a. \A r \in S : Undrained[r] \in Text \union {None}
    BY <1>1
  <1>2. /\ asks \in Seq(SpawnRequests)
        /\ \A i \in DOMAIN asks : asks[i].key \in S /\ asks[i].src = Undrained[asks[i].key]
        /\ \A r \in S : \E i \in DOMAIN asks : asks[i].key = r
        /\ \A i, j \in DOMAIN asks : i # j => asks[i].key # asks[j].key
        /\ S = {} => asks = << >>
    BY <1>1a, RequestsAre
  <1>3. \A i \in DOMAIN asks : asks[i].key \in S /\ asks[i].src = None
    BY <1>1, <1>2
  <1> QED
    BY <1>2, <1>3

LEMMA WindowedIs ==
    ASSUME TypeInv, NEW wins, NEW p, NEW fr, Windowed(wins, p, fr)
    PROVE  /\ spawnQ' \in Seq(SpawnRequests)
           /\ ed' \in [Regions -> Editor \union {None}]
           /\ pend' \in Layouts /\ p \in Layouts
           /\ pend'.wins = p.wins \union (wins \ Open) /\ pend'.asked = p.asked \union (wins \ Open)
           /\ pend'.waiting = p.waiting
           /\ DOMAIN frag' \subseteq Regions /\ frag' \in [DOMAIN frag' -> Text]
           /\ frag' = fr /\ mixed' \in BOOLEAN
  <1>1. p \in Layouts
    <2>1. NoPend \in Layouts
      BY DEF NoPend, Layouts
    <2>2. p = pend \/ p = NoPend
      BY DEF Windowed
    <2> QED
      BY <2>1, <2>2 DEF TypeInv, WindowType
  <1>2. wins \ Open \subseteq Regions /\ (wins \ Open) \ p.asked \subseteq Regions
    BY DEF Windowed
  <1>3. PICK asks \in Requests((wins \ Open) \ p.asked, Undrained) : spawnQ' = spawnQ \o asks
    BY DEF Windowed
  <1>4. asks \in Seq(SpawnRequests)
    BY <1>2, UndrainedAre
  <1>5. spawnQ' \in Seq(SpawnRequests)
    BY <1>3, <1>4, GrownIs DEF TypeInv, MessageType
  <1>6. ed' \in [Regions -> Editor \union {None}]
    BY DEF Windowed, TypeInv, WindowType
  <1>7. /\ pend' \in Layouts
        /\ pend'.wins = p.wins \union (wins \ Open) /\ pend'.asked = p.asked \union (wins \ Open)
        /\ pend'.waiting = p.waiting
    <2>1. pend' = [p EXCEPT !.wins = @ \union (wins \ Open), !.asked = @ \union (wins \ Open)]
      BY DEF Windowed
    <2>2. p.wins \union (wins \ Open) \subseteq Regions /\ p.asked \union (wins \ Open) \subseteq Regions
      BY <1>1, <1>2 DEF Layouts
    <2> QED
      BY <1>1, <2>1, <2>2 DEF Layouts
  <1>8. DOMAIN fr \subseteq Regions /\ fr \in [DOMAIN fr -> Text]
    <2>1. DOMAIN NoFrag = {} /\ NoFrag \in [DOMAIN NoFrag -> Text]
      BY DEF NoFrag
    <2>2. fr = frag \/ fr = NoFrag
      BY DEF Windowed
    <2> QED
      BY <2>1, <2>2 DEF TypeInv, WindowType
  <1>9. frag' = fr /\ mixed' \in BOOLEAN
    BY DEF Windowed
  <1> QED
    BY <1>1, <1>5, <1>6, <1>7, <1>8, <1>9

LEMMA TypeLayout == ASSUME TypeInv, LoadInv, ApplyLayout PROVE TypeInv'
  <1>1. PICK f \in Files, user \in BOOLEAN :
                 \/ /\ UNCHANGED <<ed, pending, loadQ, spawnQ, mixed>>
                    /\ loopback' \in Owners
                 \/ /\ user /\ side[f] = ScenarioOnly
                    /\ loopback' = f /\ loadQ' = <<[file |-> f, user |-> TRUE]>>
                    /\ UNCHANGED <<ed, spawnQ, pending, mixed>>
                 \/ user /\ \E g, wins : Deferred(g, wins)
                 \/ user /\ \E wins, p, fr : Windowed(wins, p, fr)
                 \/ user /\ Forgotten
    BY LayoutIs
  <1>2. layoutQ' = << >> /\ layoutQ' \in Seq(Messages)
    BY LayoutIs
  <1>3. UNCHANGED <<disk, running, buffer, saDirty, laDirty, dialog, alloc, counts, lineage, left>>
    BY LayoutIs
  <1>4. DiskType' /\ alloc' \in 0 .. MaxRegion
    BY <1>3 DEF TypeInv, DiskType, WindowType, disk
  <1>5. /\ orig' \in Owners /\ running' \in BOOLEAN /\ cached' \in BOOLEAN
        /\ saDirty' \in BOOLEAN /\ laDirty' \in BOOLEAN
        /\ dialog' \in {"none", "load", "saveas"}
    BY <1>3 DEF TypeInv, StateType, buffer
  <1>6. mixed' \in BOOLEAN => HistoryType'
    BY <1>3 DEF TypeInv, HistoryType, counts
  <1>7. DOMAIN NoFrag = {} /\ NoFrag \in [DOMAIN NoFrag -> Text] /\ NoPend \in Layouts
    BY DEF NoFrag, NoPend, Layouts
  <1>8. None \in Owners /\ \A g \in Files : g \in Owners
    BY DEF Owners
  <1>9. SUFFICES /\ ed' \in [Regions -> Editor \union {None}] /\ pend' \in Layouts
                 /\ DOMAIN frag' \subseteq Regions /\ frag' \in [DOMAIN frag' -> Text]
                 /\ loadQ' \in Seq(Messages) /\ spawnQ' \in Seq(SpawnRequests)
                 /\ loadedFor' \in Owners /\ loopback' \in Owners /\ mixed' \in BOOLEAN
    BY <1>2, <1>4, <1>5, <1>6 DEF TypeInv, WindowType, MessageType, StateType
  <1>10. ASSUME UNCHANGED <<ed, pending, spawnQ, mixed>>, loadQ' \in Seq(Messages), loopback' \in Owners
         PROVE  /\ ed' \in [Regions -> Editor \union {None}] /\ pend' \in Layouts
                /\ DOMAIN frag' \subseteq Regions /\ frag' \in [DOMAIN frag' -> Text]
                /\ loadQ' \in Seq(Messages) /\ spawnQ' \in Seq(SpawnRequests)
                /\ loadedFor' \in Owners /\ loopback' \in Owners /\ mixed' \in BOOLEAN
    BY <1>10 DEF TypeInv, WindowType, MessageType, StateType, HistoryType, pending
  <1>11. CASE UNCHANGED <<ed, pending, loadQ, spawnQ, mixed>> /\ loopback' \in Owners
    <2>1. loadQ' \in Seq(Messages)
      BY <1>11 DEF TypeInv, MessageType
    <2> QED
      BY <1>10, <1>11, <2>1
  <1>12. CASE /\ user /\ side[f] = ScenarioOnly
              /\ loopback' = f /\ loadQ' = <<[file |-> f, user |-> TRUE]>>
              /\ UNCHANGED <<ed, spawnQ, pending, mixed>>
    <2>1. [file |-> f, user |-> TRUE] \in Messages
      BY DEF Messages
    <2>2. loadQ' \in Seq(Messages)
      BY <1>12, <2>1
    <2> QED
      BY <1>8, <1>10, <1>12, <2>2
  <1>13. CASE \E g, wins : Deferred(g, wins)
    <2>1. PICK g, wins : Deferred(g, wins)
      BY <1>13
    <2>2. [file |-> g, user |-> FALSE] \in Messages
      BY <2>1 DEF Deferred, Messages
    <2>3. loadQ' \in Seq(Messages)
      BY <2>1, <2>2 DEF Deferred
    <2>4. pend' \in Layouts
      <3>1. (IF wins = None THEN {} ELSE wins) \in SUBSET Regions
        BY <2>1 DEF Deferred
      <3>2. pend' = [wins |-> IF wins = None THEN {} ELSE wins, others |-> wins # None,
                     waiting |-> wins # None, asked |-> {}]
        BY <2>1 DEF Deferred
      <3> QED
        BY <3>1, <3>2 DEF Layouts
    <2>5. frag' = NoFrag /\ loadedFor' = None /\ UNCHANGED <<ed, spawnQ, loopback, mixed>>
      BY <2>1 DEF Deferred
    <2>6. /\ ed' \in [Regions -> Editor \union {None}] /\ spawnQ' \in Seq(SpawnRequests)
          /\ loopback' \in Owners /\ mixed' \in BOOLEAN
      BY <2>5 DEF TypeInv, WindowType, MessageType, StateType, HistoryType
    <2> QED
      BY <1>7, <1>8, <2>3, <2>4, <2>5, <2>6
  <1>14. CASE \E wins, p, fr : Windowed(wins, p, fr)
    <2>1. PICK wins, p, fr : Windowed(wins, p, fr)
      BY <1>14
    <2>2. loadQ' \in Seq(Messages) /\ loopback' \in Owners /\ loadedFor' \in Owners
      BY <2>1 DEF Windowed, TypeInv, MessageType, StateType
    <2> QED
      BY <2>1, <2>2, WindowedIs
  <1>15. CASE Forgotten
    <2>1. /\ pend' = NoPend /\ frag' = NoFrag /\ loadedFor' = None
          /\ UNCHANGED <<ed, loadQ, spawnQ, loopback, mixed>>
      BY <1>15 DEF Forgotten
    <2>2. /\ ed' \in [Regions -> Editor \union {None}] /\ spawnQ' \in Seq(SpawnRequests)
          /\ loadQ' \in Seq(Messages) /\ loopback' \in Owners /\ mixed' \in BOOLEAN
      BY <2>1 DEF TypeInv, WindowType, MessageType, StateType, HistoryType
    <2> QED
      BY <1>7, <1>8, <2>1, <2>2
  <1> QED
    BY <1>1, <1>11, <1>12, <1>13, <1>14, <1>15

LEMMA TypeLoad == ASSUME TypeInv, LoadInv, LoadStrategy PROVE TypeInv'
  <1>1. PICK f \in Files :
                 \/ UNCHANGED <<cpy, cside, ed, buffer, frag, loadedFor, layoutQ, spawnQ,
                                alloc, mixed>>
                 \/ /\ Loaded(f)
                    /\ loopback = f /\ side[f] = ScenarioOnly /\ Still
                    /\ ed' = [r \in Regions |-> None]
                    /\ layoutQ' = <<[file |-> f, user |-> FALSE]>>
                    /\ spawnQ' \in Requests(DOMAIN Fragments(py[f]), py[f])
                 \/ /\ Loaded(f)
                    /\ frag = NoFrag /\ pend.asked = {}
                    /\ ~mixed' => Written(Merged) \subseteq pend.wins \intersect DOMAIN frag'
                    /\ UNCHANGED <<ed, layoutQ, spawnQ>>
    BY LoadIs
  <1>2. /\ loadQ' = << >> /\ loadQ' \in Seq(Messages) /\ faults' \in Nat
        /\ UNCHANGED <<py, side, running, pend, saDirty, laDirty, dialog, loopback,
                          edits, opens, saves, exits, lineage, left>>
    BY LoadIs
  <1>3. CASE UNCHANGED <<cpy, cside, ed, buffer, frag, loadedFor, layoutQ, spawnQ, alloc, mixed>>
    BY <1>2, <1>3 DEF TypeInv, DiskType, WindowType, MessageType, StateType, HistoryType, buffer
  <1>4. ASSUME Loaded(f), ed' \in [Regions -> Editor \union {None}],
               layoutQ' \in Seq(Messages), spawnQ' \in Seq(SpawnRequests)
        PROVE  TypeInv'
    <2>1. DOMAIN frag' \subseteq Regions /\ frag' \in [DOMAIN frag' -> Text]
      BY <1>4, FragmentsAre DEF Loaded
    <2>2. alloc' \in 0 .. MaxRegion
      <3>1. alloc \in 0 .. MaxRegion /\ DOMAIN Fragments(py[f]) \in SUBSET Regions
        BY <1>4, FragmentsAre DEF Loaded, TypeInv, WindowType
      <3> QED
        BY <1>4, <3>1, TopIs DEF Loaded
    <2>3. DiskType'
      BY <1>2, <1>4 DEF Loaded, TypeInv, DiskType
    <2>4. WindowType'
      BY <1>2, <1>4, <2>1, <2>2 DEF TypeInv, WindowType
    <2>5. orig' \in Owners /\ loadedFor' \in Owners /\ cached' \in BOOLEAN /\ mixed' \in BOOLEAN
      BY <1>4 DEF Loaded, Owners
    <2>6. MessageType' /\ StateType' /\ HistoryType'
      BY <1>2, <1>4, <2>5 DEF TypeInv, MessageType, StateType, HistoryType
    <2> QED
      BY <2>3, <2>4, <2>6 DEF TypeInv
  <1>5. CASE /\ Loaded(f)
             /\ ed' = [r \in Regions |-> None]
             /\ layoutQ' = <<[file |-> f, user |-> FALSE]>>
             /\ spawnQ' \in Requests(DOMAIN Fragments(py[f]), py[f])
    <2>1. [file |-> f, user |-> FALSE] \in Messages
      BY DEF Messages
    <2>2. layoutQ' \in Seq(Messages) /\ ed' \in [Regions -> Editor \union {None}]
      BY <1>5, <2>1
    <2>3. DOMAIN Fragments(py[f]) \subseteq Regions
          /\ \A r \in DOMAIN Fragments(py[f]) : py[f][r] \in Text \union {None}
      BY <1>5, FragmentsAre DEF Loaded, Source
    <2>4. spawnQ' \in Seq(SpawnRequests)
      BY <1>5, <2>3, RequestsAre
    <2> QED
      BY <1>4, <1>5, <2>2, <2>4
  <1>6. CASE Loaded(f) /\ UNCHANGED <<ed, layoutQ, spawnQ>>
    <2>1. /\ layoutQ' \in Seq(Messages) /\ ed' \in [Regions -> Editor \union {None}]
          /\ spawnQ' \in Seq(SpawnRequests)
      BY <1>6 DEF TypeInv, WindowType, MessageType
    <2> QED
      BY <1>4, <1>6, <2>1
  <1> QED
    BY <1>1, <1>3, <1>5, <1>6

\* The windows that are there get their text, the others are asked for.
LEMMA PendingIs ==
    ASSUME TypeInv, ApplyPending
    PROVE  /\ running /\ ~Stuck
           /\ UNCHANGED <<disk, running, buffer, saDirty, laDirty, loadedFor, layoutQ, loadQ,
                          dialog, loopback, alloc, counts, lineage, mixed, left>>
           /\ ed' \in [Regions -> Editor \union {None}]
           /\ \A r \in Regions : r \notin pend.wins \intersect Open \intersect DOMAIN frag
                                    => ed'[r] = ed[r]
           /\ \A r \in pend.wins \intersect Open \intersect DOMAIN frag :
                 /\ ed'[r] \in Editor /\ ed'[r] # None
                 /\ ed'[r].src = frag[r] /\ ed'[r].dirty = FALSE
           /\ DOMAIN frag' = DOMAIN frag \ (pend.wins \intersect Open)
           /\ \A r \in DOMAIN frag' : frag'[r] = frag[r]
           /\ frag' \in [DOMAIN frag' -> Text]
           /\ pend' \in Layouts /\ pend'.wins = pend.wins \ Open
           /\ ~pend'.waiting /\ ~pend'.others
           /\ pend'.asked = IF pend.wins \ Open = {} THEN {}
                            ELSE pend.asked \union (pend.wins \ Open)
           /\ \E asks \in Requests((pend.wins \ Open) \ pend.asked, Undrained) :
                 spawnQ' = spawnQ \o asks
           /\ spawnQ' \in Seq(SpawnRequests)
  <1> DEFINE found == pend.wins \intersect Open
             missing == pend.wins \ Open
  <1>1. /\ running /\ ~Stuck
        /\ UNCHANGED <<disk, running, buffer, saDirty, laDirty, loadedFor, layoutQ, loadQ,
                          dialog, loopback, alloc, counts, lineage, mixed, left>>
        /\ ed' = Refilled(found)
        /\ frag' = Restrict(frag, DOMAIN frag \ found)
        /\ \E asks \in Requests(missing \ pend.asked, Undrained) : spawnQ' = spawnQ \o asks
        /\ pend' = [wins |-> missing, others |-> FALSE, waiting |-> FALSE,
                     asked |-> IF missing = {} THEN {} ELSE pend.asked \union missing]
    BY DEF ApplyPending, Stuck
  <1>2. /\ pend \in Layouts /\ pend.wins \subseteq Regions /\ pend.asked \subseteq Regions
        /\ missing \subseteq Regions /\ found \subseteq Regions /\ missing \ pend.asked \subseteq Regions
        /\ DOMAIN frag \subseteq Regions /\ frag \in [DOMAIN frag -> Text]
    BY DEF TypeInv, WindowType, Layouts, Open
  <1>3. /\ pend' \in Layouts /\ pend'.wins = missing /\ ~pend'.waiting /\ ~pend'.others
        /\ pend'.asked = IF missing = {} THEN {} ELSE pend.asked \union missing
    <2>1. (IF missing = {} THEN {} ELSE pend.asked \union missing) \in SUBSET Regions
      BY <1>2
    <2> QED
      BY <1>1, <1>2, <2>1 DEF Layouts
  <1>4. frag' = [r \in DOMAIN frag \ found |-> frag[r]]
    BY <1>1 DEF Restrict
  <1>5. DOMAIN frag' = DOMAIN frag \ found /\ (\A r \in DOMAIN frag' : frag'[r] = frag[r])
        /\ frag' \in [DOMAIN frag' -> Text]
    BY <1>2, <1>4
  <1>6. PICK asks \in Requests(missing \ pend.asked, Undrained) : spawnQ' = spawnQ \o asks
    BY <1>1
  <1>7. spawnQ' \in Seq(SpawnRequests)
    <2>1. asks \in Seq(SpawnRequests)
      BY <1>2, UndrainedAre
    <2> QED
      BY <1>6, <2>1, GrownIs DEF TypeInv, MessageType
  <1>8. ed' = [r \in Regions |-> IF r \in found \intersect DOMAIN frag
                                  THEN [src |-> frag[r], dirty |-> FALSE] ELSE ed[r]]
    BY <1>1 DEF Refilled
  <1>9. \A r \in Regions : r \notin found \intersect DOMAIN frag => ed'[r] = ed[r]
    BY <1>8
  <1>10. ASSUME NEW r \in found \intersect DOMAIN frag
         PROVE  ed'[r] \in Editor /\ ed'[r] # None /\ ed'[r].src = frag[r] /\ ed'[r].dirty = FALSE
    <2>1. ed'[r] = [src |-> frag[r], dirty |-> FALSE] /\ frag[r] \in Text
      BY <1>2, <1>8
    <2>2. [src |-> frag[r], dirty |-> FALSE] \in Editor
      BY <2>1 DEF Editor
    <2>3. None \notin Editor
      BY NoneAssumption
    <2>4. ed'[r] \in Editor /\ ed'[r] # None
      BY <2>1, <2>2, <2>3, ZenonT(30)
    <2> QED
      BY <2>1, <2>4
  <1>11. ed' \in [Regions -> Editor \union {None}]
    <2>1. \A r \in Regions : ed'[r] \in Editor \union {None}
      BY <1>9, <1>10 DEF TypeInv, WindowType
    <2> QED
      BY <1>8, <2>1
  <1> QED
    BY <1>1, <1>3, <1>5, <1>7, <1>9, <1>10, <1>11

LEMMA TypePending == ASSUME TypeInv, ApplyPending PROVE TypeInv'
  <1>1. /\ UNCHANGED <<disk, running, buffer, saDirty, laDirty, loadedFor, layoutQ, loadQ,
                       dialog, loopback, alloc, counts, lineage, mixed, left>>
        /\ ed' \in [Regions -> Editor \union {None}]
        /\ DOMAIN frag' = DOMAIN frag \ (pend.wins \intersect Open)
        /\ frag' \in [DOMAIN frag' -> Text]
        /\ pend' \in Layouts /\ spawnQ' \in Seq(SpawnRequests)
    BY PendingIs
  <1> QED
    BY <1>1 DEF TypeInv, DiskType, WindowType, MessageType, StateType, HistoryType,
       disk, buffer, counts

LEMMA TypeDispatch == ASSUME TypeInv, Dispatch PROVE TypeInv'
  <1>1. /\ spawnQ' = Tail(spawnQ)
        /\ UNCHANGED <<disk, running, orig, saDirty, laDirty, pend, loadedFor, layoutQ,
                       loadQ, dialog, loopback, counts, lineage, mixed, left>>
        /\ cached' \in BOOLEAN /\ alloc' \in 0 .. MaxRegion
        /\ \/ UNCHANGED <<ed, frag>>
           \/ \E r \in Regions : Dispatched(spawnQ[1], r)
    BY DispatchIs
  <1>2. spawnQ' \in Seq(SpawnRequests)
    BY <1>1, DispatchIs, TailIs DEF TypeInv, MessageType
  <1>3. /\ ed' \in [Regions -> Editor \union {None}]
        /\ DOMAIN frag' \subseteq Regions /\ frag' \in [DOMAIN frag' -> Text]
    <2>1. CASE UNCHANGED <<ed, frag>>
      BY <2>1 DEF TypeInv, WindowType
    <2>2. ASSUME NEW r \in Regions, Dispatched(spawnQ[1], r)
          PROVE  /\ ed' \in [Regions -> Editor \union {None}]
                 /\ DOMAIN frag' \subseteq Regions /\ frag' \in [DOMAIN frag' -> Text]
      <3>1. \E t \in Text : ed' = [ed EXCEPT ![r] = [src |-> t, dirty |-> FALSE]]
        BY <2>2 DEF Dispatched
      <3>2. ed' \in [Regions -> Editor \union {None}]
        BY <3>1, EditorIs DEF TypeInv, WindowType
      <3>3. \/ frag' = frag
            \/ frag' = [k \in DOMAIN frag \ {r} |-> frag[k]]
        BY <2>2 DEF Dispatched
      <3>4. DOMAIN frag' \subseteq Regions /\ frag' \in [DOMAIN frag' -> Text]
        BY <3>3 DEF TypeInv, WindowType
      <3> QED
        BY <3>2, <3>4
    <2> QED
      BY <1>1, <2>1, <2>2
  <1> QED
    BY <1>1, <1>2, <1>3 DEF TypeInv, DiskType, WindowType, MessageType, StateType,
       HistoryType, disk, counts

\* The application ends.
Gone ==
    /\ running' = FALSE
    /\ ed' = [r \in Regions |-> None]
    /\ orig' = None /\ cached' = FALSE
    /\ saDirty' = FALSE /\ laDirty' = FALSE
    /\ pend' = NoPend /\ frag' = NoFrag /\ loadedFor' = None
    /\ layoutQ' = << >> /\ loadQ' = << >> /\ spawnQ' = << >>
    /\ dialog' = "none" /\ loopback' = None /\ alloc' = 0
    /\ UNCHANGED <<py, side, lineage>>
    /\ mixed' = (mixed \/ (CacheComplete' /\ cside'.path \notin {orig, None}))

LEMMA ExitIs ==
    ASSUME TypeInv, Crash \/ CloseWindow
    PROVE  /\ Gone
           /\ UNCHANGED <<edits, opens, saves>> /\ faults' \in Nat /\ exits' \in Nat
           /\ \/ UNCHANGED <<cpy, cside>>  /\ left' = None
              \/ /\ running /\ Settled
                 /\ \E flushed, laid \in BOOLEAN :
                      /\ cpy' = IF flushed /\ cached /\ Written(Merged) # {} THEN Merged ELSE cpy
                      /\ cside' = IF laid THEN [path |-> orig, wins |-> Open] ELSE cside
                      /\ left' # None =>
                           flushed /\ laid /\ cached
                           /\ left' = [orig |-> orig, open |-> Open, text |-> Merged]
           /\ [path |-> orig, wins |-> Open] \in Sidecar
           /\ [orig |-> orig, open |-> Open, text |-> Merged] \in Ended
           /\ left' \in Ended \union {None}
  <1>1. Gone
    BY DEF Crash, CloseWindow, Exit, Gone
  <1>2. faults' \in Nat /\ exits' \in Nat /\ UNCHANGED <<edits, opens, saves>>
    BY DEF Crash, CloseWindow, Exit, Fault, TypeInv, HistoryType
  <1>3. /\ [path |-> orig, wins |-> Open] \in Sidecar
        /\ [orig |-> orig, open |-> Open, text |-> Merged] \in Ended
    <2>1. orig \in Owners /\ Open \in SUBSET Regions /\ Merged \in Source
      BY MergedIs DEF TypeInv, StateType
    <2>2. [path |-> orig, wins |-> Open] \in Sidecar
      BY <2>1 DEF Sidecar
    <2>3. [orig |-> orig, open |-> Open, text |-> Merged] \in Ended
      BY <2>1 DEF Ended
    <2> QED
      BY <2>2, <2>3
  <1>4. CASE Crash
    <2>1. UNCHANGED <<cpy, cside>> /\ left' = None
      BY <1>4 DEF Crash, Exit
    <2> QED
      BY <1>1, <1>2, <1>3, <2>1
  <1>5. CASE CloseWindow
    <2>1. PICK flushed \in BOOLEAN, laid \in BOOLEAN :
         /\ Fault(flushed /\ laid)
         /\ cpy' = IF flushed /\ cached /\ Written(Merged) # {} THEN Merged ELSE cpy
         /\ cside' = IF laid THEN [path |-> orig, wins |-> Open] ELSE cside
      BY <1>5 DEF CloseWindow
    <2>2. left' = IF cached /\ Settled /\ faults' = 0
                    THEN [orig |-> orig, open |-> Open, text |-> Merged] ELSE None
      BY <1>5 DEF CloseWindow, Exit
    <2>3. faults' = 0 => flushed /\ laid
      <3>1. faults \in Nat /\ faults' = faults + (IF flushed /\ laid THEN 0 ELSE 1)
        BY <2>1 DEF Fault, TypeInv, HistoryType
      <3> QED
        BY <3>1
    <2>4. left' # None => flushed /\ laid /\ cached
                           /\ left' = [orig |-> orig, open |-> Open, text |-> Merged]
      BY <2>2, <2>3
    <2>5. left' \in Ended \union {None}
      BY <1>3, <2>2
    <2>6. running /\ Settled
      BY <1>5 DEF CloseWindow
    <2>7. \E flushed_, laid_ \in BOOLEAN :
             /\ cpy' = IF flushed_ /\ cached /\ Written(Merged) # {} THEN Merged ELSE cpy
             /\ cside' = IF laid_ THEN [path |-> orig, wins |-> Open] ELSE cside
             /\ left' # None => flushed_ /\ laid_ /\ cached
                           /\ left' = [orig |-> orig, open |-> Open, text |-> Merged]
      BY <2>1, <2>4
    <2> QED
      BY <1>1, <1>2, <1>3, <2>5, <2>6, <2>7
  <1> QED
    BY <1>4, <1>5

LEMMA TypeExit == ASSUME TypeInv, Crash \/ CloseWindow PROVE TypeInv'
  <1>1. Gone /\ UNCHANGED <<edits, opens, saves>> /\ faults' \in Nat /\ exits' \in Nat
        /\ left' \in Ended \union {None}
    BY ExitIs
  <1>2. cpy' \in Source \union {None} /\ cside' \in Sidecar \union {None}
    <2>1. cpy' \in {cpy, Merged} /\ cside' \in {cside, [path |-> orig, wins |-> Open]}
      BY ExitIs
    <2> QED
      BY <2>1, ExitIs, MergedIs DEF TypeInv, DiskType
  <1>3. DiskType'
    BY <1>1, <1>2 DEF Gone, TypeInv, DiskType
  <1>4. WindowType'
    <2>1. DOMAIN NoFrag = {} /\ NoFrag \in [DOMAIN NoFrag -> Text] /\ NoPend \in Layouts
      BY DEF NoFrag, NoPend, Layouts
    <2>2. 0 \in 0 .. MaxRegion
      BY FilesAssumption
    <2> QED
      BY <1>1, <2>1, <2>2 DEF Gone, WindowType
  <1>5. MessageType'
    BY <1>1 DEF Gone, MessageType
  <1>6. StateType' /\ HistoryType'
    BY <1>1 DEF Gone, TypeInv, StateType, HistoryType, Owners
  <1> QED
    BY <1>3, <1>4, <1>5, <1>6 DEF TypeInv

LEMMA TypeRestart == ASSUME TypeInv, Restart PROVE TypeInv'
  <1>1. /\ running' = TRUE
        /\ UNCHANGED <<disk, ed, saDirty, laDirty, layoutQ, loadQ, dialog, loopback, counts,
                          lineage, mixed, left>>
        /\ \/ \E wins, asked : Restored(wins, asked)
           \/ UNCHANGED <<buffer, pending, alloc, spawnQ>>
    BY RestartIs
  <1>2. CASE UNCHANGED <<buffer, pending, alloc, spawnQ>>
    BY <1>1, <1>2 DEF TypeInv, DiskType, WindowType, MessageType, StateType, HistoryType,
       disk, buffer, pending, counts
  <1>3. ASSUME NEW wins, NEW asked, Restored(wins, asked) PROVE TypeInv'
    <2>1. pend' \in Layouts
      <3>1. /\ pend' = [wins |-> wins, others |-> cside.wins # None, waiting |-> FALSE,
                        asked |-> asked]
            /\ wins \in SUBSET Regions /\ asked \in SUBSET Regions
        BY <1>3 DEF Restored
      <3> QED
        BY <3>1 DEF Layouts
    <2>2. DOMAIN frag' \subseteq Regions /\ frag' \in [DOMAIN frag' -> Text]
      BY <1>3, FragmentsAre DEF Restored
    <2>3. spawnQ' \in Seq(SpawnRequests)
      BY <1>3, UndrainedAre DEF Restored
    <2>4. orig' \in Owners /\ loadedFor' \in Owners /\ cached' = TRUE /\ alloc' \in 0 .. MaxRegion
      BY <1>3 DEF Restored, Sidecar
    <2> QED
      BY <1>1, <2>1, <2>2, <2>3, <2>4 DEF TypeInv, DiskType, WindowType, MessageType,
         StateType, HistoryType, disk, counts
  <1> QED
    BY <1>1, <1>2, <1>3

LEMMA TypeStep == ASSUME TypeInv, LoadInv, [Next]_vars PROVE TypeInv'
  <1>1. CASE UNCHANGED vars
    BY <1>1 DEF TypeInv, DiskType, WindowType, MessageType, StateType, HistoryType, vars, disk,
       buffer, pending, queues, counts
  <1>2. 1 \in Regions
    BY FilesAssumption DEF Regions
  <1> QED
    BY <1>1, <1>2, Steps, TypeEdit, TypeDialog, TypeAutosave, TypeSave, TypeSaveAs, TypeChoose,
       TypeLayout, TypeLoad, TypePending, TypeDispatch, TypeExit, TypeRestart

-----------------------------------------------------------------------------
(* Loads                                                                   *)

LEMMA OpenAfter ==
    ASSUME TypeInv, ed' \in {ed, Clean}
    PROVE  Open' = Open
  <1>1. \A r \in Regions : ed'[r] # None <=> r \in Open
    BY CleanIs DEF TypeInv, Open
  <1> QED
    BY <1>1 DEF Open

LEMMA SettledIs ==
    ASSUME Settled
    PROVE  layoutQ = << >> /\ loadQ = << >> /\ spawnQ = << >> /\ Still
           /\ (Stuck \/ (pend.wins \intersect Open = {} /\ pend.wins \subseteq pend.asked))
  BY DEF Settled, Still, Stuck

LEMMA NoMessage ==
    ASSUME layoutQ' = << >>, loadQ' = << >>, running'
    PROVE  LoadInv'
  <1>1. DOMAIN layoutQ' = {} /\ DOMAIN loadQ' = {} /\ Len(layoutQ)' = 0 /\ Len(loadQ)' = 0
    OBVIOUS
  <1> QED
    BY <1>1 DEF LoadInv, Down, OneMessage, Echoes, Quiet

LEMMA NoFragIs == ASSUME NEW g \in [{} -> Text] PROVE g = NoFrag
  <1>1. DOMAIN NoFrag = {}
    BY DEF NoFrag
  <1>2. NoFrag \in [{} -> Text]
    BY DEF NoFrag
  <1> QED
    BY <1>2

\* While nothing is on its way, what is pending waits for a strategy that was
\* not read, or for windows that are not open.
LEMMA StillPending ==
    ASSUME TypeInv, ApplyPending, Still, spawnQ = << >>
    PROVE  /\ spawnQ' = << >> /\ Still' /\ pend'.wins = pend.wins
           /\ pend.asked = {} => pend'.asked = {}
           /\ UNCHANGED <<layoutQ, loadQ, loopback, side>>
  <1>1. pend.wins \subseteq pend.asked /\ pend.wins \intersect Open = {}
    BY PendingIs DEF Still
  <1>2. PICK asks \in Requests((pend.wins \ Open) \ pend.asked, Undrained) : spawnQ' = spawnQ \o asks
    BY PendingIs
  <1>3. (pend.wins \ Open) \ pend.asked = {}
    BY <1>1
  <1>4. asks \in Seq(SpawnRequests) /\ asks = << >>
    BY <1>2, <1>3, UndrainedAre
  <1>5. spawnQ' = << >>
    BY <1>2, <1>4, GrownIs DEF TypeInv, MessageType
  <1>6. \A r \in Regions : ed'[r] = ed[r]
    BY <1>1, PendingIs
  <1>7. Open' = Open
    BY <1>6 DEF Open
  <1>8. pend'.wins = pend.wins /\ pend'.asked = IF pend.wins = {} THEN {} ELSE pend.asked \union pend.wins
    <2>1. pend.wins \ Open = pend.wins
      BY <1>1
    <2> QED
      BY <2>1, PendingIs
  <1>9. pend.wins # {} => pend.asked \union pend.wins = pend.asked
    BY <1>1
  <1>10. Still'
    BY <1>1, <1>7, <1>8 DEF Still
  <1>11. pend.asked = {} => pend'.asked = {}
    BY <1>8, <1>9
  <1>12. UNCHANGED <<layoutQ, loadQ, loopback, side>>
    BY PendingIs DEF disk
  <1> QED
    BY <1>5, <1>8, <1>10, <1>11, <1>12

LEMMA LoadLayout == ASSUME TypeInv, LoadInv, ApplyLayout PROVE LoadInv'
  <1>1. /\ running /\ layoutQ # << >> /\ layoutQ' = << >> /\ loadQ = << >>
        /\ DOMAIN layoutQ = {1}
        /\ UNCHANGED <<disk, running, buffer, saDirty, laDirty, dialog, alloc, counts,
                       lineage, left>>
    BY LayoutIs
  <1>2. PICK f \in Files, user \in BOOLEAN :
                 /\ layoutQ[1] = [file |-> f, user |-> user]
                 /\ \/ /\ UNCHANGED <<ed, pending, loadQ, spawnQ, mixed>>
                       /\ loopback' \in Owners
                    \/ /\ user /\ side[f] = ScenarioOnly
                       /\ loopback' = f /\ loadQ' = <<[file |-> f, user |-> TRUE]>>
                       /\ UNCHANGED <<ed, spawnQ, pending, mixed>>
                    \/ user /\ \E g, wins : Deferred(g, wins)
                    \/ user /\ \E wins, p, fr : Windowed(wins, p, fr)
                    \/ user /\ Forgotten
    BY LayoutIs
  <1>3. running'
    BY <1>1 DEF LoadInv, disk
  <1>4. user => spawnQ = << >> /\ Still
    BY <1>1, <1>2 DEF LoadInv, Quiet
  <1>5. CASE UNCHANGED loadQ
    BY <1>1, <1>3, <1>5, NoMessage
  <1>6. ASSUME loadQ' # << >>, NEW m \in Messages, loadQ' = <<m>>, spawnQ' = << >>,
               IF m.user THEN Still' /\ loopback' = m.file /\ side'[m.file] = ScenarioOnly
               ELSE frag' = NoFrag /\ (Stuck' \/ pend'.wins = {}) /\ pend'.asked = {}
        PROVE  LoadInv'
    <2>1. DOMAIN loadQ' = {1} /\ loadQ'[1] = m /\ Len(loadQ') = 1 /\ DOMAIN layoutQ' = {}
          /\ Len(layoutQ') = 0
      BY <1>1, <1>6
    <2>2. OneMessage'
      BY <2>1 DEF OneMessage
    <2>3. Echoes'
      BY <1>6, <2>1 DEF Echoes
    <2>4. Quiet'
      BY <1>6, <2>1 DEF Quiet
    <2> QED
      BY <1>3, <2>2, <2>3, <2>4 DEF LoadInv, Down
  <1>7. CASE /\ user /\ side[f] = ScenarioOnly
             /\ loopback' = f /\ loadQ' = <<[file |-> f, user |-> TRUE]>>
             /\ UNCHANGED <<ed, spawnQ, pending, mixed>>
    <2> DEFINE m == [file |-> f, user |-> TRUE]
    <2>1. m \in Messages /\ m.user /\ m.file = f
      BY DEF Messages
    <2>2. loadQ' = <<m>>
      BY <1>7
    <2>3. loadQ' # << >>
      BY <2>2
    <2>4. Still'
      BY <1>4, <1>7 DEF Still, Stuck, Open, pending
    <2>5. side' = side
      BY <1>1 DEF disk
    <2> HIDE DEF m
    <2> QED
      BY <1>4, <1>6, <1>7, <2>1, <2>2, <2>3, <2>4, <2>5
  <1>8. ASSUME user, NEW g, NEW wins, Deferred(g, wins) PROVE LoadInv'
    <2> DEFINE m == [file |-> g, user |-> FALSE]
    <2>1. m \in Messages /\ ~m.user
      BY <1>8 DEF Messages, Deferred
    <2>2. loadQ' = <<m>> /\ spawnQ' = << >>
      BY <1>4, <1>8 DEF Deferred
    <2>3. loadQ' # << >>
      BY <2>2
    <2>4. frag' = NoFrag /\ (Stuck' \/ pend'.wins = {}) /\ pend'.asked = {}
      <3>1. /\ frag' = NoFrag
            /\ pend' = [wins |-> IF wins = None THEN {} ELSE wins, others |-> wins # None,
                        waiting |-> wins # None, asked |-> {}]
        BY <1>8 DEF Deferred
      <3> QED
        BY <3>1 DEF Stuck
    <2> HIDE DEF m
    <2> QED
      BY <1>6, <2>1, <2>2, <2>3, <2>4
  <1> QED
    BY <1>2, <1>5, <1>7, <1>8 DEF Windowed, Forgotten

LEMMA LoadLoad == ASSUME TypeInv, LoadInv, LoadStrategy PROVE LoadInv'
  <1>1. /\ running /\ loadQ' = << >> /\ layoutQ = << >>
        /\ UNCHANGED <<side, running, loopback>>
    BY LoadIs
  <1>2. running'
    BY <1>1 DEF LoadInv
  <1>3. CASE layoutQ' = << >>
    BY <1>1, <1>2, <1>3, NoMessage
  <1>4. CASE layoutQ' # << >>
    <2>1. PICK f \in Files : /\ loopback = f /\ side[f] = ScenarioOnly
                             /\ layoutQ' = <<[file |-> f, user |-> FALSE]>>
      BY <1>1, <1>4, LoadIs
    <2> DEFINE m == [file |-> f, user |-> FALSE]
    <2>2. m \in Messages /\ ~m.user /\ m.file = f
      BY DEF Messages
    <2>3. layoutQ' = <<m>>
      BY <2>1
    <2> HIDE DEF m
    <2>4. DOMAIN layoutQ' = {1} /\ layoutQ'[1] = m /\ Len(layoutQ') = 1 /\ DOMAIN loadQ' = {}
          /\ Len(loadQ') = 0
      BY <1>1, <2>3
    <2>5. OneMessage'
      BY <2>4 DEF OneMessage
    <2>6. Echoes'
      BY <1>1, <2>1, <2>2, <2>4 DEF Echoes
    <2>7. Quiet'
      BY <2>2, <2>4 DEF Quiet
    <2> QED
      BY <1>2, <2>5, <2>6, <2>7 DEF LoadInv, Down
  <1> QED
    BY <1>3, <1>4

LEMMA LoadPending == ASSUME TypeInv, LoadInv, ApplyPending PROVE LoadInv'
  <1>1. UNCHANGED <<running, side, layoutQ, loadQ, loopback>> /\ running /\ ~Stuck
    BY PendingIs DEF disk
  <1>2. Down' /\ OneMessage' /\ Echoes'
    BY <1>1 DEF LoadInv, Down, OneMessage, Echoes
  <1>3. ASSUME NEW i \in DOMAIN layoutQ, layoutQ[i].user PROVE spawnQ' = << >> /\ Still'
    BY <1>3, StillPending DEF LoadInv, Quiet
  <1>4. ASSUME NEW i \in DOMAIN loadQ, loadQ[i].user PROVE spawnQ' = << >> /\ Still'
    BY <1>4, StillPending DEF LoadInv, Quiet
  <1>5. ASSUME NEW i \in DOMAIN loadQ, ~loadQ[i].user
        PROVE  spawnQ' = << >> /\ frag' = NoFrag /\ pend'.wins = {} /\ pend'.asked = {}
    <2>1. spawnQ = << >> /\ frag = NoFrag /\ pend.wins = {} /\ pend.asked = {}
      BY <1>1, <1>5 DEF LoadInv, Quiet
    <2>2. Still
      BY <2>1 DEF Still
    <2>3. spawnQ' = << >> /\ pend'.wins = {} /\ pend'.asked = {}
      BY <2>1, <2>2, StillPending
    <2>4. DOMAIN frag = {}
      BY <2>1 DEF NoFrag
    <2>5. DOMAIN frag' = {} /\ frag' \in [DOMAIN frag' -> Text]
      BY <2>4, PendingIs
    <2>6. frag' = NoFrag
      BY <2>5, NoFragIs
    <2> QED
      BY <2>3, <2>6
  <1>6. Quiet'
    BY <1>1, <1>3, <1>4, <1>5 DEF Quiet
  <1> QED
    BY <1>2, <1>6 DEF LoadInv

LEMMA LoadStep == ASSUME TypeInv, LoadInv, [Next]_vars PROVE LoadInv'
  <1>1. ASSUME NEW r \in Regions, Type(r) \/ CloseEditor(r) \/ AskEditor PROVE LoadInv'
    <2>1. Settled /\ running /\ UNCHANGED <<running, side, layoutQ, loadQ>>
      BY <1>1 DEF Type, CloseEditor, AskEditor, disk, queues
    <2> QED
      BY <2>1, SettledIs, NoMessage DEF LoadInv
  <1>2. ASSUME NEW f \in Files, NEW out \in SaveOutcome, WriteStrategy(f, out), Settled, running,
               UNCHANGED <<running, queues>>
        PROVE  LoadInv'
    BY <1>2, SettledIs, NoMessage DEF queues
  <1>3. CASE Save
    <2>1. orig \in Files
      BY <1>3 DEF Save, TypeInv, StateType, Owners
    <2> QED
      BY <1>2, <1>3, <2>1 DEF Save
  <1>4. ASSUME NEW f \in Files, SaveAs(f) PROVE LoadInv'
    BY <1>2, <1>4 DEF SaveAs
  <1>5. CASE CancelDialog \/ \E kind \in {"load", "saveas"} : OpenDialog(kind)
    <2>1. UNCHANGED <<disk, running, ed, buffer, saDirty, laDirty, pending, queues, loopback>>
      BY <1>5 DEF CancelDialog, OpenDialog
    <2> QED
      BY <2>1 DEF LoadInv, Down, OneMessage, Echoes, Quiet, Still, Stuck, Open,
         disk, buffer, pending, queues
  <1>6. CASE StrategyAutosave \/ LayoutAutosave
    <2>1. /\ UNCHANGED <<side, running, pending, queues, loopback>> /\ running
          /\ ed' \in {ed, Clean}
      BY <1>6 DEF StrategyAutosave, LayoutAutosave
    <2>2. Open' = Open
      BY <2>1, OpenAfter
    <2> QED
      BY <2>1, <2>2 DEF LoadInv, Down, OneMessage, Echoes, Quiet, Still, Stuck,
         pending, queues
  <1>7. ASSUME NEW f \in Files, ChooseFile(f) PROVE LoadInv'
    <2> DEFINE m == [file |-> f, user |-> TRUE]
    <2>1. /\ Settled /\ running /\ layoutQ' = <<m>>
          /\ UNCHANGED <<disk, running, ed, pending, loadQ, spawnQ>>
      BY <1>7 DEF ChooseFile
    <2>2. m.user
      OBVIOUS
    <2> HIDE DEF m
    <2>3. DOMAIN layoutQ' = {1} /\ layoutQ'[1] = m /\ Len(layoutQ') = 1
          /\ loadQ' = << >> /\ DOMAIN loadQ' = {} /\ Len(loadQ') = 0
      BY <2>1, SettledIs
    <2>4. OneMessage' /\ Echoes'
      BY <2>2, <2>3 DEF OneMessage, Echoes
    <2>5. Still' /\ spawnQ' = << >>
      BY <2>1, SettledIs DEF Still, Stuck, Open, pending
    <2>6. Quiet'
      BY <2>3, <2>5 DEF Quiet
    <2> QED
      BY <2>1, <2>4, <2>6 DEF LoadInv, Down, disk
  <1>8. CASE Dispatch
    <2>1. /\ running /\ spawnQ # << >>
          /\ UNCHANGED <<disk, running, layoutQ, loadQ, loopback>>
      BY <1>8, DispatchIs
    <2>2. Quiet'
      BY <2>1 DEF LoadInv, Quiet
    <2> QED
      BY <2>1, <2>2 DEF LoadInv, Down, OneMessage, Echoes, disk
  <1>9. CASE Crash \/ CloseWindow
    <2>1. Gone
      BY <1>9, ExitIs
    <2>2. DOMAIN layoutQ' = {} /\ DOMAIN loadQ' = {} /\ Len(layoutQ)' = 0 /\ Len(loadQ)' = 0
      BY <2>1 DEF Gone
    <2> QED
      BY <2>1, <2>2 DEF Gone, LoadInv, Down, OneMessage, Echoes, Quiet
  <1>10. CASE Restart
    <2>1. ~running /\ running' = TRUE /\ UNCHANGED <<disk, layoutQ, loadQ>>
      BY <1>10, RestartIs
    <2> QED
      BY <2>1, NoMessage DEF LoadInv, Down, disk
  <1>11. CASE UNCHANGED vars
    BY <1>11 DEF LoadInv, Down, OneMessage, Echoes, Quiet, Still, Stuck, Open,
       vars, disk, buffer, pending, queues
  <1>12. 1 \in Regions
    BY FilesAssumption DEF Regions
  <1> QED
    BY <1>1, <1>3, <1>4, <1>5, <1>6, <1>7, <1>8, <1>9, <1>10, <1>11, <1>12, Steps,
       LoadLayout, LoadLoad, LoadPending

-----------------------------------------------------------------------------
(* A file holds its own code                                               *)

Mine == TypeInv /\ LoadInv /\ OwnInv /\ SavedIsOwn

LEMMA OwnIs ==
    /\ \A f : Own(Blank, f)
    /\ \A t, f : lineage' = lineage => (Own(t, f)' <=> Own(t, f))
    /\ \A t, f : t.of \in lineage[f] => Own(t, f)
  BY DEF Own, OfOne

\* What is shown is the strategy's, once nothing is under way.
LEMMA ShownOwn ==
    ASSUME TypeInv, OwnInv, ~mixed, orig # None,
           Settled \/ layoutQ # << >> \/ loadQ # << >>
    PROVE  /\ \A r \in Open : Own(ed[r].src, orig)
           /\ \A r \in Regions : Own(Merged[r], orig)
           /\ FragmentsOwn /\ SpawnsOwn /\ CacheOwn(orig)
  <1>1. ASSUME NEW r \in Open PROVE ~Refill(r)
    <2>1. DOMAIN NoFrag = {}
      BY DEF NoFrag
    <2> QED
      BY <1>1, <2>1, SettledIs DEF Refill, Stuck
  <1>2. EditorsOwn /\ FragmentsOwn /\ SpawnsOwn /\ CacheOwn(orig)
    BY DEF OwnInv
  <1>3. \A r \in Open : Own(ed[r].src, orig)
    BY <1>1, <1>2 DEF EditorsOwn
  <1>4. \A r \in Regions : Own(Merged[r], orig)
    BY <1>3, MergedIs, OwnIs DEF TypeInv
  <1> QED
    BY <1>2, <1>3, <1>4

\* A strategy's source belongs to it, and so do the fragments it is cut into.
LEMMA SourceOwn ==
    ASSUME NEW s \in Source, NEW f, \A r \in Regions : Own(s[r], f)
    PROVE  \A r \in DOMAIN Fragments(s) : Own(Fragments(s)[r], f) /\ Own(s[r], f)
  <1>1. ASSUME NEW r \in DOMAIN Fragments(s) PROVE Own(Fragments(s)[r], f) /\ Own(s[r], f)
    <2>1. r \in Regions
      BY FragmentsAre
    <2>2. Fragments(s)[r] = s[r] \/ Fragments(s)[r] = Blank
      BY FragmentsAre
    <2> QED
      BY <2>1, <2>2, OwnIs
  <1> QED
    BY <1>1

LEMMA FileOwn ==
    ASSUME TypeInv, SavedIsOwn, ~mixed, NEW f \in Files, py[f] # None
    PROVE  \A r \in Regions : Own(py[f][r], f)
  <1>1. py[f] \in Source
    BY DEF TypeInv, DiskType
  <1>2. \A r \in Regions : r \notin Written(py[f]) => py[f][r] = Blank
    BY <1>1, FragmentsAre
  <1>3. \A r \in Written(py[f]) : py[f][r].of \in lineage[f]
    BY DEF SavedIsOwn
  <1> QED
    BY <1>2, <1>3 DEF Own, OfOne

\* What is not written and belongs to the same strategy as before stays its own.
LEMMA SameFiles ==
    ASSUME SavedIsOwn, UNCHANGED <<py, lineage>>, mixed => mixed'
    PROVE  SavedIsOwn'
  BY DEF SavedIsOwn, Written

LEMMA SameCache ==
    ASSUME OwnInv, ~mixed, UNCHANGED <<cpy, cside, running, orig, lineage>>
    PROVE  CacheNames' /\ (orig # None => CacheOwn(orig)')
  BY DEF OwnInv, CacheNames, CacheComplete, CacheOwn, Own, OfOne

LEMMA OwnEdit ==
    ASSUME Mine, NEW r \in Regions, Type(r) \/ CloseEditor(r) \/ AskEditor
    PROVE  OwnInv' /\ SavedIsOwn'
  <1>1. /\ running /\ Settled
        /\ UNCHANGED <<py, side, cpy, cside, running, orig, pend, frag, layoutQ, loadQ, lineage, mixed>>
    BY DEF Type, CloseEditor, AskEditor, disk, buffer, pending, queues
  <1>2. SavedIsOwn'
    BY <1>1, SameFiles DEF Mine
  <1>3. SUFFICES ASSUME ~mixed', orig' # None PROVE EditorsOwn' /\ FragmentsOwn' /\ SpawnsOwn'
    BY <1>1, <1>2, SameCache DEF Mine, OwnInv
  <1>4. /\ \A k \in Open : Own(ed[k].src, orig)
        /\ FragmentsOwn /\ SpawnsOwn /\ ~mixed /\ orig # None /\ orig \in Files
    BY <1>1, <1>3, ShownOwn DEF Mine, TypeInv, StateType, Owners
  <1>5. FragmentsOwn'
    BY <1>1, <1>4, OwnIs DEF FragmentsOwn
  <1>6. CASE Type(r)
    <2>1. PICK new \in {Blank, [of |-> IF ed[r].src = Blank THEN orig ELSE ed[r].src.of,
                           n |-> edits + 1]} : ed' = [ed EXCEPT ![r] = [src |-> new, dirty |-> TRUE]]
      BY <1>6 DEF Type
    <2>2. r \in Open /\ spawnQ' = spawnQ
      BY <1>6 DEF Type, queues
    <2>3. Own(new, orig)
      <3>1. orig \in lineage[orig]
        BY <1>4 DEF Mine, TypeInv, HistoryType
      <3>2. ed[r].src = Blank \/ ed[r].src.of \in lineage[orig]
        BY <1>4, <2>2 DEF Own, OfOne
      <3> QED
        BY <3>1, <3>2 DEF Own, OfOne
    <2>4. ed'[r].src = new /\ \A k \in Regions : k # r => ed'[k] = ed[k]
      BY <2>1 DEF Mine, TypeInv, WindowType
    <2>5. \A k \in Open' : k # r => k \in Open
      BY <2>4 DEF Open
    <2>6. \A k \in Open' : Own(ed'[k].src, orig)
      BY <1>4, <2>3, <2>4, <2>5 DEF Open
    <2>7. EditorsOwn'
      BY <1>1, <2>6, OwnIs DEF EditorsOwn
    <2>8. SpawnsOwn'
      BY <1>1, <1>4, <2>2, OwnIs DEF SpawnsOwn
    <2> QED
      BY <1>5, <2>7, <2>8
  <1>7. CASE CloseEditor(r)
    <2>1. ed' = [ed EXCEPT ![r] = None] /\ spawnQ' = spawnQ
      BY <1>7 DEF CloseEditor, queues
    <2>2. \A k \in Open' : k \in Open /\ ed'[k] = ed[k]
      BY <2>1 DEF Open, Mine, TypeInv, WindowType
    <2>3. EditorsOwn'
      BY <1>1, <1>4, <2>2, OwnIs DEF EditorsOwn
    <2>4. SpawnsOwn'
      BY <1>1, <1>4, <2>1, OwnIs DEF SpawnsOwn
    <2> QED
      BY <1>5, <2>3, <2>4
  <1>8. CASE AskEditor
    <2>1. spawnQ' = <<[key |-> 0, src |-> Blank]>> /\ ed' = ed
      BY <1>8 DEF AskEditor
    <2>2. Open' = Open
      BY <2>1 DEF Open
    <2>3. EditorsOwn'
      BY <1>1, <1>4, <2>1, <2>2, OwnIs DEF EditorsOwn
    <2>4. DOMAIN spawnQ' = {1} /\ spawnQ'[1].src = Blank
      BY <2>1
    <2>5. SpawnsOwn'
      BY <1>1, <2>4, OwnIs DEF SpawnsOwn
    <2> QED
      BY <1>5, <2>3, <2>5
  <1> QED
    BY <1>6, <1>7, <1>8

LEMMA OwnDispatch == ASSUME Mine, Dispatch PROVE OwnInv' /\ SavedIsOwn'
  <1>1. /\ running /\ spawnQ # << >> /\ spawnQ' = Tail(spawnQ)
        /\ UNCHANGED <<py, side, cpy, cside, running, orig, pend, layoutQ, loadQ, lineage, mixed>>
        /\ \/ UNCHANGED <<ed, frag>>
           \/ \E r \in Regions : Dispatched(spawnQ[1], r)
    BY DispatchIs DEF Mine, disk
  <1>2. SavedIsOwn'
    BY <1>1, SameFiles DEF Mine
  <1>3. SUFFICES ASSUME ~mixed', orig' # None PROVE EditorsOwn' /\ FragmentsOwn' /\ SpawnsOwn'
    BY <1>1, <1>2, SameCache DEF Mine, OwnInv
  <1>4. EditorsOwn /\ FragmentsOwn /\ SpawnsOwn
    BY <1>1, <1>3 DEF Mine, OwnInv
  <1>5. SpawnsOwn'
    <2>1. /\ \A i \in DOMAIN Tail(spawnQ) : i + 1 \in DOMAIN spawnQ /\ Tail(spawnQ)[i] = spawnQ[i + 1]
      BY <1>1, TailIs DEF Mine, TypeInv, MessageType
    <2> QED
      BY <1>1, <1>4, <2>1, OwnIs DEF SpawnsOwn
  <1>6. CASE UNCHANGED <<ed, frag>>
    <2>1. EditorsOwn' /\ FragmentsOwn'
      BY <1>1, <1>4, <1>6, OwnIs DEF EditorsOwn, FragmentsOwn, Refill, Open
    <2> QED
      BY <1>5, <2>1
  <1>7. ASSUME NEW r \in Regions, Dispatched(spawnQ[1], r) PROVE EditorsOwn' /\ FragmentsOwn'
    <2>1. 1 \in DOMAIN spawnQ
      BY <1>1, TailIs DEF Mine, TypeInv, MessageType
    <2>2. PICK t \in Text : /\ ed' = [ed EXCEPT ![r] = [src |-> t, dirty |-> FALSE]]
                            /\ Own(t, orig)
      <3>1. CASE spawnQ[1].src # None
        BY <1>4, <1>7, <2>1, <3>1 DEF Dispatched, SpawnsOwn
      <3>2. CASE spawnQ[1].src = None
        <4>1. Own(Coming(r), orig)
          BY <1>4, OwnIs DEF Coming, FragmentsOwn
        <4> QED
          BY <1>7, <3>2, <4>1 DEF Dispatched
      <3> QED
        BY <3>1, <3>2
    <2>3. ed'[r].src = t /\ \A k \in Regions : k # r => ed'[k] = ed[k]
      BY <2>2 DEF Mine, TypeInv, WindowType
    <2>4. /\ DOMAIN frag' \subseteq DOMAIN frag /\ \A k \in DOMAIN frag' : frag'[k] = frag[k]
          /\ DOMAIN frag \subseteq DOMAIN frag' \union {r}
      BY <1>7 DEF Dispatched
    <2>5. FragmentsOwn'
      BY <1>1, <1>4, <2>4, OwnIs DEF FragmentsOwn
    <2>6. ASSUME NEW k \in Open' PROVE Own(ed'[k].src, orig) \/ Refill(k)'
      <3>1. CASE k = r
        BY <2>2, <2>3, <3>1
      <3>2. CASE k # r
        <4>1. k \in Open /\ ed'[k] = ed[k]
          BY <2>3, <3>2 DEF Open
        <4>2. Refill(k) => Refill(k)'
          BY <1>1, <2>4, <3>2 DEF Refill
        <4> QED
          BY <1>4, <4>1, <4>2 DEF EditorsOwn
      <3> QED
        BY <3>1, <3>2
    <2>7. EditorsOwn'
      BY <1>1, <2>6, OwnIs DEF EditorsOwn
    <2> QED
      BY <2>5, <2>7
  <1> QED
    BY <1>1, <1>5, <1>6, <1>7

LEMMA OwnAutosave ==
    ASSUME Mine, StrategyAutosave \/ LayoutAutosave
    PROVE  OwnInv' /\ SavedIsOwn'
  <1>1. /\ running /\ (mixed => mixed')
        /\ UNCHANGED <<py, running, orig, pend, frag, layoutQ, loadQ, spawnQ, lineage>>
        /\ ed' \in {ed, Clean}
    <2>1. CASE StrategyAutosave
      <3>1. PICK ok \in BOOLEAN :
               /\ ed' = IF cached /\ ok THEN Clean ELSE ed
               /\ mixed' = (mixed \/ (cached /\ ok /\ ~Settled))
        BY <2>1 DEF StrategyAutosave
      <3>2. (mixed => mixed') /\ ed' \in {ed, Clean}
        BY <3>1
      <3> QED
        BY <2>1, <3>2 DEF StrategyAutosave, buffer, pending, queues
    <2>2. CASE LayoutAutosave
      BY <2>2 DEF LayoutAutosave, buffer, pending, queues
    <2> QED
      BY <2>1, <2>2
  <1>2. SavedIsOwn'
    BY <1>1, SameFiles DEF Mine
  <1>3. SUFFICES ASSUME ~mixed'
                 PROVE  /\ orig # None => EditorsOwn' /\ FragmentsOwn' /\ SpawnsOwn' /\ CacheOwn(orig)'
                        /\ CacheNames'
    BY <1>1, <1>2 DEF OwnInv
  <1>4. ~mixed
    BY <1>1, <1>3
  <1>5. \A r \in Regions : r \in Open' <=> r \in Open
    BY <1>1, OpenAfter DEF Mine
  <1>6. \A r \in Open : ed'[r].src = ed[r].src
    BY <1>1, CleanIs DEF Mine, TypeInv
  <1>7. orig # None => EditorsOwn' /\ FragmentsOwn' /\ SpawnsOwn'
    <2>1. Open' = Open
      BY <1>1, OpenAfter DEF Mine
    <2> QED
      BY <1>1, <1>4, <1>6, <2>1, OwnIs
      DEF Mine, OwnInv, EditorsOwn, FragmentsOwn, SpawnsOwn, Refill
  <1>8. orig # None => CacheOwn(orig)'
    <2>1. cpy' = cpy \/ (cpy' = Merged /\ Settled)
      BY <1>3 DEF StrategyAutosave, LayoutAutosave
    <2>2. CASE cpy' = cpy
      BY <1>1, <1>4, <2>2 DEF Mine, OwnInv, CacheOwn, Own, OfOne
    <2>3. CASE cpy' = Merged /\ Settled
      <3>1. orig # None => \A r \in Regions : Own(Merged[r], orig)
        BY <1>4, <2>3, ShownOwn DEF Mine
      <3> QED
        BY <1>1, <2>3, <3>1, MergedIs, OwnIs DEF CacheOwn, Mine, TypeInv
    <2> QED
      BY <2>1, <2>2, <2>3
  <1>9. CacheNames'
    BY <1>1 DEF CacheNames
  <1> QED
    BY <1>7, <1>8, <1>9

\* A saved source is the strategy's own.
LEMMA OwnFile ==
    ASSUME TypeInv, SavedIsOwn, ~mixed, NEW f \in Files,
           \A g \in Files : lineage[g] \subseteq lineage'[g],
           \/ py' = py
           \/ py' = [py EXCEPT ![f] = Merged] /\ \A r \in Regions : OfOne(Merged[r], lineage'[f])
    PROVE  SavedIsOwn'
  <1>1. ASSUME NEW g \in Files, py'[g] # None, NEW r \in Written(py'[g])
        PROVE  py'[g][r].of \in lineage'[g]
    <2>1. CASE py'[g] = py[g]
      <3>1. py[g][r].of \in lineage[g]
        BY <1>1, <2>1 DEF SavedIsOwn
      <3> QED
        BY <2>1, <3>1
    <2>2. CASE py'[g] # py[g]
      <3>1. g = f /\ py'[g] = Merged /\ \A k \in Regions : OfOne(Merged[k], lineage'[f])
        BY <2>2 DEF TypeInv, DiskType
      <3>2. r \in Regions /\ Merged[r] # Blank
        BY <1>1, <3>1, MergedIs DEF TypeInv, Written, Source
      <3> QED
        BY <3>1, <3>2 DEF OfOne
    <2> QED
      BY <2>1, <2>2
  <1>2. \A s : Written(s)' = Written(s)
    BY DEF Written, Blank
  <1> QED
    BY <1>1, <1>2 DEF SavedIsOwn, Written

\* What Settled leaves of a strategy's code: the windows, the fragments that
\* wait and the cache; after a save under the name f they are all f's.
LEMMA OwnSaved ==
    ASSUME Mine, NEW f \in Files, NEW out \in SaveOutcome, WriteStrategy(f, out), ~mixed,
           Settled, running, running' = running, UNCHANGED <<pending, queues>>,
           orig' = f, \A g \in Files : lineage[g] \subseteq lineage'[g],
           \A r \in Open : OfOne(ed[r].src, lineage'[f]),
           \A r \in DOMAIN frag : OfOne(frag[r], lineage'[f]),
           \/ Synced(out)
           \/ orig = f
    PROVE  OwnInv' /\ SavedIsOwn'
  <1>1. \A r \in Regions : OfOne(Merged[r], lineage'[f])
    BY MergedIs DEF Mine, TypeInv, OfOne
  <1>2. SavedIsOwn'
    <2>1. py' = py \/ py' = [py EXCEPT ![f] = Merged]
      BY WriteIs DEF Mine
    <2> QED
      BY <1>1, <2>1, OwnFile DEF Mine
  <1>3. UNCHANGED <<pend, frag, layoutQ, loadQ, spawnQ>> /\ DOMAIN spawnQ = {}
    BY SettledIs DEF pending, queues
  <1>4. ed' \in {ed, Clean}
    BY WriteIs DEF Mine
  <1>5. Open' = Open /\ \A r \in Open : ed'[r].src = ed[r].src
    BY <1>4, OpenAfter, CleanIs DEF Mine, TypeInv
  <1>6. EditorsOwn' /\ FragmentsOwn' /\ SpawnsOwn'
    BY <1>3, <1>5 DEF EditorsOwn, FragmentsOwn, SpawnsOwn, Own
  <1>7. f # None
    BY FilesAssumption
  <1>8. CASE Synced(out)
    <2>1. cpy' = Merged /\ cside' \in {None, [path |-> f, wins |-> Open], cside}
      BY <1>8, WriteIs DEF Mine
    <2>2. CacheOwn(f)'
      BY <1>1, <2>1, MergedIs DEF CacheOwn, Own, Mine, TypeInv
    <2>3. CacheNames'
      BY DEF CacheNames
    <2> QED
      BY <1>2, <1>6, <2>2, <2>3 DEF OwnInv
  <1>9. CASE ~Synced(out)
    <2>1. UNCHANGED <<cpy, cside>> /\ orig = f
      BY <1>9, WriteIs DEF Mine
    <2>2. CacheOwn(f)
      BY <1>7, <2>1 DEF Mine, OwnInv
    <2>3. CacheOwn(f)'
      BY <2>1, <2>2 DEF CacheOwn, Own, OfOne
    <2>5. CacheNames'
      BY DEF CacheNames
    <2> QED
      BY <1>2, <1>6, <2>3, <2>5 DEF OwnInv
  <1> QED
    BY <1>8, <1>9

LEMMA OwnSave == ASSUME Mine, Save PROVE OwnInv' /\ SavedIsOwn'
  <1>1. /\ running /\ Settled /\ orig # None /\ orig \in Files
        /\ UNCHANGED <<running, orig, pending, queues, lineage, mixed>>
    BY DEF Save, Mine, TypeInv, StateType, Owners
  <1>2. SUFFICES ASSUME ~mixed PROVE OwnInv' /\ SavedIsOwn'
    BY <1>1 DEF OwnInv, SavedIsOwn
  <1>3. PICK out \in SaveOutcome : WriteStrategy(orig, out)
    BY DEF Save
  <1>4. /\ \A r \in Open : OfOne(ed[r].src, lineage'[orig])
        /\ \A r \in DOMAIN frag : OfOne(frag[r], lineage'[orig])
    BY <1>1, <1>2, ShownOwn DEF Mine, FragmentsOwn, Own
  <1> QED
    BY <1>1, <1>2, <1>3, <1>4, OwnSaved

LEMMA OwnSaveAs == ASSUME Mine, NEW f \in Files, SaveAs(f) PROVE OwnInv' /\ SavedIsOwn'
  <1>1. running /\ Settled /\ UNCHANGED <<running, pending, queues>>
    BY DEF SaveAs
  <1>2. PICK out \in SaveOutcome :
         LET some == Written(Merged) # {}
             back == ~JsonWritten(out) \/ (out = "py" /\ some) IN
         /\ WriteStrategy(f, out)
         /\ orig' = IF back THEN orig ELSE f
         /\ lineage' = IF back THEN lineage
                       ELSE [lineage EXCEPT ![f] = @ \union AtHand]
         /\ mixed' = (mixed \/ ~(back \/ Synced(out)))
    BY DEF SaveAs
  <1> DEFINE back == ~JsonWritten(out) \/ (out = "py" /\ Written(Merged) # {})
  <1>3. SUFFICES ASSUME ~mixed' PROVE OwnInv' /\ SavedIsOwn'
    BY DEF OwnInv, SavedIsOwn
  <1>4. ~mixed /\ (back \/ Synced(out))
    BY <1>2, <1>3
  <1>5. CASE back
    <2>1. UNCHANGED <<orig, lineage>> /\ ~PyWritten(out)
      BY <1>2, <1>5, WriteIs DEF Mine, PyWritten, Copies
    <2>2. ~Synced(out) /\ UNCHANGED <<py, cpy, cside, ed>>
      BY <1>2, <2>1, WriteIs DEF Mine
    <2>3. UNCHANGED <<pend, frag, layoutQ, loadQ, spawnQ>>
      BY <1>1 DEF pending, queues
    <2>4. SavedIsOwn'
      BY <1>4, <2>1, <2>2, SameFiles DEF Mine
    <2>5. OwnInv'
      BY <1>1, <1>4, <2>1, <2>2, <2>3 DEF Mine, OwnInv, EditorsOwn, FragmentsOwn, SpawnsOwn,
         CacheOwn, CacheNames, CacheComplete, Own, OfOne, Refill, Open
    <2> QED
      BY <2>4, <2>5
  <1>6. CASE ~back
    <2>1. /\ orig' = f /\ lineage' = [lineage EXCEPT ![f] = @ \union AtHand] /\ Synced(out)
          /\ WriteStrategy(f, out)
      BY <1>2, <1>4, <1>6
    <2>2. lineage'[f] = lineage[f] \union AtHand /\ \A g \in Files : lineage[g] \subseteq lineage'[g]
      BY <2>1 DEF Mine, TypeInv, HistoryType
    <2>3. /\ \A r \in Open : OfOne(ed[r].src, AtHand)
          /\ \A r \in DOMAIN frag : OfOne(frag[r], AtHand)
      <3>1. CASE orig # None
        BY <1>1, <1>4, <3>1, ShownOwn DEF Mine, FragmentsOwn, Own, AtHand
      <3>2. CASE orig = None
        <4>1. AtHand = {Merged[r].of : r \in Written(Merged)} \union {frag[r].of : r \in Written(frag)}
          BY <3>2 DEF AtHand
        <4>2. ASSUME NEW r \in Open PROVE OfOne(ed[r].src, AtHand)
          <5>1. Merged[r] = ed[r].src /\ r \in Regions
            BY MergedIs DEF Mine, TypeInv
          <5>2. Merged[r] # Blank => r \in Written(Merged)
            BY <5>1, MergedIs DEF Mine, TypeInv, Written, Source
          <5> QED
            BY <4>1, <5>1, <5>2 DEF OfOne
        <4>3. ASSUME NEW r \in DOMAIN frag PROVE OfOne(frag[r], AtHand)
          <5>1. frag[r] # Blank => r \in Written(frag)
            BY DEF Written
          <5> QED
            BY <4>1, <5>1 DEF OfOne
        <4> QED
          BY <4>2, <4>3
      <3> QED
        BY <3>1, <3>2
    <2>4. /\ \A r \in Open : OfOne(ed[r].src, lineage'[f])
          /\ \A r \in DOMAIN frag : OfOne(frag[r], lineage'[f])
      BY <2>2, <2>3 DEF OfOne
    <2> QED
      BY <1>1, <1>4, <2>1, <2>2, <2>4, OwnSaved
  <1> QED
    BY <1>5, <1>6

LEMMA OwnChoose ==
    ASSUME Mine, (\E f \in Files : ChooseFile(f)) \/ CancelDialog
                 \/ (\E kind \in {"load", "saveas"} : OpenDialog(kind)) \/ UNCHANGED vars
    PROVE  OwnInv' /\ SavedIsOwn'
  <1>1. UNCHANGED <<py, cpy, cside, running, ed, orig, pend, frag, loadQ, spawnQ, lineage, mixed>>
    BY DEF ChooseFile, CancelDialog, OpenDialog, vars, disk, buffer, pending, queues
  <1>2. SavedIsOwn'
    BY <1>1, SameFiles DEF Mine
  <1>3. Open' = Open
    BY <1>1 DEF Open
  <1>4. CASE UNCHANGED layoutQ
    <2>1. OwnInv'
      BY <1>1, <1>3, <1>4 DEF Mine, OwnInv, EditorsOwn, FragmentsOwn, SpawnsOwn,
         CacheOwn, CacheNames, CacheComplete, Own, OfOne, Refill
    <2> QED
      BY <1>2, <2>1
  <1>5. CASE \E f \in Files : ChooseFile(f)
    <2>1. Settled
      BY <1>5 DEF ChooseFile
    <2>2. ASSUME ~mixed, orig # None PROVE \A r \in Open : Own(ed[r].src, orig)
      BY <2>1, <2>2, ShownOwn DEF Mine
    <2>3. OwnInv'
      BY <1>1, <1>3, <2>2 DEF Mine, OwnInv, EditorsOwn, FragmentsOwn, SpawnsOwn,
         CacheOwn, CacheNames, CacheComplete, Own, OfOne
    <2> QED
      BY <1>2, <2>3
  <1> QED
    BY <1>4, <1>5 DEF CancelDialog, OpenDialog, vars, queues

\* Requests that are added do not bring a text.
LEMMA OwnAsks ==
    ASSUME TypeInv, SpawnsOwn, lineage' = lineage, orig' = orig,
           NEW S \in SUBSET Regions,
           \E asks \in Requests(S, Undrained) : spawnQ' = spawnQ \o asks
    PROVE  SpawnsOwn'
  <1>1. PICK asks \in Requests(S, Undrained) : spawnQ' = spawnQ \o asks
    OBVIOUS
  <1>2. asks \in Seq(SpawnRequests) /\ \A i \in DOMAIN asks : asks[i].src = None
    BY UndrainedAre
  <1>3. \A i \in DOMAIN spawnQ' : (\E j \in DOMAIN spawnQ : spawnQ'[i] = spawnQ[j])
                                  \/ \E j \in DOMAIN asks : spawnQ'[i] = asks[j]
    BY <1>1, <1>2, GrownIs DEF TypeInv, MessageType
  <1> QED
    BY <1>2, <1>3 DEF SpawnsOwn, Own

LEMMA OwnLayout == ASSUME Mine, ApplyLayout PROVE OwnInv' /\ SavedIsOwn'
  <1>1. /\ layoutQ # << >> /\ running
        /\ UNCHANGED <<py, cpy, cside, running, orig, lineage>>
    BY LayoutIs DEF Mine, disk, buffer
  <1>2. \/ UNCHANGED <<ed, pending, spawnQ, mixed>>
        \/ \E g, wins : Deferred(g, wins)
        \/ \E wins, p, fr : Windowed(wins, p, fr)
        \/ Forgotten
    BY LayoutIs DEF Mine
  <1>3. mixed => mixed'
    BY <1>2 DEF Deferred, Windowed, Forgotten
  <1>4. SavedIsOwn'
    BY <1>1, <1>3, SameFiles DEF Mine
  <1>5. SUFFICES ASSUME ~mixed', orig # None PROVE EditorsOwn' /\ FragmentsOwn' /\ SpawnsOwn'
    BY <1>1, <1>3, <1>4, SameCache DEF Mine, OwnInv
  <1>6. (\A r \in Open : Own(ed[r].src, orig)) /\ FragmentsOwn /\ SpawnsOwn
    BY <1>1, <1>3, <1>5, ShownOwn DEF Mine
  <1>7. ASSUME \A r \in Open' : r \in Open /\ ed'[r] = ed[r] PROVE EditorsOwn'
    BY <1>1, <1>6, <1>7 DEF EditorsOwn, Own
  <1>8. DOMAIN NoFrag = {}
    BY DEF NoFrag
  <1>9. frag' = frag \/ frag' = NoFrag
    BY <1>2 DEF Deferred, Windowed, Forgotten, pending
  <1>10. FragmentsOwn'
    BY <1>1, <1>6, <1>8, <1>9 DEF FragmentsOwn, Own
  <1>11. CASE ed' = ed /\ spawnQ' = spawnQ
    BY <1>1, <1>6, <1>7, <1>10, <1>11 DEF SpawnsOwn, Own, Open
  <1>12. ASSUME NEW wins, NEW p, NEW fr, Windowed(wins, p, fr)
         PROVE  EditorsOwn' /\ SpawnsOwn'
    <2>1. ed' = [r \in Regions |-> IF r \in wins THEN ed[r] ELSE None]
      BY <1>12 DEF Windowed
    <2>2. \A r \in Open' : r \in Open /\ ed'[r] = ed[r]
      BY <2>1 DEF Open
    <2>3. (wins \ Open) \ p.asked \in SUBSET Regions
      BY <1>12 DEF Windowed
    <2>4. \E asks \in Requests((wins \ Open) \ p.asked, Undrained) : spawnQ' = spawnQ \o asks
      BY <1>12 DEF Windowed
    <2> HIDE DEF Mine
    <2>5. SpawnsOwn'
      BY <1>1, <1>6, <2>3, <2>4, OwnAsks DEF Mine
    <2> QED
      BY <1>7, <2>2, <2>5
  <1> QED
    BY <1>2, <1>10, <1>11, <1>12 DEF Deferred, Forgotten

\* The windows of a strategy that was opened get its source.
LEMMA SourceRequests ==
    ASSUME NEW s \in Source, NEW asks \in Requests(DOMAIN Fragments(s), s)
    PROVE  /\ \A i \in DOMAIN asks :
                 asks[i].key \in DOMAIN Fragments(s) /\ asks[i].src = s[asks[i].key]
           /\ \A r \in DOMAIN Fragments(s) : \E i \in DOMAIN asks : asks[i].key = r
  <1> DEFINE S == DOMAIN Fragments(s)
  <1>1. S \in SUBSET Regions
    BY FragmentsAre
  <1>2. \A r \in S : s[r] \in Text \union {None}
    BY <1>1 DEF Source
  <1>3. asks \in Requests(S, s)
    OBVIOUS
  <1> HIDE DEF S
  <1>4. \A i \in DOMAIN asks : asks[i].key \in S /\ asks[i].src = s[asks[i].key]
    BY <1>1, <1>2, <1>3, RequestsAre
  <1>5. \A r \in S : \E i \in DOMAIN asks : asks[i].key = r
    BY <1>1, <1>2, <1>3, RequestsAre, ZenonT(60)
  <1> QED
    BY <1>4, <1>5 DEF S

LEMMA OwnLoad == ASSUME Mine, LoadStrategy PROVE OwnInv' /\ SavedIsOwn'
  <1>1. /\ running /\ loadQ # << >> /\ loadQ' = << >> /\ layoutQ = << >> /\ spawnQ = << >>
        /\ UNCHANGED <<py, running, pend, lineage, side>>
    BY LoadIs DEF Mine
  <1>2. PICK f \in Files :
                 \/ UNCHANGED <<cpy, cside, ed, buffer, frag, loadedFor, layoutQ, spawnQ,
                                alloc, mixed>>
                 \/ /\ Loaded(f)
                    /\ ed' = [r \in Regions |-> None]
                    /\ layoutQ' = <<[file |-> f, user |-> FALSE]>>
                    /\ spawnQ' \in Requests(DOMAIN Fragments(py[f]), py[f])
                 \/ /\ Loaded(f)
                    /\ ~mixed' => Written(Merged) \subseteq pend.wins \intersect DOMAIN frag'
                    /\ UNCHANGED <<ed, layoutQ, spawnQ>>
    BY LoadIs DEF Mine
  <1>3. mixed => mixed'
    BY <1>2 DEF Loaded
  <1>4. SavedIsOwn'
    BY <1>1, <1>3, SameFiles DEF Mine
  <1>5. SUFFICES ASSUME ~mixed' PROVE OwnInv'
    BY <1>4 DEF OwnInv
  <1>6. ~mixed
    BY <1>3, <1>5
  <1>7. CASE UNCHANGED <<cpy, cside, ed, buffer, frag, layoutQ, spawnQ>>
    <2>1. ASSUME orig # None PROVE \A r \in Open : Own(ed[r].src, orig)
      BY <1>1, <1>6, <2>1, ShownOwn DEF Mine
    <2>2. UNCHANGED <<orig, cached>> /\ Open' = Open
      BY <1>7 DEF buffer, Open
    <2>3. OwnInv'
      BY <1>1, <1>6, <1>7, <2>1, <2>2 DEF Mine, OwnInv, EditorsOwn, FragmentsOwn, SpawnsOwn,
         CacheOwn, CacheNames, CacheComplete, Own, OfOne
    <2> QED
      BY <2>3
  <1>8. ASSUME Loaded(f)
        PROVE  /\ orig' = f /\ FragmentsOwn' /\ CacheOwn(f)' /\ CacheNames'
               /\ \A r \in DOMAIN Fragments(py[f]) : OfOne(py[f][r], lineage[f])
    <2>1. /\ py[f] \in Source /\ py[f] # None /\ orig' = f /\ frag' = Fragments(py[f])
          /\ cpy' = py[f] /\ cside' \in {None, side[f], cside}
      BY <1>5, <1>8 DEF Loaded
    <2>2. \A r \in Regions : Own(py[f][r], f)
      BY <1>6, <2>1, FileOwn DEF Mine
    <2>3. \A r \in DOMAIN Fragments(py[f]) : Own(Fragments(py[f])[r], f) /\ Own(py[f][r], f)
      BY <2>1, <2>2, SourceOwn
    <2>4. FragmentsOwn'
      BY <1>1, <2>1, <2>3 DEF FragmentsOwn, Own
    <2>5. CacheOwn(f)'
      BY <1>1, <2>1, <2>2 DEF CacheOwn, Own
    <2>7. CacheNames'
      BY <1>1 DEF CacheNames
    <2>8. \A r \in DOMAIN Fragments(py[f]) : OfOne(py[f][r], lineage[f])
      BY <2>3 DEF Own
    <2> QED
      BY <2>1, <2>4, <2>5, <2>7, <2>8
  <1>9. CASE /\ Loaded(f)
             /\ ed' = [r \in Regions |-> None]
             /\ spawnQ' \in Requests(DOMAIN Fragments(py[f]), py[f])
    <2>1. \A r \in Regions : ed'[r] = None
      BY <1>9
    <2>2. EditorsOwn'
      BY <2>1 DEF EditorsOwn, Open
    <2>3. py[f] \in Source
      BY <1>9 DEF Loaded
    <2>4. \A i \in DOMAIN spawnQ' : /\ spawnQ'[i].key \in DOMAIN Fragments(py[f])
                                    /\ spawnQ'[i].src = py[f][spawnQ'[i].key]
      BY <1>9, <2>3, SourceRequests
    <2>5. SpawnsOwn'
      BY <1>1, <1>8, <1>9, <2>4 DEF SpawnsOwn, Own
    <2> QED
      BY <1>8, <1>9, <2>2, <2>5 DEF OwnInv
  <1>10. CASE /\ Loaded(f)
              /\ ~mixed' => Written(Merged) \subseteq pend.wins \intersect DOMAIN frag'
              /\ UNCHANGED <<ed, layoutQ, spawnQ>>
    <2>1. DOMAIN spawnQ' = {} /\ layoutQ' = << >>
      BY <1>1, <1>10
    <2>2. SpawnsOwn'
      BY <2>1 DEF SpawnsOwn
    <2>3. ASSUME NEW r \in Open PROVE OfOne(ed[r].src, lineage[f]) \/ Refill(r)'
      <3>1. Merged[r] = ed[r].src /\ r \in Regions
        BY MergedIs DEF Mine, TypeInv
      <3>2. Merged[r] # Blank => r \in Written(Merged)
        BY <3>1, MergedIs DEF Mine, TypeInv, Written, Source
      <3>3. r \in Written(Merged) => r \in pend'.wins \intersect DOMAIN frag'
        BY <1>1, <1>5, <1>10
      <3> QED
        BY <1>1, <2>1, <3>1, <3>2, <3>3 DEF Refill, OfOne
    <2>4. EditorsOwn'
      BY <1>1, <1>8, <1>10, <2>3 DEF EditorsOwn, Open, Own
    <2> QED
      BY <1>8, <1>10, <2>2, <2>4 DEF OwnInv
  <1> QED
    BY <1>2, <1>7, <1>9, <1>10

LEMMA OwnPending == ASSUME Mine, ApplyPending PROVE OwnInv' /\ SavedIsOwn'
  <1>1. UNCHANGED <<py, cpy, cside, running, orig, layoutQ, loadQ, lineage, mixed>>
    BY PendingIs DEF Mine, disk, buffer
  <1>2. SavedIsOwn'
    BY <1>1, SameFiles DEF Mine
  <1>3. SUFFICES ASSUME ~mixed', orig # None PROVE EditorsOwn' /\ FragmentsOwn' /\ SpawnsOwn'
    BY <1>1, <1>2, SameCache DEF Mine, OwnInv
  <1>4. EditorsOwn /\ FragmentsOwn /\ SpawnsOwn
    BY <1>1, <1>3 DEF Mine, OwnInv
  <1>5. /\ \A r \in Regions : r \notin pend.wins \intersect Open \intersect DOMAIN frag
                                    => ed'[r] = ed[r]
        /\ \A r \in pend.wins \intersect Open \intersect DOMAIN frag : ed'[r].src = frag[r]
        /\ DOMAIN frag' = DOMAIN frag \ (pend.wins \intersect Open)
        /\ \A r \in DOMAIN frag' : frag'[r] = frag[r]
    BY PendingIs DEF Mine
  <1>6. FragmentsOwn'
    BY <1>1, <1>4, <1>5 DEF FragmentsOwn, Own
  <1>7. ASSUME NEW r \in Open' PROVE Own(ed'[r].src, orig)
    <2>1. r \in Regions /\ ed'[r] # None
      BY DEF Open
    <2>2. CASE r \in pend.wins \intersect Open \intersect DOMAIN frag
      BY <1>4, <1>5, <2>2 DEF FragmentsOwn
    <2>3. CASE r \notin pend.wins \intersect Open \intersect DOMAIN frag
      <3>1. ed'[r] = ed[r] /\ r \in Open
        BY <1>5, <2>1, <2>3 DEF Open
      <3> QED
        BY <1>4, <2>3, <3>1 DEF EditorsOwn, Refill
    <2> QED
      BY <2>2, <2>3
  <1>8. EditorsOwn'
    BY <1>1, <1>7 DEF EditorsOwn, Own
  <1>9. SpawnsOwn'
    <2>1. (pend.wins \ Open) \ pend.asked \in SUBSET Regions
      BY DEF Mine, TypeInv, WindowType, Layouts
    <2>2. \E asks \in Requests((pend.wins \ Open) \ pend.asked, Undrained) :
             spawnQ' = spawnQ \o asks
      BY PendingIs DEF Mine
    <2> QED
      BY <1>1, <1>4, <2>1, <2>2, OwnAsks DEF Mine
  <1> QED
    BY <1>6, <1>8, <1>9

LEMMA OwnExit == ASSUME Mine, Crash \/ CloseWindow PROVE OwnInv' /\ SavedIsOwn'
  <1>1. Gone
    BY ExitIs DEF Mine
  <1>2. /\ UNCHANGED <<py, lineage>> /\ orig' = None /\ ~running'
        /\ mixed' = (mixed \/ (CacheComplete' /\ cside'.path \notin {orig, None}))
    BY <1>1 DEF Gone
  <1>3. SavedIsOwn'
    BY <1>2, SameFiles DEF Mine
  <1>4. SUFFICES ASSUME ~mixed', CacheComplete', cside'.path # None
                 PROVE  cpy' # None /\ \A r \in Regions : Own(cpy'[r], cside'.path)
    BY <1>2, <1>3 DEF OwnInv, CacheNames, CacheOwn, Own
  <1>5. running /\ ~mixed
    BY <1>2, <1>4 DEF Crash, CloseWindow
  <1>6. \/ UNCHANGED <<cpy, cside>>
        \/ Settled /\ cpy' \in {cpy, Merged}
    BY ExitIs DEF Mine
  <1>7. cside'.path = orig
    BY <1>2, <1>4
  <1>8. CacheOwn(orig)
    BY <1>4, <1>5, <1>7 DEF Mine, OwnInv
  <1>9. cpy' # None /\ \A r \in Regions : Own(cpy'[r], orig)
    <2>1. CASE cpy' = cpy
      BY <1>8, <2>1 DEF CacheOwn
    <2>2. CASE cpy' = Merged /\ Settled
      <3>1. orig # None
        BY <1>4, <1>7
      <3> QED
        BY <1>5, <2>2, <3>1, ShownOwn, MergedIs DEF Mine, TypeInv
    <2> QED
      BY <1>6, <2>1, <2>2
  <1> QED
    BY <1>7, <1>9

LEMMA OwnRestart == ASSUME Mine, Restart PROVE OwnInv' /\ SavedIsOwn'
  <1>1. /\ ~running /\ running' = TRUE
        /\ UNCHANGED <<py, cpy, cside, ed, lineage, mixed>>
        /\ \/ \E wins, asked : Restored(wins, asked)
           \/ ~CacheComplete /\ UNCHANGED <<buffer, pending, alloc, spawnQ>>
    BY RestartIs DEF Mine, disk
  <1>2. SavedIsOwn'
    BY <1>1, SameFiles DEF Mine
  <1>3. SUFFICES ASSUME ~mixed PROVE OwnInv'
    BY <1>1, <1>2 DEF OwnInv
  <1>4. CacheNames
    BY <1>3 DEF Mine, OwnInv
  <1>5. Open' = {} /\ orig = None
    <2>1. ed' = [r \in Regions |-> None] /\ orig = None
      BY <1>1 DEF Mine, LoadInv, Down
    <2> QED
      BY <2>1 DEF Open
  <1>6. EditorsOwn'
    BY <1>5 DEF EditorsOwn
  <1>7. CASE ~CacheComplete /\ UNCHANGED <<buffer, pending, alloc, spawnQ>>
    <2>1. orig' = None
      BY <1>5, <1>7 DEF buffer
    <2>3. CacheNames'
      BY <1>1 DEF CacheNames
    <2> QED
      BY <2>1, <2>3 DEF OwnInv
  <1>8. ASSUME NEW wins, NEW asked, Restored(wins, asked) PROVE OwnInv'
    <2>1. /\ cside # None /\ cpy \in Source /\ orig' = cside.path /\ frag' = Fragments(cpy)
          /\ asked \in SUBSET Regions /\ spawnQ' \in Requests(asked, Undrained)
      BY <1>8 DEF Restored
    <2>2. ASSUME orig' # None PROVE FragmentsOwn' /\ SpawnsOwn' /\ CacheOwn(orig)'
      <3>1. cpy # None /\ \A r \in Regions : Own(cpy[r], orig')
        BY <1>1, <1>4, <1>8, <2>1, <2>2 DEF CacheNames, CacheOwn, CacheComplete, Restored
      <3>2. CacheOwn(orig)'
        BY <1>1, <3>1 DEF CacheOwn, Own
      <3>3. \A r \in DOMAIN Fragments(cpy) : Own(Fragments(cpy)[r], orig')
        BY <2>1, <3>1, SourceOwn
      <3>4. FragmentsOwn'
        BY <1>1, <2>1, <3>3 DEF FragmentsOwn, Own
      <3>5. \A i \in DOMAIN spawnQ' : spawnQ'[i].src = None
        BY <2>1, UndrainedAre
      <3>6. SpawnsOwn'
        BY <3>5 DEF SpawnsOwn
      <3> QED
        BY <3>2, <3>4, <3>6
    <2>3. CacheNames'
      BY <1>1 DEF CacheNames
    <2> QED
      BY <1>6, <2>2, <2>3 DEF OwnInv
  <1> QED
    BY <1>1, <1>7, <1>8

LEMMA OwnStep == ASSUME Mine, [Next]_vars PROVE OwnInv' /\ SavedIsOwn'
  <1>1. 1 \in Regions
    BY FilesAssumption DEF Regions
  <1> QED
    BY <1>1, Steps, OwnEdit, OwnDispatch, OwnAutosave, OwnSave, OwnSaveAs, OwnChoose,
       OwnLayout, OwnLoad, OwnPending, OwnExit, OwnRestart

-----------------------------------------------------------------------------
(* What was typed is kept                                                  *)

Safe == TypeInv /\ LoadInv /\ KeptInv

LEMMA KeptIs ==
    /\ \A r : Kept(Blank, r)
    /\ \A t, r : UNCHANGED <<cpy, py, orig>> => (Kept(t, r) => Kept(t, r)')
    /\ \A t, r : OnDisk(t, r) => Kept(t, r)
    /\ \A t, r : UNCHANGED <<cpy, py>> => (OnDisk(t, r) => OnDisk(t, r)')
  BY BlankIs DEF Kept, OnDisk

\* When nothing is under way no fragment waits for a window.
LEMMA NoneWaits ==
    ASSUME Safe, ~mixed, spawnQ = << >>, Still
    PROVE  pend.wins \intersect DOMAIN frag = {}
  <1>1. DOMAIN NoFrag = {}
    BY DEF NoFrag
  <1>2. CASE Stuck
    BY <1>1, <1>2 DEF Stuck
  <1>3. CASE pend.wins \subseteq pend.asked \ Open
    <2>1. ASSUME NEW r \in pend.wins \intersect DOMAIN frag PROVE FALSE
      <3>1. Requested(r)
        BY <1>3, <2>1 DEF Safe, KeptInv, AskedComes
      <3> QED
        BY <3>1 DEF Requested
    <2> QED
      BY <2>1
  <1> QED
    BY <1>2, <1>3 DEF Still

\* What is shown and clean is on the disk, once nothing is under way.
LEMMA ShownKept ==
    ASSUME Safe, ~mixed, Settled \/ layoutQ # << >> \/ loadQ # << >>
    PROVE  \A r \in Open : ~ed[r].dirty => Kept(ed[r].src, r)
  <1>1. ASSUME NEW r \in Open, Refill(r) PROVE FALSE
    BY <1>1, NoneWaits, SettledIs DEF Refill
  <1> QED
    BY <1>1 DEF Safe, KeptInv, EditorsKept

LEMMA KeptEdit ==
    ASSUME Safe, NEW r \in Regions, Type(r) \/ CloseEditor(r) \/ AskEditor
    PROVE  KeptInv'
  <1>1. /\ running /\ Settled
        /\ UNCHANGED <<py, cpy, orig, pend, frag, layoutQ, loadQ, mixed>>
    BY DEF Type, CloseEditor, AskEditor, disk, buffer, pending, queues
  <1>2. SUFFICES ASSUME ~mixed PROVE EditorsKept' /\ FragmentsKept' /\ SpawnsKept' /\ AskedComes'
    BY <1>1 DEF KeptInv
  <1>3. pend.wins \intersect DOMAIN frag = {} /\ spawnQ = << >>
    BY <1>1, <1>2, NoneWaits, SettledIs
  <1>4. \A k \in Open : ~ed[k].dirty => Kept(ed[k].src, k)
    BY <1>1, <1>2, ShownKept
  <1>5. spawnQ' = << >> \/ spawnQ' = <<[key |-> 0, src |-> Blank]>>
    BY <1>3 DEF Type, CloseEditor, AskEditor, queues
  <1>6. \A i \in DOMAIN spawnQ' : spawnQ'[i].src = Blank
    BY <1>5
  <1>7. SpawnsKept'
    BY <1>1, <1>6, KeptIs DEF SpawnsKept
  <1>8. FragmentsKept' /\ AskedComes'
    BY <1>1, <1>3, <1>6, BlankIs DEF FragmentsKept, AskedComes, Drained
  <1>9. \A k \in Open' : ed'[k].dirty \/ (k \in Open /\ ed'[k] = ed[k])
    <2>1. CASE Type(r)
      <3>1. PICK new : ed' = [ed EXCEPT ![r] = [src |-> new, dirty |-> TRUE]]
        BY <2>1 DEF Type
      <3> QED
        BY <3>1 DEF Open, Safe, TypeInv, WindowType
    <2>2. CASE CloseEditor(r)
      <3>1. ed' = [ed EXCEPT ![r] = None]
        BY <2>2 DEF CloseEditor
      <3> QED
        BY <3>1 DEF Open, Safe, TypeInv, WindowType
    <2>3. CASE AskEditor
      BY <2>3 DEF AskEditor, Open
    <2> QED
      BY <2>1, <2>2, <2>3
  <1>10. EditorsKept'
    BY <1>1, <1>4, <1>9, KeptIs DEF EditorsKept
  <1> QED
    BY <1>7, <1>8, <1>10

LEMMA KeptDispatch == ASSUME Safe, Dispatch PROVE KeptInv'
  <1>1. /\ running /\ spawnQ # << >> /\ spawnQ' = Tail(spawnQ)
        /\ UNCHANGED <<py, cpy, orig, pend, layoutQ, loadQ, mixed>>
        /\ spawnQ[1] \in SpawnRequests
        /\ \/ UNCHANGED <<ed, frag>> /\ spawnQ[1].key = 0
           \/ \E r \in Regions : Dispatched(spawnQ[1], r)
    BY DispatchIs DEF Safe, disk
  <1>2. SUFFICES ASSUME ~mixed PROVE EditorsKept' /\ FragmentsKept' /\ SpawnsKept' /\ AskedComes'
    BY <1>1 DEF KeptInv
  <1>3. EditorsKept /\ FragmentsKept /\ SpawnsKept /\ AskedComes
    BY <1>2 DEF Safe, KeptInv
  <1>4. /\ 1 \in DOMAIN spawnQ
        /\ \A i \in DOMAIN spawnQ' : i + 1 \in DOMAIN spawnQ /\ spawnQ'[i] = spawnQ[i + 1]
        /\ \A i \in DOMAIN spawnQ : i # 1 => i - 1 \in DOMAIN spawnQ' /\ spawnQ'[i - 1] = spawnQ[i]
    BY <1>1, TailIs DEF Safe, TypeInv, MessageType
  <1>5. SpawnsKept'
    BY <1>1, <1>3, <1>4, KeptIs DEF SpawnsKept
  <1>6. \A r : Drained(r)' => Drained(r)
    BY <1>4 DEF Drained
  <1>7. \A r : Requested(r) /\ r # spawnQ[1].key => Requested(r)'
    <2>1. ASSUME NEW r, Requested(r), r # spawnQ[1].key PROVE Requested(r)'
      <3>1. PICK i \in DOMAIN spawnQ : spawnQ[i].key = r
        BY <2>1 DEF Requested
      <3>2. i # 1
        BY <2>1, <3>1
      <3> QED
        BY <1>4, <3>1, <3>2 DEF Requested
    <2> QED
      BY <2>1
  <1>8. 0 \notin Regions /\ pend.wins \subseteq Regions
    BY DEF Regions, Safe, TypeInv, WindowType, Layouts
  <1>9. CASE UNCHANGED <<ed, frag>> /\ spawnQ[1].key = 0
    <2>1. Open' = Open
      BY <1>9 DEF Open
    <2>2. EditorsKept'
      BY <1>1, <1>3, <1>9, <2>1, KeptIs DEF EditorsKept, Refill
    <2>3. FragmentsKept'
      BY <1>1, <1>3, <1>6, <1>9, KeptIs DEF FragmentsKept
    <2>4. AskedComes'
      BY <1>1, <1>3, <1>7, <1>8, <1>9, <2>1 DEF AskedComes
    <2> QED
      BY <1>5, <2>2, <2>3, <2>4
  <1>10. ASSUME NEW r \in Regions, Dispatched(spawnQ[1], r)
         PROVE  EditorsKept' /\ FragmentsKept' /\ AskedComes'
    <2>1. spawnQ[1].key \in {0, r}
      BY <1>10 DEF Dispatched
    <2>2. PICK t \in Text : /\ ed' = [ed EXCEPT ![r] = [src |-> t, dirty |-> FALSE]]
                            /\ Kept(t, r)
      <3>1. CASE spawnQ[1].src # None
        <4>1. Kept(spawnQ[1].src, r)
          <5>1. CASE spawnQ[1].key = r
            BY <1>3, <1>4, <3>1, <5>1 DEF SpawnsKept
          <5>2. CASE spawnQ[1].key = 0
            <6>1. spawnQ[1].src = Blank
              BY <1>1, <1>8, <5>2 DEF SpawnRequests
            <6> QED
              BY <6>1, KeptIs
          <5> QED
            BY <2>1, <5>1, <5>2
        <4> QED
          BY <1>10, <3>1, <4>1 DEF Dispatched
      <3>2. CASE spawnQ[1].src = None
        <4>1. spawnQ[1].key = r
          BY <1>10, <3>2 DEF Dispatched
        <4>2. Drained(r)
          BY <1>4, <3>2, <4>1 DEF Drained
        <4>3. Kept(Coming(r), r)
          BY <1>3, <4>2, KeptIs DEF Coming, FragmentsKept
        <4> QED
          BY <1>10, <3>2, <4>3 DEF Dispatched
      <3> QED
        BY <3>1, <3>2
    <2>3. ed'[r].src = t /\ ed'[r] # None /\ \A k \in Regions : k # r => ed'[k] = ed[k]
      BY <2>2, EditorIs DEF Safe, TypeInv, WindowType
    <2>4. /\ DOMAIN frag' \subseteq DOMAIN frag /\ \A k \in DOMAIN frag' : frag'[k] = frag[k]
          /\ DOMAIN frag \subseteq DOMAIN frag' \union {r}
      BY <1>10 DEF Dispatched
    <2>5. FragmentsKept'
      BY <1>1, <1>3, <1>6, <2>4, KeptIs DEF FragmentsKept
    <2>6. ASSUME NEW k \in Open', ~ed'[k].dirty PROVE Kept(ed'[k].src, k) \/ Refill(k)'
      <3>1. CASE k = r
        BY <2>2, <2>3, <3>1
      <3>2. CASE k # r
        <4>1. k \in Open /\ ed'[k] = ed[k]
          BY <2>3, <3>2 DEF Open
        <4>2. Refill(k) => Refill(k)'
          BY <1>1, <2>4, <3>2 DEF Refill
        <4> QED
          BY <1>3, <2>6, <4>1, <4>2 DEF EditorsKept
      <3> QED
        BY <3>1, <3>2
    <2>7. EditorsKept'
      BY <1>1, <2>6, KeptIs DEF EditorsKept
    <2>8. ASSUME NEW k \in (pend.wins \intersect DOMAIN frag') \ Open', k \in pend.asked
          PROVE  Requested(k)'
      <3>1. k # r /\ k \notin Open
        BY <1>8, <2>3, <2>8 DEF Open
      <3>2. Requested(k)
        BY <1>3, <2>4, <2>8, <3>1 DEF AskedComes
      <3> QED
        BY <1>7, <1>8, <2>1, <2>8, <3>1, <3>2
    <2>9. AskedComes'
      BY <1>1, <2>8 DEF AskedComes
    <2> QED
      BY <2>5, <2>7, <2>9
  <1> QED
    BY <1>1, <1>5, <1>9, <1>10

\* A save between loads: what is clean then is on the disk.
LEMMA KeptSaved ==
    ASSUME Safe, ~mixed, Settled, UNCHANGED <<pending, queues>>, ed' \in {ed, Clean},
           \A r \in Open : \A t : t = ed[r].src /\ ~ed'[r].dirty => Kept(t, r)'
    PROVE  KeptInv'
  <1>1. pend.wins \intersect DOMAIN frag = {} /\ spawnQ = << >>
    BY NoneWaits, SettledIs
  <1>2. pend' = pend /\ frag' = frag /\ spawnQ' = spawnQ /\ DOMAIN spawnQ = {}
    BY <1>1 DEF pending, queues
  <1>3. FragmentsKept' /\ SpawnsKept' /\ AskedComes'
    BY <1>1, <1>2 DEF FragmentsKept, SpawnsKept, AskedComes, Drained
  <1>4. Open' = Open /\ \A r \in Open : ed'[r].src = ed[r].src
    BY OpenAfter, CleanIs DEF Safe, TypeInv
  <1>5. EditorsKept'
    BY <1>4 DEF EditorsKept
  <1> QED
    BY <1>3, <1>5 DEF KeptInv

LEMMA CachedKept ==
    ASSUME TypeInv, cpy' = Merged
    PROVE  \A r \in Open : \A t : t = ed[r].src => Kept(t, r)'
  <1>1. ASSUME NEW r \in Open, NEW t, t = ed[r].src PROVE cpy' # None /\ cpy'[r] = t
    BY <1>1, MergedIs DEF TypeInv
  <1> QED
    BY <1>1 DEF Kept, OnDisk

LEMMA KeptAutosave ==
    ASSUME Safe, StrategyAutosave \/ LayoutAutosave
    PROVE  KeptInv'
  <1>1. /\ UNCHANGED <<py, orig, pend, frag, layoutQ, loadQ, spawnQ>>
        /\ UNCHANGED <<pending, queues>>
    BY DEF StrategyAutosave, LayoutAutosave, buffer, pending, queues
  <1>2. \/ UNCHANGED <<cpy, ed>> /\ (mixed => mixed')
        \/ /\ cpy' = Merged /\ ed' = Clean
           /\ mixed \/ ~Settled => mixed'
    <2>1. CASE StrategyAutosave
      <3>1. PICK ok \in BOOLEAN :
               /\ cpy' = IF cached /\ ok THEN Merged ELSE cpy
               /\ ed' = IF cached /\ ok THEN Clean ELSE ed
               /\ mixed' = (mixed \/ (cached /\ ok /\ ~Settled))
        BY <2>1 DEF StrategyAutosave
      <3>2. CASE cached /\ ok
        BY <3>1, <3>2
      <3>3. CASE ~(cached /\ ok)
        BY <3>1, <3>3
      <3> QED
        BY <3>2, <3>3
    <2>2. CASE LayoutAutosave
      BY <2>2 DEF LayoutAutosave
    <2> QED
      BY <2>1, <2>2
  <1>3. SUFFICES ASSUME ~mixed' PROVE KeptInv'
    BY DEF KeptInv
  <1>4. CASE UNCHANGED <<cpy, ed>> /\ (mixed => mixed')
    <2>1. EditorsKept /\ FragmentsKept /\ SpawnsKept /\ AskedComes /\ Open' = Open
      BY <1>3, <1>4 DEF Safe, KeptInv, Open
    <2>2. EditorsKept'
      BY <1>1, <1>4, <2>1, KeptIs DEF EditorsKept, Refill
    <2>3. FragmentsKept' /\ SpawnsKept'
      BY <1>1, <1>4, <2>1, KeptIs DEF FragmentsKept, SpawnsKept, Drained
    <2>4. AskedComes'
      BY <1>1, <2>1 DEF AskedComes, Requested
    <2> QED
      BY <2>2, <2>3, <2>4 DEF KeptInv
  <1>5. CASE /\ cpy' = Merged /\ ed' = Clean
             /\ mixed \/ ~Settled => mixed'
    BY <1>1, <1>3, <1>5, KeptSaved, CachedKept DEF Safe
  <1> QED
    BY <1>2, <1>4, <1>5

LEMMA KeptSave ==
    ASSUME Safe, NEW f \in Files, Save \/ SaveAs(f)
    PROVE  KeptInv'
  <1>1. Settled /\ UNCHANGED <<pending, queues>>
    BY DEF Save, SaveAs
  <1>2. PICK g \in Files, out \in SaveOutcome :
           /\ WriteStrategy(g, out)
           /\ mixed => mixed'
           /\ Synced(out) \/ mixed' \/ (orig' = orig)
    <2>1. CASE Save
      <3>1. orig \in Files
        BY <2>1 DEF Save, Safe, TypeInv, StateType, Owners
      <3> QED
        BY <2>1, <3>1 DEF Save
    <2>2. CASE SaveAs(f)
      <3>1. PICK out \in SaveOutcome :
              LET some == Written(Merged) # {}
                  back == ~JsonWritten(out) \/ (out = "py" /\ some) IN
              /\ WriteStrategy(f, out)
              /\ orig' = IF back THEN orig ELSE f
              /\ mixed' = (mixed \/ ~(back \/ Synced(out)))
        BY <2>2 DEF SaveAs
      <3> QED
        BY <3>1
    <2> QED
      BY <2>1, <2>2
  <1>3. SUFFICES ASSUME ~mixed' PROVE KeptInv'
    BY DEF KeptInv
  <1>4. ~mixed
    BY <1>2, <1>3
  <1>5. CASE Synced(out)
    <2>1. cpy' = Merged /\ ed' = Clean
      BY <1>2, <1>5, WriteIs DEF Safe
    <2> QED
      BY <1>1, <1>4, <2>1, KeptSaved, CachedKept DEF Safe
  <1>6. CASE ~Synced(out)
    <2>1. /\ UNCHANGED <<cpy, ed>> /\ orig' = orig
          /\ py' = py \/ py' = [py EXCEPT ![g] = Merged]
      BY <1>2, <1>3, <1>6, WriteIs DEF Safe
    <2>2. ASSUME NEW r \in Open, NEW t, t = ed[r].src, ~ed'[r].dirty PROVE Kept(t, r)'
      <3>1. Kept(t, r)
        BY <1>1, <1>4, <2>1, <2>2, ShownKept
      <3>2. SUFFICES ASSUME OnDisk(t, r) PROVE OnDisk(t, r)'
        BY <2>1, <3>1 DEF Kept
      <3>3. CASE cpy # None /\ cpy[r] = t
        BY <2>1, <3>3 DEF OnDisk
      <3>4. ASSUME NEW h \in Files, py[h] # None, py[h][r] = t PROVE OnDisk(t, r)'
        <4>1. CASE py'[h] = py[h]
          BY <3>4, <4>1 DEF OnDisk
        <4>2. CASE py'[h] # py[h]
          <5>1. py'[h] = Merged
            BY <2>1, <4>2 DEF Safe, TypeInv, DiskType
          <5>2. py'[h] # None /\ py'[h][r] = t
            BY <2>2, <5>1, MergedIs DEF Safe, TypeInv
          <5> QED
            BY <5>2 DEF OnDisk
        <4> QED
          BY <4>1, <4>2
      <3> QED
        BY <3>2, <3>3, <3>4 DEF OnDisk
    <2> QED
      BY <1>1, <1>4, <2>1, <2>2, KeptSaved
  <1> QED
    BY <1>5, <1>6

LEMMA KeptChoose ==
    ASSUME Safe, (\E f \in Files : ChooseFile(f)) \/ CancelDialog
                 \/ (\E kind \in {"load", "saveas"} : OpenDialog(kind)) \/ UNCHANGED vars
    PROVE  KeptInv'
  <1>1. UNCHANGED <<py, cpy, ed, orig, pend, frag, loadQ, spawnQ, mixed>>
    BY DEF ChooseFile, CancelDialog, OpenDialog, vars, disk, buffer, pending, queues
  <1>2. SUFFICES ASSUME ~mixed PROVE EditorsKept' /\ FragmentsKept' /\ SpawnsKept' /\ AskedComes'
    BY <1>1 DEF KeptInv
  <1>3. EditorsKept /\ FragmentsKept /\ SpawnsKept /\ AskedComes /\ Open' = Open
    BY <1>1, <1>2 DEF Safe, KeptInv, Open
  <1>4. FragmentsKept' /\ SpawnsKept'
    BY <1>1, <1>3, KeptIs DEF FragmentsKept, SpawnsKept, Drained
  <1>5. AskedComes'
    BY <1>1, <1>3 DEF AskedComes, Requested
  <1>6. EditorsKept'
    <2>1. CASE UNCHANGED layoutQ
      BY <1>1, <1>3, <2>1, KeptIs DEF EditorsKept, Refill
    <2>2. CASE \E f \in Files : ChooseFile(f)
      <3>1. \A r \in Open : ~ed[r].dirty => Kept(ed[r].src, r)
        BY <1>2, <2>2, ShownKept DEF ChooseFile
      <3> QED
        BY <1>1, <1>3, <3>1, KeptIs DEF EditorsKept
    <2> QED
      BY <2>1, <2>2 DEF CancelDialog, OpenDialog, vars, queues
  <1> QED
    BY <1>4, <1>5, <1>6

LEMMA KeptLayout == ASSUME Safe, ApplyLayout PROVE KeptInv'
  <1>1. /\ layoutQ # << >> /\ DOMAIN layoutQ = {1} /\ UNCHANGED <<py, cpy, orig>>
    BY LayoutIs DEF Safe, disk, buffer
  <1>2. PICK f \in Files, user \in BOOLEAN :
        /\ layoutQ[1] = [file |-> f, user |-> user]
        /\ \/ UNCHANGED <<ed, pending, spawnQ, mixed>>
           \/ \E g, wins : Deferred(g, wins)
           \/ user /\ \E wins, p, fr : Windowed(wins, p, fr)
           \/ Forgotten
    BY LayoutIs DEF Safe
  <1>3. mixed => mixed'
    BY <1>2 DEF Deferred, Windowed, Forgotten
  <1>4. SUFFICES ASSUME ~mixed' PROVE EditorsKept' /\ FragmentsKept' /\ SpawnsKept' /\ AskedComes'
    BY DEF KeptInv
  <1>5. /\ \A r \in Open : ~ed[r].dirty => Kept(ed[r].src, r)
        /\ FragmentsKept /\ SpawnsKept /\ AskedComes /\ ~mixed
    BY <1>1, <1>3, <1>4, ShownKept DEF Safe, KeptInv
  <1>6. ASSUME \A r \in Open' : r \in Open /\ ed'[r] = ed[r] PROVE EditorsKept'
    BY <1>1, <1>5, <1>6, KeptIs DEF EditorsKept
  <1>7. DOMAIN NoFrag = {}
    BY DEF NoFrag
  <1>8. CASE ed' = ed /\ spawnQ' = spawnQ /\ (frag' = NoFrag \/ UNCHANGED <<pend, frag>>)
    <2>1. EditorsKept' /\ SpawnsKept'
      BY <1>1, <1>5, <1>6, <1>8, KeptIs DEF Open, SpawnsKept
    <2>2. FragmentsKept' /\ AskedComes'
      <3>1. CASE frag' = NoFrag
        BY <1>7, <3>1 DEF FragmentsKept, AskedComes
      <3>2. CASE UNCHANGED <<pend, frag>>
        BY <1>1, <1>5, <1>8, <3>2, KeptIs DEF FragmentsKept, AskedComes, Drained, Requested, Open
      <3> QED
        BY <1>8, <3>1, <3>2
    <2> QED
      BY <2>1, <2>2
  <1>9. ASSUME user, NEW wins, NEW p, NEW fr, Windowed(wins, p, fr)
        PROVE  EditorsKept' /\ FragmentsKept' /\ SpawnsKept' /\ AskedComes'
    <2>1. spawnQ = << >> /\ Still
      BY <1>1, <1>2, <1>9 DEF Safe, LoadInv, Quiet
    <2>2. pend.wins \intersect DOMAIN frag = {}
      BY <1>5, <2>1, NoneWaits
    <2>3. /\ ed' = [r \in Regions |-> IF r \in wins THEN ed[r] ELSE None]
          /\ (wins \ Open) \ p.asked \in SUBSET Regions
          /\ (p = pend /\ fr = frag) \/ (p = NoPend /\ fr = NoFrag)
          /\ (wins \ Open) \intersect DOMAIN fr = {}
      BY <1>4, <1>9 DEF Windowed
    <2>4. pend'.wins = p.wins \union (wins \ Open) /\ frag' = fr
      BY <1>9, WindowedIs DEF Safe
    <2>5. PICK asks \in Requests((wins \ Open) \ p.asked, Undrained) : spawnQ' = spawnQ \o asks
      BY <1>9 DEF Windowed
    <2>6. /\ asks \in Seq(SpawnRequests)
          /\ \A i \in DOMAIN asks : asks[i].key \in wins \ Open /\ asks[i].src = None
      BY <2>3, UndrainedAre
    <2>7. spawnQ' = asks
      BY <2>1, <2>5, <2>6, GrownIs DEF Safe, TypeInv, MessageType
    <2>8. \A r \in Open' : r \in Open /\ ed'[r] = ed[r]
      BY <2>3 DEF Open
    <2>9. EditorsKept'
      BY <1>6, <2>8
    <2>10. SpawnsKept'
      BY <2>6, <2>7 DEF SpawnsKept
    <2>11. pend'.wins \intersect DOMAIN frag' = {}
      BY <1>7, <2>2, <2>3, <2>4
    <2>12. \A r \in DOMAIN frag' : ~Drained(r)'
      BY <2>3, <2>4, <2>6, <2>7 DEF Drained
    <2>13. FragmentsKept' /\ AskedComes'
      BY <2>11, <2>12 DEF FragmentsKept, AskedComes
    <2> QED
      BY <2>9, <2>10, <2>13
  <1> QED
    BY <1>2, <1>8, <1>9 DEF Deferred, Forgotten, pending

LEMMA KeptLoad == ASSUME Safe, LoadStrategy PROVE KeptInv'
  <1>1. /\ running /\ loadQ # << >> /\ loadQ' = << >> /\ layoutQ = << >> /\ spawnQ = << >>
        /\ UNCHANGED <<py, pend>>
    BY LoadIs DEF Safe
  <1>2. PICK f \in Files :
                 \/ UNCHANGED <<cpy, cside, ed, buffer, frag, loadedFor, layoutQ, spawnQ,
                                alloc, mixed>>
                 \/ /\ Loaded(f)
                    /\ ed' = [r \in Regions |-> None]
                    /\ spawnQ' \in Requests(DOMAIN Fragments(py[f]), py[f])
                 \/ /\ Loaded(f) /\ pend.asked = {}
                    /\ ~mixed' => Written(Merged) \subseteq pend.wins \intersect DOMAIN frag'
                    /\ UNCHANGED <<ed, layoutQ, spawnQ>>
    BY LoadIs DEF Safe
  <1>3. mixed => mixed'
    BY <1>2 DEF Loaded
  <1>4. SUFFICES ASSUME ~mixed' PROVE EditorsKept' /\ FragmentsKept' /\ SpawnsKept' /\ AskedComes'
    BY DEF KeptInv
  <1>5. /\ \A r \in Open : ~ed[r].dirty => Kept(ed[r].src, r)
        /\ FragmentsKept /\ SpawnsKept /\ AskedComes /\ ~mixed
    BY <1>1, <1>3, <1>4, ShownKept DEF Safe, KeptInv
  <1>6. CASE UNCHANGED <<cpy, ed, buffer, frag, layoutQ, spawnQ>>
    <2>1. orig' = orig /\ Open' = Open
      BY <1>6 DEF buffer, Open
    <2>2. EditorsKept' /\ SpawnsKept'
      BY <1>1, <1>5, <1>6, <2>1, KeptIs DEF EditorsKept, SpawnsKept
    <2>3. FragmentsKept' /\ AskedComes'
      BY <1>1, <1>5, <1>6, <2>1, KeptIs DEF FragmentsKept, AskedComes, Drained, Requested
    <2> QED
      BY <2>2, <2>3
  <1>7. ASSUME Loaded(f)
        PROVE  /\ FragmentsKept' /\ py[f] \in Source /\ frag' = Fragments(py[f])
               /\ \A r \in DOMAIN Fragments(py[f]) : \A t : t = py[f][r] => Kept(t, r)'
    <2>1. py[f] \in Source /\ py[f] # None /\ frag' = Fragments(py[f])
      BY <1>7 DEF Loaded
    <2>2. \A r, t : t = py[f][r] => OnDisk(t, r)'
      BY <1>1, <2>1 DEF OnDisk
    <2>3. \A r, t : t = py[f][r] => Kept(t, r)'
      BY <2>2 DEF Kept
    <2>4. \A r \in DOMAIN frag' : frag'[r] = py[f][r] \/ frag'[r] = Blank
      BY <2>1, FragmentsAre
    <2>5. FragmentsKept'
      BY <2>3, <2>4, BlankIs DEF FragmentsKept, Kept
    <2> QED
      BY <2>1, <2>3, <2>5
  <1>8. CASE /\ Loaded(f)
             /\ ed' = [r \in Regions |-> None]
             /\ spawnQ' \in Requests(DOMAIN Fragments(py[f]), py[f])
    <2>1. \A r \in Regions : ed'[r] = None
      BY <1>8
    <2>2. EditorsKept'
      BY <2>1 DEF EditorsKept, Open
    <2>3. \A i \in DOMAIN spawnQ' : /\ spawnQ'[i].key \in DOMAIN Fragments(py[f])
                                    /\ spawnQ'[i].src = py[f][spawnQ'[i].key]
      BY <1>7, <1>8, SourceRequests
    <2>4. SpawnsKept'
      BY <1>7, <1>8, <2>3 DEF SpawnsKept
    <2>5. \A r \in DOMAIN Fragments(py[f]) : Requested(r)'
      <3>1. \A r \in DOMAIN Fragments(py[f]) : \E i \in DOMAIN spawnQ' : spawnQ'[i].key = r
        BY <1>7, <1>8, SourceRequests
      <3> QED
        BY <3>1 DEF Requested
    <2>6. AskedComes'
      BY <1>7, <1>8, <2>5 DEF AskedComes
    <2> QED
      BY <1>7, <1>8, <2>2, <2>4, <2>6
  <1>9. CASE /\ Loaded(f) /\ pend.asked = {}
             /\ ~mixed' => Written(Merged) \subseteq pend.wins \intersect DOMAIN frag'
             /\ UNCHANGED <<ed, layoutQ, spawnQ>>
    <2>1. DOMAIN spawnQ' = {} /\ layoutQ' = << >> /\ Open' = Open
      BY <1>1, <1>9 DEF Open
    <2>2. SpawnsKept'
      BY <2>1 DEF SpawnsKept
    <2>3. AskedComes'
      BY <1>1, <1>9 DEF AskedComes
    <2>4. ASSUME NEW r \in Open PROVE ed[r].src = Blank \/ Refill(r)'
      <3>1. Merged[r] = ed[r].src /\ r \in Regions
        BY MergedIs DEF Safe, TypeInv
      <3>2. Merged[r] # Blank => r \in Written(Merged)
        BY <3>1, MergedIs DEF Safe, TypeInv, Written, Source
      <3>3. r \in Written(Merged) => r \in pend'.wins \intersect DOMAIN frag'
        BY <1>1, <1>4, <1>9
      <3> QED
        BY <1>1, <2>1, <3>1, <3>2, <3>3 DEF Refill
    <2>5. EditorsKept'
      BY <1>9, <2>1, <2>4, BlankIs DEF EditorsKept, Kept
    <2> QED
      BY <1>7, <1>9, <2>2, <2>3, <2>5
  <1> QED
    BY <1>2, <1>6, <1>8, <1>9

LEMMA KeptPending == ASSUME Safe, ApplyPending PROVE KeptInv'
  <1>1. UNCHANGED <<py, cpy, orig, layoutQ, loadQ, mixed>>
    BY PendingIs DEF Safe, disk, buffer
  <1>2. SUFFICES ASSUME ~mixed PROVE EditorsKept' /\ FragmentsKept' /\ SpawnsKept' /\ AskedComes'
    BY <1>1 DEF KeptInv
  <1>3. EditorsKept /\ FragmentsKept /\ SpawnsKept /\ AskedComes
    BY <1>2 DEF Safe, KeptInv
  <1>4. /\ \A r \in Regions : r \notin pend.wins \intersect Open \intersect DOMAIN frag
                                    => ed'[r] = ed[r]
        /\ \A r \in pend.wins \intersect Open \intersect DOMAIN frag :
              ed'[r] # None /\ ed'[r].src = frag[r]
        /\ DOMAIN frag' = DOMAIN frag \ (pend.wins \intersect Open)
        /\ \A r \in DOMAIN frag' : frag'[r] = frag[r]
        /\ pend'.wins = pend.wins \ Open
        /\ pend.wins \ Open # {} => pend'.asked = pend.asked \union (pend.wins \ Open)
    BY PendingIs DEF Safe
  <1>5. (pend.wins \ Open) \ pend.asked \in SUBSET Regions
    BY DEF Safe, TypeInv, WindowType, Layouts
  <1>6. PICK asks \in Requests((pend.wins \ Open) \ pend.asked, Undrained) : spawnQ' = spawnQ \o asks
    BY PendingIs DEF Safe
  <1>7. /\ asks \in Seq(SpawnRequests)
        /\ \A i \in DOMAIN asks : asks[i].key \in (pend.wins \ Open) \ pend.asked /\ asks[i].src = None
        /\ \A r \in (pend.wins \ Open) \ pend.asked : \E i \in DOMAIN asks : asks[i].key = r
    BY <1>5, UndrainedAre
  <1>8. /\ \A i \in DOMAIN spawnQ' : (\E j \in DOMAIN spawnQ : spawnQ'[i] = spawnQ[j])
                                     \/ \E j \in DOMAIN asks : spawnQ'[i] = asks[j]
        /\ \A j \in DOMAIN spawnQ : \E i \in DOMAIN spawnQ' : spawnQ'[i] = spawnQ[j]
        /\ \A j \in DOMAIN asks : \E i \in DOMAIN spawnQ' : spawnQ'[i] = asks[j]
    <2>1. spawnQ \in Seq(SpawnRequests)
      BY DEF Safe, TypeInv, MessageType
    <2>2. asks \in Seq(SpawnRequests)
      BY <1>7
    <2>3. \A i \in DOMAIN (spawnQ \o asks) :
             (\E j \in DOMAIN spawnQ : (spawnQ \o asks)[i] = spawnQ[j])
             \/ \E j \in DOMAIN asks : (spawnQ \o asks)[i] = asks[j]
      BY <2>1, <2>2, GrownIs
    <2>4. /\ \A j \in DOMAIN spawnQ : \E i \in DOMAIN (spawnQ \o asks) : (spawnQ \o asks)[i] = spawnQ[j]
          /\ \A j \in DOMAIN asks : \E i \in DOMAIN (spawnQ \o asks) : (spawnQ \o asks)[i] = asks[j]
      BY <2>1, <2>2, GrownIs
    <2> QED
      BY <1>6, <2>3, <2>4
  <1>9. SpawnsKept'
    BY <1>1, <1>3, <1>7, <1>8, KeptIs DEF SpawnsKept
  <1>10. ASSUME NEW r, Drained(r)' PROVE Drained(r) \/ r \in pend.wins
    BY <1>7, <1>8, <1>10 DEF Drained
  <1>11. FragmentsKept'
    BY <1>1, <1>3, <1>4, <1>10, KeptIs DEF FragmentsKept
  <1>12. Open' = Open
    <2>1. \A r \in Regions : ed'[r] # None <=> ed[r] # None
      BY <1>4 DEF Open
    <2> QED
      BY <2>1 DEF Open
  <1>13. ASSUME NEW r \in Open, ~ed'[r].dirty PROVE Kept(ed'[r].src, r)
    <2>1. r \in Regions
      BY DEF Open
    <2>2. CASE r \in pend.wins \intersect Open \intersect DOMAIN frag
      BY <1>3, <1>4, <2>2 DEF FragmentsKept
    <2>3. CASE r \notin pend.wins \intersect Open \intersect DOMAIN frag
      <3>1. ed'[r] = ed[r] /\ ~Refill(r)
        BY <1>4, <2>1, <2>3 DEF Refill
      <3> QED
        BY <1>3, <1>13, <3>1 DEF EditorsKept
    <2> QED
      BY <2>2, <2>3
  <1>14. EditorsKept'
    BY <1>1, <1>12, <1>13, KeptIs DEF EditorsKept
  <1>15. ASSUME NEW r \in (pend'.wins \intersect DOMAIN frag') \ Open', r \in pend'.asked
         PROVE  Requested(r)'
    <2>1. r \in pend.wins \ Open /\ r \in DOMAIN frag
      BY <1>4, <1>15
    <2>2. CASE r \in pend.asked
      <3>1. Requested(r)
        BY <1>3, <2>1, <2>2 DEF AskedComes
      <3> QED
        BY <1>8, <3>1 DEF Requested
    <2>3. CASE r \notin pend.asked
      <3>1. \E j \in DOMAIN asks : asks[j].key = r
        BY <1>7, <2>1, <2>3
      <3> QED
        BY <1>8, <3>1 DEF Requested
    <2> QED
      BY <2>2, <2>3
  <1>16. AskedComes'
    BY <1>15 DEF AskedComes
  <1> QED
    BY <1>9, <1>11, <1>14, <1>16

LEMMA KeptEnds == ASSUME Safe, Crash \/ CloseWindow \/ Restart PROVE KeptInv'
  <1>1. CASE Crash \/ CloseWindow
    <2>1. Gone
      BY <1>1, ExitIs DEF Safe
    <2>2. Open' = {} /\ DOMAIN frag' = {} /\ DOMAIN spawnQ' = {}
      BY <2>1 DEF Gone, Open, NoFrag
    <2> QED
      BY <2>2 DEF KeptInv, EditorsKept, FragmentsKept, SpawnsKept, AskedComes
  <1>2. CASE Restart
    <2>1. /\ ~running
          /\ UNCHANGED <<py, cpy, ed>>
          /\ \/ \E wins, asked : Restored(wins, asked)
             \/ UNCHANGED <<pending, spawnQ>>
      BY <1>2, RestartIs DEF Safe, disk
    <2>2. /\ ed = [r \in Regions |-> None] /\ frag = NoFrag /\ spawnQ = << >>
      BY <2>1 DEF Safe, LoadInv, Down
    <2>3. Open' = {}
      BY <2>1, <2>2 DEF Open
    <2>4. CASE UNCHANGED <<pending, spawnQ>>
      <3>1. DOMAIN frag' = {} /\ DOMAIN spawnQ' = {}
        BY <2>2, <2>4 DEF pending, NoFrag
      <3> QED
        BY <2>3, <3>1 DEF KeptInv, EditorsKept, FragmentsKept, SpawnsKept, AskedComes
    <2>5. ASSUME NEW wins, NEW asked, Restored(wins, asked) PROVE KeptInv'
      <3>1. /\ cpy # None /\ cpy \in Source /\ frag' = Fragments(cpy)
            /\ asked \in SUBSET Regions /\ spawnQ' \in Requests(asked, Undrained)
            /\ pend'.asked = asked
        BY <2>5 DEF Restored
      <3>2. /\ \A i \in DOMAIN spawnQ' : spawnQ'[i].src = None
            /\ \A r \in asked : \E i \in DOMAIN spawnQ' : spawnQ'[i].key = r
        BY <3>1, UndrainedAre
      <3>3. \A r, t : t = cpy[r] => Kept(t, r)'
        BY <2>1, <3>1 DEF Kept, OnDisk
      <3>4. \A r \in DOMAIN frag' : frag'[r] = cpy[r] \/ frag'[r] = Blank
        BY <3>1, FragmentsAre
      <3>5. FragmentsKept'
        BY <3>3, <3>4, BlankIs DEF FragmentsKept, Kept
      <3>6. SpawnsKept' /\ AskedComes' /\ EditorsKept'
        BY <2>3, <3>1, <3>2 DEF SpawnsKept, AskedComes, EditorsKept, Requested
      <3> QED
        BY <3>5, <3>6 DEF KeptInv
    <2> QED
      BY <2>1, <2>4, <2>5
  <1> QED
    BY <1>1, <1>2

LEMMA KeptStep == ASSUME Safe, [Next]_vars PROVE KeptInv'
  <1>1. 1 \in Regions
    BY FilesAssumption DEF Regions
  <1>2. CASE Save
    <2>1. orig \in Files
      BY <1>2 DEF Save, Safe, TypeInv, StateType, Owners
    <2> QED
      BY <1>2, <2>1, KeptSave
  <1> QED
    BY <1>1, <1>2, Steps, KeptEdit, KeptDispatch, KeptAutosave, KeptSave, KeptChoose,
       KeptLayout, KeptLoad, KeptPending, KeptEnds

LEMMA KeptEnough == Safe => NothingLost
  <1> SUFFICES ASSUME Safe, Settled, ~mixed, NEW r \in Open,
                      ed[r].src.n > 0, ~ed[r].dirty, ed[r].src.of = orig
               PROVE  OnDisk(ed[r].src, r)
    BY DEF NothingLost
  <1>1. Kept(ed[r].src, r)
    BY ShownKept
  <1> QED
    BY <1>1 DEF Kept

-----------------------------------------------------------------------------
(* What was there when the application ended comes back                    *)

LEMMA ArrivedIs ==
    ASSUME TypeInv, Restoring, running, left # None, Settled, Written(left.text) # {}
    PROVE  orig = left.orig /\ Open = left.open /\ Merged = left.text
  <1>1. OnItsWay /\ Written(left.text) \subseteq left.open
    BY DEF Restoring
  <1>2. spawnQ = << >>
    BY SettledIs
  <1>3. Open = left.open
    <2>1. \A r \in left.open \ Open : Requested(r)
      BY <1>1 DEF OnItsWay
    <2>2. \A r : ~Requested(r)
      BY <1>2 DEF Requested
    <2> QED
      BY <1>1, <2>1, <2>2 DEF OnItsWay
  <1>4. left.text \in Source
    BY DEF TypeInv, HistoryType, Ended
  <1>5. ASSUME NEW r \in Regions PROVE Merged[r] = left.text[r]
    <2>1. CASE r \in Open
      BY <1>1, <2>1, MergedIs DEF TypeInv, OnItsWay
    <2>2. CASE r \notin Open
      <3>1. r \notin Written(left.text)
        BY <1>1, <1>3, <2>2
      <3> QED
        BY <1>4, <2>2, <3>1, MergedIs, FragmentsAre DEF TypeInv
    <2> QED
      BY <2>1, <2>2
  <1>6. Merged = left.text
    <2>1. Merged \in [Regions -> Text] /\ left.text \in [Regions -> Text]
      BY <1>4, MergedIs DEF TypeInv, Source
    <2> QED
      BY <1>5, <2>1
  <1> QED
    BY <1>1, <1>3, <1>6 DEF OnItsWay

LEMMA RestoreRests ==
    ASSUME Restoring,
           UNCHANGED <<running, cpy, cside, ed, orig, saDirty, laDirty, pend, frag,
                       layoutQ, loadQ, spawnQ, left>>
    PROVE  Restoring'
  <1>1. Open' = Open /\ \A s : Written(s)' = Written(s)
    BY DEF Open, Written, Blank
  <1> QED
    BY <1>1 DEF Restoring, OnItsWay, Coming, Requested, Written, Blank

LEMMA RestoreForgets == ASSUME left' = None PROVE Restoring'
  BY DEF Restoring

LEMMA RestoreDispatch == ASSUME TypeInv, Restoring, Dispatch PROVE Restoring'
  <1>1. /\ running /\ spawnQ # << >> /\ spawnQ' = Tail(spawnQ)
        /\ UNCHANGED <<running, orig, saDirty, laDirty, pend, layoutQ, loadQ, left>>
        /\ spawnQ[1] \in SpawnRequests
        /\ \/ UNCHANGED <<ed, frag>> /\ spawnQ[1].key = 0
           \/ \E r \in Regions : Dispatched(spawnQ[1], r)
    BY DispatchIs
  <1>2. SUFFICES ASSUME left # None, Written(left.text) # {} PROVE OnItsWay'
    BY <1>1 DEF Restoring, Written, Blank
  <1>3. OnItsWay
    BY <1>1, <1>2 DEF Restoring
  <1>4. left.open \subseteq Regions /\ 0 \notin Regions
    BY <1>2 DEF TypeInv, HistoryType, Ended, Regions
  <1>5. /\ 1 \in DOMAIN spawnQ
        /\ \A i \in DOMAIN spawnQ' : /\ i + 1 \in DOMAIN spawnQ /\ spawnQ'[i] = spawnQ[i + 1]
                                     /\ i + 1 # 1
        /\ \A i \in DOMAIN spawnQ : i # 1 => i - 1 \in DOMAIN spawnQ' /\ spawnQ'[i - 1] = spawnQ[i]
        /\ \A i \in DOMAIN spawnQ' : i \in Nat
    BY <1>1, TailIs DEF TypeInv, MessageType
  <1>6. spawnQ[1].src = None /\ spawnQ[1].key \in left.open \ Open
    BY <1>3, <1>5 DEF OnItsWay
  <1>7. PICK r \in Regions : Dispatched(spawnQ[1], r)
    BY <1>1, <1>4, <1>6
  <1>8. /\ spawnQ[1].key = r /\ r \in left.open \ Open /\ Coming(r) \in Text
        /\ ed' = [ed EXCEPT ![r] = [src |-> Coming(r), dirty |-> FALSE]]
        /\ frag' = [k \in DOMAIN frag \ {r} |-> frag[k]]
    BY <1>6, <1>7 DEF Dispatched
  <1>9. /\ ed'[r].src = left.text[r] /\ ed'[r] # None
        /\ \A k \in Regions : k # r => ed'[k] = ed[k]
    <2>1. Coming(r) = left.text[r]
      BY <1>3, <1>8 DEF OnItsWay
    <2> QED
      BY <1>8, <2>1, EditorIs DEF TypeInv, WindowType
  <1>10. Open' = Open \union {r}
    BY <1>9 DEF Open
  <1>11. \A k \in Open' : ed'[k].src = left.text[k] /\ k \notin DOMAIN frag'
    <2>1. ASSUME NEW k \in Open' PROVE ed'[k].src = left.text[k] /\ k \notin DOMAIN frag'
      <3>1. CASE k = r
        BY <1>8, <1>9, <3>1
      <3>2. CASE k # r
        <4>1. k \in Open /\ k \in Regions
          BY <1>10, <3>2 DEF Open
        <4> QED
          BY <1>3, <1>8, <1>9, <3>2, <4>1 DEF OnItsWay
      <3> QED
        BY <3>1, <3>2
    <2> QED
      BY <2>1
  <1>12. ASSUME NEW k \in left.open \ Open' PROVE Coming(k)' = left.text[k] /\ Requested(k)'
    <2>1. k # r /\ k \in left.open \ Open
      BY <1>10, <1>12
    <2>2. Coming(k)' = Coming(k)
      BY <1>8, <2>1 DEF Coming, Blank
    <2>3. Coming(k) = left.text[k] /\ Requested(k)
      BY <1>3, <2>1 DEF OnItsWay
    <2>4. PICK i \in DOMAIN spawnQ : spawnQ[i].key = k
      BY <2>3 DEF Requested
    <2>5. i # 1
      BY <1>8, <2>1, <2>4
    <2>6. Requested(k)'
      BY <1>5, <2>4, <2>5 DEF Requested
    <2> QED
      BY <2>2, <2>3, <2>6
  <1>13. ASSUME NEW i \in DOMAIN spawnQ'
         PROVE  spawnQ'[i].src = None /\ spawnQ'[i].key \in left.open \ Open'
    <2>1. i + 1 \in DOMAIN spawnQ /\ spawnQ'[i] = spawnQ[i + 1] /\ i + 1 # 1
      BY <1>5
    <2>2. spawnQ[i + 1].src = None /\ spawnQ[i + 1].key \in left.open \ Open
          /\ spawnQ[i + 1].key # spawnQ[1].key
      BY <1>3, <1>5, <2>1 DEF OnItsWay
    <2> QED
      BY <1>8, <1>10, <2>1, <2>2
  <1>14. ASSUME NEW i \in DOMAIN spawnQ', NEW j \in DOMAIN spawnQ', i # j
         PROVE  spawnQ'[i].key # spawnQ'[j].key
    <2>1. /\ i + 1 \in DOMAIN spawnQ /\ spawnQ'[i] = spawnQ[i + 1]
          /\ j + 1 \in DOMAIN spawnQ /\ spawnQ'[j] = spawnQ[j + 1]
          /\ i \in Nat /\ j \in Nat
      BY <1>5
    <2>2. i + 1 # j + 1
      BY <1>14, <2>1
    <2> QED
      BY <1>3, <2>1, <2>2 DEF OnItsWay
  <1>15. /\ orig' = left'.orig /\ ~saDirty' /\ ~laDirty' /\ layoutQ' = << >> /\ loadQ' = << >>
         /\ Open' \subseteq left'.open /\ pend'.wins \subseteq pend'.asked
    BY <1>1, <1>3, <1>8, <1>10 DEF OnItsWay
  <1> QED
    BY <1>1, <1>11, <1>12, <1>13, <1>14, <1>15 DEF OnItsWay

LEMMA RestorePending == ASSUME TypeInv, Restoring, ApplyPending PROVE Restoring'
  <1>1. running /\ UNCHANGED <<running, orig, saDirty, laDirty, layoutQ, loadQ, left>>
    BY PendingIs DEF buffer
  <1>2. SUFFICES ASSUME left # None, Written(left.text) # {} PROVE OnItsWay'
    BY <1>1 DEF Restoring, Written, Blank
  <1>3. OnItsWay
    BY <1>1, <1>2 DEF Restoring
  <1>4. pend.wins \subseteq pend.asked /\ Open \intersect DOMAIN frag = {}
    BY <1>3 DEF OnItsWay
  <1>5. PICK asks \in Requests((pend.wins \ Open) \ pend.asked, Undrained) : spawnQ' = spawnQ \o asks
    BY PendingIs
  <1>6. spawnQ' = spawnQ
    <2>1. (pend.wins \ Open) \ pend.asked = {}
      BY <1>4
    <2>2. asks \in Seq(SpawnRequests) /\ asks = << >>
      BY <1>5, <2>1, UndrainedAre
    <2> QED
      BY <1>5, <2>2, GrownIs DEF TypeInv, MessageType
  <1>7. \A r \in Regions : ed'[r] = ed[r]
    BY <1>4, PendingIs
  <1>8. Open' = Open
    BY <1>7 DEF Open
  <1>9. /\ DOMAIN frag' = DOMAIN frag \ (pend.wins \intersect Open)
        /\ \A r \in DOMAIN frag' : frag'[r] = frag[r]
        /\ pend'.wins \subseteq pend'.asked
    <2>1. /\ pend'.wins = pend.wins \ Open
          /\ pend'.asked = IF pend.wins \ Open = {} THEN {} ELSE pend.asked \union (pend.wins \ Open)
      BY PendingIs
    <2> QED
      BY <2>1, PendingIs
  <1>10. \A r \in left.open \ Open : Coming(r)' = Coming(r)
    BY <1>9 DEF Coming, Blank
  <1>11. \A r : Requested(r)' = Requested(r)
    BY <1>6 DEF Requested
  <1>12. Open \subseteq Regions
    BY DEF Open
  <1> QED
    BY <1>1, <1>3, <1>6, <1>7, <1>8, <1>9, <1>10, <1>11, <1>12 DEF OnItsWay

LEMMA RestoreExit == ASSUME TypeInv, CloseWindow \/ Crash PROVE Restoring'
  <1>1. ~running'
    BY ExitIs DEF Gone
  <1>2. SUFFICES ASSUME left' # None, Written(left'.text) # {}
                 PROVE  /\ Written(left'.text) \subseteq left'.open
                        /\ cpy' = left'.text /\ cside' = [path |-> left'.orig, wins |-> left'.open]
    BY <1>1 DEF Restoring, Written, Blank
  <1>3. PICK flushed \in BOOLEAN, laid \in BOOLEAN :
           /\ cpy' = IF flushed /\ cached /\ Written(Merged) # {} THEN Merged ELSE cpy
           /\ cside' = IF laid THEN [path |-> orig, wins |-> Open] ELSE cside
           /\ flushed /\ laid /\ cached
           /\ left' = [orig |-> orig, open |-> Open, text |-> Merged]
    BY <1>2, ExitIs
  <1>4. left'.orig = orig /\ left'.open = Open /\ left'.text = Merged
    BY <1>3
  <1>5. Written(Merged) \subseteq Open
    BY MergedIs DEF TypeInv
  <1> QED
    BY <1>2, <1>3, <1>4, <1>5

LEMMA RestoreRestart == ASSUME TypeInv, LoadInv, Restoring, Restart PROVE Restoring'
  <1>1. /\ ~running /\ running' = TRUE
        /\ UNCHANGED <<cpy, cside, ed, saDirty, laDirty, layoutQ, loadQ, left>>
        /\ \/ \E wins, asked : Restored(wins, asked)
           \/ ~CacheComplete
    BY RestartIs DEF disk
  <1>2. SUFFICES ASSUME left # None, Written(left.text) # {} PROVE OnItsWay'
    BY <1>1 DEF Restoring, Written, Blank
  <1>3. /\ Written(left.text) \subseteq left.open
        /\ cpy = left.text /\ cside = [path |-> left.orig, wins |-> left.open]
    BY <1>1, <1>2 DEF Restoring
  <1>4. left.text \in Source /\ left.open \in SUBSET Regions /\ left.orig \in Owners
    BY <1>2 DEF TypeInv, HistoryType, Ended
  <1>5. cside \in Sidecar /\ cside.wins = left.open /\ cside.path = left.orig
    BY <1>3, <1>4 DEF Sidecar
  <1>6. CacheComplete
    BY <1>3, <1>4, <1>5, NoneAssumption DEF CacheComplete
  <1>7. PICK wins, asked : Restored(wins, asked)
    BY <1>1, <1>6
  <1>8. wins = left.open /\ asked = left.open
    <2>1. left.open # None
      BY <1>4, NoneAssumption
    <2>2. wins = left.open
      BY <1>5, <1>7, <2>1 DEF Restored
    <2>3. left.open # {}
      BY <1>2, <1>3
    <2> QED
      BY <1>7, <2>2, <2>3 DEF Restored
  <1>9. /\ orig' = left.orig /\ frag' = Fragments(left.text)
        /\ pend'.wins = left.open /\ pend'.asked = left.open
        /\ spawnQ' \in Requests(left.open, Undrained)
    BY <1>3, <1>5, <1>7, <1>8 DEF Restored
  <1>10. /\ ed = [r \in Regions |-> None] /\ ~saDirty /\ ~laDirty
         /\ layoutQ = << >> /\ loadQ = << >>
    BY <1>1 DEF LoadInv, Down
  <1>11. Open' = {}
    BY <1>1, <1>10 DEF Open
  <1>12. /\ \A i \in DOMAIN spawnQ' : spawnQ'[i].key \in left.open /\ spawnQ'[i].src = None
         /\ \A r \in left.open : \E i \in DOMAIN spawnQ' : spawnQ'[i].key = r
         /\ \A i, j \in DOMAIN spawnQ' : i # j => spawnQ'[i].key # spawnQ'[j].key
    BY <1>4, <1>9, UndrainedAre
  <1>13. ASSUME NEW r \in left.open PROVE Coming(r)' = left.text[r] /\ Requested(r)'
    <2>1. DOMAIN frag' = Written(left.text)
          /\ \A k \in DOMAIN frag' : frag'[k] = left.text[k]
      BY <1>2, <1>4, <1>9, FragmentsAre
    <2>2. r \notin Written(left.text) => left.text[r] = Blank
      BY <1>4, FragmentsAre
    <2>3. Coming(r)' = left.text[r]
      BY <2>1, <2>2 DEF Coming, Blank
    <2>4. Requested(r)'
      BY <1>12 DEF Requested
    <2> QED
      BY <2>3, <2>4
  <1> QED
    BY <1>1, <1>9, <1>10, <1>11, <1>12, <1>13 DEF OnItsWay

LEMMA RestoreStep == ASSUME TypeInv, LoadInv, Restoring, [Next]_vars PROVE Restoring'
  <1>1. ASSUME NEW r \in Regions, Type(r) \/ CloseEditor(r) \/ AskEditor PROVE Restoring'
    BY <1>1, RestoreForgets DEF Type, CloseEditor, AskEditor
  <1>2. ASSUME NEW f \in Files, SaveAs(f) \/ ChooseFile(f) \/ Save PROVE Restoring'
    BY <1>2, RestoreForgets DEF SaveAs, ChooseFile, Save
  <1>3. CASE CancelDialog \/ (\E kind \in {"load", "saveas"} : OpenDialog(kind)) \/ UNCHANGED vars
    <2>1. UNCHANGED <<running, cpy, cside, ed, orig, saDirty, laDirty, pend, frag,
                       layoutQ, loadQ, spawnQ, left>>
      BY <1>3 DEF CancelDialog, OpenDialog, vars, disk, buffer, pending, queues
    <2> QED
      BY <2>1, RestoreRests
  <1>4. ASSUME running, left' = left, running' = running, ~OnItsWay PROVE Restoring'
    BY <1>4 DEF Restoring, Written, Blank
  <1>5. CASE StrategyAutosave
    BY <1>4, <1>5 DEF StrategyAutosave, OnItsWay
  <1>6. CASE LayoutAutosave
    BY <1>4, <1>6 DEF LayoutAutosave, OnItsWay
  <1>7. CASE ApplyLayout
    BY <1>4, <1>7 DEF ApplyLayout, OnItsWay
  <1>8. CASE LoadStrategy
    BY <1>4, <1>8 DEF LoadStrategy, OnItsWay
  <1>9. 1 \in Regions
    BY FilesAssumption DEF Regions
  <1>10. CASE Save
    <2>1. Restoring'
      BY <1>10, RestoreForgets DEF Save
    <2> QED
      BY <2>1
  <1> QED
    BY <1>1, <1>2, <1>3, <1>5, <1>6, <1>7, <1>8, <1>9, <1>10, Steps,
       RestoreDispatch, RestorePending, RestoreExit, RestoreRestart

-----------------------------------------------------------------------------
(* The theorems on the strategy files                                      *)

LEMMA FilesStep == FilesInv /\ [Next]_vars => FilesInv'
  <1> SUFFICES ASSUME FilesInv, [Next]_vars PROVE FilesInv'
    OBVIOUS
  <1>1. TypeInv /\ LoadInv /\ OwnInv /\ SavedIsOwn /\ KeptInv /\ Restoring
    BY DEF FilesInv
  <1>2. TypeInv' /\ LoadInv'
    BY <1>1, TypeStep, LoadStep
  <1>3. OwnInv' /\ SavedIsOwn'
    BY <1>1, OwnStep DEF Mine
  <1>4. KeptInv'
    BY <1>1, KeptStep DEF Safe
  <1>5. Restoring'
    BY <1>1, RestoreStep
  <1> QED
    BY <1>2, <1>3, <1>4, <1>5 DEF FilesInv

LEMMA FilesAlways == Spec => []FilesInv
  BY FilesInit, FilesStep, PTL DEF Spec

\* Whatever a person opens, saves under another name or closes in the middle of
\* a load, and whichever write of layout_persistence.rs or
\* strategy_file_loader.rs fails: a strategy file never gets code of a
\* strategy that was not saved under its name, outside the steps `mixed` marks.
THEOREM FilesAlwaysOwn == Spec => []SavedIsOwn
  <1>1. FilesInv => SavedIsOwn
    BY DEF FilesInv
  <1> QED
    BY <1>1, FilesAlways, PTL

\* What the editors show of the strategy at hand without an unsaved mark is in
\* a file: strategy_autosave.rs and the saves drop the mark only after the write.
THEOREM CleanAlwaysOnDisk == Spec => []NothingLost
  <1>1. FilesInv => NothingLost
    BY KeptEnough DEF FilesInv, Safe
  <1> QED
    BY <1>1, FilesAlways, PTL

\* save_layout_on_window_close and apply_cache_restore_system are each other's
\* inverse: the restored windows, spawned one by one from the fragments, end
\* with the texts that were there.
THEOREM RestartAlwaysRestores == Spec => []RestartRestores
  <1>1. FilesInv => RestartRestores
    BY ArrivedIs DEF FilesInv, RestartRestores
  <1> QED
    BY <1>1, FilesAlways, PTL
=============================================================================
