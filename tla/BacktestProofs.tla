--------------------------- MODULE BacktestProofs ---------------------------
(***************************************************************************)
(* A backtest: what the sidebar shows is what was loaded and edited, and   *)
(* what a run gets, for any instruments, end dates and strategies and any  *)
(* contents of their sidecars; and the controls of the runs that are       *)
(* started, for any number of runs, bars and commands.                     *)
(***************************************************************************)
EXTENDS ScenarioSync, ReplayRun, Integers, TLAPS

Sidecars == [kind : {"none", "inline", "ref"}, ids : SUBSET Ids, end : Ends \union {None}]

TypeInv ==
    /\ file \in [Paths -> Sidecars]
    /\ \A p \in Paths : HasScenario(p) => file[p].end \in Ends
    /\ orig \in Files \union {None} /\ copying \in Files \union {None}
    /\ target \in Paths \union {None}
    /\ watch \in [path : Paths \union {None}, fresh : BOOLEAN]
    /\ scen \in [ids : SUBSET Ids, end : Ends \union {None}]
    /\ reg \in [ids : SUBSET Ids, editable : BOOLEAN]
    /\ touched \in BOOLEAN /\ dirty \in BOOLEAN /\ trigger \in BOOLEAN
    /\ mode \in Modes /\ prevMode \in Modes \union {None}
    /\ avail \in [Ends -> Universe] /\ live \in Universe
    /\ wanted \in SUBSET Ids
    /\ theirs \in BOOLEAN /\ rewritten \in BOOLEAN /\ crossed \in BOOLEAN
    /\ refused \in BOOLEAN /\ moved \in BOOLEAN
    /\ sent \in [ids : SUBSET Ids, shown : SUBSET Ids, editable : BOOLEAN]
    /\ ops \in Nat

\* A strategy that is still to be copied is the one that is read.
CopyIsTarget == copying # None => copying = target

\* What has been read is out of date only for a reason that is known.
ReadAgain == ~theirs /\ ~rewritten => watch = [path |-> target, fresh |-> TRUE]

\* A list that is neither touched nor dirty is in the metadata.
MetadataFollows == reg.editable /\ ~touched /\ ~dirty => scen.ids = reg.ids

InUniverse(sc) ==
    IF avail[sc.end] = None THEN sc.ids ELSE sc.ids \intersect avail[sc.end]

\* A locked list that was read in Replay mode is what the file lists, or will
\* be, once the next chain prunes it.
LockedFollows ==
    /\ watch = [path |-> target, fresh |-> TRUE] /\ prevMode = "Replay"
    /\ ~refused /\ ~moved /\ target # None /\ ~reg.editable
    => /\ scen.end \in Ends /\ scen.ids = file[target].ids
       /\ \/ reg.ids = InUniverse(scen)
          \/ trigger /\ reg.ids = scen.ids

ScenarioInv ==
    /\ TypeInv
    /\ CopyIsTarget /\ ReadAgain /\ MetadataFollows /\ LockedFollows
    /\ EditsAreKept /\ RunsWhatIsShown

-----------------------------------------------------------------------------
(* The systems of the chain, one after the other                           *)

Watches == [path : Paths \union {None}, fresh : BOOLEAN]
Lists == [ids : SUBSET Ids, editable : BOOLEAN]
Metadata == [ids : SUBSET Ids, end : Ends \union {None}]
Readings == {"same", "refused", "cleared", "loaded"}

Chains == [watch : Watches, scen : Metadata, reg : Lists, touched : BOOLEAN,
           dirty : BOOLEAN, prune : BOOLEAN, trigger : BOOLEAN,
           cache : Sidecars, read : Readings]

Read == [path |-> target, fresh |-> TRUE]

LEMMA NamesApart ==
    /\ None \notin Paths /\ None \notin Ends /\ Cache \in Paths /\ Cache # None
    /\ Cache \notin Files /\ Files \subseteq Paths
  BY ScenarioAssumption DEF Paths

LEMMA ChainIs ==
    ASSUME TypeInv
    PROVE  /\ Chain \in Chains
           /\ Chain.watch = watch /\ Chain.scen = scen /\ Chain.reg = reg
           /\ Chain.touched = touched /\ Chain.dirty = dirty /\ Chain.prune = trigger
           /\ Chain.trigger = FALSE /\ Chain.cache = file[Cache] /\ Chain.read = "same"
  <1>1. file[Cache] \in Sidecars
    BY NamesApart DEF TypeInv
  <1> QED
    BY <1>1 DEF Chain, Chains, Watches, Lists, Metadata, Readings, TypeInv

\* What the reading leaves in the metadata, and that it has read.
LEMMA ParseIs ==
    ASSUME TypeInv, NEW found \in BOOLEAN, NEW p, p = Parse(Chain, found)
    PROVE  /\ p \in Chains /\ p.watch = Read
           /\ p.reg = reg /\ p.touched = touched /\ p.dirty = dirty
           /\ p.trigger = FALSE /\ p.cache = file[Cache]
           /\ p.read = "same" <=> watch = Read
           /\ p.read \in {"same", "refused"} => p.scen = scen /\ p.prune = trigger
           /\ p.read = "cleared" => p.scen = NoMetadata /\ p.prune
           /\ p.read = "loaded" => /\ target \in Paths /\ HasScenario(target)
                                   /\ p.scen = MetadataOf(target) /\ p.prune
  <1> DEFINE c == Chain
  <1>1. /\ c \in Chains
        /\ c.watch = watch /\ c.scen = scen /\ c.reg = reg
        /\ c.touched = touched /\ c.dirty = dirty /\ c.prune = trigger
        /\ c.trigger = FALSE /\ c.cache = file[Cache] /\ c.read = "same"
    BY ChainIs
  <1> HIDE DEF c
  <1>2. Read \in Watches
    BY DEF Read, Watches, TypeInv
  <1>3. NoMetadata \in Metadata
    BY DEF NoMetadata, Metadata
  <1>4. CASE Outcome(found) = "same"
    <2>1. p = c /\ watch = Read
      BY <1>4 DEF Parse, c, Outcome, Read
    <2> QED
      BY <1>1, <2>1
  <1>5. CASE Outcome(found) = "refused"
    <2> watch # Read
      BY <1>5 DEF Outcome, Read
    <2>1. p = [c EXCEPT !.read = "refused", !.watch = Read]
      BY <1>5 DEF Parse, c, Read
    <2> QED
      BY <1>1, <1>2, <2>1 DEF Chains, Readings
  <1>6. CASE Outcome(found) = "cleared"
    <2> watch # Read
      BY <1>6 DEF Outcome, Read
    <2>1. p = [[c EXCEPT !.read = "cleared", !.watch = Read]
                  EXCEPT !.scen = NoMetadata, !.prune = TRUE]
      BY <1>6 DEF Parse, c, Read
    <2> QED
      BY <1>1, <1>2, <1>3, <2>1 DEF Chains, Readings
  <1>7. CASE Outcome(found) = "loaded"
    <2> watch # Read
      BY <1>7 DEF Outcome, Read
    <2>1. p = [[c EXCEPT !.read = "loaded", !.watch = Read]
                  EXCEPT !.scen = MetadataOf(target), !.prune = TRUE]
      BY <1>7 DEF Parse, c, Read
    <2>2. target \in Paths /\ HasScenario(target)
      BY <1>7 DEF Outcome, TypeInv
    <2>3. MetadataOf(target) \in Metadata
      BY <2>2 DEF MetadataOf, Metadata, Sidecars, TypeInv
    <2> QED
      BY <1>1, <1>2, <2>1, <2>2, <2>3 DEF Chains, Readings
  <1> QED
    BY <1>4, <1>5, <1>6, <1>7 DEF Outcome

Told(s) == s.read \in {"cleared", "loaded"}

\* The list is what was read, if something was.
LEMMA SyncIs ==
    ASSUME TypeInv, NEW p \in Chains, NEW q, q = SyncRegistry(p),
           p.read = "cleared" => p.scen.ids = {}
    PROVE  /\ q \in Chains
           /\ q.watch = p.watch /\ q.scen = p.scen /\ q.read = p.read
           /\ q.prune = p.prune /\ q.trigger = p.trigger /\ q.cache = p.cache
           /\ Told(p) => q.reg.ids = p.scen.ids /\ q.touched
           /\ ~Told(p) => q = p
           /\ p.read = "cleared" => q.reg.editable
  <1>1. p.scen.ids \in SUBSET Ids /\ p.read \in Readings
    BY DEF Chains, Metadata
  <1>2. CASE p.read = "loaded"
    <2>1. PICK b \in BOOLEAN : b = (file[target].kind = "inline")
      BY Zenon
    <2>2. PICK l \in Lists : l = [ids |-> p.scen.ids, editable |-> b]
      BY <1>1 DEF Lists
    <2>3. q = [p EXCEPT !.reg = l, !.dirty = FALSE, !.touched = TRUE]
      BY <1>2, <2>1, <2>2, Zenon DEF SyncRegistry
    <2>4. l.ids = p.scen.ids
      BY <2>2
    <2>5. /\ q \in Chains /\ q.reg = l /\ q.touched
          /\ q.watch = p.watch /\ q.scen = p.scen /\ q.read = p.read
          /\ q.prune = p.prune /\ q.trigger = p.trigger /\ q.cache = p.cache
      BY <2>3, <1>1 DEF Chains
    <2>6. q.reg.ids = p.scen.ids
      BY <2>4, <2>5
    <2> QED
      BY <1>2, <2>5, <2>6 DEF Told
  <1>3. CASE p.read = "cleared"
    <2>1. PICK l \in Lists : l = [ids |-> {}, editable |-> TRUE]
      BY DEF Lists
    <2>2. q = [p EXCEPT !.reg = l, !.dirty = FALSE, !.touched = TRUE]
      BY <1>3, <2>1, Zenon DEF SyncRegistry
    <2>3. l.ids = {} /\ l.editable
      BY <2>1
    <2>4. /\ q \in Chains /\ q.reg = l /\ q.touched
          /\ q.watch = p.watch /\ q.scen = p.scen /\ q.read = p.read
          /\ q.prune = p.prune /\ q.trigger = p.trigger /\ q.cache = p.cache
      BY <2>2, <1>1 DEF Chains
    <2>5. q.reg.ids = {} /\ q.reg.editable
      BY <2>3, <2>4
    <2> QED
      BY <1>3, <2>4, <2>5 DEF Told
  <1>4. CASE p.read \notin {"loaded", "cleared"}
    BY <1>4 DEF SyncRegistry, Told
  <1> QED
    BY <1>2, <1>3, <1>4

\* The prune keeps of the list what the universe has, and says so.
LEMMA PruneIs ==
    ASSUME TypeInv, NEW p \in Chains, NEW q, q = Prune(p)
    PROVE  /\ q \in Chains
           /\ q.watch = p.watch /\ q.scen = p.scen /\ q.read = p.read
           /\ q.prune = p.prune /\ q.trigger = p.trigger /\ q.cache = p.cache
           /\ q.dirty = p.dirty /\ q.reg.editable = p.reg.editable
           /\ q.reg.ids = Pruned(p, p.reg.ids)
           /\ p.touched => q.touched
           /\ ~q.touched => q.reg.ids = p.reg.ids
  <1>1. p.reg \in Lists /\ p.reg.ids \in SUBSET Ids
    BY DEF Chains, Lists
  <1>2. Pruned(p, p.reg.ids) \in SUBSET Ids
    BY <1>1 DEF Pruned
  <1>3. CASE p.reg.ids = {}
    BY <1>3 DEF Prune, Pruned
  <1>4. CASE p.reg.ids # {}
    <2>1. PICK b \in BOOLEAN :
             b = (p.touched \/ (p.prune /\ Allowed(p.scen) # None))
      BY Zenon
    <2>2. q = [p EXCEPT !.reg.ids = Pruned(p, p.reg.ids), !.touched = b]
      BY <1>4, <2>1, Zenon DEF Prune
    <2>3. q \in Chains
      BY <1>1, <1>2, <2>2 DEF Chains, Lists
    <2>4. /\ q.watch = p.watch /\ q.scen = p.scen /\ q.read = p.read
          /\ q.prune = p.prune /\ q.trigger = p.trigger /\ q.cache = p.cache
          /\ q.dirty = p.dirty /\ q.reg.editable = p.reg.editable
          /\ q.reg.ids = Pruned(p, p.reg.ids) /\ q.touched = b
      BY <1>1, <2>2 DEF Chains, Lists
    <2>5. ~b => Pruned(p, p.reg.ids) = p.reg.ids
      BY <2>1 DEF Pruned
    <2>6. p.touched => b
      BY <2>1
    <2> QED
      BY <2>3, <2>4, <2>5, <2>6
  <1> QED
    BY <1>3, <1>4

Restores(s) ==
    mode = "Replay" /\ prevMode # "Replay" /\ ~s.reg.editable /\ target # None

\* The reading is asked for again, and the list is marked.
LEMMA MarkIs ==
    ASSUME TypeInv, NEW p \in Chains, NEW q, q = MarkDirty(RestoreFixed(p))
    PROVE  /\ q \in Chains
           /\ q.watch = IF Restores(p) THEN [path |-> None, fresh |-> FALSE] ELSE p.watch
           /\ q.scen = p.scen /\ q.reg = p.reg /\ q.read = p.read
           /\ q.trigger = p.trigger /\ q.cache = p.cache
           /\ ~q.touched
           /\ ~q.dirty => ~p.dirty /\ ~p.touched
  <1> DEFINE r == RestoreFixed(p)
  <1>1. /\ r \in Chains
        /\ r.watch = IF Restores(p) THEN [path |-> None, fresh |-> FALSE] ELSE p.watch
        /\ r.scen = p.scen /\ r.reg = p.reg /\ r.read = p.read
        /\ r.trigger = p.trigger /\ r.cache = p.cache
        /\ r.dirty = p.dirty /\ r.touched = p.touched
    <2>1. [path |-> None, fresh |-> FALSE] \in Watches
      BY DEF Watches
    <2>2. CASE Restores(p)
      <3>1. r = [p EXCEPT !.watch = [path |-> None, fresh |-> FALSE]]
        BY <2>2 DEF RestoreFixed, Restores
      <3> QED
        BY <2>1, <2>2, <3>1 DEF Chains
    <2>3. CASE ~Restores(p)
      BY <2>3 DEF RestoreFixed, Restores
    <2> QED
      BY <2>2, <2>3
  <1> HIDE DEF r
  <1>2. PICK b \in BOOLEAN : b = (r.dirty \/ r.touched)
    BY Zenon
  <1>3. q = [r EXCEPT !.dirty = b, !.touched = FALSE]
    BY <1>2, Zenon DEF MarkDirty, r
  <1>4. /\ q \in Chains
        /\ q.watch = r.watch /\ q.scen = r.scen /\ q.reg = r.reg /\ q.read = r.read
        /\ q.trigger = r.trigger /\ q.cache = r.cache /\ q.dirty = b /\ ~q.touched
    BY <1>1, <1>3 DEF Chains
  <1> QED
    BY <1>1, <1>2, <1>4

\* The list goes to the metadata and to the cache while it can be edited.
LEMMA WritebackIs ==
    ASSUME TypeInv, NEW p \in Chains, NEW q, q = Writeback(SyncMetadata(p)), ~p.trigger
    PROVE  /\ q \in Chains
           /\ q.watch = p.watch /\ q.reg = p.reg /\ q.read = p.read
           /\ q.touched = p.touched /\ q.scen.end = p.scen.end
           /\ q.cache.kind = p.cache.kind /\ q.cache.end = p.cache.end
           /\ Writable(p) => q.scen.ids = p.reg.ids
           /\ ~Writable(p) => q = p
  <1> DEFINE r == SyncMetadata(p)
  <1>1. /\ p.reg \in Lists /\ p.scen \in Metadata /\ p.cache \in Sidecars
        /\ p.reg.ids \in SUBSET Ids
    BY DEF Chains, Lists
  <1>2. /\ r \in Chains
        /\ r.watch = p.watch /\ r.reg = p.reg /\ r.read = p.read
        /\ r.touched = p.touched /\ r.dirty = p.dirty /\ r.cache = p.cache
        /\ r.scen.end = p.scen.end
        /\ Writable(p) => r.scen.ids = p.reg.ids
        /\ ~Writable(p) => r = p
    <2>1. CASE Writable(p) /\ p.scen.ids # p.reg.ids
      <3>1. r = [p EXCEPT !.scen.ids = p.reg.ids, !.trigger = TRUE]
        BY <2>1 DEF SyncMetadata
      <3> QED
        BY <1>1, <2>1, <3>1 DEF Chains, Metadata
    <2>2. CASE ~(Writable(p) /\ p.scen.ids # p.reg.ids)
      BY <2>2 DEF SyncMetadata
    <2> QED
      BY <2>1, <2>2
  <1> HIDE DEF r
  <1>3. Writable(r) <=> Writable(p)
    BY <1>2 DEF Writable
  <1>4. CASE ~Writable(r) \/ r.cache.kind = "none"
    <2>1. q = r
      BY <1>4 DEF Writeback, r
    <2> QED
      BY <1>2, <1>3, <2>1
  <1>5. CASE Writable(r) /\ r.cache.kind # "none"
    <2>1. q = [r EXCEPT !.cache = WithIds(r.cache, r.reg.ids), !.dirty = FALSE]
      BY <1>5 DEF Writeback, r
    <2>2. /\ WithIds(r.cache, r.reg.ids) \in Sidecars
          /\ WithIds(r.cache, r.reg.ids).kind = r.cache.kind
          /\ WithIds(r.cache, r.reg.ids).end = r.cache.end
      BY <1>1, <1>2 DEF WithIds, Sidecars
    <2>3. /\ q \in Chains /\ q.cache = WithIds(r.cache, r.reg.ids)
          /\ q.watch = r.watch /\ q.reg = r.reg /\ q.read = r.read
          /\ q.touched = r.touched /\ q.scen = r.scen
      BY <1>2, <2>1, <2>2 DEF Chains
    <2> QED
      BY <1>2, <1>3, <1>5, <2>2, <2>3
  <1> QED
    BY <1>4, <1>5

\* What was read (p), and what the frame makes of it (s).
Made(p, s) ==
    /\ p \in Chains /\ s \in Chains /\ s.read = p.read /\ ~s.touched
    /\ p.read = "same" <=> watch = Read
    /\ p.read \in {"same", "refused"} => p.scen = scen /\ p.prune = trigger
    /\ p.read = "loaded" => /\ target \in Paths /\ HasScenario(target)
                            /\ p.scen = MetadataOf(target) /\ p.prune
    /\ s.watch = IF Restores(s) THEN [path |-> None, fresh |-> FALSE] ELSE Read
    /\ s.scen.end = p.scen.end
    /\ s.cache.kind = file[Cache].kind /\ s.cache.end = file[Cache].end
    /\ s.reg.editable /\ (mode = "Replay" \/ ~s.dirty) => s.scen.ids = s.reg.ids
    /\ ~s.reg.editable => s.scen = p.scen /\ s.cache = file[Cache] /\ ~s.trigger
    /\ Told(p) => s.reg.ids = Pruned(p, p.scen.ids)
    /\ ~Told(p) => s.reg.ids = Pruned(p, reg.ids) /\ s.reg.editable = reg.editable
    /\ p.read = "cleared" => s.reg.editable

LEMMA ChainMakes ==
    ASSUME TypeInv, MetadataFollows, NEW found \in BOOLEAN,
           NEW p, p = Parse(Chain, found), NEW s,
           s = Writeback(SyncMetadata(MarkDirty(RestoreFixed(Prune(SyncRegistry(p))))))
    PROVE  Made(p, s)
  <1> DEFINE y == SyncRegistry(p)
             q == Prune(y)
             m == MarkDirty(RestoreFixed(q))
  <1>1. /\ p \in Chains /\ p.watch = Read
        /\ p.reg = reg /\ p.touched = touched /\ p.dirty = dirty
        /\ p.trigger = FALSE /\ p.cache = file[Cache]
        /\ p.read = "same" <=> watch = Read
        /\ p.read \in {"same", "refused"} => p.scen = scen /\ p.prune = trigger
        /\ p.read = "cleared" => p.scen = NoMetadata
        /\ p.read = "loaded" => /\ target \in Paths /\ HasScenario(target)
                                /\ p.scen = MetadataOf(target) /\ p.prune
    BY ParseIs
  <1>2. p.read = "cleared" => p.scen.ids = {}
    BY <1>1 DEF NoMetadata
  <1>3. /\ y \in Chains
        /\ y.watch = p.watch /\ y.scen = p.scen /\ y.read = p.read
        /\ y.prune = p.prune /\ y.trigger = p.trigger /\ y.cache = p.cache
        /\ Told(p) => y.reg.ids = p.scen.ids /\ y.touched
        /\ ~Told(p) => y = p
        /\ p.read = "cleared" => y.reg.editable
    BY <1>1, <1>2, SyncIs
  <1> HIDE DEF y
  <1>4. /\ q \in Chains
        /\ q.watch = y.watch /\ q.scen = y.scen /\ q.read = y.read
        /\ q.trigger = y.trigger /\ q.cache = y.cache
        /\ q.dirty = y.dirty /\ q.reg.editable = y.reg.editable
        /\ q.reg.ids = Pruned(y, y.reg.ids)
        /\ y.touched => q.touched
        /\ ~q.touched => q.reg.ids = y.reg.ids
    BY <1>3, PruneIs
  <1>5. q.reg.ids = Pruned(p, y.reg.ids)
    BY <1>3, <1>4 DEF Pruned
  <1> HIDE DEF q
  <1>6. /\ m \in Chains
        /\ m.watch = IF Restores(q) THEN [path |-> None, fresh |-> FALSE] ELSE q.watch
        /\ m.scen = q.scen /\ m.reg = q.reg /\ m.read = q.read
        /\ m.trigger = q.trigger /\ m.cache = q.cache
        /\ ~m.touched
        /\ ~m.dirty => ~q.dirty /\ ~q.touched
    BY <1>4, MarkIs
  <1>7. s = Writeback(SyncMetadata(m))
    BY DEF m, q, y
  <1> HIDE DEF m
  <1>8. ~m.trigger
    BY <1>1, <1>3, <1>4, <1>6
  <1>9. /\ s \in Chains
        /\ s.watch = m.watch /\ s.reg = m.reg /\ s.read = m.read
        /\ s.touched = m.touched /\ s.scen.end = m.scen.end
        /\ s.cache.kind = m.cache.kind /\ s.cache.end = m.cache.end
        /\ Writable(m) => s.scen.ids = m.reg.ids
        /\ ~Writable(m) => s = m
    BY <1>6, <1>7, <1>8, WritebackIs
  <1>10. s.watch = IF Restores(s) THEN [path |-> None, fresh |-> FALSE] ELSE Read
    <2>1. s.reg = q.reg /\ q.watch = Read
      BY <1>1, <1>3, <1>4, <1>6, <1>9
    <2> QED
      BY <1>6, <1>9, <2>1 DEF Restores
  <1>11. ASSUME s.reg.editable, mode = "Replay" \/ ~s.dirty
         PROVE  s.scen.ids = s.reg.ids
    <2>1. CASE Writable(m)
      BY <1>9, <2>1
    <2>2. CASE ~Writable(m)
      <3>1. s = m /\ ~m.dirty
        BY <1>9, <1>11, <2>2 DEF Writable
      <3>2. ~q.dirty /\ ~q.touched
        BY <1>6, <3>1
      <3>3. ~y.touched /\ ~y.dirty /\ q.reg.ids = y.reg.ids
        BY <1>4, <3>2
      <3>4. y = p /\ ~Told(p)
        BY <1>3, <3>3
      <3>5. p.read \in {"same", "refused"}
        BY <1>1, <3>4 DEF Told, Chains, Readings
      <3>6. ~touched /\ ~dirty /\ reg.editable /\ p.scen = scen
        BY <1>1, <1>4, <1>6, <1>11, <3>1, <3>3, <3>4, <3>5
      <3>7. scen.ids = reg.ids
        BY <3>6 DEF MetadataFollows
      <3> QED
        BY <1>1, <1>4, <1>6, <3>1, <3>3, <3>4, <3>6, <3>7
    <2> QED
      BY <2>1, <2>2
  <1>12. ASSUME ~s.reg.editable
         PROVE  s.scen = p.scen /\ s.cache = file[Cache] /\ ~s.trigger
    <2>1. s = m
      BY <1>9, <1>12 DEF Writable
    <2> QED
      BY <1>1, <1>3, <1>4, <1>6, <1>8, <2>1
  <1>13. Told(p) => s.reg.ids = Pruned(p, p.scen.ids)
    BY <1>3, <1>5, <1>6, <1>9
  <1>14. ~Told(p) => /\ s.reg.ids = Pruned(p, reg.ids)
                     /\ s.reg.editable = reg.editable
    BY <1>1, <1>3, <1>4, <1>5, <1>6, <1>9
  <1>15. p.read = "cleared" => s.reg.editable
    BY <1>3, <1>4, <1>6, <1>9
  <1>16. /\ s.read = p.read /\ ~s.touched /\ s.scen.end = p.scen.end
         /\ s.cache.kind = file[Cache].kind /\ s.cache.end = file[Cache].end
    BY <1>1, <1>3, <1>4, <1>6, <1>9
  <1> QED
    BY <1>1, <1>9, <1>10, <1>11, <1>12, <1>13, <1>14, <1>15, <1>16, Zenon DEF Made

-----------------------------------------------------------------------------
(* A frame                                                                 *)

Becomes(p, s) ==
    /\ scen' = s.scen /\ reg' = s.reg
    /\ touched' = s.touched /\ dirty' = s.dirty /\ trigger' = s.trigger
    /\ prevMode' = mode
    /\ refused' = IF s.read = "same" THEN refused ELSE s.read = "refused"
    /\ \/ \E how \in {"run", "step"} : Runs(s, how)
       \/ /\ file' = [file EXCEPT ![Cache] = s.cache] /\ watch' = s.watch
          /\ rewritten' = FALSE /\ UNCHANGED <<sent, ops>>
    /\ LET told == s.read \in {"loaded", "cleared"}
           asked == IF told /\ (theirs \/ ~reg.editable) THEN p.scen.ids ELSE wanted
       IN  /\ wanted' = Pruned(p, asked)
           /\ crossed' = IF told /\ theirs THEN FALSE
                         ELSE crossed \/ (told /\ rewritten /\ reg.ids # p.scen.ids)
           /\ moved' = (moved /\ ~told)
    /\ theirs' = (s.watch.path # target)
    /\ UNCHANGED <<orig, copying, target, mode, universe>>

LEMMA FrameIs ==
    ASSUME TypeInv, MetadataFollows, Frame
    PROVE  \E p, s : Made(p, s) /\ Becomes(p, s)
  <1>1. PICK found \in BOOLEAN :
          \E p \in {Parse(Chain, found)} :
          \E q \in {Prune(SyncRegistry(p))} :
          \E m \in {MarkDirty(RestoreFixed(q))} :
          \E s \in {Writeback(SyncMetadata(m))} : Becomes(p, s)
    BY Zenon DEF Frame, Becomes
  <1>2. PICK p \in {Parse(Chain, found)} :
          \E q \in {Prune(SyncRegistry(p))} :
          \E m \in {MarkDirty(RestoreFixed(q))} :
          \E s \in {Writeback(SyncMetadata(m))} : Becomes(p, s)
    BY <1>1, Zenon
  <1>3. PICK q \in {Prune(SyncRegistry(p))} :
          \E m \in {MarkDirty(RestoreFixed(q))} :
          \E s \in {Writeback(SyncMetadata(m))} : Becomes(p, s)
    BY <1>2, Zenon
  <1>4. PICK m \in {MarkDirty(RestoreFixed(q))} :
          \E s \in {Writeback(SyncMetadata(m))} : Becomes(p, s)
    BY <1>3, Zenon
  <1>5. PICK s \in {Writeback(SyncMetadata(m))} : Becomes(p, s)
    BY <1>4, Zenon
  <1>6. p = Parse(Chain, found)
    BY <1>2, Zenon
  <1>7. s = Writeback(SyncMetadata(MarkDirty(RestoreFixed(Prune(SyncRegistry(p))))))
    BY <1>3, <1>4, <1>5, Zenon
  <1>8. Made(p, s)
    BY <1>6, <1>7, ChainMakes
  <1> QED
    BY <1>5, <1>8, Zenon

\* What a frame writes, with a run in it or not.
LEMMA FrameWrites ==
    ASSUME TypeInv, RunsWhatIsShown, NEW p, NEW s, Made(p, s), Becomes(p, s)
    PROVE  /\ file' \in [Paths -> Sidecars]
           /\ \A x \in Paths : file'[x].kind = file[x].kind /\ file'[x].end = file[x].end
           /\ watch' \in Watches
           /\ ~rewritten' => watch' = s.watch \/ s.watch.path # target
           /\ ~s.reg.editable => file' = file /\ watch' = s.watch
           /\ rewritten' \in BOOLEAN
           /\ sent' \in [ids : SUBSET Ids, shown : SUBSET Ids, editable : BOOLEAN]
           /\ ops' \in Nat
           /\ RunsWhatIsShown'
  <1>1. /\ s \in Chains
        /\ s.watch = IF Restores(s) THEN [path |-> None, fresh |-> FALSE] ELSE Read
        /\ s.cache.kind = file[Cache].kind /\ s.cache.end = file[Cache].end
        /\ s.reg.editable /\ (mode = "Replay" \/ ~s.dirty) => s.scen.ids = s.reg.ids
        /\ ~s.reg.editable => s.cache = file[Cache]
    BY Zenon DEF Made
  <1>2. /\ s.watch \in Watches /\ s.reg \in Lists /\ s.cache \in Sidecars
        /\ s.scen \in Metadata
    BY <1>1 DEF Chains
  <1>3. /\ s.reg.ids \in SUBSET Ids /\ s.reg.editable \in BOOLEAN
        /\ s.scen.ids \in SUBSET Ids
    BY <1>2 DEF Lists, Metadata
  <1>4. ASSUME NEW c \in Sidecars, file' = [file EXCEPT ![Cache] = c],
               c.kind = file[Cache].kind, c.end = file[Cache].end
        PROVE  /\ file' \in [Paths -> Sidecars]
               /\ \A x \in Paths : file'[x].kind = file[x].kind /\ file'[x].end = file[x].end
    BY <1>4, NamesApart DEF TypeInv
  <1>5. ASSUME file' = [file EXCEPT ![Cache] = file[Cache]]
        PROVE  file' = file
    BY <1>5, NamesApart DEF TypeInv
  <1>6. CASE /\ file' = [file EXCEPT ![Cache] = s.cache] /\ watch' = s.watch
             /\ rewritten' = FALSE /\ UNCHANGED <<sent, ops>>
    <2>1. ~s.reg.editable => file' = file
      BY <1>1, <1>5, <1>6
    <2>2. /\ file' \in [Paths -> Sidecars]
          /\ \A x \in Paths : file'[x].kind = file[x].kind /\ file'[x].end = file[x].end
      BY <1>1, <1>2, <1>4, <1>6
    <2>3. RunsWhatIsShown'
      BY <1>6 DEF RunsWhatIsShown
    <2> QED
      BY <1>2, <1>6, <2>1, <2>2, <2>3 DEF TypeInv
  <1>7. ASSUME NEW how \in {"run", "step"}, Runs(s, how)
        PROVE  /\ file' \in [Paths -> Sidecars]
               /\ \A x \in Paths : file'[x].kind = file[x].kind /\ file'[x].end = file[x].end
               /\ watch' \in Watches
               /\ ~rewritten' => watch' = s.watch \/ s.watch.path # target
               /\ ~s.reg.editable => file' = file /\ watch' = s.watch
               /\ rewritten' \in BOOLEAN
               /\ sent' \in [ids : SUBSET Ids, shown : SUBSET Ids, editable : BOOLEAN]
               /\ ops' \in Nat
               /\ RunsWhatIsShown'
    <2>1. mode = "Replay" /\ ops' = ops + 1
      BY <1>7 DEF Runs, Op
    <2>2. ops' \in Nat
      BY <2>1 DEF TypeInv
    <2>3. sent' = [ids |-> RunIds(s, how), shown |-> s.reg.ids, editable |-> s.reg.editable]
      BY <1>7 DEF Runs
    <2>4. RunIds(s, how) \in SUBSET Ids
      BY <1>3 DEF RunIds
    <2>5. sent' \in [ids : SUBSET Ids, shown : SUBSET Ids, editable : BOOLEAN]
      BY <1>3, <2>3, <2>4
    <2>6. RunsWhatIsShown'
      <3>1. s.reg.editable => RunIds(s, how) = s.reg.ids
        BY <1>1, <2>1 DEF RunIds
      <3> QED
        BY <2>3, <3>1 DEF RunsWhatIsShown
    <2>7. CASE s.reg.editable
      <3> DEFINE c == WithIds(s.cache, s.reg.ids)
      <3>1. /\ file' = [file EXCEPT ![Cache] = c]
            /\ watch' = [s.watch EXCEPT !.fresh = s.watch.fresh /\ s.watch.path # Cache]
            /\ rewritten' = (target = Cache)
        BY <1>7, <2>7, Zenon DEF Runs
      <3>2. /\ c \in Sidecars /\ c.kind = file[Cache].kind /\ c.end = file[Cache].end
        BY <1>1, <1>2, <1>3 DEF WithIds, Sidecars
      <3> HIDE DEF c
      <3>3. /\ file' \in [Paths -> Sidecars]
            /\ \A x \in Paths : file'[x].kind = file[x].kind /\ file'[x].end = file[x].end
        BY <1>4, <3>1, <3>2
      <3>4. PICK b \in BOOLEAN : b = (s.watch.fresh /\ s.watch.path # Cache)
        BY Zenon
      <3>5. watch' = [s.watch EXCEPT !.fresh = b]
        BY <3>1, <3>4, Zenon
      <3>6. watch' \in Watches
        BY <1>2, <3>5 DEF Watches
      <3>7. s.watch.path # Cache => b = s.watch.fresh
        <4>1. s.watch.fresh \in BOOLEAN
          BY <1>2 DEF Watches
        <4> QED
          BY <3>4, <4>1
      <3>8. s.watch.path # Cache => watch' = s.watch
        BY <1>2, <3>5, <3>7 DEF Watches
      <3>9. ~rewritten' => watch' = s.watch \/ s.watch.path # target
        BY <3>1, <3>8
      <3>10. rewritten' \in BOOLEAN
        BY <3>1, Zenon
      <3> QED
        BY <2>2, <2>5, <2>6, <2>7, <3>3, <3>6, <3>9, <3>10
    <2>8. CASE ~s.reg.editable
      <3>1. /\ file' = [file EXCEPT ![Cache] = s.cache] /\ watch' = s.watch
            /\ rewritten' = FALSE
        BY <1>7, <2>8 DEF Runs
      <3>2. file' = file
        BY <1>1, <1>5, <2>8, <3>1
      <3> QED
        BY <1>2, <2>2, <2>5, <2>6, <2>8, <3>1, <3>2 DEF TypeInv
    <2> QED
      BY <2>7, <2>8
  <1>8. (\E how \in {"run", "step"} : Runs(s, how))
          \/ (/\ file' = [file EXCEPT ![Cache] = s.cache] /\ watch' = s.watch
              /\ rewritten' = FALSE /\ UNCHANGED <<sent, ops>>)
    BY Zenon DEF Becomes
  <1> QED
    BY <1>6, <1>7, <1>8, Zenon

LEMMA FrameKeeps ==
    ASSUME ScenarioInv, Frame
    PROVE  ScenarioInv'
  <1>1. /\ TypeInv /\ CopyIsTarget /\ ReadAgain /\ MetadataFollows
        /\ LockedFollows /\ EditsAreKept /\ RunsWhatIsShown
    BY DEF ScenarioInv
  <1>2. PICK p, s : Made(p, s) /\ Becomes(p, s)
    BY <1>1, FrameIs
  <1>3. /\ p \in Chains /\ s \in Chains /\ s.read = p.read /\ ~s.touched
        /\ p.read = "same" <=> watch = Read
        /\ p.read \in {"same", "refused"} => p.scen = scen /\ p.prune = trigger
        /\ p.read = "loaded" => /\ target \in Paths /\ HasScenario(target)
                                /\ p.scen = MetadataOf(target) /\ p.prune
        /\ s.watch = IF Restores(s) THEN [path |-> None, fresh |-> FALSE] ELSE Read
        /\ s.reg.editable /\ (mode = "Replay" \/ ~s.dirty) => s.scen.ids = s.reg.ids
        /\ ~s.reg.editable => s.scen = p.scen /\ s.cache = file[Cache] /\ ~s.trigger
        /\ Told(p) => s.reg.ids = Pruned(p, p.scen.ids)
        /\ ~Told(p) => s.reg.ids = Pruned(p, reg.ids) /\ s.reg.editable = reg.editable
        /\ p.read = "cleared" => s.reg.editable
    BY <1>2, Zenon DEF Made
  <1>4. Told(s) <=> Told(p)
    BY <1>3 DEF Told
  <1> DEFINE asked == IF Told(p) /\ (theirs \/ ~reg.editable) THEN p.scen.ids ELSE wanted
  <1>5. /\ scen' = s.scen /\ reg' = s.reg
        /\ touched' = s.touched /\ dirty' = s.dirty /\ trigger' = s.trigger
        /\ prevMode' = mode
        /\ refused' = IF s.read = "same" THEN refused ELSE s.read = "refused"
        /\ theirs' = (s.watch.path # target)
        /\ orig' = orig /\ copying' = copying /\ target' = target /\ mode' = mode
        /\ avail' = avail /\ live' = live
    BY <1>2, Zenon DEF Becomes, universe
  <1>6. /\ wanted' = Pruned(p, asked)
        /\ crossed' = IF Told(p) /\ theirs THEN FALSE
                      ELSE crossed \/ (Told(p) /\ rewritten /\ reg.ids # p.scen.ids)
        /\ moved' = (moved /\ ~Told(p))
    <2>1. Told(p) <=> s.read \in {"loaded", "cleared"}
      BY <1>4, Zenon DEF Told
    <2>2. CASE Told(p)
      BY <1>2, <2>1, <2>2, Zenon DEF Becomes
    <2>3. CASE ~Told(p)
      BY <1>2, <2>1, <2>3, Zenon DEF Becomes
    <2> QED
      BY <2>2, <2>3
  <1>7. /\ file' \in [Paths -> Sidecars]
        /\ \A x \in Paths : file'[x].kind = file[x].kind /\ file'[x].end = file[x].end
        /\ watch' \in Watches
        /\ ~rewritten' => watch' = s.watch \/ s.watch.path # target
        /\ ~s.reg.editable => file' = file /\ watch' = s.watch
        /\ rewritten' \in BOOLEAN
        /\ sent' \in [ids : SUBSET Ids, shown : SUBSET Ids, editable : BOOLEAN]
        /\ ops' \in Nat
        /\ RunsWhatIsShown'
    BY <1>1, <1>2, FrameWrites
  <1>8. TypeInv'
    <2>1. asked \in SUBSET Ids
      BY <1>1, <1>3 DEF TypeInv, Chains, Metadata
    <2>2. wanted' \in SUBSET Ids
      BY <1>6, <2>1 DEF Pruned
    <2>3. crossed' \in BOOLEAN /\ moved' \in BOOLEAN
      BY <1>6, Zenon
    <2>4. theirs' \in BOOLEAN
      BY <1>5, Zenon
    <2>5. refused' \in BOOLEAN
      <3>1. CASE s.read = "same"
        BY <1>1, <1>5, <3>1 DEF TypeInv
      <3>2. CASE s.read # "same"
        BY <1>5, <3>2, Zenon
      <3> QED
        BY <3>1, <3>2
    <2>6. \A x \in Paths : HasScenario(x)' => (file[x].end)' \in Ends
      BY <1>1, <1>7 DEF TypeInv, HasScenario
    <2>7. /\ scen' \in [ids : SUBSET Ids, end : Ends \union {None}]
          /\ reg' \in [ids : SUBSET Ids, editable : BOOLEAN]
          /\ touched' \in BOOLEAN /\ dirty' \in BOOLEAN /\ trigger' \in BOOLEAN
      BY <1>3, <1>5 DEF Chains, Lists, Metadata
    <2>8. watch' \in [path : Paths \union {None}, fresh : BOOLEAN]
      BY <1>7 DEF Watches
    <2>9. /\ orig' \in Files \union {None} /\ copying' \in Files \union {None}
          /\ target' \in Paths \union {None}
          /\ mode' \in Modes /\ prevMode' \in Modes \union {None}
          /\ avail' \in [Ends -> Universe] /\ live' \in Universe
      BY <1>1, <1>5 DEF TypeInv
    <2> QED
      BY <1>7, <2>2, <2>3, <2>4, <2>5, <2>6, <2>7, <2>8, <2>9 DEF TypeInv
  <1>9. CopyIsTarget'
    BY <1>1, <1>5 DEF CopyIsTarget
  <1>10. ReadAgain'
    <2>1. ASSUME ~theirs', ~rewritten'
          PROVE  watch' = Read
      <3>1. s.watch.path = target
        BY <1>5, <2>1
      <3>2. watch' = s.watch
        BY <1>7, <2>1, <3>1
      <3>3. ~Restores(s)
        BY <1>3, <3>1 DEF Restores
      <3> QED
        BY <1>3, <3>2, <3>3
    <2> QED
      BY <1>5, <2>1 DEF ReadAgain, Read
  <1>11. MetadataFollows'
    BY <1>3, <1>5 DEF MetadataFollows
  <1>12. EditsAreKept'
    <2>1. ASSUME s.reg.editable, ~crossed'
          PROVE  s.reg.ids = wanted'
      <3>1. CASE Told(p)
        <4>1. s.reg.ids = Pruned(p, p.scen.ids)
          BY <1>3, <3>1
        <4>2. CASE theirs \/ ~reg.editable
          BY <1>6, <3>1, <4>1, <4>2
        <4>3. CASE ~theirs /\ reg.editable
          <5>1. watch # Read
            BY <1>3, <3>1 DEF Told
          <5>2. rewritten
            BY <1>1, <4>3, <5>1 DEF ReadAgain, Read
          <5>3. ~crossed /\ reg.ids = p.scen.ids
            BY <1>6, <2>1, <3>1, <4>3, <5>2
          <5>4. wanted = p.scen.ids
            BY <1>1, <4>3, <5>3 DEF EditsAreKept
          <5> QED
            BY <1>6, <4>1, <4>3, <5>4
        <4> QED
          BY <4>2, <4>3
      <3>2. CASE ~Told(p)
        <4>1. reg.editable /\ ~crossed
          BY <1>3, <1>6, <2>1, <3>2
        <4>2. reg.ids = wanted
          BY <1>1, <4>1 DEF EditsAreKept
        <4> QED
          BY <1>3, <1>6, <3>2, <4>2
      <3> QED
        BY <3>1, <3>2
    <2> QED
      BY <1>5, <2>1 DEF EditsAreKept
  <1>13. LockedFollows'
    <2>1. ASSUME watch' = Read, mode = "Replay", ~refused', ~moved',
                 target # None, ~s.reg.editable
          PROVE  /\ s.scen.end \in Ends /\ s.scen.ids = file[target].ids
                 /\ s.reg.ids = InUniverse(s.scen)
      <3>1. watch' = s.watch /\ s.scen = p.scen
        BY <1>3, <1>7, <2>1
      <3>2. ~Restores(s)
        BY <1>3, <2>1, <3>1 DEF Read
      <3>3. prevMode = "Replay"
        BY <2>1, <3>2 DEF Restores
      <3>4. CASE p.read = "loaded"
        <4>1. /\ p.scen.end \in Ends /\ p.scen.ids = file[target].ids
          BY <1>1, <1>3, <3>4 DEF MetadataOf, TypeInv
        <4>2. s.reg.ids = Pruned(p, p.scen.ids) /\ p.prune
          BY <1>3, <3>4 DEF Told
        <4>3. p.scen.end # None
          BY <4>1, NamesApart
        <4>4. Allowed(p.scen) = avail[p.scen.end]
          BY <2>1, <4>3 DEF Allowed
        <4> QED
          BY <3>1, <4>1, <4>2, <4>4 DEF Pruned, InUniverse
      <3>5. CASE p.read = "same"
        <4>1. watch = Read /\ p.scen = scen /\ p.prune = trigger
          BY <1>3, <3>5
        <4>2. ~Told(p) /\ ~refused /\ ~moved
          BY <1>3, <1>5, <1>6, <2>1, <3>5 DEF Told
        <4>3. s.reg.ids = Pruned(p, reg.ids) /\ ~reg.editable
          BY <1>3, <2>1, <4>2
        <4>4. /\ scen.end \in Ends /\ scen.ids = file[target].ids
              /\ \/ reg.ids = InUniverse(scen)
                 \/ trigger /\ reg.ids = scen.ids
          BY <1>1, <2>1, <3>3, <4>1, <4>2, <4>3 DEF LockedFollows, Read
        <4>5. scen.end # None
          BY <4>4, NamesApart
        <4>6. Allowed(scen) = avail[scen.end]
          BY <2>1, <4>5 DEF Allowed
        <4>7. CASE trigger
          BY <3>1, <4>1, <4>3, <4>4, <4>6, <4>7 DEF Pruned, InUniverse
        <4>8. CASE ~trigger
          BY <3>1, <4>1, <4>3, <4>4, <4>8 DEF Pruned
        <4> QED
          BY <3>1, <4>1, <4>4, <4>7, <4>8
      <3>6. p.read \notin {"cleared", "refused"}
        BY <1>3, <1>5, <2>1
      <3> QED
        BY <1>3, <3>4, <3>5, <3>6 DEF Chains, Readings
    <2>2. ASSUME watch' = Read, mode = "Replay", ~refused', ~moved',
                 target # None, ~s.reg.editable
          PROVE  /\ scen'.end \in Ends /\ scen'.ids = file'[target].ids
                 /\ reg'.ids = InUniverse(scen)'
      <3>1. file' = file
        BY <1>7, <2>2
      <3>2. InUniverse(scen)' = InUniverse(s.scen)
        BY <1>5 DEF InUniverse
      <3> QED
        BY <1>5, <2>1, <2>2, <3>1, <3>2
    <2> QED
      BY <1>5, <2>2 DEF LockedFollows, Read
  <1> QED
    BY <1>7, <1>8, <1>9, <1>10, <1>11, <1>12, <1>13 DEF ScenarioInv

-----------------------------------------------------------------------------
(* Between the chains                                                      *)

LEMMA StaleIs ==
    ASSUME TypeInv, NEW x, NEW w, w = Stale(x)
    PROVE  /\ w \in Watches /\ w.path = watch.path
           /\ watch.path # x => w = watch
           /\ watch.path = x => ~w.fresh
  BY DEF Stale, Watches, TypeInv

\* The user edits the list, and what is wanted of it, alike.
LEMMA EditKeeps ==
    ASSUME ScenarioInv, NEW id \in Ids, Add(id) \/ Remove(id)
    PROVE  ScenarioInv'
  <1>1. /\ TypeInv /\ CopyIsTarget /\ ReadAgain /\ MetadataFollows
        /\ LockedFollows /\ EditsAreKept /\ RunsWhatIsShown
    BY DEF ScenarioInv
  <1>2. \/ /\ Edited(reg.ids \union {id}) /\ wanted' = wanted \union {id}
        \/ /\ Edited(reg.ids \ {id}) /\ wanted' = wanted \ {id}
    BY DEF Add, Remove
  <1>3. /\ ops' = ops + 1 /\ reg.editable
        /\ UNCHANGED <<file, orig, copying, target, watch, scen, dirty, trigger,
                       mode, prevMode, avail, live, theirs, rewritten, crossed,
                       refused, moved, sent>>
    BY DEF Add, Remove, Op, files, reading, modes, universe
  <1>4. touched' = TRUE
    BY <1>2 DEF Edited
  <1>5. PICK ids \in SUBSET Ids :
          /\ reg' = [reg EXCEPT !.ids = ids]
          /\ reg.ids = wanted => ids = wanted'
          /\ wanted' \in SUBSET Ids
    <2>1. reg.ids \in SUBSET Ids /\ wanted \in SUBSET Ids
      BY <1>1 DEF TypeInv
    <2>2. /\ reg.ids \union {id} \in SUBSET Ids /\ wanted \union {id} \in SUBSET Ids
          /\ reg.ids \ {id} \in SUBSET Ids /\ wanted \ {id} \in SUBSET Ids
      BY <2>1
    <2>3. CASE Edited(reg.ids \union {id}) /\ wanted' = wanted \union {id}
      BY <2>2, <2>3, Zenon DEF Edited
    <2>4. CASE Edited(reg.ids \ {id}) /\ wanted' = wanted \ {id}
      BY <2>2, <2>4, Zenon DEF Edited
    <2> QED
      BY <1>2, <2>3, <2>4
  <1>6. /\ reg' \in [ids : SUBSET Ids, editable : BOOLEAN]
        /\ reg'.ids = ids /\ reg'.editable
    BY <1>1, <1>3, <1>5 DEF TypeInv
  <1>7. TypeInv'
    BY <1>1, <1>3, <1>4, <1>5, <1>6 DEF TypeInv, HasScenario
  <1>8. CopyIsTarget' /\ ReadAgain' /\ RunsWhatIsShown'
    BY <1>1, <1>3 DEF CopyIsTarget, ReadAgain, RunsWhatIsShown
  <1>9. MetadataFollows' /\ LockedFollows'
    BY <1>4, <1>6 DEF MetadataFollows, LockedFollows
  <1>10. EditsAreKept'
    BY <1>1, <1>3, <1>5, <1>6 DEF EditsAreKept
  <1> QED
    BY <1>7, <1>8, <1>9, <1>10 DEF ScenarioInv

LEMMA CommitKeeps ==
    ASSUME ScenarioInv, NEW e \in Ends, CommitEnd(e)
    PROVE  ScenarioInv'
  <1>1. /\ TypeInv /\ CopyIsTarget /\ ReadAgain /\ MetadataFollows
        /\ LockedFollows /\ EditsAreKept /\ RunsWhatIsShown
    BY DEF ScenarioInv
  <1>2. /\ ops' = ops + 1
        /\ scen' = [scen EXCEPT !.end = e] /\ trigger' = TRUE /\ moved' = TRUE
        /\ UNCHANGED <<orig, copying, target, reg, touched, dirty, mode, prevMode,
                       avail, live, wanted, theirs, crossed, refused, sent>>
    BY DEF CommitEnd, Op, modes, universe
  <1>3. \/ /\ HasScenario(Cache) /\ file' = [file EXCEPT ![Cache].end = e]
           /\ watch' = Stale(Cache) /\ rewritten' = (rewritten \/ target = Cache)
        \/ UNCHANGED <<file, watch, rewritten>>
    BY DEF CommitEnd
  <1>4. scen' \in [ids : SUBSET Ids, end : Ends \union {None}] /\ scen'.ids = scen.ids
    BY <1>1, <1>2 DEF TypeInv
  <1>5. /\ file' \in [Paths -> Sidecars]
        /\ \A x \in Paths : file'[x].kind # "none" => file'[x].end \in Ends
    <2>1. CASE file' = file
      BY <1>1, <2>1 DEF TypeInv, HasScenario
    <2>2. CASE file' = [file EXCEPT ![Cache].end = e]
      <3>1. [file[Cache] EXCEPT !.end = e] \in Sidecars
        BY <1>1, NamesApart DEF TypeInv, Sidecars
      <3>2. PICK c \in Sidecars : c = [file[Cache] EXCEPT !.end = e]
        BY <3>1
      <3>3. file' = [file EXCEPT ![Cache] = c] /\ c.end = e
        BY <1>1, <2>2, <3>2, NamesApart DEF TypeInv, Sidecars
      <3> QED
        BY <1>1, <3>3, NamesApart DEF TypeInv, HasScenario
    <2> QED
      BY <1>3, <2>1, <2>2
  <1>6. watch' \in Watches /\ rewritten' \in BOOLEAN
    <2>1. CASE watch' = Stale(Cache) /\ rewritten' = (rewritten \/ target = Cache)
      BY <1>1, <2>1, StaleIs, Zenon
    <2>2. CASE UNCHANGED <<file, watch, rewritten>>
      BY <1>1, <2>2 DEF TypeInv, Watches
    <2> QED
      BY <1>3, <2>1, <2>2
  <1>7. TypeInv'
    <2>1. ops' \in Nat /\ trigger' \in BOOLEAN /\ moved' \in BOOLEAN
      BY <1>1, <1>2 DEF TypeInv
    <2> QED
      BY <1>1, <1>2, <1>4, <1>5, <1>6, <2>1 DEF TypeInv, HasScenario, Watches
  <1>8. ReadAgain'
    <2>1. CASE watch' = Stale(Cache) /\ rewritten' = (rewritten \/ target = Cache)
      <3>1. ASSUME ~theirs', ~rewritten'
            PROVE  watch' = [path |-> target', fresh |-> TRUE]
        <4>1. target # Cache /\ watch = [path |-> target, fresh |-> TRUE]
          BY <1>1, <1>2, <2>1, <3>1 DEF ReadAgain
        <4>2. watch' = watch
          BY <1>1, <2>1, <4>1, StaleIs
        <4> QED
          BY <1>2, <4>1, <4>2
      <3> QED
        BY <3>1 DEF ReadAgain
    <2>2. CASE UNCHANGED <<file, watch, rewritten>>
      BY <1>1, <1>2, <2>2 DEF ReadAgain
    <2> QED
      BY <1>3, <2>1, <2>2
  <1>9. CopyIsTarget' /\ MetadataFollows' /\ LockedFollows' /\ EditsAreKept' /\ RunsWhatIsShown'
    BY <1>1, <1>2, <1>4
       DEF CopyIsTarget, MetadataFollows, LockedFollows, EditsAreKept, RunsWhatIsShown
  <1> QED
    BY <1>7, <1>8, <1>9 DEF ScenarioInv

LEMMA AutosaveKeeps ==
    ASSUME ScenarioInv, LayoutAutosave
    PROVE  ScenarioInv'
  <1>1. /\ TypeInv /\ CopyIsTarget /\ ReadAgain /\ MetadataFollows
        /\ LockedFollows /\ EditsAreKept /\ RunsWhatIsShown
    BY DEF ScenarioInv
  <1>2. /\ ops' = ops + 1
        /\ watch' = Stale(Cache) /\ rewritten' = (rewritten \/ target = Cache)
        /\ UNCHANGED <<file, orig, copying, target, scen, reg, touched, dirty, trigger,
                       mode, prevMode, avail, live, wanted, theirs, crossed,
                       refused, moved, sent>>
    BY DEF LayoutAutosave, Op, files, shown, modes, universe
  <1>3. /\ watch' \in Watches /\ watch'.path = watch.path
        /\ watch.path # Cache => watch' = watch
        /\ watch.path = Cache => ~watch'.fresh
    BY <1>1, <1>2, StaleIs
  <1>4. rewritten' \in BOOLEAN
    BY <1>2, Zenon
  <1>5. TypeInv'
    BY <1>1, <1>2, <1>3, <1>4 DEF TypeInv, HasScenario, Watches
  <1>6. ReadAgain'
    <2>1. ASSUME ~theirs', ~rewritten'
          PROVE  watch' = [path |-> target', fresh |-> TRUE]
      <3>1. target # Cache /\ watch = [path |-> target, fresh |-> TRUE]
        BY <1>1, <1>2, <2>1 DEF ReadAgain
      <3> QED
        BY <1>2, <1>3, <3>1
    <2> QED
      BY <2>1 DEF ReadAgain
  <1>7. LockedFollows'
    <2>1. watch' = [path |-> target', fresh |-> TRUE] => watch' = watch
      BY <1>3
    <2> QED
      BY <1>1, <1>2, <2>1 DEF LockedFollows, InUniverse
  <1>8. CopyIsTarget' /\ MetadataFollows' /\ EditsAreKept' /\ RunsWhatIsShown'
    BY <1>1, <1>2 DEF CopyIsTarget, MetadataFollows, EditsAreKept, RunsWhatIsShown
  <1> QED
    BY <1>5, <1>6, <1>7, <1>8 DEF ScenarioInv

LEMMA OpenKeeps ==
    ASSUME ScenarioInv, NEW f \in Files, OpenStrategy(f)
    PROVE  ScenarioInv'
  <1>1. /\ TypeInv /\ CopyIsTarget /\ ReadAgain /\ MetadataFollows
        /\ LockedFollows /\ EditsAreKept /\ RunsWhatIsShown
    BY DEF ScenarioInv
  <1>2. /\ ops' = ops + 1
        /\ target' = f /\ orig' = f /\ copying' = f /\ theirs' = TRUE
        /\ rewritten' = FALSE
        /\ watch' = Stale(f)
        /\ UNCHANGED <<file, scen, reg, touched, dirty, trigger, mode, prevMode,
                       avail, live, wanted, crossed, refused, moved, sent>>
    BY DEF OpenStrategy, Op, Stale, shown, modes, universe
  <1>3. /\ watch' \in Watches /\ watch'.path = watch.path
        /\ watch.path = f => ~watch'.fresh
    BY <1>1, <1>2, StaleIs
  <1>4. TypeInv'
    <2>1. f \in Paths
      BY NamesApart
    <2>2. /\ orig' \in Files \union {None} /\ copying' \in Files \union {None}
          /\ target' \in Paths \union {None}
      BY <1>2, <2>1
    <2>3. theirs' \in BOOLEAN /\ rewritten' \in BOOLEAN
      BY <1>2
    <2>4. ops' \in Nat
      BY <1>1, <1>2 DEF TypeInv
    <2> QED
      BY <1>1, <1>2, <1>3, <2>2, <2>3, <2>4 DEF TypeInv, HasScenario, Watches
  <1>5. CopyIsTarget' /\ ReadAgain'
    BY <1>2 DEF CopyIsTarget, ReadAgain
  <1>6. LockedFollows'
    <2>1. watch' # [path |-> f, fresh |-> TRUE]
      BY <1>3
    <2> QED
      BY <1>2, <2>1 DEF LockedFollows
  <1>7. MetadataFollows' /\ EditsAreKept' /\ RunsWhatIsShown'
    BY <1>1, <1>2 DEF MetadataFollows, EditsAreKept, RunsWhatIsShown
  <1> QED
    BY <1>4, <1>5, <1>6, <1>7 DEF ScenarioInv

LEMMA CopyKeeps ==
    ASSUME ScenarioInv, SyncToCache
    PROVE  ScenarioInv'
  <1>1. /\ TypeInv /\ CopyIsTarget /\ ReadAgain /\ MetadataFollows
        /\ LockedFollows /\ EditsAreKept /\ RunsWhatIsShown
    BY DEF ScenarioInv
  <1>2. /\ copying # None /\ copying' = None /\ watch' = Stale(Cache)
        /\ \E c \in {file[Cache], file[copying], NoScenario} :
              file' = [file EXCEPT ![Cache] = c]
        /\ UNCHANGED <<orig, target, scen, reg, touched, dirty, trigger, mode, prevMode,
                       avail, live, wanted, theirs, rewritten, crossed, refused,
                       moved, sent, ops>>
    BY DEF SyncToCache, Copied, shown, modes, universe, ghosts
  <1>3. /\ watch' \in Watches /\ watch'.path = watch.path
        /\ watch.path # Cache => watch' = watch
    BY <1>1, <1>2, StaleIs
  <1>4. target \in Paths /\ target # Cache
    BY <1>1, <1>2, NamesApart DEF TypeInv, CopyIsTarget
  <1>5. PICK c \in Sidecars : /\ file' = [file EXCEPT ![Cache] = c]
                              /\ c.kind # "none" => c.end \in Ends
    <2>1. NoScenario \in Sidecars /\ NoScenario.kind = "none"
      BY DEF NoScenario, Sidecars
    <2>2. copying \in Paths /\ Cache \in Paths
      BY <1>1, <1>2, NamesApart DEF TypeInv
    <2> QED
      BY <1>1, <1>2, <2>1, <2>2 DEF TypeInv, HasScenario
  <1>6. /\ file' \in [Paths -> Sidecars] /\ file'[target] = file[target]
        /\ \A x \in Paths : file'[x].kind # "none" => file'[x].end \in Ends
    BY <1>1, <1>4, <1>5, NamesApart DEF TypeInv, HasScenario
  <1>7. TypeInv'
    BY <1>1, <1>2, <1>3, <1>6 DEF TypeInv, HasScenario, Watches
  <1>8. CopyIsTarget'
    BY <1>2 DEF CopyIsTarget
  <1>9. ReadAgain'
    <2>1. ASSUME ~theirs, ~rewritten
          PROVE  watch' = [path |-> target, fresh |-> TRUE]
      <3>1. watch = [path |-> target, fresh |-> TRUE]
        BY <1>1, <2>1 DEF ReadAgain
      <3> QED
        BY <1>3, <1>4, <3>1
    <2> QED
      BY <1>2, <2>1 DEF ReadAgain
  <1>10. LockedFollows'
    <2>1. watch' = [path |-> target', fresh |-> TRUE] => watch' = watch
      BY <1>2, <1>3, <1>4
    <2> QED
      BY <1>1, <1>2, <1>6, <2>1 DEF LockedFollows, InUniverse
  <1>11. MetadataFollows' /\ EditsAreKept' /\ RunsWhatIsShown'
    BY <1>1, <1>2 DEF MetadataFollows, EditsAreKept, RunsWhatIsShown
  <1> QED
    BY <1>7, <1>8, <1>9, <1>10, <1>11 DEF ScenarioInv

LEMMA SaveKeeps ==
    ASSUME ScenarioInv, NEW f \in Files, NEW as \in BOOLEAN, NEW got \in Got,
           SaveTo(f, as, got)
    PROVE  ScenarioInv'
  <1>1. /\ TypeInv /\ CopyIsTarget /\ ReadAgain /\ MetadataFollows
        /\ LockedFollows /\ EditsAreKept /\ RunsWhatIsShown
    BY DEF ScenarioInv
  <1> DEFINE from == IF target # None THEN target ELSE orig
             base == IF from = None THEN NoScenario
                     ELSE IF from = Cache THEN Flushed ELSE file[from]
             saved == SavedScenario(base)
             written == IF got = "json" THEN file[f] ELSE saved
             wrote == {p \in {f} : got # "json"}
                      \union {p \in {Cache} : Flushes \/ got = "done"}
             copies == IF got = "done" THEN Copied(Flushed, saved) ELSE {Flushed}
  <1>2. /\ ops' = ops + 1 /\ copying = None
        /\ got # "json" /\ reg.editable /\ base.kind = "none" => scen.end # None
        /\ \E c \in copies : file' = [file EXCEPT ![f] = written, ![Cache] = c]
        /\ \/ UNCHANGED <<target, orig>> /\ (got # "json" => as)
           \/ target' = f /\ orig' = f /\ got # "json"
        /\ watch' = IF watch.path \in wrote THEN [watch EXCEPT !.fresh = FALSE] ELSE watch
        /\ dirty' = (dirty \/ (as /\ got = "done"))
        /\ rewritten' = (rewritten \/ target' \in wrote)
        /\ UNCHANGED <<copying, scen, reg, touched, trigger, mode, prevMode, avail, live,
                       wanted, theirs, crossed, refused, moved, sent>>
    <2>1. file \in [Paths -> Sidecars] /\ f \in Paths
      BY <1>1, NamesApart DEF TypeInv
    <2>2. \E c \in copies : file' = [file EXCEPT ![f] = IF got = "json" THEN @ ELSE saved,
                                                ![Cache] = c]
      BY DEF SaveTo
    <2>3. \E c \in copies : file' = [file EXCEPT ![f] = written, ![Cache] = c]
      BY <2>1, <2>2
    <2> QED
      BY <2>3 DEF SaveTo, Op, modes, universe
  <1>3. f \in Paths /\ f # Cache /\ f # None
    BY NamesApart
  <1>4. Flushed \in Sidecars /\ (Flushed.kind # "none" => Flushed.end \in Ends)
    <2>1. reg.ids \in SUBSET Ids /\ file[Cache] \in Sidecars
      BY <1>1, NamesApart DEF TypeInv
    <2>2. file[Cache].kind # "none" => file[Cache].end \in Ends
      BY <1>1, NamesApart DEF TypeInv, HasScenario
    <2> QED
      BY <2>1, <2>2 DEF Flushed, WithIds, Sidecars
  <1>5. ~Flushes => Flushed = file[Cache]
    BY DEF Flushed
  <1>6. NoScenario \in Sidecars /\ NoScenario.kind = "none"
    BY DEF NoScenario, Sidecars
  <1>7. base \in Sidecars /\ (base.kind # "none" => base.end \in Ends)
    <2>1. CASE from = None
      BY <1>6, <2>1
    <2>2. CASE from # None /\ from = Cache
      BY <1>4, <2>2
    <2>3. CASE from # None /\ from # Cache
      <3>1. base = file[from] /\ from \in Paths
        BY <1>1, <2>3, NamesApart DEF TypeInv
      <3> QED
        BY <1>1, <3>1 DEF TypeInv, HasScenario
    <2> QED
      BY <2>1, <2>2, <2>3
  <1> HIDE DEF base
  <1>8. got # "json" => saved \in Sidecars /\ (saved.kind # "none" => saved.end \in Ends)
    <2> SUFFICES ASSUME got # "json"
                 PROVE  saved \in Sidecars /\ (saved.kind # "none" => saved.end \in Ends)
      OBVIOUS
    <2>1. reg.ids \in SUBSET Ids /\ scen.end \in Ends \union {None}
      BY <1>1 DEF TypeInv
    <2>2. CASE ~reg.editable
      BY <1>7, <2>2 DEF SavedScenario
    <2>3. CASE reg.editable /\ base.kind = "none"
      <3>1. saved = [kind |-> "inline", ids |-> reg.ids, end |-> scen.end]
        BY <2>3 DEF SavedScenario
      <3> HIDE DEF saved
      <3> QED
        BY <1>2, <2>1, <2>3, <3>1 DEF Sidecars
    <2>4. CASE reg.editable /\ base.kind # "none"
      <3>1. saved = WithIds(base, reg.ids)
        BY <2>4 DEF SavedScenario
      <3> HIDE DEF saved
      <3> QED
        BY <1>7, <2>1, <2>4, <3>1 DEF WithIds, Sidecars
    <2> QED
      BY <2>2, <2>3, <2>4
  <1> HIDE DEF saved
  <1>9. PICK c \in Sidecars : /\ file' = [file EXCEPT ![f] = written, ![Cache] = c]
                              /\ c.kind # "none" => c.end \in Ends
                              /\ Cache \notin wrote => c = file[Cache]
    <2>1. CASE got = "done"
      BY <1>2, <1>4, <1>6, <1>8, <2>1 DEF Copied
    <2>2. CASE got # "done"
      BY <1>2, <1>4, <1>5, <2>2
    <2> QED
      BY <2>1, <2>2
  <1>10. written \in Sidecars /\ (written.kind # "none" => written.end \in Ends)
    BY <1>1, <1>3, <1>8 DEF TypeInv, HasScenario
  <1>11. f \notin wrote => written = file[f]
    OBVIOUS
  <1> HIDE DEF written
  <1>12. /\ file' \in [Paths -> Sidecars]
         /\ \A x \in Paths : file'[x].kind # "none" => file'[x].end \in Ends
         /\ \A x \in Paths : x \notin wrote => file'[x] = file[x]
    <2>1. file \in [Paths -> Sidecars] /\ Cache \in Paths
      BY <1>1, NamesApart DEF TypeInv
    <2>2. \A x \in Paths : file'[x] = IF x = Cache THEN c ELSE IF x = f THEN written ELSE file[x]
      BY <1>3, <1>9, <2>1
    <2>3. file' \in [Paths -> Sidecars]
      BY <1>9, <1>10, <2>1
    <2>4. \A x \in Paths : file[x].kind # "none" => file[x].end \in Ends
      BY <1>1 DEF TypeInv, HasScenario
    <2> HIDE DEF wrote
    <2> QED
      BY <1>9, <1>10, <1>11, <2>2, <2>3, <2>4
  <1>13. watch' \in Watches /\ (watch'.fresh => watch' = watch /\ watch.path \notin wrote)
    <2>1. watch \in Watches
      BY <1>1 DEF TypeInv, Watches
    <2> HIDE DEF wrote
    <2>2. CASE watch.path \in wrote
      <3>1. watch' = [watch EXCEPT !.fresh = FALSE]
        BY <1>2, <2>2
      <3> QED
        BY <2>1, <3>1 DEF Watches
    <2>3. CASE watch.path \notin wrote
      <3>1. watch' = watch
        BY <1>2, <2>3
      <3> QED
        BY <2>1, <2>3, <3>1
    <2> QED
      BY <2>2, <2>3
  <1>14. target' \notin wrote => target' = target
    BY <1>2
  <1> HIDE DEF wrote
  <1>15. TypeInv'
    <2>1. /\ orig' \in Files \union {None} /\ target' \in Paths \union {None}
      BY <1>1, <1>2, <1>3 DEF TypeInv
    <2>2. rewritten' \in BOOLEAN
      <3>1. rewritten \in BOOLEAN
        BY <1>1 DEF TypeInv
      <3> QED
        BY <1>2, <3>1, Zenon
    <2>3. dirty' \in BOOLEAN
      <3>1. dirty \in BOOLEAN
        BY <1>1 DEF TypeInv
      <3> QED
        BY <1>2, <3>1, Zenon
    <2>4. ops' \in Nat
      BY <1>1, <1>2 DEF TypeInv
    <2> QED
      BY <1>1, <1>2, <1>12, <1>13, <2>1, <2>2, <2>3, <2>4 DEF TypeInv, HasScenario, Watches
  <1>16. CopyIsTarget'
    BY <1>2 DEF CopyIsTarget
  <1>17. ReadAgain'
    <2>1. ASSUME ~theirs, ~rewritten'
          PROVE  watch' = [path |-> target', fresh |-> TRUE]
      <3>1. ~rewritten /\ target' \notin wrote
        BY <1>2, <2>1, Zenon
      <3>2. target' = target /\ watch = [path |-> target, fresh |-> TRUE]
        BY <1>1, <1>14, <2>1, <3>1 DEF ReadAgain
      <3> QED
        BY <1>2, <3>1, <3>2
    <2> QED
      BY <1>2, <2>1 DEF ReadAgain
  <1>18. LockedFollows'
    <2>1. ASSUME watch' = [path |-> target', fresh |-> TRUE], target' # None
          PROVE  watch' = watch /\ target' = target /\ file'[target] = file[target]
      <3>1. watch' = watch /\ watch.path = target' /\ target' \notin wrote
        BY <1>13, <2>1
      <3>2. target' = target /\ target \in Paths
        BY <1>1, <1>14, <2>1, <3>1 DEF TypeInv
      <3> QED
        BY <1>12, <3>1, <3>2
    <2> QED
      BY <1>1, <1>2, <2>1 DEF LockedFollows, InUniverse
  <1>19. MetadataFollows'
    BY <1>1, <1>2 DEF MetadataFollows
  <1>20. EditsAreKept' /\ RunsWhatIsShown'
    BY <1>1, <1>2 DEF EditsAreKept, RunsWhatIsShown
  <1> QED
    BY <1>15, <1>16, <1>17, <1>18, <1>19, <1>20 DEF ScenarioInv

LEMMA OthersKeep ==
    ASSUME ScenarioInv, NEW f \in Files, EditFile(f)
    PROVE  ScenarioInv'
  <1>1. /\ TypeInv /\ CopyIsTarget /\ ReadAgain /\ MetadataFollows
        /\ LockedFollows /\ EditsAreKept /\ RunsWhatIsShown
    BY DEF ScenarioInv
  <1>2. /\ ops' = ops + 1 /\ HasScenario(f)
        /\ \E c \in {NoScenario} \union {[file[f] EXCEPT !.ids = ids] : ids \in SUBSET Ids} :
              c # file[f] /\ file' = [file EXCEPT ![f] = c]
        /\ watch' = Stale(f) /\ theirs' = (theirs \/ target = f)
        /\ UNCHANGED <<orig, copying, target, scen, reg, touched, dirty, trigger,
                       mode, prevMode, avail, live, wanted, rewritten, crossed,
                       refused, moved, sent>>
    BY DEF EditFile, Op, shown, modes, universe
  <1>3. /\ watch' \in Watches /\ watch'.path = watch.path
        /\ watch.path # f => watch' = watch
        /\ watch.path = f => ~watch'.fresh
    BY <1>1, <1>2, StaleIs
  <1>4. f \in Paths
    BY NamesApart
  <1>5. PICK c \in Sidecars : /\ file' = [file EXCEPT ![f] = c]
                              /\ c.kind # "none" => c.end \in Ends
    <2>1. NoScenario \in Sidecars /\ NoScenario.kind = "none"
      BY DEF NoScenario, Sidecars
    <2>2. ASSUME NEW ids \in SUBSET Ids
          PROVE  /\ [file[f] EXCEPT !.ids = ids] \in Sidecars
                 /\ [file[f] EXCEPT !.ids = ids].end \in Ends
      BY <1>1, <1>2, <1>4 DEF TypeInv, Sidecars
    <2> QED
      BY <1>2, <2>1, <2>2
  <1>6. /\ file' \in [Paths -> Sidecars]
        /\ \A x \in Paths : x # f => file'[x] = file[x]
        /\ \A x \in Paths : file'[x].kind # "none" => file'[x].end \in Ends
    BY <1>1, <1>4, <1>5 DEF TypeInv, HasScenario
  <1>7. theirs' \in BOOLEAN
    BY <1>2, Zenon
  <1>8. TypeInv'
    BY <1>1, <1>2, <1>3, <1>6, <1>7 DEF TypeInv, HasScenario, Watches
  <1>9. ReadAgain'
    <2>1. ASSUME ~theirs', ~rewritten
          PROVE  watch' = [path |-> target, fresh |-> TRUE]
      <3>1. target # f /\ watch = [path |-> target, fresh |-> TRUE]
        BY <1>1, <1>2, <2>1 DEF ReadAgain
      <3> QED
        BY <1>3, <3>1
    <2> QED
      BY <1>2, <2>1 DEF ReadAgain
  <1>10. LockedFollows'
    <2>1. watch' = [path |-> target', fresh |-> TRUE] => watch' = watch /\ target # f
      BY <1>2, <1>3
    <2>2. target # None /\ target # f => file'[target] = file[target]
      BY <1>1, <1>6 DEF TypeInv
    <2> QED
      BY <1>1, <1>2, <2>1, <2>2 DEF LockedFollows, InUniverse
  <1>11. CopyIsTarget' /\ MetadataFollows' /\ EditsAreKept' /\ RunsWhatIsShown'
    BY <1>1, <1>2 DEF CopyIsTarget, MetadataFollows, EditsAreKept, RunsWhatIsShown
  <1> QED
    BY <1>8, <1>9, <1>10, <1>11 DEF ScenarioInv

LEMMA ModeKeeps ==
    ASSUME ScenarioInv, ExecutionModeChanged
    PROVE  ScenarioInv'
  <1>1. /\ TypeInv /\ CopyIsTarget /\ ReadAgain /\ MetadataFollows
        /\ LockedFollows /\ EditsAreKept /\ RunsWhatIsShown
    BY DEF ScenarioInv
  <1>2. /\ ops' = ops + 1 /\ mode' \in Modes /\ trigger' = TRUE
        /\ UNCHANGED <<file, orig, copying, target, watch, scen, reg, touched, dirty,
                       prevMode, avail, live, wanted, theirs, rewritten, crossed,
                       refused, moved, sent>>
    BY DEF ExecutionModeChanged, Op, files, reading, shown, universe, ghosts
  <1>3. TypeInv'
    BY <1>1, <1>2 DEF TypeInv, HasScenario
  <1>4. LockedFollows'
    BY <1>1, <1>2 DEF LockedFollows, InUniverse
  <1>5. /\ CopyIsTarget' /\ ReadAgain' /\ MetadataFollows' /\ EditsAreKept'
        /\ RunsWhatIsShown'
    BY <1>1, <1>2
       DEF CopyIsTarget, ReadAgain, MetadataFollows, EditsAreKept, RunsWhatIsShown
  <1> QED
    BY <1>3, <1>4, <1>5 DEF ScenarioInv

LEMMA UniverseKeeps ==
    ASSUME ScenarioInv, TickersChanged \/ \E e \in Ends : AvailableLoaded(e)
    PROVE  ScenarioInv'
  <1>1. /\ TypeInv /\ CopyIsTarget /\ ReadAgain /\ MetadataFollows
        /\ LockedFollows /\ EditsAreKept /\ RunsWhatIsShown
    BY DEF ScenarioInv
  <1>2. /\ ops' = ops + 1 /\ trigger' = TRUE
        /\ UNCHANGED <<file, orig, copying, target, watch, scen, reg, touched, dirty,
                       mode, prevMode, wanted, theirs, rewritten, crossed,
                       refused, moved, sent>>
    BY DEF TickersChanged, AvailableLoaded, Op, files, reading, shown, modes, ghosts
  <1>3. /\ live' \in Universe /\ avail' \in [Ends -> Universe]
        /\ \A e \in Ends : avail[e] # None => avail'[e] = avail[e]
    <2>1. CASE TickersChanged
      BY <1>1, <2>1 DEF TickersChanged, TypeInv
    <2>2. ASSUME NEW e \in Ends, AvailableLoaded(e)
          PROVE  /\ live' \in Universe /\ avail' \in [Ends -> Universe]
                 /\ \A x \in Ends : avail[x] # None => avail'[x] = avail[x]
      <3>1. PICK u \in Universe : avail' = [avail EXCEPT ![e] = u]
        BY <2>2 DEF AvailableLoaded
      <3>2. avail[e] = None /\ live' = live
        BY <2>2 DEF AvailableLoaded
      <3> QED
        BY <1>1, <3>1, <3>2 DEF TypeInv
    <2> QED
      BY <2>1, <2>2
  <1>4. TypeInv'
    BY <1>1, <1>2, <1>3 DEF TypeInv, HasScenario
  <1>5. LockedFollows'
    <2>1. ASSUME watch = Read, prevMode = "Replay", ~refused, ~moved, target # None,
                 ~reg.editable
          PROVE  /\ scen.end \in Ends /\ scen.ids = file[target].ids
                 /\ reg.ids = InUniverse(scen)' \/ reg.ids = scen.ids
      <3>1. /\ scen.end \in Ends /\ scen.ids = file[target].ids
            /\ reg.ids = InUniverse(scen) \/ reg.ids = scen.ids
        BY <1>1, <2>1 DEF LockedFollows, Read
      <3>2. CASE avail[scen.end] = None
        BY <3>1, <3>2 DEF InUniverse
      <3>3. CASE avail[scen.end] # None
        <4>1. avail'[scen.end] = avail[scen.end]
          BY <1>3, <3>1, <3>3
        <4>2. InUniverse(scen)' = InUniverse(scen)
          BY <1>2, <4>1 DEF InUniverse
        <4> QED
          BY <3>1, <4>2
      <3> QED
        BY <3>2, <3>3
    <2> QED
      BY <1>2, <2>1 DEF LockedFollows, Read
  <1>6. /\ CopyIsTarget' /\ ReadAgain' /\ MetadataFollows' /\ EditsAreKept'
        /\ RunsWhatIsShown'
    BY <1>1, <1>2
       DEF CopyIsTarget, ReadAgain, MetadataFollows, EditsAreKept, RunsWhatIsShown
  <1> QED
    BY <1>4, <1>5, <1>6 DEF ScenarioInv

-----------------------------------------------------------------------------
(* The theorems                                                            *)

LEMMA ScenarioStart == Init => ScenarioInv
  <1> SUFFICES ASSUME Init PROVE ScenarioInv
    OBVIOUS
  <1>1. /\ file \in [Paths -> Scenario \union {NoScenario}]
        /\ orig \in Files \union {None} /\ copying = None
        /\ target \in {Cache, None} /\ watch = [path |-> None, fresh |-> TRUE]
        /\ scen = NoMetadata /\ reg = [ids |-> {}, editable |-> FALSE]
        /\ touched = TRUE /\ dirty = FALSE /\ trigger = TRUE
        /\ mode = "Replay" /\ prevMode = None
        /\ avail = [e \in Ends |-> None] /\ live = None
        /\ wanted = {} /\ theirs = TRUE /\ rewritten = FALSE /\ crossed = FALSE
        /\ refused = FALSE /\ moved = FALSE /\ sent = NothingSent
        /\ ops = 0
    BY DEF Init
  <1>2. \A c \in Scenario \union {NoScenario} :
           c \in Sidecars /\ (c.kind # "none" => c.end \in Ends)
    BY DEF Scenario, NoScenario, Sidecars
  <1>3. /\ file \in [Paths -> Sidecars]
        /\ \A p \in Paths : HasScenario(p) => file[p].end \in Ends
    BY <1>1, <1>2 DEF HasScenario
  <1>4. TypeInv
    <2>1. /\ target \in Paths \union {None}
          /\ watch \in [path : Paths \union {None}, fresh : BOOLEAN]
          /\ scen \in [ids : SUBSET Ids, end : Ends \union {None}]
          /\ reg \in [ids : SUBSET Ids, editable : BOOLEAN]
      BY <1>1, NamesApart DEF NoMetadata
    <2>2. /\ avail \in [Ends -> Universe] /\ live \in Universe
          /\ mode \in Modes /\ prevMode \in Modes \union {None}
          /\ wanted \in SUBSET Ids
      BY <1>1 DEF Universe, Modes
    <2>3. sent \in [ids : SUBSET Ids, shown : SUBSET Ids, editable : BOOLEAN]
      BY <1>1 DEF NothingSent
    <2> QED
      BY <1>1, <1>3, <2>1, <2>2, <2>3 DEF TypeInv
  <1>5. CopyIsTarget /\ ReadAgain /\ MetadataFollows /\ EditsAreKept
    BY <1>1 DEF CopyIsTarget, ReadAgain, MetadataFollows, EditsAreKept
  <1>6. RunsWhatIsShown
    BY <1>1 DEF RunsWhatIsShown, NothingSent
  <1>7. LockedFollows
    BY <1>1 DEF LockedFollows
  <1> QED
    BY <1>4, <1>5, <1>6, <1>7 DEF ScenarioInv

LEMMA ScenarioStep == ScenarioInv /\ [Next]_vars => ScenarioInv'
  <1> SUFFICES ASSUME ScenarioInv, [Next]_vars
               PROVE  ScenarioInv'
    OBVIOUS
  <1>1. CASE Frame
    BY <1>1, FrameKeeps
  <1>2. CASE SyncToCache
    BY <1>2, CopyKeeps
  <1>3. ASSUME NEW id \in Ids, Add(id) \/ Remove(id)
        PROVE  ScenarioInv'
    BY <1>3, EditKeeps
  <1>4. ASSUME NEW e \in Ends, CommitEnd(e)
        PROVE  ScenarioInv'
    BY <1>4, CommitKeeps
  <1>5. ASSUME NEW f \in Files, OpenStrategy(f)
        PROVE  ScenarioInv'
    BY <1>5, OpenKeeps
  <1>6. ASSUME NEW f \in Files, SaveAs(f)
        PROVE  ScenarioInv'
    BY <1>6, SaveKeeps DEF SaveAs
  <1>7. ASSUME NEW f \in Files, EditFile(f)
        PROVE  ScenarioInv'
    BY <1>7, OthersKeep
  <1>8. CASE LayoutAutosave
    BY <1>8, AutosaveKeeps
  <1>9. CASE ExecutionModeChanged
    BY <1>9, ModeKeeps
  <1>10. CASE TickersChanged \/ \E e \in Ends : AvailableLoaded(e)
    BY <1>10, UniverseKeeps
  <1>11. CASE Save
    <2>1. orig \in Files
      BY <1>11 DEF Save, ScenarioInv, TypeInv
    <2> QED
      BY <1>11, <2>1, SaveKeeps DEF Save
  <1>12. CASE UNCHANGED vars
    BY <1>12 DEF vars, files, reading, shown, modes, universe, ghosts, ScenarioInv,
       TypeInv, HasScenario, CopyIsTarget, ReadAgain, MetadataFollows, LockedFollows,
       InUniverse, EditsAreKept, RunsWhatIsShown
  <1> QED
    BY <1>1, <1>2, <1>3, <1>4, <1>5, <1>6, <1>7, <1>8, <1>9, <1>10, <1>11,
       <1>12 DEF Next

LEMMA ScenarioAlways == Spec => []ScenarioInv
  BY ScenarioStart, ScenarioStep, PTL DEF Spec

\* The four places of a scenario hold instruments and end dates, and every
\* sidecar with a scenario in it has an end date.
THEOREM TypeCorrect == Spec => []TypeInv
  <1>1. ScenarioInv => TypeInv
    BY DEF ScenarioInv
  <1> QED
    BY <1>1, ScenarioAlways, PTL

\* Whatever the application writes to the files it reads, no re-reading undoes
\* an edit of the sidebar, unless a file was rewritten before the edit was in it.
THEOREM EditsAlwaysKept == Spec => []EditsAreKept
  <1>1. ScenarioInv => EditsAreKept
    BY DEF ScenarioInv
  <1> QED
    BY <1>1, ScenarioAlways, PTL

\* A run of an editable list is sent with the instruments the sidebar shows,
\* whether they are taken from the list or from the metadata.
THEOREM RunGetsWhatIsShown == Spec => []RunsWhatIsShown
  <1>1. ScenarioInv => RunsWhatIsShown
    BY DEF ScenarioInv
  <1> QED
    BY <1>1, ScenarioAlways, PTL

\* Once the chain is at rest in Replay, a locked list that a live mode pruned
\* is again what the file lists and the universe of its end date has.
THEOREM LockedAlwaysRestored == Spec => []LockedIsRestored
  <1>1. ScenarioInv => LockedIsRestored
    BY DEF ScenarioInv, LockedFollows, InUniverse, LockedIsRestored
  <1> QED
    BY <1>1, ScenarioAlways, PTL

-----------------------------------------------------------------------------
(* The controls of a run                                                   *)

Stages == {"none", "loading", "bar", "paused", "held", "step", "push", "over", "done"}

Whats == {"pause", "resume", "run", "step", "force_stop", "restart", "load_and_step"}

ReplayType ==
    /\ cmds \in Seq([what : Whats, id : Nat])
    /\ ctl \in Run \union {0}
    /\ gate \in [Run -> [go : BOOLEAN, token : BOOLEAN]]
    /\ thread \in [Run -> [at : Stages, left : Int]]
    /\ launched \in 0 .. MaxRuns
    /\ ghost \in [given : Nat, shown : Nat]

\* Startup ids are started in the order in which they were given out: those
\* that wait for the worker are above those it has started.
Waits(i) == i \in 1 .. Len(cmds) /\ cmds[i].what = "run"

InOrder ==
    /\ \A i \in 1 .. Len(cmds) : Waits(i) => cmds[i].id \in 1 .. launched
    /\ \A i, j \in 1 .. Len(cmds) : Waits(i) /\ Waits(j) /\ i < j => cmds[i].id < cmds[j].id
    /\ \A r \in Run : Started(r) => r <= launched
    /\ \A r \in Run : \A i \in 1 .. Len(cmds) : Started(r) /\ Waits(i) => r < cmds[i].id

\* A run that has not begun finds its events as they are made.
NewIsFresh == \A r \in Run : ~Started(r) => gate[r] = Fresh

\* What the run that is controlled will show without another step: the bar it
\* has let through, and the step that lies there for it.
Through(r) == IF thread[r].at \in {"step", "push"} THEN 1 ELSE 0
Lies(r)    == IF gate[r].token /\ thread[r].at # "step" THEN 1 ELSE 0

Accounted ==
    /\ ctl = 0 => ghost = Unheld
    /\ ctl # 0 =>
        /\ ghost.shown + Through(ctl) + Lies(ctl) <= ghost.given + 1
        /\ gate[ctl].go => ghost.shown = 0 /\ (gate[ctl].token => ghost.given >= 1)

IInv == ReplayType /\ InOrder /\ NewIsFresh /\ Accounted /\ ControlsReachLatest

-----------------------------------------------------------------------------
LEMMA InitIInv == ReplayInit => IInv
  <1> SUFFICES ASSUME ReplayInit PROVE IInv
    OBVIOUS
  <1> USE ConstantsAssumption DEF ReplayInit
  <1>1. ReplayType
    BY DEF ReplayType, Stages, Run, Fresh, Unheld
  <1>2. InOrder
    BY DEF InOrder, Waits, Started
  <1>3. NewIsFresh /\ Accounted
    BY DEF NewIsFresh, Accounted
  <1>4. ControlsReachLatest
    BY DEF ControlsReachLatest, IsLatest, Started, Alive
  <1> QED
    BY <1>1, <1>2, <1>3, <1>4 DEF IInv

(* What the steps have in common *)

\* The fields of events and threads, set one at a time.
LEMMA SetGo ==
    ASSUME NEW S, NEW T, NEW g \in [go : S, token : T], NEW v \in S
    PROVE  [g EXCEPT !.go = v] = [go |-> v, token |-> g.token]
  OBVIOUS

LEMMA SetAt ==
    ASSUME NEW S, NEW T, NEW g \in [at : S, left : T], NEW v \in S
    PROVE  [g EXCEPT !.at = v] = [at |-> v, left |-> g.left]
  OBVIOUS

LEMMA SendKeeps ==
    ASSUME IInv, NEW c \in [what : Whats, id : Nat], Send(c), UNCHANGED python,
           launched' \in {launched, launched + 1}, launched' <= MaxRuns,
           c.what = "run" => c.id = launched' /\ launched' = launched + 1
    PROVE  IInv'
  <1> USE ConstantsAssumption
  <1>1. ReplayType'
    BY DEF IInv, ReplayType, Send, python, Run
  <1>2. /\ Len(cmds') = Len(cmds) + 1 /\ Len(cmds) \in Nat
        /\ \A i \in 1 .. Len(cmds) : cmds'[i] = cmds[i]
        /\ cmds'[Len(cmds) + 1] = c
    BY DEF IInv, ReplayType, Send
  <1>3. InOrder'
    <2> DEFINE old == 1 .. Len(cmds)
               new == Len(cmds) + 1
    <2>1. /\ 1 .. Len(cmds') = old \union {new}
          /\ \A i \in old : cmds'[i] = cmds[i] /\ (Waits(i)' <=> Waits(i))
          /\ cmds'[new] = c
          /\ launched \in Nat /\ launched' \in Nat /\ launched' >= launched
      <3>1. 1 .. Len(cmds') = old \union {new}
        BY <1>2
      <3>2. \A i \in old : Waits(i)' <=> Waits(i)
        BY <1>2, <3>1 DEF Waits
      <3>3. launched \in Nat /\ launched' \in Nat /\ launched' >= launched
        BY <1>1 DEF IInv, ReplayType
      <3> QED
        BY <1>2, <3>2, <3>1, <3>3
    <2>2. \A i \in old : Waits(i) => cmds[i].id \in 1 .. launched
      BY DEF IInv, InOrder
    <2>3. \A i : i = new /\ Waits(i)' => c.id = launched + 1 /\ launched' = launched + 1
      BY <2>1 DEF Waits
    <2>4. ASSUME NEW i \in 1 .. Len(cmds'), Waits(i)'
          PROVE  cmds'[i].id \in 1 .. launched'
      <3>1. CASE i \in old
        BY <2>1, <2>2, <2>4, <3>1
      <3>2. CASE i = new
        BY <2>1, <2>3, <2>4, <3>2
      <3> QED
        BY <2>1, <3>1, <3>2
    <2>5. ASSUME NEW i \in 1 .. Len(cmds'), NEW j \in 1 .. Len(cmds'),
                 Waits(i)', Waits(j)', i < j
          PROVE  cmds'[i].id < cmds'[j].id
      <3>1. \A k, m \in old : Waits(k) /\ Waits(m) /\ k < m => cmds[k].id < cmds[m].id
        BY DEF IInv, InOrder
      <3>2. i \in old
        BY <1>2, <2>1, <2>5
      <3>3. CASE j \in old
        BY <2>1, <2>5, <3>1, <3>2, <3>3
      <3>4. CASE j = new
        <4>1. cmds'[i] = cmds[i] /\ cmds[i].id \in 1 .. launched
          BY <2>1, <2>2, <2>5, <3>2
        <4>2. cmds'[j] = c /\ c.id = launched + 1
          BY <2>1, <2>3, <2>5, <3>4
        <4> QED
          BY <2>1, <4>1, <4>2
      <3> QED
        BY <2>1, <3>3, <3>4
    <2>6. \A r \in Run : Started(r)' <=> Started(r)
      BY DEF Started, python
    <2>7. \A r \in Run : Started(r) => r <= launched /\ r <= launched'
      BY <2>1 DEF IInv, InOrder, Run
    <2>8. \A r \in Run : \A i \in 1 .. Len(cmds') :
              Started(r)' /\ Waits(i)' => r < cmds'[i].id
      <3>1. \A r \in Run : \A i \in old : Started(r) /\ Waits(i) => r < cmds[i].id
        BY DEF IInv, InOrder
      <3> SUFFICES ASSUME NEW r \in Run, NEW i \in 1 .. Len(cmds'), Started(r)', Waits(i)'
                   PROVE  r < cmds'[i].id
        OBVIOUS
      <3>2. Started(r) /\ r \in Nat /\ r <= launched
        BY <2>6, <2>7 DEF Run
      <3>3. CASE i \in old
        <4>1. Waits(i) /\ cmds'[i] = cmds[i]
          BY <2>1, <3>3
        <4> QED
          BY <3>1, <3>2, <3>3, <4>1
      <3>4. CASE i = new
        <4>1. cmds'[i].id = launched + 1
          BY <2>1, <2>3, <3>4
        <4> QED
          BY <2>1, <3>2, <4>1
      <3> QED
        BY <2>1, <3>3, <3>4
    <2> QED
      BY <2>4, <2>5, <2>6, <2>7, <2>8 DEF InOrder
  <1>4. NewIsFresh' /\ Accounted' /\ ControlsReachLatest'
    BY DEF IInv, NewIsFresh, Accounted, ControlsReachLatest, IsLatest, Started, Alive,
           python, Through, Lies
  <1> QED
    BY <1>1, <1>3, <1>4 DEF IInv

LEMMA TakeKeeps ==
    ASSUME ReplayType, InOrder, NEW what, Takes(what), UNCHANGED <<thread, launched>>
    PROVE  InOrder' /\ cmds' \in Seq([what : Whats, id : Nat])
  <1>1. /\ Len(cmds) \in Nat \ {0} /\ Len(cmds') = Len(cmds) - 1
        /\ \A i \in 1 .. Len(cmds') : cmds'[i] = cmds[i + 1]
        /\ cmds' \in Seq([what : Whats, id : Nat])
    BY DEF ReplayType, Takes
  <1>2. \A i \in 1 .. Len(cmds') : /\ i + 1 \in 1 .. Len(cmds)
                                   /\ cmds'[i] = cmds[i + 1]
                                   /\ Waits(i)' <=> Waits(i + 1)
    BY <1>1 DEF Waits
  <1>3. \A r \in Run : Started(r)' <=> Started(r)
    BY DEF Started
  <1>4. \A i \in 1 .. Len(cmds') : Waits(i)' => cmds'[i].id \in 1 .. launched'
    <2>1. \A i \in 1 .. Len(cmds) : Waits(i) => cmds[i].id \in 1 .. launched
      BY DEF InOrder
    <2>2. launched' = launched
      OBVIOUS
    <2> QED
      BY <1>2, <2>1, <2>2
  <1>5. \A i, j \in 1 .. Len(cmds') :
            Waits(i)' /\ Waits(j)' /\ i < j => cmds'[i].id < cmds'[j].id
    BY <1>2 DEF InOrder
  <1>6. \A r \in Run : \A i \in 1 .. Len(cmds') :
            Started(r)' /\ Waits(i)' => r < cmds'[i].id
    BY <1>2, <1>3 DEF InOrder
  <1> QED
    BY <1>1, <1>3, <1>4, <1>5, <1>6 DEF InOrder

\* A thread that has begun goes on to another stage.
LEMMA MoveKeeps ==
    ASSUME IInv, NEW r \in Run, Started(r), UNCHANGED <<cmds, launched>>,
           NEW s \in [at : Stages, left : Int], s.at # "none",
           thread' = [thread EXCEPT ![r] = s]
    PROVE  /\ thread' \in [Run -> [at : Stages, left : Int]]
           /\ thread'[r] = s /\ \A q \in Run \ {r} : thread'[q] = thread[q]
           /\ \A q \in Run : Started(q)' <=> Started(q)
           /\ InOrder'
  <1>1. /\ thread' \in [Run -> [at : Stages, left : Int]]
        /\ thread'[r] = s /\ \A q \in Run \ {r} : thread'[q] = thread[q]
    BY DEF IInv, ReplayType
  <1>2. \A q \in Run : Started(q)' <=> Started(q)
    BY <1>1 DEF Started
  <1>3. InOrder'
    BY <1>2 DEF IInv, InOrder, Waits
  <1> QED
    BY <1>1, <1>2, <1>3

\* It goes on without a change of its events, and not to its end.
LEMMA GoOnKeeps ==
    ASSUME IInv, NEW r \in Run, NEW s \in [at : Stages, left : Int],
           s.at \notin {"none", "done"}, Alive(r), thread' = [thread EXCEPT ![r] = s],
           UNCHANGED <<cmds, launched, ctl, gate>>,
           ghost' \in [given : Nat, shown : Nat], Accounted'
    PROVE  IInv'
  <1> USE ConstantsAssumption
  <1>1. Started(r)
    BY DEF Started, Alive
  <1>2. /\ thread' \in [Run -> [at : Stages, left : Int]]
        /\ thread'[r] = s /\ \A q \in Run \ {r} : thread'[q] = thread[q]
        /\ \A q \in Run : Started(q)' <=> Started(q)
        /\ InOrder'
    BY <1>1, MoveKeeps
  <1>3. ReplayType'
    BY <1>2 DEF IInv, ReplayType
  <1>4. NewIsFresh'
    BY <1>2 DEF IInv, NewIsFresh
  <1>5. \A q \in Run : Alive(q)' <=> Alive(q)
    BY <1>2 DEF Alive
  <1>6. ControlsReachLatest'
    BY <1>2, <1>5 DEF IInv, ReplayType, ControlsReachLatest, IsLatest
  <1> QED
    BY <1>2, <1>3, <1>4, <1>6 DEF IInv

\* The commands that only change the events of the run that is controlled.
LEMMA SteerKeeps ==
    ASSUME IInv, NEW what, Takes(what), UNCHANGED <<ctl, thread, launched>>,
           gate' = gate \/ (ctl # 0 /\ \E g \in [go : BOOLEAN, token : BOOLEAN] :
                                           gate' = [gate EXCEPT ![ctl] = g]),
           ghost' \in [given : Nat, shown : Nat], Accounted'
    PROVE  IInv'
  <1>1. InOrder' /\ cmds' \in Seq([what : Whats, id : Nat])
    BY TakeKeeps DEF IInv
  <1>2. ReplayType'
    <2>1. gate' \in [Run -> [go : BOOLEAN, token : BOOLEAN]]
      BY DEF IInv, ReplayType
    <2> QED
      BY <1>1, <2>1 DEF IInv, ReplayType
  <1>3. NewIsFresh'
    BY DEF IInv, ReplayType, NewIsFresh, Started, ControlsReachLatest, Alive
  <1>4. ControlsReachLatest'
    BY DEF IInv, ControlsReachLatest, IsLatest, Started, Alive
  <1> QED
    BY <1>1, <1>2, <1>3, <1>4 DEF IInv

-----------------------------------------------------------------------------
LEMMA PersonKeeps == IInv /\ Person => IInv'
  <1> SUFFICES ASSUME IInv, Person PROVE IInv'
    OBVIOUS
  <1> USE ConstantsAssumption
  <1>1. launched \in Nat /\ launched <= MaxRuns
    BY DEF IInv, ReplayType
  <1>2. ASSUME NEW what \in {"pause", "resume", "step", "force_stop", "restart"},
               Send(Command(what, 0)), UNCHANGED <<python, launched>>
        PROVE  IInv'
    <2> DEFINE c == Command(what, 0)
    <2>1. c \in [what : Whats, id : Nat] /\ c.what # "run"
      <3>1. what \in Whats /\ what # "run"
        BY <1>2 DEF Whats
      <3>2. c.what = what /\ c \in [what : {what}, id : Nat]
        BY DEF Command
      <3> HIDE DEF c
      <3> QED
        BY <3>1, <3>2
    <2>2. launched' \in {launched, launched + 1} /\ launched' <= MaxRuns
      BY <1>1, <1>2
    <2>3. Send(c) /\ UNCHANGED python
      BY <1>2
    <2> HIDE DEF c
    <2> QED
      BY <2>1, <2>2, <2>3, SendKeeps
  <1>3. ASSUME NEW what \in {"run", "load_and_step"}, Launch(what), UNCHANGED python
        PROVE  IInv'
    <2> DEFINE c == Command(what, launched')
    <2>1. launched < MaxRuns /\ launched' = launched + 1 /\ Send(c)
      BY <1>3 DEF Launch
    <2>2. c \in [what : Whats, id : Nat] /\ c.id = launched'
      <3>1. launched' \in Nat
        BY <1>1, <2>1
      <3> QED
        BY <1>3, <3>1 DEF Command, Whats
    <2>3. launched' \in {launched, launched + 1} /\ launched' <= MaxRuns
      BY <1>1, <2>1
    <2> HIDE DEF c
    <2> QED
      BY <1>3, <2>1, <2>2, <2>3, SendKeeps
  <1>4. ASSUME UNCHANGED <<python, cmds, launched>> PROVE IInv'
    BY <1>4 DEF IInv, ReplayType, InOrder, Waits, Started, NewIsFresh, Accounted, Through,
                Lies, ControlsReachLatest, IsLatest, Alive, python
  <1>5. CASE PressPause
    BY <1>2, <1>5 DEF PressPause
  <1>6. CASE PressResume
    BY <1>2, <1>6 DEF PressResume
  <1>7. CASE PressRun
    BY <1>3, <1>7 DEF PressRun
  <1>8. CASE PressRunInVain
    BY <1>4, <1>8 DEF PressRunInVain
  <1>9. CASE PressStep
    BY <1>2, <1>3, <1>9 DEF PressStep
  <1>10. CASE PressStop
    BY <1>2, <1>10 DEF PressStop
  <1>11. CASE PressJumpToStart
    BY <1>2, <1>11 DEF PressJumpToStart
  <1> QED
    BY <1>5, <1>6, <1>7, <1>8, <1>9, <1>10, <1>11 DEF Person

-----------------------------------------------------------------------------
\* The run whose events are held has begun; what is known of its account.
LEMMA Known ==
    ASSUME IInv
    PROVE  /\ ctl \in Run \union {0} /\ ghost.given \in Nat /\ ghost.shown \in Nat
           /\ 0 \notin Run
           /\ ctl # 0 => /\ ctl \in Run /\ Alive(ctl)
                         /\ gate[ctl].go \in BOOLEAN /\ gate[ctl].token \in BOOLEAN
  BY ConstantsAssumption DEF IInv, ReplayType, ControlsReachLatest, Run

LEMMA WorkerKeeps == IInv /\ Worker => IInv'
  <1> SUFFICES ASSUME IInv, Worker PROVE IInv'
    OBVIOUS
  <1> USE ConstantsAssumption
  <1>1. CASE Pause
    <2>1. /\ gate' = gate \/ (ctl # 0 /\ \E g \in [go : BOOLEAN, token : BOOLEAN] :
                                             gate' = [gate EXCEPT ![ctl] = g])
          /\ ghost' \in [given : Nat, shown : Nat]
      <3>1. CASE ctl = 0
        BY <1>1, <3>1 DEF Pause, IInv, ReplayType
      <3>2. CASE ctl # 0
        <4>1. gate' = [gate EXCEPT ![ctl] = [go |-> FALSE, token |-> gate[ctl].token]]
          <5>1. gate' = [gate EXCEPT ![ctl].go = FALSE]
            BY <1>1, <3>2 DEF Pause
          <5>2. ctl \in Run /\ gate \in [Run -> [go : BOOLEAN, token : BOOLEAN]]
            BY <3>2, Known DEF IInv, ReplayType
          <5>3. [gate[ctl] EXCEPT !.go = FALSE] = [go |-> FALSE, token |-> gate[ctl].token]
            BY <5>2, SetGo
          <5> QED
            BY <5>1, <5>2, <5>3
        <4>2. [go |-> FALSE, token |-> gate[ctl].token] \in [go : BOOLEAN, token : BOOLEAN]
          BY <3>2, Known
        <4> QED
          BY <1>1, <3>2, <4>1, <4>2 DEF Pause, IInv, ReplayType
      <3> QED
        BY <3>1, <3>2
    <2>2. Accounted'
      BY <1>1, Known DEF Pause, IInv, ReplayType, Accounted, Through, Lies
    <2> QED
      BY <1>1, <2>1, <2>2, SteerKeeps DEF Pause
  <1>2. CASE Resume
    <2>1. /\ gate' = gate \/ (ctl # 0 /\ \E g \in [go : BOOLEAN, token : BOOLEAN] :
                                             gate' = [gate EXCEPT ![ctl] = g])
          /\ ghost' \in [given : Nat, shown : Nat]
      BY <1>2 DEF Resume, Fresh, Unheld
    <2>2. Accounted'
      BY <1>2, Known DEF Resume, IInv, ReplayType, Accounted, Through, Lies, Fresh, Unheld
    <2> QED
      BY <1>2, <2>1, <2>2, SteerKeeps DEF Resume
  <1>3. CASE StepForward
    <2>1. /\ gate' = gate \/ (ctl # 0 /\ \E g \in [go : BOOLEAN, token : BOOLEAN] :
                                             gate' = [gate EXCEPT ![ctl] = g])
          /\ ghost' \in [given : Nat, shown : Nat]
      <3>1. CASE ctl = 0
        BY <1>3, <3>1 DEF StepForward, IInv, ReplayType
      <3>2. CASE ctl # 0
        <4>1. gate' = [gate EXCEPT ![ctl] = [go |-> gate[ctl].go, token |-> TRUE]]
          BY <1>3, <3>2, Known DEF StepForward, IInv, ReplayType
        <4>2. [go |-> gate[ctl].go, token |-> TRUE] \in [go : BOOLEAN, token : BOOLEAN]
          BY <3>2, Known
        <4>3. ghost' \in [given : Nat, shown : Nat]
          BY <1>3, <3>2, Known DEF StepForward, IInv, ReplayType
        <4> QED
          BY <3>2, <4>1, <4>2, <4>3
      <3> QED
        BY <3>1, <3>2
    <2>2. Accounted'
      <3>1. CASE ctl = 0
        BY <1>3, <3>1 DEF StepForward, IInv, Accounted
      <3>2. CASE ctl # 0
        <4> DEFINE g == gate[ctl]
        <4>1. /\ ctl' = ctl /\ thread' = thread /\ ghost'.shown = ghost.shown
              /\ gate'[ctl].go = g.go /\ gate'[ctl].token
              /\ ghost'.given = IF g.token THEN ghost.given ELSE ghost.given + 1
          BY <1>3, <3>2, Known DEF StepForward, IInv, ReplayType
        <4>2. /\ ghost.shown + Through(ctl) + Lies(ctl) <= ghost.given + 1
              /\ g.go => ghost.shown = 0 /\ (g.token => ghost.given >= 1)
          BY <3>2 DEF IInv, Accounted
        <4>3. Through(ctl)' = Through(ctl) /\ Through(ctl) \in {0, 1}
          BY <4>1 DEF Through
        <4>4. /\ Lies(ctl)' \in {0, 1} /\ Lies(ctl) \in {0, 1}
              /\ g.token => Lies(ctl)' = Lies(ctl)
          BY <4>1 DEF Lies
        <4>5. /\ ghost'.shown + Through(ctl)' + Lies(ctl)' <= ghost'.given + 1
              /\ g.go => ghost'.shown = 0 /\ ghost'.given >= 1
          BY <4>1, <4>2, <4>3, <4>4, Known
        <4> QED
          BY <3>2, <4>1, <4>5 DEF Accounted, Through, Lies
      <3> QED
        BY <3>1, <3>2
    <2> QED
      BY <1>3, <2>1, <2>2, SteerKeeps DEF StepForward
  <1>4. CASE ForceStop
    <2>1. ghost' \in [given : Nat, shown : Nat] /\ Accounted'
      BY <1>4 DEF ForceStop, IInv, ReplayType, Accounted, Through, Lies
    <2> QED
      BY <1>4, <2>1, SteerKeeps DEF ForceStop
  <1>5. CASE RestartReplay
    <2>1. ghost' \in [given : Nat, shown : Nat] /\ Accounted'
      BY <1>5 DEF RestartReplay, IInv, ReplayType, Accounted, Through, Lies
    <2> QED
      BY <1>5, <2>1, SteerKeeps DEF RestartReplay
  <1>6. CASE LoadAndStep
    <2>1. ghost' \in [given : Nat, shown : Nat] /\ Accounted'
      BY <1>6 DEF LoadAndStep, python, IInv, ReplayType, Accounted, Through, Lies
    <2> QED
      BY <1>6, <2>1, SteerKeeps DEF LoadAndStep, python
  <1>7. CASE Poll
    BY <1>7 DEF Poll, IInv, ReplayType, InOrder, Waits, Started, NewIsFresh, Accounted,
                Through, Lies, ControlsReachLatest, IsLatest, Alive, python
  <1>8. CASE RunStrategy
    <2> DEFINE r == Head(cmds).id
    <2>1. Takes("run") /\ UNCHANGED launched
      BY <1>8 DEF RunStrategy
    <2>2. Waits(1) /\ r = cmds[1].id /\ 1 \in 1 .. Len(cmds)
      BY <2>1 DEF Takes, IInv, ReplayType, Waits
    <2>3. r \in Run /\ ~Started(r) /\ (\A q \in Run : Started(q) => q < r)
      <3>1. r \in 1 .. launched
        BY <2>2 DEF IInv, InOrder
      <3>2. launched \in Nat /\ launched <= MaxRuns /\ MaxRuns \in Nat
        BY DEF IInv, ReplayType
      <3>3. r \in Run
        BY <3>1, <3>2 DEF Run
      <3>4. \A q \in Run : Started(q) => q < r
        BY <2>2 DEF IInv, InOrder
      <3>5. ~Started(r)
        BY <3>1, <3>2, <3>3, <3>4
      <3> QED
        BY <3>3, <3>4, <3>5
    <2>4. CASE UNCHANGED <<ctl, gate, thread, ghost>>
      <3>1. ghost' \in [given : Nat, shown : Nat] /\ Accounted'
        BY <2>4 DEF IInv, ReplayType, Accounted, Through, Lies
      <3> QED
        BY <2>1, <2>4, <3>1, SteerKeeps
    <2>5. CASE /\ ctl' = r /\ thread' = [thread EXCEPT ![r].at = "loading"]
               /\ ghost' = Unheld /\ UNCHANGED gate
      <3>1. /\ thread' \in [Run -> [at : Stages, left : Int]]
            /\ thread'[r].at = "loading"
            /\ \A q \in Run : q # r => thread'[q] = thread[q]
        <4>1. thread \in [Run -> [at : Stages, left : Int]] /\ "loading" \in Stages
          BY DEF IInv, ReplayType, Stages
        <4> QED
          BY <2>3, <2>5, <4>1
      <3>2. /\ Len(cmds) \in Nat \ {0} /\ Len(cmds') = Len(cmds) - 1
            /\ \A i \in 1 .. Len(cmds') : cmds'[i] = cmds[i + 1]
            /\ cmds' \in Seq([what : Whats, id : Nat])
        BY <2>1 DEF IInv, ReplayType, Takes
      <3>3. \A i \in 1 .. Len(cmds') : /\ i + 1 \in 1 .. Len(cmds)
                                       /\ cmds'[i] = cmds[i + 1]
                                       /\ Waits(i)' <=> Waits(i + 1)
        <4>1. \A i \in 1 .. Len(cmds') : i + 1 \in 1 .. Len(cmds) /\ cmds'[i] = cmds[i + 1]
          BY <3>2
        <4>2. ASSUME NEW i \in 1 .. Len(cmds') PROVE Waits(i)' <=> Waits(i + 1)
          BY <4>1 DEF Waits
        <4> QED
          BY <4>1, <4>2
      <3>4. \A q \in Run : Started(q)' <=> Started(q) \/ q = r
        BY <3>1 DEF Started
      <3>5. ReplayType'
        BY <2>1, <2>3, <2>5, <3>1, <3>2 DEF IInv, ReplayType, Unheld
      <3>6. InOrder'
        <4>1. \A i \in 1 .. Len(cmds) : Waits(i) => cmds[i].id \in 1 .. launched
          BY DEF IInv, InOrder
        <4>2. \A i, j \in 1 .. Len(cmds) :
                  Waits(i) /\ Waits(j) /\ i < j => cmds[i].id < cmds[j].id
          BY DEF IInv, InOrder
        <4>3. \A q \in Run : Started(q) => q <= launched
          BY DEF IInv, InOrder
        <4>4. \A q \in Run : \A i \in 1 .. Len(cmds) :
                  Started(q) /\ Waits(i) => q < cmds[i].id
          BY DEF IInv, InOrder
        <4>5. r <= launched /\ launched' = launched
          BY <2>1, <2>2, <4>1
        <4>6. \A i \in 1 .. Len(cmds') : Waits(i)' => r < cmds'[i].id
          <5> SUFFICES ASSUME NEW i \in 1 .. Len(cmds'), Waits(i)'
                       PROVE  r < cmds'[i].id
            OBVIOUS
          <5>1. /\ i + 1 \in 1 .. Len(cmds) /\ Waits(i + 1)
                /\ cmds'[i] = cmds[i + 1] /\ 1 < i + 1
            BY <3>3
          <5>2. cmds[1].id < cmds[i + 1].id
            BY <2>2, <4>2, <5>1
          <5> QED
            BY <2>2, <5>1, <5>2
        <4>7. \A i \in 1 .. Len(cmds') : Waits(i)' => cmds'[i].id \in 1 .. launched'
          BY <3>3, <4>1, <4>5
        <4>8. \A i, j \in 1 .. Len(cmds') :
                  Waits(i)' /\ Waits(j)' /\ i < j => cmds'[i].id < cmds'[j].id
          <5> SUFFICES ASSUME NEW i \in 1 .. Len(cmds'), NEW j \in 1 .. Len(cmds'),
                              Waits(i)', Waits(j)', i < j
                       PROVE  cmds'[i].id < cmds'[j].id
            OBVIOUS
          <5>1. /\ i + 1 \in 1 .. Len(cmds) /\ j + 1 \in 1 .. Len(cmds)
                /\ Waits(i + 1) /\ Waits(j + 1)
                /\ cmds'[i] = cmds[i + 1] /\ cmds'[j] = cmds[j + 1]
            BY <3>3
          <5>2. i + 1 < j + 1
            OBVIOUS
          <5>3. cmds[i + 1].id < cmds[j + 1].id
            BY <4>2, <5>1, <5>2
          <5> QED
            BY <5>1, <5>3
        <4>9. \A q \in Run : Started(q)' => q <= launched'
          BY <3>4, <4>3, <4>5
        <4>10. \A q \in Run : \A i \in 1 .. Len(cmds') :
                   Started(q)' /\ Waits(i)' => q < cmds'[i].id
          BY <3>3, <3>4, <4>4, <4>6
        <4> QED
          BY <4>7, <4>8, <4>9, <4>10 DEF InOrder
      <3>7. NewIsFresh'
        BY <2>5, <3>4 DEF IInv, NewIsFresh
      <3>8. gate[r] = Fresh
        BY <2>3 DEF IInv, NewIsFresh
      <3>9. Accounted'
        <4>1. ctl' = r /\ r # 0 /\ ghost'.given = 0 /\ ghost'.shown = 0
              /\ gate'[r].go /\ ~gate'[r].token /\ thread'[r].at = "loading"
          BY <2>3, <2>5, <3>1, <3>8 DEF Run, Unheld, Fresh
        <4> HIDE DEF r
        <4> QED
          BY <4>1 DEF Accounted, Through, Lies
      <3>10. ControlsReachLatest'
        <4>1. ctl' = r /\ thread'[r].at = "loading"
          BY <2>5, <3>1
        <4>2. \A q \in Run : IsLatest(q)' => q = r
          BY <2>3, <3>4 DEF IsLatest, Run
        <4> HIDE DEF r
        <4> QED
          BY <4>1, <4>2 DEF ControlsReachLatest, Alive
      <3> QED
        BY <3>5, <3>6, <3>7, <3>9, <3>10 DEF IInv
    <2> QED
      BY <1>8, <2>4, <2>5 DEF RunStrategy
  <1> QED
    BY <1>1, <1>2, <1>3, <1>4, <1>5, <1>6, <1>7, <1>8 DEF Worker

-----------------------------------------------------------------------------
\* The thread is that of a run, and it has begun.
LEMMA ThreadKeeps == ASSUME IInv, NEW r \in Run, Thread(r) PROVE IInv'
  <1> USE ConstantsAssumption
  <1>1. /\ ghost \in [given : Nat, shown : Nat] /\ thread \in [Run -> [at : Stages, left : Int]]
        /\ gate \in [Run -> [go : BOOLEAN, token : BOOLEAN]]
        /\ ctl # 0 => ctl \in Run
    BY DEF IInv, ReplayType
  <1>2. ASSUME NEW at \in Stages \ {"none", "done"}, Alive(r), Goto(r, at),
               UNCHANGED <<cmds, launched, ctl, gate, ghost>>,
               at = "step" => gate[r].token, at = "push" => gate[r].go
        PROVE  IInv'
    <2> DEFINE s == [at |-> at, left |-> thread[r].left]
    <2>1. s \in [at : Stages, left : Int] /\ s.at \notin {"none", "done"}
      BY <1>1, <1>2
    <2>2. thread' = [thread EXCEPT ![r] = s]
      <3>1. thread' = [thread EXCEPT ![r].at = at]
        BY <1>2 DEF Goto
      <3>2. thread[r] \in [at : Stages, left : Int]
        BY <1>1
      <3>3. [thread[r] EXCEPT !.at = at] = s
        BY <1>2, <3>2, SetAt
      <3> QED
        BY <1>1, <3>1, <3>3
    <2>3. Accounted'
      <3>1. \A q \in Run : q # r => thread'[q] = thread[q]
        BY <1>1, <2>2
      <3>2. thread'[r].at = at
        BY <1>1, <2>2
      <3>3. CASE ctl # r
        BY <1>1, <1>2, <3>1, <3>3 DEF IInv, Accounted, Through, Lies
      <3>4. CASE ctl = r
        <4>1. /\ ghost.shown + Through(r) + Lies(r) <= ghost.given + 1
              /\ gate[r].go => ghost.shown = 0 /\ (gate[r].token => ghost.given >= 1)
              /\ r # 0
          BY <3>4 DEF IInv, Accounted, Run
        <4>2. ghost.shown \in Nat /\ ghost.given \in Nat
          BY <1>1
        <4>3. ghost.shown + Through(r)' + Lies(r)' <= ghost.given + 1
          <5> DEFINE was == thread[r].at
          <5>1. /\ Through(r)' = IF at \in {"step", "push"} THEN 1 ELSE 0
                /\ Lies(r)' = IF gate[r].token /\ at # "step" THEN 1 ELSE 0
            BY <1>2, <3>2 DEF Through, Lies
          <5>2. /\ Through(r) = IF was \in {"step", "push"} THEN 1 ELSE 0
                /\ Lies(r) = IF gate[r].token /\ was # "step" THEN 1 ELSE 0
            BY DEF Through, Lies
          <5>3. CASE at = "step"
            BY <1>2, <4>1, <4>2, <5>1, <5>2, <5>3
          <5>4. CASE at = "push"
            BY <1>2, <4>1, <4>2, <5>1, <5>2, <5>4
          <5>5. CASE at \notin {"step", "push"}
            BY <1>2, <4>1, <4>2, <5>1, <5>2, <5>5
          <5> QED
            BY <5>3, <5>4, <5>5
        <4> QED
          BY <1>2, <3>4, <4>1, <4>3 DEF Accounted, Through, Lies
      <3> QED
        BY <3>3, <3>4
    <2> HIDE DEF s
    <2> QED
      BY <1>1, <1>2, <2>1, <2>2, <2>3, GoOnKeeps
  <1>3. ASSUME Alive(r), ThreadEnds(r), UNCHANGED <<cmds, launched, ctl, gate, ghost>>
        PROVE  IInv'
    <2> DEFINE s == [at |-> "over", left |-> 0]
    <2>1. s \in [at : Stages, left : Int] /\ s.at \notin {"none", "done"}
      BY DEF Stages
    <2>2. thread' = [thread EXCEPT ![r] = s]
      BY <1>3 DEF ThreadEnds
    <2>3. Accounted'
      BY <1>1, <1>3, <2>2 DEF IInv, Accounted, Through, Lies
    <2> HIDE DEF s
    <2> QED
      BY <1>1, <1>3, <2>1, <2>2, <2>3, GoOnKeeps
  <1>4. CASE Load(r)
    BY <1>2, <1>4 DEF Load, Alive, Stages
  <1>5. CASE Fails(r)
    BY <1>3, <1>5 DEF Fails, Alive
  <1>6. CASE LookAtPause(r)
    <2> DEFINE at == IF gate[r].go THEN "push" ELSE "paused"
    <2>1. /\ at \in Stages \ {"none", "done"} /\ Alive(r) /\ Goto(r, at)
          /\ UNCHANGED <<cmds, launched, ctl, gate, ghost>>
          /\ at # "step" /\ (at = "push" => gate[r].go)
      BY <1>6 DEF LookAtPause, Alive, Stages
    <2> HIDE DEF at
    <2> QED
      BY <1>2, <2>1
  <1>7. CASE LookAtStep(r)
    <2> DEFINE at == IF gate[r].token THEN "step" ELSE "held"
    <2>1. /\ at \in Stages \ {"none", "done"} /\ Alive(r) /\ Goto(r, at)
          /\ UNCHANGED <<cmds, launched, ctl, gate, ghost>>
          /\ at # "push" /\ (at = "step" => gate[r].token)
      BY <1>7 DEF LookAtStep, Alive, Stages
    <2> HIDE DEF at
    <2> QED
      BY <1>2, <2>1
  <1>8. CASE TakeStep(r)
    <2>1. /\ Alive(r) /\ Started(r) /\ thread[r].at = "step"
          /\ UNCHANGED <<cmds, launched, ctl, ghost>>
      BY <1>8 DEF TakeStep, Alive, Started
    <2>2. /\ thread' \in [Run -> [at : Stages, left : Int]]
          /\ thread'[r].at = "push" /\ \A q \in Run : q # r => thread'[q] = thread[q]
      BY <1>1, <1>8 DEF TakeStep, Goto, Stages
    <2>3. /\ gate' \in [Run -> [go : BOOLEAN, token : BOOLEAN]]
          /\ gate'[r].go = gate[r].go /\ ~gate'[r].token
          /\ \A q \in Run : q # r => gate'[q] = gate[q]
      BY <1>1, <1>8 DEF TakeStep
    <2>4. \A q \in Run : (Started(q)' <=> Started(q)) /\ (Alive(q)' <=> Alive(q))
      BY <2>1, <2>2 DEF Started, Alive
    <2>5. ReplayType'
      BY <2>1, <2>2, <2>3 DEF IInv, ReplayType
    <2>6. InOrder'
      BY <2>1, <2>4 DEF IInv, InOrder, Waits
    <2>7. NewIsFresh'
      BY <2>1, <2>3, <2>4 DEF IInv, NewIsFresh
    <2>8. Accounted'
      BY <1>1, <2>1, <2>2, <2>3 DEF IInv, Accounted, Through, Lies
    <2>9. ControlsReachLatest'
      BY <1>1, <2>1, <2>4 DEF IInv, ControlsReachLatest, IsLatest
    <2> QED
      BY <2>5, <2>6, <2>7, <2>8, <2>9 DEF IInv
  <1>9. CASE PushBar(r)
    <2> DEFINE s == [at |-> "bar", left |-> thread[r].left - 1]
    <2>1. s \in [at : Stages, left : Int] /\ s.at = "bar" /\ thread[r].at = "push"
      BY <1>1, <1>9 DEF PushBar, Stages
    <2>2. thread' = [thread EXCEPT ![r] = s] /\ UNCHANGED <<cmds, launched, ctl, gate>>
      BY <1>9 DEF PushBar
    <2> HIDE DEF s
    <2>3. /\ thread'[r].at = "bar" /\ \A q \in Run : q # r => thread'[q] = thread[q]
          /\ Alive(r)
      BY <1>1, <2>1, <2>2 DEF Alive
    <2>4. CASE r = ctl /\ ~gate[r].go
      <3>1. ghost' = [ghost EXCEPT !.shown = @ + 1]
        BY <1>9, <2>4 DEF PushBar
      <3>2. /\ ghost' \in [given : Nat, shown : Nat]
            /\ ghost'.given = ghost.given /\ ghost'.shown = ghost.shown + 1
        BY <1>1, <3>1
      <3>3. ghost.shown + 1 + Lies(r) <= ghost.given + 1 /\ r # 0
        BY <2>1, <2>4 DEF IInv, Accounted, Through, Run
      <3>4. Through(r)' = 0 /\ Lies(r)' = Lies(r)
        BY <2>1, <2>2, <2>3 DEF Through, Lies
      <3>5. Accounted'
        <4>1. ghost.shown \in Nat /\ ghost.given \in Nat /\ Lies(r) \in {0, 1}
          BY <1>1 DEF Lies
        <4>2. ghost'.shown + Through(r)' + Lies(r)' <= ghost'.given + 1
          BY <3>2, <3>3, <3>4, <4>1
        <4> QED
          BY <2>2, <2>4, <3>3, <4>2 DEF Accounted, Through, Lies
      <3> QED
        BY <2>1, <2>2, <2>3, <3>2, <3>5, GoOnKeeps
    <2>5. CASE ~(r = ctl /\ ~gate[r].go)
      <3>1. ghost' = ghost
        BY <1>9, <2>5 DEF PushBar
      <3>2. Accounted'
        BY <1>1, <2>1, <2>2, <2>3, <3>1 DEF IInv, Accounted, Through, Lies
      <3> QED
        BY <1>1, <2>1, <2>2, <2>3, <3>1, <3>2, GoOnKeeps
    <2> QED
      BY <2>4, <2>5
  <1>10. CASE Complete(r)
    BY <1>3, <1>10 DEF Complete, Alive
  <1>11. CASE Release(r)
    <2>1. /\ Started(r) /\ UNCHANGED <<cmds, launched>>
          /\ ctl' = IF ctl = r THEN 0 ELSE ctl
          /\ ghost' = IF ctl = r THEN Unheld ELSE ghost
      BY <1>11 DEF Release, Started
    <2>2. /\ thread' \in [Run -> [at : Stages, left : Int]]
          /\ thread'[r].at = "done" /\ \A q \in Run : q # r => thread'[q] = thread[q]
      BY <1>1, <1>11 DEF Release, Goto, Stages
    <2>3. /\ gate' \in [Run -> [go : BOOLEAN, token : BOOLEAN]]
          /\ \A q \in Run : q # r => gate'[q] = gate[q]
      BY <1>1, <1>11 DEF Release, Fresh
    <2>4. \A q \in Run : /\ Started(q)' <=> Started(q)
                         /\ Alive(q)' <=> Alive(q) /\ q # r
      BY <2>1, <2>2 DEF Started, Alive
    <2>5. ReplayType'
      BY <2>1, <2>2, <2>3 DEF IInv, ReplayType, Unheld
    <2>6. InOrder'
      BY <2>1, <2>4 DEF IInv, InOrder, Waits
    <2>7. NewIsFresh'
      BY <2>1, <2>3, <2>4 DEF IInv, NewIsFresh
    <2>8. Accounted'
      BY <1>1, <2>1, <2>2, <2>3 DEF IInv, Accounted, Through, Lies, Unheld
    <2>9. ControlsReachLatest'
      BY <1>1, <2>1, <2>4 DEF IInv, ControlsReachLatest, IsLatest
    <2> QED
      BY <2>5, <2>6, <2>7, <2>8, <2>9 DEF IInv
  <1> QED
    BY <1>4, <1>5, <1>6, <1>7, <1>8, <1>9, <1>10, <1>11 DEF Thread

-----------------------------------------------------------------------------
LEMMA NextKeeps == IInv /\ [ReplayNext]_replayVars => IInv'
  <1> SUFFICES ASSUME IInv, [ReplayNext]_replayVars PROVE IInv'
    OBVIOUS
  <1>1. CASE UNCHANGED <<cmds, ctl, gate, thread, ghost, launched>>
    BY <1>1 DEF IInv, ReplayType, InOrder, Waits, Started, NewIsFresh, Accounted, Through,
                Lies, ControlsReachLatest, IsLatest, Alive
  <1>2. CASE Drain
    BY <1>1, <1>2 DEF Drain, DrainState, DrainStatus, python
  <1>3. CASE Person
    BY <1>3, PersonKeeps
  <1>4. CASE Worker
    BY <1>4, WorkerKeeps
  <1>5. CASE \E r \in Run : Thread(r)
    BY <1>5, ThreadKeeps
  <1>6. CASE UNCHANGED replayVars
    BY <1>1, <1>6 DEF replayVars
  <1> QED
    BY <1>2, <1>3, <1>4, <1>5, <1>6 DEF ReplayNext

LEMMA AlwaysIInv == ReplaySpec => []IInv
  BY InitIInv, NextKeeps, PTL DEF ReplaySpec

\* A pause holds, for any number of runs, bars and commands: what is shown is
\* bounded by the steps given and the one bar past the gate.
THEOREM PauseAlwaysHolds == ReplaySpec => []PauseHolds
  <1>1. IInv => PauseHolds
    <2> SUFFICES ASSUME IInv PROVE PauseHolds
      OBVIOUS
    <2>1. Through(ctl) \in {0, 1} /\ Lies(ctl) \in {0, 1}
      BY DEF Through, Lies
    <2> QED
      BY <2>1 DEF IInv, ReplayType, Accounted, PauseHolds, Unheld
  <1> QED
    BY <1>1, AlwaysIInv, PTL

\* The buttons reach the latest run while it lives, and nothing else, however
\* the threads of the runs before it end.
THEOREM LatestIsControlled == ReplaySpec => []ControlsReachLatest
  <1>1. IInv => ControlsReachLatest
    BY DEF IInv
  <1> QED
    BY <1>1, AlwaysIInv, PTL
=============================================================================
