--------------------------- MODULE StrategyFiles ---------------------------
(***************************************************************************)
(* The strategy documents of the UI: editor windows, the strategy file and *)
(* its sidecar JSON, and the cache pair (app_state.py, app_state.json) the  *)
(* application restarts from.                                              *)
(*                                                                         *)
(* A strategy is cut into regions, one editor window each. A text is known *)
(* by the strategy it belongs to and by the edit that made it; edit 0 is   *)
(* the text the file came with. Every Bevy system is one action, since the *)
(* schedule leaves the order of these systems open; a person does nothing  *)
(* in the few frames a load takes (Settled). Reads and writes of the disk     *)
(* may fail MaxMishaps times.                                               *)
(***************************************************************************)
EXTENDS Naturals, Sequences, SequencesExt, Functions

CONSTANTS
    Files,        \* strategies: <stem>.py and <stem>.json
    None,         \* absent: no file, no path, no window
    MaxRegion,    \* region keys region_001 .. region_<MaxRegion>
    MaxEdits,     \* edits the user types
    MaxOpens,     \* answers of the open dialog
    MaxSaves,     \* explicit saves
    MaxMishaps    \* failing reads and writes, and ends of the application

ASSUME FilesAssumption ==
    /\ None \notin Files
    /\ MaxRegion \in Nat \ {0}
    /\ {MaxEdits, MaxOpens, MaxSaves, MaxMishaps} \subseteq Nat

Regions == 1 .. MaxRegion
Owners == Files \union {None}

\* A text is known by its strategy and its edit; Blank is the empty one.
Text == [of : Owners, n : Nat]
Source == [Regions -> Text]
Editor == [src : Text, dirty : BOOLEAN]
Blank == [of |-> None, n |-> 0]

\* What a sidecar says of editors: the strategy path and the windows. A list
\* of windows also has those of the panels that are always open.
Sidecar == [path : Owners, wins : (SUBSET Regions) \union {None}]
Ended == [orig : Owners, open : SUBSET Regions, text : Source]
ScenarioOnly == [path |-> None, wins |-> None]

ASSUME NoneAssumption ==
    /\ None \notin Regions \union Text \union Source \union Editor \union Sidecar \union Ended
    /\ \A wins \in SUBSET Regions : wins # None

VARIABLES
    py, side,             \* strategy files and their sidecars
    cpy, cside,           \* app_state.py and app_state.json
    running,
    ed,                   \* the editor windows
    orig, cached,         \* StrategyBuffer: original_path; cache_path is set
    saDirty, laDirty,     \* StrategyAutoSaveState.dirty, AutoSaveState.dirty
    pend,                 \* PendingLayoutApply
    frag, loadedFor,      \* PendingStrategyFragments
    layoutQ, loadQ, spawnQ,   \* messages between the systems
    dialog, loopback, alloc,
    \* what the properties speak of, and the bounds
    edits, opens, saves, faults, exits,
    lineage,              \* strategies whose code was saved as this file
    mixed,                \* two strategies are mixed, or the cache is another's
    left                  \* what was there when the application ended

disk == <<py, side, cpy, cside>>
buffer == <<orig, cached>>
pending == <<pend, frag, loadedFor>>
queues == <<layoutQ, loadQ, spawnQ>>
counts == <<edits, opens, saves, faults, exits>>
vars == <<disk, running, ed, buffer, saDirty, laDirty, pending, queues,
          dialog, loopback, alloc, counts, lineage, mixed, left>>

NoFrag == << >>
NoPend == [wins |-> {}, others |-> FALSE, waiting |-> FALSE, asked |-> {}]
Pending == pend.wins # {} \/ pend.others

Open == {r \in Regions : ed[r] # None}
\* Nothing is under way: no message waits, and nothing pending can be applied.
Settled ==
    /\ layoutQ = << >> /\ loadQ = << >> /\ spawnQ = << >>
    /\ \/ pend.waiting /\ frag = NoFrag
       \/ ~pend.others /\ pend.wins \intersect Open = {} /\ pend.wins \subseteq pend.asked

\* merge_fragments of the open editors; the regions a source has.
Merged == [r \in Regions |-> IF r \in Open THEN ed[r].src ELSE Blank]
Written(s) == {r \in DOMAIN s : s[r] # Blank}

\* split_py_into_fragments: a source without a region is one blank region.
Faulty_Fragments(s) == [r \in {1} |-> s[1]]
Fragments(s) ==
    IF Written(s) = {} THEN [r \in {1} |-> Blank] ELSE Restrict(s, Written(s))

Top(S, n) == CHOOSE m \in S \union {n} : \A k \in S \union {n} : k <= m

\* Windows are asked for in the order of the file that lists them.
Requests(S, src) ==
    {[i \in DOMAIN o |-> [key |-> o[i], src |-> src[o[i]]]] : o \in SetToSeqs(S)}
Undrained == [r \in Regions |-> None]

Clean == [r \in Regions |-> IF r \in Open THEN [ed[r] EXCEPT !.dirty = FALSE] ELSE None]

\* A read or write that succeeds, or one of the failures that are left.
Fault(ok) == (ok \/ faults + exits < MaxMishaps) /\ faults' = faults + (IF ok THEN 0 ELSE 1)

Init ==
    /\ \E shape \in [Files -> (SUBSET Regions) \union {None}] :
         py = [f \in Files |-> IF shape[f] = None THEN None
                 ELSE [r \in Regions |-> IF r \in shape[f] THEN [of |-> f, n |-> 0] ELSE Blank]]
    /\ side \in [Files -> Sidecar \union {None}]
    /\ cpy = None /\ cside = None
    /\ running = TRUE
    /\ ed = [r \in Regions |-> None]
    /\ orig = None /\ cached = FALSE
    /\ saDirty = FALSE /\ laDirty = FALSE
    /\ pend = NoPend /\ frag = NoFrag /\ loadedFor = None
    /\ layoutQ = << >> /\ loadQ = << >> /\ spawnQ = << >>
    /\ dialog = "none" /\ loopback = None /\ alloc = 0
    /\ edits = 0 /\ opens = 0 /\ saves = 0 /\ faults = 0 /\ exits = 0
    /\ lineage = [f \in Files |-> {f}]
    /\ mixed = FALSE /\ left = None

-----------------------------------------------------------------------------
(* Editing *)

\* The user types in an editor, or empties it.
Type(r) ==
    /\ running /\ Settled /\ r \in Open /\ edits < MaxEdits
    /\ edits' = edits + 1
    /\ \E new \in {Blank, [of |-> IF ed[r].src = Blank THEN orig ELSE ed[r].src.of,
                           n |-> edits + 1]} :
         /\ new # ed[r].src
         /\ ed' = [ed EXCEPT ![r] = [src |-> new, dirty |-> TRUE]]
    /\ saDirty' = TRUE
    /\ left' = None
    /\ UNCHANGED <<disk, running, buffer, laDirty, pending, queues, dialog,
                   loopback, alloc, opens, saves, faults, exits, lineage, mixed>>

\* The sidebar asks for a blank editor.
AskEditor ==
    /\ running /\ Settled /\ alloc < MaxRegion
    /\ spawnQ' = <<[key |-> 0, src |-> Blank]>>
    /\ left' = None
    /\ UNCHANGED <<disk, running, ed, buffer, saDirty, laDirty, pending, layoutQ,
                   loadQ, dialog, loopback, alloc, counts, lineage, mixed>>

CloseEditor(r) ==
    /\ running /\ Settled /\ r \in Open
    /\ ed' = [ed EXCEPT ![r] = None]
    /\ laDirty' = TRUE
    /\ left' = None
    /\ UNCHANGED <<disk, running, buffer, saDirty, pending, queues, dialog,
                   loopback, alloc, counts, lineage, mixed>>

\* panel_spawn_dispatcher_system, on an editor.
Dispatch ==
    /\ running /\ spawnQ # << >>
    /\ LET req == Head(spawnQ)
           r == IF req.key = 0 THEN alloc + 1 ELSE req.key
           seed == IF req.src # None THEN req.src
                   ELSE IF r \in DOMAIN frag THEN frag[r] ELSE Blank IN
         IF r > MaxRegion  \* the bound
           THEN UNCHANGED <<ed, frag, alloc, cached>>
           ELSE /\ ed' = [ed EXCEPT ![r] = [src |-> seed, dirty |-> FALSE]]
                /\ frag' = IF req.src = None THEN Restrict(frag, DOMAIN frag \ {r}) ELSE frag
                /\ alloc' = IF r > alloc THEN r ELSE alloc
                /\ cached' = (cached \/ (req.key = 0 /\ orig = None))
    /\ spawnQ' = Tail(spawnQ)
    /\ UNCHANGED <<disk, running, orig, saDirty, laDirty, pend, loadedFor, layoutQ,
                   loadQ, dialog, loopback, counts, lineage, mixed, left>>

-----------------------------------------------------------------------------
(* Automatic saving *)

Faulty_StrategyAutosave ==
    /\ running /\ saDirty
    /\ \E ok \in BOOLEAN :
         /\ IF cached THEN Fault(ok) ELSE ok /\ faults' = faults
         /\ cpy' = IF cached /\ ok THEN Merged ELSE cpy
    /\ saDirty' = FALSE
    /\ ed' = Clean
    /\ UNCHANGED <<py, side, cside, running, buffer, laDirty, pending, queues, dialog,
                   loopback, alloc, edits, opens, saves, exits, lineage, mixed, left>>

\* debounced_strategy_autosave_system
StrategyAutosave ==
    /\ running /\ saDirty
    /\ \E ok \in BOOLEAN :
         /\ IF cached THEN Fault(ok) ELSE ok /\ faults' = faults
         /\ saDirty' = ~ok
         /\ cpy' = IF cached /\ ok THEN Merged ELSE cpy
         /\ ed' = IF cached /\ ok THEN Clean ELSE ed
         /\ mixed' = (mixed \/ (cached /\ ok /\ ~Settled))
    /\ UNCHANGED <<py, side, cside, running, buffer, laDirty, pending, queues, dialog,
                   loopback, alloc, edits, opens, saves, exits, lineage, left>>

\* debounced_autosave_system: a failed write is not tried again.
LayoutAutosave ==
    /\ running /\ laDirty
    /\ \E ok \in BOOLEAN :
         /\ Fault(ok)
         /\ cside' = IF ok THEN [path |-> orig, wins |-> Open] ELSE cside
    /\ laDirty' = FALSE
    /\ UNCHANGED <<py, side, cpy, running, ed, buffer, saDirty, pending, queues, dialog,
                   loopback, alloc, edits, opens, saves, exits, lineage, mixed, left>>

-----------------------------------------------------------------------------
(* Explicit saves *)

\* copy_sidecar_to_cache removes the old copy and makes the new one: either may
\* fail, and a copy that is not removed (stale) stays beside the new app_state.py.
Copies == {"done", "sidecar", "stale"}
SidecarCopy(sidecar, out) ==
    CASE out = "done" -> sidecar [] out = "sidecar" -> None [] out = "stale" -> cside

\* How far a save gets: refused for its scenario, the JSON not written, the
\* .py not written, nothing copied to the cache, or one of the copies.
SaveOutcome == {"scenario", "json", "py", "sync"} \union Copies
JsonWritten(out) == out \notin {"scenario", "json"}
PyWritten(out) == out \in {"sync"} \union Copies /\ Written(Merged) # {}
Synced(out) == out \in Copies /\ Written(Merged) # {}

\* finish_layout_save, and the same steps in poll_save_as_dialog_system.
WriteStrategy(f, out) ==
    /\ Fault(out = "done")
    /\ side' = IF JsonWritten(out)
                 THEN [side EXCEPT ![f] = [path |-> f, wins |-> Open]] ELSE side
    /\ py' = IF PyWritten(out) THEN [py EXCEPT ![f] = Merged] ELSE py
    /\ IF Synced(out)
         THEN /\ cpy' = Merged
              /\ cside' = SidecarCopy(side'[f], out)
              /\ ed' = Clean
              /\ saDirty' = FALSE
         ELSE UNCHANGED <<cpy, cside, ed, saDirty>>

\* handle_save_layout_system
Save ==
    /\ running /\ Settled /\ orig # None /\ saves < MaxSaves
    /\ saves' = saves + 1
    /\ \E out \in SaveOutcome :
         /\ WriteStrategy(orig, out)
         /\ cached' = IF Synced(out) THEN TRUE
                      ELSE IF PyWritten(out) THEN FALSE ELSE cached
    /\ left' = None
    /\ UNCHANGED <<running, orig, laDirty, pending, queues, dialog, loopback, alloc,
                   edits, opens, exits, lineage, mixed>>

\* Save As, Save of an untitled strategy, Open: one dialog at a time.
OpenDialog(kind) ==
    /\ running /\ Settled /\ dialog = "none"
    /\ IF kind = "load" THEN opens < MaxOpens ELSE saves < MaxSaves
    /\ dialog' = kind
    /\ UNCHANGED <<disk, running, ed, buffer, saDirty, laDirty, pending, queues,
                   loopback, alloc, counts, lineage, mixed, left>>

CancelDialog ==
    /\ running /\ dialog # "none"
    /\ dialog' = "none"
    /\ opens' = opens + (IF dialog = "load" THEN 1 ELSE 0)
    /\ saves' = saves + (IF dialog = "load" THEN 0 ELSE 1)
    /\ UNCHANGED <<disk, running, ed, buffer, saDirty, laDirty, pending, queues, loopback,
                   alloc, edits, faults, exits, lineage, mixed, left>>

\* The strategies whose code is in the windows, or waits for one.
AtHand == IF orig # None THEN lineage[orig]
          ELSE {Merged[r].of : r \in Written(Merged)} \union {frag[r].of : r \in Written(frag)}

\* poll_save_as_dialog_system
SaveAs(f) ==
    /\ running /\ Settled /\ dialog = "saveas" /\ dialog' = "none"
    /\ saves' = saves + 1
    /\ \E out \in SaveOutcome :
         LET some == Written(Merged) # {}
             back == ~JsonWritten(out) \/ (out = "py" /\ some) IN
         /\ WriteStrategy(f, out)
         /\ orig' = IF back THEN orig ELSE f
         /\ cached' = IF back THEN cached ELSE ~(out = "sync" /\ some)
         /\ lineage' = IF back THEN lineage
                       ELSE [lineage EXCEPT ![f] = @ \union AtHand]
         /\ mixed' = (mixed \/ ~(back \/ Synced(out)))
    /\ left' = None
    /\ UNCHANGED <<running, laDirty, pending, queues, loopback, alloc, edits, opens, exits>>

-----------------------------------------------------------------------------
(* Loading *)

\* poll_load_dialog_system
ChooseFile(f) ==
    /\ running /\ Settled /\ dialog = "load" /\ dialog' = "none"
    /\ opens' = opens + 1
    /\ layoutQ' = <<[file |-> f, user |-> TRUE]>>
    /\ left' = None
    /\ UNCHANGED <<disk, running, ed, buffer, saDirty, laDirty, pending, loadQ, spawnQ,
                   loopback, alloc, edits, saves, faults, exits, lineage, mixed>>

\* The strategy is loaded first; the windows of the layout wait for it.
Faulty_Defer(f, wins) ==
    /\ pend' = [wins |-> IF wins = None THEN {} ELSE wins, others |-> wins # None,
                waiting |-> wins # None, asked |-> {}]
    /\ UNCHANGED <<ed, loadQ, spawnQ, loopback, frag, loadedFor, mixed>>

Defer(f, wins) ==
    /\ loadQ' = Append(loadQ, [file |-> f, user |-> FALSE])
    /\ frag' = NoFrag /\ loadedFor' = None
    /\ pend' = [wins |-> IF wins = None THEN {} ELSE wins, others |-> wins # None,
                waiting |-> wins # None, asked |-> {}]
    /\ UNCHANGED <<ed, spawnQ, loopback, mixed>>

\* Windows of the list are opened, all others are closed.
ApplyWindows(wins, p, fr, lf) ==
    /\ LET missing == wins \ Open IN
         /\ \E asks \in Requests(missing \ p.asked, Undrained) : spawnQ' = spawnQ \o asks
         /\ pend' = [p EXCEPT !.wins = @ \union missing, !.asked = @ \union missing]
    /\ ed' = [r \in Regions |-> IF r \in wins THEN ed[r] ELSE None]
    /\ frag' = fr /\ loadedFor' = lf
    /\ mixed' = (mixed \/ (wins \ Open) \intersect DOMAIN fr # {})
    /\ UNCHANGED <<loadQ, loopback>>

\* A JSON with a scenario only: its strategy is loaded, which asks for the
\* same JSON again; that one is skipped.
OpenScenario(f) ==
    /\ IF loopback = f
         THEN loopback' = None /\ loadQ' = loadQ
         ELSE IF py[f] # None
         THEN loopback' = f /\ loadQ' = Append(loadQ, [file |-> f, user |-> TRUE])
         ELSE UNCHANGED <<loopback, loadQ>>
    /\ UNCHANGED <<ed, spawnQ, pending, mixed>>

\* apply_layout_system
ApplyLayout ==
    /\ running /\ layoutQ # << >>
    /\ layoutQ' = Tail(layoutQ)
    /\ LET f == Head(layoutQ).file
           user == Head(layoutQ).user
           l == side[f] IN
         IF l = None THEN UNCHANGED <<ed, pending, loadQ, spawnQ, loopback, mixed>>
         ELSE IF l = ScenarioOnly THEN OpenScenario(f)
         ELSE IF l.path # None /\ py[l.path] # None /\ (user \/ loadedFor = None)
           THEN Defer(l.path, l.wins)
         ELSE IF l.path # None /\ py[l.path] = None /\ user /\ py[f] # None
           THEN Defer(f, l.wins)
         ELSE LET lost == l.path # None /\ py[l.path] = None /\ user
                  p == IF lost THEN NoPend ELSE pend
                  fr == IF lost THEN NoFrag ELSE frag
                  lf == IF lost THEN None ELSE loadedFor IN
              IF l.wins # None THEN ApplyWindows(l.wins, p, fr, lf)
              ELSE /\ pend' = p /\ frag' = fr /\ loadedFor' = lf
                   /\ UNCHANGED <<ed, loadQ, spawnQ, loopback, mixed>>
    /\ UNCHANGED <<disk, running, buffer, saDirty, laDirty, dialog, alloc, counts,
                   lineage, left>>

\* sync_to_cache at the end of a load.
SyncToCache(f, out) ==
    IF out \in {"dir", "sync"} THEN UNCHANGED <<cpy, cside>>
    ELSE cpy' = py[f] /\ cside' = SidecarCopy(side[f], out)

\* handle_strategy_file_load_system
LoadStrategy ==
    /\ running /\ loadQ # << >>
    /\ loadQ' = Tail(loadQ)
    /\ LET f == Head(loadQ).file
           user == Head(loadQ).user IN
         \/ /\ Fault(py[f] = None)
            /\ UNCHANGED <<disk, ed, buffer, pending, layoutQ, spawnQ, alloc, mixed>>
         \/ /\ py[f] # None
            /\ frag' = Fragments(py[f]) /\ loadedFor' = f
            /\ \E out \in {"dir", "sync"} \union Copies :
                 /\ Fault(out = "done")
                 /\ SyncToCache(f, out)
                 /\ cached' = (out # "dir")
                 /\ mixed' = \/ mixed \/ out \in {"dir", "sync"}
                             \/ ~user /\ Written(Merged) \ (pend.wins \intersect DOMAIN frag') # {}
            /\ orig' = f
            /\ alloc' = Top(DOMAIN Fragments(py[f]), alloc)
            /\ ed' = IF user THEN [r \in Regions |-> None] ELSE ed
            /\ layoutQ' = IF user /\ side[f] # None
                            THEN Append(layoutQ, [file |-> f, user |-> FALSE]) ELSE layoutQ
            /\ IF user /\ (side[f] = None \/ side[f].wins = None)
               THEN \E asks \in Requests(DOMAIN Fragments(py[f]), py[f]) : spawnQ' = spawnQ \o asks
               ELSE UNCHANGED spawnQ
            /\ UNCHANGED <<py, side, pend>>
    /\ UNCHANGED <<running, saDirty, laDirty, dialog, loopback, edits, opens, saves,
                   exits, lineage, left>>

\* Windows that are open already get the text of the strategy that was loaded.
Faulty_Refilled(found) == ed
Refilled(found) ==
    [r \in Regions |-> IF r \in found \intersect DOMAIN frag
                         THEN [src |-> frag[r], dirty |-> FALSE] ELSE ed[r]]

\* apply_pending_layout_system
ApplyPending ==
    /\ running /\ Pending
    /\ ~(pend.waiting /\ frag = NoFrag)
    /\ LET found == pend.wins \intersect Open
           missing == pend.wins \ Open IN
         /\ ed' = Refilled(found)
         /\ frag' = Restrict(frag, DOMAIN frag \ found)
         /\ \E asks \in Requests(missing \ pend.asked, Undrained) : spawnQ' = spawnQ \o asks
         /\ pend' = [wins |-> missing, others |-> FALSE, waiting |-> FALSE,
                     asked |-> IF missing = {} THEN {} ELSE pend.asked \union missing]
    /\ UNCHANGED <<disk, running, buffer, saDirty, laDirty, loadedFor, layoutQ, loadQ,
                   dialog, loopback, alloc, counts, lineage, mixed, left>>

-----------------------------------------------------------------------------
(* The end and the beginning of the application *)

\* restore_last_strategy_system: the cache is read when both files are there.
CacheComplete == cside # None /\ cpy # None

\* What is only in memory is gone; where it was saved, it is kept for the
\* properties. A restart takes the code in the cache for that of the strategy its
\* sidecar names: another one, when it was copied from a sidecar that names it, or
\* is older than the code.
Exit(saved) ==
    /\ exits + faults < MaxMishaps /\ exits' = exits + 1
    /\ running' = FALSE
    /\ ed' = [r \in Regions |-> None]
    /\ orig' = None /\ cached' = FALSE
    /\ saDirty' = FALSE /\ laDirty' = FALSE
    /\ pend' = NoPend /\ frag' = NoFrag /\ loadedFor' = None
    /\ layoutQ' = << >> /\ loadQ' = << >> /\ spawnQ' = << >>
    /\ dialog' = "none" /\ loopback' = None /\ alloc' = 0
    /\ left' = IF saved /\ Settled /\ faults' = 0
                 THEN [orig |-> orig, open |-> Open, text |-> Merged] ELSE None
    /\ mixed' = (mixed \/ (CacheComplete' /\ cside'.path \notin {orig, None}))
    /\ UNCHANGED <<py, side, edits, opens, saves, lineage>>

Crash ==
    /\ running
    /\ UNCHANGED <<cpy, cside, faults>>
    /\ Exit(FALSE)

\* save_layout_on_window_close
CloseWindow ==
    /\ running /\ Settled
    /\ \E flushed, laid \in BOOLEAN :
         /\ Fault(flushed /\ laid)
         /\ cpy' = IF flushed /\ cached /\ Written(Merged) # {} THEN Merged ELSE cpy
         /\ cside' = IF laid THEN [path |-> orig, wins |-> Open] ELSE cside
    /\ Exit(cached)

\* apply_cache_restore_system
Restart ==
    /\ ~running /\ running' = TRUE
    /\ IF CacheComplete
         THEN LET wins == IF cside.wins = None THEN {} ELSE cside.wins
                  asked == IF wins # {} THEN wins ELSE DOMAIN Fragments(cpy) IN
              /\ orig' = cside.path /\ cached' = TRUE
              /\ frag' = Fragments(cpy) /\ loadedFor' = cside.path
              /\ alloc' = Top(DOMAIN Fragments(cpy), 0)
              /\ pend' = [wins |-> wins, others |-> cside.wins # None, waiting |-> FALSE,
                          asked |-> asked]
              /\ spawnQ' \in Requests(asked, Undrained)
         ELSE UNCHANGED <<buffer, pending, alloc, spawnQ>>
    /\ UNCHANGED <<disk, ed, saDirty, laDirty, layoutQ, loadQ, dialog, loopback, counts,
                   lineage, mixed, left>>

-----------------------------------------------------------------------------
User ==
    \/ \E r \in Regions : Type(r) \/ CloseEditor(r)
    \/ AskEditor \/ Save \/ CancelDialog \/ CloseWindow
    \/ \E kind \in {"load", "saveas"} : OpenDialog(kind)
    \/ \E f \in Files : SaveAs(f) \/ ChooseFile(f)

System ==
    \/ Dispatch \/ ApplyLayout \/ LoadStrategy \/ ApplyPending
    \/ StrategyAutosave \/ LayoutAutosave

Next == User \/ System \/ Crash \/ Restart

Spec == Init /\ [][Next]_vars

\* Each frame runs every system.
Fairness ==
    /\ WF_vars(Dispatch) /\ WF_vars(ApplyLayout) /\ WF_vars(LoadStrategy)
    /\ WF_vars(ApplyPending) /\ WF_vars(StrategyAutosave)

FairSpec == Spec /\ Fairness

-----------------------------------------------------------------------------
(* Properties *)

OnDisk(t, r) ==
    \/ cpy # None /\ cpy[r] = t
    \/ \E f \in Files : py[f] # None /\ py[f][r] = t

\* What the user typed into the strategy at hand and no longer counts as
\* unsaved is in a file: a crash takes none of it.
NothingLost ==
    Settled /\ ~mixed => \A r \in Open :
        ed[r].src.n > 0 /\ ~ed[r].dirty /\ ed[r].src.of = orig => OnDisk(ed[r].src, r)

\* A strategy file holds its own code and what was saved under its name on
\* purpose, unless two strategies were mixed: a load left windows open or was not
\* copied to the cache, an autosave came between it and its windows, a layout
\* without a strategy showed what an earlier load had left, a Save As was not
\* copied, so that the cache still has what was there before, or the application
\* ended while the sidecar in the cache named another strategy.
SavedIsOwn ==
    ~mixed => \A f \in Files : py[f] # None =>
        \A r \in Written(py[f]) : py[f][r].of \in lineage[f]

\* A restart brings back the strategy and its text, where there is any.
RestartRestores ==
    running /\ left # None /\ Settled /\ Written(left.text) # {} =>
        orig = left.orig /\ Open = left.open /\ Merged = left.text

\* The windows of a layout are opened, unless the strategy could not be read.
LoadEnds ==
    Pending ~> \/ ~Pending \/ ~running
               \/ faults > 0 /\ pend.waiting /\ frag = NoFrag /\ loadQ = << >>

Uncached(r, n) ==
    /\ r \in Open /\ ed[r].src.n = n /\ cached /\ ~mixed
    /\ ~(cpy # None /\ cpy[r] = ed[r].src)

\* What was typed gets into the cache, after a failing write too, unless it
\* is replaced or closed first or there is no cache to write to.
EditIsCached ==
    \A r \in Regions, n \in 1 .. MaxEdits :
        Uncached(r, n) /\ saDirty ~> ~Uncached(r, n)
=============================================================================
