---------------------------- MODULE ScenarioSync ----------------------------
(***************************************************************************)
(* The scenario of the open strategy: which instruments it trades and up   *)
(* to when. It is in four places: the sidecar JSON of the strategy, the    *)
(* copy of it the application restarts from (Cache, app_state.json), the   *)
(* metadata a run is made from, and the list of the sidebar that the user  *)
(* edits and that the universe of the execution mode prunes.               *)
(*                                                                         *)
(* The systems that keep them together are a chain run once a frame: it is *)
(* one action (Frame). Whatever else the UI does happens between two       *)
(* chains. LiveManual and LiveAuto are one mode here. A file has a new     *)
(* modification time after every write. MaxOps bounds what the user, the   *)
(* venue and other programs do; frames are not bounded.                    *)
(***************************************************************************)
EXTENDS Naturals, FiniteSets

CONSTANTS
    Ids,      \* instruments
    Ends,     \* end dates of a scenario; they stand for its other fields too
    Files,    \* sidecars of strategies
    Cache,    \* app_state.json
    None,     \* no path, nothing known
    MaxOps    \* bound of everything that is not a frame

ASSUME ScenarioAssumption ==
    /\ IsFiniteSet(Ids) /\ Ends # {}
    /\ Cache \notin Files /\ None \notin Files \union {Cache} \union Ends
    /\ MaxOps \in Nat

Paths == Files \union {Cache}
Modes == {"Replay", "Live"}

\* A sidecar: no scenario in it, instruments listed in it (inline), or those
\* of a file it names (ref), which may be missing or empty.
NoScenario == [kind |-> "none", ids |-> {}, end |-> None]
Scenario == [kind: {"inline", "ref"}, ids: SUBSET Ids, end: Ends]

\* A universe: not known yet, or not empty.
Universe == {None} \union ((SUBSET Ids) \ {{}})

VARIABLES
    file,          \* the sidecars
    orig,          \* the strategy of StrategyBuffer.original_path
    copying,       \* a strategy just opened, not yet copied to the cache
    target,        \* ScenarioReadTarget
    watch,         \* ScenarioFileWatchState; fresh: its mtime is the file's
    scen,          \* ScenarioMetadata
    reg,           \* InstrumentRegistry
    touched,       \* the registry has changed since the last chain
    dirty,         \* writeback: revision # flushed_revision
    trigger,       \* something that prunes has changed since the last chain
    mode, prevMode,
    avail, live,   \* AvailableInstruments.by_end_date; Tickers, once loaded
    \* what the properties speak of
    wanted,        \* instruments that were loaded or added, and not removed
    theirs,        \* the next reading is of something not written here
    rewritten,     \* the file being read was rewritten for another reason
    crossed,       \* such a reading found an edit that was not in the file
    refused,       \* the last reading found no instruments
    moved,         \* the end date was edited since the last reading
    sent,          \* the last run
    ops

files == <<file, orig, copying>>
reading == <<target, watch>>
shown == <<scen, reg, touched, dirty>>
modes == <<mode, prevMode>>
universe == <<avail, live>>
ghosts == <<wanted, theirs, rewritten, crossed, refused, moved, sent>>
vars == <<files, reading, shown, trigger, modes, universe, ghosts, ops>>

NoMetadata == [ids |-> {}, end |-> None]
MetadataOf(p) == [ids |-> file[p].ids, end |-> file[p].end]
NothingSent == [ids |-> {}, shown |-> {}, editable |-> FALSE]

\* A file was written: the watch on it is out of date.
Stale(p) == IF watch.path = p THEN [watch EXCEPT !.fresh = FALSE] ELSE watch

\* rewrite_scenario_instruments_atomic: it needs a scenario to write into, and
\* leaves a reference, which stays in force.
WithIds(c, ids) == IF c.kind = "ref" THEN c ELSE [c EXCEPT !.ids = ids]
HasScenario(p) == file[p].kind # "none"

\* The application starts, again or for the first time: nothing is read, the
\* registry is not editable, and the cache is what there is to read.
Init ==
    /\ file \in [Paths -> Scenario \union {NoScenario}]
    /\ orig \in Files \union {None} /\ copying = None
    /\ target \in {Cache, None} /\ watch = [path |-> None, fresh |-> TRUE]
    /\ scen = NoMetadata /\ reg = [ids |-> {}, editable |-> FALSE]
    /\ touched = TRUE /\ dirty = FALSE /\ trigger = TRUE
    /\ mode = "Replay" /\ prevMode = None
    /\ avail = [e \in Ends |-> None] /\ live = None
    /\ wanted = {} /\ theirs = TRUE /\ rewritten = FALSE /\ crossed = FALSE
    /\ refused = FALSE /\ moved = FALSE /\ sent = NothingSent
    /\ ops = 0

-----------------------------------------------------------------------------
(* The chain of a frame. Each system takes the state s of the chain so far. *)

Chain == [watch |-> watch, scen |-> scen, reg |-> reg, touched |-> touched,
          dirty |-> dirty, prune |-> trigger, trigger |-> FALSE,
          cache |-> file[Cache], read |-> "same"]

\* parse_scenario_system; found: the file a ref names gives instruments.
Outcome(found) ==
    IF watch = [path |-> target, fresh |-> TRUE] THEN "same"
    ELSE IF target = None \/ ~HasScenario(target) THEN "cleared"
    ELSE IF file[target].kind = "ref" /\ ~found THEN "refused"
    ELSE "loaded"

Parse(s, found) ==
    LET out == Outcome(found)
        seen == [s EXCEPT !.read = out, !.watch = [path |-> target, fresh |-> TRUE]]
    IN  CASE out = "same"    -> s
          [] out = "refused" -> seen
          [] out = "cleared" -> [seen EXCEPT !.scen = NoMetadata, !.prune = TRUE]
          [] out = "loaded"  ->
               [seen EXCEPT !.scen = MetadataOf(target),
                            !.prune = TRUE]

\* sync_registry_from_scenario_loaded_system, .._cleared_system
SyncRegistry(s) ==
    CASE s.read = "loaded" ->
           [s EXCEPT !.reg = [ids |-> s.scen.ids, editable |-> file[target].kind = "inline"],
                     !.dirty = FALSE, !.touched = TRUE]
      [] s.read = "cleared" ->
           [s EXCEPT !.reg = [ids |-> {}, editable |-> TRUE], !.dirty = FALSE, !.touched = TRUE]
      [] OTHER -> s

Allowed(sc) ==
    IF mode = "Live" THEN live ELSE IF sc.end = None THEN None ELSE avail[sc.end]

\* prune_instruments_outside_universe_system
Pruned(s, ids) ==
    IF s.prune /\ Allowed(s.scen) # None THEN ids \intersect Allowed(s.scen) ELSE ids
Prune(s) ==
    IF s.reg.ids = {} THEN s
    ELSE [s EXCEPT !.reg.ids = Pruned(s, @),
                   !.touched = @ \/ (s.prune /\ Allowed(s.scen) # None)]

\* restore_fixed_registry_on_replay_entry_system
Faulty_RestoreFixed(s) == s
RestoreFixed(s) ==
    IF mode = "Replay" /\ prevMode # "Replay" /\ ~s.reg.editable /\ target # None
    THEN [s EXCEPT !.watch = [path |-> None, fresh |-> FALSE]]
    ELSE s

\* mark_registry_dirty_system
MarkDirty(s) == [s EXCEPT !.dirty = @ \/ s.touched, !.touched = FALSE]

Writable(s) == s.reg.editable /\ mode = "Replay" /\ s.dirty

\* sync_scenario_metadata_from_registry_system
Faulty_SyncMetadata(s) == s
SyncMetadata(s) ==
    IF Writable(s) /\ s.scen.ids # s.reg.ids
    THEN [s EXCEPT !.scen.ids = s.reg.ids, !.trigger = TRUE]
    ELSE s

\* writeback_scenario_instruments_system: it writes the cache, and takes note
\* of the new time if that is the file being read.
Faulty_Writeback(s) ==
    IF ~Writable(s) \/ s.cache.kind = "none" THEN s
    ELSE [s EXCEPT !.cache = WithIds(@, s.reg.ids), !.dirty = FALSE,
                   !.watch.fresh = @ /\ s.watch.path # Cache]
Writeback(s) ==
    IF ~Writable(s) \/ s.cache.kind = "none" THEN s
    ELSE [s EXCEPT !.cache = WithIds(@, s.reg.ids), !.dirty = FALSE]

\* What is not a frame happens MaxOps times.
Op == ops < MaxOps /\ ops' = ops + 1

\* handle_strategy_run_system: what a run (or a first step) is sent with, once
\* the list is written to the cache.
MayRun(s) == s.scen.ids # {} /\ s.scen.end # None /\ (s.reg.editable => s.cache.kind # "none")
RunIds(s, how) == IF how = "run" /\ s.reg.ids # {} THEN s.reg.ids ELSE s.scen.ids

Runs(s, how) ==
    /\ Op /\ mode = "Replay" /\ orig # None /\ copying = None /\ MayRun(s)
    /\ sent' = [ids |-> RunIds(s, how), shown |-> s.reg.ids,
                editable |-> s.reg.editable]
    /\ IF s.reg.editable
       THEN /\ file' = [file EXCEPT ![Cache] = WithIds(s.cache, s.reg.ids)]
            /\ watch' = [s.watch EXCEPT !.fresh = @ /\ s.watch.path # Cache]
            /\ rewritten' = (target = Cache)
       ELSE file' = [file EXCEPT ![Cache] = s.cache] /\ watch' = s.watch /\ rewritten' = FALSE

Frame ==
    \E found \in BOOLEAN :
    \E parsed \in {Parse(Chain, found)} :
    \E pruned \in {Prune(SyncRegistry(parsed))} :
    \E marked \in {MarkDirty(RestoreFixed(pruned))} :
    \E s \in {Writeback(SyncMetadata(marked))} :
      /\ scen' = s.scen /\ reg' = s.reg
      /\ touched' = s.touched /\ dirty' = s.dirty /\ trigger' = s.trigger
      /\ prevMode' = mode
      /\ refused' = IF s.read = "same" THEN refused ELSE s.read = "refused"
      /\ \/ \E how \in {"run", "step"} : Runs(s, how)
         \/ /\ file' = [file EXCEPT ![Cache] = s.cache] /\ watch' = s.watch
            /\ rewritten' = FALSE /\ UNCHANGED <<sent, ops>>
      /\ LET told == s.read \in {"loaded", "cleared"}
             asked == IF told /\ (theirs \/ ~reg.editable) THEN parsed.scen.ids ELSE wanted
         IN  /\ wanted' = Pruned(parsed, asked)
             /\ crossed' = IF told /\ theirs THEN FALSE
                           ELSE crossed \/ (told /\ rewritten /\ reg.ids # parsed.scen.ids)
             /\ moved' = (moved /\ ~told)
      /\ theirs' = (s.watch.path # target)
      /\ UNCHANGED <<orig, copying, target, mode, universe>>

-----------------------------------------------------------------------------
(* What happens between the chains *)

Edited(ids) ==
    /\ reg' = [reg EXCEPT !.ids = ids]
    /\ touched' = TRUE

\* A click in the instrument picker, which lists the universe.
Add(id) ==
    /\ Op /\ reg.editable /\ id \notin reg.ids
    /\ Allowed(scen) # None /\ id \in Allowed(scen)
    /\ Edited(reg.ids \union {id}) /\ wanted' = wanted \union {id}
    /\ UNCHANGED <<files, reading, scen, dirty, trigger, modes, universe,
                   theirs, rewritten, crossed, refused, moved, sent>>

\* The remove button of the sidebar, or the close button of a chart.
Remove(id) ==
    /\ Op /\ reg.editable /\ id \in reg.ids
    /\ Edited(reg.ids \ {id}) /\ wanted' = wanted \ {id}
    /\ UNCHANGED <<files, reading, scen, dirty, trigger, modes, universe,
                   theirs, rewritten, crossed, refused, moved, sent>>

\* A field of the Startup window: it goes to the metadata and to the cache.
CommitEnd(e) ==
    /\ Op /\ mode = "Replay" /\ e # scen.end
    /\ scen' = [scen EXCEPT !.end = e] /\ trigger' = TRUE /\ moved' = TRUE
    /\ IF HasScenario(Cache)
       THEN /\ file' = [file EXCEPT ![Cache].end = e]
            /\ watch' = Stale(Cache) /\ rewritten' = (rewritten \/ target = Cache)
       ELSE UNCHANGED <<file, watch, rewritten>>
    /\ UNCHANGED <<orig, copying, target, reg, touched, dirty, modes, universe,
                   wanted, theirs, crossed, refused, sent>>

\* debounced_autosave_system writes the layout and keeps the scenario.
LayoutAutosave ==
    /\ Op
    /\ watch' = Stale(Cache) /\ rewritten' = (rewritten \/ target = Cache)
    /\ UNCHANGED <<files, target, shown, trigger, modes, universe,
                   wanted, theirs, crossed, refused, moved, sent>>

\* A strategy is opened; its copy to the cache comes when its layout is applied.
OpenStrategy(f) ==
    /\ Op /\ copying = None
    /\ target' = f /\ orig' = f /\ copying' = f /\ theirs' = TRUE
    /\ rewritten' = FALSE
    \* what was read of another path is not looked at again
    /\ watch' = IF watch.path = f THEN [watch EXCEPT !.fresh = FALSE] ELSE watch
    /\ UNCHANGED <<file, shown, trigger, modes, universe,
                   wanted, crossed, refused, moved, sent>>

\* sync_to_cache: the sidecar is copied, or lost with the old copy, or the old
\* copy is left.
Copied(old, sidecar) == {old, sidecar, NoScenario}

SyncToCache ==
    /\ copying # None
    /\ copying' = None
    /\ \E c \in Copied(file[Cache], file[copying]) : file' = [file EXCEPT ![Cache] = c]
    /\ watch' = Stale(Cache)
    /\ UNCHANGED <<orig, target, shown, trigger, modes, universe, ghosts, ops>>

SavedScenario(base) ==
    IF ~reg.editable THEN base
    ELSE IF base.kind = "none" THEN [kind |-> "inline", ids |-> reg.ids, end |-> scen.end]
    ELSE WithIds(base, reg.ids)

\* The list goes to the cache first.
Flushes == reg.editable /\ HasScenario(Cache)
Flushed == IF Flushes THEN WithIds(file[Cache], reg.ids) ELSE file[Cache]

\* How far a save gets: the scenario is not written (or lacks a field), the .py
\* is not, nothing is copied to the cache, as of a strategy without a text, or all
\* is done. A Save As without its .py is taken back, but not what it wrote.
SaveTo(f, as, got) ==
    LET from == IF target # None THEN target ELSE orig
        base == IF from = None THEN NoScenario
                ELSE IF from = Cache THEN Flushed ELSE file[from]
        saved == SavedScenario(base)
        wrote == {p \in {f} : got # "json"} \union {p \in {Cache} : Flushes \/ got = "done"}
    IN  /\ Op /\ copying = None
        /\ got # "json" /\ reg.editable /\ base.kind = "none" => scen.end # None
        /\ \E c \in IF got = "done" THEN Copied(Flushed, saved) ELSE {Flushed} :
             file' = [file EXCEPT ![f] = IF got = "json" THEN @ ELSE saved, ![Cache] = c]
        /\ IF got = "json" \/ (got = "py" /\ as) THEN UNCHANGED <<target, orig>>
                                               ELSE target' = f /\ orig' = f
        /\ watch' = IF watch.path \in wrote THEN [watch EXCEPT !.fresh = FALSE] ELSE watch
        /\ dirty' = (dirty \/ (as /\ got = "done"))
        /\ rewritten' = (rewritten \/ target' \in wrote)
        /\ UNCHANGED <<copying, scen, reg, touched, trigger, modes, universe,
                       wanted, theirs, crossed, refused, moved, sent>>

\* handle_save_layout_system hands a strategy without a path on to Save As;
\* poll_save_as_dialog_system
Got == {"json", "py", "sync", "done"}
Save == orig # None /\ \E got \in Got : SaveTo(orig, FALSE, got)
SaveAs(f) == \E got \in Got : SaveTo(f, TRUE, got)

\* Another program writes a sidecar: it lists others, or has no scenario.
EditFile(f) ==
    /\ Op /\ HasScenario(f)
    /\ \E c \in {NoScenario} \union {[file[f] EXCEPT !.ids = ids] : ids \in SUBSET Ids} :
         c # file[f] /\ file' = [file EXCEPT ![f] = c]
    /\ watch' = Stale(f) /\ theirs' = (theirs \/ target = f)
    /\ UNCHANGED <<orig, copying, target, shown, trigger, modes, universe,
                   wanted, rewritten, crossed, refused, moved, sent>>

\* The backend confirms another execution mode.
ExecutionModeChanged ==
    /\ Op
    /\ mode' \in Modes \ {mode} /\ trigger' = TRUE
    /\ UNCHANGED <<files, reading, shown, prevMode, universe, ghosts>>

\* The backend lists the instruments of an end date; it is asked once.
AvailableLoaded(e) ==
    /\ Op /\ avail[e] = None
    /\ \E u \in Universe \ {None} : avail' = [avail EXCEPT ![e] = u]
    /\ trigger' = TRUE
    /\ UNCHANGED <<files, reading, shown, modes, live, ghosts>>

\* The venue lists its instruments, or is gone.
TickersChanged ==
    /\ Op
    /\ live' \in Universe \ {live} /\ trigger' = TRUE
    /\ UNCHANGED <<files, reading, shown, modes, avail, ghosts>>

Next ==
    \/ Frame \/ SyncToCache
    \/ \E id \in Ids : Add(id) \/ Remove(id)
    \/ \E e \in Ends : CommitEnd(e) \/ AvailableLoaded(e)
    \/ \E f \in Files : OpenStrategy(f) \/ SaveAs(f) \/ EditFile(f)
    \/ Save \/ LayoutAutosave \/ ExecutionModeChanged \/ TickersChanged

Spec == Init /\ [][Next]_vars
\* Every frame runs the chain, and an opened strategy is copied some frames on.
Fairness == WF_vars(Frame) /\ WF_vars(SyncToCache)

FairSpec == Spec /\ Fairness

-----------------------------------------------------------------------------
(* Properties *)

\* The sidebar shows what was loaded, less what was removed or is outside the
\* universe, with what was added: no re-reading of a file that the application
\* itself wrote undoes an edit, unless something other than the writeback of
\* the list (a layout autosave, a field of the Startup window, a save, the
\* flush before a run) rewrote that file before the edit was in it.
EditsAreKept == reg.editable /\ ~crossed => reg.ids = wanted

\* A run and a first step are sent with the instruments the sidebar shows, when
\* the list can be edited, although they are taken from two places.
RunsWhatIsShown == sent.editable => sent.ids = sent.shown

\* A locked list that the universe of a live mode pruned is whole again in
\* Replay: what the file lists and the universe of its end date has, at rest and
\* unless the reading found no instruments (refused) or the end date was edited
\* since (moved), which does not bring back what the one before it pruned.
LockedIsRestored ==
    LET settled == watch = [path |-> target, fresh |-> TRUE] /\ ~trigger
                     /\ prevMode = mode /\ ~refused /\ ~moved
    IN  settled /\ mode = "Replay" /\ target # None /\ ~reg.editable =>
          reg.ids = IF avail[scen.end] = None THEN file[target].ids
                    ELSE file[target].ids \intersect avail[scen.end]

\* What is written because of a reading does not cause another reading: once
\* nobody does anything, the chain comes to rest.
EchoEnds == <>[](watch = [path |-> target, fresh |-> TRUE] /\ ~touched /\ ~trigger)
=============================================================================
