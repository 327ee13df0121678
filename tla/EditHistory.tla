----------------------------- MODULE EditHistory -----------------------------
(***************************************************************************)
(* Undo and redo: one history for typing, dragging, opening and closing.    *)
(*                                                                         *)
(* An undo only queues an action; other systems of the frame carry it out,  *)
(* the editor widget echoes the text it is given as if it had been typed,   *)
(* and a closed editor comes back blank before its text is put into it.     *)
(* Window 0 is a panel, the others are editor regions. A text is the number *)
(* of the user operation that typed it, 0 when blank. Typing goes on while  *)
(* an undo is carried out; a hand needs longer than these few frames to     *)
(* reach a button, or to press Ctrl+Z again (the cooldown of 50 ms).        *)
(***************************************************************************)
EXTENDS Naturals, Sequences

CONSTANTS
    None,         \* absent
    MaxRegion,    \* region keys 1 .. MaxRegion
    Limit,        \* entries the history keeps (200 in the code)
    MaxOps        \* operations of the user, other than undo and redo

\* None differs from every text, window and expected echo.
ASSUME EditHistoryAssumption ==
    /\ None \notin Nat \union [src : Nat, pos : Nat] \union [key : Nat, text : Nat]
    /\ None \notin [src : Nat, pos : Nat, buf : Nat \union {None},
                    seed : Nat \union {None}, told : Nat \union {None}]
    /\ {MaxRegion, Limit} \subseteq Nat \ {0}
    /\ MaxOps \in Nat

Keys == 0 .. MaxRegion
Text == 0 .. MaxOps
VARIABLES
    record, cursor,       \* AppHistory.record: the entries, and how many are done
    queue, replaying,     \* pending.queue, replaying_depth
    echo,                 \* suppress_echo_target
    turn,                 \* undo_redo_system, then apply_pending_app_edits_system
    win,                  \* the windows
    changed, edited,      \* Changed<TextBuffer>, Changed<StrategyFragment>
    spawnQ, restore,      \* PanelSpawnRequested, PendingStrategySnapshotRestore
    layout,               \* AutoSaveState: clean, due, or dirty without a time
    alloc, ops,
    \* what the properties speak of
    base,                 \* the windows before the first entry
    stray                 \* typed while text came, or edits of two editors merged

history == <<record, cursor, queue, replaying, echo>>
vars == <<history, turn, win, changed, edited, spawnQ, restore, layout, alloc,
          ops, base, stray>>

Shown(w) == IF w = None THEN None ELSE [src |-> w.src, pos |-> w.pos]
Blank == [src |-> 0, pos |-> 0]

\* The windows after an entry, and after each entry of a sequence.
Done(world, e) ==
    CASE e.kind = "text" -> [world EXCEPT ![e.key].src = e.after]
      [] e.kind = "move" -> [world EXCEPT ![e.key].pos = e.after]
      [] OTHER -> [world EXCEPT ![e.key] = e.after]
Played(world, entries) ==
    LET after[i \in 0 .. Len(entries)] ==
            IF i = 0 THEN world ELSE Done(after[i - 1], entries[i])
    IN after

\* An entry is about the windows it would be undone to.
Fits(e, world) ==
    LET was == world[e.key] IN
    CASE e.kind = "text" -> was # None /\ was.src = e.before
      [] e.kind = "move" -> was # None /\ was.pos = e.before
      [] OTHER -> was = e.before

\* No action, window or text is under way to a widget; nor from one, which is
\* what a person waits for.
Carried ==
    /\ queue = << >> /\ spawnQ = << >> /\ restore = None /\ edited = {}
    /\ \A k \in Keys \ {0} : win[k] # None =>
          win[k].buf # None /\ win[k].seed = None /\ win[k].told = None
Idle == Carried /\ changed = {}

Init ==
    /\ record = << >> /\ cursor = 0 /\ queue = << >> /\ replaying = 0 /\ echo = None
    /\ turn = "undo"
    /\ win = [k \in Keys |-> IF k = 0 THEN [src |-> 0, pos |-> 0, buf |-> None,
                                            seed |-> None, told |-> None] ELSE None]
    /\ changed = {} /\ edited = {} /\ spawnQ = << >> /\ restore = None
    /\ layout = "clean" /\ alloc = 0 /\ ops = 0
    /\ base = [k \in Keys |-> Shown(win[k])]
    /\ stray = FALSE

-----------------------------------------------------------------------------
(* The record of the undo crate, and the push_* of AppHistory *)

\* Time and length decide whether two edits of text merge. The key does not.
Mergeable(e) ==
    /\ cursor > 0 /\ e.kind = "text" /\ record[cursor].kind = "text"

\* push_*: refused while an undo is carried out. An edit drops what was undone,
\* extends the last entry or is a new one; the oldest goes at the limit.
Faulty_Push(e) ==
    /\ record' = Append(record, e) /\ cursor' = cursor + 1
    /\ queue' = << >> /\ UNCHANGED <<base, stray>>
Push(e) ==
    \/ /\ replaying > 0
       /\ stray' = TRUE
       /\ UNCHANGED <<record, cursor, queue, base>>
    \/ /\ replaying = 0 /\ Mergeable(e)
       /\ record' = [SubSeq(record, 1, cursor) EXCEPT ![cursor].after = e.after]
       /\ queue' = << >>
       /\ stray' = (stray \/ record[cursor].key # e.key)
       /\ UNCHANGED <<cursor, base>>
    \/ /\ replaying = 0
       /\ LET entries == Append(SubSeq(record, 1, cursor), e) IN
          IF cursor = Limit
          THEN /\ record' = Tail(entries) /\ base' = Done(base, entries[1])
               /\ UNCHANGED cursor
          ELSE record' = entries /\ cursor' = cursor + 1 /\ UNCHANGED base
       /\ queue' = << >>
       /\ UNCHANGED stray

Action(k, e, forth) ==
    CASE e.kind = "text" -> [do |-> "text", key |-> k, to |-> IF forth THEN e.after ELSE e.before]
      [] e.kind = "move" -> [do |-> "move", key |-> k, to |-> IF forth THEN e.after ELSE e.before]
      [] OTHER -> LET to == IF forth THEN e.after ELSE e.before IN
                  [do |-> IF to = None THEN "despawn" ELSE "spawn", key |-> k, to |-> to,
                   snapshot |-> IF e.kind = "despawn" /\ ~forth THEN to.src ELSE None]

\* Ctrl+Z, Ctrl+Y: nothing to undo gives the depth back at once.
Faulty_UndoRedo(forth) ==
    /\ turn = "undo" /\ Idle
    /\ turn' = "apply"
    /\ IF (IF forth THEN cursor < Len(record) ELSE cursor > 0)
       THEN LET e == record[IF forth THEN cursor + 1 ELSE cursor] IN
            /\ cursor' = IF forth THEN cursor + 1 ELSE cursor - 1
            /\ queue' = Append(queue, Action(e.key, e, forth))
       ELSE UNCHANGED <<cursor, queue>>
    /\ replaying' = replaying + 1
    /\ UNCHANGED <<record, echo, win, changed, edited, spawnQ, restore, layout, alloc,
                   ops, base, stray>>
UndoRedo(forth) ==
    /\ turn = "undo" /\ Idle
    /\ turn' = "apply"
    /\ IF (IF forth THEN cursor < Len(record) ELSE cursor > 0)
       THEN LET e == record[IF forth THEN cursor + 1 ELSE cursor] IN
            /\ cursor' = IF forth THEN cursor + 1 ELSE cursor - 1
            /\ queue' = Append(queue, Action(e.key, e, forth))
            /\ replaying' = replaying + 1
       ELSE UNCHANGED <<cursor, queue, replaying>>
    /\ UNCHANGED <<record, echo, win, changed, edited, spawnQ, restore, layout, alloc,
                   ops, base, stray>>

-----------------------------------------------------------------------------
(* Carrying an undo out *)

\* SetStrategySource and the restore of a text: the fragment is dirty, and the
\* widget is expected to say it again.
SetSource(r, text) ==
    /\ echo' = [key |-> r, text |-> text]
    /\ IF win[r] = None THEN UNCHANGED <<win, edited>>
       ELSE win' = [win EXCEPT ![r].src = text] /\ edited' = edited \union {r}

\* What one action does to the windows.
CarryOut(a) ==
    \/ /\ a.do = "text" /\ SetSource(a.key, a.to)
       /\ UNCHANGED <<spawnQ, restore, layout, changed>>
    \/ /\ a.do = "move"
       /\ win' = IF win[a.key] = None THEN win ELSE [win EXCEPT ![a.key].pos = a.to]
       /\ layout' = IF layout = "clean" THEN "untimed" ELSE layout
       /\ UNCHANGED <<echo, edited, changed, spawnQ, restore>>
    \/ /\ a.do = "spawn"
       /\ spawnQ' = Append(spawnQ, [key |-> a.key, user |-> FALSE, pos |-> a.to.pos])
       /\ restore' = IF a.key # 0 /\ a.snapshot # None
                     THEN [key |-> a.key, text |-> a.snapshot] ELSE restore
       /\ layout' = IF layout = "clean" THEN "untimed" ELSE layout
       /\ UNCHANGED <<echo, win, edited, changed>>
    \/ /\ a.do = "despawn"
       /\ win' = [win EXCEPT ![a.key] = None]
       /\ edited' = edited \ {a.key} /\ changed' = changed \ {a.key}
       /\ layout' = IF layout = "clean" /\ win[a.key] # None THEN "untimed" ELSE layout
       /\ UNCHANGED <<echo, spawnQ, restore>>

\* apply_pending_app_edits_system follows undo_redo_system in every frame, so
\* the queue never holds more than one action. The depth is taken back once.
ApplyPending ==
    /\ turn = "apply" /\ turn' = "undo"
    /\ IF queue = << >>
       THEN UNCHANGED <<queue, replaying, echo, win, changed, edited, spawnQ, restore, layout>>
       ELSE /\ CarryOut(Head(queue))
            /\ queue' = << >>
            /\ replaying' = IF replaying > 0 THEN replaying - 1 ELSE 0
    /\ UNCHANGED <<record, cursor, alloc, ops, base, stray>>

\* The text of an editor that was closed, once some editor is there.
Faulty_RestoreSnapshot ==
    /\ restore # None /\ \E r \in Keys \ {0} : win[r] # None
    /\ SetSource(restore.key, restore.text)
    /\ UNCHANGED <<record, cursor, queue, replaying, turn, changed, spawnQ, restore, layout,
                   alloc, ops, base, stray>>
RestoreSnapshot ==
    /\ restore # None /\ \E r \in Keys \ {0} : win[r] # None
    /\ SetSource(restore.key, restore.text)
    /\ restore' = IF win[restore.key] = None THEN restore ELSE None
    /\ UNCHANGED <<record, cursor, queue, replaying, turn, changed, spawnQ, layout,
                   alloc, ops, base, stray>>

\* The dispatcher makes the window, and the layout that waits for it moves it.
\* A panel that is there already is skipped.
Dispatch ==
    /\ spawnQ # << >>
    /\ LET req == Head(spawnQ)  k == req.key IN
       IF k = 0 /\ win[0] # None
       THEN UNCHANGED <<record, cursor, queue, win, alloc, base, stray>>
       ELSE /\ win' = [win EXCEPT ![k] = [src |-> 0, pos |-> req.pos, buf |-> None,
                                           seed |-> None, told |-> None]]
            /\ alloc' = IF alloc < k THEN k ELSE alloc
            /\ IF req.user THEN Push([kind |-> "spawn", key |-> k, before |-> None, after |-> Blank])
               ELSE UNCHANGED <<record, cursor, queue, base, stray>>
    /\ spawnQ' = Tail(spawnQ)
    /\ UNCHANGED <<replaying, echo, turn, changed, edited, restore, layout, ops>>

-----------------------------------------------------------------------------
(* Widgets and fragments *)

\* The widget of a new editor takes the text its fragment has at that moment,
SpawnPeer(r) ==
    /\ r # 0 /\ win[r] # None /\ win[r].buf = None /\ win[r].seed = None
    /\ win' = [win EXCEPT ![r].seed = win[r].src]
    /\ UNCHANGED <<history, turn, changed, edited, spawnQ, restore, layout, alloc, ops, base, stray>>

\* and shows it frames later: by then a text to restore is in the fragment, and
\* was sent if the widget was there. Both texts are taken in an order left open.
SeedPeer(r) ==
    /\ r # 0 /\ win[r] # None /\ win[r].seed # None /\ restore = None /\ r \notin edited
    /\ \E text \in {win[r].seed, win[r].told} \ {None} :
         win' = [win EXCEPT ![r].buf = text, ![r].seed = None, ![r].told = None]
    /\ changed' = changed \union {r}
    /\ UNCHANGED <<history, turn, edited, spawnQ, restore, layout, alloc, ops, base, stray>>

\* What the widget shows goes to the fragment. The expected echo is swallowed;
\* any other change ends the waiting for it, and is recorded if it is news.
FromWidget(r) ==
    /\ r \in changed /\ win[r] # None
    /\ changed' = changed \ {r}
    /\ LET new == win[r].buf IN
       IF echo = [key |-> r, text |-> new]
       THEN /\ win' = [win EXCEPT ![r].src = new]
            /\ edited' = edited \union {r}
            /\ UNCHANGED <<record, cursor, queue, base, stray>>
       ELSE IF win[r].src = new
       THEN UNCHANGED <<record, cursor, queue, base, stray, win, edited>>
       ELSE /\ Push([kind |-> "text", key |-> r, before |-> win[r].src, after |-> new])
            /\ win' = [win EXCEPT ![r].src = new]
            /\ edited' = edited \union {r}
    /\ echo' = None
    /\ UNCHANGED <<replaying, turn, spawnQ, restore, layout, alloc, ops>>

\* A fragment that changed is sent to its widget, if there is one and it differs.
ToWidget(r) ==
    /\ r \in edited
    /\ edited' = edited \ {r}
    /\ win' = IF win[r] = None \/ win[r].buf = win[r].src
                 \/ (win[r].buf = None /\ (win[r].seed = None \/ win[r].src = 0)) THEN win
              ELSE [win EXCEPT ![r].told = win[r].src]
    /\ UNCHANGED <<history, turn, changed, spawnQ, restore, layout, alloc, ops, base, stray>>

\* The widget takes the text it was sent.
WidgetShows(r) ==
    /\ r # 0 /\ win[r] # None /\ win[r].told # None /\ win[r].seed = None
    /\ win' = [win EXCEPT ![r].buf = win[r].told, ![r].told = None]
    /\ changed' = changed \union {r}
    /\ UNCHANGED <<history, turn, edited, spawnQ, restore, layout, alloc, ops, base, stray>>

-----------------------------------------------------------------------------
(* The user *)

\* Typing, or replacing text, in a widget. A text under way may overwrite it.
Type(r) ==
    /\ ops < MaxOps /\ r # 0 /\ win[r] # None /\ win[r].buf # None
    /\ win' = [win EXCEPT ![r].buf = ops + 1]
    /\ changed' = changed \union {r}
    /\ ops' = ops + 1
    /\ stray' = (stray \/ ~Carried)
    /\ UNCHANGED <<history, turn, edited, spawnQ, restore, layout, alloc, base>>

\* The end of a drag.
Move(k) ==
    /\ ops < MaxOps /\ Idle /\ win[k] # None
    /\ win' = [win EXCEPT ![k].pos = 1 - @]
    /\ Push([kind |-> "move", key |-> k, before |-> win[k].pos, after |-> 1 - win[k].pos])
    /\ layout' = "due"
    /\ ops' = ops + 1
    /\ UNCHANGED <<replaying, echo, turn, changed, edited, spawnQ, restore, alloc>>

\* The sidebar asks for a panel that is not there, or for a blank editor.
Open ==
    /\ ops < MaxOps /\ Idle
    /\ \E k \in {0, alloc + 1} :
          /\ k \in Keys /\ win[k] = None
          /\ spawnQ' = Append(spawnQ, [key |-> k, user |-> TRUE, pos |-> 0])
    /\ ops' = ops + 1
    /\ UNCHANGED <<history, turn, win, changed, edited, restore, layout, alloc, base, stray>>

\* The close button keeps what the window held.
Close(k) ==
    /\ ops < MaxOps /\ Idle /\ win[k] # None
    /\ IF replaying = 0
       THEN /\ Push([kind |-> "despawn", key |-> k, before |-> Shown(win[k]), after |-> None])
            /\ layout' = "due"
       ELSE UNCHANGED <<record, cursor, queue, base, layout>> /\ stray' = TRUE
    /\ win' = [win EXCEPT ![k] = None]
    /\ ops' = ops + 1
    /\ UNCHANGED <<replaying, echo, turn, changed, edited, spawnQ, restore, alloc>>

\* debounced_autosave_system: a second after the last change that has a time.
LayoutAutosave ==
    /\ layout = "due"
    /\ layout' = "clean"
    /\ UNCHANGED <<history, turn, win, changed, edited, spawnQ, restore, alloc, ops, base, stray>>

-----------------------------------------------------------------------------
Next ==
    \/ \E forth \in BOOLEAN : UndoRedo(forth)
    \/ ApplyPending \/ RestoreSnapshot \/ Dispatch \/ LayoutAutosave \/ Open
    \/ \E k \in Keys : Move(k) \/ Close(k)
    \/ \E r \in Keys : SpawnPeer(r) \/ SeedPeer(r) \/ FromWidget(r) \/ ToWidget(r)
                        \/ WidgetShows(r) \/ Type(r)

Spec == Init /\ [][Next]_vars

\* Every system runs in every frame; the user owes nothing.
Fairness ==
    /\ WF_vars(ApplyPending) /\ WF_vars(RestoreSnapshot) /\ WF_vars(Dispatch)
    /\ WF_vars(LayoutAutosave)
    /\ \A r \in Keys : WF_vars(SpawnPeer(r)) /\ WF_vars(SeedPeer(r)) /\ WF_vars(FromWidget(r))
                       /\ WF_vars(ToWidget(r)) /\ WF_vars(WidgetShows(r))
FairSpec == Spec /\ Fairness

-----------------------------------------------------------------------------
(* Properties *)

\* Once an undo has been handed on, the history records again: what is done
\* from then on can be undone.
RecordingResumes == turn = "undo" => replaying = 0 /\ queue = << >>

\* The history tells the truth: its done part, played from the start, gives the
\* windows and texts that are there, and every entry is about the state it would
\* be undone to. Not claimed after typing in the one step in which the history
\* refuses entries, nor after edits of two editors were merged.
RecordFits ==
    Idle /\ ~stray =>
        LET world == Played(base, record) IN
        /\ \A k \in Keys : Shown(win[k]) = world[cursor][k]
        /\ \A i \in 1 .. Len(record) : Fits(record[i], world[i - 1])

\* An undo comes to an end: the windows, their texts and the echoes settle.
\* (Two texts that crossed between fragment and widget may swap for ever.)
UndoEnds == turn = "apply" ~> Idle \/ stray
=============================================================================
