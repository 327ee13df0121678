----------------------------- MODULE FindReplace -----------------------------
(***************************************************************************)
(* Find and replace over the editors of a strategy.                        *)
(*                                                                         *)
(* One panel serves all editors.  The matches it shows were computed by    *)
(* one system of the frame from the fragment of the target editor and are  *)
(* used by others, in this frame or a later one: to step through them, and *)
(* to build the new text of a replacement, which the widget gets as a      *)
(* message.  What is typed into a widget reaches the fragment by yet       *)
(* another system, and an editor may be closed under the panel.            *)
(*                                                                         *)
(* A frame takes a key or a click and runs its systems one by one, in any  *)
(* order the schedule allows.  Characters are compared without case    *)
(* (nothing in the UI sets case_sensitive): a member of Chars stands for a *)
(* letter in both its cases.                                               *)
(***************************************************************************)
EXTENDS Naturals, FiniteSets, SequencesExt

CONSTANTS
    Editors, Chars, Newline, Nothing,
    Texts,       \* what the widgets may hold at the start
    MaxChanges,  \* bound: characters typed into a widget and replacements
    MaxFields    \* bound: characters in the two fields of the panel

ASSUME FindReplaceAssumption ==
    /\ Newline \notin Chars /\ Nothing \notin Editors
    /\ Chars \intersect {"none", "find", "escape", "backspace", "tab", "f3", "shift_f3", "enter"} = {}
    /\ {MaxChanges, MaxFields} \subseteq Nat
    /\ Texts \subseteq Seq(Chars \union {Newline})

VARIABLES
    query, repl,              \* the two fields
    matches, current,         \* matches, with the index of the one shown
    open, field,              \* is_open; focused_field
    target, focus,            \* target_editor; InputFocus
    last,                     \* the inputs of the last computation
    roots, peers,             \* windows of editors, and the widgets they have
    source, buf,              \* StrategyFragment.source, TextBuffer
    fragChanged, bufChanged,  \* Changed<..> for compute and for the sync
    sent,                     \* SetTextRequested on its way to each widget
    frame,                    \* systems still to run, key, clicks (now, and kept
                              \* from the frame before), whether it began at rest
    changes                   \* bounded

panel == <<query, repl, field>>
shown == <<matches, current>>
texts == <<source, buf, fragChanged, bufChanged>>
findVars == <<panel, shown, open, target, focus, last, roots, peers, texts, sent,
              frame, changes>>

-----------------------------------------------------------------------------
(* find_matches and apply_replacement                                      *)

LineStarts(s) ==
    LET upto[i \in 0 .. Len(s)] ==
            IF i = 0 THEN <<0>>
            ELSE IF s[i] = Newline THEN Append(upto[i - 1], i) ELSE upto[i - 1]
    IN  upto[Len(s)]

LineEnd(s, starts, k) == IF k < Len(starts) THEN starts[k + 1] - 1 ELSE Len(s)
Line(s, k) == LET starts == LineStarts(s) IN SubSeq(s, starts[k] + 1, LineEnd(s, starts, k))

MatchesAt(line, b, q) ==
    b + Len(q) <= Len(line) /\ SubSeq(line, b + 1, b + Len(q)) = q

\* Where the matches of a line begin: a scan, blocked until the end of the last.
FoundIn(line, q) ==
    LET upto[b \in 0 .. Len(line)] ==
            IF b = 0 THEN << >>
            ELSE LET from == upto[b - 1]
                     free == from = << >> \/ from[Len(from)] + Len(q) <= b - 1
                 IN  IF free /\ MatchesAt(line, b - 1, q) THEN Append(from, b - 1) ELSE from
    IN  upto[Len(line)]

MatchesOf(s, k, q) ==
    LET from == FoundIn(Line(s, k), q)
    IN  [i \in 1 .. Len(from) |-> [line |-> k, from |-> from[i], to |-> from[i] + Len(q)]]

FindMatches(s, q) ==
    LET upto[k \in 0 .. Len(LineStarts(s))] ==
            IF k = 0 THEN << >> ELSE upto[k - 1] \o MatchesOf(s, k, q)
    IN  IF q = << >> THEN << >> ELSE upto[Len(LineStarts(s))]

\* A match in the text as a whole, and the text with it replaced.
Absolute(starts, m) == [from |-> starts[m.line] + m.from, to |-> starts[m.line] + m.to]
Spliced(s, range, r) == SubSeq(s, 1, range.from) \o r \o SubSeq(s, range.to + 1, Len(s))
Splice(s, range, r) == IF range.to <= Len(s) THEN Spliced(s, range, r) ELSE s

\* The ranges of the matches whose line is still there.
Ranges(s, ms) ==
    LET starts == LineStarts(s)
        upto[n \in 0 .. Len(ms)] ==
            IF n = 0 THEN << >>
            ELSE IF ms[n].line <= Len(starts) THEN Append(upto[n - 1], Absolute(starts, ms[n]))
            ELSE upto[n - 1]
    IN  upto[Len(ms)]

\* Sorted by their start, the last first.
FromTheRight(ranges) ==
    LET upto[n \in 0 .. Len(ranges)] ==
            IF n = 0 THEN << >>
            ELSE LET sorted == upto[n - 1]
                     before == Cardinality({i \in 1 .. n - 1 : sorted[i].from >= ranges[n].from})
                 IN  SubSeq(sorted, 1, before) \o <<ranges[n]>> \o SubSeq(sorted, before + 1, n - 1)
    IN  upto[Len(ranges)]

Replaced(s, ranges, r) ==
    LET out[n \in 0 .. Len(ranges)] ==
            IF n = 0 THEN s ELSE Splice(out[n - 1], ranges[n], r)
    IN  out[Len(ranges)]

\* they are replaced from the left
Faulty_ApplyReplacement(s, ms, r) == Replaced(s, Ranges(s, ms), r)

\* The texts are replaced from the right, or the ranges would shift.
ApplyReplacement(s, ms, r) == Replaced(s, FromTheRight(Ranges(s, ms)), r)

-----------------------------------------------------------------------------
(* What a search finds, and a replacement gives, by definition.            *)

Occurs(s, q, i) == i + Len(q) - 1 <= Len(s) /\ SubSeq(s, i, i + Len(q) - 1) = q

\* An occurrence counts unless it overlaps an earlier one that counts.
Places(s, q) ==
    IF q = << >> THEN {}
    ELSE CHOOSE S \in SUBSET (1 .. Len(s)) :
             \A i \in 1 .. Len(s) :
                 i \in S <=> Occurs(s, q, i) /\ \A j \in S : j < i => j + Len(q) <= i

\* The text with those at some places replaced, character by character.
Instead(s, q, r, at, i) ==
    CASE i \in at -> r
      [] i \notin at /\ (\E j \in at : j < i /\ i < j + Len(q)) -> << >>
      [] OTHER -> <<s[i]>>

Substituted(s, q, r, at) ==
    LET rest[n \in 0 .. Len(s)] ==
            IF n = 0 THEN << >> ELSE Instead(s, q, r, at, Len(s) + 1 - n) \o rest[n - 1]
    IN  rest[Len(s)]

-----------------------------------------------------------------------------
NavKeys == {"f3", "shift_f3", "enter"}
Keys    == {"find", "escape", "backspace", "tab"} \union NavKeys \union Chars
Stepping  == {"next", "prev"}
Replacing == {"replace", "all"}
Buttons   == Stepping \union Replacing
Inputs  == [query |-> query, open |-> open, target |-> target]

Idle == [todo |-> {}, key |-> "none", clicks |-> {}, kept |-> {}, calm |-> FALSE]
Default == [query |-> << >>, open |-> FALSE, target |-> Nothing]

AtRest ==
    /\ frame.todo = {} /\ last = Inputs /\ fragChanged = {} /\ bufChanged = {}
    /\ roots = peers
    /\ \A e \in Editors : sent[e] = Nothing /\ (e \in roots => source[e] = buf[e])

FindInit ==
    /\ query = << >> /\ repl = << >> /\ field = "none"
    /\ matches = << >> /\ current = 0
    /\ open = FALSE /\ target = Nothing /\ focus = Nothing
    /\ last = Default
    /\ roots = Editors /\ peers = Editors
    /\ source \in [Editors -> Texts] /\ buf = source
    /\ fragChanged = {} /\ bufChanged = {}
    /\ sent = [e \in Editors |-> Nothing]
    /\ frame = Idle
    /\ changes = 0

-----------------------------------------------------------------------------
(* A frame begins: a widget takes the text it was sent, and gets the key   *)
(* if it has the focus; the same key goes to the panel.                    *)

Delivered == [e \in Editors |-> IF sent[e] = Nothing THEN buf[e] ELSE sent[e]]

\* A character goes in at either end (a bound); Enter breaks the line.
Typed(key) ==
    IF focus = Nothing \/ key \notin Chars \union {"enter"} THEN buf' = Delivered
    ELSE \E k \in {0, Len(Delivered[focus])} :
            buf' = [Delivered EXCEPT ![focus] =
                   SubSeq(@, 1, k) \o <<IF key = "enter" THEN Newline ELSE key>>
                   \o SubSeq(@, k + 1, Len(@))]

Room(key, clicks) ==
    LET writes == (IF focus # Nothing /\ key \in Chars \union {"enter"} THEN 1 ELSE 0)
                  + (IF clicks \intersect Replacing = {} THEN 0 ELSE 1)
    IN  /\ key \in Chars /\ field # "none" => Len(query) + Len(repl) < MaxFields
        /\ changes' = changes + writes /\ changes' <= MaxChanges

\* Keys that nobody takes are left out.
Taken(key) ==
    \/ key = "find"
    \/ key \in Chars \union {"enter"} /\ focus # Nothing
    \/ key \in NavKeys \union {"escape"} /\ open
    \/ key \in Chars \union {"backspace", "tab"} /\ field # "none"

Begin(key, clicks) ==
    /\ frame.todo = {}
    /\ clicks # {} => open
    /\ key # "none" => Taken(key)
    /\ key # "none" \/ clicks # {} \/ ~AtRest \/ frame.kept # {}
    /\ Room(key, clicks)
    /\ Typed(key)
    /\ bufChanged' = bufChanged \union {e \in peers : buf'[e] # buf[e]}
    /\ sent' = [e \in Editors |-> Nothing]
    /\ frame' = [todo |-> {"compute"}
                     \union (IF bufChanged' = {} THEN {} ELSE {"toFragment"})
                     \union (IF key \in {"find", "escape"} THEN {"keyboard"} ELSE {})
                     \union (IF key = "none" THEN {} ELSE {"field"})
                     \union (IF key \in NavKeys \/ clicks \union frame.kept # {} THEN {"navigate"} ELSE {})
                     \union (IF Replacing \intersect (clicks \union frame.kept) # {} THEN {"replace"} ELSE {})
                     \union (IF roots # peers THEN {"cleanup"} ELSE {}),
                 key |-> key, clicks |-> clicks, kept |-> frame.kept,
                 calm |-> AtRest /\ frame.kept = {} /\ key = "none"]
    /\ UNCHANGED <<panel, shown, open, target, focus, last, roots, peers, source, fragChanged>>

\* Between two frames the pointer focuses an editor or closes its window.
ClickEditor(e) ==
    /\ frame.todo = {} /\ e \in roots /\ focus # e
    /\ focus' = e
    /\ UNCHANGED <<panel, shown, open, target, last, roots, peers, texts, sent, frame, changes>>

CloseEditorWindow(e) ==
    /\ frame.todo = {} /\ e \in roots
    /\ roots' = roots \ {e} /\ fragChanged' = fragChanged \ {e}
    /\ source' = [source EXCEPT ![e] = << >>]
    /\ UNCHANGED <<panel, shown, open, target, focus, last, peers, buf, bufChanged, sent, frame, changes>>

-----------------------------------------------------------------------------
(* The systems                                                             *)

Order == {<<"keyboard", "field">>, <<"field", "compute">>, <<"compute", "navigate">>}

Run(s) == s \in frame.todo /\ \A t \in frame.todo : <<t, s>> \notin Order
Leaving(s, kept) ==
    frame' = IF frame.todo = {s} THEN [Idle EXCEPT !.kept = kept]
             ELSE [frame EXCEPT !.todo = @ \ {s}, !.kept = kept]
Ran(s) == Leaving(s, frame.kept)

\* Clicks a system returns before reading it reads in the next frame, when
\* they are kept for the last time.
Clicked == frame.clicks \union frame.kept
RanReading(s, read, buttons) ==
    Leaving(s, (frame.kept \ buttons)
               \union (IF read THEN {} ELSE frame.clicks \intersect buttons))

Dismiss ==
    /\ open' = FALSE /\ field' = "none"
    /\ focus' = IF target = Nothing THEN focus ELSE target
    /\ UNCHANGED <<query, repl, target>>

\* find_keyboard_system: Ctrl+F opens the panel on the editor that has the
\* focus, or moves it there; Escape closes it.
Keyboard ==
    /\ Run("keyboard") /\ Ran("keyboard")
    /\ \/ /\ frame.key = "find"
          /\ open' = TRUE /\ field' = "query" /\ focus' = Nothing
          /\ target' = IF focus \in peers THEN focus ELSE IF open THEN target ELSE Nothing
          /\ UNCHANGED <<query, repl>>
       \/ frame.key = "escape" /\ open /\ Dismiss
       \/ /\ frame.key # "find" /\ ~(frame.key = "escape" /\ open)
          /\ UNCHANGED <<panel, open, target, focus>>
    /\ UNCHANGED <<shown, last, roots, peers, texts, sent, changes>>

Edited(text) ==
    CASE frame.key \in Chars -> Append(text, frame.key)
      [] frame.key = "backspace" /\ text # << >> -> Front(text)
      [] OTHER -> text

\* find_field_input_system: the keys of a frame, while a field is focused.
FieldInput ==
    /\ Run("field") /\ Ran("field")
    /\ \/ ~(open /\ field # "none") /\ UNCHANGED <<panel, open, target, focus>>
       \/ open /\ field # "none" /\ frame.key = "escape" /\ Dismiss
       \/ /\ open /\ field # "none" /\ frame.key # "escape"
          /\ query' = IF field = "query" THEN Edited(query) ELSE query
          /\ repl' = IF field = "repl" THEN Edited(repl) ELSE repl
          /\ field' = IF frame.key # "tab" THEN field ELSE IF field = "query" THEN "repl" ELSE "query"
          /\ UNCHANGED <<open, target, focus>>
    /\ UNCHANGED <<shown, last, roots, peers, texts, sent, changes>>

\* compute_find_match_spans_system: anew when an input or any fragment changed.
Orphaned == target # Nothing /\ target \notin peers

Forget ==
    /\ query' = << >> /\ repl' = << >> /\ field' = "none"
    /\ matches' = << >> /\ current' = 0
    /\ open' = FALSE /\ target' = Nothing
    /\ last' = Default

Recompute(changed) ==
    /\ last' = IF changed THEN Inputs ELSE last
    /\ LET found == FindMatches(source[target], query)
           first == last.query # query \/ last.target # target
           kept  == IF first THEN 0 ELSE current
       IN  IF ~changed \/ target = Nothing THEN UNCHANGED shown
           ELSE IF ~open \/ query = << >> THEN matches' = << >> /\ current' = 0
           ELSE IF target \notin roots THEN UNCHANGED shown
           ELSE /\ matches' = found
                /\ current' = IF kept < Len(found) THEN kept
                              ELSE IF found = << >> THEN 0 ELSE Len(found) - 1
    /\ UNCHANGED <<panel, open, target>>

\* a change of the source does not count
Faulty_Compute ==
    /\ Run("compute") /\ Ran("compute")
    /\ IF Orphaned THEN Forget ELSE Recompute(last # Inputs)
    /\ fragChanged' = {}
    /\ UNCHANGED <<focus, roots, peers, source, buf, bufChanged, sent, changes>>

Compute ==
    /\ Run("compute") /\ Ran("compute")
    /\ IF Orphaned THEN Forget ELSE Recompute(last # Inputs \/ fragChanged # {})
    /\ fragChanged' = {}
    /\ UNCHANGED <<focus, roots, peers, source, buf, bufChanged, sent, changes>>

\* find_navigate_system
Navigate ==
    LET n       == Len(matches)
        enter   == frame.key = "enter" /\ field # "query" /\ (target = Nothing \/ focus # target)
        forward == frame.key = "f3" \/ enter \/ "next" \in Clicked
        back    == frame.key = "shift_f3" \/ "prev" \in Clicked
        read    == open /\ n > 0
    IN  /\ Run("navigate") /\ RanReading("navigate", read, Stepping)
        /\ current' = IF read /\ forward THEN (current + 1) % n
                      ELSE IF read /\ back THEN (current + n - 1) % n
                      ELSE current
        /\ UNCHANGED <<panel, matches, open, target, focus, last, roots, peers, texts, sent, changes>>

\* replace_execute_system: the ranges are those of the last computation, the
\* source is what the fragment holds now.
Chosen == IF "all" \in Clicked THEN matches
          ELSE IF current < Len(matches) THEN <<matches[current + 1]>> ELSE << >>

Replace ==
    /\ Run("replace") /\ RanReading("replace", open, Replacing)
    /\ LET able == open /\ matches # << >> /\ target \in peers /\ target \in roots
           text == ApplyReplacement(source[target], Chosen, repl)
       IN  sent' = IF able /\ text # source[target] THEN [sent EXCEPT ![target] = text] ELSE sent
    /\ UNCHANGED <<panel, shown, open, target, focus, last, roots, peers, texts, changes>>

\* sync_bevscode_to_strategy_fragment_system
ToFragment ==
    /\ Run("toFragment") /\ Ran("toFragment")
    /\ LET news == {e \in bufChanged \intersect roots : source[e] # buf[e]}
       IN  /\ source' = [e \in Editors |-> IF e \in news THEN buf[e] ELSE source[e]]
           /\ fragChanged' = fragChanged \union news
    /\ bufChanged' = {}
    /\ UNCHANGED <<panel, shown, open, target, focus, last, roots, peers, buf, sent, changes>>

\* the widget goes, what points to it stays
Faulty_Cleanup ==
    /\ Run("cleanup") /\ Ran("cleanup")
    /\ peers' = roots
    /\ IF target \in peers \ roots
       THEN target' = Nothing /\ open' = FALSE
       ELSE UNCHANGED <<target, open>>
    /\ UNCHANGED <<panel, shown, focus, last, roots, texts, sent, changes>>

\* cleanup_strategy_editor_node_on_root_despawn
Cleanup ==
    /\ Run("cleanup") /\ Ran("cleanup")
    /\ peers' = roots
    /\ focus' = IF focus \in roots THEN focus ELSE Nothing
    /\ IF target \in peers \ roots
       THEN target' = Nothing /\ open' = FALSE
       ELSE UNCHANGED <<target, open>>
    /\ UNCHANGED <<panel, shown, last, roots, texts, sent, changes>>

-----------------------------------------------------------------------------
Person ==
    \/ \E key \in Keys \union {"none"} : Begin(key, {})
    \/ \E button \in Buttons : Begin("none", {button})
    \/ \E e \in Editors : ClickEditor(e) \/ CloseEditorWindow(e)

FrameSystem == Keyboard \/ FieldInput \/ Compute \/ Navigate \/ Replace \/ ToFragment \/ Cleanup

FindNext == Person \/ FrameSystem
FindSpec == FindInit /\ [][FindNext]_findVars

-----------------------------------------------------------------------------
\* Once nothing is on its way the panel shows what is there: the matches are
\* the occurrences of the query in the text of the target, over edits,
\* replacements and changes of target, and the one that is shown exists.
ShownIsFound ==
    AtRest /\ open /\ target # Nothing =>
        /\ LET r == Ranges(source[target], matches)
           IN  {r[i].from + 1 : i \in DOMAIN r} = Places(source[target], query)
        /\ current < Len(matches) \/ (matches = << >> /\ current = 0)

\* A replacement clicked at rest replaces the occurrence that is shown, or all
\* of them, and nothing else, however the systems of the frame are ordered.
\* (In a frame that also brings a new text it may not: the ranges may be those
\* of the text before.)
ReplaceIsExact ==
    [][\A e \in Editors : sent'[e] # sent[e] /\ sent'[e] # Nothing /\ frame.calm =>
         LET places == Places(source[e], query)
             nth    == {p \in places : Cardinality({o \in places : o < p}) = current}
         IN  e = target /\ sent'[e] = Substituted(source[e], query, repl,
                 IF "all" \in frame.clicks THEN places ELSE nth)]_findVars

\* Keys and replacements never go to a widget that is gone: an editor may be
\* closed at any moment, and Escape gives the focus back to the target.
FocusIsAlive == {target, focus} \subseteq peers \union {Nothing}
=============================================================================
