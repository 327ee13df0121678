------------------------------ MODULE UiPrompts ------------------------------
(***************************************************************************)
(* The prompts of the order flow, and who gets a key.                      *)
(*                                                                         *)
(* Five prompts (second secret, order confirmation, modification, and two  *)
(* notices) each keep their own state and mirror it on one stack, from     *)
(* which Escape takes the entry of the highest priority.  The mirror is    *)
(* kept by one system per prompt that runs once a frame and tells who was  *)
(* first, the prompt or the stack, by change detection and a flag of its   *)
(* own.  Two popups, the order's context menu and the settings, read       *)
(* Escape by themselves and yield to some of the prompts.                  *)
(*                                                                         *)
(* A frame is modelled system by system: which of them still has to run is *)
(* state, and they run in any order the schedule allows.                   *)
(***************************************************************************)
EXTENDS Naturals, FiniteSets

CONSTANTS
    Prompts,      \* the five prompts or a part of them
    MaxRequests,  \* bound: SecretRequired events
    Declared      \* TRUE: the order of the systems exactly as declared

ASSUME PromptsAssumption ==
    /\ "secret" \in Prompts
    /\ Prompts \subseteq {"secret", "confirm", "modify", "reconcile", "relogin"}
    /\ MaxRequests \in Nat
    /\ Declared \in BOOLEAN

Notices == Prompts \intersect {"reconcile", "relogin"}
Popups  == {"menu", "settings"}

\* dispatch priority of an Escape (dismiss_priority), not the z order drawn.
Priority == [secret |-> 300, confirm |-> 280, modify |-> 270,
             reconcile |-> 262, relogin |-> 260]

Front(S) == CHOOSE p \in S : \A q \in S : Priority[p] >= Priority[q]

VARIABLES
    asked,   \* SecretPrompt.active: the request shown, 0 for none
    open,    \* the other prompts that are open
    dirty,   \* prompts written since their mirror last looked (is_changed)
    stack,   \* ModalLayer.stack; one entry a prompt, so a set
    was,     \* was_on_stack of each mirror
    popups,  \* popups that are open
    input,   \* SecretInput: request, whether it holds text, timer run out
    issued,  \* requests issued so far
    frame    \* the frame under way: todo, keys, click and what it began with

vars == <<asked, open, dirty, stack, was, popups, input, issued, frame>>

Open == open \union (IF asked = 0 THEN {} ELSE {"secret"})

NoInput == [id |-> 0, text |-> FALSE, late |-> FALSE]

(***************************************************************************)
(* The systems of a frame.  A prompt's name stands for its mirror, a       *)
(* popup's name for the system that reads Escape for it; the others are     *)
(* "events", "status", "lifecycle", "timeout", "escape", "secret_keys",    *)
(* "modify_keys", "confirm_click" and "click".                             *)
(***************************************************************************)

\* .before and .after, also as they follow from each other by way of the two
\* systems that type (those are not in every frame); the edges of the Escape
\* system to others set apart.
Explicit ==
    {<<"menu", "secret_keys">>, <<"menu", "confirm_click">>,
     <<"settings", "secret_keys">>, <<"settings", "confirm_click">>,
     <<"confirm_click", "secret_keys">>, <<"events", "secret_keys">>,
     <<"secret_keys", "modify_keys">>,
     <<"secret_keys", "secret">>, <<"modify_keys", "modify">>,
     <<"secret_keys", "modify">>}
    \union ({"menu", "settings", "confirm_click", "events"} \X {"secret", "modify"})
    \union ({"escape"} \X Prompts)

EscapeFirst == {<<"escape", "secret_keys">>, <<"escape", "confirm_click">>}

\* InputPhase: KeyboardDrain strictly before ModalInput.
Phases == {"secret_keys", "modify_keys"} \X {"escape"}

\* EscapeFirst and Phases contradict each other; without Declared neither is
\* held to, so that either way out is among the orders explored.
Order == Explicit \union (IF Declared THEN EscapeFirst \union Phases ELSE {})

MayRun(s) == s \in frame.todo /\ \A t \in frame.todo : <<t, s>> \notin Order

\* A click and the keys are forgotten with the system that reads them last.
Done(s) == frame' = [frame EXCEPT
    !.todo  = @ \ {s},
    !.click = IF s \in {"click", "confirm_click"} THEN "none" ELSE @,
    !.keys  = IF s = "modify_keys" THEN {} ELSE @]

Clicks == {"secret_submit", "secret_cancel", "confirm", "modify", "reconcile",
           "relogin", "menu", "settings", "open_settings", "submit", "row"}

\* What the pointer can hit: what earlier frames have shown.
Clickable ==
    {"open_settings", "row"} \union (IF "confirm" \in Prompts THEN {"submit"} ELSE {})
    \union (Open \ {"secret"}) \union popups
    \union (IF asked = 0 THEN {} ELSE {"secret_submit", "secret_cancel"})

InStep == stack = Open /\ was = Open /\ dirty \intersect Open = {}

\* What is remembered of the frame's start if it is one in which only Escape is
\* pressed and every mirror is in step.
Unwatched == [calm |-> FALSE, polled |-> FALSE, open |-> {}, popups |-> {},
              arrived |-> {}]

Idle == [todo |-> {}, keys |-> {}, click |-> "none", was |-> Unwatched]

Init ==
    /\ asked = 0 /\ open = {} /\ dirty = {} /\ stack = {} /\ was = {}
    /\ popups = {} /\ input = NoInput /\ issued = 0
    /\ frame = Idle

-----------------------------------------------------------------------------
(* The frame begins with what happened since the last one.                 *)

\* Keys of one frame that differ in what the systems do with them.
KeyStrokes == {{}, {"char"}, {"enter"}, {"escape"}, {"escape", "enter"}}

\* Prompts that the reports, the timer or the click of a frame can change.
Touched(click, reports) ==
    {p \in Prompts :
        \/ p \in {"secret", "relogin"} /\ "events" \in reports
        \/ p \in {"secret", "reconcile"} /\ "status" \in reports
        \/ p = "secret" /\ (input.late \/ click \in {"secret_submit", "secret_cancel"})
        \/ p = "confirm" /\ click = "submit"
        \/ p = "modify" /\ click = "menu"
        \/ p = click}

\* A system is left out of a frame in which it would change nothing: one that
\* types, if only Escape is pressed; a popup that is closed; a mirror whose prompt is closed, off the
\* stack and not touched.
Due(keys, click, reports) ==
    LET mirrors == Open \union dirty \union stack \union was
                   \union Touched(click, reports)
    IN  reports \union mirrors
        \union (IF "secret" \in mirrors \/ asked # input.id THEN {"lifecycle"} ELSE {})
        \union (IF input.late THEN {"timeout"} ELSE {})
        \union (IF keys \subseteq {"escape"} THEN {} ELSE {"secret_keys", "modify_keys"})
        \union (IF "escape" \in keys THEN {"escape"} \union popups ELSE {})
        \union (IF click = "none" THEN {}
                ELSE IF click = "confirm" THEN {"confirm_click"} ELSE {"click"})

\* Bound: a frame with a click has no key, and reports of one channel.
BeginFrame(keys, click, reports) ==
    /\ frame.todo = {}
    /\ click = "none" \/ click \in Clickable
    /\ click # "none" => keys = {} /\ reports # {"events", "status"}
    /\ frame' = [todo |-> Due(keys, click, reports), keys |-> keys, click |-> click,
                 was |-> IF keys = {"escape"} /\ click = "none" /\ InStep /\ ~input.late
                         THEN [calm |-> TRUE, polled |-> "status" \in reports,
                               open |-> Open, popups |-> popups, arrived |-> {}]
                         ELSE Unwatched]
    /\ UNCHANGED <<asked, open, dirty, stack, was, popups, input, issued>>

\* 25 s after the prompt was opened.
Elapse ==
    /\ frame.todo = {}
    /\ input.id # 0 /\ ~input.late
    /\ input' = [input EXCEPT !.late = TRUE]
    /\ UNCHANGED <<asked, open, dirty, stack, was, popups, issued, frame>>

-----------------------------------------------------------------------------
(* The channels                                                            *)

\* SecretRequired supersedes an older request; VenueLogoutDetected.
BackendEvents ==
    /\ MayRun("events")
    /\ \E news \in SUBSET ({"secret", "relogin"} \intersect Prompts) :
          /\ "secret" \in news => issued < MaxRequests
          /\ issued' = IF "secret" \in news THEN issued + 1 ELSE issued
          /\ asked' = IF "secret" \in news THEN issued + 1 ELSE asked
          /\ open' = open \union (news \ {"secret"})
          /\ dirty' = dirty \union news
          /\ frame' = [frame EXCEPT !.todo = @ \ {"events"}, !.was.arrived = IF frame.was.calm THEN news ELSE {}]
    /\ UNCHANGED <<stack, was, popups, input>>

\* status_update_system hands &mut of both prompts to every report it drains,
\* which marks them as changed; only OrdersReconciled changes one.
StatusUpdate ==
    /\ MayRun("status")
    /\ dirty' = dirty \union ({"secret", "reconcile"} \intersect Prompts)
    /\ \/ UNCHANGED open
       \/ "reconcile" \in Prompts /\ open' = open \union {"reconcile"}
       \/ open' = open \ {"reconcile"}
    /\ Done("status")
    /\ UNCHANGED <<asked, stack, was, popups, input, issued>>

-----------------------------------------------------------------------------
(* The stack                                                               *)

Faulty_EscapeKey ==
    /\ MayRun("escape")
    /\ stack' = {}
    /\ Done("escape")
    /\ UNCHANGED <<asked, open, dirty, was, popups, input, issued>>

EscapeKey ==
    /\ MayRun("escape")
    /\ stack' = IF stack = {} THEN {} ELSE stack \ {Front(stack)}
    /\ Done("escape")
    /\ UNCHANGED <<asked, open, dirty, was, popups, input, issued>>

Faulty_Dismiss(p) ==
    /\ asked' = IF p = "secret" THEN 0 ELSE asked
    /\ open' = open \ {p}
    /\ UNCHANGED input

\* The prompt is closed the way its own Cancel closes it.
Dismiss(p) ==
    /\ asked' = IF p = "secret" THEN 0 ELSE asked
    /\ open' = open \ {p}
    /\ input' = IF p = "secret" THEN NoInput ELSE input

\* It opened, or was written to, and has no entry.
ForwardDue(p) == p \in dirty /\ p \in Open /\ p \notin stack

Faulty_Mirror(p) ==
    /\ MayRun(p)
    /\ IF ForwardDue(p)
       THEN /\ stack' = stack \union {p}
            /\ UNCHANGED was
            /\ UNCHANGED <<asked, open, input>>
       ELSE IF p \notin Open /\ p \in stack
       THEN /\ stack' = stack \ {p}
            /\ was' = was \ {p}
            /\ UNCHANGED <<asked, open, input>>
       ELSE /\ IF p \in (was \intersect Open) \ stack THEN Dismiss(p)
                                          ELSE UNCHANGED <<asked, open, input>>
            /\ was' = IF p \in stack THEN was \union {p} ELSE was \ {p}
            /\ UNCHANGED stack
    /\ dirty' = dirty \ {p}
    /\ Done(p)
    /\ UNCHANGED <<popups, issued>>

\* reconcile_modal_stack: forward, close, reverse, in this order.
Mirror(p) ==
    /\ MayRun(p)
    /\ IF ForwardDue(p)
       THEN /\ stack' = stack \union {p}
            /\ was' = was \union {p}
            /\ UNCHANGED <<asked, open, input>>
       ELSE IF p \notin Open /\ p \in stack
       THEN /\ stack' = stack \ {p}
            /\ was' = was \ {p}
            /\ UNCHANGED <<asked, open, input>>
       ELSE /\ IF p \in (was \intersect Open) \ stack THEN Dismiss(p)
                                          ELSE UNCHANGED <<asked, open, input>>
            /\ was' = IF p \in stack THEN was \union {p} ELSE was \ {p}
            /\ UNCHANGED stack
    /\ dirty' = dirty \ {p}
    /\ Done(p)
    /\ UNCHANGED <<popups, issued>>

\* The popups look at the prompts, not at the stack, and not at the notices.
Yields == Open \intersect {"secret", "confirm", "modify"} # {}

PopupKey(w) ==
    /\ MayRun(w)
    /\ popups' = IF Yields THEN popups ELSE popups \ {w}
    /\ Done(w)
    /\ UNCHANGED <<asked, open, dirty, stack, was, input, issued>>

-----------------------------------------------------------------------------
(* The secret prompt                                                       *)

\* do_submit: an empty buffer sends nothing and keeps the request.
SubmitSecret(text) ==
    /\ dirty' = dirty \union {"secret"}
    /\ IF ~text \/ asked = 0
       THEN /\ input' = [input EXCEPT !.text = text]
            /\ UNCHANGED asked
       ELSE /\ asked' = 0
            /\ input' = NoInput

CancelSecret ==
    /\ dirty' = dirty \union {"secret"}
    /\ asked' = 0
    /\ input' = NoInput

SecretLifecycle ==
    /\ MayRun("lifecycle")
    /\ input' = IF asked = input.id THEN input ELSE [NoInput EXCEPT !.id = asked]
    /\ Done("lifecycle")
    /\ UNCHANGED <<asked, open, dirty, stack, was, popups, issued>>

\* While it is open it drains the keys of the frame; Escape beats Enter.
SecretKeys ==
    /\ MayRun("secret_keys")
    /\ LET text == input.text \/ "char" \in frame.keys
       IN  IF asked = 0
           THEN UNCHANGED <<asked, dirty, input>>
           ELSE IF "enter" \in frame.keys /\ "escape" \notin frame.keys
           THEN SubmitSecret(text)
           ELSE /\ input' = [input EXCEPT !.text = text]
                /\ UNCHANGED <<asked, dirty>>
    /\ frame' = [frame EXCEPT !.todo = @ \ {"secret_keys"},
                              !.keys = IF asked = 0 THEN @ ELSE {}]
    /\ UNCHANGED <<open, stack, was, popups, issued>>

SecretTimeout ==
    /\ MayRun("timeout")
    /\ IF asked # 0 /\ input.late THEN CancelSecret
                                  ELSE UNCHANGED <<asked, dirty, input>>
    /\ Done("timeout")
    /\ UNCHANGED <<open, stack, was, popups, issued>>

SecretClick ==
    /\ MayRun("click")
    /\ \/ frame.click = "secret_submit" /\ SubmitSecret(input.text)
       \/ frame.click = "secret_cancel" /\ CancelSecret
    /\ Done("click")
    /\ UNCHANGED <<open, stack, was, popups, issued>>

-----------------------------------------------------------------------------
(* The other prompts                                                       *)

Writes(p) == dirty' = dirty \union {p}

\* Either button takes the pending draft; Confirm sends it.
ConfirmClick ==
    /\ MayRun("confirm_click")
    /\ IF "confirm" \in open THEN open' = open \ {"confirm"} /\ Writes("confirm")
                             ELSE UNCHANGED <<open, dirty>>
    /\ Done("confirm_click")
    /\ UNCHANGED <<asked, stack, was, popups, input, issued>>

\* The order form: submit opens the confirmation or notes why not; so does an
\* edit of the form, which clears the note.
FormClick ==
    /\ MayRun("click")
    /\ frame.click = "submit"
    /\ \/ "confirm" \notin open /\ open' = open \union {"confirm"}
       \/ UNCHANGED open
    /\ Writes("confirm")
    /\ Done("click")
    /\ UNCHANGED <<asked, stack, was, popups, input, issued>>

ModifyKeys ==
    /\ MayRun("modify_keys")
    /\ IF "modify" \notin open \/ frame.keys \intersect {"char", "enter"} = {}
       THEN UNCHANGED <<open, dirty>>
       ELSE IF "enter" \in frame.keys /\ "escape" \notin frame.keys
       THEN open' \in {open, open \ {"modify"}} /\ Writes("modify")
       ELSE /\ UNCHANGED open
            /\ IF "char" \in frame.keys THEN Writes("modify") ELSE UNCHANGED dirty
    /\ Done("modify_keys")
    /\ UNCHANGED <<asked, stack, was, popups, input, issued>>

\* Confirm, Cancel, or a change of focus and consent.
ModifyClick ==
    /\ MayRun("click")
    /\ frame.click = "modify"
    /\ IF "modify" \in open
       THEN open' \in {open, open \ {"modify"}} /\ Writes("modify")
       ELSE UNCHANGED <<open, dirty>>
    /\ Done("click")
    /\ UNCHANGED <<asked, stack, was, popups, input, issued>>

NoticeClick(p) ==
    /\ MayRun("click")
    /\ frame.click = p
    /\ IF p \in open THEN open' = open \ {p} /\ Writes(p)
                     ELSE UNCHANGED <<open, dirty>>
    /\ Done("click")
    /\ UNCHANGED <<asked, stack, was, popups, input, issued>>

\* Cancel and the backdrop close the menu, Modify opens the form besides.
MenuClick ==
    /\ MayRun("click")
    /\ frame.click = "menu"
    /\ popups' = popups \ {"menu"}
    /\ \/ "menu" \in popups /\ "modify" \in Prompts /\ open' = open \union {"modify"} /\ Writes("modify")
       \/ UNCHANGED <<open, dirty>>
    /\ Done("click")
    /\ UNCHANGED <<asked, stack, was, input, issued>>

\* A right click on a row of the orders panel.
RightClick ==
    /\ MayRun("click")
    /\ frame.click = "row"
    /\ popups' = popups \union {"menu"}
    /\ Done("click")
    /\ UNCHANGED <<asked, open, dirty, stack, was, input, issued>>

SettingsClick ==
    /\ MayRun("click")
    /\ \/ frame.click = "settings" /\ popups' = popups \ {"settings"}
       \/ frame.click = "open_settings" /\ popups' = popups \union {"settings"}
    /\ Done("click")
    /\ UNCHANGED <<asked, open, dirty, stack, was, input, issued>>

-----------------------------------------------------------------------------
SystemStep ==
    \/ BackendEvents \/ StatusUpdate
    \/ EscapeKey \/ \E p \in Prompts : Mirror(p)
    \/ \E w \in Popups : PopupKey(w)
    \/ SecretLifecycle \/ SecretKeys \/ SecretTimeout \/ SecretClick
    \/ ConfirmClick \/ FormClick \/ ModifyKeys \/ ModifyClick
    \/ \E p \in Notices : NoticeClick(p)
    \/ MenuClick \/ RightClick \/ SettingsClick

NextFrame ==
    \E keys \in KeyStrokes, click \in Clicks \union {"none"},
       reports \in SUBSET {"events", "status"} :
          BeginFrame(keys, click, reports)

Next == NextFrame \/ Elapse \/ SystemStep

Spec == Init /\ [][Next]_vars

-----------------------------------------------------------------------------
\* No prompt is lost to the stack: one that is open without an entry gets its
\* entry back, or is closed, when its mirror next runs; and a mirror knows of
\* every entry it has made (reconcile_modal_stack, was_on_stack).
StackMirrorsPrompts ==
    /\ \A p \in Open \ stack : p \in dirty \union was
    /\ stack \subseteq was

\* One Escape, one prompt: in a frame in which nothing else is pressed, no
\* timer fires and no report is drained, Escape closes exactly the prompt of
\* the highest priority, whatever the order of the systems; a request or a
\* notice that arrives in that frame stays; and no popup goes with a secret or
\* a modification prompt.
EscapeTakesFront ==
    frame.todo = {} /\ frame.was.calm /\ ~frame.was.polled =>
        LET before == frame.was.open
        IN  /\ Open = (IF before = {} THEN {} ELSE before \ {Front(before)})
                      \union frame.was.arrived
            /\ before \intersect {"secret", "modify"} # {} => popups = frame.was.popups

\* The typed secret goes with its prompt: however it is closed (answered,
\* cancelled, timed out, dismissed by Escape through the stack) and in whatever
\* order the systems run, no text is left when the frame ends.
SecretForgotten == frame.todo = {} /\ asked = 0 => ~input.text

-----------------------------------------------------------------------------
\* ui/input_phase.rs: each phase strictly precedes the next.  With the explicit
\* edges of the Escape system no order of the systems is left.
FrameRuns == frame.todo # {} => \E s \in frame.todo : MayRun(s)
=============================================================================
