----------------------------- MODULE SecretRelay -----------------------------
(***************************************************************************)
(* How an order obtains the second secret it needs: SecondSecretResolver   *)
(* and SecretVault in the backend, the SecretModal in the UI, and the      *)
(* transport worker that carries both the orders and the answers.          *)
(*                                                                         *)
(* A call is one resolve(): of a manual order, whose RPC handler blocks    *)
(* the worker until the call is over, or of an order of a live strategy,   *)
(* which runs on the live loop alone.  A call asks at most once, so its    *)
(* request id is the call itself, and so is the secret the user types for  *)
(* that request.  The venue's own work after the secret is known is        *)
(* outside the model.                                                      *)
(*                                                                         *)
(* The live loop is one thread: a resolve() runs from its first line to    *)
(* the await of its future with no other coroutine or timer in between.    *)
(* The worker is another thread and may come between any two steps.        *)
(***************************************************************************)
EXTENDS Naturals, Sequences

CONSTANTS
    MaxCalls,   \* bound: how many resolve() calls are ever made
    Purpose,    \* new_order, cancel_order, correct_order
    None        \* no call

ASSUME SecretAssumption ==
    /\ MaxCalls \in Nat \ {0}
    /\ Purpose # {}
    /\ None \notin 1 .. MaxCalls

Call == 1 .. MaxCalls

(* unborn: not made yet; sent: a manual order still in the queue; get:     *)
(* scheduled on the loop; create .. register: the synchronous part of      *)
(* resolve() and wait_for(); wait: awaits its future; cleanup: the wait    *)
(* timed out and its finally clause has not run; done.                     *)
CallStep == {"unborn", "sent", "get", "create", "push", "register", "wait",
             "cleanup", "done"}
InResolve == {"create", "push", "register"}

(* setting: set_result is scheduled on the loop and has not run.           *)
FutureState == {"none", "pending", "setting", "set", "cancelled"}

Command == [kind : {"order", "secret"}, call : Call]

VARIABLES
    cmds,      \* transport commands the worker has not taken
    serving,   \* the manual call whose handler blocks the worker
    pc,        \* progress of each call
    purpose,   \* what each call is for
    got,       \* the secret each call returned, None after a timeout
    targets,   \* SecretVault._targets: requests created
    store,     \* SecretVault._store
    pending,   \* SecretVault._pending
    future,    \* the future of each request
    armed,     \* SecretVault._ttl_armed: requests submitted
    timers,    \* requests whose call_later(ttl, _expire) is outstanding
    pushed,    \* SecretRequired events the UI has not drained
    prompt     \* SecretPrompt.active

callVars  == <<pc, purpose, got>>
vaultVars == <<targets, store, pending, future, armed, timers>>
uiVars    == <<pushed, prompt>>
relayVars == <<cmds, serving, callVars, vaultVars, uiVars>>

TypeOK ==
    /\ cmds \in Seq(Command)
    /\ serving \in Call \cup {None}
    /\ pc \in [Call -> CallStep]
    /\ purpose \in [Call -> Purpose]
    /\ got \in [Call -> Call \cup {None}]
    /\ targets \subseteq Call
    /\ store \in [Purpose -> Call \cup {None}]
    /\ pending \subseteq Call
    /\ future \in [Call -> FutureState]
    /\ armed \subseteq Call
    /\ timers \subseteq Call
    /\ pushed \in Seq(Call)
    /\ prompt \in Call \cup {None}

RelayInit ==
    /\ cmds = <<>>
    /\ serving = None
    /\ pc = [c \in Call |-> "unborn"]
    /\ purpose \in [Call -> Purpose]
    /\ got = [c \in Call |-> None]
    /\ targets = {}
    /\ store = [p \in Purpose |-> None]
    /\ pending = {}
    /\ future = [c \in Call |-> "none"]
    /\ armed = {}
    /\ timers = {}
    /\ pushed = <<>>
    /\ prompt = None

-----------------------------------------------------------------------------
(* Helpers.                                                                *)

(* No coroutine is between two awaits.                                     *)
LoopFree == \A c \in Call : pc[c] \notin InResolve

Goto(c, step) == pc' = [pc EXCEPT ![c] = step]

Stored(c) == store[purpose[c]]

(* resolve() or wait_for() finds a stored secret and returns it.           *)
ReturnStored(c) ==
    /\ Stored(c) # None
    /\ got' = [got EXCEPT ![c] = Stored(c)]
    /\ Goto(c, "done")

-----------------------------------------------------------------------------
(* Faulty variants: no part of the specification, each shows that a        *)
(* property notices the bug its comment names.                             *)

(* wait_for does not look for a secret submitted before it *)
Faulty_Register(c) ==
    /\ pc[c] = "register"
    /\ future' = [future EXCEPT ![c] = "pending"]
    /\ pending' = pending \cup {c}
    /\ Goto(c, "wait")
    /\ UNCHANGED <<cmds, serving, purpose, got, targets, store, armed, timers,
                   uiVars>>

(* the TTL is armed on a running loop only, which the worker never has *)
Faulty_TakeSecret ==
    /\ serving = None
    /\ cmds # <<>>
    /\ Head(cmds).kind = "secret"
    /\ cmds' = Tail(cmds)
    /\ LET c == Head(cmds).call
       IN  /\ store' = [store EXCEPT ![purpose[c]] = c]
           /\ pending' = pending \ {c}
           /\ armed' = armed \cup {c}
           /\ future' = [future EXCEPT ![c] = IF @ = "pending" THEN "setting"
                                                               ELSE @]
    /\ UNCHANGED <<serving, callVars, targets, timers, uiVars>>

(* the wait for the answer has no timeout *)
Faulty_WaitTimesOut(c) ==
    /\ pc[c] = "wait"
    /\ FALSE
    /\ UNCHANGED relayVars

-----------------------------------------------------------------------------
(* The UI.                                                                 *)

(* The user confirms a manual order, or its change or cancellation.        *)
SendOrder(c) ==
    /\ pc[c] = "unborn"
    /\ \A b \in Call : b < c => pc[b] # "unborn"
    /\ cmds' = Append(cmds, [kind |-> "order", call |-> c])
    /\ Goto(c, "sent")
    /\ UNCHANGED <<serving, purpose, got, vaultVars, uiVars>>

(* backend_event_drain_system: a new request supersedes the prompt.        *)
ShowPrompt ==
    /\ pushed # <<>>
    /\ prompt' = Head(pushed)
    /\ pushed' = Tail(pushed)
    /\ UNCHANGED <<cmds, serving, callVars, vaultVars>>

(* do_submit: the request id of a prompt is used once.                     *)
SubmitPrompt ==
    /\ prompt # None
    /\ cmds' = Append(cmds, [kind |-> "secret", call |-> prompt])
    /\ prompt' = None
    /\ UNCHANGED <<serving, callVars, vaultVars, pushed>>

(* do_cancel: Cancel, Escape, or 25 s without an answer.                   *)
ClosePrompt ==
    /\ prompt # None
    /\ prompt' = None
    /\ UNCHANGED <<cmds, serving, callVars, vaultVars, pushed>>

-----------------------------------------------------------------------------
(* The worker.                                                             *)

(* PlaceOrder, CancelOrder, ModifyOrder: schedule the coroutine and wait.  *)
TakeOrder ==
    /\ serving = None
    /\ cmds # <<>>
    /\ Head(cmds).kind = "order"
    /\ cmds' = Tail(cmds)
    /\ serving' = Head(cmds).call
    /\ Goto(Head(cmds).call, "get")
    /\ UNCHANGED <<purpose, got, vaultVars, uiVars>>

(* The coroutine is over (with the secret or SECRET_TIMEOUT).              *)
OrderReturns ==
    /\ serving # None
    /\ pc[serving] = "done"
    /\ serving' = None
    /\ UNCHANGED <<cmds, callVars, vaultVars, uiVars>>

(* PLACE_TIMEOUT and its kin: the 40 s of the handler end first; the       *)
(* coroutine goes on.                                                      *)
OrderGivenUp ==
    /\ serving # None
    /\ pc[serving] # "done"
    /\ serving' = None
    /\ UNCHANGED <<cmds, callVars, vaultVars, uiVars>>

(* SecretVault.submit.  A future still pending is resolved on its own      *)
(* loop, and the TTL is armed there; otherwise the only loop to arm it on  *)
(* would be the worker's, and the worker has none.                         *)
TakeSecret ==
    /\ serving = None
    /\ cmds # <<>>
    /\ Head(cmds).kind = "secret"
    /\ cmds' = Tail(cmds)
    /\ LET c    == Head(cmds).call
           wake == c \in pending /\ future[c] = "pending"
       IN  /\ store' = [store EXCEPT ![purpose[c]] = c]
           /\ pending' = pending \ {c}
           /\ armed' = armed \cup {c}
           /\ future' = [future EXCEPT ![c] = IF wake THEN "setting" ELSE @]
           /\ timers' = IF wake THEN timers \cup {c} ELSE timers
    /\ UNCHANGED <<serving, callVars, targets, uiVars>>

-----------------------------------------------------------------------------
(* The live loop.                                                          *)

(* An order of a live strategy reaches the adapter.                        *)
StrategyOrder(c) ==
    /\ LoopFree
    /\ pc[c] = "unborn"
    /\ \A b \in Call : b < c => pc[b] # "unborn"
    /\ Goto(c, "get")
    /\ UNCHANGED <<cmds, serving, purpose, got, vaultVars, uiVars>>

GetFinds(c) ==
    /\ LoopFree
    /\ pc[c] = "get"
    /\ ReturnStored(c)
    /\ UNCHANGED <<cmds, serving, purpose, vaultVars, uiVars>>

GetMisses(c) ==
    /\ LoopFree
    /\ pc[c] = "get"
    /\ Stored(c) = None
    /\ Goto(c, "create")
    /\ UNCHANGED <<cmds, serving, purpose, got, vaultVars, uiVars>>

CreateRequest(c) ==
    /\ pc[c] = "create"
    /\ targets' = targets \cup {c}
    /\ Goto(c, "push")
    /\ UNCHANGED <<cmds, serving, purpose, got, store, pending, future, armed,
                   timers, uiVars>>

PushRequired(c) ==
    /\ pc[c] = "push"
    /\ pushed' = Append(pushed, c)
    /\ Goto(c, "register")
    /\ UNCHANGED <<cmds, serving, purpose, got, vaultVars, prompt>>

FindOnRegister(c) ==
    /\ pc[c] = "register"
    /\ ReturnStored(c)
    /\ UNCHANGED <<cmds, serving, purpose, vaultVars, uiVars>>

Register(c) ==
    /\ pc[c] = "register"
    /\ Stored(c) = None
    /\ future' = [future EXCEPT ![c] = "pending"]
    /\ pending' = pending \cup {c}
    /\ Goto(c, "wait")
    /\ UNCHANGED <<cmds, serving, purpose, got, targets, store, armed, timers,
                   uiVars>>

(* The scheduled set_result; on a future the timeout has cancelled it      *)
(* raises in the loop's exception handler and changes nothing.             *)
SetResult(c) ==
    /\ LoopFree
    /\ future[c] = "setting"
    /\ future' = [future EXCEPT ![c] = "set"]
    /\ UNCHANGED <<cmds, serving, callVars, targets, store, pending, armed,
                   timers, uiVars>>

WaitReturns(c) ==
    /\ LoopFree
    /\ pc[c] = "wait"
    /\ future[c] = "set"
    /\ got' = [got EXCEPT ![c] = c]
    /\ pending' = pending \ {c}
    /\ Goto(c, "done")
    /\ UNCHANGED <<cmds, serving, purpose, targets, store, future, armed,
                   timers, uiVars>>

(* asyncio.wait_for gives up after 30 s, which cancels the future if it is *)
(* not yet set, ...                                                        *)
WaitTimesOut(c) ==
    /\ LoopFree
    /\ pc[c] = "wait"
    /\ future' = [future EXCEPT ![c] = IF @ = "set" THEN @ ELSE "cancelled"]
    /\ Goto(c, "cleanup")
    /\ UNCHANGED <<cmds, serving, purpose, got, targets, store, pending, armed,
                   timers, uiVars>>

(* ... and the finally clause runs when the coroutine is resumed.          *)
Cleanup(c) ==
    /\ LoopFree
    /\ pc[c] = "cleanup"
    /\ pending' = pending \ {c}
    /\ Goto(c, "done")
    /\ UNCHANGED <<cmds, serving, purpose, got, targets, store, future, armed,
                   timers, uiVars>>

(* _expire drops whatever secret the purpose holds by then.                *)
Expire(c) ==
    /\ LoopFree
    /\ c \in timers
    /\ timers' = timers \ {c}
    /\ store' = [store EXCEPT ![purpose[c]] = None]
    /\ UNCHANGED <<cmds, serving, callVars, targets, pending, future, armed,
                   uiVars>>

-----------------------------------------------------------------------------
UIStep ==
    \/ ShowPrompt \/ SubmitPrompt \/ ClosePrompt
    \/ \E c \in Call : SendOrder(c)

WorkerStep == TakeOrder \/ OrderReturns \/ OrderGivenUp \/ TakeSecret

ResolveStep(c) ==
    \/ GetFinds(c) \/ GetMisses(c) \/ CreateRequest(c) \/ PushRequired(c)
    \/ FindOnRegister(c) \/ Register(c)
    \/ WaitReturns(c) \/ WaitTimesOut(c) \/ Cleanup(c)

RelayNext ==
    \/ UIStep
    \/ WorkerStep
    \/ \E c \in Call :
        StrategyOrder(c) \/ ResolveStep(c) \/ SetResult(c) \/ Expire(c)

RelaySpec == RelayInit /\ [][RelayNext]_relayVars

(* The worker serves its queue, the loop its coroutines and timers, and    *)
(* the UI drains its events; the user owes nothing.                        *)
Fairness ==
    /\ WF_relayVars(WorkerStep)
    /\ WF_relayVars(ShowPrompt)
    /\ \A c \in Call : WF_relayVars(ResolveStep(c))
    /\ \A c \in Call : WF_relayVars(SetResult(c))
    /\ \A c \in Call : WF_relayVars(Expire(c))

RelayFairSpec == RelaySpec /\ Fairness

-----------------------------------------------------------------------------
(* Safety.                                                                 *)

(* No lost wake-up: a call that waits for an answer which the vault has    *)
(* already taken is about to be woken, wherever between the push, the      *)
(* registration of the future and the timers of earlier requests the       *)
(* answer arrived (resolve: "safe even between push and wait_for").        *)
NoLostWakeup ==
    \A c \in Call : pc[c] = "wait" /\ c \in armed => future[c] \in {"setting", "set"}

(* The vault keeps no future nobody awaits, after a timeout either         *)
(* (SecretVault: _pending is cleaned when wait_for times out).             *)
PendingIsAwaited == \A c \in pending : pc[c] \in {"wait", "cleanup"}

(* The secret that woke an order is still stored only while its removal is *)
(* scheduled, whatever other requests of the purpose have done since.      *)
DeliveredIsBounded ==
    \A c \in Call :
        future[c] \in {"setting", "set"} /\ store[purpose[c]] = c => c \in timers

-----------------------------------------------------------------------------
(* Liveness, under RelayFairSpec.                                               *)

(* An order that needs the secret is not held for ever: not when the user  *)
(* never answers, and not when another request took over the prompt.       *)
CallEnds == \A c \in Call : pc[c] \in {"sent", "get"} ~> pc[c] = "done"
=============================================================================
