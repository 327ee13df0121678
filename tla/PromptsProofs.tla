---------------------------- MODULE PromptsProofs ----------------------------
(***************************************************************************)
(* Proofs about the secret an order waits for and the prompts that ask for  *)
(* it. About SecretRelay, for every number of calls and every set of        *)
(* purposes: type correctness, and that no wake-up is lost, that no future  *)
(* outlives its waiter in the vault, and that a secret which woke an order  *)
(* is due for removal. About UiPrompts, for any number of requests, one     *)
(* superseding another among them, and any order of the systems of a frame: *)
(* the stack mirrors the prompts, a secret goes with its prompt, and one    *)
(* Escape closes one prompt.                                                *)
(***************************************************************************)
EXTENDS SecretRelay, UiPrompts, TLAPS

-----------------------------------------------------------------------------
(* The secret relay: the invariant.                                        *)

(* No command is in the queue twice, and a call whose order still waits in *)
(* the queue has not been made.                                            *)
Queue ==
    /\ \A i, j \in 1 .. Len(cmds) : i # j => cmds[i] # cmds[j]
    /\ \A i \in 1 .. Len(cmds) : cmds[i].kind = "order" => pc[cmds[i].call] = "sent"

(* The steps of a call whose request was pushed, or was not needed.        *)
Past == {"register", "wait", "cleanup", "done"}

(* A request that the user has not answered, or whose answer the vault has *)
(* not taken, was pushed.                                                  *)
Pushed ==
    /\ \A i \in 1 .. Len(pushed) : pc[pushed[i]] \in Past
    /\ prompt # None => pc[prompt] \in Past
    /\ \A i \in 1 .. Len(cmds) : cmds[i].kind = "secret" => pc[cmds[i].call] \in Past
    /\ \A c \in armed : pc[c] \in Past

(* A request is at one place only on its way: in the event channel, in the *)
(* prompt, in the queue, or in the vault.                                  *)
OnePlace ==
    /\ \A i, j \in 1 .. Len(pushed) : i # j => pushed[i] # pushed[j]
    /\ \A i \in 1 .. Len(pushed) : pushed[i] # prompt /\ pushed[i] \notin armed
    /\ prompt \notin armed
    /\ \A i \in 1 .. Len(cmds) : cmds[i].kind = "secret" =>
          /\ \A j \in 1 .. Len(pushed) : pushed[j] # cmds[i].call
          /\ cmds[i].call # prompt
          /\ cmds[i].call \notin armed

(* An answer that came before its future was registered is still in the    *)
(* store when wait_for looks; one that came later has set the future off.  *)
Futures ==
    \A c \in Call :
        /\ pc[c] = "register" /\ c \in armed => Stored(c) # None
        /\ pc[c] = "wait" =>
              \/ future[c] = "pending" /\ c \in pending /\ c \notin armed
              \/ future[c] \in {"setting", "set"}
        /\ future[c] \in {"setting", "set"} => c \in armed

RelayInv ==
    /\ TypeOK
    /\ Queue
    /\ Pushed
    /\ OnePlace
    /\ Futures
    /\ PendingIsAwaited
    /\ DeliveredIsBounded

-----------------------------------------------------------------------------
(* Types, and the queue of the worker.                                     *)

LEMMA AllInit == RelayInit => RelayInv
<1> SUFFICES ASSUME RelayInit PROVE RelayInv
  OBVIOUS
<1> USE SecretAssumption DEF RelayInit, Call
<1>1. /\ cmds \in Seq(Command) /\ pushed \in Seq(Call)
      /\ serving \in Call \cup {None} /\ prompt \in Call \cup {None}
  OBVIOUS
<1>2. pc \in [Call -> CallStep] /\ future \in [Call -> FutureState]
  BY DEF CallStep, FutureState
<1>3. /\ purpose \in [Call -> Purpose] /\ got \in [Call -> Call \cup {None}]
      /\ store \in [Purpose -> Call \cup {None}]
  OBVIOUS
<1>4. targets \subseteq Call /\ pending \subseteq Call /\ armed \subseteq Call
      /\ timers \subseteq Call
  OBVIOUS
<1>5. Queue /\ Pushed /\ OnePlace
  BY DEF Queue, Pushed, OnePlace
<1>6. Futures /\ PendingIsAwaited /\ DeliveredIsBounded
  BY DEF Futures, PendingIsAwaited, DeliveredIsBounded
<1> QED
  BY <1>1, <1>2, <1>3, <1>4, <1>5, <1>6 DEF RelayInv, TypeOK

(* What a command added at the end of the queue, or taken from its head,   *)
(* leaves of it.                                                           *)
LEMMA QueueAppend ==
    ASSUME cmds \in Seq(Command), NEW m \in Command, cmds' = Append(cmds, m)
    PROVE  /\ cmds' \in Seq(Command)
           /\ Len(cmds') = Len(cmds) + 1
           /\ \A i \in 1 .. Len(cmds') :
                 \/ i \in 1 .. Len(cmds) /\ cmds'[i] = cmds[i]
                 \/ i = Len(cmds') /\ cmds'[i] = m
BY SMT

LEMMA QueueTail ==
    ASSUME cmds \in Seq(Command), cmds # <<>>, cmds' = Tail(cmds)
    PROVE  /\ cmds' \in Seq(Command)
           /\ Head(cmds) \in Command /\ Head(cmds) = cmds[1]
           /\ 1 \in 1 .. Len(cmds)
           /\ \A i \in 1 .. Len(cmds') :
                 i + 1 \in 1 .. Len(cmds) /\ i + 1 # 1 /\ cmds'[i] = cmds[i + 1]
BY SMT

LEMMA CommandType ==
    ASSUME cmds \in Seq(Command)
    PROVE  \A i \in 1 .. Len(cmds) : cmds[i] \in Command /\ cmds[i].call \in Call
<1> SUFFICES ASSUME NEW i \in 1 .. Len(cmds)
             PROVE  cmds[i] \in Command /\ cmds[i].call \in Call
  OBVIOUS
<1>1. cmds[i] \in Command
  OBVIOUS
<1> QED
  BY <1>1 DEF Command

LEMMA TypeUI ==
    ASSUME TypeOK, UIStep
    PROVE  TypeOK'
<1> USE SecretAssumption DEF TypeOK, callVars, vaultVars, uiVars
<1>1. CASE ShowPrompt
  <2>1. Head(pushed) \in Call /\ Tail(pushed) \in Seq(Call)
    BY <1>1 DEF ShowPrompt
  <2> QED
    BY <1>1, <2>1 DEF ShowPrompt
<1>4. CASE ClosePrompt
  BY <1>4 DEF ClosePrompt
<1>2. CASE SubmitPrompt
  <2>1. [kind |-> "secret", call |-> prompt] \in Command
    BY <1>2 DEF SubmitPrompt, Command
  <2> QED
    BY <1>2, <2>1 DEF SubmitPrompt
<1>3. ASSUME NEW c \in Call, SendOrder(c)
      PROVE  TypeOK'
  <2>1. [kind |-> "order", call |-> c] \in Command
    BY DEF Command
  <2> QED
    BY <1>3, <2>1 DEF SendOrder, Goto, CallStep
<1> QED
  BY <1>1, <1>2, <1>3, <1>4 DEF UIStep

LEMMA TypeWorker ==
    ASSUME TypeOK, WorkerStep
    PROVE  TypeOK'
<1> USE SecretAssumption DEF TypeOK, callVars, vaultVars, uiVars
<1>1. CASE TakeOrder
  <2>1. Head(cmds).call \in Call /\ cmds' \in Seq(Command)
    BY <1>1, QueueTail DEF TakeOrder, Command
  <2> QED
    BY <1>1, <2>1 DEF TakeOrder, Goto, CallStep
<1>2. CASE TakeSecret
  <2> DEFINE c == Head(cmds).call
             wake == c \in pending /\ future[c] = "pending"
  <2>1. c \in Call /\ cmds' \in Seq(Command)
    BY <1>2, QueueTail DEF TakeSecret, Command
  <2>2. /\ store' = [store EXCEPT ![purpose[c]] = c]
        /\ pending' = pending \ {c} /\ armed' = armed \cup {c}
        /\ future' \in {[future EXCEPT ![c] = "setting"], [future EXCEPT ![c] = @]}
        /\ timers' \in {timers \cup {c}, timers}
        /\ UNCHANGED <<serving, callVars, targets, uiVars>>
    BY <1>2 DEF TakeSecret
  <2> HIDE DEF c
  <2> QED
    BY <2>1, <2>2 DEF FutureState
<1>3. CASE OrderReturns \/ OrderGivenUp
  BY <1>3 DEF OrderReturns, OrderGivenUp
<1> QED
  BY <1>1, <1>2, <1>3 DEF WorkerStep

LEMMA TypeLoop ==
    ASSUME TypeOK, NEW c \in Call,
           StrategyOrder(c) \/ ResolveStep(c) \/ SetResult(c) \/ Expire(c)
    PROVE  TypeOK'
<1> USE SecretAssumption
        DEF TypeOK, Goto, CallStep, FutureState, callVars, vaultVars, uiVars
<1>1. CASE StrategyOrder(c) \/ GetMisses(c)
  BY <1>1 DEF StrategyOrder, GetMisses
<1>2. CASE GetFinds(c) \/ FindOnRegister(c)
  BY <1>2 DEF GetFinds, FindOnRegister, ReturnStored, Stored
<1>3. CASE CreateRequest(c)
  BY <1>3 DEF CreateRequest
<1>8. CASE PushRequired(c)
  <2>1. Append(pushed, c) \in Seq(Call)
    OBVIOUS
  <2> QED
    BY <1>8, <2>1 DEF PushRequired
<1>4. CASE Register(c)
  BY <1>4 DEF Register
<1>5. CASE WaitReturns(c)
  <2>1. got' \in [Call -> Call \cup {None}] /\ pc' \in [Call -> CallStep]
    BY <1>5 DEF WaitReturns
  <2> QED
    BY <1>5, <2>1 DEF WaitReturns
<1>9. CASE Cleanup(c)
  BY <1>9 DEF Cleanup
<1>6. CASE WaitTimesOut(c)
  BY <1>6 DEF WaitTimesOut
<1>7. CASE SetResult(c) \/ Expire(c)
  BY <1>7 DEF SetResult, Expire
<1> QED
  BY <1>1, <1>2, <1>3, <1>4, <1>5, <1>6, <1>7, <1>8, <1>9 DEF ResolveStep

LEMMA TypeStep == TypeOK /\ [RelayNext]_relayVars => TypeOK'
<1>1. TypeOK /\ UNCHANGED relayVars => TypeOK'
  BY DEF TypeOK, relayVars, callVars, vaultVars, uiVars
<1> QED
  BY <1>1, TypeUI, TypeWorker, TypeLoop DEF RelayNext

(* The vault, the queue and the calls keep their types: the store holds a  *)
(* secret of some call or none, and the prompt a request that was made.    *)
THEOREM TypeCorrect == RelaySpec => []TypeOK
<1>1. RelayInit => TypeOK
  BY AllInit DEF RelayInv
<1> QED
  BY <1>1, TypeStep, PTL DEF RelaySpec
-----------------------------------------------------------------------------
(* The way of a request.                                                   *)

LEMMA TakenOrder ==
    ASSUME TypeOK, Queue, TakeOrder
    PROVE  /\ Head(cmds).call \in Call /\ pc[Head(cmds).call] = "sent"
           /\ \A i \in 1 .. Len(cmds') :
                 cmds'[i].kind = "order" => cmds'[i].call # Head(cmds).call
<1>1. cmds \in Seq(Command) /\ cmds # <<>> /\ cmds' = Tail(cmds) /\ Head(cmds).kind = "order"
  BY DEF TypeOK, TakeOrder
<1>2. /\ Head(cmds) \in Command /\ Head(cmds) = cmds[1] /\ 1 \in 1 .. Len(cmds)
      /\ \A i \in 1 .. Len(cmds') :
            i + 1 \in 1 .. Len(cmds) /\ i + 1 # 1 /\ cmds'[i] = cmds[i + 1]
      /\ cmds' \in Seq(Command)
  BY <1>1, QueueTail
<1>3. Head(cmds).call \in Call /\ pc[Head(cmds).call] = "sent"
  BY <1>1, <1>2 DEF Queue, Command
<1>4. ASSUME NEW i \in 1 .. Len(cmds'), cmds'[i].kind = "order"
      PROVE  cmds'[i].call # Head(cmds).call
  <2>1. cmds'[i] # Head(cmds)
    BY <1>2 DEF Queue
  <2>2. cmds'[i] \in Command
    BY <1>2
  <2> QED
    BY <1>1, <1>2, <1>4, <2>1, <2>2 DEF Command
<1> QED
  BY <1>3, <1>4

LEMMA PastStays ==
    ASSUME TypeOK, Queue, [RelayNext]_relayVars, NEW b \in Call, pc[b] \in Past
    PROVE  pc'[b] \in Past
<1> USE DEF Past, Goto
<1>1. pc \in [Call -> CallStep]
  BY DEF TypeOK
<1>2. CASE TakeOrder
  <2>1. pc' = [pc EXCEPT ![Head(cmds).call] = "get"]
    BY <1>2 DEF TakeOrder
  <2> QED
    BY <1>1, <1>2, <2>1, TakenOrder
<1>3. CASE UNCHANGED pc
  BY <1>3
<1>4. CASE UIStep \/ OrderReturns \/ OrderGivenUp \/ TakeSecret
  BY <1>1, <1>4 DEF UIStep, ShowPrompt, SubmitPrompt, ClosePrompt, SendOrder,
                    OrderReturns, OrderGivenUp, TakeSecret, callVars
<1>5. ASSUME NEW c \in Call, StrategyOrder(c) \/ SetResult(c) \/ Expire(c)
      PROVE  pc'[b] \in Past
  BY <1>1, <1>5 DEF StrategyOrder, SetResult, Expire, callVars
<1>6. ASSUME NEW c \in Call, ResolveStep(c)
      PROVE  pc'[b] \in Past
  BY <1>1, <1>6 DEF ResolveStep, GetFinds, GetMisses, CreateRequest, PushRequired,
                    FindOnRegister, Register, WaitReturns, WaitTimesOut, Cleanup,
                    ReturnStored
<1> QED
  BY <1>2, <1>3, <1>4, <1>5, <1>6 DEF RelayNext, WorkerStep, relayVars, callVars

(* What the loop's steps leave alone.                                      *)
LEMMA LoopSteps ==
    ASSUME NEW c \in Call,
           StrategyOrder(c) \/ ResolveStep(c) \/ SetResult(c) \/ Expire(c)
    PROVE  /\ UNCHANGED <<cmds, purpose, armed, prompt>>
           /\ PushRequired(c) \/ pushed' = pushed
           /\ pc' = pc \/ \E step : pc' = [pc EXCEPT ![c] = step] /\ pc[c] # "sent"
<1> USE DEF Goto, callVars, vaultVars, uiVars
<1>1. CASE StrategyOrder(c) \/ SetResult(c) \/ Expire(c)
  BY <1>1 DEF StrategyOrder, SetResult, Expire
<1>2. CASE ResolveStep(c)
  BY <1>2 DEF ResolveStep, GetFinds, GetMisses, CreateRequest, PushRequired,
              FindOnRegister, Register, WaitReturns, WaitTimesOut, Cleanup,
              ReturnStored
<1> QED
  BY <1>1, <1>2

LEMMA QueueStep ==
    ASSUME TypeOK, Queue, OnePlace, [RelayNext]_relayVars
    PROVE  Queue'
<1> USE DEF Queue, callVars, vaultVars, uiVars
<1>1. cmds \in Seq(Command) /\ pc \in [Call -> CallStep] /\ prompt \in Call \cup {None}
  BY DEF TypeOK
<1>2. \A i \in 1 .. Len(cmds) : cmds[i] \in Command /\ cmds[i].call \in Call
  BY CommandType DEF TypeOK
<1>3. CASE UNCHANGED <<cmds, pc>>
  BY <1>3
<1>4. CASE SubmitPrompt
  <2> DEFINE m == [kind |-> "secret", call |-> prompt]
  <2>1. m \in Command /\ cmds' = Append(cmds, m) /\ pc' = pc
    BY <1>1, <1>4 DEF SubmitPrompt, Command
  <2>2. \A i \in 1 .. Len(cmds) : cmds[i] # m
    BY DEF OnePlace
  <2>3. m.kind # "order"
    OBVIOUS
  <2> HIDE DEF m
  <2>4. /\ Len(cmds') = Len(cmds) + 1
        /\ \A i \in 1 .. Len(cmds') :
              \/ i \in 1 .. Len(cmds) /\ cmds'[i] = cmds[i]
              \/ i = Len(cmds') /\ cmds'[i] = m
    BY <1>1, <2>1, QueueAppend
  <2> QED
    BY <2>1, <2>2, <2>3, <2>4
<1>5. ASSUME NEW c \in Call, SendOrder(c)
      PROVE  Queue'
  <2> DEFINE m == [kind |-> "order", call |-> c]
  <2>1. m \in Command /\ cmds' = Append(cmds, m) /\ pc' = [pc EXCEPT ![c] = "sent"]
    BY <1>5 DEF SendOrder, Command, Goto
  <2>2. \A i \in 1 .. Len(cmds) : cmds[i] # m
    BY <1>1, <1>5 DEF SendOrder
  <2>3. m.call = c
    OBVIOUS
  <2> HIDE DEF m
  <2>4. /\ Len(cmds') = Len(cmds) + 1
        /\ \A i \in 1 .. Len(cmds') :
              \/ i \in 1 .. Len(cmds) /\ cmds'[i] = cmds[i]
              \/ i = Len(cmds') /\ cmds'[i] = m
    BY <1>1, <2>1, QueueAppend
  <2>5. \A i \in 1 .. Len(cmds') : cmds'[i].kind = "order" => pc'[cmds'[i].call] = "sent"
    BY <1>1, <1>2, <2>1, <2>3, <2>4
  <2>6. \A i, j \in 1 .. Len(cmds') : i # j => cmds'[i] # cmds'[j]
    BY <2>2, <2>4
  <2> QED
    BY <2>5, <2>6
<1>6. CASE TakeOrder \/ TakeSecret
  <2>1. cmds # <<>> /\ cmds' = Tail(cmds)
    BY <1>6 DEF TakeOrder, TakeSecret
  <2>2. /\ cmds' \in Seq(Command)
        /\ \A i \in 1 .. Len(cmds') :
              i + 1 \in 1 .. Len(cmds) /\ i + 1 # 1 /\ cmds'[i] = cmds[i + 1]
    BY <1>1, <2>1, QueueTail
  <2>3. \A i, j \in 1 .. Len(cmds') : i # j => cmds'[i] # cmds'[j]
    <3>1. \A i, j \in 1 .. Len(cmds') : i # j => i + 1 # j + 1
      BY <2>2
    <3> QED
      BY <2>2, <3>1
  <2>4. ASSUME NEW i \in 1 .. Len(cmds'), cmds'[i].kind = "order"
        PROVE  pc'[cmds'[i].call] = "sent"
    <3>1. pc[cmds'[i].call] = "sent" /\ cmds'[i].call \in Call
      BY <1>2, <2>2, <2>4
    <3>2. CASE TakeOrder
      <4>1. cmds'[i].call # Head(cmds).call
        BY <2>4, <3>2, TakenOrder
      <4> QED
        BY <1>1, <3>1, <3>2, <4>1 DEF TakeOrder, Goto
    <3>3. CASE TakeSecret
      BY <3>1, <3>3 DEF TakeSecret
    <3> QED
      BY <1>6, <3>2, <3>3
  <2> QED
    BY <2>3, <2>4
<1>7. CASE ShowPrompt \/ ClosePrompt \/ OrderReturns \/ OrderGivenUp
  BY <1>3, <1>7 DEF ShowPrompt, ClosePrompt, OrderReturns, OrderGivenUp
<1>8. ASSUME NEW c \in Call,
             StrategyOrder(c) \/ ResolveStep(c) \/ SetResult(c) \/ Expire(c)
      PROVE  Queue'
  <2>1. cmds' = cmds
    BY <1>8, LoopSteps
  <2>2. pc' = pc \/ \E step : pc' = [pc EXCEPT ![c] = step] /\ pc[c] # "sent"
    BY <1>8, LoopSteps
  <2> QED
    BY <1>1, <1>2, <2>1, <2>2
<1> QED
  BY <1>3, <1>4, <1>5, <1>6, <1>7, <1>8 DEF RelayNext, UIStep, WorkerStep, relayVars
LEMMA PushedStep ==
    ASSUME TypeOK, Queue, Pushed, [RelayNext]_relayVars
    PROVE  Pushed'
<1> USE SecretAssumption DEF Pushed, callVars, vaultVars, uiVars
<1>1. /\ cmds \in Seq(Command) /\ pc \in [Call -> CallStep] /\ pushed \in Seq(Call)
      /\ prompt \in Call \cup {None} /\ armed \subseteq Call
  BY DEF TypeOK
<1>2. /\ \A i \in 1 .. Len(cmds) : cmds[i].call \in Call
      /\ \A i \in 1 .. Len(pushed) : pushed[i] \in Call
  BY <1>1, CommandType
<1>3. \A b \in Call : pc[b] \in Past => pc'[b] \in Past
  BY PastStays
<1>4. CASE UNCHANGED <<cmds, pushed, prompt, armed>>
  BY <1>1, <1>2, <1>3, <1>4
<1>5. CASE ShowPrompt
  <2>1. /\ pushed # <<>> /\ prompt' = pushed[1] /\ pushed' = Tail(pushed)
        /\ UNCHANGED <<cmds, armed>>
    BY <1>1, <1>5 DEF ShowPrompt
  <2>2. \A i \in 1 .. Len(pushed') : i + 1 \in 1 .. Len(pushed) /\ pushed'[i] = pushed[i + 1]
    BY <1>1, <2>1
  <2>3. 1 \in 1 .. Len(pushed)
    BY <1>1, <2>1
  <2> QED
    BY <1>1, <1>2, <1>3, <2>1, <2>2, <2>3
<1>6. CASE SubmitPrompt
  <2> DEFINE m == [kind |-> "secret", call |-> prompt]
  <2>1. /\ m \in Command /\ cmds' = Append(cmds, m) /\ m.call = prompt
        /\ prompt # None /\ prompt' = None /\ UNCHANGED <<pushed, armed>>
    BY <1>1, <1>6 DEF SubmitPrompt, Command
  <2> HIDE DEF m
  <2>2. \A i \in 1 .. Len(cmds') :
           \/ i \in 1 .. Len(cmds) /\ cmds'[i] = cmds[i]
           \/ i = Len(cmds') /\ cmds'[i] = m
    BY <1>1, <2>1, QueueAppend
  <2> QED
    BY <1>1, <1>2, <1>3, <2>1, <2>2
<1>7. CASE ClosePrompt
  BY <1>1, <1>2, <1>3, <1>7 DEF ClosePrompt
<1>8. ASSUME NEW c \in Call, SendOrder(c)
      PROVE  Pushed'
  <2> DEFINE m == [kind |-> "order", call |-> c]
  <2>1. /\ m \in Command /\ cmds' = Append(cmds, m) /\ m.kind # "secret"
        /\ UNCHANGED <<pushed, prompt, armed>>
    BY <1>8 DEF SendOrder, Command
  <2> HIDE DEF m
  <2>2. \A i \in 1 .. Len(cmds') :
           \/ i \in 1 .. Len(cmds) /\ cmds'[i] = cmds[i]
           \/ i = Len(cmds') /\ cmds'[i] = m
    BY <1>1, <2>1, QueueAppend
  <2> QED
    BY <1>1, <1>2, <1>3, <2>1, <2>2
<1>9. CASE TakeOrder \/ TakeSecret
  <2>1. cmds # <<>> /\ cmds' = Tail(cmds) /\ UNCHANGED <<pushed, prompt>>
    BY <1>9 DEF TakeOrder, TakeSecret
  <2>2. /\ Head(cmds) = cmds[1] /\ 1 \in 1 .. Len(cmds)
        /\ \A i \in 1 .. Len(cmds') : i + 1 \in 1 .. Len(cmds) /\ cmds'[i] = cmds[i + 1]
    BY <1>1, <2>1, QueueTail
  <2>3. armed' = armed \/ (Head(cmds).kind = "secret" /\ armed' = armed \cup {Head(cmds).call})
    BY <1>9 DEF TakeOrder, TakeSecret
  <2>4. \A c \in armed' : pc'[c] \in Past
    BY <1>1, <1>2, <1>3, <2>2, <2>3
  <2>5. ASSUME NEW i \in 1 .. Len(cmds'), cmds'[i].kind = "secret"
        PROVE  pc'[cmds'[i].call] \in Past
    <3>1. i + 1 \in 1 .. Len(cmds) /\ cmds'[i] = cmds[i + 1]
      BY <2>2
    <3>2. cmds[i + 1].call \in Call /\ pc[cmds[i + 1].call] \in Past
      BY <1>2, <2>5, <3>1
    <3> QED
      BY <1>3, <3>1, <3>2
  <2>6. \A i \in 1 .. Len(pushed') : pc'[pushed'[i]] \in Past
    BY <1>2, <1>3, <2>1
  <2>7. prompt' # None => pc'[prompt'] \in Past
    BY <1>1, <1>3, <2>1
  <2> QED
    BY <2>4, <2>5, <2>6, <2>7
<1>10. CASE OrderReturns \/ OrderGivenUp
  BY <1>4, <1>10 DEF OrderReturns, OrderGivenUp
<1>11. ASSUME NEW c \in Call, PushRequired(c)
       PROVE  Pushed'
  <2>1. /\ pushed' = Append(pushed, c) /\ pc'[c] \in Past
        /\ UNCHANGED <<cmds, prompt, armed>>
    BY <1>1, <1>11 DEF PushRequired, Goto, Past
  <2>2. \A i \in 1 .. Len(pushed') :
           \/ i \in 1 .. Len(pushed) /\ pushed'[i] = pushed[i]
           \/ pushed'[i] = c
    BY <1>1, <2>1
  <2> QED
    BY <1>1, <1>2, <1>3, <2>1, <2>2
<1>12. ASSUME NEW c \in Call,
              StrategyOrder(c) \/ ResolveStep(c) \/ SetResult(c) \/ Expire(c)
       PROVE  Pushed'
  BY <1>4, <1>11, <1>12, LoopSteps
<1> QED
  BY <1>4, <1>5, <1>6, <1>7, <1>8, <1>9, <1>10, <1>12 DEF RelayNext, UIStep, WorkerStep, relayVars

LEMMA OnePlaceStep ==
    ASSUME TypeOK, Queue, Pushed, OnePlace, [RelayNext]_relayVars
    PROVE  OnePlace'
<1> USE SecretAssumption DEF OnePlace, callVars, vaultVars, uiVars
<1>1. /\ cmds \in Seq(Command) /\ pc \in [Call -> CallStep] /\ pushed \in Seq(Call)
      /\ prompt \in Call \cup {None} /\ armed \subseteq Call /\ None \notin Call
  BY DEF TypeOK, Call
<1>2. /\ \A i \in 1 .. Len(cmds) : cmds[i] \in Command /\ cmds[i].call \in Call
      /\ \A i \in 1 .. Len(pushed) : pushed[i] \in Call
  BY <1>1, CommandType
<1>3. CASE UNCHANGED <<cmds, pushed, prompt, armed>>
  BY <1>3
<1>4. CASE ShowPrompt
  <2>1. /\ pushed # <<>> /\ prompt' = pushed[1] /\ pushed' = Tail(pushed)
        /\ UNCHANGED <<cmds, armed>>
    BY <1>1, <1>4 DEF ShowPrompt
  <2>2. \A i \in 1 .. Len(pushed') :
           i + 1 \in 1 .. Len(pushed) /\ i + 1 # 1 /\ pushed'[i] = pushed[i + 1]
    BY <1>1, <2>1
  <2>3. 1 \in 1 .. Len(pushed)
    BY <1>1, <2>1
  <2>4. \A i, j \in 1 .. Len(pushed') : i # j => pushed'[i] # pushed'[j]
    <3>1. \A i, j \in 1 .. Len(pushed') : i # j => i + 1 # j + 1
      BY <2>2
    <3> QED
      BY <2>2, <3>1
  <2> QED
    BY <1>2, <2>1, <2>2, <2>3, <2>4
<1>5. CASE SubmitPrompt
  <2> DEFINE m == [kind |-> "secret", call |-> prompt]
  <2>1. /\ m \in Command /\ cmds' = Append(cmds, m) /\ m.call = prompt
        /\ prompt # None /\ prompt' = None /\ UNCHANGED <<pushed, armed>>
    BY <1>1, <1>5 DEF SubmitPrompt, Command
  <2> HIDE DEF m
  <2>2. \A i \in 1 .. Len(cmds') :
           \/ i \in 1 .. Len(cmds) /\ cmds'[i] = cmds[i]
           \/ i = Len(cmds') /\ cmds'[i] = m
    BY <1>1, <2>1, QueueAppend
  <2> QED
    BY <1>1, <1>2, <2>1, <2>2
<1>6. CASE ClosePrompt
  BY <1>1, <1>2, <1>6 DEF ClosePrompt
<1>7. ASSUME NEW c \in Call, SendOrder(c)
      PROVE  OnePlace'
  <2> DEFINE m == [kind |-> "order", call |-> c]
  <2>1. /\ m \in Command /\ cmds' = Append(cmds, m) /\ m.kind # "secret"
        /\ UNCHANGED <<pushed, prompt, armed>>
    BY <1>7 DEF SendOrder, Command
  <2> HIDE DEF m
  <2>2. \A i \in 1 .. Len(cmds') :
           \/ i \in 1 .. Len(cmds) /\ cmds'[i] = cmds[i]
           \/ i = Len(cmds') /\ cmds'[i] = m
    BY <1>1, <2>1, QueueAppend
  <2> QED
    BY <2>1, <2>2
<1>8. CASE TakeOrder \/ TakeSecret
  <2>1. cmds # <<>> /\ cmds' = Tail(cmds) /\ UNCHANGED <<pushed, prompt>>
    BY <1>8 DEF TakeOrder, TakeSecret
  <2>2. /\ Head(cmds) = cmds[1] /\ Head(cmds) \in Command /\ 1 \in 1 .. Len(cmds)
        /\ \A i \in 1 .. Len(cmds') :
              i + 1 \in 1 .. Len(cmds) /\ i + 1 # 1 /\ cmds'[i] = cmds[i + 1]
    BY <1>1, <2>1, QueueTail
  <2>3. armed' = armed \/ (Head(cmds).kind = "secret" /\ armed' = armed \cup {Head(cmds).call})
    BY <1>8 DEF TakeOrder, TakeSecret
  <2>4. CASE armed' = armed
    BY <2>1, <2>2, <2>4
  <2>5. CASE Head(cmds).kind = "secret" /\ armed' = armed \cup {Head(cmds).call}
    <3>1. /\ \A j \in 1 .. Len(pushed) : pushed[j] # Head(cmds).call
          /\ Head(cmds).call # prompt
      BY <2>2, <2>5
    <3>2. ASSUME NEW i \in 1 .. Len(cmds'), cmds'[i].kind = "secret"
          PROVE  cmds'[i].call \notin armed'
      <4>1. cmds'[i] # Head(cmds)
        BY <2>2 DEF Queue
      <4>2. cmds'[i] \in Command
        BY <1>2, <2>2
      <4> DEFINE m == cmds'[i]
                 h == Head(cmds)
      <4>4. m \in Command /\ h \in Command /\ m # h /\ m.kind = h.kind
        BY <2>2, <2>5, <3>2, <4>1, <4>2
      <4> HIDE DEF m, h
      <4>5. m.call # h.call
        BY <4>4 DEF Command
      <4>3. cmds'[i].call # Head(cmds).call
        BY <4>5 DEF m, h
      <4> QED
        BY <2>2, <2>5, <3>2, <4>3
    <3> QED
      BY <2>1, <2>2, <2>5, <3>1, <3>2
  <2> QED
    BY <2>3, <2>4, <2>5
<1>9. CASE OrderReturns \/ OrderGivenUp
  BY <1>3, <1>9 DEF OrderReturns, OrderGivenUp
<1>10. ASSUME NEW c \in Call, PushRequired(c)
       PROVE  OnePlace'
  <2>1. /\ pushed' = Append(pushed, c) /\ pc[c] \notin Past
        /\ UNCHANGED <<cmds, prompt, armed>>
    BY <1>10 DEF PushRequired, Past
  <2>2. /\ Len(pushed') = Len(pushed) + 1
        /\ \A i \in 1 .. Len(pushed') :
             \/ i \in 1 .. Len(pushed) /\ pushed'[i] = pushed[i]
             \/ i = Len(pushed') /\ pushed'[i] = c
    BY <1>1, <2>1
  <2>3. /\ \A i \in 1 .. Len(pushed) : pushed[i] # c
        /\ prompt # c /\ c \notin armed
        /\ \A i \in 1 .. Len(cmds) : cmds[i].kind = "secret" => cmds[i].call # c
    BY <1>1, <2>1 DEF Pushed
  <2> QED
    BY <2>1, <2>2, <2>3
<1>11. ASSUME NEW c \in Call,
              StrategyOrder(c) \/ ResolveStep(c) \/ SetResult(c) \/ Expire(c)
       PROVE  OnePlace'
  BY <1>3, <1>10, <1>11, LoopSteps
<1> QED
  BY <1>3, <1>4, <1>5, <1>6, <1>7, <1>8, <1>9, <1>11 DEF RelayNext, UIStep, WorkerStep, relayVars
-----------------------------------------------------------------------------
(* The futures.                                                            *)

(* A step that leaves the vault alone, and moves one call neither to the   *)
(* await nor away from it.                                                 *)
LEMMA VaultKept ==
    ASSUME TypeOK, Futures, PendingIsAwaited, DeliveredIsBounded,
           UNCHANGED <<purpose, store, pending, future, armed, timers>>,
           NEW c \in Call, NEW step \in CallStep \ {"wait"},
           pc' = [pc EXCEPT ![c] = step],
           pc[c] \notin {"wait", "cleanup"},
           step = "register" => c \notin armed
    PROVE  Futures' /\ PendingIsAwaited' /\ DeliveredIsBounded'
<1>1. pc \in [Call -> CallStep] /\ pending \subseteq Call
  BY DEF TypeOK
<1>2. Futures'
  BY <1>1 DEF Futures, Stored
<1>3. PendingIsAwaited'
  BY <1>1 DEF PendingIsAwaited
<1>4. DeliveredIsBounded'
  BY DEF DeliveredIsBounded
<1> QED
  BY <1>2, <1>3, <1>4

LEMMA VaultStep ==
    ASSUME TypeOK, Queue, Pushed, OnePlace, Futures, PendingIsAwaited,
           DeliveredIsBounded, [RelayNext]_relayVars
    PROVE  Futures' /\ PendingIsAwaited' /\ DeliveredIsBounded'
<1> USE SecretAssumption DEF callVars, vaultVars, uiVars
<1>1. /\ pc \in [Call -> CallStep] /\ purpose \in [Call -> Purpose]
      /\ store \in [Purpose -> Call \cup {None}] /\ future \in [Call -> FutureState]
      /\ pending \subseteq Call /\ armed \subseteq Call /\ timers \subseteq Call
      /\ None \notin Call
  BY DEF TypeOK, Call
<1>2. CASE UNCHANGED <<pc, purpose, store, pending, future, armed, timers>>
  BY <1>2 DEF Futures, PendingIsAwaited, DeliveredIsBounded, Stored
<1>3. CASE ShowPrompt \/ SubmitPrompt \/ ClosePrompt \/ OrderReturns \/ OrderGivenUp
  BY <1>2, <1>3 DEF ShowPrompt, SubmitPrompt, ClosePrompt, OrderReturns, OrderGivenUp
<1>4. ASSUME NEW c \in Call,
             SendOrder(c) \/ StrategyOrder(c) \/ GetFinds(c) \/ GetMisses(c) \/ CreateRequest(c)
                 \/ FindOnRegister(c)
      PROVE  Futures' /\ PendingIsAwaited' /\ DeliveredIsBounded'
  <2>1. PICK step \in CallStep \ {"wait", "register"} : pc' = [pc EXCEPT ![c] = step]
    BY <1>4 DEF SendOrder, StrategyOrder, GetFinds, GetMisses, CreateRequest,
                FindOnRegister, ReturnStored, Goto, CallStep
  <2>2. /\ pc[c] \notin {"wait", "cleanup"}
        /\ UNCHANGED <<purpose, store, pending, future, armed, timers>>
    BY <1>4 DEF SendOrder, StrategyOrder, GetFinds, GetMisses, CreateRequest,
                FindOnRegister
  <2> QED
    BY <2>1, <2>2, VaultKept
<1>5. CASE TakeOrder
  <2> DEFINE c == Head(cmds).call
  <2>1. c \in Call /\ pc[c] = "sent"
    BY <1>5, TakenOrder
  <2>2. pc' = [pc EXCEPT ![c] = "get"]
    BY <1>5 DEF TakeOrder, Goto
  <2>3. UNCHANGED <<purpose, store, pending, future, armed, timers>>
    BY <1>5 DEF TakeOrder
  <2> HIDE DEF c
  <2> QED
    BY <2>1, <2>2, <2>3, VaultKept DEF CallStep
<1>6. ASSUME NEW c \in Call, PushRequired(c)
      PROVE  Futures' /\ PendingIsAwaited' /\ DeliveredIsBounded'
  <2>1. pc[c] = "push" /\ pc' = [pc EXCEPT ![c] = "register"]
    BY <1>6 DEF PushRequired, Goto
  <2>2. c \notin armed
    BY <2>1 DEF Pushed, Past
  <2>3. UNCHANGED <<purpose, store, pending, future, armed, timers>>
    BY <1>6 DEF PushRequired
  <2> QED
    BY <2>1, <2>2, <2>3, VaultKept DEF CallStep
<1>7. CASE TakeSecret
  <2> DEFINE c == Head(cmds).call
             wake == c \in pending /\ future[c] = "pending"
  <2>1. /\ store' = [store EXCEPT ![purpose[c]] = c]
        /\ pending' = pending \ {c}
        /\ armed' = armed \cup {c}
        /\ future' = IF wake THEN [future EXCEPT ![c] = "setting"] ELSE future
        /\ timers' = IF wake THEN timers \cup {c} ELSE timers
        /\ UNCHANGED <<pc, purpose>>
    <3>1. future' = [future EXCEPT ![c] = IF wake THEN "setting" ELSE @]
      BY <1>7 DEF TakeSecret
    <3>2. future' = IF wake THEN [future EXCEPT ![c] = "setting"] ELSE future
      BY <1>1, <3>1
    <3> QED
      BY <1>7, <3>2 DEF TakeSecret
  <2>2. c \in Call /\ c \notin armed
    <3>1. cmds # <<>> /\ cmds' = Tail(cmds) /\ Head(cmds).kind = "secret"
          /\ cmds \in Seq(Command)
      BY <1>7 DEF TakeSecret, TypeOK
    <3>2. Head(cmds) = cmds[1] /\ 1 \in 1 .. Len(cmds)
      BY <3>1, QueueTail
    <3> QED
      BY <3>1, <3>2, CommandType DEF OnePlace
  <2> HIDE DEF c
  <2>3. future[c] \notin {"setting", "set"}
    BY <2>2 DEF Futures
  <2>4. ASSUME NEW b \in Call
        PROVE  /\ pc'[b] = "register" /\ b \in armed' => Stored(b)' # None
               /\ pc'[b] = "wait" =>
                     \/ future'[b] = "pending" /\ b \in pending' /\ b \notin armed'
                     \/ future'[b] \in {"setting", "set"}
               /\ future'[b] \in {"setting", "set"} => b \in armed'
               /\ future'[b] \in {"setting", "set"} /\ store'[purpose'[b]] = b =>
                     b \in timers'
    <3>1. CASE b = c
      BY <1>1, <2>1, <2>2, <2>3, <3>1 DEF Futures, Stored
    <3>2. CASE b # c
      <4>1. /\ future'[b] = future[b] /\ (b \in armed' <=> b \in armed)
            /\ (b \in pending' <=> b \in pending) /\ (b \in timers => b \in timers')
        BY <1>1, <2>1, <3>2
      <4>2. store'[purpose[b]] = c \/ store'[purpose[b]] = store[purpose[b]]
        BY <1>1, <2>1
      <4> QED
        BY <1>1, <2>1, <2>2, <3>2, <4>1, <4>2 DEF Futures, DeliveredIsBounded, Stored
    <3> QED
      BY <3>1, <3>2
  <2>5. PendingIsAwaited'
    BY <2>1 DEF PendingIsAwaited
  <2> QED
    BY <2>4, <2>5 DEF Futures, DeliveredIsBounded, Stored
<1>8. ASSUME NEW c \in Call, Register(c)
      PROVE  Futures' /\ PendingIsAwaited' /\ DeliveredIsBounded'
  <2>1. /\ pc[c] = "register" /\ Stored(c) = None
        /\ future' = [future EXCEPT ![c] = "pending"]
        /\ pending' = pending \cup {c}
        /\ pc' = [pc EXCEPT ![c] = "wait"]
        /\ UNCHANGED <<purpose, store, armed, timers>>
    BY <1>8 DEF Register, Goto
  <2>2. c \notin armed
    BY <2>1 DEF Futures
  <2>3. Futures'
    BY <1>1, <2>1, <2>2 DEF Futures, Stored
  <2>4. PendingIsAwaited'
    BY <1>1, <2>1 DEF PendingIsAwaited
  <2>5. DeliveredIsBounded'
    BY <1>1, <2>1 DEF DeliveredIsBounded
  <2> QED
    BY <2>3, <2>4, <2>5
<1>9. ASSUME NEW c \in Call, SetResult(c)
      PROVE  Futures' /\ PendingIsAwaited' /\ DeliveredIsBounded'
  BY <1>1, <1>9 DEF SetResult, Futures, PendingIsAwaited, DeliveredIsBounded, Stored
<1>10. ASSUME NEW c \in Call, WaitReturns(c) \/ Cleanup(c)
       PROVE  Futures' /\ PendingIsAwaited' /\ DeliveredIsBounded'
  <2>1. /\ pending' = pending \ {c}
        /\ pc' = [pc EXCEPT ![c] = "done"]
        /\ UNCHANGED <<purpose, store, future, armed, timers>>
    BY <1>10 DEF WaitReturns, Cleanup, Goto
  <2>2. Futures'
    BY <1>1, <2>1 DEF Futures, Stored
  <2>3. PendingIsAwaited'
    BY <1>1, <2>1 DEF PendingIsAwaited
  <2>4. DeliveredIsBounded'
    BY <2>1 DEF DeliveredIsBounded
  <2> QED
    BY <2>2, <2>3, <2>4
<1>11. ASSUME NEW c \in Call, WaitTimesOut(c)
       PROVE  Futures' /\ PendingIsAwaited' /\ DeliveredIsBounded'
  <2>1. /\ \E f \in {future[c], "cancelled"} : future' = [future EXCEPT ![c] = f]
        /\ pc' = [pc EXCEPT ![c] = "cleanup"]
        /\ UNCHANGED <<purpose, store, pending, armed, timers>>
    BY <1>1, <1>11 DEF WaitTimesOut, Goto
  <2>2. Futures'
    BY <1>1, <2>1 DEF Futures, Stored
  <2>3. PendingIsAwaited'
    BY <1>1, <2>1 DEF PendingIsAwaited
  <2>4. DeliveredIsBounded'
    BY <1>1, <2>1 DEF DeliveredIsBounded
  <2> QED
    BY <2>2, <2>3, <2>4
<1>12. ASSUME NEW c \in Call, Expire(c)
       PROVE  Futures' /\ PendingIsAwaited' /\ DeliveredIsBounded'
  <2>1. /\ \A b \in Call : pc[b] # "register"
        /\ timers' = timers \ {c}
        /\ store' = [store EXCEPT ![purpose[c]] = None]
        /\ UNCHANGED <<pc, purpose, pending, future, armed>>
    BY <1>12 DEF Expire, LoopFree, InResolve
  <2>2. Futures'
    BY <2>1 DEF Futures
  <2>3. PendingIsAwaited'
    BY <2>1 DEF PendingIsAwaited
  <2>4. DeliveredIsBounded'
    BY <1>1, <2>1 DEF DeliveredIsBounded
  <2> QED
    BY <2>2, <2>3, <2>4
<1> QED
  BY <1>2, <1>3, <1>4, <1>5, <1>6, <1>7, <1>8, <1>9, <1>10, <1>11, <1>12
     DEF RelayNext, UIStep, WorkerStep, ResolveStep, relayVars

(* RelayInv is inductive.                                                      *)
LEMMA AllStep == RelayInv /\ [RelayNext]_relayVars => RelayInv'
BY TypeStep, QueueStep, PushedStep, OnePlaceStep, VaultStep DEF RelayInv

-----------------------------------------------------------------------------

(* Wherever the answer to a request comes in between the push, the         *)
(* registration of the future and the timers of other requests, the call   *)
(* that waits for it is woken (SecretVault.submit and wait_for).           *)
THEOREM NoWakeupIsLost == RelaySpec => []NoLostWakeup
<1>1. RelayInv => NoLostWakeup
  BY DEF RelayInv, Futures, NoLostWakeup
<1> QED
  BY AllInit, AllStep, <1>1, PTL DEF RelaySpec

(* No future stays in the vault after the call that awaited it ended, by   *)
(* an answer or by the timeout (the finally clause of wait_for).           *)
THEOREM NoOrphanedFuture == RelaySpec => []PendingIsAwaited
<1>1. RelayInv => PendingIsAwaited
  BY DEF RelayInv
<1> QED
  BY AllInit, AllStep, <1>1, PTL DEF RelaySpec

(* A secret that woke an order is never in the store without a timer that  *)
(* will remove it (SecretVault.submit and _expire).                        *)
THEOREM DeliveredIsTimed == RelaySpec => []DeliveredIsBounded
<1>1. RelayInv => DeliveredIsBounded
  BY DEF RelayInv
<1> QED
  BY AllInit, AllStep, <1>1, PTL DEF RelaySpec

-----------------------------------------------------------------------------
(* The prompts of the order flow                                           *)

TypeInv ==
    /\ asked \in Nat /\ issued \in Nat
    /\ "secret" \notin open
    /\ input \in [id : Nat, text : BOOLEAN, late : BOOLEAN]

\* Nothing is typed that no prompt has asked for, at any point of a frame.
NothingTyped == asked = 0 => ~input.text

IInv == TypeInv /\ StackMirrorsPrompts /\ NothingTyped

prompts == <<asked, open, dirty, stack, was, input, issued>>

-----------------------------------------------------------------------------
LEMMA InitIInv == Init => IInv
  BY DEF Init, IInv, TypeInv, StackMirrorsPrompts, NothingTyped, NoInput, Open

LEMMA ElseKeeps == IInv /\ UNCHANGED prompts => IInv'
  BY DEF IInv, TypeInv, StackMirrorsPrompts, NothingTyped, Open, prompts

\* What opens or stays open without an entry is noted.
LEMMA WrittenKeeps ==
    ASSUME StackMirrorsPrompts, UNCHANGED <<stack, was>>, dirty \subseteq dirty',
           \A p \in Open' \ Open : p \in dirty'
    PROVE  StackMirrorsPrompts'
  BY DEF StackMirrorsPrompts

\* The fields of the input, set one at a time.
LEMMA SetText ==
    ASSUME NEW S, NEW T, NEW g \in [id : S, text : T, late : T], NEW v \in T
    PROVE  /\ [g EXCEPT !.text = v] \in [id : S, text : T, late : T]
           /\ [g EXCEPT !.text = v].text = v
  OBVIOUS

LEMMA SetLate ==
    ASSUME NEW S, NEW T, NEW g \in [id : S, text : T, late : T], NEW v \in T
    PROVE  /\ [g EXCEPT !.late = v] \in [id : S, text : T, late : T]
           /\ [g EXCEPT !.late = v].text = g.text
  OBVIOUS

LEMMA NoInputType ==
    /\ NoInput \in [id : Nat, text : BOOLEAN, late : BOOLEAN] /\ ~NoInput.text
    /\ \A n \in Nat : LET new == [NoInput EXCEPT !.id = n]
                      IN  new \in [id : Nat, text : BOOLEAN, late : BOOLEAN] /\ ~new.text
  BY DEF NoInput

LEMMA SubmitKeeps ==
    ASSUME IInv, NEW text \in BOOLEAN, text => asked # 0 \/ input.text,
           SubmitSecret(text), UNCHANGED <<open, stack, was, issued>>
    PROVE  IInv'
  <1>1. TypeInv' /\ NothingTyped'
    <2>1. CASE ~text \/ asked = 0
      <3>1. input' = [input EXCEPT !.text = text] /\ asked' = asked
        BY <2>1 DEF SubmitSecret
      <3>2. input \in [id : Nat, text : BOOLEAN, late : BOOLEAN]
        BY DEF IInv, TypeInv
      <3>3. input' \in [id : Nat, text : BOOLEAN, late : BOOLEAN] /\ input'.text = text
        BY <3>1, <3>2, SetText
      <3> QED
        BY <3>1, <3>3 DEF IInv, TypeInv, NothingTyped
    <2>2. CASE ~(~text \/ asked = 0)
      BY <2>2, NoInputType DEF SubmitSecret, IInv, TypeInv, NothingTyped
    <2> QED
      BY <2>1, <2>2
  <1>2. StackMirrorsPrompts'
    <2>1. Open' \subseteq Open /\ dirty \subseteq dirty'
      BY DEF SubmitSecret, Open
    <2> QED
      BY <2>1, WrittenKeeps DEF IInv
  <1> QED
    BY <1>1, <1>2 DEF IInv

LEMMA CancelKeeps ==
    ASSUME IInv, CancelSecret, UNCHANGED <<open, stack, was, issued>>
    PROVE  IInv'
  <1>1. TypeInv' /\ NothingTyped'
    BY NoInputType DEF CancelSecret, IInv, TypeInv, NothingTyped
  <1>2. Open' \subseteq Open /\ dirty \subseteq dirty'
    BY DEF CancelSecret, Open
  <1> QED
    BY <1>1, <1>2, WrittenKeeps DEF IInv

\* The other prompts have no part in the secret's state.
LEMMA OthersKeep ==
    ASSUME IInv, "secret" \notin open', dirty \subseteq dirty',
           \A p \in open' \ open : p \in dirty',
           UNCHANGED <<asked, stack, was, input, issued>>
    PROVE  IInv'
  <1>1. TypeInv' /\ NothingTyped'
    BY DEF IInv, TypeInv, NothingTyped
  <1>2. \A p \in Open' \ Open : p \in dirty'
    BY DEF Open
  <1> QED
    BY <1>1, <1>2, WrittenKeeps DEF IInv

-----------------------------------------------------------------------------
LEMMA EventsKeep == IInv /\ BackendEvents => IInv'
  <1> SUFFICES ASSUME IInv, BackendEvents PROVE IInv'
    OBVIOUS
  <1>1. PICK news \in SUBSET ({"secret", "relogin"} \intersect Prompts) :
          /\ issued' = IF "secret" \in news THEN issued + 1 ELSE issued
          /\ asked' = IF "secret" \in news THEN issued + 1 ELSE asked
          /\ open' = open \union (news \ {"secret"})
          /\ dirty' = dirty \union news
          /\ UNCHANGED <<stack, was, input>>
    BY DEF BackendEvents
  <1>2. TypeInv'
    BY <1>1 DEF IInv, TypeInv
  <1>3. NothingTyped'
    BY <1>1 DEF IInv, TypeInv, NothingTyped
  <1>4. \A p \in Open' \ Open : p \in dirty'
    BY <1>1 DEF Open
  <1> QED
    BY <1>1, <1>2, <1>3, <1>4, WrittenKeeps DEF IInv

LEMMA EscapeKeeps == IInv /\ EscapeKey => IInv'
  BY DEF IInv, EscapeKey, TypeInv, StackMirrorsPrompts, NothingTyped, Open

LEMMA MirrorKeeps == ASSUME IInv, NEW p \in Prompts, Mirror(p) PROVE IInv'
  <1>1. CASE ForwardDue(p)
    BY <1>1 DEF Mirror, ForwardDue, IInv, TypeInv, StackMirrorsPrompts, NothingTyped, Open
  <1>2. CASE ~ForwardDue(p) /\ p \notin Open /\ p \in stack
    BY <1>2 DEF Mirror, IInv, TypeInv, StackMirrorsPrompts, NothingTyped, Open
  <1>3. CASE ~ForwardDue(p) /\ ~(p \notin Open /\ p \in stack)
    <2>1. /\ was' = IF p \in stack THEN was \union {p} ELSE was \ {p}
          /\ stack' = stack /\ dirty' = dirty \ {p} /\ issued' = issued
      BY <1>3 DEF Mirror
    <2>2. CASE p \in (was \intersect Open) \ stack
      <3>1. Dismiss(p)
        BY <1>3, <2>2 DEF Mirror
      <3>2. TypeInv' /\ NothingTyped'
        BY <2>1, <3>1, NoInputType DEF Dismiss, IInv, TypeInv, NothingTyped
      <3>3. Open' = Open \ {p}
        BY <3>1 DEF Dismiss, Open, IInv, TypeInv
      <3>4. StackMirrorsPrompts'
        BY <2>1, <2>2, <3>3 DEF IInv, StackMirrorsPrompts
      <3> QED
        BY <3>2, <3>4 DEF IInv
    <2>3. CASE p \notin (was \intersect Open) \ stack
      <3>1. UNCHANGED <<asked, open, input>>
        BY <1>3, <2>3 DEF Mirror
      <3>2. TypeInv' /\ NothingTyped' /\ Open' = Open
        BY <2>1, <3>1 DEF IInv, TypeInv, NothingTyped, Open
      <3>3. StackMirrorsPrompts'
        BY <1>3, <2>1, <2>3, <3>2 DEF IInv, StackMirrorsPrompts, ForwardDue
      <3> QED
        BY <3>2, <3>3 DEF IInv
    <2> QED
      BY <2>2, <2>3
  <1> QED
    BY <1>1, <1>2, <1>3

LEMMA LifecycleKeeps == IInv /\ SecretLifecycle => IInv'
  <1> SUFFICES ASSUME IInv, SecretLifecycle PROVE IInv'
    OBVIOUS
  <1>1. /\ UNCHANGED <<asked, open, dirty, stack, was, issued>>
        /\ input' = IF asked = input.id THEN input ELSE [NoInput EXCEPT !.id = asked]
    BY DEF SecretLifecycle
  <1>2. TypeInv' /\ NothingTyped'
    BY <1>1, NoInputType DEF IInv, TypeInv, NothingTyped
  <1>3. StackMirrorsPrompts'
    BY <1>1 DEF IInv, StackMirrorsPrompts, Open
  <1> QED
    BY <1>2, <1>3 DEF IInv

LEMMA SecretKeysKeep == IInv /\ SecretKeys => IInv'
  <1> SUFFICES ASSUME IInv, SecretKeys PROVE IInv'
    OBVIOUS
  <1> DEFINE text == input.text \/ "char" \in frame.keys
  <1>1. UNCHANGED <<open, stack, was, issued>> /\ text \in BOOLEAN
    BY DEF SecretKeys
  <1>2. CASE asked = 0
    BY <1>1, <1>2, ElseKeeps DEF SecretKeys, prompts
  <1>3. CASE asked # 0 /\ SubmitSecret(text)
    <2> HIDE DEF text
    <2> QED
      BY <1>1, <1>3, SubmitKeeps
  <1>4. CASE asked # 0 /\ input' = [input EXCEPT !.text = text] /\ UNCHANGED <<asked, dirty>>
    <2>1. input \in [id : Nat, text : BOOLEAN, late : BOOLEAN]
      BY DEF IInv, TypeInv
    <2> HIDE DEF text
    <2>2. input' \in [id : Nat, text : BOOLEAN, late : BOOLEAN]
      BY <1>1, <1>4, <2>1, SetText
    <2>3. TypeInv' /\ NothingTyped' /\ StackMirrorsPrompts'
      BY <1>1, <1>4, <2>2 DEF IInv, TypeInv, NothingTyped, StackMirrorsPrompts, Open
    <2> QED
      BY <2>3 DEF IInv
  <1> QED
    BY <1>2, <1>3, <1>4 DEF SecretKeys

LEMMA SystemKeeps == IInv /\ SystemStep => IInv'
  <1> SUFFICES ASSUME IInv, SystemStep PROVE IInv'
    OBVIOUS
  <1>1. "secret" \notin open
    BY DEF IInv, TypeInv
  <1>2. CASE BackendEvents
    BY <1>2, EventsKeep
  <1>3. CASE StatusUpdate
    BY <1>1, <1>3, OthersKeep, Zenon DEF StatusUpdate
  <1>4. CASE EscapeKey
    BY <1>4, EscapeKeeps
  <1>5. CASE \E p \in Prompts : Mirror(p)
    BY <1>5, MirrorKeeps
  <1>6. CASE \E w \in Popups : PopupKey(w)
    BY <1>6, ElseKeeps DEF PopupKey, prompts
  <1>7. CASE SecretLifecycle
    BY <1>7, LifecycleKeeps
  <1>8. CASE SecretKeys
    BY <1>8, SecretKeysKeep
  <1>9. CASE SecretTimeout
    BY <1>9, CancelKeeps, ElseKeeps DEF SecretTimeout, prompts
  <1>10. CASE SecretClick
    <2>1. input.text \in BOOLEAN
      BY DEF IInv, TypeInv
    <2> QED
      BY <1>10, <2>1, SubmitKeeps, CancelKeeps DEF SecretClick
  <1>11. CASE ConfirmClick
    BY <1>1, <1>11, OthersKeep DEF ConfirmClick, Writes
  <1>12. CASE FormClick
    BY <1>1, <1>12, OthersKeep DEF FormClick, Writes
  <1>13. CASE ModifyKeys
    BY <1>1, <1>13, OthersKeep DEF ModifyKeys, Writes
  <1>14. CASE ModifyClick
    BY <1>1, <1>14, OthersKeep DEF ModifyClick, Writes
  <1>15. CASE \E p \in Notices : NoticeClick(p)
    BY <1>1, <1>15, OthersKeep DEF NoticeClick, Writes
  <1>16. CASE MenuClick
    BY <1>1, <1>16, OthersKeep DEF MenuClick, Writes
  <1>17. CASE RightClick \/ SettingsClick
    BY <1>17, ElseKeeps DEF RightClick, SettingsClick, prompts
  <1> QED
    BY <1>2, <1>3, <1>4, <1>5, <1>6, <1>7, <1>8, <1>9, <1>10, <1>11, <1>12, <1>13, <1>14,
       <1>15, <1>16, <1>17 DEF SystemStep

LEMMA NextKeeps == IInv /\ [Next]_vars => IInv'
  <1> SUFFICES ASSUME IInv, [Next]_vars PROVE IInv'
    OBVIOUS
  <1>1. CASE NextFrame
    BY <1>1, ElseKeeps DEF NextFrame, BeginFrame, prompts
  <1>2. CASE Elapse
    <2>1. /\ input \in [id : Nat, text : BOOLEAN, late : BOOLEAN]
          /\ input' = [input EXCEPT !.late = TRUE]
          /\ UNCHANGED <<asked, open, dirty, stack, was, issued>>
      BY <1>2 DEF Elapse, IInv, TypeInv
    <2>2. input' \in [id : Nat, text : BOOLEAN, late : BOOLEAN] /\ input'.text = input.text
      BY <2>1, SetLate
    <2> QED
      BY <2>1, <2>2 DEF IInv, TypeInv, NothingTyped, StackMirrorsPrompts, Open
  <1>3. CASE SystemStep
    BY <1>3, SystemKeeps
  <1>4. CASE UNCHANGED vars
    BY <1>4, ElseKeeps DEF vars, prompts
  <1> QED
    BY <1>1, <1>2, <1>3, <1>4 DEF Next

LEMMA AlwaysIInv == Spec => []IInv
  BY InitIInv, NextKeeps, PTL DEF Spec

\* No prompt is lost to the stack, whatever the order of the systems and
\* however often a request supersedes another.
THEOREM StackAlwaysMirrors == Spec => []StackMirrorsPrompts
  <1>1. IInv => StackMirrorsPrompts
    BY DEF IInv
  <1> QED
    BY <1>1, AlwaysIInv, PTL

\* The typed secret goes with its prompt, also when its request is superseded.
THEOREM SecretAlwaysForgotten == Spec => []SecretForgotten
  <1>1. IInv => SecretForgotten
    BY DEF IInv, NothingTyped, SecretForgotten
  <1> QED
    BY <1>1, AlwaysIInv, PTL

-----------------------------------------------------------------------------
(* A frame in which only Escape is pressed                                 *)

Systems == Prompts \union Popups \union
    {"events", "status", "lifecycle", "timeout", "escape", "secret_keys",
     "modify_keys", "confirm_click", "click"}

Frames == [todo : SUBSET Systems, keys : KeyStrokes, click : Clicks \union {"none"},
           was : [calm : BOOLEAN, polled : BOOLEAN, open : SUBSET Prompts,
                  popups : SUBSET Popups, arrived : SUBSET Prompts]]

FrameType ==
    /\ open \union dirty \union stack \union was \subseteq Prompts
    /\ popups \subseteq Popups
    /\ frame \in Frames
    /\ frame.click = "submit" => "confirm" \in Prompts

Calm    == frame.was.calm /\ ~frame.was.polled
Before  == frame.was.open
Arrived == frame.was.arrived
Kept    == IF Before = {} THEN {} ELSE Before \ {Front(Before)}

\* What a mirror that is still to run has to tell: the prompt is as it was, or
\* a report has opened it again, and only Escape has changed the stack.
Waits(p) ==
    /\ p \in Open <=> p \in Before \union Arrived
    /\ p \in was <=> p \in Before
    /\ p \in Arrived => p \in dirty
    /\ p \in dirty \intersect Before => p \in Arrived
    /\ "escape" \notin frame.todo => (p \in stack <=> p \in Kept)

CalmSystems ==
    /\ frame.todo \subseteq Prompts \union Popups \union {"events", "escape", "lifecycle"}
    /\ "events" \in frame.todo => Arrived = {}
    /\ "escape" \in frame.todo => stack = Before /\ Before \subseteq frame.todo

CalmPrompts ==
    \A p \in Prompts : IF p \in frame.todo THEN Waits(p)
                       ELSE p \in Open <=> p \in Kept \union Arrived

\* A popup looks before the mirrors of the prompts it yields to have run.
CalmPopups ==
    /\ Before \intersect {"secret", "modify"} # {} => popups = frame.was.popups
    /\ Popups \intersect frame.todo # {} => Before \intersect {"secret", "modify"} \subseteq frame.todo

CalmInv == Calm => CalmSystems /\ CalmPrompts /\ CalmPopups

EscapeInv == FrameType /\ CalmInv

LEMMA DoneIs ==
    ASSUME FrameType, NEW s, Done(s)
    PROVE  /\ frame' \in Frames /\ frame'.todo = frame.todo \ {s}
           /\ frame'.was = frame.was /\ frame'.click \in {frame.click, "none"}
  <1>1. frame \in Frames
    BY DEF FrameType, Frames
  <1>2. PICK c \in Clicks \union {"none"} :
           /\ c = IF s \in {"click", "confirm_click"} THEN "none" ELSE frame.click
           /\ c \in {frame.click, "none"}
    BY <1>1 DEF Frames
  <1>3. PICK k \in KeyStrokes : k = IF s = "modify_keys" THEN {} ELSE frame.keys
    BY <1>1 DEF Frames, KeyStrokes
  <1>4. frame' = [frame EXCEPT !.todo = frame.todo \ {s}, !.click = c, !.keys = k]
    BY <1>2, <1>3, Zenon DEF Done
  <1> QED
    BY <1>1, <1>2, <1>4 DEF Frames

\* A system that does not run in a calm frame does not disturb one.
LEMMA OtherSystem ==
    ASSUME CalmInv, NEW s \in {"status", "timeout", "secret_keys", "modify_keys",
                               "confirm_click", "click"},
           s \in frame.todo, frame'.was = frame.was
    PROVE  CalmInv'
  <1>1. Calm' => Calm
    BY DEF Calm
  <1>2. s \notin Prompts \union Popups \union {"events", "escape", "lifecycle"}
    BY PromptsAssumption DEF Popups
  <1>3. ~Calm
    BY <1>2 DEF CalmInv, CalmSystems
  <1> QED
    BY <1>1, <1>3 DEF CalmInv

\* What is of no concern to the prompts disturbs nothing.
LEMMA EscapeElse ==
    ASSUME EscapeInv, UNCHANGED <<asked, open, dirty, stack, was, popups, frame>>
    PROVE  EscapeInv'
  BY DEF EscapeInv, FrameType, Frames, CalmInv, Calm, CalmSystems, CalmPrompts, CalmPopups,
     Before, Arrived, Kept, Waits, Open

LEMMA OtherKeeps ==
    ASSUME EscapeInv, NEW s \in {"status", "timeout", "secret_keys", "modify_keys",
                                 "confirm_click", "click"},
           s \in frame.todo, frame'.was = frame.was, frame' \in Frames,
           frame'.click \in {frame.click, "none"},
           UNCHANGED <<stack, was>>,
           open' \union dirty' \subseteq Prompts, popups' \subseteq Popups
    PROVE  EscapeInv'
  <1>1. CalmInv'
    BY OtherSystem DEF EscapeInv
  <1>2. FrameType'
    BY DEF EscapeInv, FrameType, Frames
  <1> QED
    BY <1>1, <1>2 DEF EscapeInv

LEMMA EscapeKeyKeeps ==
    ASSUME EscapeInv, EscapeKey
    PROVE  EscapeInv'
  <1>1. /\ "escape" \in frame.todo /\ Done("escape")
        /\ stack' = IF stack = {} THEN {} ELSE stack \ {Front(stack)}
        /\ UNCHANGED <<asked, open, dirty, was, popups>>
    BY DEF EscapeKey, MayRun
  <1>2. /\ frame' \in Frames /\ frame'.todo = frame.todo \ {"escape"}
        /\ frame'.was = frame.was /\ frame'.click \in {frame.click, "none"}
    BY <1>1, DoneIs DEF EscapeInv
  <1>3. FrameType'
    BY <1>1, <1>2 DEF EscapeInv, FrameType, Frames
  <1>4. ASSUME Calm'
        PROVE  CalmSystems' /\ CalmPrompts' /\ CalmPopups'
    <2>1. CalmSystems /\ CalmPrompts /\ CalmPopups
      BY <1>2, <1>4 DEF EscapeInv, CalmInv, Calm
    <2>2. /\ Before' = Before /\ Arrived' = Arrived /\ Open' = Open
          /\ Kept' = Kept /\ stack' = Kept
      BY <1>1, <1>2, <2>1 DEF Before, Arrived, Open, Kept, CalmSystems
    <2>3. "escape" \notin Prompts \union Popups
      BY PromptsAssumption DEF Popups
    <2>4. CalmSystems'
      BY <1>2, <2>1, <2>2 DEF CalmSystems
    <2>5. CalmPopups'
      BY <1>1, <1>2, <2>1, <2>2, <2>3 DEF CalmPopups
    <2>6. ASSUME NEW p \in Prompts
          PROVE  IF p \in frame'.todo THEN Waits(p)' ELSE p \in Open' <=> p \in (Kept \union Arrived)'
      <3>1. p \in frame'.todo <=> p \in frame.todo
        BY <1>2, <2>3
      <3>2. CASE p \in frame.todo
        <4>1. Waits(p)
          BY <2>1, <3>2 DEF CalmPrompts
        <4>2. Waits(p)'
          BY <1>1, <2>2, <4>1 DEF Waits
        <4> QED
          BY <3>1, <3>2, <4>2
      <3>3. CASE p \notin frame.todo
        BY <2>1, <2>2, <3>1, <3>3 DEF CalmPrompts
      <3> QED
        BY <3>2, <3>3
    <2> QED
      BY <2>4, <2>5, <2>6 DEF CalmPrompts
  <1> QED
    BY <1>3, <1>4 DEF EscapeInv, CalmInv

LEMMA PopupKeeps ==
    ASSUME EscapeInv, NEW w \in Popups, PopupKey(w)
    PROVE  EscapeInv'
  <1>1. /\ w \in frame.todo /\ Done(w)
        /\ popups' = IF Yields THEN popups ELSE popups \ {w}
        /\ UNCHANGED <<asked, open, dirty, stack, was>>
    BY DEF PopupKey, MayRun
  <1>2. /\ frame' \in Frames /\ frame'.todo = frame.todo \ {w}
        /\ frame'.was = frame.was /\ frame'.click \in {frame.click, "none"}
    BY <1>1, DoneIs DEF EscapeInv
  <1>3. FrameType'
    BY <1>1, <1>2 DEF EscapeInv, FrameType, Frames
  <1>4. ASSUME Calm'
        PROVE  CalmSystems' /\ CalmPrompts' /\ CalmPopups'
    <2>1. CalmSystems /\ CalmPrompts /\ CalmPopups
      BY <1>2, <1>4 DEF EscapeInv, CalmInv, Calm
    <2>2. /\ Before' = Before /\ Arrived' = Arrived /\ Open' = Open /\ Kept' = Kept
      BY <1>1, <1>2 DEF Before, Arrived, Open, Kept
    <2>3. w \notin Prompts /\ w # "escape" /\ w # "events"
      BY PromptsAssumption DEF Popups
    <2>4. Before \subseteq Prompts
      BY <1>2 DEF Before, EscapeInv, FrameType, Frames
    <2>5. CalmSystems'
      BY <1>1, <1>2, <2>1, <2>2, <2>3, <2>4 DEF CalmSystems
    <2>6. CalmPopups'
      <3>1. ASSUME NEW p \in Before \intersect {"secret", "modify"}
            PROVE  p \in frame'.todo /\ Yields
        <4>1. p \in frame.todo
          BY <1>1, <2>1 DEF CalmPopups
        <4>2. Waits(p)
          BY <2>1, <2>4, <3>1, <4>1 DEF CalmPrompts
        <4>3. p \in Open
          BY <3>1, <4>2 DEF Waits
        <4> QED
          BY <1>2, <2>3, <2>4, <3>1, <4>1, <4>3 DEF Yields
      <3>2. Before \intersect {"secret", "modify"} # {} => popups' = popups
        BY <1>1, <3>1
      <3> QED
        BY <1>2, <2>1, <2>2, <3>1, <3>2 DEF CalmPopups
    <2>7. ASSUME NEW p \in Prompts
          PROVE  IF p \in frame'.todo THEN Waits(p)' ELSE p \in Open' <=> p \in (Kept \union Arrived)'
      <3>1. p \in frame'.todo <=> p \in frame.todo
        BY <1>2, <2>3
      <3>2. CASE p \in frame.todo
        <4>1. Waits(p)
          BY <2>1, <3>2 DEF CalmPrompts
        <4>2. Waits(p)'
          BY <1>1, <1>2, <2>2, <2>3, <4>1 DEF Waits
        <4> QED
          BY <3>1, <3>2, <4>2
      <3>3. CASE p \notin frame.todo
        BY <2>1, <2>2, <3>1, <3>3 DEF CalmPrompts
      <3> QED
        BY <3>2, <3>3
    <2> QED
      BY <2>5, <2>6, <2>7 DEF CalmPrompts
  <1> QED
    BY <1>3, <1>4 DEF EscapeInv, CalmInv

LEMMA LifecycleEscapes ==
    ASSUME EscapeInv, SecretLifecycle
    PROVE  EscapeInv'
  <1>1. /\ "lifecycle" \in frame.todo /\ Done("lifecycle")
        /\ UNCHANGED <<asked, open, dirty, stack, was, popups>>
    BY DEF SecretLifecycle, MayRun
  <1>2. /\ frame' \in Frames /\ frame'.todo = frame.todo \ {"lifecycle"}
        /\ frame'.was = frame.was /\ frame'.click \in {frame.click, "none"}
    BY <1>1, DoneIs DEF EscapeInv
  <1>3. FrameType'
    BY <1>1, <1>2 DEF EscapeInv, FrameType, Frames
  <1>4. ASSUME Calm'
        PROVE  CalmSystems' /\ CalmPrompts' /\ CalmPopups'
    <2>1. CalmSystems /\ CalmPrompts /\ CalmPopups
      BY <1>2, <1>4 DEF EscapeInv, CalmInv, Calm
    <2>2. /\ Before' = Before /\ Arrived' = Arrived /\ Open' = Open /\ Kept' = Kept
      BY <1>1, <1>2 DEF Before, Arrived, Open, Kept
    <2>3. "lifecycle" \notin Prompts \union Popups
      BY PromptsAssumption DEF Popups
    <2>4. Before \subseteq Prompts
      BY <1>2 DEF Before, EscapeInv, FrameType, Frames
    <2>5. CalmSystems' /\ CalmPopups'
      BY <1>1, <1>2, <2>1, <2>2, <2>3, <2>4 DEF CalmSystems, CalmPopups
    <2>6. ASSUME NEW p \in Prompts
          PROVE  IF p \in frame'.todo THEN Waits(p)' ELSE p \in Open' <=> p \in (Kept \union Arrived)'
      <3>1. p \in frame'.todo <=> p \in frame.todo
        BY <1>2, <2>3
      <3>2. CASE p \in frame.todo
        <4>1. Waits(p)
          BY <2>1, <3>2 DEF CalmPrompts
        <4>2. Waits(p)'
          BY <1>1, <1>2, <2>2, <4>1 DEF Waits
        <4> QED
          BY <3>1, <3>2, <4>2
      <3>3. CASE p \notin frame.todo
        BY <2>1, <2>2, <3>1, <3>3 DEF CalmPrompts
      <3> QED
        BY <3>2, <3>3
    <2> QED
      BY <2>5, <2>6 DEF CalmPrompts
  <1> QED
    BY <1>3, <1>4 DEF EscapeInv, CalmInv

\* A report that arrives in the frame is noted, and opens its prompt.
LEMMA EventsEscape ==
    ASSUME IInv, EscapeInv, BackendEvents
    PROVE  EscapeInv'
  <1>1. PICK news \in SUBSET ({"secret", "relogin"} \intersect Prompts) :
          /\ asked' = IF "secret" \in news THEN issued + 1 ELSE asked
          /\ open' = open \union (news \ {"secret"})
          /\ dirty' = dirty \union news
          /\ frame' = [frame EXCEPT !.todo = @ \ {"events"},
                                    !.was.arrived = IF frame.was.calm THEN news ELSE {}]
    BY DEF BackendEvents
  <1>2. "events" \in frame.todo /\ UNCHANGED <<stack, was, popups>>
    BY DEF BackendEvents, MayRun
  <1>3. PICK a \in SUBSET Prompts : a = IF frame.was.calm THEN news ELSE {}
    OBVIOUS
  <1>4. frame' = [frame EXCEPT !.todo = frame.todo \ {"events"}, !.was.arrived = a]
    BY <1>1, <1>3
  <1>5. /\ frame' \in Frames /\ frame'.todo = frame.todo \ {"events"}
        /\ frame'.was.calm = frame.was.calm /\ frame'.was.polled = frame.was.polled
        /\ frame'.was.open = frame.was.open /\ frame'.was.popups = frame.was.popups
        /\ frame'.was.arrived = a /\ frame'.click = frame.click
    BY <1>4 DEF EscapeInv, FrameType, Frames
  <1>6. Open' = Open \union news
    BY <1>1 DEF IInv, TypeInv, Open
  <1>7. FrameType'
    BY <1>1, <1>2, <1>5 DEF EscapeInv, FrameType, Frames
  <1>8. ASSUME Calm'
        PROVE  CalmSystems' /\ CalmPrompts' /\ CalmPopups'
    <2>1. CalmSystems /\ CalmPrompts /\ CalmPopups /\ frame.was.calm
      BY <1>5, <1>8 DEF EscapeInv, CalmInv, Calm
    <2>2. /\ Before' = Before /\ Arrived = {} /\ Arrived' = news /\ Kept' = Kept
      BY <1>2, <1>3, <1>5, <2>1 DEF Before, Arrived, Kept, CalmSystems
    <2>3. "events" \notin Prompts \union Popups
      BY PromptsAssumption DEF Popups
    <2>4. Before \subseteq Prompts
      BY DEF Before, EscapeInv, FrameType, Frames
    <2>5. CalmSystems' /\ CalmPopups'
      BY <1>2, <1>5, <2>1, <2>2, <2>3, <2>4 DEF CalmSystems, CalmPopups
    <2>6. ASSUME NEW p \in Prompts
          PROVE  IF p \in frame'.todo THEN Waits(p)' ELSE p \in Open' <=> p \in (Kept \union Arrived)'
      <3>1. p \in frame'.todo <=> p \in frame.todo
        BY <1>5, <2>3
      <3>2. CASE p \in frame.todo
        <4>1. Waits(p)
          BY <2>1, <3>2 DEF CalmPrompts
        <4>2. Waits(p)'
          BY <1>1, <1>2, <1>5, <1>6, <2>2, <4>1 DEF Waits
        <4> QED
          BY <3>1, <3>2, <4>2
      <3>3. CASE p \notin frame.todo
        BY <1>6, <2>1, <2>2, <3>1, <3>3 DEF CalmPrompts
      <3> QED
        BY <3>2, <3>3
    <2> QED
      BY <2>5, <2>6 DEF CalmPrompts
  <1> QED
    BY <1>7, <1>8 DEF EscapeInv, CalmInv

\* A mirror closes its prompt if Escape took its entry and no report opened it
\* again, and leaves it alone otherwise.
LEMMA MirrorEscapes ==
    ASSUME IInv, EscapeInv, NEW p \in Prompts, Mirror(p)
    PROVE  EscapeInv'
  <1>1. /\ p \in frame.todo /\ Done(p) /\ dirty' = dirty \ {p} /\ popups' = popups
        /\ \A t \in frame.todo : <<t, p>> \notin Order
    BY DEF Mirror, MayRun
  <1>2. /\ frame' \in Frames /\ frame'.todo = frame.todo \ {p}
        /\ frame'.was = frame.was /\ frame'.click \in {frame.click, "none"}
    BY <1>1, DoneIs DEF EscapeInv
  <1>3. /\ open' \subseteq open
        /\ stack' \ {p} = stack \ {p} /\ was' \ {p} = was \ {p}
        /\ Open' \ {p} = Open \ {p}
        /\ p \in Open' <=> /\ p \in Open
                           /\ ForwardDue(p) \/ p \notin (was \intersect Open) \ stack
    <2>1. CASE ForwardDue(p)
      BY <2>1 DEF Mirror, Open
    <2>2. CASE ~ForwardDue(p) /\ p \notin Open /\ p \in stack
      BY <2>2 DEF Mirror, Open
    <2>3. CASE ~ForwardDue(p) /\ ~(p \notin Open /\ p \in stack)
      <3>1. /\ was' = IF p \in stack THEN was \union {p} ELSE was \ {p}
            /\ stack' = stack
        BY <2>3 DEF Mirror
      <3>2. CASE p \in (was \intersect Open) \ stack
        <4>1. Dismiss(p)
          BY <2>3, <3>2 DEF Mirror
        <4>2. Open' = Open \ {p} /\ open' \subseteq open
          BY <4>1 DEF Dismiss, Open, IInv, TypeInv
        <4> QED
          BY <2>3, <3>1, <3>2, <4>2
      <3>3. CASE p \notin (was \intersect Open) \ stack
        <4>1. UNCHANGED <<asked, open, input>>
          BY <2>3, <3>3 DEF Mirror
        <4> QED
          BY <3>1, <3>3, <4>1 DEF Open
      <3> QED
        BY <3>2, <3>3
    <2> QED
      BY <2>1, <2>2, <2>3
  <1>4. FrameType'
    BY <1>1, <1>2, <1>3 DEF EscapeInv, FrameType, Frames
  <1>5. ASSUME Calm'
        PROVE  CalmSystems' /\ CalmPrompts' /\ CalmPopups'
    <2>1. CalmSystems /\ CalmPrompts /\ CalmPopups
      BY <1>2, <1>5 DEF EscapeInv, CalmInv, Calm
    <2>2. /\ Before' = Before /\ Arrived' = Arrived /\ Kept' = Kept
      BY <1>2 DEF Before, Arrived, Kept
    <2>3. "escape" \notin frame.todo
      BY <1>1 DEF Order, Explicit
    <2>4. p \in {"secret", "modify"} => Popups \intersect frame.todo = {}
      BY <1>1 DEF Order, Explicit, Popups
    <2>5. p \notin Popups /\ p # "events"
      BY PromptsAssumption DEF Popups
    <2>6. CalmSystems'
      BY <1>2, <2>1, <2>2, <2>3, <2>5 DEF CalmSystems
    <2>7. CalmPopups'
      BY <1>1, <1>2, <2>1, <2>2, <2>4, <2>5 DEF CalmPopups
    <2>8. ASSUME NEW q \in Prompts
          PROVE  IF q \in frame'.todo THEN Waits(q)' ELSE q \in Open' <=> q \in (Kept \union Arrived)'
      <3>1. CASE q = p
        <4>1. Waits(p)
          BY <1>1, <2>1 DEF CalmPrompts
        <4>2. Kept \subseteq Before
          BY DEF Kept
        <4>3. p \in Open' <=> p \in Kept \union Arrived
          BY <1>3, <2>3, <4>1, <4>2 DEF Waits, ForwardDue
        <4> QED
          BY <1>2, <2>2, <3>1, <4>3
      <3>2. CASE q # p /\ q \in frame.todo
        <4>1. Waits(q)
          BY <2>1, <3>2 DEF CalmPrompts
        <4>2. /\ q \in Open' <=> q \in Open
              /\ q \in stack' <=> q \in stack
              /\ q \in was' <=> q \in was
              /\ q \in dirty' <=> q \in dirty
          BY <1>1, <1>3, <3>2
        <4>3. Waits(q)'
          BY <1>2, <2>2, <2>3, <4>1, <4>2 DEF Waits
        <4> QED
          BY <1>2, <3>2, <4>3
      <3>3. CASE q # p /\ q \notin frame.todo
        BY <1>2, <1>3, <2>1, <2>2, <3>3 DEF CalmPrompts
      <3> QED
        BY <3>1, <3>2, <3>3
    <2> QED
      BY <2>6, <2>7, <2>8 DEF CalmPrompts
  <1> QED
    BY <1>4, <1>5 DEF EscapeInv, CalmInv

LEMMA BeginEscapes ==
    ASSUME IInv, EscapeInv, NEW keys \in KeyStrokes, NEW click \in Clicks \union {"none"},
           NEW reports \in SUBSET {"events", "status"}, BeginFrame(keys, click, reports)
    PROVE  EscapeInv'
  <1> DEFINE calm == keys = {"escape"} /\ click = "none" /\ InStep /\ ~input.late
             mirrors == Open \union dirty \union stack \union was
                        \union Touched(click, reports)
  <1>1. /\ click = "none" \/ click \in Clickable
        /\ UNCHANGED <<asked, open, dirty, stack, was, popups>>
    BY DEF BeginFrame
  <1>2. Open \subseteq Prompts
    BY PromptsAssumption DEF Open, EscapeInv, FrameType, Frames
  <1>3. mirrors \subseteq Prompts
    BY <1>2 DEF Touched, EscapeInv, FrameType, Frames
  <1>4. PICK w \in [calm : BOOLEAN, polled : BOOLEAN, open : SUBSET Prompts,
                    popups : SUBSET Popups, arrived : SUBSET Prompts] :
          /\ w.calm <=> calm
          /\ calm => /\ w.polled <=> "status" \in reports
                     /\ w.open = Open /\ w.popups = popups /\ w.arrived = {}
          /\ frame' = [todo |-> Due(keys, click, reports), keys |-> keys,
                       click |-> click, was |-> w]
    <2>1. CASE calm
      <3>1. PICK b \in BOOLEAN : b = ("status" \in reports)
        <4>1. CASE "status" \in reports
          <5>1. TRUE = ("status" \in reports)
            BY <4>1
          <5> QED
            BY <5>1
        <4>2. CASE "status" \notin reports
          <5>1. FALSE = ("status" \in reports)
            BY <4>2
          <5> QED
            BY <5>1
        <4> QED
          BY <4>1, <4>2
      <3>2. PICK w \in [calm : BOOLEAN, polled : BOOLEAN, open : SUBSET Prompts,
                        popups : SUBSET Popups, arrived : SUBSET Prompts] :
              w = [calm |-> TRUE, polled |-> b, open |-> Open, popups |-> popups,
                   arrived |-> {}]
        BY <1>2 DEF EscapeInv, FrameType, Frames
      <3>3. frame' = [todo |-> Due(keys, click, reports), keys |-> keys,
                      click |-> click, was |-> w]
        BY <2>1, <3>1, <3>2, Zenon DEF BeginFrame
      <3>4. /\ w.calm /\ w.polled = b /\ w.open = Open /\ w.popups = popups
            /\ w.arrived = {}
        BY <3>2
      <3> QED
        BY <2>1, <3>1, <3>3, <3>4
    <2>2. CASE ~calm
      <3>1. PICK w \in [calm : BOOLEAN, polled : BOOLEAN, open : SUBSET Prompts,
                        popups : SUBSET Popups, arrived : SUBSET Prompts] :
              w = Unwatched
        BY DEF Unwatched
      <3>2. frame' = [todo |-> Due(keys, click, reports), keys |-> keys,
                      click |-> click, was |-> w]
        BY <2>2, <3>1, Zenon DEF BeginFrame
      <3>3. ~w.calm
        BY <3>1 DEF Unwatched
      <3> HIDE DEF calm
      <3> QED
        BY <2>2, <3>2, <3>3
    <2> QED
      BY <2>1, <2>2
  <1>5. /\ mirrors \subseteq Due(keys, click, reports)
        /\ Due(keys, click, reports) \subseteq Systems
    BY <1>3 DEF Due, Systems, EscapeInv, FrameType, Frames
  <1>6. FrameType'
    <2>1. click = "submit" => "confirm" \in Prompts
      <3>1. ASSUME click = "submit", "confirm" \notin Prompts
            PROVE  FALSE
        <4>1. click \notin Prompts /\ click \notin Popups
          BY <3>1, PromptsAssumption DEF Popups
        <4> QED
          BY <1>1, <1>2, <3>1, <4>1 DEF Clickable, EscapeInv, FrameType, Frames
      <3> QED
        BY <3>1
    <2> QED
      BY <1>1, <1>4, <1>5, <2>1 DEF EscapeInv, FrameType, Frames
  <1>7. ASSUME Calm'
        PROVE  CalmSystems' /\ CalmPrompts' /\ CalmPopups'
    <2>1. calm /\ "status" \notin reports
      BY <1>4, <1>7 DEF Calm
    <2>2. /\ Before' = Open /\ Arrived' = {} /\ frame'.was.popups = popups
          /\ frame'.todo = Due(keys, click, reports)
      BY <1>4, <2>1 DEF Before, Arrived
    <2>3. stack = Open /\ was = Open /\ dirty \intersect Open = {}
      BY <2>1 DEF InStep
    <2>4. Open' = Open
      BY <1>1 DEF Open
    <2>5. /\ Due(keys, click, reports) \subseteq Prompts \union Popups \union
                                                {"events", "escape", "lifecycle"}
          /\ Open \subseteq Due(keys, click, reports)
      <3>1. reports \subseteq {"events"} /\ popups \subseteq Popups
        BY <2>1 DEF EscapeInv, FrameType, Frames
      <3>2. keys = {"escape"} /\ click = "none" /\ ~input.late
        BY <2>1
      <3>3. Due(keys, click, reports) \subseteq
              reports \union mirrors \union {"lifecycle", "escape"} \union popups
        BY <3>2 DEF Due
      <3>4. Open \subseteq mirrors
        OBVIOUS
      <3> HIDE DEF mirrors, calm
      <3> QED
        BY <1>3, <1>5, <3>1, <3>3, <3>4
    <2>6. CalmSystems'
      BY <1>1, <2>2, <2>3, <2>5 DEF CalmSystems
    <2>7. CalmPopups'
      BY <1>1, <2>2, <2>5 DEF CalmPopups
    <2>8. "escape" \in frame'.todo
      BY <2>1, <2>2 DEF Due
    <2>9. ASSUME NEW p \in Prompts
          PROVE  IF p \in frame'.todo THEN Waits(p)' ELSE p \in Open' <=> p \in (Kept \union Arrived)'
      <3>1. CASE p \in frame'.todo
        BY <1>1, <2>2, <2>3, <2>4, <2>8, <3>1 DEF Waits
      <3>2. CASE p \notin frame'.todo
        <4>1. p \notin Open
          BY <2>2, <2>5, <3>2
        <4> QED
          BY <2>2, <2>4, <3>2, <4>1 DEF Kept
      <3> QED
        BY <3>1, <3>2
    <2> QED
      BY <2>6, <2>7, <2>9 DEF CalmPrompts
  <1> QED
    BY <1>6, <1>7 DEF EscapeInv, CalmInv

\* A key, a click, a report or the timer: not in a calm frame.
LEMMA OthersEscape ==
    ASSUME EscapeInv,
           \/ StatusUpdate \/ SecretKeys \/ SecretTimeout \/ SecretClick
           \/ ConfirmClick \/ FormClick \/ ModifyKeys \/ ModifyClick
           \/ \E p \in Notices : NoticeClick(p)
           \/ MenuClick \/ RightClick \/ SettingsClick
    PROVE  EscapeInv'
  <1>1. /\ open \subseteq Prompts /\ dirty \subseteq Prompts /\ popups \subseteq Popups
        /\ "secret" \in Prompts /\ frame \in Frames
        /\ frame.click = "submit" => "confirm" \in Prompts
    BY PromptsAssumption DEF EscapeInv, FrameType, Frames
  <1> DEFINE Rest(s) ==
        /\ s \in frame.todo /\ frame'.was = frame.was /\ frame' \in Frames
        /\ frame'.click \in {frame.click, "none"}
        /\ UNCHANGED <<stack, was>>
        /\ open' \union dirty' \subseteq Prompts /\ popups' \subseteq Popups
  <1>2. ASSUME NEW s, Done(s), s \in frame.todo, UNCHANGED <<stack, was>>,
               open' \subseteq Prompts, dirty' \subseteq Prompts, popups' \subseteq Popups
        PROVE  Rest(s)
    BY <1>2, DoneIs DEF EscapeInv
  <1> HIDE DEF Rest
  <1>3. ASSUME NEW s \in {"status", "timeout", "secret_keys", "modify_keys",
                          "confirm_click", "click"}, Rest(s)
        PROVE  EscapeInv'
    BY <1>3, OtherKeeps DEF Rest
  <1>4. CASE StatusUpdate
    <2>1. /\ "status" \in frame.todo /\ Done("status")
          /\ UNCHANGED <<stack, was, popups>>
          /\ open' \subseteq Prompts /\ dirty' \subseteq Prompts
      BY <1>1, <1>4 DEF StatusUpdate, MayRun
    <2> QED
      BY <1>1, <1>2, <1>3, <2>1
  <1>5. CASE SecretKeys
    <2>1. /\ "secret_keys" \in frame.todo /\ UNCHANGED <<open, stack, was, popups>>
          /\ frame' = [frame EXCEPT !.todo = frame.todo \ {"secret_keys"},
                                    !.keys = IF asked = 0 THEN frame.keys ELSE {}]
      BY <1>5 DEF SecretKeys, MayRun
    <2>2. dirty' \subseteq Prompts
      BY <1>1, <1>5 DEF SecretKeys, SubmitSecret
    <2>3. PICK k \in KeyStrokes : k = IF asked = 0 THEN frame.keys ELSE {}
      BY <1>1 DEF Frames, KeyStrokes
    <2>4. frame' = [frame EXCEPT !.todo = frame.todo \ {"secret_keys"}, !.keys = k]
      BY <2>1, <2>3
    <2>5. frame' \in Frames /\ frame'.was = frame.was /\ frame'.click = frame.click
      BY <1>1, <2>4 DEF Frames
    <2>6. Rest("secret_keys")
      BY <1>1, <2>1, <2>2, <2>5 DEF Rest
    <2> QED
      BY <1>3, <2>6
  <1>6. CASE SecretTimeout
    <2>1. /\ "timeout" \in frame.todo /\ Done("timeout")
          /\ UNCHANGED <<open, stack, was, popups>> /\ dirty' \subseteq Prompts
      BY <1>1, <1>6 DEF SecretTimeout, MayRun, CancelSecret
    <2> QED
      BY <1>1, <1>2, <1>3, <2>1
  <1>7. CASE SecretClick
    <2>1. /\ "click" \in frame.todo /\ Done("click")
          /\ UNCHANGED <<open, stack, was, popups>> /\ dirty' \subseteq Prompts
      BY <1>1, <1>7 DEF SecretClick, MayRun, CancelSecret, SubmitSecret
    <2> QED
      BY <1>1, <1>2, <1>3, <2>1
  <1>8. CASE ConfirmClick
    <2>1. /\ "confirm_click" \in frame.todo /\ Done("confirm_click")
          /\ UNCHANGED <<stack, was, popups>>
          /\ open' \subseteq Prompts /\ dirty' \subseteq Prompts
      BY <1>1, <1>8 DEF ConfirmClick, MayRun, Writes
    <2> QED
      BY <1>1, <1>2, <1>3, <2>1
  <1>9. CASE FormClick
    <2>1. /\ "click" \in frame.todo /\ Done("click")
          /\ UNCHANGED <<stack, was, popups>>
          /\ open' \subseteq Prompts /\ dirty' \subseteq Prompts
      BY <1>1, <1>9 DEF FormClick, MayRun, Writes
    <2> QED
      BY <1>1, <1>2, <1>3, <2>1
  <1>10. CASE ModifyKeys
    <2>1. /\ "modify_keys" \in frame.todo /\ Done("modify_keys")
          /\ UNCHANGED <<stack, was, popups>>
          /\ open' \subseteq Prompts /\ dirty' \subseteq Prompts
      BY <1>1, <1>10 DEF ModifyKeys, MayRun, Writes
    <2> QED
      BY <1>1, <1>2, <1>3, <2>1
  <1>11. CASE ModifyClick
    <2>1. /\ "click" \in frame.todo /\ Done("click")
          /\ UNCHANGED <<stack, was, popups>>
          /\ open' \subseteq Prompts /\ dirty' \subseteq Prompts
      BY <1>1, <1>11 DEF ModifyClick, MayRun, Writes
    <2> QED
      BY <1>1, <1>2, <1>3, <2>1
  <1>12. ASSUME NEW p \in Notices, NoticeClick(p)
         PROVE  EscapeInv'
    <2>1. /\ "click" \in frame.todo /\ Done("click")
          /\ UNCHANGED <<stack, was, popups>>
          /\ open' \subseteq Prompts /\ dirty' \subseteq Prompts
      BY <1>1, <1>12 DEF NoticeClick, MayRun, Writes
    <2> QED
      BY <1>1, <1>2, <1>3, <2>1
  <1>13. CASE MenuClick
    <2>1. /\ "click" \in frame.todo /\ Done("click")
          /\ UNCHANGED <<stack, was>> /\ popups' \subseteq Popups
          /\ open' \subseteq Prompts /\ dirty' \subseteq Prompts
      BY <1>1, <1>13 DEF MenuClick, MayRun, Writes
    <2> QED
      BY <1>2, <1>3, <2>1
  <1>14. CASE RightClick \/ SettingsClick
    <2>1. /\ "click" \in frame.todo /\ Done("click")
          /\ UNCHANGED <<open, dirty, stack, was>> /\ popups' \subseteq Popups
      BY <1>1, <1>14 DEF RightClick, SettingsClick, MayRun, Popups
    <2> QED
      BY <1>1, <1>2, <1>3, <2>1
  <1> QED
    BY <1>4, <1>5, <1>6, <1>7, <1>8, <1>9, <1>10, <1>11, <1>12, <1>13, <1>14

LEMMA InitEscapes == Init => EscapeInv
  <1> SUFFICES ASSUME Init PROVE EscapeInv
    OBVIOUS
  <1>1. /\ open = {} /\ dirty = {} /\ stack = {} /\ was = {} /\ popups = {}
        /\ frame = [todo |-> {}, keys |-> {}, click |-> "none", was |-> Unwatched]
    BY DEF Init, Idle
  <1>2. Unwatched \in [calm : BOOLEAN, polled : BOOLEAN, open : SUBSET Prompts,
                       popups : SUBSET Popups, arrived : SUBSET Prompts]
          /\ ~Unwatched.calm
    BY DEF Unwatched
  <1> QED
    BY <1>1, <1>2 DEF EscapeInv, FrameType, Frames, CalmInv, Calm, KeyStrokes

LEMMA NextEscapes == IInv /\ EscapeInv /\ [Next]_vars => EscapeInv'
  <1> SUFFICES ASSUME IInv, EscapeInv, [Next]_vars PROVE EscapeInv'
    OBVIOUS
  <1>1. CASE NextFrame
    BY <1>1, BeginEscapes DEF NextFrame
  <1>2. CASE Elapse
    BY <1>2, EscapeElse DEF Elapse
  <1>3. CASE BackendEvents
    BY <1>3, EventsEscape
  <1>4. CASE EscapeKey
    BY <1>4, EscapeKeyKeeps
  <1>5. ASSUME NEW p \in Prompts, Mirror(p)
        PROVE  EscapeInv'
    BY <1>5, MirrorEscapes
  <1>6. ASSUME NEW w \in Popups, PopupKey(w)
        PROVE  EscapeInv'
    BY <1>6, PopupKeeps
  <1>7. CASE SecretLifecycle
    BY <1>7, LifecycleEscapes
  <1>8. CASE \/ StatusUpdate \/ SecretKeys \/ SecretTimeout \/ SecretClick
             \/ ConfirmClick \/ FormClick \/ ModifyKeys \/ ModifyClick
             \/ \E p \in Notices : NoticeClick(p)
             \/ MenuClick \/ RightClick \/ SettingsClick
    BY <1>8, OthersEscape
  <1>9. CASE UNCHANGED vars
    BY <1>9, EscapeElse DEF vars
  <1> QED
    BY <1>1, <1>2, <1>3, <1>4, <1>5, <1>6, <1>7, <1>8, <1>9 DEF Next, SystemStep

\* One Escape closes exactly the prompt of the highest priority, for any of the
\* prompts and whatever order the systems of the frame run in; what a report
\* of the frame opens stays open.
THEOREM EscapeAlwaysTakesFront == Spec => []EscapeTakesFront
  <1>1. IInv /\ EscapeInv => EscapeTakesFront
    <2> SUFFICES ASSUME IInv, EscapeInv, frame.todo = {}, Calm
                 PROVE  /\ Open = (IF Before = {} THEN {} ELSE Before \ {Front(Before)})
                                  \union Arrived
                        /\ Before \intersect {"secret", "modify"} # {} =>
                              popups = frame.was.popups
      BY DEF EscapeTakesFront, Calm, Before, Arrived
    <2>1. CalmPrompts /\ CalmPopups
      BY DEF EscapeInv, CalmInv
    <2>2. /\ Open \subseteq Prompts /\ Before \subseteq Prompts /\ Arrived \subseteq Prompts
      BY PromptsAssumption DEF Open, Before, Arrived, EscapeInv, FrameType, Frames
    <2>3. \A p \in Prompts : p \in Open <=> p \in Kept \union Arrived
      BY <2>1 DEF CalmPrompts
    <2>4. Kept \subseteq Prompts
      BY <2>2 DEF Kept
    <2>5. Open = Kept \union Arrived
      BY <2>2, <2>3, <2>4
    <2> QED
      BY <2>1, <2>5 DEF Kept, CalmPopups
  <1>2. IInv /\ [Next]_vars => IInv'
    BY NextKeeps
  <1> QED
    BY <1>1, <1>2, InitIInv, InitEscapes, NextEscapes, PTL DEF Spec
=============================================================================
