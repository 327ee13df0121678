--------------------------- MODULE OrderRowsProofs ---------------------------
(***************************************************************************)
(* Proofs about OrderRows, for every quantity, every set of quantities it  *)
(* may be changed to, and any number of reconnects and failing callbacks.  *)
(***************************************************************************)
EXTENDS OrderRows, TLAPS

-----------------------------------------------------------------------------
(* Type correctness needs to know that an event is only pushed for an      *)
(* answer, that the answer to a PlaceOrder tells the quantity, and that    *)
(* the venue fills no more than the order.                                 *)

PushedAnswered == \A k \in Rpc : pc[k] = "pushed" => result[k] # None

PlaceQty ==
    \A i \in 1 .. Len(updates) : updates[i].rpc = "place" => updates[i].qty # None

TypeInv ==
    /\ TypeOK
    /\ PushedAnswered
    /\ PlaceQty
    /\ venue.filled <= venue.qty

-----------------------------------------------------------------------------
(* The invariant.                                                          *)

(* A request is sent when its RPC asks, and the order is the venue's only  *)
(* from its acceptance on.                                                 *)
Requests ==
    /\ \A k \in Rpc : pc[k] = "idle" => reply[k] = "none"
    /\ reply["place"] \in {"none", "sent"} => venue.state = "none"
    /\ \A k \in Rpc : reply[k] = "ok" => venue.state # "none"
    /\ venue.state = "none" => venue.qty = 0 /\ venue.filled = 0 /\ log = <<>>
    /\ ref # None => venue.state # "none"

(* No source of what will be told says Closed before the venue does.       *)
ClosedSource ==
    venue.state \notin Closed =>
        /\ \A n \in 1 .. Len(log) : EcStatus(log[n]) \notin Closed
        /\ reply["cancel"] # "ok"
        /\ \A k \in Rpc : result[k] \notin Closed
        /\ facade \notin Closed

ClosedTold ==
    venue.state \notin Closed =>
        /\ \A i \in 1 .. Len(events) : events[i].status \notin Closed
        /\ \A i \in 1 .. Len(updates) : updates[i].status \notin Closed
        /\ \A i \in RowId : rows[i] # None => rows[i].status \notin Closed

(* The quantities the venue and the adapter go by.                         *)
Quantities ==
    /\ venue.state # "none" /\ reply["modify"] # "ok" => venue.qty = Qty
    /\ reply["modify"] = "ok" /\ newQty # None => venue.qty = newQty
    /\ reply["modify"] = "ok" /\ newQty = None => venue.qty = Qty
    /\ ref # None /\ venue.qty = Qty => ref = Qty

(* What the frames report of an order whose quantity is the first one.     *)
Frames ==
    \A n \in 1 .. Len(log) :
        /\ log[n].trade <= venue.filled
        /\ log[n].last <= log[n].trade
        /\ venue.qty = Qty /\ log[n].leaves # None =>
               log[n].leaves + log[n].trade = Qty

FillTold ==
    venue.qty = Qty \/ venue.state = "none" =>
        /\ \A i \in 1 .. Len(events) : events[i].filled <= venue.filled
        /\ \A i \in RowId : rows[i] # None => rows[i].filled <= venue.filled

(* A frame on its way has been marked as seen.                             *)
FramesSeen ==
    \A i \in 1 .. Len(events) : events[i].frame # 0 =>
        /\ events[i].frame \in 1 .. Len(log)
        /\ KeyOf(log[events[i].frame]) \in seen

SeededRow == Seeded => rows["order"] # None /\ rows["order"].manual

IInv ==
    /\ TypeInv
    /\ Requests
    /\ ClosedSource
    /\ ClosedTold
    /\ Quantities
    /\ Frames
    /\ FillTold
    /\ FramesSeen
    /\ FrameOnce
    /\ SeededRow

-----------------------------------------------------------------------------
(* What the helpers return.                                                *)

LEMMA EcStatusType ==
    ASSUME NEW f \in Frame
    PROVE  EcStatus(f) \in OrderStatus
<1>1. CASE f.type = "canceled"
  BY <1>1 DEF EcStatus, OrderStatus, Closed
<1>2. CASE f.type = "expired"
  BY <1>2 DEF EcStatus, OrderStatus, Closed
<1>3. CASE f.type = "filled"
  BY <1>3 DEF EcStatus, OrderStatus, Closed
<1>4. CASE f.type = "received"
  BY <1>4 DEF EcStatus, OrderStatus, Closed
<1> QED
  BY <1>1, <1>2, <1>3, <1>4 DEF Frame, Notice

LEMMA FillOfType ==
    ASSUME ref \in Nat \cup {None}, NEW f \in Frame
    PROVE  FillOf(f) \in Nat
BY DEF FillOf, Frame

LEMMA EventOfType ==
    ASSUME TypeOK, NEW n \in 1 .. Len(log)
    PROVE  /\ EventOf(n) \in Event
           /\ EventOf(n).status = EcStatus(log[n])
           /\ EventOf(n).filled = FillOf(log[n])
           /\ EventOf(n).frame = n
<1>1. log[n] \in Frame /\ ref \in Nat \cup {None}
  BY DEF TypeOK
<1>2. n \in Nat /\ EcStatus(log[n]) \in OrderStatus /\ FillOf(log[n]) \in Nat
  BY <1>1, EcStatusType, FillOfType
<1> QED
  BY <1>2 DEF EventOf, Event, RowId

LEMMA AdvanceFillType ==
    ASSUME NEW old \in Nat, NEW filled \in Nat
    PROVE  /\ AdvanceFill(old, filled) \in {old, filled}
           /\ AdvanceFill(old, filled) >= old
           /\ AdvanceFill(old, filled) >= filled
BY DEF AdvanceFill

(* An event leaves a row with its status, a fill that is an old or the new *)
(* one and not smaller than the old one, and the tag, if there was one.    *)
LEMMA ApplyEventRow ==
    ASSUME NEW row \in Row \cup {None}, NEW status \in OrderStatus,
           NEW filled \in Nat, NEW manual \in BOOLEAN
    PROVE  LET new == ApplyEvent(row, status, filled, manual)
           IN  /\ new \in Row
               /\ new.status = status
               /\ new.filled = filled \/ (row # None /\ new.filled = row.filled)
               /\ row # None => new.filled >= row.filled
               /\ row # None /\ row.manual => new.manual
<1> DEFINE new == ApplyEvent(row, status, filled, manual)
<1>1. CASE row = None
  BY <1>1 DEF ApplyEvent, Row
<1>2. CASE row # None
  <2>1. row \in Row /\ row.filled \in Nat
    BY <1>2 DEF Row
  <2>2. /\ AdvanceFill(row.filled, filled) \in {row.filled, filled}
        /\ AdvanceFill(row.filled, filled) >= row.filled
    BY <2>1, AdvanceFillType
  <2>3. new = [row EXCEPT !.status = status,
                          !.filled = AdvanceFill(row.filled, filled),
                          !.manual = row.manual \/ manual]
    BY <1>2, <2>1 DEF ApplyEvent, Row
  <2> QED
    BY <1>2, <2>1, <2>2, <2>3 DEF Row
<1> QED
  BY <1>1, <1>2

(* An update other than PlaceOrder's keeps a row and its tag, and its fill *)
(* does not decrease.                                                      *)
LEMMA ApplyUpdateRow ==
    ASSUME NEW row \in Row \cup {None}, NEW u \in Update,
           u.rpc = "place" => u.qty # None,
           NEW new, new = ApplyUpdate(row, u)
    PROVE  /\ new \in Row \cup {None}
           /\ new # None => new.status = u.status
           /\ new # None => new.filled = 0 \/ (row # None /\ new.filled = row.filled)
           /\ u.rpc = "place" => new # None /\ new.manual
           /\ u.rpc # "place" /\ row # None =>
                 new # None /\ new.filled >= row.filled /\ (row.manual => new.manual)
<1> USE NoneAssumption
<1>1. u.status \in OrderStatus /\ u.qty \in Nat \cup {None} /\ u.rpc \in Rpc
  BY DEF Update
<1>2. CASE u.rpc = "place"
  <2>1. new = [status |-> u.status, filled |-> 0, qty |-> u.qty, manual |-> TRUE]
    BY <1>2 DEF ApplyUpdate
  <2>2. u.qty \in Nat
    BY <1>1, <1>2
  <2>3. new \in Row /\ new.status = u.status /\ new.filled = 0 /\ new.manual
    BY <1>1, <2>1, <2>2 DEF Row
  <2> QED
    BY <1>2, <2>3
<1>3. CASE u.rpc = "cancel"
  <2>1. \E manual \in BOOLEAN : new = ApplyEvent(row, u.status, 0, manual)
    <3>1. new = ApplyEvent(row, u.status, 0, FALSE)
      BY <1>3 DEF ApplyUpdate
    <3> QED
      BY <3>1, Zenon
  <2>2. /\ new \in Row
        /\ new.status = u.status
        /\ new.filled = 0 \/ (row # None /\ new.filled = row.filled)
        /\ row # None => new.filled >= row.filled
        /\ row # None /\ row.manual => new.manual
    BY <1>1, <2>1, ApplyEventRow
  <2> QED
    BY <1>3, <2>2
<1>4. CASE u.rpc = "modify" /\ row = None
  BY <1>4 DEF ApplyUpdate
<1>5. CASE u.rpc = "modify" /\ row # None
  <2>1. row \in Row /\ row.filled \in Nat
    BY <1>5 DEF Row
  <2>2. /\ AdvanceFill(row.filled, 0) \in {row.filled, 0}
        /\ AdvanceFill(row.filled, 0) >= row.filled
    BY <2>1, AdvanceFillType
  <2>3. new = [row EXCEPT !.status = u.status,
                          !.filled = AdvanceFill(row.filled, 0),
                          !.qty = IF u.qty = None THEN row.qty ELSE u.qty]
    BY <1>5, <2>1 DEF ApplyUpdate, Row
  <2> DEFINE fill == AdvanceFill(row.filled, 0)
             qty == IF u.qty = None THEN row.qty ELSE u.qty
  <2>7. fill \in Nat /\ qty \in Nat
    BY <1>1, <2>1, <2>2 DEF Row
  <2> HIDE DEF fill, qty
  <2>8. new = [row EXCEPT !.status = u.status, !.filled = fill, !.qty = qty]
    BY <2>3 DEF fill, qty
  <2>4. new \in Row /\ new.status = u.status /\ new.manual = row.manual
    BY <1>1, <2>1, <2>7, <2>8 DEF Row
  <2>5. new.filled = AdvanceFill(row.filled, 0)
    BY <2>1, <2>8 DEF Row, fill
  <2>6. new.filled \in {row.filled, 0} /\ new.filled >= row.filled
    BY <2>2, <2>5
  <2> QED
    BY <1>5, <2>4, <2>6
<1> QED
  BY <1>1, <1>2, <1>3, <1>4, <1>5 DEF Rpc

-----------------------------------------------------------------------------
(* Types.                                                                  *)

LEMMA TypeInit == Init => TypeInv
<1> SUFFICES ASSUME Init PROVE TypeInv
  OBVIOUS
<1> USE OrderAssumption DEF Init
<1>1. venue \in [state : {"none", "open"} \cup Closed, qty : Nat, filled : Nat]
  OBVIOUS
<1>2. reply \in [Rpc -> Reply] /\ pc \in [Rpc -> RpcStep]
  BY DEF Reply, RpcStep
<1>3. pos \in 0 .. Len(log) /\ faults \in 0 .. MaxFaults
  OBVIOUS
<1>4. log \in Seq(Frame) /\ events \in Seq(Event) /\ updates \in Seq(Update)
  OBVIOUS
<1>5. PushedAnswered /\ PlaceQty /\ venue.filled <= venue.qty
  BY DEF PushedAnswered, PlaceQty
<1> QED
  BY <1>1, <1>2, <1>3, <1>4, <1>5 DEF TypeInv, TypeOK

LEMMA TypeWorker ==
    ASSUME TypeInv, WorkerStep
    PROVE  TypeInv'
<1> USE OrderAssumption, NoneAssumption DEF TypeInv, TypeOK, PushedAnswered, PlaceQty
<1> DEFINE Asked(k) == Ask(k) /\ newQty' \in NewQty \cup {None}
<1>1. ASSUME NEW k \in Rpc, Asked(k)
      PROVE  TypeInv'
  BY <1>1 DEF Ask, RpcStep, Reply, streamVars, uiVars
<1>2. ASSUME NEW k \in Rpc, PushEvent(k)
      PROVE  TypeInv'
  <2>1. [row |-> "order", status |-> result[k], filled |-> 0, manual |-> TRUE,
         frame |-> 0] \in Event
    BY <1>2 DEF PushEvent, Event, RowId
  <2>2. events' \in Seq(Event)
    BY <1>2, <2>1 DEF PushEvent
  <2> QED
    BY <1>2, <2>2 DEF PushEvent, RpcStep, venueVars, streamVars, uiVars
<1>3. ASSUME NEW k \in Rpc, SendUpdate(k)
      PROVE  TypeInv'
  <2> DEFINE u == [rpc |-> k, status |-> result[k],
                   qty |-> CASE k = "place"  -> Qty
                             [] k = "modify" -> newQty
                             [] k = "cancel" -> None]
  <2>1. updates' = Append(updates, u)
    BY <1>3 DEF SendUpdate
  <2>2. result[k] \in OrderStatus
    BY <1>3 DEF SendUpdate
  <2>3. u.qty \in Nat \cup {None} /\ (k = "place" => u.qty # None)
    BY DEF Rpc
  <2>4. u \in Update
    BY <2>2, <2>3 DEF Update
  <2> HIDE DEF u
  <2>5. u.rpc = k
    BY DEF u
  <2>6. updates' \in Seq(Update) /\ PlaceQty'
    BY <2>1, <2>3, <2>4, <2>5
  <2> QED
    BY <1>3, <2>6 DEF SendUpdate, RpcStep, venueVars, streamVars
<1>4. ASSUME NEW k \in Rpc, SendError(k) \/ GiveUp(k)
      PROVE  TypeInv'
  BY <1>4 DEF SendError, GiveUp, RpcStep, venueVars, streamVars, uiVars
<1> QED
  BY <1>1, <1>2, <1>3, <1>4
     DEF WorkerStep, SendPlace, SendCancel, SendModify, Rpc

LEMMA TypeLoop ==
    ASSUME TypeInv, LoopStep
    PROVE  TypeInv'
<1> USE OrderAssumption, NoneAssumption DEF TypeInv, TypeOK, PushedAnswered, PlaceQty
<1>1. ASSUME PlaceAnswered \/ CancelAnswered \/ ModifyAnswered
      PROVE  TypeInv'
  <2> USE DEF RpcStep, Rpc, venueVars, streamVars, uiVars
  <2>1. {"ACCEPTED", "REJECTED", "CANCELED"} \subseteq OrderStatus
    BY DEF OrderStatus, Closed
  <2>2. CASE PlaceAnswered
    <3>1. PICK status \in {"ACCEPTED", "REJECTED"} :
            /\ ref' = IF status = "ACCEPTED" THEN Qty ELSE ref
            /\ facade' = status
            /\ result' = [result EXCEPT !["place"] = status]
      BY <2>2 DEF PlaceAnswered
    <3> QED
      BY <2>1, <2>2, <3>1 DEF PlaceAnswered
  <2>3. CASE CancelAnswered
    BY <2>1, <2>3 DEF CancelAnswered
  <2>4. CASE ModifyAnswered
    BY <2>1, <2>4 DEF ModifyAnswered
  <2> QED
    BY <1>1, <2>2, <2>3, <2>4
<1>2. ASSUME NEW k \in Rpc, RequestFails(k)
      PROVE  TypeInv'
  BY <1>2 DEF RequestFails, RpcStep, venueVars, streamVars, uiVars
<1>3. CASE SkipFrame \/ CallbackRaises \/ Reconnect
  BY <1>3 DEF SkipFrame, CallbackRaises, Reconnect, venueVars, rpcVars, uiVars
<1>4. CASE ReadFrame
  <2>1. pos + 1 \in 1 .. Len(log) /\ log[pos + 1] \in Frame
    BY <1>4 DEF ReadFrame
  <2>2. EventOf(pos + 1) \in Event
    BY <2>1, EventOfType
  <2>3. KeyOf(log[pos + 1]) \in Key
    BY <2>1 DEF KeyOf, Key, Frame
  <2> QED
    BY <1>4, <2>1, <2>2, <2>3 DEF ReadFrame, venueVars, rpcVars, uiVars
<1> QED
  BY <1>1, <1>2, <1>3, <1>4 DEF LoopStep

LEMMA TellType ==
    ASSUME log \in Seq(Frame), NEW type \in Notice, NEW v, Tell(type, v),
           v.qty \in Nat, v.filled \in Nat, v.filled <= v.qty
    PROVE  /\ log' \in Seq(Frame)
           /\ Len(log') = Len(log) + 1
           /\ \A n \in 1 .. Len(log) : log'[n] = log[n]
           /\ log'[Len(log')].type = type
           /\ log'[Len(log')].trade = v.filled
           /\ log'[Len(log')].last = 0
           /\ log'[Len(log')].leaves \in {None, v.qty - v.filled}
<1>1. PICK l \in {None, v.qty - v.filled} :
         log' = Append(log, [type |-> type, trade |-> v.filled, last |-> 0,
                             leaves |-> l])
  BY DEF Tell
<1>2. l \in Nat \cup {None}
  OBVIOUS
<1> DEFINE f == [type |-> type, trade |-> v.filled, last |-> 0, leaves |-> l]
<1>3. f \in Frame /\ f.type = type /\ f.trade = v.filled /\ f.last = 0 /\ f.leaves = l
  BY <1>2 DEF Frame
<1> HIDE DEF f
<1>4. log' = Append(log, f)
  BY <1>1 DEF f
<1> QED
  BY <1>3, <1>4

LEMMA TellGrows ==
    ASSUME log \in Seq(Frame), NEW type \in Notice, NEW v, Tell(type, v),
           v.qty \in Nat, v.filled \in Nat, v.filled <= v.qty
    PROVE  log' \in Seq(Frame) /\ Len(log') >= Len(log)
<1>1. log' \in Seq(Frame) /\ Len(log') = Len(log) + 1
  BY TellType
<1> QED
  BY <1>1

LEMMA TypeVenue ==
    ASSUME TypeInv, VenueStep
    PROVE  TypeInv'
<1> USE OrderAssumption, NoneAssumption
<1> DEFINE Rest == <<streamVars, ref, facade, rpcVars, events, uiVars>>
<1> DEFINE Moved ==
             /\ venue' \in [state : {"none", "open"} \cup Closed, qty : Nat, filled : Nat]
             /\ venue'.filled <= venue'.qty
             /\ log' \in Seq(Frame) /\ Len(log') >= Len(log)
             /\ reply' \in [Rpc -> Reply]
             /\ UNCHANGED Rest
<1>1. SUFFICES Moved
  <2>1. SUFFICES ASSUME Moved PROVE TypeInv'
    OBVIOUS
  <2>2. UNCHANGED <<pos, seen, faults, ref, facade, pc, result, newQty, serving,
                    events, updates, rows>>
    BY <2>1 DEF streamVars, rpcVars, uiVars
  <2>3. pos' \in 0 .. Len(log')
    BY <2>1, <2>2 DEF TypeInv, TypeOK
  <2>4. TypeOK'
    BY <2>1, <2>2, <2>3 DEF TypeInv, TypeOK
  <2>5. PushedAnswered' /\ PlaceQty'
    BY <2>2 DEF TypeInv, PushedAnswered, PlaceQty
  <2> QED
    BY <2>1, <2>4, <2>5 DEF TypeInv
<1>2. /\ venue \in [state : {"none", "open"} \cup Closed, qty : Nat, filled : Nat]
      /\ venue.qty \in Nat /\ venue.filled \in Nat /\ venue.filled <= venue.qty
      /\ log \in Seq(Frame) /\ reply \in [Rpc -> Reply]
      /\ newQty \in Nat \cup {None}
  BY DEF TypeInv, TypeOK
<1>3. ASSUME NEW k \in Rpc, NEW r \in {"ok", "incomplete", "rejected"}, Answer(k, r)
      PROVE  reply' \in [Rpc -> Reply] /\ UNCHANGED Rest
  BY <1>2, <1>3 DEF Answer, Reply
<1>4. CASE VenueAccept
  <2>1. PICK r \in {"ok", "incomplete"} : Answer("place", r)
    BY <1>4 DEF VenueAccept
  <2>2. venue' = [state |-> "open", qty |-> Qty, filled |-> 0]
    BY <1>4 DEF VenueAccept
  <2>3. Tell("received", venue')
    BY <1>4 DEF VenueAccept
  <2>4. /\ venue' \in [state : {"none", "open"} \cup Closed, qty : Nat, filled : Nat]
        /\ venue'.qty \in Nat /\ venue'.filled \in Nat /\ venue'.filled <= venue'.qty
    BY <2>2
  <2>5. log' \in Seq(Frame) /\ Len(log') >= Len(log)
    BY <1>2, <2>3, <2>4, TellGrows DEF Notice
  <2>6. reply' \in [Rpc -> Reply] /\ UNCHANGED Rest
    BY <1>3, <2>1 DEF Rpc
  <2> QED
    BY <2>4, <2>5, <2>6
<1>5. CASE VenueFill
  <2>1. PICK n \in 1 .. venue.qty - venue.filled :
          /\ venue' = [venue EXCEPT !.filled = venue.filled + n,
                         !.state = IF venue.filled + n = venue.qty THEN "FILLED" ELSE @]
          /\ log' = Append(log, [type |-> "filled", trade |-> venue.filled + n,
                                 last |-> n, leaves |-> venue.qty - (venue.filled + n)])
    BY <1>5 DEF VenueFill
  <2>2. [type |-> "filled", trade |-> venue.filled + n, last |-> n,
         leaves |-> venue.qty - (venue.filled + n)] \in Frame
    BY <1>2 DEF Frame, Notice
  <2>3. log' \in Seq(Frame) /\ Len(log') >= Len(log)
    BY <1>2, <2>1, <2>2
  <2> DEFINE total == venue.filled + n
             state == IF total = venue.qty THEN "FILLED" ELSE venue.state
  <2>6. total \in Nat /\ total <= venue.qty /\ state \in {"none", "open"} \cup Closed
    BY <1>2 DEF Closed
  <2>7. venue' = [venue EXCEPT !.filled = total, !.state = state]
    BY <2>1
  <2> HIDE DEF total, state
  <2>4. /\ venue' \in [state : {"none", "open"} \cup Closed, qty : Nat, filled : Nat]
        /\ venue'.filled <= venue'.qty
    BY <1>2, <2>6, <2>7
  <2>5. reply' = reply /\ UNCHANGED Rest
    BY <1>5 DEF VenueFill
  <2> QED
    BY <1>2, <2>3, <2>4, <2>5
<1>6. CASE VenueExpire
  <2>1. Tell("expired", venue) /\ venue' = [venue EXCEPT !.state = "EXPIRED"]
    BY <1>6 DEF VenueExpire
  <2>2. log' \in Seq(Frame) /\ Len(log') >= Len(log)
    BY <1>2, <2>1, TellGrows DEF Notice
  <2> QED
    BY <1>2, <1>6, <2>1, <2>2 DEF VenueExpire, Closed
<1>7. CASE VenueCancel
  <2>1. Tell("canceled", venue) /\ venue' = [venue EXCEPT !.state = "CANCELED"]
    BY <1>7 DEF VenueCancel
  <2>2. Answer("cancel", "ok")
    BY <1>7 DEF VenueCancel
  <2>3. log' \in Seq(Frame) /\ Len(log') >= Len(log)
    BY <1>2, <2>1, TellGrows DEF Notice
  <2>4. reply' \in [Rpc -> Reply] /\ UNCHANGED Rest
    BY <1>3, <2>2 DEF Rpc
  <2> QED
    BY <1>2, <2>1, <2>3, <2>4 DEF Closed
<1>8. CASE VenueModify
  <2>1. venue' = [venue EXCEPT !.qty = IF newQty = None THEN @ ELSE newQty]
    BY <1>8 DEF VenueModify
  <2>2. Answer("modify", "ok")
    BY <1>8 DEF VenueModify
  <2> DEFINE qty == IF newQty = None THEN venue.qty ELSE newQty
  <2>3. qty \in Nat /\ venue.filled <= qty
    BY <1>2, <1>8 DEF VenueModify
  <2>4. venue' = [venue EXCEPT !.qty = qty]
    BY <2>1
  <2> HIDE DEF qty
  <2>5. /\ venue' \in [state : {"none", "open"} \cup Closed, qty : Nat, filled : Nat]
        /\ venue'.qty \in Nat /\ venue'.filled \in Nat /\ venue'.filled <= venue'.qty
    BY <1>2, <2>3, <2>4
  <2>6. UNCHANGED log \/ Tell("received", venue')
    BY <1>8 DEF VenueModify
  <2>7. log' \in Seq(Frame) /\ Len(log') >= Len(log)
    <3>1. CASE UNCHANGED log
      BY <1>2, <3>1
    <3>2. CASE Tell("received", venue')
      BY <1>2, <2>5, <3>2, TellGrows DEF Notice
    <3> QED
      BY <2>6, <3>1, <3>2
  <2>8. reply' \in [Rpc -> Reply] /\ UNCHANGED Rest
    BY <1>3, <2>2 DEF Rpc
  <2> QED
    BY <2>5, <2>7, <2>8
<1>9. ASSUME NEW k \in Rpc, VenueRefuse(k)
      PROVE  /\ UNCHANGED <<venue, log, Rest>> /\ reply' \in [Rpc -> Reply]
  BY <1>3, <1>9 DEF VenueRefuse
<1> QED
  BY <1>1, <1>2, <1>4, <1>5, <1>6, <1>7, <1>8, <1>9 DEF VenueStep

LEMMA TypeUI ==
    ASSUME TypeInv, UIStep
    PROVE  TypeInv'
<1> USE OrderAssumption, NoneAssumption DEF TypeInv, TypeOK, PushedAnswered, PlaceQty
<1>1. CASE DrainEvent
  <2> DEFINE e == Head(events)
  <2>1. e \in Event /\ events' = Tail(events) /\ events' \in Seq(Event)
    BY <1>1 DEF DrainEvent
  <2>2. rows[e.row] \in Row \cup {None} /\ e.row \in RowId
    BY <2>1 DEF Event
  <2>5. e.status \in OrderStatus /\ e.filled \in Nat /\ e.manual \in BOOLEAN
    BY <2>1 DEF Event
  <2>3. ApplyEvent(rows[e.row], e.status, e.filled, e.manual) \in Row
    BY <2>2, <2>5, ApplyEventRow
  <2>4. rows' = [rows EXCEPT ![e.row] = ApplyEvent(rows[e.row], e.status, e.filled, e.manual)]
    BY <1>1, <2>2 DEF DrainEvent
  <2> QED
    BY <1>1, <2>1, <2>2, <2>3, <2>4 DEF DrainEvent, venueVars, streamVars, rpcVars
<1>2. CASE DrainUpdate
  <2> DEFINE u == Head(updates)
  <2>1. u \in Update /\ updates' = Tail(updates) /\ updates' \in Seq(Update)
        /\ (u.rpc = "place" => u.qty # None) /\ PlaceQty'
    BY <1>2 DEF DrainUpdate
  <2>2. "order" \in RowId /\ rows["order"] \in Row \cup {None}
    BY DEF RowId
  <2>3. ApplyUpdate(rows["order"], u) \in Row \cup {None}
    BY <2>1, <2>2, ApplyUpdateRow
  <2>4. rows' = [rows EXCEPT !["order"] = ApplyUpdate(rows["order"], u)]
    BY <1>2, <2>2 DEF DrainUpdate
  <2> QED
    BY <1>2, <2>1, <2>2, <2>3, <2>4 DEF DrainUpdate, venueVars, streamVars, rpcVars
<1> QED
  BY <1>1, <1>2 DEF UIStep

LEMMA TypeStutter ==
    ASSUME TypeInv, UNCHANGED vars
    PROVE  TypeInv'
BY DEF TypeInv, TypeOK, PushedAnswered, PlaceQty, vars, venueVars, streamVars,
       rpcVars, uiVars

(* Every variable of OrderRows keeps its type: above all, no fill and no   *)
(* quantity left of the order is ever negative, and a seeded row has a     *)
(* quantity.                                                               *)
THEOREM TypeCorrect == Spec => []TypeOK
<1>1. TypeInv /\ [Next]_vars => TypeInv'
  BY TypeWorker, TypeLoop, TypeVenue, TypeUI, TypeStutter DEF Next
<1>2. TypeInv => TypeOK
  BY DEF TypeInv
<1> QED
  BY TypeInit, <1>1, <1>2, PTL DEF Spec
-----------------------------------------------------------------------------
(* Who changes what.                                                       *)

LEMMA LogKept ==
    ASSUME TypeInv, [Next]_vars
    PROVE  /\ Len(log') >= Len(log)
           /\ \A n \in 1 .. Len(log) : log'[n] = log[n]
<1> USE NoneAssumption
<1>1. log \in Seq(Frame) /\ venue.qty \in Nat /\ venue.filled \in Nat /\ venue.filled <= venue.qty
  BY DEF TypeInv, TypeOK
<1>2. ASSUME NEW f, log' = Append(log, f)
      PROVE  Len(log') >= Len(log) /\ \A n \in 1 .. Len(log) : log'[n] = log[n]
  BY <1>1, <1>2
<1>3. CASE VenueAccept \/ VenueExpire \/ VenueCancel
  BY <1>2, <1>3 DEF VenueAccept, VenueExpire, VenueCancel, Tell
<1>4. CASE VenueFill
  BY <1>2, <1>4 DEF VenueFill
<1>5. CASE VenueModify
  BY <1>2, <1>5 DEF VenueModify, Tell
<1>6. CASE UNCHANGED log
  BY <1>6
<1>7. CASE WorkerStep
  BY <1>6, <1>7 DEF WorkerStep, SendPlace, SendCancel, SendModify, Ask, PushEvent,
                    SendUpdate, SendError, GiveUp, venueVars
<1>8. CASE LoopStep
  BY <1>6, <1>8 DEF LoopStep, PlaceAnswered, CancelAnswered, ModifyAnswered,
                    RequestFails, SkipFrame, ReadFrame, CallbackRaises, Reconnect,
                    venueVars
<1>9. CASE UIStep
  BY <1>6, <1>9 DEF UIStep, DrainEvent, DrainUpdate, venueVars
<1> QED
  BY <1>3, <1>4, <1>5, <1>6, <1>7, <1>8, <1>9 DEF Next, VenueStep, VenueRefuse, vars, venueVars

LEMMA EventSteps ==
    ASSUME [Next]_vars
    PROVE  \/ UNCHANGED <<events, seen>>
           \/ DrainEvent
           \/ ReadFrame
           \/ \E k \in Rpc : PushEvent(k)
<1>1. CASE WorkerStep
  BY <1>1 DEF WorkerStep, SendPlace, SendCancel, SendModify, Ask, SendUpdate,
              SendError, GiveUp, streamVars
<1>2. CASE LoopStep
  BY <1>2 DEF LoopStep, PlaceAnswered, CancelAnswered, ModifyAnswered, RequestFails,
              SkipFrame, CallbackRaises, Reconnect, streamVars
<1>3. CASE VenueStep
  BY <1>3 DEF VenueStep, VenueAccept, VenueFill, VenueExpire, VenueCancel,
              VenueModify, VenueRefuse, Answer, streamVars
<1>4. CASE UIStep
  BY <1>4 DEF UIStep, DrainUpdate, streamVars
<1> QED
  BY <1>1, <1>2, <1>3, <1>4 DEF Next, vars, streamVars

LEMMA RowSteps ==
    ASSUME [Next]_vars
    PROVE  \/ UNCHANGED uiVars
           \/ DrainEvent
           \/ DrainUpdate
           \/ \E k \in Rpc : SendUpdate(k)
<1>1. CASE WorkerStep
  BY <1>1 DEF WorkerStep, SendPlace, SendCancel, SendModify, Ask, PushEvent,
              SendError, GiveUp
<1>2. CASE LoopStep
  BY <1>2 DEF LoopStep, PlaceAnswered, CancelAnswered, ModifyAnswered, RequestFails,
              SkipFrame, ReadFrame, CallbackRaises, Reconnect
<1>3. CASE VenueStep
  BY <1>3 DEF VenueStep, VenueAccept, VenueFill, VenueExpire, VenueCancel,
              VenueModify, VenueRefuse, Answer
<1>4. CASE UIStep
  BY <1>4 DEF UIStep
<1> QED
  BY <1>1, <1>2, <1>3, <1>4 DEF Next, vars

-----------------------------------------------------------------------------
(* A frame is pushed once.                                                 *)

LEMMA OnceStep ==
    ASSUME TypeInv, FramesSeen, FrameOnce, [Next]_vars
    PROVE  FramesSeen' /\ FrameOnce'
<1> USE DEF FramesSeen, FrameOnce
<1>1. /\ log \in Seq(Frame) /\ events \in Seq(Event) /\ pos \in Nat
      /\ log' \in Seq(Frame)
  BY TypeWorker, TypeLoop, TypeVenue, TypeUI, TypeStutter DEF Next, TypeInv, TypeOK
<1>2. /\ Len(log') >= Len(log)
      /\ \A n \in 1 .. Len(log) : log'[n] = log[n]
  BY LogKept
<1>3. CASE UNCHANGED <<events, seen>>
  <2>1. FrameOnce'
    BY <1>3
  <2>2. ASSUME NEW i \in 1 .. Len(events), events[i].frame # 0
        PROVE  /\ events[i].frame \in 1 .. Len(log')
               /\ KeyOf(log'[events[i].frame]) \in seen
    <3>1. /\ events[i].frame \in 1 .. Len(log)
          /\ KeyOf(log[events[i].frame]) \in seen
      BY <2>2
    <3>2. log'[events[i].frame] = log[events[i].frame]
      BY <1>2, <3>1
    <3> QED
      BY <1>1, <1>2, <3>1, <3>2
  <2> QED
    BY <1>3, <2>1, <2>2
<1>4. CASE DrainEvent
  <2>1. events # <<>> /\ events' = Tail(events) /\ log' = log /\ seen' = seen
    BY <1>4 DEF DrainEvent, venueVars, streamVars
  <2>2. /\ Len(events') = Len(events) - 1
        /\ \A i \in 1 .. Len(events') : i + 1 \in 1 .. Len(events) /\ events'[i] = events[i + 1]
    BY <1>1, <2>1
  <2>3. FramesSeen'
    BY <1>1, <2>1, <2>2 DEF KeyOf
  <2>4. FrameOnce'
    <3>1. \A i, j \in 1 .. Len(events') : i # j => i + 1 # j + 1
      BY <1>1, <2>2
    <3> QED
      BY <2>2, <3>1
  <2> QED
    BY <2>3, <2>4
<1>5. ASSUME NEW k \in Rpc, PushEvent(k)
      PROVE  FramesSeen' /\ FrameOnce'
  <2>1. PICK e : e.frame = 0 /\ events' = Append(events, e)
    BY <1>5 DEF PushEvent
  <2>2. log' = log /\ seen' = seen
    BY <1>5 DEF PushEvent, venueVars, streamVars
  <2>3. /\ Len(events') = Len(events) + 1
        /\ \A i \in 1 .. Len(events) : events'[i] = events[i]
        /\ events'[Len(events')].frame = 0
    BY <1>1, <2>1
  <2>4. FramesSeen'
    BY <1>1, <2>2, <2>3 DEF KeyOf
  <2>5. \A i \in 1 .. Len(events') :
           events'[i].frame # 0 => i \in 1 .. Len(events) /\ events'[i] = events[i]
    BY <1>1, <2>3
  <2>6. ASSUME NEW i \in 1 .. Len(events'), NEW j \in 1 .. Len(events'),
               i # j, events'[i].frame # 0
        PROVE  events'[i].frame # events'[j].frame
    <3>1. i \in 1 .. Len(events) /\ events'[i] = events[i] /\ events[i].frame # 0
      BY <2>5, <2>6
    <3>2. CASE events'[j].frame = 0
      BY <2>6, <3>2
    <3>3. CASE events'[j].frame # 0
      <4>1. j \in 1 .. Len(events) /\ events'[j] = events[j]
        BY <2>5, <3>3
      <4> QED
        BY <2>6, <3>1, <4>1
    <3> QED
      BY <3>2, <3>3
  <2> QED
    BY <2>4, <2>6
<1>6. CASE ReadFrame
  <2>1. /\ pos + 1 \in 1 .. Len(log)
        /\ KeyOf(log[pos + 1]) \notin seen
        /\ events' = Append(events, EventOf(pos + 1))
        /\ seen' = seen \cup {KeyOf(log[pos + 1])}
        /\ log' = log
    BY <1>1, <1>6 DEF ReadFrame, venueVars
  <2>2. EventOf(pos + 1).frame = pos + 1
    BY DEF EventOf
  <2>3. /\ Len(events') = Len(events) + 1
        /\ \A i \in 1 .. Len(events) : events'[i] = events[i]
        /\ events'[Len(events')].frame = pos + 1
    BY <1>1, <2>1, <2>2
  <2>4. \A i \in 1 .. Len(events) : events[i].frame # pos + 1
    BY <1>1, <2>1
  <2>5. FramesSeen'
    BY <1>1, <2>1, <2>3 DEF KeyOf
  <2>6. ASSUME NEW i \in 1 .. Len(events'), NEW j \in 1 .. Len(events'),
               i # j, events'[i].frame # 0
        PROVE  events'[i].frame # events'[j].frame
    <3>1. CASE i \in 1 .. Len(events) /\ j \in 1 .. Len(events)
      BY <2>3, <2>6, <3>1
    <3>2. CASE i = Len(events')
      <4>1. j \in 1 .. Len(events)
        BY <1>1, <2>3, <2>6, <3>2
      <4> QED
        BY <2>3, <2>4, <3>2, <4>1
    <3>3. CASE j = Len(events')
      <4>1. i \in 1 .. Len(events)
        BY <1>1, <2>3, <2>6, <3>3
      <4> QED
        BY <2>3, <2>4, <3>3, <4>1
    <3> QED
      BY <1>1, <2>3, <3>1, <3>2, <3>3
  <2> QED
    BY <2>5, <2>6
<1> QED
  BY <1>3, <1>4, <1>5, <1>6, EventSteps

(* However often the venue's stream reconnects and replays the day, no EC  *)
(* frame is pushed to the UI a second time (_dispatch_event_frame and      *)
(* _seen_ec).                                                              *)
THEOREM FramesPushedOnce == Spec => []FrameOnce
<1> DEFINE Inv == TypeInv /\ FramesSeen /\ FrameOnce
<1>1. Init => Inv
  BY TypeInit DEF Init, FramesSeen, FrameOnce
<1>2. Inv /\ [Next]_vars => Inv'
  BY OnceStep, TypeWorker, TypeLoop, TypeVenue, TypeUI, TypeStutter DEF Next
<1> QED
  BY <1>1, <1>2, PTL DEF Spec
-----------------------------------------------------------------------------
(* The row of the order, once it is seeded.                                *)

(* A row is seeded by draining the answer of PlaceOrder, and stays so.     *)
LEMMA SeededBy ==
    ASSUME TypeInv, [Next]_vars, Seeded'
    PROVE  Seeded \/ (DrainUpdate /\ Head(updates).rpc = "place")
<1> USE NoneAssumption DEF Seeded
<1>1. /\ pc \in [Rpc -> RpcStep] /\ result \in [Rpc -> OrderStatus \cup {None}]
      /\ updates \in Seq(Update) /\ "place" \in Rpc
      /\ PushedAnswered
  BY DEF TypeInv, TypeOK, Rpc
<1>2. CASE UNCHANGED <<pc, result, updates>>
  BY <1>2
<1>3. ASSUME NEW k \in Rpc, Ask(k)
      PROVE  Seeded
  BY <1>1, <1>3 DEF Ask, uiVars
<1>4. ASSUME NEW k \in Rpc, PushEvent(k) \/ RequestFails(k)
      PROVE  Seeded
  BY <1>1, <1>4 DEF PushEvent, RequestFails, uiVars
<1>5. ASSUME NEW k \in Rpc, SendUpdate(k)
      PROVE  Seeded
  <2>1. PICK u : u.rpc = k /\ updates' = Append(updates, u)
    BY <1>5 DEF SendUpdate
  <2>2. /\ Len(updates') = Len(updates) + 1
        /\ \A i \in 1 .. Len(updates) : updates'[i] = updates[i]
        /\ updates'[Len(updates')].rpc = k
    BY <1>1, <2>1
  <2>3. k # "place"
    BY <1>1, <2>2
  <2> QED
    BY <1>1, <1>5, <2>2, <2>3 DEF SendUpdate
<1>6. ASSUME NEW k \in Rpc, SendError(k)
      PROVE  Seeded
  BY <1>1, <1>6 DEF SendError, uiVars
<1>7. ASSUME PlaceAnswered \/ CancelAnswered \/ ModifyAnswered
      PROVE  Seeded
  BY <1>1, <1>7 DEF PlaceAnswered, CancelAnswered, ModifyAnswered, uiVars
<1>8. ASSUME DrainUpdate, Head(updates).rpc # "place"
      PROVE  Seeded
  <2>1. updates # <<>> /\ updates' = Tail(updates) /\ pc' = pc /\ result' = result
    BY <1>8 DEF DrainUpdate, rpcVars
  <2>2. \A i \in 2 .. Len(updates) : i - 1 \in 1 .. Len(updates') /\ updates'[i - 1] = updates[i]
    BY <1>1, <2>1
  <2>3. updates[1].rpc # "place"
    BY <1>1, <1>8, <2>1
  <2> QED
    BY <1>1, <2>1, <2>2, <2>3
<1>9. CASE WorkerStep
  BY <1>2, <1>3, <1>4, <1>5, <1>6, <1>9
     DEF WorkerStep, SendPlace, SendCancel, SendModify, GiveUp, Rpc, uiVars
<1>10. CASE LoopStep
  BY <1>2, <1>4, <1>7, <1>10
     DEF LoopStep, SkipFrame, ReadFrame, CallbackRaises, Reconnect, rpcVars, uiVars
<1>11. CASE VenueStep
  BY <1>2, <1>11 DEF VenueStep, VenueAccept, VenueFill, VenueExpire, VenueCancel,
                     VenueModify, VenueRefuse, Answer, rpcVars, uiVars
<1>12. CASE UIStep
  BY <1>2, <1>8, <1>12 DEF UIStep, DrainEvent, rpcVars
<1> QED
  BY <1>2, <1>9, <1>10, <1>11, <1>12 DEF Next, vars, rpcVars, uiVars

(* What a step makes of the row of a seeded order.                         *)
LEMMA SeededRowStep ==
    ASSUME TypeInv, [Next]_vars, Seeded, rows["order"] # None
    PROVE  /\ rows'["order"] # None
           /\ rows'["order"].filled >= rows["order"].filled
           /\ rows["order"].manual => rows'["order"].manual
<1> USE NoneAssumption
<1>1. /\ rows \in [RowId -> Row \cup {None}] /\ events \in Seq(Event)
      /\ updates \in Seq(Update) /\ "order" \in RowId
  BY DEF TypeInv, TypeOK, RowId
<1>2. rows["order"] \in Row /\ rows["order"].filled \in Nat
  BY <1>1 DEF Row
<1>3. CASE rows' = rows
  BY <1>2, <1>3
<1>4. CASE DrainEvent
  <2> DEFINE e == Head(events)
  <2>1. e \in Event
    BY <1>1, <1>4 DEF DrainEvent
  <2>2. e.status \in OrderStatus /\ e.filled \in Nat /\ e.manual \in BOOLEAN
    BY <2>1 DEF Event
  <2>3. \/ rows'["order"] = rows["order"]
        \/ rows'["order"] = ApplyEvent(rows["order"], e.status, e.filled, e.manual)
    BY <1>1, <1>4 DEF DrainEvent
  <2>4. CASE rows'["order"] = rows["order"]
    BY <1>2, <2>4
  <2>5. CASE rows'["order"] = ApplyEvent(rows["order"], e.status, e.filled, e.manual)
    <3> HIDE DEF e
    <3>1. rows'["order"] \in Row
      BY <1>2, <2>2, <2>5, ApplyEventRow
    <3>2. rows'["order"].filled >= rows["order"].filled
      BY <1>2, <2>2, <2>5, ApplyEventRow
    <3>3. rows["order"].manual => rows'["order"].manual
      BY <1>2, <2>2, <2>5, ApplyEventRow
    <3> QED
      BY <3>1, <3>2, <3>3
  <2> QED
    BY <2>3, <2>4, <2>5
<1>5. CASE DrainUpdate
  <2> DEFINE u == Head(updates)
  <2>1. u \in Update
    BY <1>1, <1>5 DEF DrainUpdate
  <2>2. u.rpc # "place"
    BY <1>1, <1>5 DEF DrainUpdate, Seeded
  <2>3. rows'["order"] = ApplyUpdate(rows["order"], u)
    BY <1>1, <1>5 DEF DrainUpdate
  <2> HIDE DEF u
  <2>4. /\ rows'["order"] # None
        /\ rows'["order"].filled >= rows["order"].filled
        /\ rows["order"].manual => rows'["order"].manual
    BY <1>2, <2>1, <2>2, <2>3, ApplyUpdateRow
  <2> QED
    BY <2>4
<1>6. CASE \E k \in Rpc : SendUpdate(k)
  BY <1>3, <1>6 DEF SendUpdate
<1> QED
  BY <1>3, <1>4, <1>5, <1>6, RowSteps DEF uiVars

LEMMA SeededStep ==
    ASSUME TypeInv, SeededRow, [Next]_vars
    PROVE  SeededRow'
<1> SUFFICES ASSUME Seeded'
             PROVE  rows'["order"] # None /\ rows'["order"].manual
  BY DEF SeededRow
<1>1. CASE Seeded
  <2>1. rows["order"] # None /\ rows["order"].manual
    BY <1>1 DEF SeededRow
  <2> QED
    BY <1>1, <2>1, SeededRowStep
<1>2. CASE DrainUpdate /\ Head(updates).rpc = "place"
  <2> DEFINE u == Head(updates)
  <2>1. u \in Update /\ u.rpc = "place" /\ u.qty # None
    BY <1>2 DEF DrainUpdate, TypeInv, TypeOK, PlaceQty
  <2>2. rows["order"] \in Row \cup {None}
    BY DEF TypeInv, TypeOK, RowId
  <2>3. rows'["order"] = ApplyUpdate(rows["order"], u)
    BY <1>2 DEF DrainUpdate, TypeInv, TypeOK, RowId
  <2> HIDE DEF u
  <2> QED
    BY <2>1, <2>2, <2>3, ApplyUpdateRow
<1> QED
  BY <1>1, <1>2, SeededBy

LEMMA SeededInit == Init => TypeInv /\ SeededRow
BY TypeInit DEF Init, SeededRow, Seeded, Rpc

(* A row the answer of PlaceOrder has seeded stays the user's own,         *)
(* whatever answers and EC events are applied to it, in any order          *)
(* (LiveOrders::apply_event, apply_modify).                                *)
THEOREM TagNeverLost == Spec => []TagKept
<1> DEFINE Inv == TypeInv /\ SeededRow
<1>1. Inv /\ [Next]_vars => Inv'
  BY SeededStep, TypeWorker, TypeLoop, TypeVenue, TypeUI, TypeStutter DEF Next
<1>2. Inv => TagKept
  BY DEF TagKept, SeededRow
<1> QED
  BY SeededInit, <1>1, <1>2, PTL DEF Spec

(* From then on its fill never decreases, although the answers to cancel   *)
(* and modify report none and the EC frames may be stale                   *)
(* (LiveOrder::advance_fill).                                              *)
THEOREM FillNeverDecreases == Spec => FillKept
<1> DEFINE Inv == TypeInv /\ SeededRow
<1>1. Inv /\ [Next]_vars => Inv'
  BY SeededStep, TypeWorker, TypeLoop, TypeVenue, TypeUI, TypeStutter DEF Next
<1>2. Inv /\ [Next]_vars =>
        [Seeded => rows'["order"].filled >= rows["order"].filled]_vars
  BY SeededRowStep DEF SeededRow
<1> QED
  BY SeededInit, <1>1, <1>2, PTL DEF Spec, FillKept
-----------------------------------------------------------------------------
(* Requests and quantities.                                                *)

LEMMA RequestsStep ==
    ASSUME TypeInv, Requests, [Next]_vars
    PROVE  Requests'
<1> USE NoneAssumption DEF Requests
<1>1. /\ pc \in [Rpc -> RpcStep] /\ reply \in [Rpc -> Reply]
      /\ {"place", "modify", "cancel"} = Rpc
      /\ venue \in [state : {"none", "open"} \cup Closed, qty : Nat, filled : Nat]
  BY DEF TypeInv, TypeOK, Rpc
<1>2. CASE UNCHANGED <<pc, venueVars, ref>>
  BY <1>2 DEF venueVars
<1>3. ASSUME NEW k \in Rpc, Ask(k)
      PROVE  Requests'
  BY <1>1, <1>3 DEF Ask
<1>4. ASSUME NEW k \in Rpc, NEW s \in {"pushed", "done", "stored"},
             pc' = [pc EXCEPT ![k] = s], UNCHANGED <<venueVars, ref>>
      PROVE  Requests'
  BY <1>1, <1>4 DEF venueVars
<1>5. CASE WorkerStep
  <2>1. ASSUME NEW k \in Rpc, PushEvent(k) \/ SendUpdate(k) \/ SendError(k) \/ GiveUp(k)
        PROVE  Requests'
    BY <1>2, <1>4, <2>1 DEF PushEvent, SendUpdate, SendError, GiveUp
  <2> QED
    BY <1>1, <1>3, <1>5, <2>1 DEF WorkerStep, SendPlace, SendCancel, SendModify
<1>6. CASE PlaceAnswered \/ ModifyAnswered
  <2>1. PICK k \in Rpc : pc' = [pc EXCEPT ![k] = "stored"]
    BY <1>1, <1>6 DEF PlaceAnswered, ModifyAnswered
  <2>2. UNCHANGED venueVars
    BY <1>6 DEF PlaceAnswered, ModifyAnswered
  <2>3. ref' = ref \/ reply["place"] = "ok" \/ reply["modify"] = "ok"
    BY <1>6 DEF PlaceAnswered, ModifyAnswered
  <2>4. ref' # None => venue.state # "none"
    <3>1. reply["place"] = "ok" => venue.state # "none"
      BY <1>1
    <3> QED
      BY <1>1, <2>3, <3>1
  <2> QED
    BY <1>1, <2>1, <2>2, <2>4 DEF venueVars
<1>7. CASE LoopStep
  <2>1. CASE CancelAnswered \/ \E k \in Rpc : RequestFails(k)
    BY <1>1, <1>4, <2>1 DEF CancelAnswered, RequestFails
  <2>2. CASE SkipFrame \/ ReadFrame \/ CallbackRaises \/ Reconnect
    BY <1>2, <2>2 DEF SkipFrame, ReadFrame, CallbackRaises, Reconnect, rpcVars
  <2> QED
    BY <1>6, <1>7, <2>1, <2>2 DEF LoopStep
<1>8. ASSUME NEW k \in Rpc, NEW r \in {"ok", "incomplete", "rejected"}, Answer(k, r)
      PROVE  /\ reply[k] = "sent" /\ pc' = pc /\ ref' = ref
             /\ reply' = [reply EXCEPT ![k] = r]
  BY <1>8 DEF Answer, rpcVars
<1>9. CASE VenueAccept
  <2>1. PICK r \in {"ok", "incomplete"} : Answer("place", r)
    BY <1>9 DEF VenueAccept
  <2>2. venue'.state = "open"
    BY <1>9 DEF VenueAccept
  <2> QED
    BY <1>1, <1>8, <2>1, <2>2
<1>10. CASE VenueFill \/ VenueExpire
  <2>1. UNCHANGED <<pc, reply, ref>> /\ venue.state = "open" /\ venue'.state # "none"
    BY <1>1, <1>10 DEF VenueFill, VenueExpire, rpcVars, Closed
  <2> QED
    BY <2>1
<1>11. CASE VenueCancel \/ VenueModify
  <2>1. venue.state = "open" /\ venue'.state # "none"
    BY <1>1, <1>11 DEF VenueCancel, VenueModify, Closed
  <2>2. Answer("cancel", "ok") \/ Answer("modify", "ok")
    BY <1>11 DEF VenueCancel, VenueModify
  <2> QED
    BY <1>1, <1>8, <2>1, <2>2
<1>12. ASSUME NEW k \in Rpc, VenueRefuse(k)
       PROVE  Requests'
  <2>1. Answer(k, "rejected") /\ UNCHANGED <<venue, log>>
    BY <1>12 DEF VenueRefuse
  <2> QED
    BY <1>1, <1>8, <2>1
<1>13. CASE UIStep
  BY <1>2, <1>13 DEF UIStep, DrainEvent, DrainUpdate, rpcVars
<1> QED
  BY <1>2, <1>5, <1>7, <1>9, <1>10, <1>11, <1>12, <1>13
     DEF Next, VenueStep, vars, rpcVars
LEMMA QuantitiesStep ==
    ASSUME TypeInv, Requests, Quantities, [Next]_vars
    PROVE  Quantities'
<1> USE OrderAssumption, NoneAssumption DEF Quantities
<1>1. /\ reply \in [Rpc -> Reply] /\ pc \in [Rpc -> RpcStep]
      /\ {"place", "modify", "cancel"} = Rpc
      /\ venue \in [state : {"none", "open"} \cup Closed, qty : Nat, filled : Nat]
      /\ ref \in Nat \cup {None} /\ newQty \in NewQty \cup {None}
  BY DEF TypeInv, TypeOK, Rpc
<1>2. /\ pc["modify"] = "idle" => reply["modify"] = "none"
      /\ reply["place"] \in {"none", "sent"} => venue.state = "none"
      /\ reply["modify"] = "ok" => venue.state # "none"
      /\ venue.state = "none" => ref = None
  BY <1>1 DEF Requests
<1>3. CASE UNCHANGED <<venue, reply, ref, newQty>>
  BY <1>3
<1>4. ASSUME NEW k \in Rpc, Ask(k), k # "modify" => newQty' = newQty
      PROVE  Quantities'
  BY <1>1, <1>2, <1>4 DEF Ask
<1>5. CASE WorkerStep
  BY <1>1, <1>3, <1>4, <1>5
     DEF WorkerStep, SendPlace, SendCancel, SendModify, PushEvent, SendUpdate, SendError,
         GiveUp, venueVars
<1>6. CASE PlaceAnswered
  BY <1>1, <1>6 DEF PlaceAnswered, venueVars
<1>7. CASE ModifyAnswered
  BY <1>1, <1>2, <1>7 DEF ModifyAnswered, venueVars
<1>8. CASE LoopStep
  BY <1>3, <1>6, <1>7, <1>8
     DEF LoopStep, CancelAnswered, RequestFails, SkipFrame, ReadFrame, CallbackRaises,
         Reconnect, rpcVars, venueVars
<1>9. ASSUME NEW k \in Rpc, NEW r \in {"ok", "incomplete", "rejected"}, Answer(k, r)
      PROVE  /\ reply[k] = "sent" /\ ref' = ref /\ newQty' = newQty
             /\ reply' = [reply EXCEPT ![k] = r]
  BY <1>9 DEF Answer, rpcVars
<1>10. CASE VenueAccept
  <2>1. PICK r \in {"ok", "incomplete"} : Answer("place", r)
    BY <1>10 DEF VenueAccept
  <2>2. venue'.state = "open" /\ venue'.qty = Qty
    BY <1>10 DEF VenueAccept
  <2>3. /\ reply["place"] = "sent" /\ ref' = ref /\ newQty' = newQty
        /\ reply' = [reply EXCEPT !["place"] = r]
    BY <1>1, <1>9, <2>1
  <2> QED
    BY <1>1, <1>2, <2>2, <2>3
<1>11. CASE VenueFill \/ VenueExpire
  <2>1. /\ UNCHANGED <<reply, ref, newQty>> /\ venue.state = "open"
        /\ venue'.qty = venue.qty
    BY <1>1, <1>11 DEF VenueFill, VenueExpire, rpcVars
  <2> QED
    BY <2>1
<1>12. CASE VenueCancel
  <2>1. venue.state = "open" /\ venue'.qty = venue.qty /\ Answer("cancel", "ok")
    BY <1>1, <1>12 DEF VenueCancel
  <2> QED
    BY <1>1, <1>9, <2>1
<1>13. CASE VenueModify
  <2>1. /\ venue.state = "open" /\ Answer("modify", "ok")
        /\ venue' = [venue EXCEPT !.qty = IF newQty = None THEN @ ELSE newQty]
    BY <1>13 DEF VenueModify
  <2>2. /\ reply["modify"] = "sent" /\ ref' = ref /\ newQty' = newQty
        /\ reply' = [reply EXCEPT !["modify"] = "ok"]
    BY <1>1, <1>9, <2>1
  <2>3. venue'.qty = IF newQty = None THEN venue.qty ELSE newQty
    BY <1>1, <2>1
  <2>4. venue.qty = Qty
    BY <2>1, <2>2
  <2> QED
    BY <1>1, <2>2, <2>3, <2>4
<1>14. ASSUME NEW k \in Rpc, VenueRefuse(k)
       PROVE  Quantities'
  <2>1. Answer(k, "rejected") /\ UNCHANGED venue
    BY <1>14 DEF VenueRefuse
  <2> QED
    BY <1>1, <1>9, <2>1
<1>15. CASE UIStep
  BY <1>3, <1>15 DEF UIStep, DrainEvent, DrainUpdate, rpcVars, venueVars
<1> QED
  BY <1>3, <1>5, <1>8, <1>10, <1>11, <1>12, <1>13, <1>14, <1>15
     DEF Next, VenueStep, vars, rpcVars, venueVars

(* What the venue never takes back.                                        *)
LEMMA VenueMoves ==
    ASSUME TypeInv, Requests, Quantities, [Next]_vars
    PROVE  /\ venue'.filled >= venue.filled
           /\ venue.state \in Closed => venue'.state \in Closed
           /\ venue'.qty = Qty \/ venue'.state = "none" =>
                 venue.qty = Qty \/ venue.state = "none"
<1> USE OrderAssumption, NoneAssumption
<1>1. venue \in [state : {"none", "open"} \cup Closed, qty : Nat, filled : Nat]
  BY DEF TypeInv, TypeOK
<1>2. CASE UNCHANGED venue
  BY <1>1, <1>2
<1>3. CASE VenueAccept
  <2>1. reply["place"] = "sent" /\ venue' = [state |-> "open", qty |-> Qty, filled |-> 0]
    BY <1>3 DEF VenueAccept, Answer
  <2>2. venue.state = "none" /\ venue.filled = 0
    BY <2>1 DEF Requests
  <2> QED
    BY <1>1, <2>1, <2>2 DEF Closed
<1>4. CASE VenueFill
  <2>1. PICK n \in 1 .. venue.qty - venue.filled :
           venue'.filled = venue.filled + n /\ venue'.qty = venue.qty
    BY <1>1, <1>4 DEF VenueFill
  <2>2. venue.state = "open" /\ "open" \notin Closed /\ venue'.state # "none"
    BY <1>1, <1>4 DEF VenueFill, Closed
  <2> QED
    BY <1>1, <2>1, <2>2
<1>5. CASE VenueExpire \/ VenueCancel
  BY <1>1, <1>5 DEF VenueExpire, VenueCancel, Closed
<1>6. CASE VenueModify
  <2>1. venue.state = "open" /\ reply["modify"] = "sent" /\ venue'.filled = venue.filled
    BY <1>1, <1>6 DEF VenueModify, Answer
  <2>2. venue.qty = Qty
    BY <2>1 DEF Quantities
  <2> QED
    BY <1>1, <2>1, <2>2 DEF Closed
<1>7. CASE WorkerStep
  BY <1>2, <1>7 DEF WorkerStep, SendPlace, SendCancel, SendModify, Ask, PushEvent,
                    SendUpdate, SendError, GiveUp, venueVars
<1>8. CASE LoopStep
  BY <1>2, <1>8 DEF LoopStep, PlaceAnswered, CancelAnswered, ModifyAnswered,
                    RequestFails, SkipFrame, ReadFrame, CallbackRaises, Reconnect,
                    venueVars
<1>9. CASE UIStep
  BY <1>2, <1>9 DEF UIStep, DrainEvent, DrainUpdate, venueVars
<1> QED
  BY <1>2, <1>3, <1>4, <1>5, <1>6, <1>7, <1>8, <1>9
     DEF Next, VenueStep, VenueRefuse, vars, venueVars

(* A frame is the venue's word of its moment.                              *)
LEMMA NewFrame ==
    ASSUME TypeInv, [Next]_vars, NEW n \in 1 .. Len(log'), n \notin 1 .. Len(log)
    PROVE  /\ log'[n].trade = venue'.filled
           /\ log'[n].last <= log'[n].trade
           /\ log'[n].leaves \in {None, venue'.qty - venue'.filled}
           /\ EcStatus(log'[n]) \in Closed => venue'.state \in Closed
           /\ UNCHANGED <<seen, pos, ref, facade, result, events, uiVars>>
<1> USE OrderAssumption, NoneAssumption
<1>1. /\ venue \in [state : {"none", "open"} \cup Closed, qty : Nat, filled : Nat]
      /\ log \in Seq(Frame) /\ venue.filled <= venue.qty
      /\ newQty \in Nat \cup {None}
  BY DEF TypeInv, TypeOK
<1> DEFINE Still == UNCHANGED <<seen, pos, ref, facade, result, events, uiVars>>
<1>2. ASSUME NEW type \in Notice, NEW v, Tell(type, v), v.qty \in Nat, v.filled \in Nat,
             v.filled <= v.qty
      PROVE  /\ n = Len(log') /\ log'[n].type = type
             /\ log'[n].trade = v.filled /\ log'[n].last <= log'[n].trade
             /\ log'[n].leaves \in {None, v.qty - v.filled}
  BY <1>1, <1>2, TellType
<1>3. CASE VenueAccept
  <2>1. venue' = [state |-> "open", qty |-> Qty, filled |-> 0] /\ Tell("received", venue')
    BY <1>3 DEF VenueAccept
  <2>2. Still
    BY <1>3 DEF VenueAccept, Answer, streamVars, rpcVars
  <2>3. /\ log'[n].type = "received"
        /\ log'[n].trade = venue'.filled /\ log'[n].last <= log'[n].trade
        /\ log'[n].leaves \in {None, venue'.qty - venue'.filled}
    BY <1>2, <2>1 DEF Notice
  <2>4. EcStatus(log'[n]) = "ACCEPTED"
    BY <2>3 DEF EcStatus
  <2> QED
    BY <2>2, <2>3, <2>4 DEF Closed
<1>4. CASE VenueFill
  <2>1. PICK m \in 1 .. venue.qty - venue.filled :
          /\ venue' = [venue EXCEPT !.filled = venue.filled + m,
                         !.state = IF venue.filled + m = venue.qty THEN "FILLED" ELSE @]
          /\ log' = Append(log, [type |-> "filled", trade |-> venue.filled + m,
                                 last |-> m, leaves |-> venue.qty - (venue.filled + m)])
    BY <1>4 DEF VenueFill
  <2>2. /\ log'[n].type = "filled" /\ log'[n].trade = venue.filled + m
        /\ log'[n].last = m /\ log'[n].leaves = venue.qty - (venue.filled + m)
    BY <1>1, <2>1
  <2>3. venue'.filled = venue.filled + m /\ venue'.qty = venue.qty
    BY <1>1, <2>1
  <2>4. EcStatus(log'[n]) \in Closed => venue'.state \in Closed
    <3>1. EcStatus(log'[n]) = IF log'[n].leaves = 0 THEN "FILLED" ELSE "PARTIALLY_FILLED"
      BY <2>2 DEF EcStatus
    <3>2. CASE log'[n].leaves = 0
      <4>1. venue.filled + m = venue.qty
        BY <1>1, <2>2, <3>2
      <4>2. venue'.state = "FILLED"
        BY <1>1, <2>1, <4>1
      <4> QED
        BY <4>2 DEF Closed
    <3>3. CASE log'[n].leaves # 0
      BY <3>1, <3>3 DEF Closed
    <3> QED
      BY <3>2, <3>3
  <2>5. Still
    BY <1>4 DEF VenueFill, streamVars, rpcVars
  <2> QED
    BY <1>1, <2>2, <2>3, <2>4, <2>5
<1>5. CASE VenueExpire
  <2>1. Tell("expired", venue) /\ venue' = [venue EXCEPT !.state = "EXPIRED"]
    BY <1>5 DEF VenueExpire
  <2>2. Still
    BY <1>5 DEF VenueExpire, streamVars, rpcVars
  <2>3. venue'.filled = venue.filled /\ venue'.qty = venue.qty /\ venue'.state \in Closed
    BY <1>1, <2>1 DEF Closed
  <2> QED
    BY <1>1, <1>2, <2>1, <2>2, <2>3 DEF Notice
<1>6. CASE VenueCancel
  <2>1. Tell("canceled", venue) /\ venue' = [venue EXCEPT !.state = "CANCELED"]
    BY <1>6 DEF VenueCancel
  <2>2. Still
    BY <1>6 DEF VenueCancel, Answer, streamVars, rpcVars
  <2>3. venue'.filled = venue.filled /\ venue'.qty = venue.qty /\ venue'.state \in Closed
    BY <1>1, <2>1 DEF Closed
  <2> QED
    BY <1>1, <1>2, <2>1, <2>2, <2>3 DEF Notice
<1>7. CASE VenueModify
  <2>1. Tell("received", venue')
    BY <1>1, <1>7 DEF VenueModify
  <2>2. Still
    BY <1>7 DEF VenueModify, Answer, streamVars, rpcVars
  <2>3. venue'.qty \in Nat /\ venue'.filled \in Nat /\ venue'.filled <= venue'.qty
    BY TypeVenue, <1>7 DEF VenueStep, TypeInv, TypeOK
  <2>4. /\ log'[n].type = "received"
        /\ log'[n].trade = venue'.filled /\ log'[n].last <= log'[n].trade
        /\ log'[n].leaves \in {None, venue'.qty - venue'.filled}
    BY <1>2, <2>1, <2>3 DEF Notice
  <2>5. EcStatus(log'[n]) = "ACCEPTED"
    BY <2>4 DEF EcStatus
  <2> QED
    BY <2>2, <2>4, <2>5 DEF Closed
<1>8. CASE UNCHANGED log
  BY <1>8
<1>9. CASE WorkerStep
  BY <1>8, <1>9 DEF WorkerStep, SendPlace, SendCancel, SendModify, Ask, PushEvent,
                    SendUpdate, SendError, GiveUp, venueVars
<1>10. CASE LoopStep
  BY <1>8, <1>10 DEF LoopStep, PlaceAnswered, CancelAnswered, ModifyAnswered,
                    RequestFails, SkipFrame, ReadFrame, CallbackRaises, Reconnect,
                    venueVars
<1>11. CASE UIStep
  BY <1>8, <1>11 DEF UIStep, DrainEvent, DrainUpdate, venueVars
<1> QED
  BY <1>3, <1>4, <1>5, <1>6, <1>7, <1>8, <1>9, <1>10, <1>11
     DEF Next, VenueStep, VenueRefuse, vars, venueVars
-----------------------------------------------------------------------------
(* An order that still trades is not reported as over.                     *)

LEMMA ClosedSourceStep ==
    ASSUME TypeInv, Requests, Quantities, ClosedSource, [Next]_vars
    PROVE  ClosedSource'
<1> USE NoneAssumption
<1> SUFFICES ASSUME venue'.state \notin Closed
             PROVE  /\ \A n \in 1 .. Len(log') : EcStatus(log'[n]) \notin Closed
                    /\ reply'["cancel"] # "ok"
                    /\ \A k \in Rpc : result'[k] \notin Closed
                    /\ facade' \notin Closed
  BY DEF ClosedSource, EcStatus
<1>1. /\ reply \in [Rpc -> Reply] /\ {"place", "modify", "cancel"} = Rpc
      /\ venue \in [state : {"none", "open"} \cup Closed, qty : Nat, filled : Nat]
      /\ result \in [Rpc -> OrderStatus \cup {None}]
  BY DEF TypeInv, TypeOK, Rpc
<1>2. venue.state \notin Closed
  BY VenueMoves
<1>3. /\ \A n \in 1 .. Len(log) : EcStatus(log[n]) \notin Closed
      /\ reply["cancel"] # "ok"
      /\ \A k \in Rpc : result[k] \notin Closed
      /\ facade \notin Closed
  BY <1>2 DEF ClosedSource
<1>4. \A n \in 1 .. Len(log') : EcStatus(log'[n]) \notin Closed
  <2>1. ASSUME NEW n \in 1 .. Len(log), n \in 1 .. Len(log')
        PROVE  EcStatus(log'[n]) \notin Closed
    <3>1. log'[n] = log[n]
      BY LogKept
    <3> QED
      BY <1>3, <3>1
  <2>2. ASSUME NEW n \in 1 .. Len(log'), n \notin 1 .. Len(log)
        PROVE  EcStatus(log'[n]) \notin Closed
    BY <2>2, NewFrame
  <2> QED
    BY <2>1, <2>2
<1>5. CASE UNCHANGED <<reply, result, facade>>
  BY <1>3, <1>4, <1>5
<1>6. CASE WorkerStep
  <2>1. UNCHANGED <<result, facade>>
    BY <1>6 DEF WorkerStep, SendPlace, SendCancel, SendModify, Ask, PushEvent, SendUpdate,
                SendError, GiveUp
  <2>2. reply'["cancel"] # "ok"
    BY <1>1, <1>3, <1>6
       DEF WorkerStep, SendPlace, SendCancel, SendModify, Ask, PushEvent, SendUpdate,
           SendError, GiveUp, venueVars
  <2> QED
    BY <1>3, <1>4, <2>1, <2>2
<1>7. CASE PlaceAnswered \/ ModifyAnswered
  <2>1. PICK k \in Rpc, status \in {"ACCEPTED", "REJECTED"} :
          \/ result' = [result EXCEPT ![k] = status] /\ facade' = status
          \/ result' = result /\ facade' = facade
    BY <1>1, <1>7 DEF PlaceAnswered, ModifyAnswered
  <2>2. status \notin Closed
    BY DEF Closed
  <2>3. reply' = reply
    BY <1>7 DEF PlaceAnswered, ModifyAnswered, venueVars
  <2> QED
    BY <1>1, <1>3, <1>4, <2>1, <2>2, <2>3
<1>8. CASE CancelAnswered
  BY <1>3, <1>5, <1>8 DEF CancelAnswered, venueVars
<1>9. CASE LoopStep
  BY <1>5, <1>7, <1>8, <1>9 DEF LoopStep, RequestFails, SkipFrame, ReadFrame,
        CallbackRaises, Reconnect, rpcVars, venueVars
<1>10. CASE VenueStep
  <2>1. UNCHANGED <<result, facade>>
    BY <1>10 DEF VenueStep, VenueAccept, VenueFill, VenueExpire, VenueCancel,
                 VenueModify, VenueRefuse, Answer, rpcVars
  <2>2. reply'["cancel"] # "ok"
    <3>1. ASSUME NEW k \in Rpc, VenueRefuse(k)
          PROVE  reply'["cancel"] # "ok"
      BY <1>1, <1>3, <3>1 DEF VenueRefuse, Answer
    <3>2. CASE VenueCancel
      BY <1>1, <3>2 DEF VenueCancel, Closed
    <3>3. CASE VenueAccept \/ VenueModify \/ VenueFill \/ VenueExpire
      BY <1>1, <1>3, <3>3 DEF VenueAccept, VenueModify, VenueFill, VenueExpire, Answer
    <3> QED
      BY <1>10, <3>1, <3>2, <3>3 DEF VenueStep
  <2> QED
    BY <1>3, <1>4, <2>1, <2>2
<1>11. CASE UIStep
  BY <1>5, <1>11 DEF UIStep, DrainEvent, DrainUpdate, rpcVars, venueVars
<1> QED
  BY <1>5, <1>6, <1>9, <1>10, <1>11 DEF Next, vars, rpcVars, venueVars

LEMMA ClosedToldStep ==
    ASSUME TypeInv, Requests, Quantities, ClosedSource, ClosedTold, [Next]_vars
    PROVE  ClosedTold'
<1> USE NoneAssumption
<1> DEFINE EventsOpen == \A i \in 1 .. Len(events) : events[i].status \notin Closed
           UpdatesOpen == \A i \in 1 .. Len(updates) : updates[i].status \notin Closed
           RowsOpen == \A i \in RowId : rows[i] # None => rows[i].status \notin Closed
<1> SUFFICES ASSUME venue'.state \notin Closed
             PROVE  EventsOpen' /\ UpdatesOpen' /\ RowsOpen'
  BY DEF ClosedTold
<1>1. /\ events \in Seq(Event) /\ updates \in Seq(Update)
      /\ rows \in [RowId -> Row \cup {None}] /\ "order" \in RowId
  BY DEF TypeInv, TypeOK, RowId
<1>2. venue.state \notin Closed
  BY VenueMoves
<1>3. EventsOpen /\ UpdatesOpen /\ RowsOpen
  BY <1>2 DEF ClosedTold
<1>4. ASSUME NEW e, e.status \notin Closed, events' = Append(events, e)
      PROVE  EventsOpen'
  BY <1>1, <1>3, <1>4
<1>5. EventsOpen'
  <2>1. CASE UNCHANGED <<events, seen>>
    BY <1>3, <2>1
  <2>2. CASE DrainEvent
    BY <1>1, <1>3, <2>2 DEF DrainEvent
  <2>3. CASE ReadFrame
    <3>1. pos + 1 \in 1 .. Len(log)
      BY <2>3 DEF ReadFrame, TypeInv, TypeOK
    <3>2. EventOf(pos + 1).status = EcStatus(log[pos + 1])
      BY DEF EventOf
    <3>3. EcStatus(log[pos + 1]) \notin Closed
      BY <1>2, <3>1 DEF ClosedSource
    <3> QED
      BY <1>4, <2>3, <3>2, <3>3 DEF ReadFrame
  <2>4. ASSUME NEW k \in Rpc, PushEvent(k)
        PROVE  EventsOpen'
    <3>1. result[k] \notin Closed
      BY <1>2 DEF ClosedSource
    <3> QED
      BY <1>4, <2>4, <3>1 DEF PushEvent
  <2> QED
    BY <2>1, <2>2, <2>3, <2>4, EventSteps
<1>6. CASE UNCHANGED uiVars
  BY <1>3, <1>5, <1>6 DEF uiVars
<1>7. CASE DrainEvent
  <2> DEFINE e == Head(events)
  <2>1. e \in Event /\ e.status \notin Closed
    BY <1>1, <1>3, <1>7 DEF DrainEvent
  <2>2. /\ e.row \in RowId /\ e.status \in OrderStatus /\ e.filled \in Nat
        /\ e.manual \in BOOLEAN /\ rows[e.row] \in Row \cup {None}
    BY <1>1, <2>1 DEF Event
  <2>3. ApplyEvent(rows[e.row], e.status, e.filled, e.manual).status = e.status
    BY <2>2, ApplyEventRow
  <2>4. rows' = [rows EXCEPT ![e.row] =
                     ApplyEvent(rows[e.row], e.status, e.filled, e.manual)]
    BY <1>1, <1>7, <2>2 DEF DrainEvent
  <2> HIDE DEF e
  <2>5. RowsOpen'
    BY <1>1, <1>3, <2>1, <2>2, <2>3, <2>4
  <2>6. UpdatesOpen'
    BY <1>3, <1>7 DEF DrainEvent
  <2> QED
    BY <1>5, <2>5, <2>6
<1>8. CASE DrainUpdate
  <2> DEFINE u == Head(updates)
  <2>1. u \in Update /\ u.status \notin Closed /\ (u.rpc = "place" => u.qty # None)
    BY <1>1, <1>3, <1>8 DEF DrainUpdate, TypeInv, PlaceQty
  <2>2. UpdatesOpen'
    BY <1>1, <1>3, <1>8 DEF DrainUpdate
  <2>3. rows' = [rows EXCEPT !["order"] = ApplyUpdate(rows["order"], u)]
    BY <1>1, <1>8 DEF DrainUpdate
  <2> HIDE DEF u
  <2>4. ApplyUpdate(rows["order"], u) # None =>
            ApplyUpdate(rows["order"], u).status = u.status
    BY <1>1, <2>1, ApplyUpdateRow
  <2>5. RowsOpen'
    BY <1>1, <1>3, <2>1, <2>3, <2>4
  <2> QED
    BY <1>5, <2>2, <2>5
<1>9. ASSUME NEW k \in Rpc, SendUpdate(k)
      PROVE  UpdatesOpen' /\ RowsOpen'
  <2>1. PICK u : u.status = result[k] /\ updates' = Append(updates, u)
    BY <1>9 DEF SendUpdate
  <2>2. result[k] \notin Closed
    BY <1>2 DEF ClosedSource
  <2>3. UpdatesOpen'
    BY <1>1, <1>3, <2>1, <2>2
  <2> QED
    BY <1>3, <1>9, <2>3 DEF SendUpdate
<1> QED
  BY <1>5, <1>6, <1>7, <1>8, <1>9, RowSteps

LEMMA AllInit == Init => IInv
<1> SUFFICES ASSUME Init PROVE IInv
  OBVIOUS
<1>1. TypeInv
  BY TypeInit
<1>2. Requests /\ Quantities
  BY DEF Init, Requests, Quantities, Rpc
<1>3. ClosedSource /\ ClosedTold
  BY NoneAssumption DEF Init, ClosedSource, ClosedTold, Rpc, OrderStatus
<1>4. Frames /\ FillTold /\ FramesSeen /\ FrameOnce
  BY DEF Init, Frames, FillTold, FramesSeen, FrameOnce
<1>5. SeededRow
  BY DEF Init, SeededRow, Seeded, Rpc
<1> QED
  BY <1>1, <1>2, <1>3, <1>4, <1>5 DEF IInv

(* Nothing on the way from the venue to the screen calls the order filled, *)
(* cancelled or expired while it can still trade: not after a refused      *)
(* cancel, a change of the quantity, or an answer that outlives its RPC    *)
(* (ManualOrderFacade, _dispatch_event_frame, LiveOrders).                 *)
THEOREM ClosedOnlyIfClosed == Spec => []ClosedIsTrue
<1> DEFINE Inv == TypeInv /\ Requests /\ Quantities /\ ClosedSource /\ ClosedTold
<1>1. Init => Inv
  BY AllInit DEF IInv
<1>2. Inv /\ [Next]_vars => Inv'
  BY RequestsStep, QuantitiesStep, ClosedSourceStep, ClosedToldStep,
     TypeWorker, TypeLoop, TypeVenue, TypeUI, TypeStutter DEF Next
<1>3. Inv => ClosedIsTrue
  BY DEF ClosedIsTrue, Told, ClosedSource, ClosedTold, Closed
<1> QED
  BY <1>1, <1>2, <1>3, PTL DEF Spec

-----------------------------------------------------------------------------
(* No more is reported as filled than was filled.                          *)

LEMMA FramesStep ==
    ASSUME TypeInv, Requests, Quantities, Frames, [Next]_vars
    PROVE  Frames'
<1> USE OrderAssumption, NoneAssumption
<1>1. ASSUME NEW n \in 1 .. Len(log'), n \in 1 .. Len(log)
      PROVE  /\ log'[n].trade <= venue'.filled
             /\ log'[n].last <= log'[n].trade
             /\ venue'.qty = Qty /\ log'[n].leaves # None =>
                    log'[n].leaves + log'[n].trade = Qty
  <2>1. log'[n] = log[n]
    BY <1>1, LogKept
  <2>6. TypeInv'
    BY TypeWorker, TypeLoop, TypeVenue, TypeUI, TypeStutter DEF Next
  <2>7. venue.filled \in Nat /\ venue'.filled \in Nat /\ log \in Seq(Frame)
    BY <2>6 DEF TypeInv, TypeOK
  <2>8. log[n] \in Frame /\ log # <<>>
    BY <1>1, <2>7
  <2>2. log[n] \in Frame /\ log[n].trade \in Nat /\ log # <<>>
    BY <2>8 DEF Frame
  <2>3. venue.state # "none"
    BY <2>2 DEF Requests
  <2>4. venue'.filled >= venue.filled /\ (venue'.qty = Qty => venue.qty = Qty)
    BY <2>3, VenueMoves
  <2>5. /\ log[n].trade <= venue.filled
        /\ log[n].last <= log[n].trade
        /\ venue.qty = Qty /\ log[n].leaves # None =>
               log[n].leaves + log[n].trade = Qty
    BY <1>1 DEF Frames
  <2> QED
    BY <2>1, <2>2, <2>4, <2>5, <2>7
<1>2. ASSUME NEW n \in 1 .. Len(log'), n \notin 1 .. Len(log)
      PROVE  /\ log'[n].trade <= venue'.filled
             /\ log'[n].last <= log'[n].trade
             /\ venue'.qty = Qty /\ log'[n].leaves # None =>
                    log'[n].leaves + log'[n].trade = Qty
  <2>1. venue'.filled \in Nat /\ venue'.qty \in Nat
    BY TypeWorker, TypeLoop, TypeVenue, TypeUI, TypeStutter DEF TypeInv, TypeOK, Next
  <2>2. /\ log'[n].trade = venue'.filled
        /\ log'[n].last <= log'[n].trade
        /\ log'[n].leaves \in {None, venue'.qty - venue'.filled}
    BY <1>2, NewFrame
  <2> QED
    BY <2>1, <2>2
<1> QED
  BY <1>1, <1>2 DEF Frames

LEMMA FillToldStep ==
    ASSUME TypeInv, Requests, Quantities, Frames, FillTold, [Next]_vars
    PROVE  FillTold'
<1> USE OrderAssumption, NoneAssumption
<1> DEFINE Bound == venue'.filled
           EventsIn == \A i \in 1 .. Len(events) : events[i].filled <= Bound
           RowsIn == \A i \in RowId : rows[i] # None => rows[i].filled <= Bound
           EventsInNext == \A i \in 1 .. Len(events') : events'[i].filled <= Bound
           RowsInNext == \A i \in RowId : rows'[i] # None => rows'[i].filled <= Bound
<1> SUFFICES ASSUME venue'.qty = Qty \/ venue'.state = "none"
             PROVE  EventsInNext /\ RowsInNext
  BY DEF FillTold
<1>1. /\ events \in Seq(Event) /\ updates \in Seq(Update)
      /\ rows \in [RowId -> Row \cup {None}] /\ "order" \in RowId
      /\ venue.filled \in Nat
  BY DEF TypeInv, TypeOK, RowId
<1>2. Bound \in Nat /\ Bound >= venue.filled
  BY VenueMoves, TypeWorker, TypeLoop, TypeVenue, TypeUI, TypeStutter
     DEF TypeInv, TypeOK, Next
<1>3. venue.qty = Qty \/ venue.state = "none"
  BY VenueMoves
<1>4. EventsIn /\ RowsIn
  <2>1. ASSUME NEW i \in 1 .. Len(events)
        PROVE  events[i].filled \in Nat
    <3>1. events[i] \in Event
      BY <1>1
    <3> QED
      BY <3>1 DEF Event
  <2>2. \A i \in RowId : rows[i] # None => rows[i].filled \in Nat
    BY <1>1 DEF Row
  <2>3. /\ \A i \in 1 .. Len(events) : events[i].filled <= venue.filled
        /\ \A i \in RowId : rows[i] # None => rows[i].filled <= venue.filled
    BY <1>3 DEF FillTold
  <2> QED
    BY <1>1, <1>2, <2>1, <2>2, <2>3
<1> HIDE DEF Bound
<1>5. ASSUME NEW e, e.filled <= Bound, events' = Append(events, e)
      PROVE  EventsInNext
  BY <1>1, <1>4, <1>5
<1>6. EventsInNext
  <2>1. CASE UNCHANGED <<events, seen>>
    BY <1>4, <2>1
  <2>2. CASE DrainEvent
    BY <1>1, <1>4, <2>2 DEF DrainEvent
  <2>3. CASE ReadFrame
    <3> DEFINE f == log[pos + 1]
    <3>1. pos + 1 \in 1 .. Len(log) /\ f \in Frame /\ log # <<>> /\ ref \in Nat \cup {None}
      BY <2>3 DEF ReadFrame, TypeInv, TypeOK
    <3>2. venue.qty = Qty
      BY <1>3, <3>1 DEF Requests
    <3>3. /\ f.trade <= venue.filled /\ f.last <= f.trade
          /\ f.leaves # None => f.leaves + f.trade = Qty
      BY <3>1, <3>2 DEF Frames
    <3>4. f.trade \in Nat /\ f.last \in Nat /\ f.leaves \in Nat \cup {None}
      BY <3>1 DEF Frame
    <3>5. ref # None => ref = Qty
      BY <3>2 DEF Quantities
    <3> HIDE DEF f
    <3>6. FillOf(f) <= venue.filled /\ FillOf(f) \in Nat
      BY <1>1, <3>1, <3>3, <3>4, <3>5 DEF FillOf
    <3>7. EventOf(pos + 1).filled = FillOf(f)
      BY DEF EventOf, f
    <3>8. EventOf(pos + 1).filled <= Bound
      BY <1>1, <1>2, <3>6, <3>7
    <3> QED
      BY <1>5, <2>3, <3>8 DEF ReadFrame
  <2>4. ASSUME NEW k \in Rpc, PushEvent(k)
        PROVE  EventsInNext
    BY <1>2, <1>5, <2>4 DEF PushEvent
  <2> QED
    BY <2>1, <2>2, <2>3, <2>4, EventSteps
<1>7. CASE UNCHANGED uiVars
  BY <1>4, <1>6, <1>7 DEF uiVars
<1>8. CASE DrainEvent
  <2> DEFINE e == Head(events)
  <2>1. e \in Event /\ e.filled <= Bound
    BY <1>1, <1>4, <1>8 DEF DrainEvent
  <2>2. /\ e.row \in RowId /\ e.status \in OrderStatus /\ e.filled \in Nat
        /\ e.manual \in BOOLEAN /\ rows[e.row] \in Row \cup {None}
    BY <1>1, <2>1 DEF Event
  <2> DEFINE new == ApplyEvent(rows[e.row], e.status, e.filled, e.manual)
  <2>3. new.filled = e.filled \/ (rows[e.row] # None /\ new.filled = rows[e.row].filled)
    BY <2>2, ApplyEventRow
  <2>4. rows' = [rows EXCEPT ![e.row] = new]
    BY <1>1, <1>8, <2>2 DEF DrainEvent
  <2> HIDE DEF e, new
  <2>5. new.filled <= Bound
    BY <1>4, <2>1, <2>2, <2>3
  <2>6. RowsInNext
    BY <1>1, <1>4, <2>2, <2>4, <2>5
  <2> QED
    BY <1>6, <2>6
<1>9. CASE DrainUpdate
  <2> DEFINE u == Head(updates)
             new == ApplyUpdate(rows["order"], u)
  <2>1. u \in Update /\ (u.rpc = "place" => u.qty # None)
    BY <1>1, <1>9 DEF DrainUpdate, TypeInv, PlaceQty
  <2>2. rows' = [rows EXCEPT !["order"] = new]
    BY <1>1, <1>9 DEF DrainUpdate
  <2> HIDE DEF u
  <2>3. new # None =>
          new.filled = 0 \/ (rows["order"] # None /\ new.filled = rows["order"].filled)
    BY <1>1, <2>1, ApplyUpdateRow
  <2> HIDE DEF new
  <2>4. new # None => new.filled <= Bound
    BY <1>1, <1>2, <1>4, <2>3
  <2>5. RowsInNext
    BY <1>1, <1>4, <2>2, <2>4
  <2> QED
    BY <1>6, <2>5
<1>10. CASE \E k \in Rpc : SendUpdate(k)
  BY <1>4, <1>6, <1>10 DEF SendUpdate
<1> QED
  BY <1>7, <1>8, <1>9, <1>10, RowSteps

(* IInv is inductive.                                                      *)
LEMMA AllStep == IInv /\ [Next]_vars => IInv'
<1> SUFFICES ASSUME IInv, [Next]_vars
             PROVE  IInv'
  OBVIOUS
<1>1. TypeInv'
  BY TypeWorker, TypeLoop, TypeVenue, TypeUI, TypeStutter DEF IInv, Next
<1>2. Requests' /\ Quantities'
  BY RequestsStep, QuantitiesStep DEF IInv
<1>3. ClosedSource' /\ ClosedTold'
  BY ClosedSourceStep, ClosedToldStep DEF IInv
<1>4. Frames' /\ FillTold'
  BY FramesStep, FillToldStep DEF IInv
<1>5. FramesSeen' /\ FrameOnce'
  BY OnceStep DEF IInv
<1>6. SeededRow'
  BY SeededStep DEF IInv
<1> QED
  BY <1>1, <1>2, <1>3, <1>4, <1>5, <1>6 DEF IInv

(* As long as the user has not changed the quantity, no stream reports     *)
(* more as filled than the venue has filled, however often the EC stream   *)
(* was replayed and whatever order the answers came in (the cumulative     *)
(* fill of _dispatch_event_frame).                                         *)
THEOREM FillNeverOvertold == Spec => []FillBounded
<1>1. IInv => FillBounded
  BY DEF IInv, FillTold, FillBounded
<1> QED
  BY AllInit, AllStep, <1>1, PTL DEF Spec
=============================================================================
