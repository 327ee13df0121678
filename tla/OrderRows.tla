------------------------------ MODULE OrderRows ------------------------------
(***************************************************************************)
(* One manual order at Tachibana, from the RPC handlers to its row in the  *)
(* OrdersPanel.                                                            *)
(*                                                                         *)
(* Three streams tell the UI about the order: the answer to each RPC, sent *)
(* twice, as an OrderEvent and as a status update; and the EC frames of    *)
(* the venue's WebSocket, which the adapter turns into OrderEvents.  HTTP  *)
(* answers and EC frames travel on connections of their own, and the UI    *)
(* drains the two channels in two systems without an order.                *)
(*                                                                         *)
(* Each RPC is made at most once.  Prices are left out; a fill frame       *)
(* always tells what is left of the order, the other frames may.  The      *)
(* venue is external: it accepts, fills, changes and ends the order, and   *)
(* replays the whole day when the stream reconnects.                       *)
(***************************************************************************)
EXTENDS Naturals, Sequences

CONSTANTS
    Qty,        \* the quantity of the order
    NewQty,     \* quantities the user may change it to
    MaxFaults,  \* bound: reconnects of the EC stream and failing callbacks
    None

ASSUME OrderAssumption ==
    /\ Qty \in Nat \ {0}
    /\ NewQty \subseteq Nat \ {0}
    /\ MaxFaults \in Nat

Rpc == {"place", "modify", "cancel"}

(* idle; asked: the request is on its way to the venue; stored: the facade *)
(* is done with it; pushed: the worker has published the event; done.      *)
RpcStep == {"idle", "asked", "stored", "pushed", "done"}

(* What the venue has answered to a request.                               *)
Reply == {"none", "sent", "ok", "rejected", "incomplete"}

Closed == {"FILLED", "CANCELED", "EXPIRED"}
OrderStatus == Closed \cup {"ACCEPTED", "PARTIALLY_FILLED", "REJECTED"}

Notice == {"received", "filled", "canceled", "expired"}

(* The row of the order, and the row of client_order_id "".                *)
RowId == {"order", "blank"}

(* trade numbers the executions by what they add up to.                    *)
Frame == [type : Notice, trade : Nat, last : Nat, leaves : Nat \cup {None}]
Key == [type : Notice, trade : Nat]

(* frame: the index of the EC frame it came from, 0 for an RPC's event.    *)
Event == [row : RowId, status : OrderStatus, filled : Nat, manual : BOOLEAN,
          frame : Nat]

Update == [rpc : Rpc, status : OrderStatus, qty : Nat \cup {None}]

(* qty is 0 as long as no answer has told it.                              *)
Row == [status : OrderStatus, filled : Nat, qty : Nat, manual : BOOLEAN]

ASSUME NoneAssumption == None \notin Nat \cup OrderStatus \cup Rpc \cup Row

VARIABLES
    venue,    \* the order at the venue: state, qty, filled
    log,      \* the EC frames of the day
    reply,    \* the venue's answer to each RPC's request
    pos,      \* frames read on the present connection
    seen,     \* _seen_ec
    faults,   \* reconnects and failing callbacks so far
    ref,      \* _orders_ref[cid].qty, None before _register_order
    facade,   \* ManualOrderFacade._orders[cid].status, None before place
    pc,       \* progress of each RPC
    result,   \* the status of each RPC's answer, None for an error
    newQty,   \* what the modify asks for, None: the price only
    serving,  \* the RPC the worker is blocked in
    events,   \* backend event channel
    updates,  \* status update channel
    rows      \* LiveOrders

venueVars   == <<venue, log, reply>>
streamVars  == <<pos, seen, faults>>
rpcVars     == <<pc, result, newQty, serving>>
uiVars      == <<updates, rows>>
vars == <<venueVars, streamVars, ref, facade, rpcVars, events, uiVars>>

TypeOK ==
    /\ venue \in [state : {"none", "open"} \cup Closed, qty : Nat, filled : Nat]
    /\ log \in Seq(Frame)
    /\ reply \in [Rpc -> Reply]
    /\ pos \in 0 .. Len(log)
    /\ seen \subseteq Key
    /\ faults \in 0 .. MaxFaults
    /\ ref \in Nat \cup {None}
    /\ facade \in OrderStatus \cup {None}
    /\ pc \in [Rpc -> RpcStep]
    /\ result \in [Rpc -> OrderStatus \cup {None}]
    /\ newQty \in NewQty \cup {None}
    /\ serving \in Rpc \cup {None}
    /\ events \in Seq(Event)
    /\ updates \in Seq(Update)
    /\ rows \in [RowId -> Row \cup {None}]

Init ==
    /\ venue = [state |-> "none", qty |-> 0, filled |-> 0]
    /\ log = <<>>
    /\ reply = [k \in Rpc |-> "none"]
    /\ pos = 0
    /\ seen = {}
    /\ faults = 0
    /\ ref = None
    /\ facade = None
    /\ pc = [k \in Rpc |-> "idle"]
    /\ result = [k \in Rpc |-> None]
    /\ newQty = None
    /\ serving = None
    /\ events = <<>>
    /\ updates = <<>>
    /\ rows = [i \in RowId |-> None]

-----------------------------------------------------------------------------
(* Helpers.                                                                *)

KeyOf(f) == [type |-> f.type, trade |-> f.trade]

EcStatus(f) ==
    CASE f.type = "canceled" -> "CANCELED"
      [] f.type = "expired"  -> "EXPIRED"
      [] f.type = "filled"   -> IF f.leaves = 0 THEN "FILLED" ELSE "PARTIALLY_FILLED"
      [] f.type = "received" -> "ACCEPTED"

(* The cumulative fill a frame is taken to report: the quantity known for  *)
(* the order less what is left, or else the quantity of the frame itself.  *)
FillOf(f) ==
    IF ref # None /\ f.leaves # None
    THEN IF ref > f.leaves THEN ref - f.leaves ELSE 0
    ELSE f.last

(* An order known by number only goes under client_order_id "".            *)
EventOf(n) ==
    [row    |-> IF ref = None THEN "blank" ELSE "order",
     status |-> EcStatus(log[n]),
     filled |-> FillOf(log[n]),
     manual |-> FALSE,
     frame  |-> n]

(* the answer to a cancel or a modify overwrites the fill *)
Faulty_AdvanceFill(old, filled) == filled

(* LiveOrder::advance_fill                                                 *)
AdvanceFill(old, filled) == IF filled >= old THEN filled ELSE old

(* LiveOrders::apply_event                                                 *)
ApplyEvent(row, status, filled, manual) ==
    IF row = None
    THEN [status |-> status, filled |-> filled, qty |-> 0, manual |-> manual]
    ELSE [row EXCEPT !.status = status,
                     !.filled = AdvanceFill(@, filled),
                     !.manual = @ \/ manual]

(* What an update makes of the row of the order: OrderSeeded replaces it   *)
(* (upsert_full), OrderStatusUpdated is an event, and OrderModified        *)
(* (apply_modify) touches a row that exists.  No answer reports a fill.    *)
ApplyUpdate(row, u) ==
    CASE u.rpc = "place" ->
            [status |-> u.status, filled |-> 0, qty |-> u.qty, manual |-> TRUE]
      [] u.rpc = "cancel" -> ApplyEvent(row, u.status, 0, FALSE)
      [] u.rpc = "modify" /\ row = None -> None
      [] u.rpc = "modify" /\ row # None ->
            [row EXCEPT !.status = u.status,
                        !.filled = AdvanceFill(@, 0),
                        !.qty = IF u.qty = None THEN @ ELSE u.qty]

(* The UI has the answer of PlaceOrder, which was neither given up nor an  *)
(* error.                                                                  *)
Seeded ==
    /\ pc["place"] = "done"
    /\ result["place"] # None
    /\ \A i \in 1 .. Len(updates) : updates[i].rpc # "place"

-----------------------------------------------------------------------------
(* Faulty variants of actions: no part of the specification, each shows    *)
(* that a property notices the bug its comment names.                      *)

(* a refused cancel closes the order in the facade *)
Faulty_CancelAnswered ==
    /\ pc["cancel"] = "asked"
    /\ reply["cancel"] \in {"ok", "rejected"}
    /\ facade' = "CANCELED"
    /\ result' = [result EXCEPT !["cancel"] = "CANCELED"]
    /\ pc' = [pc EXCEPT !["cancel"] = "stored"]
    /\ UNCHANGED <<venueVars, streamVars, ref, newQty, serving, events, uiVars>>

(* a refused modify replaces the known quantity *)
Faulty_ModifyAnswered ==
    /\ pc["modify"] = "asked"
    /\ reply["modify"] \in {"ok", "rejected"}
    /\ ref' = IF newQty # None THEN newQty ELSE ref
    /\ facade' = "ACCEPTED"
    /\ result' = [result EXCEPT !["modify"] = "ACCEPTED"]
    /\ pc' = [pc EXCEPT !["modify"] = "stored"]
    /\ UNCHANGED <<venueVars, streamVars, newQty, serving, events, uiVars>>

-----------------------------------------------------------------------------
(* The RPC handlers, on the worker.                                        *)

Ask(k) ==
    /\ serving = None
    /\ pc[k] = "idle"
    /\ serving' = k
    /\ pc' = [pc EXCEPT ![k] = "asked"]
    /\ reply' = [reply EXCEPT ![k] = "sent"]
    /\ UNCHANGED <<venue, log, streamVars, ref, facade, result, events, uiVars>>

SendPlace == Ask("place") /\ UNCHANGED newQty

(* The user picks a row; the facade must know the order as working.        *)
CanChange == rows["order"] # None /\ facade = "ACCEPTED"

SendCancel == CanChange /\ Ask("cancel") /\ UNCHANGED newQty

SendModify(q) == CanChange /\ Ask("modify") /\ newQty' = q

(* publish_backend_event, ...                                              *)
PushEvent(k) ==
    /\ serving = k
    /\ pc[k] = "stored"
    /\ result[k] # None
    /\ events' = Append(events, [row |-> "order", status |-> result[k],
                                 filled |-> 0, manual |-> TRUE, frame |-> 0])
    /\ pc' = [pc EXCEPT ![k] = "pushed"]
    /\ UNCHANGED <<venueVars, streamVars, ref, facade, result, newQty, serving,
                   uiVars>>

(* ... and the answer of the RPC as a status update.                       *)
SendUpdate(k) ==
    /\ serving = k
    /\ pc[k] = "pushed"
    /\ updates' = Append(updates,
            [rpc |-> k, status |-> result[k],
             qty |-> CASE k = "place"  -> Qty
                       [] k = "modify" -> newQty
                       [] k = "cancel" -> None])
    /\ pc' = [pc EXCEPT ![k] = "done"]
    /\ serving' = None
    /\ UNCHANGED <<venueVars, streamVars, ref, facade, result, newQty, events,
                   rows>>

(* An error answer shows a message and leaves the rows alone.              *)
SendError(k) ==
    /\ serving = k
    /\ pc[k] = "stored"
    /\ result[k] = None
    /\ pc' = [pc EXCEPT ![k] = "done"]
    /\ serving' = None
    /\ UNCHANGED <<venueVars, streamVars, ref, facade, result, newQty, events,
                   uiVars>>

(* PLACE_TIMEOUT and its kin: the coroutine goes on.                       *)
GiveUp(k) ==
    /\ serving = k
    /\ pc[k] = "asked"
    /\ serving' = None
    /\ UNCHANGED <<venueVars, streamVars, ref, facade, pc, result, newQty,
                   events, uiVars>>

-----------------------------------------------------------------------------
(* The coroutines of facade and adapter, on the live loop, once the answer *)
(* of the venue is there.  An answer without both identifiers makes the    *)
(* order REJECTED.                                                         *)

PlaceAnswered ==
    /\ pc["place"] = "asked"
    /\ reply["place"] \in {"ok", "rejected", "incomplete"}
    /\ LET status == IF reply["place"] = "ok" THEN "ACCEPTED" ELSE "REJECTED"
       IN  /\ ref' = IF status = "ACCEPTED" THEN Qty ELSE ref
           /\ facade' = status
           /\ result' = [result EXCEPT !["place"] = status]
    /\ pc' = [pc EXCEPT !["place"] = "stored"]
    /\ UNCHANGED <<venueVars, streamVars, newQty, serving, events, uiVars>>

CancelAnswered ==
    /\ pc["cancel"] = "asked"
    /\ reply["cancel"] \in {"ok", "rejected"}
    /\ IF reply["cancel"] = "ok"
       THEN /\ facade' = "CANCELED"
            /\ result' = [result EXCEPT !["cancel"] = "CANCELED"]
       ELSE UNCHANGED <<facade, result>>
    /\ pc' = [pc EXCEPT !["cancel"] = "stored"]
    /\ UNCHANGED <<venueVars, streamVars, ref, newQty, serving, events, uiVars>>

ModifyAnswered ==
    /\ pc["modify"] = "asked"
    /\ reply["modify"] \in {"ok", "rejected"}
    /\ IF reply["modify"] = "ok"
       THEN /\ ref' = IF newQty # None THEN newQty ELSE ref
            /\ facade' = "ACCEPTED"
            /\ result' = [result EXCEPT !["modify"] = "ACCEPTED"]
       ELSE UNCHANGED <<ref, facade, result>>
    /\ pc' = [pc EXCEPT !["modify"] = "stored"]
    /\ UNCHANGED <<venueVars, streamVars, newQty, serving, events, uiVars>>

(* The request raises, for a second secret that never came too, whatever   *)
(* the venue makes of it.                                                  *)
RequestFails(k) ==
    /\ pc[k] = "asked"
    /\ pc' = [pc EXCEPT ![k] = "stored"]
    /\ UNCHANGED <<venueVars, streamVars, ref, facade, result, newQty, serving,
                   events, uiVars>>

-----------------------------------------------------------------------------
(* The EC stream, on the live loop: _dispatch_event_frame.                 *)

SkipFrame ==
    /\ pos < Len(log)
    /\ KeyOf(log[pos + 1]) \in seen
    /\ pos' = pos + 1
    /\ UNCHANGED <<venueVars, seen, faults, ref, facade, rpcVars, events, uiVars>>

ReadFrame ==
    /\ pos < Len(log)
    /\ KeyOf(log[pos + 1]) \notin seen
    /\ pos' = pos + 1
    /\ events' = Append(events, EventOf(pos + 1))
    /\ seen' = seen \cup {KeyOf(log[pos + 1])}
    /\ UNCHANGED <<venueVars, faults, ref, facade, rpcVars, uiVars>>

(* The callback raises: the frame waits for the next replay.               *)
CallbackRaises ==
    /\ faults < MaxFaults
    /\ faults' = faults + 1
    /\ pos < Len(log)
    /\ KeyOf(log[pos + 1]) \notin seen
    /\ pos' = pos + 1
    /\ UNCHANGED <<venueVars, seen, ref, facade, rpcVars, events, uiVars>>

Reconnect ==
    /\ faults < MaxFaults
    /\ faults' = faults + 1
    /\ pos' = 0
    /\ UNCHANGED <<venueVars, seen, ref, facade, rpcVars, events, uiVars>>

-----------------------------------------------------------------------------
(* The venue.                                                              *)

Answer(k, r) ==
    /\ reply[k] = "sent"
    /\ reply' = [reply EXCEPT ![k] = r]
    /\ UNCHANGED <<streamVars, ref, facade, rpcVars, events, uiVars>>

(* A notice, of v, that may tell what is left of the order.                *)
Tell(type, v) ==
    \E l \in {None, v.qty - v.filled} :
        log' = Append(log, [type |-> type, trade |-> v.filled, last |-> 0,
                            leaves |-> l])

VenueAccept ==
    /\ \E r \in {"ok", "incomplete"} : Answer("place", r)
    /\ venue' = [state |-> "open", qty |-> Qty, filled |-> 0]
    /\ Tell("received", venue')

VenueRefuse(k) ==
    /\ Answer(k, "rejected")
    /\ UNCHANGED <<venue, log>>

VenueFill ==
    /\ venue.state = "open"
    /\ \E n \in 1 .. venue.qty - venue.filled :
        LET total == venue.filled + n
        IN  /\ venue' = [venue EXCEPT !.filled = total,
                         !.state = IF total = venue.qty THEN "FILLED" ELSE @]
            /\ log' = Append(log, [type |-> "filled", trade |-> total,
                                   last |-> n, leaves |-> venue.qty - total])
    /\ UNCHANGED <<reply, streamVars, ref, facade, rpcVars, events, uiVars>>

VenueExpire ==
    /\ venue.state = "open"
    /\ venue' = [venue EXCEPT !.state = "EXPIRED"]
    /\ Tell("expired", venue)
    /\ UNCHANGED <<reply, streamVars, ref, facade, rpcVars, events, uiVars>>

VenueCancel ==
    /\ venue.state = "open"
    /\ Answer("cancel", "ok")
    /\ venue' = [venue EXCEPT !.state = "CANCELED"]
    /\ Tell("canceled", venue)

VenueModify ==
    /\ venue.state = "open"
    /\ newQty # None => newQty > venue.filled
    /\ Answer("modify", "ok")
    /\ venue' = [venue EXCEPT !.qty = IF newQty = None THEN @ ELSE newQty]
    /\ UNCHANGED log \/ Tell("received", venue')

-----------------------------------------------------------------------------
(* The UI: backend_event_drain_system and status_update_system.            *)

DrainEvent ==
    /\ events # <<>>
    /\ LET e == Head(events)
       IN  rows' = [rows EXCEPT ![e.row] =
                        ApplyEvent(@, e.status, e.filled, e.manual)]
    /\ events' = Tail(events)
    /\ UNCHANGED <<venueVars, streamVars, ref, facade, rpcVars, updates>>

DrainUpdate ==
    /\ updates # <<>>
    /\ rows' = [rows EXCEPT !["order"] = ApplyUpdate(@, Head(updates))]
    /\ updates' = Tail(updates)
    /\ UNCHANGED <<venueVars, streamVars, ref, facade, rpcVars, events>>

-----------------------------------------------------------------------------
WorkerStep ==
    \/ SendPlace \/ SendCancel
    \/ \E q \in NewQty \cup {None} : SendModify(q)
    \/ \E k \in Rpc : PushEvent(k) \/ SendUpdate(k) \/ SendError(k) \/ GiveUp(k)

LoopStep ==
    \/ PlaceAnswered \/ CancelAnswered \/ ModifyAnswered
    \/ \E k \in Rpc : RequestFails(k)
    \/ SkipFrame \/ ReadFrame \/ CallbackRaises \/ Reconnect

VenueStep ==
    \/ VenueAccept \/ VenueFill \/ VenueExpire \/ VenueCancel \/ VenueModify
    \/ \E k \in Rpc : VenueRefuse(k)

UIStep == DrainEvent \/ DrainUpdate

Next == WorkerStep \/ LoopStep \/ VenueStep \/ UIStep

Spec == Init /\ [][Next]_vars

-----------------------------------------------------------------------------
(* Safety.                                                                 *)

Told ==
    {events[i].status : i \in 1 .. Len(events)}
        \cup {updates[i].status : i \in 1 .. Len(updates)}
        \cup {rows[i].status : i \in {j \in RowId : rows[j] # None}}
        \cup {facade}

(* Nothing on the way from the venue to the screen says that the order is  *)
(* over, by a fill, a cancel or an expiry, while it can still trade: not   *)
(* after a refused cancel, a change of the quantity, or an answer that     *)
(* comes after its RPC was given up.                                       *)
ClosedIsTrue == Told \cap Closed # {} => venue.state # "open"

(* As long as the quantity was not changed, no more is reported as filled  *)
(* than the venue has filled, by whichever stream and however often the    *)
(* stream was replayed (issue #5: a wrong base spoils position and P&L).   *)
FillBounded ==
    venue.qty = Qty =>
        /\ \A i \in 1 .. Len(events) : events[i].filled <= venue.filled
        /\ \A i \in RowId : rows[i] # None => rows[i].filled <= venue.filled

(* A reconnect replays the day; no frame is pushed a second time, whether  *)
(* the UI has seen the first or not.                                       *)
FrameOnce ==
    \A i, j \in 1 .. Len(events) :
        i # j /\ events[i].frame # 0 => events[i].frame # events[j].frame

(* Once the answer of PlaceOrder has seeded the row, the fill never        *)
(* decreases, although the answers to cancel and modify report none and    *)
(* EC frames may be stale (advance_fill: "fills never legitimately         *)
(* decrease").                                                             *)
FillKept ==
    [][Seeded => rows'["order"].filled >= rows["order"].filled]_vars

(* A seeded row stays the user's own: MANUAL-001, which the EC stream      *)
(* cannot tell, survives its events and every answer (apply_event: "an     *)
(* empty value never clears a known one").                                 *)
TagKept == Seeded => rows["order"].manual
=============================================================================
