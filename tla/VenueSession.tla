---------------------------- MODULE VenueSession ----------------------------
(***************************************************************************)
(* The session with a venue and the execution mode, as the two sides of    *)
(* the program hold them: the backend (venue state machine, mode, live     *)
(* runner with its subscriptions, instruments scheduler), the worker that  *)
(* alone calls it, and the UI that knows only what the worker reports.     *)
(*                                                                         *)
(* Commands reach the worker through one FIFO queue.  The worker polls the *)
(* backend only while the queue is empty, and reports what differs from    *)
(* its last poll; a successful login is reported at once, besides.  The    *)
(* systems of a frame run between these steps in any order that the        *)
(* schedule allows.                                                        *)
(***************************************************************************)
EXTENDS Naturals, Sequences, FiniteSets, FiniteSetsExt, SequencesExt

CONSTANTS
    Ids,              \* instruments the user can list
    LiveModes,        \* {"LiveManual", "LiveAuto"} or a part of it
    SubscriptionCap,  \* GrpcDataEngineServer._MAX_LIVE_SUBSCRIPTIONS
    MaxOps,           \* bound: what the user and the venue do
    MaxUpdates        \* bound: reports waiting for the UI

ASSUME SessionAssumption ==
    /\ IsFiniteSet(Ids)
    /\ LiveModes # {} /\ LiveModes \subseteq {"LiveManual", "LiveAuto"}
    /\ SubscriptionCap \in Nat \ {0}
    /\ MaxOps \in Nat /\ MaxUpdates \in Nat \ {0, 1}

Venues  == {"DISCONNECTED", "CONNECTED"}
Modes   == {"Replay"} \union LiveModes
Sources == {"LiveVenue", "ReplayCatalogFallback"}
Status  == {"NotFetched", "InFlight", "PendingLiveUniverse", "Loaded", "Failed"}

VARIABLES
    session,   \* the backend: venue, mode, dead, warming, stored; subscribed is
               \* what LiveRunner._aggregators has, late counts the calls per id
               \* that go on although the backend has given up its wait for them
    worker,    \* the transport worker: cmds, busy, seen (its last poll)
    updates,   \* BackendStatusUpdate values the UI has not drained
    ui,        \* VenueStatusRes and ExecutionModeRes: venue, mode, changed
    tickers,   \* Tickers: source and status
    registry,  \* InstrumentRegistry.ids
    chain,     \* what the systems of the chain saw in their last frame
    ops,       \* bound: steps of the user and of the venue so far
    hasty,     \* ghost: a session command was given before the last settled
    skipped    \* ghost: listed ids nobody asked for, or the backend refused or
               \* took back

vars == <<session, worker, updates, ui, tickers, registry, chain, ops, hasty,
          skipped>>

IsLive(mode) == mode \in LiveModes
IsVenueLive(venue) == venue = "CONNECTED"

Cmd(kind, arg) == [kind |-> kind, arg |-> arg]
Report(kind, arg) == [kind |-> kind, arg |-> arg]

Send(commands) == worker' = [worker EXCEPT !.cmds = @ \o commands]

(***************************************************************************)
(* At rest: every command is done, every report drained, the last poll     *)
(* still true, and no system has work left.                                *)
(***************************************************************************)
Pending == /\ IsLive(ui.mode)
           /\ tickers = [source |-> "LiveVenue", status |-> "PendingLiveUniverse"]

Noticed == [venue |-> ui.venue, mode |-> ui.mode, ids |-> registry,
            pending |-> Pending]

AtRest == /\ worker.cmds = <<>> /\ worker.busy = "none" /\ updates = <<>>
          /\ worker.seen = [venue |-> session.venue, mode |-> session.mode]
          /\ ~ui.changed /\ chain = Noticed /\ ~Pending

NoneLate == [id \in Ids |-> 0]

Init ==
    /\ session = [venue |-> "DISCONNECTED", mode |-> "Replay", dead |-> FALSE,
                  subscribed |-> {}, late |-> NoneLate, warming |-> FALSE,
                  stored |-> FALSE]
    /\ worker = [cmds |-> <<Cmd("ListInstruments", "ReplayCatalogFallback")>>,
                 busy |-> "none",
                 seen |-> [venue |-> "unknown", mode |-> "unknown"]]
    /\ updates = <<>>
    /\ ui = [venue |-> "DISCONNECTED", mode |-> "Replay", changed |-> FALSE]
    /\ tickers = [source |-> "Unknown", status |-> "NotFetched"]
    /\ registry = {}
    /\ chain = [venue |-> "unknown", mode |-> "unknown", ids |-> {},
                pending |-> FALSE]
    /\ ops = 0 /\ hasty = FALSE /\ skipped = {}

-----------------------------------------------------------------------------
(* The backend                                                             *)

\* _teardown_live_components: the scheduler, the runner and with it every
\* subscription are gone, the venue state is reset; the mode stays. A late call
\* ends on the runner it was made on.
TornDown == [session EXCEPT !.venue = "DISCONNECTED", !.dead = FALSE,
                            !.subscribed = {}, !.late = NoneLate, !.warming = FALSE]

\* A login that goes through: a new runner, and the scheduler's first refresh.
LoggedIn == [session EXCEPT !.venue = "CONNECTED", !.dead = FALSE,
                            !.subscribed = {}, !.late = NoneLate, !.warming = TRUE]

\* What SubscribeMarketData checks before it asks the adapter.
MaySubscribe(id) ==
    /\ session.venue = "CONNECTED"
    /\ id \in session.subscribed
       \/ Cardinality(session.subscribed) < SubscriptionCap

\* What one call of list_instruments may answer.
ListOutcomes(source) ==
    IF source = "ReplayCatalogFallback" THEN {"Loaded", "Failed"}
    ELSE IF session.venue = "DISCONNECTED" THEN {"Failed"}
    ELSE (IF session.stored THEN {"Loaded"}
          ELSE IF session.warming THEN {"PendingLiveUniverse"}
          ELSE {"Loaded", "Failed"})
         \union (IF session.dead THEN {"Failed"} ELSE {})

-----------------------------------------------------------------------------
(* The worker: one command at a time, a poll when there is none            *)

Room == Len(updates) + 2 <= MaxUpdates

Takes(kind) == /\ worker.busy = "none" /\ worker.cmds # <<>> /\ Room
               /\ Head(worker.cmds).kind = kind

Arg == Head(worker.cmds).arg

Done == worker' = [worker EXCEPT !.cmds = Tail(@)]

VenueLogin ==
    /\ Takes("VenueLogin") /\ Done
    /\ \/ /\ session.venue = "CONNECTED" /\ ~session.dead
          /\ updates' = Append(updates, Report("VenueChanged", "CONNECTED"))
          /\ UNCHANGED session
       \/ /\ session.venue = "DISCONNECTED" \/ session.dead
          /\ session' = LoggedIn
          /\ updates' = Append(updates, Report("VenueChanged", "CONNECTED"))
       \/ /\ session.venue = "DISCONNECTED" \/ session.dead
          /\ session' = TornDown
          /\ UNCHANGED updates
    /\ UNCHANGED <<ui, tickers, registry, chain, ops, hasty, skipped>>

VenueLogout ==
    /\ Takes("VenueLogout") /\ Done
    /\ session' = TornDown
    /\ UNCHANGED <<updates, ui, tickers, registry, chain, ops, hasty, skipped>>

SetExecutionMode ==
    /\ Takes("SetExecutionMode") /\ Done
    /\ session' = [session EXCEPT
           !.mode = IF IsLive(Arg) /\ session.venue # "CONNECTED" THEN @ ELSE Arg]
    /\ UNCHANGED <<updates, ui, tickers, registry, chain, ops, hasty, skipped>>

ListInstruments ==
    /\ Takes("ListInstruments")
    /\ worker' = [worker EXCEPT !.cmds = Tail(@), !.busy = Arg]
    /\ updates' = Append(updates, Report("InFlight", Arg))
    /\ UNCHANGED <<session, ui, tickers, registry, chain, ops, hasty, skipped>>

ListInstrumentsAnswered ==
    /\ worker.busy # "none" /\ Room
    /\ \E outcome \in ListOutcomes(worker.busy) :
          /\ updates' = Append(updates, Report(outcome, worker.busy))
          /\ session' = [session EXCEPT
                 !.stored = @ \/ (outcome = "Loaded" /\ worker.busy = "LiveVenue")]
    /\ worker' = [worker EXCEPT !.busy = "none"]
    /\ UNCHANGED <<ui, tickers, registry, chain, ops, hasty, skipped>>

Op == ops < MaxOps /\ ops' = ops + 1

\* The worker's call takes the id in, or is refused: by the backend, or by an
\* adapter that fails it, and then the runner forgets the id. When the wait for
\* the adapter is over the call fails and its coroutine goes on, the id taken in.
\* An id whose subscription is to be taken back again stays skipped.
SubscribeMarketData ==
    /\ Takes("SubscribeMarketData") /\ Done
    /\ \/ /\ MaySubscribe(Arg)
          /\ \/ session' = [session EXCEPT !.subscribed = @ \union {Arg}] /\ UNCHANGED ops
             \/ /\ Arg \notin session.subscribed /\ Op
                /\ session' = [session EXCEPT !.subscribed = @ \union {Arg},
                                              !.late[Arg] = @ + 1]
          /\ skipped' = IF \E i \in 2..Len(worker.cmds) :
                             worker.cmds[i] = Cmd("UnsubscribeMarketData", Arg)
                        THEN skipped ELSE skipped \ {Arg}
       \/ /\ Arg \notin session.subscribed
          /\ skipped' = skipped \union {Arg}
          /\ UNCHANGED <<session, ops>>
    /\ UNCHANGED <<updates, ui, tickers, registry, chain, hasty>>

\* An adapter that fails the call leaves the id subscribed, and so does one that
\* has not answered when the wait is over.
UnsubscribeMarketData ==
    /\ Takes("UnsubscribeMarketData") /\ Done
    /\ \/ session' = [session EXCEPT !.subscribed = @ \ {Arg}] /\ UNCHANGED ops
       \/ UNCHANGED <<session, ops>>
       \/ /\ Arg \in session.subscribed /\ Op
          /\ session' = [session EXCEPT !.late[Arg] = @ + 1]
    /\ UNCHANGED <<updates, ui, tickers, registry, chain, hasty, skipped>>

\* LiveRunner.subscribe or unsubscribe ends after the wait for it: a subscribe
\* that fails and an unsubscribe that succeeds drop the id, whatever was asked
\* of it since.
LateCallEnds ==
    /\ \E id \in Ids :
          /\ session.late[id] > 0
          /\ \/ /\ session' = [session EXCEPT !.late[id] = @ - 1]
                /\ UNCHANGED skipped
             \/ /\ session' = [session EXCEPT !.late[id] = @ - 1,
                                              !.subscribed = @ \ {id}]
                /\ skipped' = skipped \union ({id} \intersect session.subscribed)
    /\ UNCHANGED <<worker, updates, ui, tickers, registry, chain, ops, hasty>>

\* get_state, and the response handler that reports only what differs from the
\* poll before.
Poll ==
    /\ worker.busy = "none" /\ worker.cmds = <<>> /\ Room
    /\ worker.seen # [venue |-> session.venue, mode |-> session.mode]
    /\ updates' = updates
          \o (IF worker.seen.venue = session.venue THEN <<>>
              ELSE <<Report("VenueChanged", session.venue)>>)
          \o (IF worker.seen.mode = session.mode THEN <<>>
              ELSE <<Report("ExecutionModeChanged", session.mode)>>)
    /\ worker' = [worker EXCEPT !.seen = [venue |-> session.venue,
                                          mode |-> session.mode]]
    /\ UNCHANGED <<session, ui, tickers, registry, chain, ops, hasty, skipped>>

-----------------------------------------------------------------------------
(* The systems of the UI                                                   *)

LastOf(reports, kinds, default) ==
    LET found == {i \in DOMAIN reports : reports[i].kind \in kinds}
    IN IF found = {} THEN default ELSE reports[Max(found)]

\* status_update_system: all the reports that have arrived, in order.  Every
\* report borrows VenueStatusRes mutably, so each one marks it as changed.
Drain(marks) ==
    /\ \E n \in 1..Len(updates) :
          LET now == SubSeq(updates, 1, n)
              list == LastOf(now, Status, Report(tickers.status, tickers.source))
          IN /\ updates' = SubSeq(updates, n + 1, Len(updates))
             /\ ui' = [venue |-> LastOf(now, {"VenueChanged"},
                                        Report("", ui.venue)).arg,
                       mode |-> LastOf(now, {"ExecutionModeChanged"},
                                       Report("", ui.mode)).arg,
                       changed |-> ui.changed \/ \E i \in 1..n : marks[now[i].kind]]
             /\ tickers' = [source |-> list.arg, status |-> list.kind]
    /\ UNCHANGED <<session, worker, registry, chain, ops, hasty, skipped>>

AnyReport == [kind \in {"VenueChanged", "ExecutionModeChanged"} \union Status |-> TRUE]

Faulty_StatusUpdate ==
    Drain([kind \in DOMAIN AnyReport |-> kind = "VenueChanged"])

StatusUpdate == Drain(AnyReport)

\* auto_replay_on_venue_disconnect_system: the mode changes locally at once.
Faulty_AutoReplay ==
    /\ ui.changed
    /\ \/ /\ ~IsVenueLive(ui.venue) /\ IsLive(ui.mode)
          /\ ui' = [ui EXCEPT !.mode = "Replay", !.changed = FALSE]
       \/ /\ IsVenueLive(ui.venue) \/ ~IsLive(ui.mode)
          /\ ui' = [ui EXCEPT !.changed = FALSE]
    /\ UNCHANGED <<session, worker, updates, tickers, registry, chain, ops,
                   hasty, skipped>>

AutoReplay ==
    /\ ui.changed
    /\ \/ /\ ~IsVenueLive(ui.venue) /\ IsLive(ui.mode)
          /\ ui' = [ui EXCEPT !.mode = "Replay", !.changed = FALSE]
          /\ Send(<<Cmd("SetExecutionMode", "Replay")>>)
       \/ /\ IsVenueLive(ui.venue) \/ ~IsLive(ui.mode)
          /\ ui' = [ui EXCEPT !.changed = FALSE]
          /\ UNCHANGED worker
    /\ UNCHANGED <<session, updates, tickers, registry, chain, ops, hasty, skipped>>

\* invalidate_tickers_on_venue_disconnect_system
Invalidated ==
    IF IsVenueLive(chain.venue) /\ ~IsVenueLive(ui.venue)
    THEN [source |-> "Unknown", status |-> "NotFetched"] ELSE tickers

\* auto_fetch_live_universe_on_connect_system: the venue or the mode has just
\* become live, the other one is, and no list is there or on its way.
FetchesUniverse ==
    /\ IsVenueLive(ui.venue) /\ IsLive(ui.mode)
    /\ ~(IsVenueLive(chain.venue) /\ IsLive(chain.mode))
    /\ Invalidated.status \in {"NotFetched", "Failed"}

\* unsubscribe_removed_instruments_system; nothing in the frame the mode changes
Removed == IF ~IsLive(ui.mode) \/ chain.mode # ui.mode THEN {}
           ELSE chain.ids \ registry

\* subscribe_added_instruments_system; in the frame the mode changes, the ids
\* that were there before, up to BULK_SUBSCRIBE_CAP of them.
Subscribed(candidates) ==
    LET survivors == candidates \intersect registry
        size == Min({Cardinality(survivors), SubscriptionCap})
    IN IF ~IsLive(ui.mode) THEN {{}}
       ELSE IF chain.mode # ui.mode THEN kSubset(size, survivors)
       ELSE {registry \ candidates}

\* The ids the systems themselves never ask for.
Unasked(wanted) ==
    IF ~IsLive(ui.mode) THEN {}
    ELSE IF chain.mode = ui.mode THEN skipped \intersect registry
    ELSE registry \ (IF Cardinality(wanted) = SubscriptionCap THEN wanted
                     ELSE chain.ids)

Asks(kind, ids) == {[i \in DOMAIN s |-> Cmd(kind, s[i])] : s \in SetToSeqs(ids)}

\* The chain of one frame; the resources it reads do not change under it.
ChainWith(candidates) ==
    /\ chain # Noticed
    /\ \E wanted \in Subscribed(candidates) :
       \E unsubs \in Asks("UnsubscribeMarketData", Removed) :
       \E subs \in Asks("SubscribeMarketData", wanted) :
          /\ Send((IF FetchesUniverse
                   THEN <<Cmd("ListInstruments", "LiveVenue")>> ELSE <<>>)
                  \o unsubs \o subs)
          /\ skipped' = Unasked(wanted) \ wanted
    /\ tickers' = Invalidated
    /\ chain' = [Noticed EXCEPT !.pending = @ /\ tickers' = tickers]
    /\ UNCHANGED <<session, updates, ui, registry, ops, hasty>>

Faulty_Chain == ChainWith(IF chain.mode # ui.mode THEN {} ELSE chain.ids)

Chain == ChainWith(chain.ids)

Faulty_RetryPending ==
    /\ Pending /\ ui.mode = "LiveManual" /\ chain.pending
    /\ worker.cmds = <<>> /\ worker.busy = "none"
    /\ Send(<<Cmd("ListInstruments", "LiveVenue")>>)
    /\ UNCHANGED <<session, updates, ui, tickers, registry, chain, ops, hasty,
                   skipped>>

\* retry_pending_live_universe_system, a frame in which its cooldown is over.
\* Bound: the worker takes each retry before the next one is sent.
RetryPending ==
    /\ Pending /\ chain.pending
    /\ worker.cmds = <<>> /\ worker.busy = "none"
    /\ Send(<<Cmd("ListInstruments", "LiveVenue")>>)
    /\ UNCHANGED <<session, updates, ui, tickers, registry, chain, ops, hasty,
                   skipped>>

-----------------------------------------------------------------------------
(* The user and the venue                                                  *)

\* A session command: whether it was given before the last one had settled.
Command(kind, arg) ==
    /\ Op
    /\ hasty' = (hasty \/ ~AtRest)
    /\ Send(<<Cmd(kind, arg)>>)
    /\ UNCHANGED <<session, updates, ui, tickers, registry, chain, skipped>>

Connect == ~IsVenueLive(ui.venue) /\ Command("VenueLogin", "none")

Disconnect == Command("VenueLogout", "none")

ChooseMode == \E mode \in Modes \ {ui.mode} :
    /\ IsLive(mode) => IsVenueLive(ui.venue)
    /\ Command("SetExecutionMode", mode)

\* File > New asks for LiveManual whatever the venue is.
FileNew == /\ "LiveManual" \in Modes
           /\ Command("SetExecutionMode", "LiveManual")

\* Instruments are added and removed in the panel, or by the loaded strategy.
EditRegistry ==
    /\ Op
    /\ \E ids \in SUBSET Ids : ids # registry /\ registry' = ids
    /\ UNCHANGED <<session, worker, updates, ui, tickers, chain, hasty, skipped>>

\* Opening the picker in a live mode asks again only when there is no list.
OpenPicker ==
    /\ Op
    /\ IsLive(ui.mode) /\ tickers.status \in {"NotFetched", "Failed"}
    /\ Send(<<Cmd("ListInstruments", "LiveVenue")>>)
    /\ UNCHANGED <<session, updates, ui, tickers, registry, chain, hasty, skipped>>

\* LiveRunner._run ends with an error: the venue state machine is not told.
RunnerDies ==
    /\ Op
    /\ session.venue = "CONNECTED" /\ ~session.dead
    /\ session' = [session EXCEPT !.dead = TRUE]
    /\ UNCHANGED <<worker, updates, ui, tickers, registry, chain, hasty, skipped>>

\* InstrumentsScheduler: the first refresh after a login, with or without result.
FirstRefreshEnds ==
    /\ session.warming
    /\ \E found \in BOOLEAN :
          session' = [session EXCEPT !.warming = FALSE, !.stored = @ \/ found]
    /\ UNCHANGED <<worker, updates, ui, tickers, registry, chain, ops, hasty,
                   skipped>>

-----------------------------------------------------------------------------
Work == \/ VenueLogin \/ VenueLogout \/ SetExecutionMode
        \/ ListInstruments \/ ListInstrumentsAnswered
        \/ SubscribeMarketData \/ UnsubscribeMarketData \/ Poll

World == \/ Connect \/ Disconnect \/ ChooseMode \/ FileNew
         \/ EditRegistry \/ OpenPicker \/ RunnerDies

Next == \/ Work \/ StatusUpdate \/ AutoReplay \/ Chain \/ RetryPending
        \/ FirstRefreshEnds \/ LateCallEnds \/ World

\* The worker loops, every frame runs every system, and a refresh ends: its
\* requests have timeouts, and however it ends the scheduler stops warming. A
\* late call need not end.
Fairness ==
    /\ WF_vars(Work) /\ WF_vars(StatusUpdate) /\ WF_vars(AutoReplay)
    /\ WF_vars(Chain) /\ WF_vars(RetryPending) /\ WF_vars(FirstRefreshEnds)

Spec == Init /\ [][Next]_vars /\ Fairness

-----------------------------------------------------------------------------
(* The UI never stays in a live mode over a venue that is not connected,   *)
(* whatever order the reports of the mode and of the venue arrive in: a    *)
(* frame that shows the two together has the switch to Replay still to run *)
(* (auto_replay_on_venue_disconnect_system).                               *)
LiveNeedsVenue == IsLive(ui.mode) /\ ~IsVenueLive(ui.venue) => ui.changed

(* When everything is at rest the UI shows the venue state and the mode    *)
(* the backend has, although the mode is also changed locally and a login  *)
(* is reported twice - as long as no session command was given before the  *)
(* one before it had settled.                                              *)
ShownIsTrue == AtRest /\ ~hasty => ui.venue = session.venue /\ ui.mode = session.mode

(* At rest in a live mode every listed instrument is subscribed: over      *)
(* disconnects, failed logins, mode switches and edits in any mode. Except *)
(* the ids that the backend or the cap refused, that came in the frame of  *)
(* a mode switch, or that a call took back on which the backend had given  *)
(* up; and after a hasty command.                                          *)
ListedIsSubscribed ==
    AtRest /\ ~hasty /\ IsLive(ui.mode) => registry \ skipped \subseteq session.subscribed

(* A fetch of the live universe does not stay open: in a live mode the     *)
(* list is loaded or failed in the end, also when the first refresh of the *)
(* scheduler fails and the picker was told to wait for it; and the local   *)
(* mode, the reported one and the polls never chase each other for ever.   *)
ComesToRest == []<>AtRest
=============================================================================
