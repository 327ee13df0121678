------------------------- MODULE VenueSessionProofs -------------------------
(***************************************************************************)
(* What is shown and subscribed at rest is what the backend has, for any   *)
(* instruments, any cap and any number of steps of the user and the venue. *)
(*                                                                         *)
(* The invariant speaks of the time between: of what will be shown once    *)
(* the reports on their way are drained, and of what will be subscribed    *)
(* once the queue is empty.                                                *)
(***************************************************************************)
EXTENDS VenueSession, FiniteSetTheorems, WellFoundedInduction, TLAPS

Commands ==
    [kind : {"VenueLogin", "VenueLogout"}, arg : {"none"}]
    \union [kind : {"SetExecutionMode"}, arg : Modes]
    \union [kind : {"ListInstruments"}, arg : Sources]
    \union [kind : {"SubscribeMarketData", "UnsubscribeMarketData"}, arg : Ids]

Reports ==
    [kind : {"VenueChanged"}, arg : Venues]
    \union [kind : {"ExecutionModeChanged"}, arg : Modes]
    \union [kind : Status, arg : Sources]

Unknown == {"unknown"}

Sessions == [venue : Venues, mode : Modes, dead : BOOLEAN,
             subscribed : SUBSET Ids, late : [Ids -> Nat], warming : BOOLEAN,
             stored : BOOLEAN]

Workers == [cmds : Seq(Commands), busy : Sources \union {"none"},
            seen : [venue : Venues \union Unknown, mode : Modes \union Unknown]]

TypeInv ==
    /\ session \in Sessions
    /\ worker \in Workers
    /\ updates \in Seq(Reports)
    /\ ui \in [venue : Venues, mode : Modes, changed : BOOLEAN]
    /\ tickers \in [source : Sources \union {"Unknown"}, status : Status]
    /\ registry \in SUBSET Ids
    /\ chain \in [venue : Venues \union Unknown, mode : Modes \union Unknown,
                  ids : SUBSET Ids, pending : BOOLEAN]
    /\ ops \in Nat /\ hasty \in BOOLEAN /\ skipped \in SUBSET Ids

\* What is shown once every report on its way has been drained.
Heard(reports, kind, shown, x) ==
    \/ /\ shown = x
       /\ \A i \in DOMAIN reports : reports[i].kind # kind
    \/ \E i \in DOMAIN reports :
          /\ reports[i].kind = kind /\ reports[i].arg = x
          /\ \A j \in DOMAIN reports : j > i => reports[j].kind # kind

VenueHeard(x) == Heard(updates, "VenueChanged", ui.venue, x)
ModeHeard(x)  == Heard(updates, "ExecutionModeChanged", ui.mode, x)

VenueCommands == {"VenueLogin", "VenueLogout"}

\* The venue that will be shown is the one of the last poll or the present one,
\* and the same one while a login or a logout has still to be done.
VenueFollows ==
    /\ VenueHeard(worker.seen.venue) \/ VenueHeard(session.venue)
    /\ \A i \in DOMAIN worker.cmds : worker.cmds[i].kind \in VenueCommands =>
          /\ i = 1
          /\ VenueHeard(session.venue) /\ worker.seen.venue = session.venue

\* The backend will be in Replay mode once the queue is empty.
ReplayAhead(cmds, mode) ==
    \/ /\ mode = "Replay"
       /\ \A i \in DOMAIN cmds : cmds[i].kind # "SetExecutionMode"
    \/ \E i \in DOMAIN cmds :
          /\ cmds[i] = Cmd("SetExecutionMode", "Replay")
          /\ \A j \in DOMAIN cmds : j > i => cmds[j].kind # "SetExecutionMode"

\* The mode that will be shown is the one of the last poll, or it is Replay and
\* the backend is in it or about to be.
ModeFollows ==
    \/ ModeHeard(worker.seen.mode)
    \/ ModeHeard("Replay") /\ ReplayAhead(worker.cmds, session.mode)

\* Nobody logs in while a mode is live or a report of one is on its way.
LoginInReplay ==
    (\E i \in DOMAIN worker.cmds : worker.cmds[i].kind = "VenueLogin") =>
       /\ ~IsLive(chain.mode) /\ ~IsLive(ui.mode)
       /\ \A i \in DOMAIN updates : updates[i].kind # "ExecutionModeChanged"

\* The id is subscribed once the queue is empty, unless the backend refuses it.
Will(cmds, subscribed, id) ==
    \/ /\ id \in subscribed
       /\ \A i \in DOMAIN cmds : cmds[i] # Cmd("UnsubscribeMarketData", id)
    \/ \E i \in DOMAIN cmds :
          /\ cmds[i] = Cmd("SubscribeMarketData", id)
          /\ \A j \in DOMAIN cmds :
                j > i => cmds[j] # Cmd("UnsubscribeMarketData", id)

ListedFollow ==
    IsLive(chain.mode) /\ session.venue = "CONNECTED" =>
       \A id \in chain.ids \ skipped : Will(worker.cmds, session.subscribed, id)

Settling == VenueFollows /\ ModeFollows /\ LoginInReplay /\ ListedFollow

SessionInv ==
    /\ TypeInv
    /\ LiveNeedsVenue
    /\ ~hasty => Settling

-----------------------------------------------------------------------------
(* Sequences of reports and of commands                                    *)

LEMMA TailFacts ==
    ASSUME NEW S, NEW c \in Seq(S), c # <<>>
    PROVE  /\ Tail(c) \in Seq(S) /\ Head(c) = c[1] /\ c[1] \in S
           /\ Len(c) \in Nat \ {0} /\ Len(Tail(c)) = Len(c) - 1
           /\ DOMAIN c = 1..Len(c) /\ DOMAIN Tail(c) = 1..(Len(c) - 1)
           /\ \A i \in DOMAIN Tail(c) : i + 1 \in DOMAIN c /\ Tail(c)[i] = c[i + 1]
           /\ \A i \in DOMAIN c : i = 1 \/ (i - 1 \in DOMAIN Tail(c) /\ Tail(c)[i - 1] = c[i])
  OBVIOUS

LEMMA ConcatFacts ==
    ASSUME NEW S, NEW c \in Seq(S), NEW d \in Seq(S)
    PROVE  /\ c \o d \in Seq(S)
           /\ Len(c) \in Nat /\ Len(d) \in Nat /\ Len(c \o d) = Len(c) + Len(d)
           /\ DOMAIN c = 1..Len(c) /\ DOMAIN d = 1..Len(d)
           /\ DOMAIN (c \o d) = 1..(Len(c) + Len(d))
           /\ \A i \in DOMAIN c : i \in DOMAIN (c \o d) /\ (c \o d)[i] = c[i]
           /\ \A i \in DOMAIN (c \o d) :
                 i \in DOMAIN c \/ (i - Len(c) \in DOMAIN d /\ (c \o d)[i] = d[i - Len(c)])
           /\ \A i \in DOMAIN d :
                 i + Len(c) \in DOMAIN (c \o d) /\ (c \o d)[i + Len(c)] = d[i]
  OBVIOUS

\* A report of another kind changes nothing that will be shown.
LEMMA HeardOther ==
    ASSUME NEW S, NEW c \in Seq(S), NEW d \in Seq(S), NEW kind, NEW shown, NEW x,
           \A i \in DOMAIN d : d[i].kind # kind, Heard(c, kind, shown, x)
    PROVE  Heard(c \o d, kind, shown, x)
  <1>1. CASE shown = x /\ \A i \in DOMAIN c : c[i].kind # kind
    BY <1>1, ConcatFacts DEF Heard
  <1>2. CASE \E i \in DOMAIN c :
                /\ c[i].kind = kind /\ c[i].arg = x
                /\ \A j \in DOMAIN c : j > i => c[j].kind # kind
    <2>1. PICK i \in DOMAIN c :
             /\ c[i].kind = kind /\ c[i].arg = x
             /\ \A j \in DOMAIN c : j > i => c[j].kind # kind
      BY <1>2
    <2>2. i \in DOMAIN (c \o d) /\ (c \o d)[i] = c[i]
      BY ConcatFacts
    <2>3. \A j \in DOMAIN (c \o d) : j > i => (c \o d)[j].kind # kind
      BY <2>1, ConcatFacts
    <2> QED
      BY <2>1, <2>2, <2>3 DEF Heard
  <1> QED
    BY <1>1, <1>2 DEF Heard

\* The last report of a kind is the one that will be shown.
LEMMA HeardLast ==
    ASSUME NEW S, NEW c \in Seq(S), NEW r \in S, NEW shown
    PROVE  Heard(c \o <<r>>, r.kind, shown, r.arg)
  <1>1. <<r>> \in Seq(S) /\ Len(<<r>>) = 1 /\ <<r>>[1] = r
    OBVIOUS
  <1>2. /\ Len(c) + 1 \in DOMAIN (c \o <<r>>) /\ (c \o <<r>>)[Len(c) + 1] = r
        /\ DOMAIN (c \o <<r>>) = 1..(Len(c) + 1) /\ Len(c) \in Nat
    BY <1>1, ConcatFacts
  <1> QED
    BY <1>2 DEF Heard

\* Draining some of the reports, in order, does not change it either.
LEMMA HeardDrained ==
    ASSUME NEW S, NEW c \in Seq(S), NEW n \in 1..Len(c), NEW kind, NEW shown, NEW x,
           NEW k, Heard(c, kind, shown, x)
    PROVE  Heard(SubSeq(c, n + 1, Len(c)), kind,
                 LastOf(SubSeq(c, 1, n), {kind}, Report(k, shown)).arg, x)
  <1> DEFINE now == SubSeq(c, 1, n)
             rest == SubSeq(c, n + 1, Len(c))
             found == {i \in DOMAIN now : now[i].kind \in {kind}}
             last == LastOf(now, {kind}, Report(k, shown))
  <1>1. /\ DOMAIN c = 1..Len(c) /\ Len(c) \in Nat /\ n \in Nat
        /\ DOMAIN now = 1..n /\ \A i \in 1..n : now[i] = c[i]
        /\ DOMAIN rest = 1..(Len(c) - n)
        /\ \A i \in 1..(Len(c) - n) : rest[i] = c[n + i]
    OBVIOUS
  <1>2. last = IF found = {} THEN Report(k, shown) ELSE now[Max(found)]
    BY DEF LastOf
  <1>3. found = {i \in 1..n : c[i].kind = kind}
    BY <1>1
  <1> HIDE DEF now, rest, found, last
  <1>4. CASE shown = x /\ \A i \in DOMAIN c : c[i].kind # kind
    <2>1. found = {}
      BY <1>1, <1>3, <1>4
    <2>2. last.arg = shown
      BY <1>2, <2>1 DEF Report
    <2>3. ASSUME NEW i \in DOMAIN rest PROVE rest[i].kind # kind
      <3>1. n + i \in DOMAIN c /\ rest[i] = c[n + i]
        BY <1>1
      <3> QED
        BY <1>4, <3>1
    <2> QED
      BY <1>4, <2>2, <2>3 DEF Heard, last, now, rest
  <1>5. ASSUME NEW i \in DOMAIN c, c[i].kind = kind, c[i].arg = x,
               \A j \in DOMAIN c : j > i => c[j].kind # kind
        PROVE  Heard(rest, kind, last.arg, x)
    <2>1. CASE i > n
      <3>1. i - n \in DOMAIN rest /\ rest[i - n] = c[i]
        BY <1>1, <2>1
      <3>2. \A j \in DOMAIN rest : j > i - n => rest[j].kind # kind
        BY <1>1, <1>5, <2>1
      <3> QED
        BY <1>5, <3>1, <3>2 DEF Heard
    <2>2. CASE i <= n
      <3>1. i \in found /\ \A j \in found : i >= j
        BY <1>1, <1>3, <1>5, <2>2
      <3>2. Max(found) \in found /\ Max(found) >= i
        BY <3>1 DEF Max
      <3>3. Max(found) = i
        BY <1>1, <1>3, <3>1, <3>2
      <3>4. last.arg = x
        BY <1>1, <1>2, <1>3, <1>5, <3>1, <3>3
      <3>5. \A j \in DOMAIN rest : rest[j].kind # kind
        BY <1>1, <1>5, <2>2
      <3> QED
        BY <3>4, <3>5 DEF Heard
    <2> QED
      BY <1>1, <2>1, <2>2
  <1> QED
    BY <1>4, <1>5 DEF Heard, last, now, rest

\* A command is its kind and its argument.
LEMMA CommandIs ==
    ASSUME NEW c \in Commands
    PROVE  c = Cmd(c.kind, c.arg)
  BY DEF Commands, Cmd

LEMMA AheadConcat ==
    ASSUME NEW S, NEW c \in Seq(S), NEW d \in Seq(S), NEW mode,
           \A i \in DOMAIN d : d[i].kind # "SetExecutionMode", ReplayAhead(c, mode)
    PROVE  ReplayAhead(c \o d, mode)
  <1>1. CASE mode = "Replay" /\ \A i \in DOMAIN c : c[i].kind # "SetExecutionMode"
    BY <1>1, ConcatFacts DEF ReplayAhead
  <1>2. ASSUME NEW i \in DOMAIN c, c[i] = Cmd("SetExecutionMode", "Replay"),
               \A j \in DOMAIN c : j > i => c[j].kind # "SetExecutionMode"
        PROVE  ReplayAhead(c \o d, mode)
    <2>1. i \in DOMAIN (c \o d) /\ (c \o d)[i] = c[i]
      BY ConcatFacts
    <2>2. \A j \in DOMAIN (c \o d) : j > i => (c \o d)[j].kind # "SetExecutionMode"
      BY <1>2, ConcatFacts
    <2> QED
      BY <1>2, <2>1, <2>2 DEF ReplayAhead
  <1> QED
    BY <1>1, <1>2 DEF ReplayAhead

LEMMA AheadReplay ==
    ASSUME NEW S, NEW c \in Seq(S), Cmd("SetExecutionMode", "Replay") \in S, NEW mode
    PROVE  ReplayAhead(c \o <<Cmd("SetExecutionMode", "Replay")>>, mode)
  <1> DEFINE r == Cmd("SetExecutionMode", "Replay")
  <1>1. <<r>> \in Seq(S) /\ Len(<<r>>) = 1 /\ <<r>>[1] = r
    OBVIOUS
  <1> HIDE DEF r
  <1>2. /\ Len(c) + 1 \in DOMAIN (c \o <<r>>) /\ (c \o <<r>>)[Len(c) + 1] = r
        /\ DOMAIN (c \o <<r>>) = 1..(Len(c) + 1) /\ Len(c) \in Nat
    BY <1>1, ConcatFacts
  <1>3. \A j \in DOMAIN (c \o <<r>>) : ~(j > Len(c) + 1)
    BY <1>2
  <1> QED
    BY <1>2, <1>3 DEF ReplayAhead, r

\* The backend does a command: the next mode is the one it asks for, unless it
\* asks for a live one.
LEMMA AheadTail ==
    ASSUME NEW S, NEW c \in Seq(S), c # <<>>, NEW mode, NEW next, ReplayAhead(c, mode),
           IF c[1].kind # "SetExecutionMode" THEN next = mode
           ELSE c[1].arg = "Replay" => next = "Replay"
    PROVE  ReplayAhead(Tail(c), next)
  <1>1. CASE mode = "Replay" /\ \A i \in DOMAIN c : c[i].kind # "SetExecutionMode"
    <2>1. next = "Replay"
      BY <1>1, TailFacts
    <2>2. \A i \in DOMAIN Tail(c) : Tail(c)[i].kind # "SetExecutionMode"
      BY <1>1, TailFacts
    <2> QED
      BY <2>1, <2>2 DEF ReplayAhead
  <1>2. ASSUME NEW i \in DOMAIN c, c[i] = Cmd("SetExecutionMode", "Replay"),
               \A j \in DOMAIN c : j > i => c[j].kind # "SetExecutionMode"
        PROVE  ReplayAhead(Tail(c), next)
    <2>1. CASE i = 1
      <3>1. c[1].kind = "SetExecutionMode" /\ c[1].arg = "Replay"
        BY <1>2, <2>1 DEF Cmd
      <3>2. \A j \in DOMAIN Tail(c) : Tail(c)[j].kind # "SetExecutionMode"
        BY <1>2, <2>1, TailFacts
      <3> QED
        BY <3>1, <3>2 DEF ReplayAhead
    <2>2. CASE i # 1
      <3>1. i - 1 \in DOMAIN Tail(c) /\ Tail(c)[i - 1] = c[i]
        BY <2>2, TailFacts
      <3>2. \A j \in DOMAIN Tail(c) : j > i - 1 => Tail(c)[j].kind # "SetExecutionMode"
        BY <1>2, TailFacts
      <3> QED
        BY <1>2, <3>1, <3>2 DEF ReplayAhead
    <2> QED
      BY <2>1, <2>2
  <1> QED
    BY <1>1, <1>2 DEF ReplayAhead

LEMMA WillConcat ==
    ASSUME NEW S, NEW c \in Seq(S), NEW d \in Seq(S), NEW has, NEW id,
           \A i \in DOMAIN d : d[i] # Cmd("UnsubscribeMarketData", id), Will(c, has, id)
    PROVE  Will(c \o d, has, id)
  <1>1. CASE id \in has /\ \A i \in DOMAIN c : c[i] # Cmd("UnsubscribeMarketData", id)
    BY <1>1, ConcatFacts DEF Will
  <1>2. ASSUME NEW i \in DOMAIN c, c[i] = Cmd("SubscribeMarketData", id),
               \A j \in DOMAIN c : j > i => c[j] # Cmd("UnsubscribeMarketData", id)
        PROVE  Will(c \o d, has, id)
    <2>1. i \in DOMAIN (c \o d) /\ (c \o d)[i] = c[i]
      BY ConcatFacts
    <2>2. \A j \in DOMAIN (c \o d) :
             j > i => (c \o d)[j] # Cmd("UnsubscribeMarketData", id)
      BY <1>2, ConcatFacts
    <2> QED
      BY <1>2, <2>1, <2>2 DEF Will
  <1> QED
    BY <1>1, <1>2 DEF Will

\* What is asked for last will be subscribed.
LEMMA WillAsked ==
    ASSUME NEW S, NEW c \in Seq(S), NEW d \in Seq(S), NEW has, NEW id,
           NEW k \in DOMAIN d, d[k] = Cmd("SubscribeMarketData", id),
           \A i \in DOMAIN d : d[i] # Cmd("UnsubscribeMarketData", id)
    PROVE  Will(c \o d, has, id)
  <1>1. /\ k + Len(c) \in DOMAIN (c \o d) /\ (c \o d)[k + Len(c)] = d[k]
        /\ Len(c) \in Nat /\ DOMAIN c = 1..Len(c) /\ DOMAIN d = 1..Len(d) /\ Len(d) \in Nat
    BY ConcatFacts
  <1>2. ASSUME NEW j \in DOMAIN (c \o d), j > k + Len(c)
        PROVE  (c \o d)[j] # Cmd("UnsubscribeMarketData", id)
    <2>1. j \notin DOMAIN c
      BY <1>1, <1>2
    <2> QED
      BY <1>2, <2>1, ConcatFacts
  <1> QED
    BY <1>1, <1>2 DEF Will

\* The backend does a command that is not about the id.
LEMMA WillTail ==
    ASSUME NEW S, NEW c \in Seq(S), c # <<>>, NEW has, NEW id, Will(c, has, id),
           NEW next, id \in has => id \in next \/ c[1] = Cmd("UnsubscribeMarketData", id),
           c[1] = Cmd("SubscribeMarketData", id) => id \in next
    PROVE  Will(Tail(c), next, id)
  <1>1. CASE id \in has /\ \A i \in DOMAIN c : c[i] # Cmd("UnsubscribeMarketData", id)
    <2>1. id \in next
      BY <1>1, TailFacts
    <2>2. \A i \in DOMAIN Tail(c) : Tail(c)[i] # Cmd("UnsubscribeMarketData", id)
      BY <1>1, TailFacts
    <2> QED
      BY <2>1, <2>2 DEF Will
  <1>2. ASSUME NEW i \in DOMAIN c, c[i] = Cmd("SubscribeMarketData", id),
               \A j \in DOMAIN c : j > i => c[j] # Cmd("UnsubscribeMarketData", id)
        PROVE  Will(Tail(c), next, id)
    <2>1. CASE i = 1
      <3>1. id \in next
        BY <1>2, <2>1
      <3>2. \A j \in DOMAIN Tail(c) : Tail(c)[j] # Cmd("UnsubscribeMarketData", id)
        BY <1>2, <2>1, TailFacts
      <3> QED
        BY <3>1, <3>2 DEF Will
    <2>2. CASE i # 1
      <3>1. i - 1 \in DOMAIN Tail(c) /\ Tail(c)[i - 1] = c[i]
        BY <2>2, TailFacts
      <3>2. \A j \in DOMAIN Tail(c) :
               j > i - 1 => Tail(c)[j] # Cmd("UnsubscribeMarketData", id)
        BY <1>2, TailFacts
      <3> QED
        BY <1>2, <3>1, <3>2 DEF Will
    <2> QED
      BY <2>1, <2>2
  <1> QED
    BY <1>1, <1>2 DEF Will

-----------------------------------------------------------------------------
(* Types                                                                   *)

LEMMA CmdTypes ==
    /\ Cmd("VenueLogin", "none") \in Commands /\ Cmd("VenueLogout", "none") \in Commands
    /\ \A m \in Modes : Cmd("SetExecutionMode", m) \in Commands
    /\ \A s \in Sources : Cmd("ListInstruments", s) \in Commands
    /\ \A id \in Ids : /\ Cmd("SubscribeMarketData", id) \in Commands
                       /\ Cmd("UnsubscribeMarketData", id) \in Commands
  BY DEF Cmd, Commands

LEMMA ArgTypes ==
    ASSUME NEW c \in Commands
    PROVE  /\ c.kind = "SetExecutionMode" => c.arg \in Modes
           /\ c.kind = "ListInstruments" => c.arg \in Sources
           /\ c.kind = "SubscribeMarketData" => c.arg \in Ids
           /\ c.kind = "UnsubscribeMarketData" => c.arg \in Ids
  BY DEF Commands

LEMMA ReportTypes ==
    /\ \A v \in Venues : Report("VenueChanged", v) \in Reports
    /\ \A m \in Modes : Report("ExecutionModeChanged", m) \in Reports
    /\ \A k \in Status, s \in Sources : Report(k, s) \in Reports
  BY DEF Report, Reports

LEMMA ReportArgs ==
    ASSUME NEW r \in Reports
    PROVE  /\ r.kind = "VenueChanged" => r.arg \in Venues
           /\ r.kind = "ExecutionModeChanged" => r.arg \in Modes
           /\ r.kind \in Status => r.arg \in Sources
           /\ r.kind \in {"VenueChanged", "ExecutionModeChanged"} \union Status
  BY DEF Reports, Status

\* Every non-empty set of naturals has a least element, every bounded one a greatest.
LEMMA LeastExists ==
    ASSUME NEW T \in SUBSET Nat, T # {}
    PROVE  \E m \in T : \A k \in T : m <= k
  <1> DEFINE R == {p \in Nat \X Nat : p[1] < p[2]}
  <1>1. IsWellFoundedOn(R, Nat)
    BY NatLessThanWellFounded DEF OpToRel
  <1>2. \A x, y \in Nat : x < y => <<x, y>> \in R
    OBVIOUS
  <1> HIDE DEF R
  <1>3. PICK m \in T : \A k \in T : ~(<<k, m>> \in R)
    BY <1>1, WFMin
  <1>4. ASSUME NEW k \in T PROVE m <= k
    <2>1. m \in Nat /\ k \in Nat
      OBVIOUS
    <2>2. ~(k < m)
      BY <1>2, <1>3, <2>1
    <2> QED
      BY <2>1, <2>2
  <1> QED
    BY <1>4

LEMMA MaxExists ==
    ASSUME NEW n \in Nat, NEW T \in SUBSET (1..n), T # {}
    PROVE  Max(T) \in T
  <1> DEFINE below == {k \in Nat : n - k \in T}
  <1>1. below \in SUBSET Nat /\ below # {}
    <2>1. PICK i \in T : TRUE
      OBVIOUS
    <2>2. n - i \in Nat /\ n - (n - i) = i
      OBVIOUS
    <2> QED
      BY <2>1, <2>2
  <1>2. PICK m \in below : \A k \in below : m <= k
    BY <1>1, LeastExists
  <1>3. ASSUME NEW i \in T PROVE n - m >= i
    <2>1. i \in Nat /\ n - i \in Nat /\ n - (n - i) = i /\ m \in Nat
      OBVIOUS
    <2>2. m <= n - i
      BY <1>2, <2>1
    <2> QED
      BY <2>1, <2>2
  <1>4. \E x \in T : \A y \in T : x >= y
    BY <1>2, <1>3
  <1> QED
    BY <1>4 DEF Max

\* The last of some kinds is one of the reports, or the default.
LEMMA LastOfIs ==
    ASSUME NEW S, NEW c \in Seq(S), NEW kinds, NEW default
    PROVE  \/ LastOf(c, kinds, default) = default
           \/ \E i \in DOMAIN c : c[i].kind \in kinds /\ LastOf(c, kinds, default) = c[i]
  <1> DEFINE found == {i \in DOMAIN c : c[i].kind \in kinds}
  <1>1. LastOf(c, kinds, default) = IF found = {} THEN default ELSE c[Max(found)]
    BY DEF LastOf
  <1>2. found \in SUBSET (1..Len(c)) /\ Len(c) \in Nat
    OBVIOUS
  <1>3. \A i \in found : i \in DOMAIN c /\ c[i].kind \in kinds
    OBVIOUS
  <1> HIDE DEF found
  <1>4. found # {} => Max(found) \in found
    BY <1>2, MaxExists
  <1> QED
    BY <1>1, <1>3, <1>4

-----------------------------------------------------------------------------
(* What a command, a poll and a system do to the queue                     *)

LEMMA SetDead ==
    ASSUME NEW s \in Sessions, NEW d \in BOOLEAN
    PROVE  [s EXCEPT !.dead = d] \in Sessions
  BY DEF Sessions

LEMMA SetStored ==
    ASSUME NEW s \in Sessions, NEW t \in BOOLEAN
    PROVE  [s EXCEPT !.stored = t] \in Sessions
  BY DEF Sessions

LEMMA SetRefreshed ==
    ASSUME NEW s \in Sessions, NEW t \in BOOLEAN
    PROVE  [s EXCEPT !.warming = FALSE, !.stored = t] \in Sessions
  BY DEF Sessions

LEMMA PartTypes ==
    ASSUME NEW S, NEW c \in Seq(S), NEW n \in 1..Len(c)
    PROVE  SubSeq(c, 1, n) \in Seq(S) /\ SubSeq(c, n + 1, Len(c)) \in Seq(S)
  OBVIOUS

LEMMA PartFacts ==
    ASSUME NEW S, NEW c \in Seq(S), NEW n \in 1..Len(c)
    PROVE  /\ SubSeq(c, 1, n) \in Seq(S)
           /\ \A i \in DOMAIN SubSeq(c, 1, n) :
                 i \in DOMAIN c /\ SubSeq(c, 1, n)[i] = c[i]
           /\ \A i \in DOMAIN SubSeq(c, n + 1, Len(c)) :
                 i + n \in DOMAIN c /\ SubSeq(c, n + 1, Len(c))[i] = c[i + n]
  <1>1. /\ DOMAIN c = 1..Len(c) /\ Len(c) \in Nat /\ n \in Nat
        /\ SubSeq(c, 1, n) \in Seq(S)
        /\ DOMAIN SubSeq(c, 1, n) = 1..n /\ \A i \in 1..n : SubSeq(c, 1, n)[i] = c[i]
        /\ DOMAIN SubSeq(c, n + 1, Len(c)) = 1..(Len(c) - n)
        /\ \A i \in 1..(Len(c) - n) : SubSeq(c, n + 1, Len(c))[i] = c[n + i]
    OBVIOUS
  <1> QED
    BY <1>1

LEMMA ResetSession ==
    ASSUME NEW s \in Sessions, NEW v \in Venues
    PROVE  /\ [s EXCEPT !.venue = v, !.dead = FALSE, !.subscribed = {},
                        !.late = NoneLate, !.warming = FALSE] \in Sessions
           /\ [s EXCEPT !.venue = v, !.dead = FALSE, !.subscribed = {},
                        !.late = NoneLate, !.warming = TRUE] \in Sessions
  BY DEF Sessions, NoneLate

\* A call on an id goes on, or ends late.
LEMMA CountedSession ==
    ASSUME NEW s \in Sessions, NEW ids \in SUBSET Ids, NEW calls \in [Ids -> Nat]
    PROVE  /\ [s EXCEPT !.late = calls] \in Sessions
           /\ [s EXCEPT !.subscribed = ids] \in Sessions
           /\ [s EXCEPT !.subscribed = ids, !.late = calls] \in Sessions
           /\ [s EXCEPT !.late = calls, !.subscribed = ids] \in Sessions
  BY DEF Sessions

LEMMA SessionTypes ==
    ASSUME TypeInv
    PROVE  /\ session \in Sessions /\ worker \in Workers
           /\ worker.cmds \in Seq(Commands) /\ updates \in Seq(Reports)
           /\ TornDown \in Sessions /\ LoggedIn \in Sessions
           /\ TornDown.venue = "DISCONNECTED" /\ TornDown.mode = session.mode
           /\ LoggedIn.venue = "CONNECTED" /\ LoggedIn.mode = session.mode
  <1>1. session \in Sessions /\ worker \in Workers /\ updates \in Seq(Reports)
    BY DEF TypeInv
  <1>2. worker.cmds \in Seq(Commands)
    BY <1>1 DEF Workers
  <1>3. TornDown \in Sessions /\ LoggedIn \in Sessions
    <2>1. "DISCONNECTED" \in Venues /\ "CONNECTED" \in Venues /\ {} \in SUBSET Ids
          /\ TRUE \in BOOLEAN /\ FALSE \in BOOLEAN
      BY DEF Venues
    <2>2. TornDown \in Sessions
      BY <1>1, <2>1, ResetSession DEF TornDown
    <2>3. LoggedIn \in Sessions
      BY <1>1, <2>1, ResetSession DEF LoggedIn
    <2> QED
      BY <2>2, <2>3
  <1>4. /\ TornDown.venue = "DISCONNECTED" /\ TornDown.mode = session.mode
        /\ LoggedIn.venue = "CONNECTED" /\ LoggedIn.mode = session.mode
    BY <1>1 DEF TornDown, LoggedIn, Sessions
  <1> QED
    BY <1>1, <1>2, <1>3, <1>4

LEMMA TakesFacts ==
    ASSUME TypeInv, NEW kind, Takes(kind)
    PROVE  /\ worker.cmds # <<>> /\ worker.cmds[1] \in Commands
           /\ worker.cmds[1].kind = kind /\ Arg = worker.cmds[1].arg
           /\ worker.cmds[1] = Cmd(kind, Arg)
  <1>1. worker.cmds # <<>> /\ Head(worker.cmds).kind = kind
    BY DEF Takes
  <1>2. Head(worker.cmds) = worker.cmds[1] /\ worker.cmds[1] \in Commands
    BY <1>1, SessionTypes, TailFacts
  <1> QED
    BY <1>1, <1>2, CommandIs DEF Arg

LEMMA DoneFacts ==
    ASSUME TypeInv, worker.cmds # <<>>, Done
    PROVE  /\ worker' \in Workers /\ worker'.cmds = Tail(worker.cmds)
           /\ worker'.seen = worker.seen /\ worker'.busy = worker.busy
  <1>1. worker \in Workers /\ Tail(worker.cmds) \in Seq(Commands)
    BY SessionTypes, TailFacts
  <1> QED
    BY <1>1 DEF Done, Workers

LEMMA SendFacts ==
    ASSUME TypeInv, NEW d \in Seq(Commands), Send(d)
    PROVE  /\ worker' \in Workers /\ worker'.cmds = worker.cmds \o d
           /\ worker'.seen = worker.seen /\ worker'.busy = worker.busy
  <1>1. worker \in Workers /\ worker.cmds \o d \in Seq(Commands)
    BY SessionTypes, ConcatFacts
  <1> QED
    BY <1>1 DEF Send, Workers

LEMMA AppendIs ==
    ASSUME NEW S, NEW c \in Seq(S), NEW r \in S
    PROVE  /\ Append(c, r) = c \o <<r>> /\ <<r>> \in Seq(S)
           /\ DOMAIN <<r>> = {1} /\ <<r>>[1] = r
  OBVIOUS

LEMMA EmptyIs ==
    ASSUME NEW S, NEW c \in Seq(S)
    PROVE  c \o <<>> = c /\ <<>> \in Seq(S) /\ DOMAIN <<>> = {}
  OBVIOUS

-----------------------------------------------------------------------------
(* Every step keeps the types                                              *)

LEMMA InitTypes == Init => TypeInv
  <1> SUFFICES ASSUME Init PROVE TypeInv
    OBVIOUS
  <1>1. session \in Sessions
    BY DEF Init, Sessions, Venues, Modes, NoneLate
  <1>2. worker \in Workers
    <2>1. Cmd("ListInstruments", "ReplayCatalogFallback") \in Commands
      BY CmdTypes DEF Sources
    <2>2. worker.cmds \in Seq(Commands)
      BY <2>1 DEF Init
    <2> QED
      BY <2>2 DEF Init, Workers, Unknown
  <1>3. ui \in [venue : Venues, mode : Modes, changed : BOOLEAN]
    BY DEF Init, Venues, Modes
  <1>4. chain \in [venue : Venues \union Unknown, mode : Modes \union Unknown,
                  ids : SUBSET Ids, pending : BOOLEAN]
    BY DEF Init, Unknown
  <1>5. tickers \in [source : Sources \union {"Unknown"}, status : Status]
    BY DEF Init, Status
  <1>6. /\ updates \in Seq(Reports) /\ registry \in SUBSET Ids
        /\ ops \in Nat /\ skipped \in SUBSET Ids
    BY DEF Init
  <1>7. hasty \in BOOLEAN
    BY Zenon DEF Init
  <1> QED
    BY <1>1, <1>2, <1>3, <1>4, <1>5, <1>6, <1>7 DEF TypeInv

\* The reports of one more step.
LEMMA OneMore ==
    ASSUME TypeInv, NEW r \in Reports
    PROVE  Append(updates, r) \in Seq(Reports)
  BY SessionTypes

LEMMA LoginTypes == TypeInv /\ VenueLogin => TypeInv'
  <1> SUFFICES ASSUME TypeInv, VenueLogin PROVE TypeInv'
    OBVIOUS
  <1>1. worker' \in Workers
    BY TakesFacts, DoneFacts DEF VenueLogin
  <1>2. session' \in Sessions
    BY SessionTypes DEF VenueLogin
  <1>3. updates' \in Seq(Reports)
    BY SessionTypes, OneMore, ReportTypes DEF VenueLogin, Venues
  <1> QED
    BY <1>1, <1>2, <1>3 DEF VenueLogin, TypeInv

LEMMA ModeTypes == TypeInv /\ SetExecutionMode => TypeInv'
  <1> SUFFICES ASSUME TypeInv, SetExecutionMode PROVE TypeInv'
    OBVIOUS
  <1>1. worker' \in Workers
    BY TakesFacts, DoneFacts DEF SetExecutionMode
  <1>2. Arg \in Modes /\ session.mode \in Modes /\ session \in Sessions
    <2>1. Takes("SetExecutionMode")
      BY DEF SetExecutionMode
    <2>2. PICK c \in Commands : c.kind = "SetExecutionMode" /\ Arg = c.arg
      BY <2>1, TakesFacts
    <2>3. Arg \in Modes
      BY <2>2, ArgTypes
    <2>4. session \in Sessions
      BY SessionTypes
    <2> QED
      BY <2>3, <2>4 DEF Sessions
  <1>3. PICK m \in Modes : session' = [session EXCEPT !.mode = m]
    BY <1>2 DEF SetExecutionMode
  <1>4. session' \in Sessions
    BY <1>2, <1>3 DEF Sessions
  <1> QED
    BY <1>1, <1>4 DEF SetExecutionMode, TypeInv

LEMMA ListTypes == TypeInv /\ (ListInstruments \/ ListInstrumentsAnswered) => TypeInv'
  <1> SUFFICES ASSUME TypeInv, ListInstruments \/ ListInstrumentsAnswered PROVE TypeInv'
    OBVIOUS
  <1>1. CASE ListInstruments
    <2>1. Arg \in Sources
      BY <1>1, TakesFacts, ArgTypes DEF ListInstruments
    <2>2. Tail(worker.cmds) \in Seq(Commands) /\ worker \in Workers
      BY <1>1, TakesFacts, SessionTypes, TailFacts DEF ListInstruments
    <2>3. worker' \in Workers
      BY <1>1, <2>1, <2>2 DEF ListInstruments, Workers
    <2>4. updates' \in Seq(Reports)
      BY <1>1, <2>1, OneMore, ReportTypes DEF ListInstruments, Status
    <2> QED
      BY <1>1, <2>3, <2>4 DEF ListInstruments, TypeInv
  <1>2. CASE ListInstrumentsAnswered
    <2>1. worker \in Workers /\ worker.busy \in Sources
      BY <1>2, SessionTypes DEF ListInstrumentsAnswered, Workers
    <2>2. worker' \in Workers
      BY <1>2, <2>1 DEF ListInstrumentsAnswered, Workers
    <2>3. PICK outcome \in ListOutcomes(worker.busy) :
             /\ updates' = Append(updates, Report(outcome, worker.busy))
             /\ session' = [session EXCEPT
                    !.stored = @ \/ (outcome = "Loaded" /\ worker.busy = "LiveVenue")]
      BY <1>2 DEF ListInstrumentsAnswered
    <2>4. outcome \in Status
      BY <2>3 DEF ListOutcomes, Status
    <2>5. updates' \in Seq(Reports)
      BY <2>1, <2>3, <2>4, OneMore, ReportTypes
    <2>6. session' \in Sessions
      <3>1. session \in Sessions
        BY SessionTypes
      <3>2. PICK t \in BOOLEAN : session' = [session EXCEPT !.stored = t]
        BY <2>3, Zenon
      <3> QED
        BY <3>1, <3>2, SetStored
    <2> QED
      BY <1>2, <2>2, <2>5, <2>6 DEF ListInstrumentsAnswered, TypeInv
  <1> QED
    BY <1>1, <1>2

LEMMA SubscribeTypes ==
    TypeInv /\ (SubscribeMarketData \/ UnsubscribeMarketData) => TypeInv'
  <1> SUFFICES ASSUME TypeInv, SubscribeMarketData \/ UnsubscribeMarketData PROVE TypeInv'
    OBVIOUS
  <1>1. worker' \in Workers
    BY TakesFacts, DoneFacts DEF SubscribeMarketData, UnsubscribeMarketData
  <1>2. Arg \in Ids /\ session \in Sessions /\ session.subscribed \in SUBSET Ids
    <2>1. Takes("SubscribeMarketData") \/ Takes("UnsubscribeMarketData")
      BY DEF SubscribeMarketData, UnsubscribeMarketData
    <2>2. PICK c \in Commands : /\ c.kind \in {"SubscribeMarketData", "UnsubscribeMarketData"}
                                /\ Arg = c.arg
      BY <2>1, TakesFacts
    <2>3. Arg \in Ids
      BY <2>2, ArgTypes
    <2>4. session \in Sessions
      BY SessionTypes
    <2> QED
      BY <2>3, <2>4 DEF Sessions
  <1>3. session.late[Arg] \in Nat /\ session.late[Arg] + 1 \in Nat
    BY <1>2 DEF Sessions
  <1>4. session' \in Sessions
    <2> DEFINE more == session.subscribed \union {Arg}
               less == session.subscribed \ {Arg}
               calls == [session.late EXCEPT ![Arg] = @ + 1]
    <2>1. more \in SUBSET Ids /\ less \in SUBSET Ids /\ calls \in [Ids -> Nat]
      BY <1>2, <1>3 DEF Sessions
    <2>2. \/ session' = session
          \/ session' = [session EXCEPT !.subscribed = more]
          \/ session' = [session EXCEPT !.subscribed = less]
          \/ session' = [session EXCEPT !.subscribed = more, !.late = calls]
          \/ session' = [session EXCEPT !.late = calls]
      BY DEF SubscribeMarketData, UnsubscribeMarketData
    <2> HIDE DEF more, less, calls
    <2>3. /\ [session EXCEPT !.subscribed = more] \in Sessions
          /\ [session EXCEPT !.subscribed = less] \in Sessions
          /\ [session EXCEPT !.subscribed = more, !.late = calls] \in Sessions
          /\ [session EXCEPT !.late = calls] \in Sessions
      BY <1>2, <2>1, CountedSession
    <2> QED
      BY <1>2, <2>2, <2>3, Zenon
  <1>5. skipped' \in SUBSET Ids
    BY <1>2 DEF SubscribeMarketData, UnsubscribeMarketData, TypeInv
  <1>6. ops' \in Nat
    BY DEF SubscribeMarketData, UnsubscribeMarketData, Op, TypeInv
  <1> QED
    BY <1>1, <1>4, <1>5, <1>6 DEF SubscribeMarketData, UnsubscribeMarketData, TypeInv

LEMMA PollTypes == TypeInv /\ Poll => TypeInv'
  <1> SUFFICES ASSUME TypeInv, Poll PROVE TypeInv'
    OBVIOUS
  <1>1. session.venue \in Venues /\ session.mode \in Modes /\ worker \in Workers
    BY SessionTypes DEF Sessions
  <1>2. worker' \in Workers
    BY <1>1 DEF Poll, Workers
  <1>3. /\ Report("VenueChanged", session.venue) \in Reports
        /\ Report("ExecutionModeChanged", session.mode) \in Reports
    BY <1>1, ReportTypes
  <1>4. updates' \in Seq(Reports)
    BY <1>3, SessionTypes DEF Poll
  <1> QED
    BY <1>2, <1>4 DEF Poll, TypeInv

LEMMA DrainTypes == ASSUME NEW marks, TypeInv, Drain(marks) PROVE TypeInv'
  <1>1. PICK n \in 1..Len(updates) :
          LET now == SubSeq(updates, 1, n)
              list == LastOf(now, Status, Report(tickers.status, tickers.source))
          IN /\ updates' = SubSeq(updates, n + 1, Len(updates))
             /\ ui' = [venue |-> LastOf(now, {"VenueChanged"}, Report("", ui.venue)).arg,
                       mode |-> LastOf(now, {"ExecutionModeChanged"},
                                       Report("", ui.mode)).arg,
                       changed |-> ui.changed \/ \E i \in 1..n : marks[now[i].kind]]
             /\ tickers' = [source |-> list.arg, status |-> list.kind]
    BY DEF Drain
  <1> DEFINE now == SubSeq(updates, 1, n)
             venue == LastOf(now, {"VenueChanged"}, Report("", ui.venue))
             mode == LastOf(now, {"ExecutionModeChanged"}, Report("", ui.mode))
             list == LastOf(now, Status, Report(tickers.status, tickers.source))
  <1>2. now \in Seq(Reports) /\ updates' \in Seq(Reports)
    BY <1>1, SessionTypes, PartTypes
  <1>3. \A i \in DOMAIN now : now[i] \in Reports
    BY <1>2
  <1>4. /\ ui' = [venue |-> venue.arg, mode |-> mode.arg,
                  changed |-> ui.changed \/ \E i \in 1..n : marks[now[i].kind]]
        /\ tickers' = [source |-> list.arg, status |-> list.kind]
    BY <1>1
  <1>5. /\ ui.venue \in Venues /\ ui.mode \in Modes
        /\ tickers.status \in Status /\ tickers.source \in Sources \union {"Unknown"}
    BY DEF TypeInv
  <1>6. venue.arg \in Venues
    <2>1. \/ venue = Report("", ui.venue)
          \/ \E i \in DOMAIN now : now[i].kind \in {"VenueChanged"} /\ venue = now[i]
      BY <1>2, LastOfIs
    <2> HIDE DEF venue, now
    <2>2. CASE venue = Report("", ui.venue)
      BY <1>5, <2>2 DEF Report
    <2>3. ASSUME NEW i \in DOMAIN now, now[i].kind = "VenueChanged", venue = now[i]
          PROVE  venue.arg \in Venues
      BY <1>3, <2>3, ReportArgs
    <2> QED
      BY <2>1, <2>2, <2>3
  <1>7. mode.arg \in Modes
    <2>1. \/ mode = Report("", ui.mode)
          \/ \E i \in DOMAIN now : now[i].kind \in {"ExecutionModeChanged"} /\ mode = now[i]
      BY <1>2, LastOfIs
    <2> HIDE DEF mode, now
    <2>2. CASE mode = Report("", ui.mode)
      BY <1>5, <2>2 DEF Report
    <2>3. ASSUME NEW i \in DOMAIN now, now[i].kind = "ExecutionModeChanged", mode = now[i]
          PROVE  mode.arg \in Modes
      BY <1>3, <2>3, ReportArgs
    <2> QED
      BY <2>1, <2>2, <2>3
  <1>8. list.kind \in Status /\ list.arg \in Sources \union {"Unknown"}
    <2>1. \/ list = Report(tickers.status, tickers.source)
          \/ \E i \in DOMAIN now : now[i].kind \in Status /\ list = now[i]
      BY <1>2, LastOfIs
    <2> HIDE DEF list, now
    <2> QED
      BY <1>3, <1>5, <2>1, ReportArgs DEF Report
  <1> HIDE DEF venue, mode, list
  <1>9. /\ ui' \in [venue : Venues, mode : Modes, changed : BOOLEAN]
        /\ tickers' \in [source : Sources \union {"Unknown"}, status : Status]
    <2>1. PICK b \in BOOLEAN : ui' = [venue |-> venue.arg, mode |-> mode.arg, changed |-> b]
      BY <1>4, Zenon
    <2> QED
      BY <1>4, <1>6, <1>7, <1>8, <2>1
  <1> QED
    BY <1>2, <1>9 DEF Drain, TypeInv

-----------------------------------------------------------------------------
(* What the chain of one frame asks for                                    *)

LEMMA ConcatAll ==
    ASSUME NEW S, NEW c \in Seq(S), NEW d \in Seq(S), NEW P,
           \A i \in DOMAIN c : c[i] \in P, \A i \in DOMAIN d : d[i] \in P
    PROVE  c \o d \in Seq(S) /\ \A i \in DOMAIN (c \o d) : (c \o d)[i] \in P
  <1>1. ASSUME NEW i \in DOMAIN (c \o d) PROVE (c \o d)[i] \in P
    BY ConcatFacts
  <1> QED
    BY <1>1, ConcatFacts

LEMMA IdsFinite ==
    ASSUME NEW ids \in SUBSET Ids
    PROVE  IsFiniteSet(ids) /\ Cardinality(ids) \in Nat
  BY SessionAssumption, FS_Subset, FS_CardinalityType

\* One command for each of the ids, in some order.
LEMMA AsksAre ==
    ASSUME NEW ids \in SUBSET Ids, NEW kind \in {"SubscribeMarketData", "UnsubscribeMarketData"},
           NEW asks \in Asks(kind, ids)
    PROVE  /\ asks \in Seq(Commands)
           /\ \A i \in DOMAIN asks : \E id \in ids : asks[i] = Cmd(kind, id)
           /\ \A id \in ids : \E i \in DOMAIN asks : asks[i] = Cmd(kind, id)
  <1> DEFINE D == 1..Cardinality(ids)
  <1>1. IsFiniteSet(ids) /\ Cardinality(ids) \in Nat
    BY IdsFinite
  <1>2. PICK s \in SetToSeqs(ids) : asks = [i \in DOMAIN s |-> Cmd(kind, s[i])]
    BY DEF Asks
  <1>3. s \in [D -> ids] /\ \A i, j \in D : i # j => s[i] # s[j]
    BY <1>2 DEF SetToSeqs
  <1>4. asks = [i \in D |-> Cmd(kind, s[i])] /\ DOMAIN asks = D
    BY <1>2, <1>3
  <1>5. \A id \in ids : Cmd(kind, id) \in Commands
    BY CmdTypes
  <1>6. \A i \in D : s[i] \in ids /\ asks[i] = Cmd(kind, s[i])
    BY <1>3, <1>4
  <1>7. asks \in [D -> Commands]
    BY <1>3, <1>4, <1>5, <1>6
  <1>8. asks \in Seq(Commands)
    BY <1>1, <1>7
  <1>9. IsFiniteSet(D) /\ Cardinality(D) = Cardinality(ids)
    BY <1>1, FS_Interval
  <1>10. s \in Injection(D, ids)
    BY <1>3 DEF Injection, IsInjective
  <1>11. s \in Surjection(D, ids)
    BY <1>1, <1>9, <1>10, FS_Injection
  <1>12. \A id \in ids : \E i \in D : s[i] = id
    BY <1>11 DEF Surjection
  <1> QED
    BY <1>4, <1>6, <1>8, <1>12

\* What the systems want is listed, and a chain that wants all it may, wants all.
LEMMA WantedIs ==
    ASSUME TypeInv, NEW wanted \in Subscribed(chain.ids)
    PROVE  /\ wanted \in SUBSET Ids /\ wanted \subseteq registry
           /\ IsLive(ui.mode) /\ chain.mode = ui.mode => wanted = registry \ chain.ids
           /\ IsLive(ui.mode) /\ chain.mode # ui.mode /\ Cardinality(wanted) # SubscriptionCap
                 => wanted = chain.ids \intersect registry
  <1> DEFINE survivors == chain.ids \intersect registry
             sizes == {Cardinality(survivors), SubscriptionCap}
  <1>1. registry \in SUBSET Ids /\ survivors \in SUBSET Ids
    BY DEF TypeInv
  <1>2. CASE ~IsLive(ui.mode)
    BY <1>1, <1>2 DEF Subscribed
  <1>3. CASE IsLive(ui.mode) /\ chain.mode = ui.mode
    BY <1>1, <1>3 DEF Subscribed
  <1>4. CASE IsLive(ui.mode) /\ chain.mode # ui.mode
    <2>1. wanted \in kSubset(Min(sizes), survivors)
      BY <1>4 DEF Subscribed
    <2>2. wanted \in SUBSET survivors /\ Cardinality(wanted) = Min(sizes)
      BY <2>1 DEF kSubset
    <2>3. IsFiniteSet(survivors) /\ Cardinality(survivors) \in Nat /\ SubscriptionCap \in Nat
      BY <1>1, IdsFinite, SessionAssumption
    <2>4. \E x \in sizes : \A y \in sizes : x =< y
      BY <2>3
    <2>5. Min(sizes) \in sizes
      BY <2>4 DEF Min
    <2>6. Cardinality(wanted) # SubscriptionCap => Cardinality(survivors) = Cardinality(wanted)
      BY <2>2, <2>5
    <2>7. Cardinality(survivors) = Cardinality(wanted) => survivors = wanted
      BY <2>2, <2>3, FS_Subset
    <2> QED
      BY <1>1, <1>4, <2>2, <2>6, <2>7
  <1> QED
    BY <1>2, <1>3, <1>4

\* One frame: the commands it sends and the ids it leaves out.
LEMMA ChainAsks ==
    ASSUME TypeInv, Chain
    PROVE  \E wanted \in Subscribed(chain.ids), d \in Seq(Commands) :
              /\ Send(d) /\ skipped' = Unasked(wanted) \ wanted
              /\ \A i \in DOMAIN d :
                    d[i].kind \in {"ListInstruments", "SubscribeMarketData",
                                   "UnsubscribeMarketData"}
              /\ \A i \in DOMAIN d :
                    d[i].kind = "UnsubscribeMarketData" => d[i].arg \in Removed
              /\ \A id \in wanted :
                    \E i \in DOMAIN d : d[i] = Cmd("SubscribeMarketData", id)
  <1> DEFINE fetch == IF FetchesUniverse
                      THEN <<Cmd("ListInstruments", "LiveVenue")>> ELSE <<>>
  <1>0. PICK wanted \in Subscribed(chain.ids) :
           \E unsubs \in Asks("UnsubscribeMarketData", Removed) :
           \E subs \in Asks("SubscribeMarketData", wanted) :
              Send(fetch \o unsubs \o subs) /\ skipped' = Unasked(wanted) \ wanted
    BY DEF Chain, ChainWith
  <1>1. PICK unsubs \in Asks("UnsubscribeMarketData", Removed),
             subs \in Asks("SubscribeMarketData", wanted) :
           Send(fetch \o unsubs \o subs) /\ skipped' = Unasked(wanted) \ wanted
    BY <1>0
  <1>2. wanted \in SUBSET Ids /\ Removed \in SUBSET Ids
    BY WantedIs DEF Removed, TypeInv
  <1>3. /\ fetch \in Seq(Commands)
        /\ \A i \in DOMAIN fetch : fetch[i].kind = "ListInstruments"
    <2>1. Cmd("ListInstruments", "LiveVenue") \in Commands
      BY CmdTypes DEF Sources
    <2>2. /\ <<>> \in Seq(Commands) /\ DOMAIN <<>> = {}
          /\ <<Cmd("ListInstruments", "LiveVenue")>> \in Seq(Commands)
          /\ \A i \in DOMAIN <<Cmd("ListInstruments", "LiveVenue")>> :
                <<Cmd("ListInstruments", "LiveVenue")>>[i].kind = "ListInstruments"
      BY <2>1 DEF Cmd
    <2> QED
      BY <2>2
  <1> HIDE DEF fetch
  <1>4. /\ unsubs \in Seq(Commands)
        /\ \A i \in DOMAIN unsubs :
              unsubs[i].kind = "UnsubscribeMarketData" /\ unsubs[i].arg \in Removed
    BY <1>2, AsksAre DEF Cmd
  <1>5. /\ subs \in Seq(Commands)
        /\ \A i \in DOMAIN subs : subs[i].kind = "SubscribeMarketData"
        /\ \A id \in wanted : \E i \in DOMAIN subs : subs[i] = Cmd("SubscribeMarketData", id)
    BY <1>2, AsksAre DEF Cmd
  <1> DEFINE may == {c \in Commands :
                       \/ c.kind = "ListInstruments" \/ c.kind = "SubscribeMarketData"
                       \/ c.kind = "UnsubscribeMarketData" /\ c.arg \in Removed}
             first == fetch \o unsubs
             d == first \o subs
  <1>6. first \in Seq(Commands) /\ \A i \in DOMAIN first : first[i] \in may
    <2>1. /\ \A i \in DOMAIN fetch : fetch[i] \in may
          /\ \A i \in DOMAIN unsubs : unsubs[i] \in may
      BY <1>3, <1>4
    <2> HIDE DEF may
    <2> QED
      BY <1>3, <1>4, <2>1, ConcatAll
  <1> HIDE DEF first
  <1>7. d \in Seq(Commands) /\ \A i \in DOMAIN d : d[i] \in may
    <2>1. \A i \in DOMAIN subs : subs[i] \in may
      BY <1>5
    <2> HIDE DEF may
    <2> QED
      BY <1>5, <1>6, <2>1, ConcatAll
  <1>8. \A id \in wanted : \E i \in DOMAIN d : d[i] = Cmd("SubscribeMarketData", id)
    <2>1. \A k \in DOMAIN subs : k + Len(first) \in DOMAIN d /\ d[k + Len(first)] = subs[k]
      BY <1>5, <1>6, ConcatFacts
    <2> HIDE DEF d
    <2> QED
      BY <1>5, <2>1
  <1>9. Send(d)
    BY <1>1 DEF first
  <1> HIDE DEF d
  <1> QED
    BY <1>1, <1>7, <1>8, <1>9

-----------------------------------------------------------------------------
(* Every step keeps the types: the systems, the user and the venue         *)

LEMMA AutoReplayTypes == TypeInv /\ AutoReplay => TypeInv'
  <1> SUFFICES ASSUME TypeInv, AutoReplay PROVE TypeInv'
    OBVIOUS
  <1>1. <<Cmd("SetExecutionMode", "Replay")>> \in Seq(Commands)
    BY CmdTypes DEF Modes
  <1>2. worker' \in Workers
    BY <1>1, SendFacts, SessionTypes DEF AutoReplay
  <1>3. ui' \in [venue : Venues, mode : Modes, changed : BOOLEAN]
    BY DEF AutoReplay, TypeInv, Modes
  <1> QED
    BY <1>2, <1>3 DEF AutoReplay, TypeInv

LEMMA ChainTypes == TypeInv /\ Chain => TypeInv'
  <1> SUFFICES ASSUME TypeInv, Chain PROVE TypeInv'
    OBVIOUS
  <1>1. PICK wanted \in Subscribed(chain.ids), d \in Seq(Commands) :
           Send(d) /\ skipped' = Unasked(wanted) \ wanted
    BY ChainAsks
  <1>2. worker' \in Workers
    BY <1>1, SendFacts
  <1>3. skipped' \in SUBSET Ids
    BY <1>1 DEF Unasked, TypeInv
  <1>4. tickers' \in [source : Sources \union {"Unknown"}, status : Status]
    <2>1. [source |-> "Unknown", status |-> "NotFetched"]
             \in [source : Sources \union {"Unknown"}, status : Status]
      BY DEF Status
    <2> QED
      BY <2>1 DEF Chain, ChainWith, Invalidated, TypeInv
  <1>5. /\ chain'.pending \in BOOLEAN
        /\ chain' = [venue |-> ui.venue, mode |-> ui.mode, ids |-> registry,
                     pending |-> chain'.pending]
    BY Zenon DEF Chain, ChainWith, Noticed
  <1>6. chain' \in [venue : Venues \union Unknown, mode : Modes \union Unknown,
                    ids : SUBSET Ids, pending : BOOLEAN]
    <2>1. ui.venue \in Venues /\ ui.mode \in Modes /\ registry \in SUBSET Ids
      BY DEF TypeInv
    <2> QED
      BY <1>5, <2>1
  <1> QED
    BY <1>2, <1>3, <1>4, <1>6 DEF Chain, ChainWith, TypeInv

LEMMA CommandTypes ==
    ASSUME TypeInv, NEW kind, NEW arg, Cmd(kind, arg) \in Commands, Command(kind, arg)
    PROVE  TypeInv'
  <1>0. <<Cmd(kind, arg)>> \in Seq(Commands)
    OBVIOUS
  <1>1. worker' \in Workers
    BY <1>0, SendFacts DEF Command
  <1>2. hasty' \in BOOLEAN
    BY Zenon DEF Command
  <1> QED
    BY <1>1, <1>2 DEF Command, Op, TypeInv

LEMMA ListsTypes == TypeInv /\ (RetryPending \/ OpenPicker) => TypeInv'
  <1> SUFFICES ASSUME TypeInv, RetryPending \/ OpenPicker PROVE TypeInv'
    OBVIOUS
  <1>1. <<Cmd("ListInstruments", "LiveVenue")>> \in Seq(Commands)
    BY CmdTypes DEF Sources
  <1>2. worker' \in Workers
    BY <1>1, SendFacts DEF RetryPending, OpenPicker
  <1> QED
    BY <1>2 DEF RetryPending, OpenPicker, Op, TypeInv

LEMMA WorldTypes == TypeInv /\ World => TypeInv'
  <1> SUFFICES ASSUME TypeInv, World PROVE TypeInv'
    OBVIOUS
  <1>1. CASE Connect
    BY <1>1, CommandTypes, CmdTypes DEF Connect
  <1>2. CASE Disconnect
    BY <1>2, CommandTypes, CmdTypes DEF Disconnect
  <1>3. CASE ChooseMode
    BY <1>3, CommandTypes, CmdTypes DEF ChooseMode
  <1>4. CASE FileNew
    BY <1>4, CommandTypes, CmdTypes DEF FileNew
  <1>5. CASE EditRegistry
    BY <1>5 DEF EditRegistry, Op, TypeInv
  <1>6. CASE OpenPicker
    BY <1>6, ListsTypes
  <1>7. CASE RunnerDies
    <2>1. PICK d \in BOOLEAN : session' = [session EXCEPT !.dead = d]
      BY <1>7, Zenon DEF RunnerDies
    <2>2. session' \in Sessions
      BY <2>1, SetDead DEF TypeInv
    <2> QED
      BY <1>7, <2>2 DEF RunnerDies, Op, TypeInv
  <1> QED
    BY <1>1, <1>2, <1>3, <1>4, <1>5, <1>6, <1>7 DEF World

LEMMA RefreshTypes == TypeInv /\ FirstRefreshEnds => TypeInv'
  <1> SUFFICES ASSUME TypeInv, FirstRefreshEnds PROVE TypeInv'
    OBVIOUS
  <1>1. PICK t \in BOOLEAN : session' = [session EXCEPT !.warming = FALSE, !.stored = t]
    BY Zenon DEF FirstRefreshEnds
  <1>2. session' \in Sessions
    BY <1>1, SetRefreshed DEF TypeInv
  <1> QED
    BY <1>2 DEF FirstRefreshEnds, TypeInv

LEMMA LateTypes == TypeInv /\ LateCallEnds => TypeInv'
  <1> SUFFICES ASSUME TypeInv, LateCallEnds PROVE TypeInv'
    OBVIOUS
  <1>1. PICK id \in Ids :
          /\ session.late[id] > 0
          /\ \/ /\ session' = [session EXCEPT !.late[id] = @ - 1]
                /\ UNCHANGED skipped
             \/ /\ session' = [session EXCEPT !.late[id] = @ - 1,
                                              !.subscribed = @ \ {id}]
                /\ skipped' = skipped \union ({id} \intersect session.subscribed)
    BY DEF LateCallEnds
  <1>2. /\ session \in Sessions /\ session.subscribed \in SUBSET Ids
        /\ session.late[id] \in Nat /\ skipped \in SUBSET Ids
    BY DEF TypeInv, Sessions
  <1>3. session.late[id] - 1 \in Nat /\ session.subscribed \ {id} \in SUBSET Ids
    BY <1>1, <1>2
  <1>4. session' \in Sessions
    <2> DEFINE less == session.subscribed \ {id}
               calls == [session.late EXCEPT ![id] = @ - 1]
    <2>1. \/ session' = [session EXCEPT !.late = calls]
          \/ session' = [session EXCEPT !.late = calls, !.subscribed = less]
      BY <1>1
    <2>2. less \in SUBSET Ids /\ calls \in [Ids -> Nat]
      BY <1>2, <1>3 DEF Sessions
    <2> HIDE DEF less, calls
    <2>3. /\ [session EXCEPT !.late = calls] \in Sessions
          /\ [session EXCEPT !.late = calls, !.subscribed = less] \in Sessions
      BY <1>2, <2>2, CountedSession
    <2> QED
      BY <2>1, <2>3, Zenon
  <1>5. skipped' \in SUBSET Ids
    BY <1>1, <1>2
  <1> QED
    BY <1>4, <1>5 DEF LateCallEnds, TypeInv

LEMMA NextTypes == TypeInv /\ [Next]_vars => TypeInv'
  <1> SUFFICES ASSUME TypeInv, [Next]_vars PROVE TypeInv'
    OBVIOUS
  <1>1. CASE VenueLogin
    BY <1>1, LoginTypes
  <1>2. CASE VenueLogout
    BY <1>2, TakesFacts, DoneFacts, SessionTypes DEF VenueLogout, TypeInv
  <1>3. CASE SetExecutionMode
    BY <1>3, ModeTypes
  <1>4. CASE ListInstruments \/ ListInstrumentsAnswered
    BY <1>4, ListTypes
  <1>5. CASE SubscribeMarketData \/ UnsubscribeMarketData
    BY <1>5, SubscribeTypes
  <1>6. CASE Poll
    BY <1>6, PollTypes
  <1>7. CASE StatusUpdate
    BY <1>7, DrainTypes DEF StatusUpdate
  <1>8. CASE AutoReplay
    BY <1>8, AutoReplayTypes
  <1>9. CASE Chain
    BY <1>9, ChainTypes
  <1>10. CASE RetryPending
    BY <1>10, ListsTypes
  <1>11. CASE FirstRefreshEnds
    BY <1>11, RefreshTypes
  <1>12. CASE World
    BY <1>12, WorldTypes
  <1>13. CASE UNCHANGED vars
    BY <1>13 DEF vars, TypeInv
  <1>14. CASE LateCallEnds
    BY <1>14, LateTypes
  <1> QED
    BY <1>1, <1>2, <1>3, <1>4, <1>5, <1>6, <1>7, <1>8, <1>9, <1>10, <1>11, <1>12, <1>13,
       <1>14 DEF Next, Work

-----------------------------------------------------------------------------
(* The worker's steps keep what is shown and subscribed on its way         *)

\* A report of the venue is what will be shown of it, and nothing to the mode.
LEMMA VenueReported ==
    ASSUME TypeInv, NEW v \in Venues, updates' = Append(updates, Report("VenueChanged", v)),
           UNCHANGED ui
    PROVE  /\ Heard(updates', "VenueChanged", ui'.venue, v)
           /\ \A m : ModeHeard(m) => Heard(updates', "ExecutionModeChanged", ui'.mode, m)
  <1> DEFINE r == Report("VenueChanged", v)
  <1>1. r \in Reports /\ r.kind = "VenueChanged" /\ r.arg = v /\ updates \in Seq(Reports)
    BY ReportTypes, SessionTypes DEF Report
  <1>2. /\ updates' = updates \o <<r>> /\ <<r>> \in Seq(Reports)
        /\ DOMAIN <<r>> = {1} /\ <<r>>[1] = r
    BY <1>1, AppendIs
  <1> HIDE DEF r
  <1>3. Heard(updates', "VenueChanged", ui'.venue, v)
    BY <1>1, <1>2, HeardLast
  <1>4. \A i \in DOMAIN <<r>> : <<r>>[i].kind # "ExecutionModeChanged"
    BY <1>1, <1>2
  <1>5. ASSUME NEW m, ModeHeard(m)
        PROVE  Heard(updates', "ExecutionModeChanged", ui'.mode, m)
    <2>1. Heard(updates, "ExecutionModeChanged", ui.mode, m)
      BY <1>5 DEF ModeHeard
    <2>2. Heard(updates \o <<r>>, "ExecutionModeChanged", ui.mode, m)
      BY <1>1, <1>2, <1>4, <2>1, HeardOther
    <2> QED
      BY <1>2, <2>2
  <1> QED
    BY <1>3, <1>5

\* Reports about the list change nothing of this.
LEMMA ListReported ==
    ASSUME TypeInv, NEW k \in Status, NEW s \in Sources,
           updates' = Append(updates, Report(k, s)), UNCHANGED ui
    PROVE  /\ \A v : VenueHeard(v) => Heard(updates', "VenueChanged", ui'.venue, v)
           /\ \A m : ModeHeard(m) => Heard(updates', "ExecutionModeChanged", ui'.mode, m)
           /\ \A i \in DOMAIN updates' :
                 updates'[i].kind = "ExecutionModeChanged"
                    => \E j \in DOMAIN updates : updates[j].kind = "ExecutionModeChanged"
  <1> DEFINE r == Report(k, s)
  <1>1. r \in Reports /\ r.kind = k /\ updates \in Seq(Reports)
    BY ReportTypes, SessionTypes DEF Report
  <1>2. /\ updates' = updates \o <<r>> /\ <<r>> \in Seq(Reports)
        /\ DOMAIN <<r>> = {1} /\ <<r>>[1] = r
    BY <1>1, AppendIs
  <1>3. r.kind # "VenueChanged" /\ r.kind # "ExecutionModeChanged"
    BY <1>1 DEF Status
  <1> HIDE DEF r
  <1>4. /\ \A i \in DOMAIN <<r>> : <<r>>[i].kind # "ExecutionModeChanged"
        /\ \A i \in DOMAIN <<r>> : <<r>>[i].kind # "VenueChanged"
    BY <1>2, <1>3
  <1>5. ASSUME NEW m, ModeHeard(m)
        PROVE  Heard(updates', "ExecutionModeChanged", ui'.mode, m)
    <2>1. Heard(updates, "ExecutionModeChanged", ui.mode, m)
      BY <1>5 DEF ModeHeard
    <2>2. Heard(updates \o <<r>>, "ExecutionModeChanged", ui.mode, m)
      BY <1>1, <1>2, <1>4, <2>1, HeardOther
    <2> QED
      BY <1>2, <2>2
  <1>6. ASSUME NEW v, VenueHeard(v)
        PROVE  Heard(updates', "VenueChanged", ui'.venue, v)
    <2>1. Heard(updates, "VenueChanged", ui.venue, v)
      BY <1>6 DEF VenueHeard
    <2>2. Heard(updates \o <<r>>, "VenueChanged", ui.venue, v)
      BY <1>1, <1>2, <1>4, <2>1, HeardOther
    <2> QED
      BY <1>2, <2>2
  <1>7. ASSUME NEW i \in DOMAIN updates', updates'[i].kind = "ExecutionModeChanged"
        PROVE  \E j \in DOMAIN updates : updates[j].kind = "ExecutionModeChanged"
    <2>1. \/ i \in DOMAIN updates /\ updates'[i] = updates[i]
          \/ i - Len(updates) \in DOMAIN <<r>> /\ updates'[i] = <<r>>[i - Len(updates)]
      BY <1>1, <1>2, ConcatFacts
    <2> QED
      BY <1>4, <1>7, <2>1
  <1> QED
    BY <1>5, <1>6, <1>7

\* Once the first command is taken, no login and no logout is left.
LEMMA NoVenueCommandLeft ==
    ASSUME TypeInv, VenueFollows, worker.cmds # <<>>, worker'.cmds = Tail(worker.cmds)
    PROVE  \A i \in DOMAIN worker'.cmds : worker'.cmds[i].kind \notin VenueCommands
  <1>1. worker.cmds \in Seq(Commands)
    BY SessionTypes
  <1>2. ASSUME NEW i \in DOMAIN worker'.cmds
        PROVE  worker'.cmds[i].kind \notin VenueCommands
    <2>1. /\ i + 1 \in DOMAIN worker.cmds /\ worker'.cmds[i] = worker.cmds[i + 1]
          /\ i \in 1..(Len(worker.cmds) - 1) /\ Len(worker.cmds) \in Nat
      BY <1>1, <1>2, TailFacts
    <2>2. i + 1 # 1
      BY <2>1
    <2> QED
      BY <2>1, <2>2 DEF VenueFollows
  <1> QED
    BY <1>2

\* What a command taken needs for the four parts; the venue and the mode that
\* will be heard, and the list, are each step's own.
LEMMA TakenKeeps ==
    ASSUME TypeInv, Settling, worker.cmds # <<>>, worker'.cmds = Tail(worker.cmds),
           UNCHANGED chain, ui'.mode = ui.mode,
           \/ Heard(updates', "VenueChanged", ui'.venue, worker'.seen.venue)
           \/ Heard(updates', "VenueChanged", ui'.venue, session'.venue),
           \/ Heard(updates', "ExecutionModeChanged", ui'.mode, worker'.seen.mode)
           \/ /\ Heard(updates', "ExecutionModeChanged", ui'.mode, "Replay")
              /\ ReplayAhead(worker'.cmds, session'.mode),
           IsLive(chain.mode) /\ session'.venue = "CONNECTED" =>
              \A id \in chain.ids \ skipped' :
                 Will(worker'.cmds, session'.subscribed, id)
    PROVE  Settling'
  <1>1. VenueFollows'
    BY NoVenueCommandLeft DEF VenueFollows, VenueHeard, Settling
  <1>2. ModeFollows'
    BY DEF ModeFollows, ModeHeard
  <1>3. LoginInReplay'
    <2> SUFFICES ASSUME NEW i \in DOMAIN worker'.cmds, worker'.cmds[i].kind = "VenueLogin"
                 PROVE  FALSE
      BY DEF LoginInReplay
    <2> QED
      BY NoVenueCommandLeft DEF Settling, VenueCommands
  <1>4. ListedFollow'
    BY DEF ListedFollow
  <1> QED
    BY <1>1, <1>2, <1>3, <1>4 DEF Settling

\* The list, when the command taken is about no subscription.
LEMMA ListKept ==
    ASSUME TypeInv, ListedFollow, worker.cmds # <<>>, worker'.cmds = Tail(worker.cmds),
           worker.cmds[1].kind \notin {"SubscribeMarketData", "UnsubscribeMarketData"},
           session.venue = "CONNECTED", IsLive(chain.mode), UNCHANGED skipped,
           session'.subscribed = session.subscribed
    PROVE  \A id \in chain.ids \ skipped' : Will(worker'.cmds, session'.subscribed, id)
  <1> SUFFICES ASSUME NEW id \in chain.ids \ skipped
               PROVE  Will(worker'.cmds, session'.subscribed, id)
    OBVIOUS
  <1>1. Will(worker.cmds, session.subscribed, id)
    BY DEF ListedFollow
  <1>2. /\ worker.cmds[1] # Cmd("SubscribeMarketData", id)
        /\ worker.cmds[1] # Cmd("UnsubscribeMarketData", id)
    BY DEF Cmd
  <1>3. worker.cmds \in Seq(Commands)
    BY SessionTypes
  <1> QED
    BY <1>1, <1>2, <1>3, WillTail

\* The modes, when the reports are unchanged or tell of something else.
LEMMA ModeKept ==
    ASSUME TypeInv, ModeFollows, worker.cmds # <<>>, worker'.cmds = Tail(worker.cmds),
           worker'.seen = worker.seen,
           \A m : ModeHeard(m) => Heard(updates', "ExecutionModeChanged", ui'.mode, m),
           IF worker.cmds[1].kind # "SetExecutionMode" THEN session'.mode = session.mode
           ELSE worker.cmds[1].arg = "Replay" => session'.mode = "Replay"
    PROVE  \/ Heard(updates', "ExecutionModeChanged", ui'.mode, worker'.seen.mode)
           \/ /\ Heard(updates', "ExecutionModeChanged", ui'.mode, "Replay")
              /\ ReplayAhead(worker'.cmds, session'.mode)
  <1>1. CASE ModeHeard(worker.seen.mode)
    BY <1>1
  <1>2. CASE ModeHeard("Replay") /\ ReplayAhead(worker.cmds, session.mode)
    <2>1. worker.cmds \in Seq(Commands)
      BY SessionTypes
    <2>2. ReplayAhead(Tail(worker.cmds), session'.mode)
      BY <1>2, <2>1, AheadTail
    <2> QED
      BY <1>2, <2>2
  <1> QED
    BY <1>1, <1>2 DEF ModeFollows

LEMMA LoginSettles == TypeInv /\ Settling /\ VenueLogin => Settling'
  <1> SUFFICES ASSUME TypeInv, Settling, VenueLogin PROVE Settling'
    OBVIOUS
  <1>1. /\ worker.cmds # <<>> /\ worker.cmds[1].kind = "VenueLogin"
        /\ worker.cmds \in Seq(Commands) /\ 1 \in DOMAIN worker.cmds
    BY TakesFacts, SessionTypes, TailFacts DEF VenueLogin
  <1>2. worker'.cmds = Tail(worker.cmds) /\ worker'.seen = worker.seen
    BY <1>1, DoneFacts DEF VenueLogin
  <1>3. ~IsLive(chain.mode)
    BY <1>1 DEF Settling, LoginInReplay
  <1>4. session'.mode = session.mode
    BY SessionTypes DEF VenueLogin
  <1>5. UNCHANGED <<ui, chain>> /\ ui'.mode = ui.mode
    BY DEF VenueLogin
  <1>6. VenueHeard(session.venue) /\ worker.seen.venue = session.venue
    BY <1>1 DEF Settling, VenueFollows, VenueCommands
  <1>7. CASE /\ updates' = Append(updates, Report("VenueChanged", "CONNECTED"))
             /\ session'.venue = "CONNECTED"
    <2>1. /\ Heard(updates', "VenueChanged", ui'.venue, "CONNECTED")
          /\ \A m : ModeHeard(m) => Heard(updates', "ExecutionModeChanged", ui'.mode, m)
      BY <1>5, <1>7, VenueReported DEF Venues
    <2>2. \/ Heard(updates', "ExecutionModeChanged", ui'.mode, worker'.seen.mode)
          \/ /\ Heard(updates', "ExecutionModeChanged", ui'.mode, "Replay")
             /\ ReplayAhead(worker'.cmds, session'.mode)
      BY <1>1, <1>2, <1>4, <2>1, ModeKept DEF Settling
    <2> QED
      BY <1>1, <1>2, <1>3, <1>5, <1>7, <2>1, <2>2, TakenKeeps
  <1>8. CASE UNCHANGED updates /\ session' = TornDown
    <2>1. \A m : ModeHeard(m) => Heard(updates', "ExecutionModeChanged", ui'.mode, m)
      BY <1>5, <1>8 DEF ModeHeard
    <2>2. \/ Heard(updates', "ExecutionModeChanged", ui'.mode, worker'.seen.mode)
          \/ /\ Heard(updates', "ExecutionModeChanged", ui'.mode, "Replay")
             /\ ReplayAhead(worker'.cmds, session'.mode)
      BY <1>1, <1>2, <1>4, <2>1, ModeKept DEF Settling
    <2>3. Heard(updates', "VenueChanged", ui'.venue, worker'.seen.venue)
      BY <1>2, <1>5, <1>6, <1>8 DEF VenueHeard
    <2> QED
      BY <1>1, <1>2, <1>3, <1>5, <2>2, <2>3, TakenKeeps
  <1>9. UNCHANGED session => session'.venue = session.venue
    OBVIOUS
  <1> QED
    BY <1>7, <1>8, <1>9, SessionTypes DEF VenueLogin

LEMMA LogoutSettles == TypeInv /\ Settling /\ VenueLogout => Settling'
  <1> SUFFICES ASSUME TypeInv, Settling, VenueLogout PROVE Settling'
    OBVIOUS
  <1>1. /\ worker.cmds # <<>> /\ worker.cmds[1].kind = "VenueLogout"
        /\ worker.cmds \in Seq(Commands) /\ 1 \in DOMAIN worker.cmds
    BY TakesFacts, SessionTypes, TailFacts DEF VenueLogout
  <1>2. worker'.cmds = Tail(worker.cmds) /\ worker'.seen = worker.seen
    BY <1>1, DoneFacts DEF VenueLogout
  <1>3. UNCHANGED <<updates, ui, chain>> /\ ui'.mode = ui.mode
    BY DEF VenueLogout
  <1>4. session'.mode = session.mode /\ session'.venue = "DISCONNECTED"
    BY SessionTypes DEF VenueLogout
  <1>5. VenueHeard(session.venue) /\ worker.seen.venue = session.venue
    BY <1>1 DEF Settling, VenueFollows, VenueCommands
  <1>6. Heard(updates', "VenueChanged", ui'.venue, worker'.seen.venue)
    BY <1>2, <1>3, <1>5 DEF VenueHeard
  <1>7. \A m : ModeHeard(m) => Heard(updates', "ExecutionModeChanged", ui'.mode, m)
    BY <1>3 DEF ModeHeard
  <1>8. \/ Heard(updates', "ExecutionModeChanged", ui'.mode, worker'.seen.mode)
        \/ /\ Heard(updates', "ExecutionModeChanged", ui'.mode, "Replay")
           /\ ReplayAhead(worker'.cmds, session'.mode)
    BY <1>1, <1>2, <1>4, <1>7, ModeKept DEF Settling
  <1> QED
    BY <1>1, <1>2, <1>3, <1>4, <1>6, <1>8, TakenKeeps

\* A command that leaves the venue and what is reported of it as they are.
LEMMA VenueKept ==
    ASSUME VenueFollows, worker'.seen = worker.seen, session'.venue = session.venue,
           \A v : VenueHeard(v) => Heard(updates', "VenueChanged", ui'.venue, v)
    PROVE  \/ Heard(updates', "VenueChanged", ui'.venue, worker'.seen.venue)
           \/ Heard(updates', "VenueChanged", ui'.venue, session'.venue)
  BY DEF VenueFollows

LEMMA SetModeSettles == TypeInv /\ Settling /\ SetExecutionMode => Settling'
  <1> SUFFICES ASSUME TypeInv, Settling, SetExecutionMode PROVE Settling'
    OBVIOUS
  <1>1. /\ worker.cmds # <<>> /\ worker.cmds[1].kind = "SetExecutionMode"
        /\ worker.cmds[1].arg = Arg
    BY TakesFacts DEF SetExecutionMode
  <1>2. worker'.cmds = Tail(worker.cmds) /\ worker'.seen = worker.seen
    BY <1>1, DoneFacts DEF SetExecutionMode
  <1>3. UNCHANGED <<updates, ui, chain, skipped>> /\ ui'.mode = ui.mode
    BY DEF SetExecutionMode
  <1>4. /\ session'.venue = session.venue /\ session'.subscribed = session.subscribed
        /\ session'.mode = IF IsLive(Arg) /\ session.venue # "CONNECTED"
                           THEN session.mode ELSE Arg
    BY SessionTypes DEF SetExecutionMode, Sessions
  <1>5. ~IsLive("Replay")
    BY SessionAssumption DEF IsLive
  <1>6. worker.cmds[1].arg = "Replay" => session'.mode = "Replay"
    BY <1>1, <1>4, <1>5
  <1>7. /\ \A m : ModeHeard(m) => Heard(updates', "ExecutionModeChanged", ui'.mode, m)
        /\ \A v : VenueHeard(v) => Heard(updates', "VenueChanged", ui'.venue, v)
    BY <1>3 DEF ModeHeard, VenueHeard
  <1>8. \/ Heard(updates', "ExecutionModeChanged", ui'.mode, worker'.seen.mode)
        \/ /\ Heard(updates', "ExecutionModeChanged", ui'.mode, "Replay")
           /\ ReplayAhead(worker'.cmds, session'.mode)
    BY <1>1, <1>2, <1>6, <1>7, ModeKept DEF Settling
  <1>9. \/ Heard(updates', "VenueChanged", ui'.venue, worker'.seen.venue)
        \/ Heard(updates', "VenueChanged", ui'.venue, session'.venue)
    BY <1>2, <1>4, <1>7, VenueKept DEF Settling
  <1>10. IsLive(chain.mode) /\ session'.venue = "CONNECTED" =>
            \A id \in chain.ids \ skipped' : Will(worker'.cmds, session'.subscribed, id)
    BY <1>1, <1>2, <1>3, <1>4, ListKept DEF Settling
  <1> QED
    BY <1>1, <1>2, <1>3, <1>8, <1>9, <1>10, TakenKeeps

LEMMA ListSettles == TypeInv /\ Settling /\ ListInstruments => Settling'
  <1> SUFFICES ASSUME TypeInv, Settling, ListInstruments PROVE Settling'
    OBVIOUS
  <1>1. worker.cmds # <<>> /\ worker.cmds[1].kind = "ListInstruments" /\ Arg \in Sources
    BY TakesFacts, ArgTypes DEF ListInstruments
  <1>2. worker'.cmds = Tail(worker.cmds) /\ worker'.seen = worker.seen
    BY SessionTypes DEF ListInstruments, Workers
  <1>3. UNCHANGED <<session, ui, chain, skipped>> /\ ui'.mode = ui.mode
    BY DEF ListInstruments
  <1>4. /\ \A v : VenueHeard(v) => Heard(updates', "VenueChanged", ui'.venue, v)
        /\ \A m : ModeHeard(m) => Heard(updates', "ExecutionModeChanged", ui'.mode, m)
    BY <1>1, <1>3, ListReported DEF ListInstruments, Status
  <1>5. \/ Heard(updates', "ExecutionModeChanged", ui'.mode, worker'.seen.mode)
        \/ /\ Heard(updates', "ExecutionModeChanged", ui'.mode, "Replay")
           /\ ReplayAhead(worker'.cmds, session'.mode)
    BY <1>1, <1>2, <1>3, <1>4, ModeKept DEF Settling
  <1>6. \/ Heard(updates', "VenueChanged", ui'.venue, worker'.seen.venue)
        \/ Heard(updates', "VenueChanged", ui'.venue, session'.venue)
    BY <1>2, <1>3, <1>4, VenueKept DEF Settling
  <1>7. IsLive(chain.mode) /\ session'.venue = "CONNECTED" =>
           \A id \in chain.ids \ skipped' : Will(worker'.cmds, session'.subscribed, id)
    BY <1>1, <1>2, <1>3, ListKept DEF Settling
  <1> QED
    BY <1>1, <1>2, <1>3, <1>5, <1>6, <1>7, TakenKeeps

LEMMA SubscribeSettles == TypeInv /\ Settling /\ SubscribeMarketData => Settling'
  <1> SUFFICES ASSUME TypeInv, Settling, SubscribeMarketData PROVE Settling'
    OBVIOUS
  <1>1. /\ worker.cmds # <<>> /\ worker.cmds[1] = Cmd("SubscribeMarketData", Arg)
        /\ worker.cmds[1].kind = "SubscribeMarketData" /\ worker.cmds \in Seq(Commands)
    BY TakesFacts, SessionTypes DEF SubscribeMarketData
  <1>2. worker'.cmds = Tail(worker.cmds) /\ worker'.seen = worker.seen
    BY <1>1, DoneFacts DEF SubscribeMarketData
  <1>3. UNCHANGED <<updates, ui, chain>> /\ ui'.mode = ui.mode
    BY DEF SubscribeMarketData
  <1>4. session'.venue = session.venue /\ session'.mode = session.mode
    BY SessionTypes DEF SubscribeMarketData, Sessions
  <1>5. /\ \A m : ModeHeard(m) => Heard(updates', "ExecutionModeChanged", ui'.mode, m)
        /\ \A v : VenueHeard(v) => Heard(updates', "VenueChanged", ui'.venue, v)
    BY <1>3 DEF ModeHeard, VenueHeard
  <1>6. \/ Heard(updates', "ExecutionModeChanged", ui'.mode, worker'.seen.mode)
        \/ /\ Heard(updates', "ExecutionModeChanged", ui'.mode, "Replay")
           /\ ReplayAhead(worker'.cmds, session'.mode)
    BY <1>1, <1>2, <1>4, <1>5, ModeKept DEF Settling
  <1>7. \/ Heard(updates', "VenueChanged", ui'.venue, worker'.seen.venue)
        \/ Heard(updates', "VenueChanged", ui'.venue, session'.venue)
    BY <1>2, <1>4, <1>5, VenueKept DEF Settling
  <1>8. ASSUME IsLive(chain.mode), session'.venue = "CONNECTED",
               NEW id \in chain.ids \ skipped'
        PROVE  Will(worker'.cmds, session'.subscribed, id)
    <2>1. id \notin skipped => Will(worker.cmds, session.subscribed, id)
      BY <1>4, <1>8 DEF Settling, ListedFollow
    <2>2. CASE id # Arg
      <3>1. id \notin skipped
        BY <1>8, <2>2 DEF SubscribeMarketData
      <3>2. /\ worker.cmds[1] # Cmd("SubscribeMarketData", id)
            /\ worker.cmds[1] # Cmd("UnsubscribeMarketData", id)
        BY <1>1, <2>2 DEF Cmd
      <3>3. id \in session.subscribed => id \in session'.subscribed
        BY SessionTypes DEF SubscribeMarketData, Sessions
      <3> QED
        BY <1>1, <1>2, <2>1, <3>1, <3>2, <3>3, WillTail
    <2>3. CASE id = Arg
      <3>1. /\ session'.subscribed = session.subscribed \union {Arg}
            /\ skipped' = IF \E i \in 2..Len(worker.cmds) :
                             worker.cmds[i] = Cmd("UnsubscribeMarketData", Arg)
                          THEN skipped ELSE skipped \ {Arg}
        BY <1>8, <2>3, SessionTypes DEF SubscribeMarketData, Sessions
      <3>2. id \in session'.subscribed
        BY <2>3, <3>1
      <3>3. CASE \E i \in 2..Len(worker.cmds) :
                    worker.cmds[i] = Cmd("UnsubscribeMarketData", Arg)
        <4>1. id \notin skipped
          BY <1>8, <3>1, <3>3
        <4> QED
          BY <1>1, <1>2, <2>1, <3>2, <4>1, WillTail
      <3>4. CASE ~\E i \in 2..Len(worker.cmds) :
                    worker.cmds[i] = Cmd("UnsubscribeMarketData", Arg)
        <4>1. ASSUME NEW i \in DOMAIN worker'.cmds
              PROVE  worker'.cmds[i] # Cmd("UnsubscribeMarketData", id)
          <5>1. /\ i + 1 \in 2..Len(worker.cmds)
                /\ worker'.cmds[i] = worker.cmds[i + 1]
            BY <1>1, <1>2, TailFacts
          <5> QED
            BY <2>3, <3>4, <5>1
        <4> QED
          BY <3>2, <4>1 DEF Will
      <3> QED
        BY <3>3, <3>4
    <2> QED
      BY <2>2, <2>3
  <1> QED
    BY <1>1, <1>2, <1>3, <1>6, <1>7, <1>8, TakenKeeps

LEMMA UnsubscribeSettles == TypeInv /\ Settling /\ UnsubscribeMarketData => Settling'
  <1> SUFFICES ASSUME TypeInv, Settling, UnsubscribeMarketData PROVE Settling'
    OBVIOUS
  <1>1. /\ worker.cmds # <<>> /\ worker.cmds[1] = Cmd("UnsubscribeMarketData", Arg)
        /\ worker.cmds[1].kind = "UnsubscribeMarketData" /\ worker.cmds \in Seq(Commands)
    BY TakesFacts, SessionTypes DEF UnsubscribeMarketData
  <1>2. worker'.cmds = Tail(worker.cmds) /\ worker'.seen = worker.seen
    BY <1>1, DoneFacts DEF UnsubscribeMarketData
  <1>3. UNCHANGED <<updates, ui, chain, skipped>> /\ ui'.mode = ui.mode
    BY DEF UnsubscribeMarketData
  <1>4. session'.venue = session.venue /\ session'.mode = session.mode
    BY SessionTypes DEF UnsubscribeMarketData, Sessions
  <1>5. /\ \A m : ModeHeard(m) => Heard(updates', "ExecutionModeChanged", ui'.mode, m)
        /\ \A v : VenueHeard(v) => Heard(updates', "VenueChanged", ui'.venue, v)
    BY <1>3 DEF ModeHeard, VenueHeard
  <1>6. \/ Heard(updates', "ExecutionModeChanged", ui'.mode, worker'.seen.mode)
        \/ /\ Heard(updates', "ExecutionModeChanged", ui'.mode, "Replay")
           /\ ReplayAhead(worker'.cmds, session'.mode)
    BY <1>1, <1>2, <1>4, <1>5, ModeKept DEF Settling
  <1>7. \/ Heard(updates', "VenueChanged", ui'.venue, worker'.seen.venue)
        \/ Heard(updates', "VenueChanged", ui'.venue, session'.venue)
    BY <1>2, <1>4, <1>5, VenueKept DEF Settling
  <1>8. ASSUME IsLive(chain.mode), session'.venue = "CONNECTED",
               NEW id \in chain.ids \ skipped'
        PROVE  Will(worker'.cmds, session'.subscribed, id)
    <2>1. Will(worker.cmds, session.subscribed, id)
      BY <1>3, <1>4, <1>8 DEF Settling, ListedFollow
    <2>2. worker.cmds[1] # Cmd("SubscribeMarketData", id)
      BY <1>1 DEF Cmd
    <2>3. \/ worker.cmds[1] = Cmd("UnsubscribeMarketData", id)
          \/ id \in session.subscribed => id \in session'.subscribed
      BY <1>1, SessionTypes DEF UnsubscribeMarketData, Sessions
    <2> QED
      BY <1>1, <1>2, <2>1, <2>2, <2>3, WillTail
  <1> QED
    BY <1>1, <1>2, <1>3, <1>6, <1>7, <1>8, TakenKeeps

LEMMA AnsweredSettles == TypeInv /\ Settling /\ ListInstrumentsAnswered => Settling'
  <1> SUFFICES ASSUME TypeInv, Settling, ListInstrumentsAnswered PROVE Settling'
    OBVIOUS
  <1>1. worker \in Workers /\ worker.busy \in Sources /\ session \in Sessions
    BY SessionTypes DEF ListInstrumentsAnswered, Workers
  <1>2. PICK outcome \in ListOutcomes(worker.busy) :
           /\ updates' = Append(updates, Report(outcome, worker.busy))
           /\ session' = [session EXCEPT
                  !.stored = @ \/ (outcome = "Loaded" /\ worker.busy = "LiveVenue")]
    BY DEF ListInstrumentsAnswered
  <1>3. outcome \in Status
    BY <1>2 DEF ListOutcomes, Status
  <1>4. /\ UNCHANGED <<ui, chain, skipped>>
        /\ worker'.cmds = worker.cmds /\ worker'.seen = worker.seen
    BY <1>1 DEF ListInstrumentsAnswered, Workers
  <1>5. /\ session'.venue = session.venue /\ session'.mode = session.mode
        /\ session'.subscribed = session.subscribed
    <2>1. PICK t : session' = [session EXCEPT !.stored = t]
      BY <1>2, Zenon
    <2> QED
      BY <1>1, <2>1 DEF Sessions
  <1>6. /\ \A v : VenueHeard(v) => Heard(updates', "VenueChanged", ui'.venue, v)
        /\ \A m : ModeHeard(m) => Heard(updates', "ExecutionModeChanged", ui'.mode, m)
        /\ \A i \in DOMAIN updates' :
              updates'[i].kind = "ExecutionModeChanged"
                 => \E j \in DOMAIN updates : updates[j].kind = "ExecutionModeChanged"
    BY <1>1, <1>2, <1>3, <1>4, ListReported
  <1>7. VenueFollows'
    BY <1>4, <1>5, <1>6 DEF VenueFollows, VenueHeard, Settling
  <1>8. ModeFollows'
    BY <1>4, <1>5, <1>6 DEF ModeFollows, ModeHeard, Settling
  <1>9. LoginInReplay'
    BY <1>4, <1>6 DEF LoginInReplay, Settling
  <1>10. ListedFollow'
    BY <1>4, <1>5 DEF ListedFollow, Settling
  <1> QED
    BY <1>7, <1>8, <1>9, <1>10 DEF Settling

LEMMA PollSettles == TypeInv /\ Settling /\ Poll => Settling'
  <1> SUFFICES ASSUME TypeInv, Settling, Poll PROVE Settling'
    OBVIOUS
  <1> DEFINE v == IF worker.seen.venue = session.venue THEN <<>>
                  ELSE <<Report("VenueChanged", session.venue)>>
             m == IF worker.seen.mode = session.mode THEN <<>>
                  ELSE <<Report("ExecutionModeChanged", session.mode)>>
  <1>1. /\ worker \in Workers /\ updates \in Seq(Reports)
        /\ session.venue \in Venues /\ session.mode \in Modes
    BY SessionTypes DEF Sessions
  <1>2. /\ UNCHANGED <<session, ui, chain, skipped>> /\ worker.cmds = <<>>
        /\ worker'.cmds = <<>>
        /\ worker'.seen.venue = session.venue /\ worker'.seen.mode = session.mode
    BY <1>1 DEF Poll, Workers
  <1>3. updates' = updates \o v \o m
    BY DEF Poll
  <1>4. /\ Report("VenueChanged", session.venue) \in Reports
        /\ Report("ExecutionModeChanged", session.mode) \in Reports
        /\ Report("VenueChanged", session.venue).kind = "VenueChanged"
        /\ Report("VenueChanged", session.venue).arg = session.venue
        /\ Report("ExecutionModeChanged", session.mode).kind = "ExecutionModeChanged"
        /\ Report("ExecutionModeChanged", session.mode).arg = session.mode
    BY <1>1, ReportTypes DEF Report
  <1>5. /\ v \in Seq(Reports) /\ \A i \in DOMAIN v : v[i].kind # "ExecutionModeChanged"
        /\ m \in Seq(Reports) /\ \A i \in DOMAIN m : m[i].kind # "VenueChanged"
    <2> DEFINE rv == Report("VenueChanged", session.venue)
               rm == Report("ExecutionModeChanged", session.mode)
    <2>1. /\ rv \in Reports /\ rm \in Reports
          /\ rv.kind # "ExecutionModeChanged" /\ rm.kind # "VenueChanged"
      BY <1>4
    <2> HIDE DEF rv, rm
    <2>2. /\ <<rv>> \in Seq(Reports) /\ <<rm>> \in Seq(Reports) /\ <<>> \in Seq(Reports)
          /\ DOMAIN <<rv>> = {1} /\ <<rv>>[1] = rv /\ DOMAIN <<rm>> = {1} /\ <<rm>>[1] = rm
          /\ DOMAIN <<>> = {}
      BY <2>1
    <2>3. /\ v = <<>> \/ v = <<rv>>
          /\ m = <<>> \/ m = <<rm>>
      BY DEF rv, rm
    <2> HIDE DEF v, m
    <2> QED
      BY <2>1, <2>2, <2>3
  <1>6. Heard(updates \o v, "VenueChanged", ui.venue, session.venue)
    <2>1. CASE worker.seen.venue = session.venue
      <3>1. updates \o v = updates
        BY <1>1, <2>1
      <3>2. Heard(updates, "VenueChanged", ui.venue, session.venue)
        BY <2>1 DEF Settling, VenueFollows, VenueHeard
      <3> QED
        BY <3>1, <3>2
    <2>2. CASE worker.seen.venue # session.venue
      <3>1. v = <<Report("VenueChanged", session.venue)>>
        BY <2>2
      <3> HIDE DEF v
      <3> QED
        BY <1>1, <1>4, <3>1, HeardLast
    <2> QED
      BY <2>1, <2>2
  <1> HIDE DEF v
  <1>7. updates \o v \in Seq(Reports)
    BY <1>1, <1>5, ConcatFacts
  <1>8. Heard(updates', "VenueChanged", ui'.venue, session'.venue)
    <2> HIDE DEF m
    <2> QED
      BY <1>2, <1>3, <1>5, <1>6, <1>7, HeardOther
  <1>9. \/ Heard(updates', "ExecutionModeChanged", ui'.mode, worker'.seen.mode)
        \/ /\ Heard(updates', "ExecutionModeChanged", ui'.mode, "Replay")
           /\ ReplayAhead(worker'.cmds, session'.mode)
    <2>1. CASE worker.seen.mode = session.mode
      <3>1. updates' = updates \o v
        BY <1>3, <1>7, <2>1
      <3>2. \A x : ModeHeard(x) => Heard(updates', "ExecutionModeChanged", ui'.mode, x)
        BY <1>1, <1>2, <1>5, <3>1, HeardOther DEF ModeHeard
      <3> QED
        BY <1>2, <2>1, <3>2 DEF Settling, ModeFollows
    <2>2. CASE worker.seen.mode # session.mode
      <3>1. m = <<Report("ExecutionModeChanged", session.mode)>>
        BY <2>2
      <3> HIDE DEF m
      <3>2. Heard(updates', "ExecutionModeChanged", ui'.mode, session.mode)
        BY <1>3, <1>4, <1>7, <3>1, HeardLast
      <3> QED
        BY <1>2, <3>2
    <2> QED
      BY <2>1, <2>2
  <1> HIDE DEF m
  <1>10. VenueFollows' /\ ModeFollows' /\ LoginInReplay'
    BY <1>2, <1>8, <1>9
       DEF VenueFollows, VenueHeard, ModeFollows, ModeHeard, LoginInReplay
  <1>11. ListedFollow'
    BY <1>2 DEF ListedFollow, Settling
  <1> QED
    BY <1>10, <1>11 DEF Settling

-----------------------------------------------------------------------------
(* The systems' and the user's steps                                       *)

LEMMA DrainSettles == ASSUME NEW marks, TypeInv, Settling, Drain(marks) PROVE Settling'
  <1>0. PICK n \in 1..Len(updates) :
           LET now == SubSeq(updates, 1, n)
           IN /\ updates' = SubSeq(updates, n + 1, Len(updates))
              /\ ui' = [venue |-> LastOf(now, {"VenueChanged"}, Report("", ui.venue)).arg,
                        mode |-> LastOf(now, {"ExecutionModeChanged"},
                                        Report("", ui.mode)).arg,
                        changed |-> ui.changed \/ \E i \in 1..n : marks[now[i].kind]]
    BY DEF Drain
  <1>1. /\ updates' = SubSeq(updates, n + 1, Len(updates))
        /\ ui'.venue = LastOf(SubSeq(updates, 1, n), {"VenueChanged"},
                              Report("", ui.venue)).arg
        /\ ui'.mode = LastOf(SubSeq(updates, 1, n), {"ExecutionModeChanged"},
                             Report("", ui.mode)).arg
    <2> DEFINE v == LastOf(SubSeq(updates, 1, n), {"VenueChanged"}, Report("", ui.venue)).arg
               m == LastOf(SubSeq(updates, 1, n), {"ExecutionModeChanged"},
                           Report("", ui.mode)).arg
    <2>1. PICK b : ui' = [venue |-> v, mode |-> m, changed |-> b]
      BY <1>0, Zenon
    <2>2. updates' = SubSeq(updates, n + 1, Len(updates))
      BY <1>0, Zenon
    <2> HIDE DEF v, m
    <2>3. ui'.venue = v /\ ui'.mode = m
      BY <2>1
    <2> QED
      BY <2>2, <2>3, Zenon DEF v, m
  <1>2. UNCHANGED <<session, worker, chain, skipped>> /\ updates \in Seq(Reports)
    BY SessionTypes DEF Drain
  <1>3. \A x : VenueHeard(x) => Heard(updates', "VenueChanged", ui'.venue, x)
    BY <1>1, <1>2, HeardDrained DEF VenueHeard
  <1>4. \A x : ModeHeard(x) => Heard(updates', "ExecutionModeChanged", ui'.mode, x)
    BY <1>1, <1>2, HeardDrained DEF ModeHeard
  <1>5. VenueFollows' /\ ModeFollows' /\ ListedFollow'
    BY <1>2, <1>3, <1>4 DEF VenueFollows, ModeFollows, ListedFollow, VenueHeard, ModeHeard,
                            Settling
  <1>6. LoginInReplay'
    <2> SUFFICES ASSUME \E i \in DOMAIN worker.cmds : worker.cmds[i].kind = "VenueLogin"
                 PROVE  /\ ~IsLive(chain.mode) /\ ~IsLive(ui'.mode)
                        /\ \A i \in DOMAIN updates' :
                              updates'[i].kind # "ExecutionModeChanged"
      BY <1>2 DEF LoginInReplay
    <2>1. /\ ~IsLive(chain.mode) /\ ~IsLive(ui.mode)
          /\ \A i \in DOMAIN updates : updates[i].kind # "ExecutionModeChanged"
      BY DEF LoginInReplay, Settling
    <2> DEFINE now == SubSeq(updates, 1, n)
    <2>2. now \in Seq(Reports) /\ \A i \in DOMAIN now : i \in DOMAIN updates /\ now[i] = updates[i]
      BY <1>2, PartFacts
    <2>3. LastOf(now, {"ExecutionModeChanged"}, Report("", ui.mode)) = Report("", ui.mode)
      <3>1. \/ LastOf(now, {"ExecutionModeChanged"}, Report("", ui.mode)) = Report("", ui.mode)
            \/ \E i \in DOMAIN now : now[i].kind \in {"ExecutionModeChanged"}
        BY <2>2, LastOfIs
      <3> HIDE DEF now
      <3> QED
        BY <2>1, <2>2, <3>1
    <2>4. ui'.mode = ui.mode
      <3>1. Report("", ui.mode).arg = ui.mode
        BY DEF Report
      <3> QED
        BY <1>1, <2>3, <3>1
    <2>5. ASSUME NEW i \in DOMAIN updates'
          PROVE  updates'[i].kind # "ExecutionModeChanged"
      <3>1. i + n \in DOMAIN updates /\ updates'[i] = updates[i + n]
        BY <1>1, <1>2, PartFacts
      <3> QED
        BY <2>1, <3>1
    <2> QED
      BY <2>1, <2>4, <2>5
  <1> QED
    BY <1>5, <1>6 DEF Settling

\* Commands that are neither a login nor a logout, behind what is queued.
LEMMA SentKeeps ==
    ASSUME TypeInv, Settling, NEW d \in Seq(Commands), Send(d),
           \A i \in DOMAIN d : d[i].kind \notin VenueCommands,
           UNCHANGED <<session, updates>>, ui'.venue = ui.venue,
           ui'.mode \in {ui.mode, "Replay"}, chain'.mode \in {chain.mode, ui.mode}
    PROVE  VenueFollows' /\ LoginInReplay'
  <1>1. /\ worker'.cmds = worker.cmds \o d /\ worker'.seen = worker.seen
        /\ worker.cmds \in Seq(Commands)
    BY SendFacts, SessionTypes
  <1>2. ASSUME NEW i \in DOMAIN worker'.cmds, worker'.cmds[i].kind \in VenueCommands
        PROVE  i \in DOMAIN worker.cmds /\ worker'.cmds[i] = worker.cmds[i]
    <2>1. \/ i \in DOMAIN worker.cmds /\ worker'.cmds[i] = worker.cmds[i]
          \/ /\ i - Len(worker.cmds) \in DOMAIN d
             /\ worker'.cmds[i] = d[i - Len(worker.cmds)]
      BY <1>1, <1>2, ConcatFacts
    <2> QED
      BY <1>2, <2>1
  <1>3. VenueFollows'
    BY <1>1, <1>2 DEF VenueFollows, VenueHeard, Settling
  <1>4. LoginInReplay'
    <2>1. ~IsLive("Replay")
      BY SessionAssumption DEF IsLive
    <2> SUFFICES ASSUME NEW i \in DOMAIN worker'.cmds, worker'.cmds[i].kind = "VenueLogin"
                 PROVE  /\ ~IsLive(chain'.mode) /\ ~IsLive(ui'.mode)
                        /\ \A k \in DOMAIN updates :
                              updates[k].kind # "ExecutionModeChanged"
      BY DEF LoginInReplay
    <2>2. i \in DOMAIN worker.cmds /\ worker.cmds[i].kind = "VenueLogin"
      BY <1>2 DEF VenueCommands
    <2> QED
      BY <2>1, <2>2 DEF LoginInReplay, Settling
  <1> QED
    BY <1>3, <1>4

LEMMA AutoReplaySettles == TypeInv /\ Settling /\ AutoReplay => Settling'
  <1> SUFFICES ASSUME TypeInv, Settling, AutoReplay PROVE Settling'
    OBVIOUS
  <1>1. /\ UNCHANGED <<session, updates, chain, skipped>>
        /\ worker.cmds \in Seq(Commands) /\ updates \in Seq(Reports)
        /\ ui \in [venue : Venues, mode : Modes, changed : BOOLEAN]
    BY SessionTypes DEF AutoReplay, TypeInv
  <1> DEFINE r == Cmd("SetExecutionMode", "Replay")
  <1>2. r \in Commands /\ r.kind = "SetExecutionMode"
    BY CmdTypes DEF Modes, Cmd
  <1>3. CASE UNCHANGED worker /\ ui'.mode = ui.mode /\ ui'.venue = ui.venue
    BY <1>1, <1>3 DEF Settling, VenueFollows, ModeFollows, LoginInReplay, ListedFollow,
                      VenueHeard, ModeHeard
  <1>4. CASE ui'.mode = "Replay" /\ ui'.venue = ui.venue /\ Send(<<r>>)
    <2> HIDE DEF r
    <2>1. /\ <<r>> \in Seq(Commands) /\ DOMAIN <<r>> = {1} /\ <<r>>[1] = r
      BY <1>2
    <2>2. worker'.cmds = worker.cmds \o <<r>> /\ worker'.seen = worker.seen
      BY <1>4, <2>1, SendFacts
    <2>3. \A i \in DOMAIN <<r>> : <<r>>[i].kind \notin VenueCommands
      BY <1>2, <2>1 DEF VenueCommands
    <2>4. VenueFollows' /\ LoginInReplay'
      BY <1>1, <1>4, <2>1, <2>3, SentKeeps
    <2>5. ReplayAhead(worker'.cmds, session'.mode)
      BY <1>1, <1>2, <2>2, AheadReplay DEF r
    <2>6. ModeFollows'
      <3>1. CASE \A i \in DOMAIN updates : updates[i].kind # "ExecutionModeChanged"
        <4>1. Heard(updates', "ExecutionModeChanged", ui'.mode, "Replay")
          BY <1>1, <1>4, <3>1 DEF Heard
        <4> QED
          BY <2>5, <4>1 DEF ModeFollows, ModeHeard
      <3>2. CASE ~\A i \in DOMAIN updates : updates[i].kind # "ExecutionModeChanged"
        <4>1. \A x : ModeHeard(x) => Heard(updates', "ExecutionModeChanged", ui'.mode, x)
          BY <1>1, <3>2 DEF Heard, ModeHeard
        <4> QED
          BY <2>2, <2>5, <4>1 DEF ModeFollows, ModeHeard, Settling
      <3> QED
        BY <3>1, <3>2
    <2>7. ListedFollow'
      <3>1. \A id : \A i \in DOMAIN <<r>> : <<r>>[i] # Cmd("UnsubscribeMarketData", id)
        BY <1>2, <2>1 DEF Cmd
      <3>2. ASSUME NEW id, Will(worker.cmds, session.subscribed, id)
            PROVE  Will(worker'.cmds, session'.subscribed, id)
        <4>1. Will(worker.cmds \o <<r>>, session.subscribed, id)
          BY <1>1, <2>1, <3>1, <3>2, WillConcat
        <4> QED
          BY <1>1, <2>2, <4>1
      <3> QED
        BY <1>1, <3>2 DEF ListedFollow, Settling
    <2> QED
      BY <2>4, <2>6, <2>7 DEF Settling
  <1> QED
    BY <1>1, <1>3, <1>4 DEF AutoReplay

LEMMA ChainSettles == TypeInv /\ Settling /\ Chain => Settling'
  <1> SUFFICES ASSUME TypeInv, Settling, Chain PROVE Settling'
    OBVIOUS
  <1>1. PICK wanted \in Subscribed(chain.ids), d \in Seq(Commands) :
           /\ Send(d) /\ skipped' = Unasked(wanted) \ wanted
           /\ \A i \in DOMAIN d :
                 d[i].kind \in {"ListInstruments", "SubscribeMarketData",
                                "UnsubscribeMarketData"}
           /\ \A i \in DOMAIN d :
                 d[i].kind = "UnsubscribeMarketData" => d[i].arg \in Removed
           /\ \A id \in wanted :
                 \E i \in DOMAIN d : d[i] = Cmd("SubscribeMarketData", id)
    BY ChainAsks
  <1>2. UNCHANGED <<session, updates, ui>>
    BY DEF Chain, ChainWith
  <1>3. chain'.mode = ui.mode /\ chain'.ids = registry
    <2>1. PICK b : chain' = [venue |-> ui.venue, mode |-> ui.mode, ids |-> registry,
                             pending |-> b]
      BY Zenon DEF Chain, ChainWith, Noticed
    <2> QED
      BY <2>1
  <1>4. /\ worker'.cmds = worker.cmds \o d /\ worker'.seen = worker.seen
        /\ worker.cmds \in Seq(Commands)
    BY <1>1, SendFacts, SessionTypes
  <1>5. \A i \in DOMAIN d : d[i].kind \notin VenueCommands /\ d[i].kind # "SetExecutionMode"
    BY <1>1 DEF VenueCommands
  <1>6. VenueFollows' /\ LoginInReplay'
    BY <1>1, <1>2, <1>3, <1>5, SentKeeps
  <1>7. ModeFollows'
    <2>1. \A x : ModeHeard(x) => Heard(updates', "ExecutionModeChanged", ui'.mode, x)
      BY <1>2 DEF ModeHeard
    <2>2. ReplayAhead(worker.cmds, session.mode) => ReplayAhead(worker'.cmds, session'.mode)
      BY <1>2, <1>4, <1>5, AheadConcat
    <2> QED
      BY <1>4, <2>1, <2>2 DEF ModeFollows, ModeHeard, Settling
  <1>8. ASSUME IsLive(ui.mode), session.venue = "CONNECTED", NEW id \in registry \ skipped'
        PROVE  Will(worker'.cmds, session'.subscribed, id)
    <2>1. id \notin Removed
      BY DEF Removed
    <2>2. \A i \in DOMAIN d : d[i] # Cmd("UnsubscribeMarketData", id)
      BY <1>1, <2>1 DEF Cmd
    <2>3. CASE id \in wanted
      BY <1>1, <1>4, <2>2, <2>3, WillAsked
    <2>4. CASE id \notin wanted
      <3>1. id \in chain.ids /\ chain.mode = ui.mode /\ id \notin skipped
        <4>1. id \notin Unasked(wanted)
          BY <1>1, <1>8, <2>4
        <4>2. CASE chain.mode = ui.mode
          BY <1>8, <2>4, <4>1, <4>2, WantedIs DEF Unasked
        <4>3. CASE chain.mode # ui.mode
          <5>1. Cardinality(wanted) # SubscriptionCap /\ id \in chain.ids
            BY <1>8, <2>4, <4>1, <4>3 DEF Unasked
          <5>2. wanted = chain.ids \intersect registry
            BY <1>8, <4>3, <5>1, WantedIs
          <5> QED
            BY <1>8, <2>4, <5>1, <5>2
        <4> QED
          BY <4>2, <4>3
      <3>2. Will(worker.cmds, session.subscribed, id)
        BY <1>8, <3>1 DEF Settling, ListedFollow
      <3> QED
        BY <1>2, <1>4, <2>2, <3>2, WillConcat
    <2> QED
      BY <2>3, <2>4
  <1>9. ListedFollow'
    BY <1>2, <1>3, <1>8 DEF ListedFollow
  <1> QED
    BY <1>6, <1>7, <1>9 DEF Settling

\* Asking for a list changes none of this.
LEMMA AskSettles ==
    ASSUME TypeInv, Settling, NEW c \in Commands,
           c.kind \notin VenueCommands \union {"SetExecutionMode", "UnsubscribeMarketData"},
           Send(<<c>>), UNCHANGED <<session, updates, ui, chain, skipped>>
    PROVE  Settling'
  <1>1. /\ <<c>> \in Seq(Commands) /\ DOMAIN <<c>> = {1} /\ <<c>>[1] = c
    OBVIOUS
  <1>2. /\ worker'.cmds = worker.cmds \o <<c>> /\ worker'.seen = worker.seen
        /\ worker.cmds \in Seq(Commands)
    BY <1>1, SendFacts, SessionTypes
  <1>3. \A i \in DOMAIN <<c>> :
           <<c>>[i].kind \notin VenueCommands \union {"SetExecutionMode"}
    BY <1>1
  <1>4. VenueFollows' /\ LoginInReplay'
    BY <1>1, <1>3, SentKeeps
  <1>5. ModeFollows'
    <2>1. ReplayAhead(worker.cmds, session.mode) => ReplayAhead(worker'.cmds, session'.mode)
      BY <1>1, <1>2, <1>3, AheadConcat
    <2> QED
      BY <1>2, <2>1 DEF ModeFollows, ModeHeard, Settling
  <1>6. ListedFollow'
    <2>1. ASSUME NEW id, Will(worker.cmds, session.subscribed, id)
          PROVE  Will(worker'.cmds, session'.subscribed, id)
      <3>1. \A i \in DOMAIN <<c>> : <<c>>[i] # Cmd("UnsubscribeMarketData", id)
        BY <1>1 DEF Cmd
      <3> DEFINE one == <<c>>
      <3>2. one \in Seq(Commands)
        BY <1>1
      <3>3. \A i \in DOMAIN one : one[i] # Cmd("UnsubscribeMarketData", id)
        BY <3>1
      <3>4. worker'.cmds = worker.cmds \o one /\ session'.subscribed = session.subscribed
        BY <1>2
      <3> HIDE DEF one
      <3>5. Will(worker.cmds \o one, session.subscribed, id)
        BY <1>2, <2>1, <3>2, <3>3, WillConcat
      <3> QED
        BY <3>4, <3>5
    <2> QED
      BY <2>1 DEF ListedFollow, Settling
  <1> QED
    BY <1>4, <1>5, <1>6 DEF Settling

\* At rest what is shown is what the backend has.
LEMMA RestShows ==
    ASSUME TypeInv, Settling, AtRest
    PROVE  ui.venue = session.venue /\ ui.mode = session.mode
  <1>1. /\ updates = <<>> /\ worker.cmds = <<>>
        /\ worker.seen.venue = session.venue /\ worker.seen.mode = session.mode
    BY DEF AtRest
  <1>2. DOMAIN updates = {} /\ DOMAIN worker.cmds = {}
    BY <1>1
  <1>3. ui.venue = session.venue
    BY <1>1, <1>2 DEF Settling, VenueFollows, VenueHeard, Heard
  <1>4. ui.mode = session.mode
    BY <1>1, <1>2 DEF Settling, ModeFollows, ModeHeard, Heard, ReplayAhead
  <1> QED
    BY <1>3, <1>4

\* A session command given at rest is alone in the queue; a login is given only
\* where no venue is shown, so in no live mode.
LEMMA CommandSettles ==
    ASSUME TypeInv, LiveNeedsVenue, Settling, AtRest, NEW kind, NEW arg,
           Cmd(kind, arg) \in Commands, kind \in VenueCommands \union {"SetExecutionMode"},
           kind = "VenueLogin" => ~IsVenueLive(ui.venue),
           Send(<<Cmd(kind, arg)>>), UNCHANGED <<session, updates, ui, chain, skipped>>
    PROVE  Settling'
  <1> DEFINE c == Cmd(kind, arg)
  <1>1. c.kind = kind /\ c \in Commands
    BY DEF Cmd
  <1>2. /\ worker.cmds = <<>> /\ updates = <<>> /\ ~ui.changed /\ chain = Noticed
        /\ worker.seen.venue = session.venue /\ worker.seen.mode = session.mode
    BY DEF AtRest
  <1>3. chain.mode = ui.mode
    BY <1>2 DEF Noticed
  <1> HIDE DEF c
  <1>4. <<c>> \in Seq(Commands) /\ DOMAIN <<c>> = {1} /\ <<c>>[1] = c
    BY <1>1
  <1>5. worker'.cmds = <<c>> /\ worker'.seen = worker.seen
    <2>1. worker'.cmds = worker.cmds \o <<c>> /\ worker'.seen = worker.seen
      BY <1>4, SendFacts DEF c
    <2> QED
      BY <1>2, <1>4, <2>1
  <1>6. ui.venue = session.venue /\ ui.mode = session.mode
    BY RestShows
  <1>7. DOMAIN updates = {}
    BY <1>2
  <1>8. VenueFollows'
    BY <1>2, <1>4, <1>5, <1>6, <1>7 DEF VenueFollows, VenueHeard, Heard
  <1>9. ModeFollows'
    BY <1>2, <1>5, <1>6, <1>7 DEF ModeFollows, ModeHeard, Heard
  <1>10. LoginInReplay'
    <2>1. kind = "VenueLogin" => ~IsLive(ui.mode)
      BY <1>2 DEF LiveNeedsVenue
    <2> QED
      BY <1>1, <1>3, <1>4, <1>5, <1>7, <2>1 DEF LoginInReplay
  <1>11. ListedFollow'
    <2>1. ASSUME NEW id, Will(worker.cmds, session.subscribed, id)
          PROVE  Will(worker'.cmds, session'.subscribed, id)
      <3>1. id \in session.subscribed
        BY <1>2, <2>1 DEF Will
      <3>2. c # Cmd("UnsubscribeMarketData", id)
        BY <1>1 DEF Cmd, VenueCommands
      <3> QED
        BY <1>4, <1>5, <3>1, <3>2 DEF Will
    <2> QED
      BY <2>1 DEF ListedFollow, Settling
  <1> QED
    BY <1>8, <1>9, <1>10, <1>11 DEF Settling

\* Steps that touch neither the queue nor what is shown.
LEMMA ElseSettles ==
    ASSUME TypeInv, Settling,
           UNCHANGED <<worker, updates, ui, chain, skipped>>,
           session'.venue = session.venue, session'.mode = session.mode,
           session'.subscribed = session.subscribed
    PROVE  Settling'
  BY DEF Settling, VenueFollows, ModeFollows, LoginInReplay, ListedFollow, VenueHeard,
         ModeHeard

-----------------------------------------------------------------------------
(* The invariant                                                           *)

LEMMA InitSettling == Init => LiveNeedsVenue /\ Settling
  <1> SUFFICES ASSUME Init PROVE LiveNeedsVenue /\ Settling
    OBVIOUS
  <1>1. ~IsLive("Replay") /\ ~IsLive("unknown")
    BY SessionAssumption DEF IsLive
  <1>2. /\ updates = <<>> /\ ui.venue = session.venue /\ session.venue = "DISCONNECTED"
        /\ ui.mode = "Replay" /\ session.mode = "Replay" /\ chain.mode = "unknown"
        /\ worker.cmds = <<Cmd("ListInstruments", "ReplayCatalogFallback")>>
    BY DEF Init
  <1>3. /\ DOMAIN updates = {} /\ DOMAIN worker.cmds = {1}
        /\ worker.cmds[1] = Cmd("ListInstruments", "ReplayCatalogFallback")
    BY <1>2
  <1>4. \A i \in DOMAIN worker.cmds : worker.cmds[i].kind = "ListInstruments"
    BY <1>3 DEF Cmd
  <1>5. VenueFollows
    BY <1>2, <1>3, <1>4 DEF VenueFollows, VenueHeard, Heard, VenueCommands
  <1>6. ModeFollows
    BY <1>2, <1>3, <1>4 DEF ModeFollows, ModeHeard, Heard, ReplayAhead
  <1>7. LoginInReplay
    BY <1>4 DEF LoginInReplay
  <1>8. ListedFollow
    BY <1>1, <1>2 DEF ListedFollow
  <1>9. LiveNeedsVenue
    BY <1>1, <1>2 DEF LiveNeedsVenue
  <1> QED
    BY <1>5, <1>6, <1>7, <1>8, <1>9 DEF Settling

\* Every report marks the resource, and only AutoReplay takes the mark away.
LEMMA NextNeedsVenue == TypeInv /\ LiveNeedsVenue /\ [Next]_vars => LiveNeedsVenue'
  <1> SUFFICES ASSUME TypeInv, LiveNeedsVenue, [Next]_vars PROVE LiveNeedsVenue'
    OBVIOUS
  <1>1. CASE UNCHANGED ui
    BY <1>1 DEF LiveNeedsVenue
  <1>2. CASE StatusUpdate
    <2>1. PICK n \in 1..Len(updates) :
             LET now == SubSeq(updates, 1, n)
             IN ui' = [venue |-> LastOf(now, {"VenueChanged"}, Report("", ui.venue)).arg,
                       mode |-> LastOf(now, {"ExecutionModeChanged"},
                                       Report("", ui.mode)).arg,
                       changed |-> ui.changed
                                   \/ \E i \in 1..n : AnyReport[now[i].kind]]
      BY <1>2 DEF StatusUpdate, Drain
    <2> DEFINE now == SubSeq(updates, 1, n)
    <2>2. /\ 1 \in 1..n /\ 1 \in DOMAIN now
          /\ now[1] = updates[1] /\ updates[1] \in Reports
      BY SessionTypes
    <2>3. AnyReport[now[1].kind]
      BY <2>2, ReportArgs DEF AnyReport
    <2>4. ui'.changed
      <3> DEFINE v == LastOf(now, {"VenueChanged"}, Report("", ui.venue)).arg
                 m == LastOf(now, {"ExecutionModeChanged"}, Report("", ui.mode)).arg
      <3>1. ui' = [venue |-> v, mode |-> m,
                   changed |-> ui.changed \/ \E i \in 1..n : AnyReport[now[i].kind]]
        BY <2>1, Zenon
      <3>2. ui.changed \/ \E i \in 1..n : AnyReport[now[i].kind]
        BY <2>2, <2>3, Zenon
      <3> HIDE DEF v, m
      <3>3. PICK b \in BOOLEAN : b /\ ui' = [venue |-> v, mode |-> m, changed |-> b]
        BY <3>1, <3>2, Zenon
      <3> QED
        BY <3>3
    <2> QED
      BY <2>4 DEF LiveNeedsVenue
  <1>3. CASE AutoReplay
    <2>1. ~IsLive("Replay")
      BY SessionAssumption DEF IsLive
    <2>2. ui \in [venue : Venues, mode : Modes, changed : BOOLEAN]
      BY DEF TypeInv
    <2>3. \/ ui'.mode = "Replay"
          \/ /\ IsVenueLive(ui.venue) \/ ~IsLive(ui.mode)
             /\ ui'.venue = ui.venue /\ ui'.mode = ui.mode
      BY <1>3, <2>2 DEF AutoReplay
    <2> QED
      BY <2>1, <2>3 DEF LiveNeedsVenue
  <1>4. Work => UNCHANGED ui
    BY DEF Work, VenueLogin, VenueLogout, SetExecutionMode, ListInstruments,
           ListInstrumentsAnswered, SubscribeMarketData, UnsubscribeMarketData, Poll
  <1>5. World => UNCHANGED ui
    BY DEF World, Connect, Disconnect, ChooseMode, FileNew, Command, EditRegistry,
           OpenPicker, RunnerDies
  <1>6. Chain \/ RetryPending \/ FirstRefreshEnds \/ LateCallEnds => UNCHANGED ui
    BY DEF Chain, ChainWith, RetryPending, FirstRefreshEnds, LateCallEnds
  <1> QED
    BY <1>1, <1>2, <1>3, <1>4, <1>5, <1>6 DEF Next, vars

\* A call that ends late drops an id only by making it one of those skipped.
LEMMA LateSettles == TypeInv /\ Settling /\ LateCallEnds => Settling'
  <1> SUFFICES ASSUME TypeInv, Settling, LateCallEnds PROVE Settling'
    OBVIOUS
  <1>1. UNCHANGED <<worker, updates, ui, chain>>
    BY DEF LateCallEnds
  <1>2. PICK id \in Ids :
          \/ /\ session' = [session EXCEPT !.late[id] = @ - 1]
             /\ UNCHANGED skipped
          \/ /\ session' = [session EXCEPT !.late[id] = @ - 1, !.subscribed = @ \ {id}]
             /\ skipped' = skipped \union ({id} \intersect session.subscribed)
    BY DEF LateCallEnds
  <1>3. /\ session'.venue = session.venue /\ session'.mode = session.mode
        /\ skipped \subseteq skipped'
        /\ session.subscribed \ skipped' \subseteq session'.subscribed
    <2>1. session \in Sessions
      BY SessionTypes
    <2>2. CASE /\ session' = [session EXCEPT !.late[id] = @ - 1]
               /\ UNCHANGED skipped
      <3>1. /\ session'.venue = session.venue /\ session'.mode = session.mode
            /\ session'.subscribed = session.subscribed
        BY <2>1, <2>2 DEF Sessions
      <3> QED
        BY <2>2, <3>1
    <2>3. CASE /\ session' = [session EXCEPT !.late[id] = @ - 1, !.subscribed = @ \ {id}]
               /\ skipped' = skipped \union ({id} \intersect session.subscribed)
      <3>1. /\ session'.venue = session.venue /\ session'.mode = session.mode
            /\ session'.subscribed = session.subscribed \ {id}
        BY <2>1, <2>3 DEF Sessions
      <3> QED
        BY <2>3, <3>1
    <2> QED
      BY <1>2, <2>2, <2>3
  <1>4. ASSUME NEW k \in chain.ids \ skipped', Will(worker.cmds, session.subscribed, k)
        PROVE  Will(worker.cmds, session'.subscribed, k)
    BY <1>3, <1>4 DEF Will
  <1>5. ListedFollow'
    BY <1>1, <1>3, <1>4 DEF Settling, ListedFollow
  <1>6. VenueFollows' /\ ModeFollows' /\ LoginInReplay'
    BY <1>1, <1>3 DEF Settling, VenueFollows, ModeFollows, LoginInReplay, VenueHeard, ModeHeard
  <1> QED
    BY <1>5, <1>6 DEF Settling

LEMMA WorldSettles ==
    ASSUME TypeInv, LiveNeedsVenue, ~hasty => Settling, World, ~hasty'
    PROVE  Settling'
  <1>1. ASSUME NEW kind, NEW arg, Command(kind, arg), Cmd(kind, arg) \in Commands,
               kind \in VenueCommands \union {"SetExecutionMode"},
               kind = "VenueLogin" => ~IsVenueLive(ui.venue)
        PROVE  Settling'
    <2>1. ~hasty /\ AtRest
      BY <1>1 DEF Command
    <2>2. Send(<<Cmd(kind, arg)>>) /\ UNCHANGED <<session, updates, ui, chain, skipped>>
      BY <1>1 DEF Command
    <2> QED
      BY <1>1, <2>1, <2>2, CommandSettles
  <1>2. CASE Connect
    BY <1>1, <1>2, CmdTypes DEF Connect, VenueCommands
  <1>3. CASE Disconnect
    BY <1>1, <1>3, CmdTypes DEF Disconnect, VenueCommands
  <1>4. CASE ChooseMode
    BY <1>1, <1>4, CmdTypes DEF ChooseMode
  <1>5. CASE FileNew
    BY <1>1, <1>5, CmdTypes DEF FileNew
  <1>6. CASE EditRegistry
    BY <1>6, ElseSettles DEF EditRegistry
  <1>7. CASE OpenPicker
    <2> DEFINE c == Cmd("ListInstruments", "LiveVenue")
    <2>1. /\ c \in Commands
          /\ c.kind \notin VenueCommands \union {"SetExecutionMode", "UnsubscribeMarketData"}
      BY CmdTypes DEF Sources, VenueCommands, Cmd
    <2> QED
      BY <1>7, <2>1, AskSettles DEF OpenPicker
  <1>8. CASE RunnerDies
    BY <1>8, ElseSettles, SessionTypes DEF RunnerDies, Sessions
  <1> QED
    BY <1>2, <1>3, <1>4, <1>5, <1>6, <1>7, <1>8 DEF World

LEMMA NextSettles ==
    ASSUME TypeInv, LiveNeedsVenue, ~hasty => Settling, [Next]_vars, ~hasty'
    PROVE  Settling'
  <1>1. ASSUME Work PROVE Settling'
    <2>1. ~hasty
      BY <1>1 DEF Work, VenueLogin, VenueLogout, SetExecutionMode, ListInstruments,
                  ListInstrumentsAnswered, SubscribeMarketData, UnsubscribeMarketData, Poll
    <2> QED
      BY <1>1, <2>1, LoginSettles, LogoutSettles, SetModeSettles, ListSettles,
         AnsweredSettles, SubscribeSettles, UnsubscribeSettles, PollSettles DEF Work
  <1>2. ASSUME World PROVE Settling'
    BY <1>2, WorldSettles
  <1>3. CASE StatusUpdate
    BY <1>3, DrainSettles DEF StatusUpdate, Drain
  <1>4. CASE AutoReplay
    BY <1>4, AutoReplaySettles DEF AutoReplay
  <1>5. CASE Chain
    BY <1>5, ChainSettles DEF Chain, ChainWith
  <1>6. CASE RetryPending
    <2> DEFINE c == Cmd("ListInstruments", "LiveVenue")
    <2>1. /\ c \in Commands
          /\ c.kind \notin VenueCommands \union {"SetExecutionMode", "UnsubscribeMarketData"}
      BY CmdTypes DEF Sources, VenueCommands, Cmd
    <2> QED
      BY <1>6, <2>1, AskSettles DEF RetryPending
  <1>7. CASE FirstRefreshEnds
    <2>1. PICK t : session' = [session EXCEPT !.warming = FALSE, !.stored = t]
      BY <1>7, Zenon DEF FirstRefreshEnds
    <2>2. /\ session'.venue = session.venue /\ session'.mode = session.mode
          /\ session'.subscribed = session.subscribed
      BY <2>1, SessionTypes DEF Sessions
    <2> QED
      BY <1>7, <2>2, ElseSettles DEF FirstRefreshEnds
  <1>8. CASE UNCHANGED vars
    BY <1>8, ElseSettles DEF vars
  <1>9. CASE LateCallEnds
    BY <1>9, LateSettles DEF LateCallEnds
  <1> QED
    BY <1>1, <1>2, <1>3, <1>4, <1>5, <1>6, <1>7, <1>8, <1>9 DEF Next

LEMMA AlwaysSessionInv == Spec => []SessionInv
  <1>1. Init => SessionInv
    BY InitTypes, InitSettling DEF SessionInv
  <1>2. SessionInv /\ [Next]_vars => SessionInv'
    BY NextTypes, NextNeedsVenue, NextSettles DEF SessionInv
  <1> QED
    BY <1>1, <1>2, PTL DEF Spec

\* The types of the session, the worker and the UI, for any instruments, any
\* cap and any number of steps of the user and the venue.
THEOREM TypeCorrect == Spec => []TypeInv
  <1>1. SessionInv => TypeInv
    BY DEF SessionInv
  <1> QED
    BY <1>1, AlwaysSessionInv, PTL

\* A frame that shows a live mode over a lost venue has the switch to Replay
\* still to run, whatever order the reports arrive in.
THEOREM LiveAlwaysHasVenue == Spec => []LiveNeedsVenue
  <1>1. SessionInv => LiveNeedsVenue
    BY DEF SessionInv
  <1> QED
    BY <1>1, AlwaysSessionInv, PTL

\* Once all is at rest the UI shows the venue and the mode the backend has,
\* unless a session command was given before the last one had settled.
THEOREM ShownIsAlwaysTrue == Spec => []ShownIsTrue
  <1>1. SessionInv => ShownIsTrue
    BY RestShows DEF SessionInv, ShownIsTrue
  <1> QED
    BY <1>1, AlwaysSessionInv, PTL

\* At rest in a live mode every listed instrument is subscribed, but for those
\* the backend or the cap refused, that came in the frame of a mode switch, or
\* that a call took back on which the backend had given up.
THEOREM ListedAlwaysSubscribed == Spec => []ListedIsSubscribed
  <1>1. SessionInv => ListedIsSubscribed
    <2> SUFFICES ASSUME SessionInv, AtRest, ~hasty, IsLive(ui.mode),
                        NEW id \in registry \ skipped
                 PROVE  id \in session.subscribed
      BY DEF ListedIsSubscribed
    <2>1. ui.venue = session.venue /\ Settling
      BY RestShows DEF SessionInv
    <2>2. session.venue = "CONNECTED"
      BY <2>1 DEF SessionInv, LiveNeedsVenue, AtRest, IsVenueLive
    <2>3. chain.mode = ui.mode /\ chain.ids = registry
      BY DEF AtRest, Noticed
    <2>4. Will(worker.cmds, session.subscribed, id)
      BY <2>1, <2>2, <2>3 DEF Settling, ListedFollow
    <2>5. worker.cmds = <<>>
      BY DEF AtRest
    <2>6. DOMAIN worker.cmds = {}
      BY <2>5
    <2> QED
      BY <2>4, <2>6 DEF Will
  <1> QED
    BY <1>1, AlwaysSessionInv, PTL
=============================================================================
