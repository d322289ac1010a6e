--------------------------- MODULE LiveFeedProofs ---------------------------
(***************************************************************************)
(* Proof that no socket is told of an advance twice and that no open       *)
(* socket falls out of the broadcasts, for any number of dashboards,       *)
(* readings, sockets and requests.                                         *)
(***************************************************************************)
EXTENDS LiveFeed, FiniteSetTheorems, SequenceTheorems, TLAPS

-----------------------------------------------------------------------------
(* The inductive invariant *)

\* No socket has been told of more than the notifier knows, which makes the next
\* advance news to all of them.
PushedIsKnown == \A w \in Sockets : lastPush[w] <= notifier.last

IInv == /\ TypeOK /\ IsFiniteSet(rows)
        /\ PushedIsKnown /\ NoRepeatedPush /\ OpenIsRegistered

-----------------------------------------------------------------------------
(* Lemmas *)

\* Of finitely many timestamps there is a greatest: of the sets of those above
\* each, a smallest exists, and it is empty.
LEMMA GreatestTime ==
    ASSUME NEW S \in SUBSET Int, IsFiniteSet(S), S # {}
    PROVE  \E t \in S : \A u \in S : t >= u
<1>. DEFINE Above(x) == {y \in S : x < y}
            family == {Above(x) : x \in S}
            R == StrictSubsetOrdering(S)
<1>1. IsWellFoundedOn(R, SUBSET S)
  BY FS_StrictSubsetOrderingWellFounded, FS_FiniteSubsetsOfFinite
<1>2. family \subseteq SUBSET S /\ family # {}
  <2>1. \A x \in S : Above(x) \in SUBSET S
    OBVIOUS
  <2>. HIDE DEF Above
  <2>. QED  BY <2>1
<1>. HIDE DEF R
<1>3. PICK A \in family : \A B \in family : ~(<<B, A>> \in R)
  BY <1>1, <1>2, WFMin
<1>4. PICK t \in S : A = Above(t)
  BY <1>3
<1>5. ASSUME NEW u \in S, t < u PROVE FALSE
  <2>1. t \in Int /\ u \in Int /\ \A y \in S : u < y => t < y
    BY <1>5
  <2>2. Above(u) \subseteq Above(t) /\ u \in Above(t) /\ u \notin Above(u)
    <3>1. Above(u) \subseteq Above(t)
      BY <2>1
    <3>2. u \in Above(t)
      BY <1>5
    <3>3. u \notin Above(u)
      BY <2>1
    <3>. QED  BY <3>1, <3>2, <3>3
  <2>. HIDE DEF Above
  <2>3. <<Above(u), Above(t)>> \in R
    BY <1>2, <2>2 DEF R, StrictSubsetOrdering
  <2>. QED  BY <1>3, <1>4, <2>3
<1>6. \A u \in S : t \in Int /\ u \in Int /\ ~(t < u)
  BY <1>5
<1>. QED  BY <1>6

\* The greatest timestamp of the table is one of its readings.
LEMMA LatestTyped ==
    ASSUME TypeOK, IsFiniteSet(rows)
    PROVE  Latest \in Times \union {0} /\ Latest \in Nat
<1>1. rows \in SUBSET Int /\ rows \subseteq Times /\ Times \subseteq Nat
  BY FeedAssumption DEF TypeOK
<1>2. CASE rows # {}
  <2>1. \E t \in rows : \A u \in rows : t >= u
    BY <1>1, <1>2, GreatestTime
  <2>2. Max(rows) \in rows
    BY <2>1 DEF Max
  <2>. QED  BY <1>1, <1>2, <2>2 DEF Latest
<1>. QED  BY <1>2 DEF Latest

Event == [event: {"station_snapshot", "new_readings"}, shows: SUBSET Times]

\* What a call finds in the cache is a set of readings.
LEMMA LookTyped ==
    ASSUME TypeOK
    PROVE  Look \in Call /\ NoCall \in Call
BY DEF TypeOK, Look, NoCall, Call

\* A step that changes the calls and what the pages show, and nothing that the
\* broadcasts depend on.
Quiet == UNCHANGED <<rows, accepted, connections, notifier, current, opened, lastPush>>

\* A step that leaves the table, the sockets and what was pushed as they are.
LEMMA QuietStep ==
    ASSUME IInv, TypeOK', Quiet
    PROVE  IInv'
BY DEF IInv, Quiet, PushedIsKnown, NoRepeatedPush, OpenIsRegistered, Open

\* A new request for the stations.
LEMMA AskTyped ==
    ASSUME TypeOK, NEW c \in Clients, Ask(c)
    PROVE  request' \in [Requests -> Call]
BY LookTyped DEF Ask, TypeOK

-----------------------------------------------------------------------------
(* The steps *)

\* No socket is open, and nothing has been pushed.
LEMMA InitInv == Init => IInv
<1>. SUFFICES ASSUME Init PROVE IInv
  OBVIOUS
<1>1. TypeOK
  BY FeedAssumption DEF Init, TypeOK, Empty, NoCall, Call
<1>2. IsFiniteSet(rows)
  BY FS_EmptySet DEF Init
<1>3. PushedIsKnown /\ NoRepeatedPush
  BY DEF Init, PushedIsKnown, NoRepeatedPush
<1>4. OpenIsRegistered
  BY FeedAssumption DEF Init, OpenIsRegistered, Open, Sockets
<1>. QED  BY <1>1, <1>2, <1>3, <1>4 DEF IInv

\* The requests are served.
LEMMA ServeStep ==
    ASSUME IInv, NEW k \in Requests, Serve(k)
    PROVE  IInv'
<1>1. TypeOK /\ request[k] \in Call /\ request[k].shows \in SUBSET Times
  BY DEF IInv, TypeOK, Call
<1>2. CASE Query(k)
  <2>1. [pc |-> "queried", shows |-> rows] \in Call
    BY <1>1 DEF TypeOK, Call
  <2>2. TypeOK'
    BY <1>1, <1>2, <2>1 DEF Query, TypeOK, api, page
  <2>. QED  BY <1>2, <2>2, QuietStep DEF Query, Quiet, api, page
<1>3. CASE Fill(k)
  <2>1. [request[k] EXCEPT !.pc = "answered"] \in Call
    BY <1>1 DEF Call
  <2>2. request' = [request EXCEPT ![k] = [request[k] EXCEPT !.pc = "answered"]]
    BY <1>3 DEF Fill
  <2>3. request' \in [Requests -> Call]
    BY <1>1, <2>1, <2>2 DEF TypeOK
  <2>4. cache' \in [valid: BOOLEAN, shows: SUBSET Times]
    BY <1>1, <1>3 DEF Fill, Entry
  <2>5. TypeOK'
    BY <1>1, <1>3, <2>3, <2>4 DEF Fill, TypeOK, page
  <2>. QED  BY <1>3, <2>5, QuietStep DEF Fill, Quiet, page
<1>. QED  BY <1>2, <1>3 DEF Serve

\* A socket is opened: its handler is about to register it.
LEMMA ConnectStep ==
    ASSUME IInv, NEW c \in Clients, Connect(c)
    PROVE  IInv'
<1>. DEFINE w == <<c, opened[c] + 1>>
<1>1. TypeOK /\ opened[c] \in 0..MaxSockets /\ opened[c] < MaxSockets
  BY DEF IInv, TypeOK, Connect
<1>2. w \in Sockets /\ opened[c] + 1 \in 0..MaxSockets
  BY <1>1, FeedAssumption DEF Sockets
<1>3. /\ opened' = [opened EXCEPT ![c] = opened[c] + 1]
      /\ current' = [current EXCEPT ![c] = opened[c] + 1]
      /\ accepted' = accepted \union {w}
      /\ UNCHANGED <<rows, cache, connections, notifier, request, inbox, screen, lastPush>>
  BY DEF Connect
<1>4. TypeOK'
  <2>1. opened' \in [Clients -> 0..MaxSockets] /\ current' \in [Clients -> 0..MaxSockets]
    BY <1>1, <1>2, <1>3 DEF TypeOK
  <2>2. accepted' \subseteq Sockets
    BY <1>1, <1>2, <1>3 DEF TypeOK
  <2>. QED  BY <1>1, <1>3, <2>1, <2>2 DEF TypeOK
<1>5. OpenIsRegistered'
  <2>. SUFFICES ASSUME NEW v \in Sockets, Open(v)' PROVE v \in accepted' \union connections'
    BY DEF OpenIsRegistered
  <2>1. CASE v[1] = c
    <3>1. v[2] = opened[c] + 1
      BY <1>1, <1>3, <2>1 DEF Open, TypeOK
    <3>2. v = w
      BY <2>1, <3>1 DEF Sockets
    <3>. QED  BY <1>3, <3>2
  <2>2. CASE v[1] # c
    <3>1. Open(v)
      BY <1>1, <1>3, <2>2 DEF Open, TypeOK, Sockets
    <3>. QED  BY <1>3, <3>1 DEF IInv, OpenIsRegistered
  <2>. QED  BY <2>1, <2>2
<1>. QED  BY <1>3, <1>4, <1>5 DEF IInv, PushedIsKnown, NoRepeatedPush

\* The handler of a socket registers it, sends the snapshot or an error, or ends.
LEMMA HandleStep ==
    ASSUME IInv, NEW w \in Sockets, Handle(w) \/ GreetFails(w)
    PROVE  IInv'
<1>. DEFINE k == <<"socket", w>>
<1>1. TypeOK /\ k \in Requests /\ request[k] \in Call /\ request[k].shows \in SUBSET Times
  <2>1. TypeOK /\ k \in Requests
    BY DEF IInv, Requests
  <2>2. request[k] \in Call
    BY <2>1 DEF TypeOK
  <2>. QED  BY <2>1, <2>2 DEF Call
<1>. HIDE DEF k
<1>2. CASE Greet(w)
  <2>1. request' = [request EXCEPT ![k] = NoCall]
        /\ UNCHANGED <<rows, cache, accepted, connections, notifier, current, opened, screen,
                       lastPush>>
    BY <1>2 DEF Greet, k, api
  <2>2. [event |-> SnapshotEvent, shows |-> request[k].shows] \in Event
    BY <1>1 DEF SnapshotEvent, Event
  <2>3. inbox' = inbox \/ inbox' = [inbox EXCEPT ![w] = Append(inbox[w],
                              [event |-> SnapshotEvent, shows |-> request[k].shows])]
    BY <1>2 DEF Greet, k
  <2>4. inbox \in [Sockets -> Seq(Event)]
    BY <1>1 DEF TypeOK, Event
  <2>5. inbox' \in [Sockets -> Seq(Event)]
    <3>1. inbox[w] \in Seq(Event)
      BY <2>4
    <3>2. Append(inbox[w], [event |-> SnapshotEvent, shows |-> request[k].shows]) \in Seq(Event)
      BY <2>2, <3>1, AppendProperties
    <3>. QED  BY <2>3, <2>4, <3>2
  <2>6. TypeOK'
    BY <1>1, <2>1, <2>5, LookTyped DEF TypeOK, Event
  <2>. QED  BY <2>1, <2>6, QuietStep DEF Quiet
<1>3. CASE GreetFails(w)
  <2>1. TypeOK'
    BY <1>1, <1>3, LookTyped DEF GreetFails, TypeOK, api, page
  <2>. QED  BY <1>3, <2>1, QuietStep DEF GreetFails, Quiet, api, page
<1>4. CASE Leave(w)
  <2>1. /\ connections' = connections \ {w} /\ ~Open(w)
        /\ UNCHANGED <<rows, cache, accepted, notifier, request, current, opened, inbox, screen,
                       lastPush>>
    BY <1>4 DEF Leave, Without, page
  <2>2. TypeOK'
    BY <1>1, <2>1 DEF TypeOK
  <2>. QED  BY <2>1, <2>2 DEF IInv, PushedIsKnown, NoRepeatedPush, OpenIsRegistered, Open
<1>5. CASE Register(w)
  <2>1. /\ accepted' = accepted \ {w} /\ connections' = connections \union {w}
        /\ request' = [request EXCEPT ![k] = Look]
        /\ UNCHANGED <<rows, cache, notifier, current, opened, inbox, screen, lastPush>>
    BY <1>5 DEF Register, k, page
  <2>2. TypeOK'
    BY <1>1, <2>1, LookTyped DEF TypeOK
  <2>. QED  BY <2>1, <2>2 DEF IInv, PushedIsKnown, NoRepeatedPush, OpenIsRegistered, Open
<1>. QED  BY <1>2, <1>3, <1>4, <1>5 DEF Handle

\* The next socket of a broadcast is told, or found closed and removed.
LEMMA PushStep ==
    ASSUME IInv, NEW w \in Sockets, Push(w)
    PROVE  IInv'
<1>1. /\ w \in notifier.pending
      /\ notifier' = [notifier EXCEPT !.pending = @ \ {w}]
      /\ UNCHANGED <<rows, cache, accepted, request, current, opened, screen>>
  BY DEF Push
<1>2. TypeOK /\ notifier.last \in Times \union {0} /\ notifier.last \in Int
      /\ notifier.pending \in SUBSET Sockets
  <2>1. TypeOK /\ \A t \in Times \union {0} : t \in Int
    BY FeedAssumption DEF IInv
  <2>2. notifier \in [last: Times \union {0}, pending: SUBSET Sockets]
    BY <2>1 DEF TypeOK
  <2>. QED  BY <2>1, <2>2
<1>3. /\ notifier'.last = notifier.last /\ notifier'.pending = notifier.pending \ {w}
      /\ notifier' \in [last: Times \union {0}, pending: SUBSET Sockets]
  BY <1>1, <1>2 DEF TypeOK
<1>4. /\ inbox' \in [Sockets -> Seq(Event)]
      /\ lastPush' \in [Sockets -> Times \union {0}]
      /\ connections' \subseteq Sockets
      /\ \A v \in Sockets : Open(v) /\ v \in connections => v \in connections'
      /\ \A v \in Sockets : lastPush'[v] = lastPush[v] \/ (v = w /\ lastPush'[v] = notifier.last)
  <2>1. inbox \in [Sockets -> Seq(Event)] /\ lastPush \in [Sockets -> Times \union {0}]
    BY <1>2 DEF TypeOK, Event
  <2>2. CASE Open(w)
    <3>1. /\ inbox' = [inbox EXCEPT ![w] = Append(inbox[w], [event |-> "new_readings", shows |-> {}])]
          /\ lastPush' = [lastPush EXCEPT ![w] = notifier.last]
          /\ connections' = connections
      BY <2>2 DEF Push
    <3>2. [event |-> "new_readings", shows |-> {}] \in Event /\ inbox[w] \in Seq(Event)
      BY <2>1 DEF Event
    <3>3. Append(inbox[w], [event |-> "new_readings", shows |-> {}]) \in Seq(Event)
      BY <3>2, AppendProperties
    <3>. QED  BY <1>2, <2>1, <3>1, <3>3 DEF TypeOK
  <2>3. CASE ~Open(w)
    <3>1. connections' = connections \ {w} /\ inbox' = inbox /\ lastPush' = lastPush
      BY <2>3 DEF Push, Without
    <3>. QED  BY <1>2, <2>1, <2>3, <3>1 DEF TypeOK
  <2>. QED  BY <2>2, <2>3
<1>5. TypeOK'
  BY <1>1, <1>2, <1>3, <1>4 DEF TypeOK, Event
<1>6. PushedIsKnown'
  BY <1>2, <1>3, <1>4 DEF IInv, PushedIsKnown
<1>7. NoRepeatedPush'
  BY <1>2, <1>3, <1>4 DEF IInv, NoRepeatedPush
<1>8. OpenIsRegistered'
  BY <1>1, <1>4 DEF IInv, OpenIsRegistered, Open
<1>. QED  BY <1>1, <1>5, <1>6, <1>7, <1>8 DEF IInv

\* The notifier finds a later reading: an advance none of the sockets knows.
LEMMA PollStep == IInv /\ Poll => IInv'
<1>. SUFFICES ASSUME IInv, Poll PROVE IInv'
  OBVIOUS
<1>1. /\ notifier' = [last |-> Latest, pending |-> connections] /\ Latest > notifier.last
      /\ UNCHANGED <<rows, cache, accepted, connections, request, page, lastPush>>
  BY DEF Poll, Advanced
<1>2. Latest \in Times \union {0} /\ Latest \in Nat
  BY LatestTyped DEF IInv
<1>3. TypeOK /\ notifier.last \in Int /\ \A w \in Sockets : lastPush[w] \in Int
  <2>1. TypeOK /\ \A t \in Times \union {0} : t \in Int
    BY FeedAssumption DEF IInv
  <2>2. notifier.last \in Times \union {0}
    BY <2>1 DEF TypeOK
  <2>3. \A w \in Sockets : lastPush[w] \in Times \union {0}
    BY <2>1 DEF TypeOK
  <2>. QED  BY <2>1, <2>2, <2>3
<1>4. \A w \in Sockets : lastPush[w] < Latest
  BY <1>1, <1>2, <1>3 DEF IInv, PushedIsKnown
<1>5. notifier'.last = Latest /\ notifier'.pending = connections /\ connections \subseteq Sockets
  BY <1>1, <1>3 DEF TypeOK
<1>. HIDE DEF Latest
<1>6. notifier' \in [last: Times \union {0}, pending: SUBSET Sockets]
  BY <1>1, <1>2, <1>5
<1>7. TypeOK'
  BY <1>1, <1>3, <1>6 DEF TypeOK, page
<1>8. PushedIsKnown' /\ NoRepeatedPush'
  BY <1>1, <1>2, <1>3, <1>4, <1>5 DEF PushedIsKnown, NoRepeatedPush
<1>9. OpenIsRegistered'
  BY <1>1 DEF IInv, OpenIsRegistered, Open, page
<1>. QED  BY <1>1, <1>7, <1>8, <1>9 DEF IInv

\* A connection breaks.
LEMMA DropStep ==
    ASSUME IInv, NEW c \in Clients, Drop(c)
    PROVE  IInv'
<1>1. /\ current' = [current EXCEPT ![c] = 0]
      /\ inbox' = [inbox EXCEPT ![<<c, current[c]>>] = <<>>]
      /\ UNCHANGED <<rows, cache, accepted, connections, notifier, request, opened, screen,
                     lastPush>>
  BY DEF Drop, api
<1>2. TypeOK
  BY DEF IInv
<1>3. TypeOK'
  <2>1. current' \in [Clients -> 0..MaxSockets]
    BY <1>1, <1>2, FeedAssumption DEF TypeOK
  <2>2. inbox' \in [Sockets -> Seq(Event)]
    <3>1. inbox \in [Sockets -> Seq(Event)]
      BY <1>2 DEF TypeOK, Event
    <3>2. <<>> \in Seq(Event)
      OBVIOUS
    <3>. QED  BY <1>1, <3>1, <3>2
  <2>. QED  BY <1>1, <1>2, <2>1, <2>2 DEF TypeOK, Event
<1>4. \A w \in Sockets : Open(w)' => Open(w)
  BY <1>1, <1>2 DEF Open, Sockets, TypeOK
<1>5. OpenIsRegistered'
  BY <1>1, <1>4 DEF IInv, OpenIsRegistered
<1>. QED  BY <1>1, <1>3, <1>5 DEF IInv, PushedIsKnown, NoRepeatedPush

\* A dashboard loads the page, handles an event or shows an answer.
LEMMA BrowseStep ==
    ASSUME IInv, NEW c \in Clients, Load(c) \/ Browse(c)
    PROVE  IInv'
<1>1. TypeOK
  BY DEF IInv
<1>2. CASE Load(c)
  <2>1. request' \in [Requests -> Call]
    BY <1>1, <1>2, AskTyped DEF Load
  <2>2. TypeOK'
    BY <1>1, <1>2, <2>1 DEF Load, TypeOK, api, page
  <2>. QED  BY <1>2, <2>2, QuietStep DEF Load, Quiet, api, page
<1>3. CASE Receive(c)
  <2>. DEFINE w == <<c, current[c]>>
  <2>1. /\ current[c] # 0 /\ inbox[w] # <<>>
        /\ inbox' = [inbox EXCEPT ![w] = Tail(@)]
        /\ UNCHANGED <<rows, cache, accepted, connections, notifier, current, opened, lastPush>>
    BY <1>3 DEF Receive, api
  <2>2. w \in Sockets
    BY <1>1, <2>1, FeedAssumption DEF TypeOK, Sockets
  <2>3. inbox \in [Sockets -> Seq(Event)]
    BY <1>1 DEF TypeOK, Event
  <2>4. inbox[w] \in Seq(Event)
    BY <2>2, <2>3
  <2>5. Head(inbox[w]) \in Event /\ Tail(inbox[w]) \in Seq(Event)
    BY <2>1, <2>4, HeadTailProperties
  <2>6. inbox' \in [Sockets -> Seq(Event)]
    BY <2>1, <2>3, <2>5
  <2>7. /\ screen' = screen \/ screen' = [screen EXCEPT ![c] = Head(inbox[w]).shows]
        /\ request' = request \/ Ask(c)
    BY <1>3 DEF Receive
  <2>8. screen' \in [Clients -> SUBSET Times] /\ request' \in [Requests -> Call]
    <3>1. Head(inbox[w]).shows \in SUBSET Times
      BY <2>5 DEF Event
    <3>. HIDE DEF w
    <3>2. screen' \in [Clients -> SUBSET Times]
      BY <1>1, <2>7, <3>1 DEF TypeOK
    <3>3. request' \in [Requests -> Call]
      BY <1>1, <2>7, AskTyped DEF TypeOK
    <3>. QED  BY <3>2, <3>3
  <2>9. TypeOK'
    BY <1>1, <2>1, <2>6, <2>8 DEF TypeOK, Event
  <2>. QED  BY <2>1, <2>9, QuietStep DEF Quiet
<1>4. ASSUME NEW i \in 1..MaxRequests, Show(c, <<c, i>>) PROVE IInv'
  <2>. DEFINE k == <<"http", <<c, i>>>>
  <2>1. /\ screen' = [screen EXCEPT ![c] = request[k].shows]
        /\ request' = [request EXCEPT ![k] = NoCall]
        /\ UNCHANGED <<rows, cache, accepted, connections, notifier, current, opened, inbox,
                       lastPush>>
    BY <1>4 DEF Show, api
  <2>2. k \in Requests
    BY DEF Requests, Calls
  <2>. HIDE DEF k
  <2>3. request[k].shows \in SUBSET Times
    BY <1>1, <2>2 DEF TypeOK, Call
  <2>4. TypeOK'
    BY <1>1, <2>1, <2>3, LookTyped DEF TypeOK
  <2>. QED  BY <2>1, <2>4, QuietStep DEF Quiet
<1>. QED  BY <1>2, <1>3, <1>4 DEF Browse

\* Every step keeps the invariant.
LEMMA StepInv == IInv /\ [Next]_vars => IInv'
<1>. SUFFICES ASSUME IInv, [Next]_vars PROVE IInv'
  OBVIOUS
<1>1. CASE UNCHANGED vars
  <2>1. Quiet /\ UNCHANGED <<cache, request, inbox, screen>>
    BY <1>1 DEF vars, Quiet, api, page
  <2>2. TypeOK'
    BY <2>1 DEF IInv, TypeOK, Quiet
  <2>. QED  BY <2>1, <2>2, QuietStep
<1>2. ASSUME NEW t \in Times, Insert(t) PROVE IInv'
  <2>1. rows' = rows \union {t} /\ UNCHANGED <<api, request, page, lastPush>>
    BY <1>2 DEF Insert
  <2>2. IsFiniteSet(rows')
    BY <2>1, FS_AddElement DEF IInv
  <2>3. TypeOK'
    BY <2>1 DEF IInv, TypeOK, api, page
  <2>. QED  BY <2>1, <2>2, <2>3
            DEF IInv, PushedIsKnown, NoRepeatedPush, OpenIsRegistered, Open, api, page
<1>3. CASE Expire
  <2>1. /\ cache' = Empty
        /\ UNCHANGED <<rows, accepted, connections, notifier, request, page, lastPush>>
    BY <1>3 DEF Expire
  <2>2. TypeOK'
    BY <2>1 DEF IInv, TypeOK, Empty, page
  <2>. QED  BY <2>1, <2>2, QuietStep DEF Quiet, page
<1>. QED
  BY <1>1, <1>2, <1>3, PollStep, ServeStep, HandleStep, PushStep, ConnectStep, DropStep, BrowseStep
  DEF Next

\* One case for every action.
LEMMA Invariant == Spec => []IInv
BY InitInv, StepInv, PTL DEF Spec

-----------------------------------------------------------------------------
(* The properties *)

\* The feed's state stays within its types.
THEOREM TypeCorrect == Spec => []TypeOK
<1>1. IInv => TypeOK
  BY DEF IInv
<1>. QED  BY Invariant, <1>1, PTL

\* No socket is told of an advance twice, for any dashboards and readings.
THEOREM NoAdvanceTwice == Spec => []NoRepeatedPush
<1>1. IInv => NoRepeatedPush
  BY DEF IInv
<1>. QED  BY Invariant, <1>1, PTL

\* No open socket falls out of the set that broadcasts go to, however often its
\* client reconnects.
THEOREM OpenStaysRegistered == Spec => []OpenIsRegistered
<1>1. IInv => OpenIsRegistered
  BY DEF IInv
<1>. QED  BY Invariant, <1>1, PTL
=============================================================================
