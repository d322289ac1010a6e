------------------------------ MODULE LiveFeed ------------------------------
(***************************************************************************)
(* How a stored reading reaches a screen.  DBLiveFeedNotifier              *)
(* (services/api/websocket.py) polls the greatest timestamp of aq_readings *)
(* and tells every open /ws/live-feed socket when it has grown; a          *)
(* dashboard (frontend useLiveFeed, useDashboardData) that is told asks    *)
(* for the stations again; get_stations_response answers from a cache that *)
(* lives API_STATION_CACHE_TTL_SECONDS.  The handler of a new socket       *)
(* accepts it, registers it and sends it a snapshot through that cache.    *)
(*                                                                         *)
(* A reading is its timestamp; a snapshot is the set of readings it shows. *)
(***************************************************************************)
EXTENDS Integers, Sequences, FiniteSets, SequencesExt

CONSTANTS Clients,      \* open dashboards
          Times,        \* timestamps of readings
          MaxSockets,   \* bound: sockets a client opens
          MaxRequests   \* bound: station requests of a client under way

ASSUME FeedAssumption ==
    Times \subseteq Nat \ {0} /\ MaxSockets \in Nat /\ MaxRequests \in Nat

VARIABLES
    rows,         \* aq_readings
    cache,        \* the entry of station_snapshots, Empty if none is valid
    accepted,     \* sockets whose handler is about to register them
    connections,  \* ConnectionManager._connections
    notifier,     \* _latest_timestamp, and the sockets the broadcast has left
    request,      \* calls of get_stations_response, by socket or client and slot
    current,      \* the socket of each client, 0 while it has none
    opened,       \* sockets each client has opened
    inbox,        \* events on their way to the browser
    screen,       \* what the dashboard shows
    lastPush      \* history: the last timestamp pushed to each socket

api  == <<cache, accepted, connections, notifier>>
page == <<current, opened, inbox, screen>>
vars == <<rows, api, request, page, lastPush>>

Sockets  == Clients \X (1..MaxSockets)
Calls    == Clients \X (1..MaxRequests)
Requests == {"socket"} \X Sockets \union {"http"} \X Calls
Empty    == [valid |-> FALSE, shows |-> {}]
Entry(s) == [valid |-> TRUE, shows |-> s]

\* get_stations_response: waiting for the database after a cache miss, about to
\* fill the cache, answered.
NoCall  == [pc |-> "none", shows |-> {}]
Call    == [pc: {"none", "missed", "queried", "answered"}, shows: SUBSET Times]

Open(w)    == current[w[1]] = w[2]
Pushing    == notifier.pending # {}
Latest     == IF rows = {} THEN 0 ELSE Max(rows)

-----------------------------------------------------------------------------
Init ==
    /\ rows = {}
    /\ cache = Empty /\ accepted = {} /\ connections = {}
    /\ notifier = [last |-> 0, pending |-> {}]
    /\ request = [k \in Requests |-> NoCall]
    /\ current = [c \in Clients |-> 0]
    /\ opened = [c \in Clients |-> 0]
    /\ inbox = [w \in Sockets |-> <<>>]
    /\ screen = [c \in Clients |-> {}]
    /\ lastPush = [w \in Sockets |-> 0]

\* The ingestion stores a reading; readings may arrive late.
Insert(t) ==
    /\ t \notin rows
    /\ rows' = rows \union {t}
    /\ UNCHANGED <<api, request, page, lastPush>>

-----------------------------------------------------------------------------
(* get_stations_response *)

\* What a call becomes when it looks into the cache.
Look == IF cache.valid THEN [pc |-> "answered", shows |-> cache.shows]
                       ELSE [NoCall EXCEPT !.pc = "missed"]

\* The queries of the repository.
Query(k) ==
    /\ request[k].pc = "missed"
    /\ request' = [request EXCEPT ![k] = [pc |-> "queried", shows |-> rows]]
    /\ UNCHANGED <<rows, api, page, lastPush>>

\* station_snapshots.set
Fill(k) ==
    /\ request[k].pc = "queried"
    /\ cache' = Entry(request[k].shows)
    /\ request' = [request EXCEPT ![k].pc = "answered"]
    /\ UNCHANGED <<rows, accepted, connections, notifier, page, lastPush>>

\* The entry has passed its expires_at.
Expire ==
    /\ cache.valid
    /\ cache' = Empty
    /\ UNCHANGED <<rows, accepted, connections, notifier, request, page, lastPush>>

-----------------------------------------------------------------------------
(* The socket handler live_feed *)

\* The browser connects and the handler accepts: the browser sees it open.
Connect(c) ==
    LET w == <<c, opened[c] + 1>>
    IN  /\ current[c] = 0 /\ opened[c] < MaxSockets
        /\ opened' = [opened EXCEPT ![c] = @ + 1]
        /\ current' = [current EXCEPT ![c] = opened[c] + 1]
        /\ accepted' = accepted \union {w}
        /\ UNCHANGED <<rows, cache, connections, notifier, request, inbox, screen, lastPush>>

\* The handler registers the socket and asks for the snapshot.
Register(w) ==
    /\ w \in accepted
    /\ accepted' = accepted \ {w}
    /\ connections' = connections \union {w}
    /\ request' = [request EXCEPT ![<<"socket", w>>] = Look]
    /\ UNCHANGED <<rows, cache, notifier, page, lastPush>>

\* Mutation: an event the dashboard does not know.
SnapshotEventRenamed == "snapshot"

SnapshotEvent == "station_snapshot"

\* The snapshot is sent, if the socket is still open.
Greet(w) ==
    LET k == <<"socket", w>>
    IN  /\ request[k].pc = "answered"
        /\ request' = [request EXCEPT ![k] = NoCall]
        /\ inbox' = IF Open(w)
                    THEN [inbox EXCEPT ![w] = Append(@, [event |-> SnapshotEvent,
                                                         shows |-> request[k].shows])]
                    ELSE inbox
        /\ UNCHANGED <<rows, api, current, opened, screen, lastPush>>

\* A query for the snapshot fails: the handler sends an error event instead.
GreetFails(w) ==
    LET k == <<"socket", w>>
    IN  /\ request[k].pc = "missed"
        /\ request' = [request EXCEPT ![k] = NoCall]
        /\ UNCHANGED <<rows, api, page, lastPush>>

\* The connection breaks: what was on its way is lost.
Drop(c) ==
    /\ current[c] # 0
    /\ current' = [current EXCEPT ![c] = 0]
    /\ inbox' = [inbox EXCEPT ![<<c, current[c]>>] = <<>>]
    /\ UNCHANGED <<rows, api, request, opened, screen, lastPush>>

\* Mutation: a client's sockets are removed together.
WithoutClient(w) == {v \in connections : v[1] # w[1]}

\* ConnectionManager.disconnect
Without(w) == connections \ {w}

\* websocket_loop, or a send of the handler, finds the socket closed.
Leave(w) ==
    /\ w \in connections /\ ~Open(w) /\ request[<<"socket", w>>].pc = "none"
    /\ connections' = Without(w)
    /\ UNCHANGED <<rows, cache, accepted, notifier, request, page, lastPush>>

-----------------------------------------------------------------------------
(* DBLiveFeedNotifier *)

\* Mutation: every poll that finds readings is an advance.
AdvancedOrSame == Latest > 0 /\ Latest >= notifier.last

Advanced == Latest > notifier.last

\* The poll; broadcast_timestamp_advance copies the set of connections.
Poll ==
    /\ ~Pushing /\ Advanced
    /\ notifier' = [last |-> Latest, pending |-> connections]
    /\ UNCHANGED <<rows, cache, accepted, connections, request, page, lastPush>>

\* Mutation: the exception of a failed send ends the broadcast.
PushAborts(w) ==
    /\ w \in notifier.pending
    /\ notifier' = [notifier EXCEPT !.pending = IF Open(w) THEN @ \ {w} ELSE {}]
    /\ IF Open(w)
       THEN /\ inbox' = [inbox EXCEPT ![w] = Append(@, [event |-> "new_readings", shows |-> {}])]
            /\ lastPush' = [lastPush EXCEPT ![w] = notifier.last]
       ELSE UNCHANGED <<inbox, lastPush>>
    /\ UNCHANGED <<rows, cache, accepted, connections, request, current, opened, screen>>

\* The next socket of the copy: a send that fails marks it as stale.
Push(w) ==
    /\ w \in notifier.pending
    /\ notifier' = [notifier EXCEPT !.pending = @ \ {w}]
    /\ IF Open(w)
       THEN /\ inbox' = [inbox EXCEPT ![w] = Append(@, [event |-> "new_readings", shows |-> {}])]
            /\ lastPush' = [lastPush EXCEPT ![w] = notifier.last]
            /\ UNCHANGED connections
       ELSE /\ connections' = Without(w)
            /\ UNCHANGED <<inbox, lastPush>>
    /\ UNCHANGED <<rows, cache, accepted, request, current, opened, screen>>

-----------------------------------------------------------------------------
(* The dashboard *)

FreeCalls(c) == {k \in {c} \X (1..MaxRequests) : request[<<"http", k>>].pc = "none"}

\* The page is loaded, or refresh is called: one more request for the stations.
Ask(c) ==
    \E k \in FreeCalls(c) : request' = [request EXCEPT ![<<"http", k>>] = Look]

\* The first load of useDashboardData.
Load(c) ==
    /\ opened[c] = 0 /\ Ask(c)
    /\ UNCHANGED <<rows, api, page, lastPush>>

\* handleLiveEvent
Receive(c) ==
    LET w == <<c, current[c]>>
    IN  /\ current[c] # 0 /\ inbox[w] # <<>>
        /\ inbox' = [inbox EXCEPT ![w] = Tail(@)]
        /\ \/ /\ Head(inbox[w]).event = "station_snapshot"
              /\ screen' = [screen EXCEPT ![c] = Head(inbox[w]).shows]
              /\ UNCHANGED request
           \/ /\ Head(inbox[w]).event = "new_readings"
              /\ Ask(c)
              /\ UNCHANGED screen
        /\ UNCHANGED <<rows, api, current, opened, lastPush>>

\* setStations: whichever answer comes is shown.
Show(c, k) ==
    /\ request[<<"http", k>>].pc = "answered"
    /\ screen' = [screen EXCEPT ![c] = request[<<"http", k>>].shows]
    /\ request' = [request EXCEPT ![<<"http", k>>] = NoCall]
    /\ UNCHANGED <<rows, api, current, opened, inbox, lastPush>>

Serve(k)  == Query(k) \/ Fill(k)
Handle(w) == Register(w) \/ Greet(w) \/ Leave(w)
Browse(c) == Receive(c) \/ \E i \in 1..MaxRequests : Show(c, <<c, i>>)

Next ==
    \/ \E t \in Times : Insert(t)
    \/ Expire \/ Poll
    \/ \E k \in Requests : Serve(k)
    \/ \E w \in Sockets : Handle(w) \/ GreetFails(w) \/ Push(w)
    \/ \E c \in Clients : Connect(c) \/ Drop(c) \/ Load(c) \/ Browse(c)

Spec == Init /\ [][Next]_vars

\* The event loop serves every request and socket, the notifier keeps polling,
\* and the browser handles its events.  Nothing makes readings arrive, a page
\* load or a connection break.
FairSpec ==
    /\ Spec
    /\ WF_vars(Expire) /\ WF_vars(Poll)
    /\ \A k \in Requests : WF_vars(Serve(k))
    /\ \A w \in Sockets : WF_vars(Handle(w)) /\ WF_vars(Push(w))
    /\ \A c \in Clients : WF_vars(Browse(c))

-----------------------------------------------------------------------------
(* Properties *)

TypeOK ==
    /\ rows \subseteq Times
    /\ cache \in [valid: BOOLEAN, shows: SUBSET Times]
    /\ accepted \subseteq Sockets /\ connections \subseteq Sockets
    /\ notifier \in [last: Times \union {0}, pending: SUBSET Sockets]
    /\ request \in [Requests -> Call]
    /\ current \in [Clients -> 0..MaxSockets] /\ opened \in [Clients -> 0..MaxSockets]
    /\ inbox \in [Sockets -> Seq([event: {"station_snapshot", "new_readings"},
                                  shows: SUBSET Times])]
    /\ screen \in [Clients -> SUBSET Times]
    /\ lastPush \in [Sockets -> Times \union {0}]

\* A socket is told of every advance at most once, whatever joins, leaves and
\* broadcasts overlap.
NoRepeatedPush == \A w \in notifier.pending : lastPush[w] < notifier.last

\* No open socket falls out of the set that broadcasts go to, though stale
\* sockets of the same client are removed while it reconnects.
OpenIsRegistered == \A w \in Sockets : Open(w) => w \in accepted \union connections

\* An advance of the readings reaches every registered socket that stays open.
AdvanceReaches ==
    \A w \in Sockets :
        w \in connections /\ Open(w) /\ Latest > notifier.last ~> ~Open(w) \/ lastPush[w] = Latest

\* "The live feed updates the screen as readings arrive" (fyp-report-draft.md):
\* a reading that is the newest of all appears on every screen whose connection
\* holds.
ScreenCatchesUp ==
    \A c \in Clients, t \in Times :
        current[c] # 0 /\ t \in rows /\ t = Latest ~> current[c] = 0 \/ t \in screen[c]
=============================================================================
