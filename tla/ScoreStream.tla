---------------------------- MODULE ScoreStream ----------------------------
(***************************************************************************)
(* The score feeds of app/api/routers/vnp_stream.py.  Every SSE client has *)
(* a generator that polls the telemetry and, after its own client, sends   *)
(* the update to all WebSockets in the manager's list.  The loop of a      *)
(* broadcast goes by position in that list, and every send is a point      *)
(* where sockets come and go and other generators broadcast.               *)
(***************************************************************************)
EXTENDS Naturals, Sequences, FiniteSets, SequencesExt, Orderings

CONSTANTS
    Socket, \* WebSocket connections
    Feed,   \* SSE clients, each with its generator
    None

VARIABLES
    active, \* manager.active_connections
    socket, \* the connection and the endpoint of each WebSocket
    feed    \* the generators

vars == <<active, socket, feed>>

\* "gone": the client has left and the endpoint has not noticed; "ended": the
\* endpoint has returned or died.
SocketState == {"new", "open", "gone", "ended"}

\* "place" is the next position of the loop and "current" the socket being sent
\* to; "dead" are the sockets of this broadcast whose send failed, "sent" those it
\* reached, "due" those that were in the list when it began.  A session is "broken"
\* by the first error of a statement.
FeedLocal == [at : {"off", "polling", "yielding", "sending", "sleeping", "left"},
              session : {"clean", "broken"}, place : Nat \ {0}, current : Socket \cup {None},
              dead : SUBSET Socket, sent : SUBSET Socket, due : SUBSET Socket]

TypeOK ==
    /\ active \in Seq(Socket)
    /\ socket \in [Socket -> SocketState]
    /\ feed \in [Feed -> FeedLocal]

\* A generator outside of a broadcast: the locals of broadcast() are gone.
Outside(at, session) ==
    [at |-> at, session |-> session, place |-> 1, current |-> None,
     dead |-> {}, sent |-> {}, due |-> {}]

Init ==
    /\ active = <<>>
    /\ socket = [s \in Socket |-> "new"]
    /\ feed = [g \in Feed |-> Outside("off", "clean")]

-----------------------------------------------------------------------------
(* WebSockets *)

Listed == ToSet(active)

Without(list, S) == Only(list, ToSet(list) \ S)

\* Mutated form: new connections go to the head of the list.
ConnectFirst(s) ==
    /\ socket[s] = "new"
    /\ socket' = [socket EXCEPT ![s] = "open"]
    /\ active' = <<s>> \o active
    /\ UNCHANGED feed

Connect(s) ==
    /\ socket[s] = "new"
    /\ socket' = [socket EXCEPT ![s] = "open"]
    /\ active' = Append(active, s)
    /\ UNCHANGED feed

ClientLeaves(s) ==
    /\ socket[s] = "open"
    /\ socket' = [socket EXCEPT ![s] = "gone"]
    /\ UNCHANGED <<active, feed>>

\* WebSocketDisconnect: the endpoint takes the connection off the list.
NoticeDisconnect(s) ==
    /\ socket[s] = "gone"
    /\ socket' = [socket EXCEPT ![s] = "ended"]
    /\ active' = Without(active, {s})
    /\ UNCHANGED feed

\* Any other error ends the endpoint, and the connection with it, and leaves the
\* list as it is.
EndpointFails(s) ==
    /\ socket[s] \in {"open", "gone"}
    /\ socket' = [socket EXCEPT ![s] = "ended"]
    /\ UNCHANGED <<active, feed>>

-----------------------------------------------------------------------------
(* Generators *)

JoinFeed(g) ==
    /\ feed[g].at = "off"
    /\ feed' = [feed EXCEPT ![g].at = "polling"]
    /\ UNCHANGED <<active, socket>>

\* The query finds updates, or none.
Poll(g) ==
    /\ feed[g].at = "polling" /\ feed[g].session = "clean"
    /\ \E place \in {"yielding", "sleeping"} : feed' = [feed EXCEPT ![g].at = place]
    /\ UNCHANGED <<active, socket>>

\* An error of the database, and every query after it: nothing rolls the session's
\* transaction back.
PollFails(g) ==
    /\ feed[g].at = "polling"
    /\ feed' = [feed EXCEPT ![g].at = "sleeping", ![g].session = "broken"]
    /\ UNCHANGED <<active, socket>>

\* Mutated form: the end of a broadcast empties the list of all it has not reached.
AdvanceHard(g, local) ==
    IF local.place <= Len(active)
    THEN /\ feed' = [feed EXCEPT ![g] = [local EXCEPT !.at = "sending", !.place = @ + 1,
                                                      !.current = active[local.place]]]
         /\ UNCHANGED active
    ELSE /\ feed' = [feed EXCEPT ![g] = [local EXCEPT !.at = "sleeping", !.current = None]]
         /\ active' = Without(active, Socket \ local.sent)

\* Mutated form: the loop ends one connection early.
AdvanceShort(g, local) ==
    IF local.place < Len(active)
    THEN /\ feed' = [feed EXCEPT ![g] = [local EXCEPT !.at = "sending", !.place = @ + 1,
                                                      !.current = active[local.place]]]
         /\ UNCHANGED active
    ELSE /\ feed' = [feed EXCEPT ![g] = [local EXCEPT !.at = "sleeping", !.current = None]]
         /\ active' = Without(active, local.dead)

\* The loop takes the next connection, or ends and takes the dead ones off.
Advance(g, local) ==
    IF local.place <= Len(active)
    THEN /\ feed' = [feed EXCEPT ![g] = [local EXCEPT !.at = "sending", !.place = @ + 1,
                                                      !.current = active[local.place]]]
         /\ UNCHANGED active
    ELSE /\ feed' = [feed EXCEPT ![g] = [local EXCEPT !.at = "sleeping", !.current = None]]
         /\ active' = Without(active, local.dead)

\* The client of the generator has taken its own update.
StartBroadcast(g) ==
    /\ feed[g].at = "yielding"
    /\ Advance(g, [feed[g] EXCEPT !.due = Listed])
    /\ UNCHANGED socket

Send(g) ==
    LET s == feed[g].current
    IN  /\ feed[g].at = "sending"
        /\ IF socket[s] = "open"
           THEN Advance(g, [feed[g] EXCEPT !.sent = @ \cup {s}])
           ELSE Advance(g, [feed[g] EXCEPT !.dead = @ \cup {s}])
        /\ UNCHANGED socket

Wake(g) ==
    /\ feed[g].at = "sleeping"
    /\ feed' = [feed EXCEPT ![g] = Outside("polling", @.session)]
    /\ UNCHANGED <<active, socket>>

\* The SSE client leaves: its generator is cancelled wherever it stands, also in
\* the middle of a broadcast.
LeaveFeed(g) ==
    /\ feed[g].at \notin {"off", "left"}
    /\ feed' = [feed EXCEPT ![g] = Outside("left", @.session)]
    /\ UNCHANGED <<active, socket>>

FeedStep(g) == Poll(g) \/ PollFails(g) \/ StartBroadcast(g) \/ Send(g) \/ Wake(g)

-----------------------------------------------------------------------------

Next ==
    \/ \E s \in Socket : Connect(s) \/ ClientLeaves(s) \/ NoticeDisconnect(s) \/ EndpointFails(s)
    \/ \E g \in Feed : JoinFeed(g) \/ FeedStep(g) \/ LeaveFeed(g)

Spec == Init /\ [][Next]_vars

-----------------------------------------------------------------------------
(* What the shared list guarantees while it changes under the loops *)

\* No broadcast sends to a connection twice, wherever in the list connections were
\* added and removed since it began.
SentOnce ==
    \A g \in Feed :
      feed[g].at = "sending" => feed[g].current \notin feed[g].sent \cup feed[g].dead

\* The list is right about the connections: a live one stays in it, once, whatever
\* broadcasts take off, and one that a finished broadcast has found dead is off it,
\* and no other that was under way puts it back.
ListCoherent ==
    /\ \A s \in Socket :
         socket[s] = "open" => Cardinality({i \in DOMAIN active : active[i] = s}) = 1
    /\ \A g \in Feed : feed[g].at = "sleeping" => feed[g].dead \cap Listed = {}

\* A broadcast that has ended has sent to every connection that was in the list when it
\* began, unless one of them has left the list: the loop goes by position, and a
\* connection that leaves moves a later one to a place the loop has passed.
BroadcastReachesAll ==
    \A g \in Feed :
      feed[g].at = "sleeping" /\ feed[g].due \subseteq Listed => feed[g].due \subseteq feed[g].sent

=============================================================================
