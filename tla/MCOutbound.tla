----------------------------- MODULE MCOutbound -----------------------------
(* An instance for TLC of what the service shows: score cards and badges (Scorecards),
   the capability report (CapabilityStatus), the score feeds (ScoreStream), and the
   selection a client of the SDK makes (ApiSelection).  They share no state, so that
   mixing their steps shows nothing: a behaviour has steps of one of them only. *)
EXTENDS Scorecards, Sequences, TLC

CONSTANTS
    MaxRows, Methodology, Topology,     \* CapabilityStatus
    Offered, Score, Call, TTL, MaxTime, \* ApiSelection
    Socket, Feed                        \* ScoreStream

ASSUME TTLAssumption == TTL \in Nat \ {0}

\* What BYOS answers has the fields the report reads.
ASSUME ByosAssumption ==
    /\ MaxRows \in Nat
    /\ Methodology \subseteq Seq([section : STRING, status : STRING])
    /\ Topology \subseteq [active : Nat, keyed : Nat, expected : Nat]

\* What a client of the SDK calls select with, and what it is answered.
ASSUME SelectionAssumption ==
    /\ MaxTime \in Nat
    /\ Call \subseteq [candidates : Seq(Offered),
                       constraint : [metric : STRING, bound : Int], fallback_chain : Nat]
    /\ Score \subseteq [composite : Int, latency : Int, error_rate : Int, availability : Int]
    /\ None \notin Offered /\ None \notin Call

VARIABLES
    rows, report,
    now, cache, select,
    connections, socket, feed

Status == INSTANCE CapabilityStatus

Selection == INSTANCE ApiSelection WITH Api <- Offered

Stream == INSTANCE ScoreStream WITH active <- connections

statusVars == <<rows, report>>
selectionVars == <<now, cache, select>>
streamVars == <<connections, socket, feed>>

-----------------------------------------------------------------------------
(* Telemetry rows at the limits of tiers and roundings *)

Figures(p99, uptime, trust) ==
    [p99_latency_ms |-> p99, uptime_percent |-> uptime, trust_score |-> trust]

MCRow == {Figures(1000, 0, 8500),       \* 59.5, which is rounded to 60
          Figures(5, 10000, 10000),
          Figures(1000, 0, 8400),
          Figures(1000, 0, 7000)}

-----------------------------------------------------------------------------
(* What BYOS answers *)

Item(section, status) == [section |-> section, status |-> status]

\* A capability with a table, one without, a section named twice, one that is not
\* in the map and a status outside the vocabulary.
MCMethodology ==
    {<<Item("Physical measurements", "Live"), Item("PGL audit trails", "Methodology Target")>>,
     <<Item("x402 settlement evidence", "Demo Mode"), Item("x402 settlement evidence", "Live")>>,
     <<Item("Signed telemetry", "Live"), Item("Roadmap", "Live"),
       Item("Robust scoring", "Planned")>>}

MCTopology == {[active |-> 5, keyed |-> 5, expected |-> 5],
               [active |-> 5, keyed |-> 4, expected |-> 5]}

-----------------------------------------------------------------------------
(* Scores that differ both ways, calls with and without a constraint, one that names
   an API twice and one whose constraint the selector does not know *)

MCScore == {[composite |-> 2, latency |-> 9, error_rate |-> 1, availability |-> 9],
            [composite |-> 1, latency |-> 3, error_rate |-> 2, availability |-> 8],
            [composite |-> 3, latency |-> 3, error_rate |-> 1, availability |-> 9]}

Constraint(metric, bound) == [metric |-> metric, bound |-> bound]

MCCall ==
    {[candidates |-> <<"a", "b", "c">>, constraint |-> Constraint("none", 0),
      fallback_chain |-> 2],
     [candidates |-> <<"b", "a", "c">>, constraint |-> Constraint("latency", 5),
      fallback_chain |-> 3],
     [candidates |-> <<"a", "b", "a">>, constraint |-> Constraint("availability", 8),
      fallback_chain |-> 0],
     [candidates |-> <<"b", "c">>, constraint |-> Constraint("cost", 2),
      fallback_chain |-> 1]}

\* Connections are interchangeable, and so are the clients of the feeds.
Symmetry == Permutations(Socket) \cup Permutations(Feed)

-----------------------------------------------------------------------------

OutboundInit == Init /\ Status!Init /\ Selection!Init /\ Stream!Init

CardsRest == Init /\ active = {}

\* All but one of the four are as they began.
OneMoves ==
    \/ Status!Init /\ Selection!Init /\ Stream!Init
    \/ CardsRest /\ Selection!Init /\ Stream!Init
    \/ CardsRest /\ Status!Init /\ Stream!Init
    \/ CardsRest /\ Status!Init /\ Selection!Init

OutboundNext ==
    /\ \/ Next /\ UNCHANGED <<statusVars, selectionVars, streamVars>>
       \/ Status!Next /\ UNCHANGED <<vars, selectionVars, streamVars>>
       \/ Selection!Next /\ UNCHANGED <<vars, statusVars, streamVars>>
       \/ Stream!Next /\ UNCHANGED <<vars, statusVars, selectionVars>>
    /\ OneMoves'

OutboundSpec ==
    OutboundInit /\ [][OutboundNext]_<<vars, statusVars, selectionVars, streamVars>>

-----------------------------------------------------------------------------
(* The properties of the four, as stated there *)

\* The types of cards and badges, of the report, of the selection and of the streams.
TypesOK == TypeOK /\ Status!TypeOK /\ Selection!TypeOK /\ Stream!TypeOK

\* A report is whole and of one mind about the database.
ReportComplete == Status!ReportComplete

\* A connected line has a count and a date of the table.
EvidenceDated == Status!EvidenceDated

\* No score was older than the time to live when it was taken.
ScoresRecent == Selection!ScoresRecent

\* No better candidate is left out.
NoneBetterLeftOut == Selection!NoneBetterLeftOut

\* No broadcast sends to a connection twice.
SentOnce == Stream!SentOnce

\* The list is right about the connections.
ListCoherent == Stream!ListCoherent

\* A broadcast during which none left has reached all.
BroadcastReachesAll == Stream!BroadcastReachesAll

=============================================================================
