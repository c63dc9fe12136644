----------------------------- MODULE Scorecards -----------------------------
(***************************************************************************)
(* The score cards of GET /nexus/scores (src/app/api/routers/nexus.py) and *)
(* the badges of GET /badges/{api}.svg (badges.py), both made from the     *)
(* newest row of regional telemetry of an API.  Nothing under src writes   *)
(* these rows or changes an API; both happen between any two statements.   *)
(* Percentages are in hundredths, as Numeric(5, 2) keeps them.             *)
(***************************************************************************)
EXTENDS Integers, FiniteSets

CONSTANTS
    Api,
    Row,        \* telemetry rows: [p99_latency_ms, uptime_percent, trust_score]
    Request,    \* requests for the score cards
    None

ASSUME RowAssumption ==
    Row \subseteq [p99_latency_ms : Int, uptime_percent : Int, trust_score : Int]

ASSUME NoneAssumption == None \notin Row

VARIABLES
    active,     \* the APIs with status active
    newest,     \* newest[a]: the newest telemetry row of a, or None
    request,    \* request[r]: the request r for the cards
    badge       \* badge[a]: the last badge that was drawn for a, or None

vars == <<active, newest, request, badge>>

-----------------------------------------------------------------------------
(* The arithmetic *)

Clamp(x) == IF x < 0 THEN 0 ELSE IF x > 100 THEN 100 ELSE x

\* max(0, 100 - p99 / 10), cut off to a whole number within 0..100.
Performance(row) == Clamp((1000 - row.p99_latency_ms) \div 10)

Reliability(row) == Clamp(row.uptime_percent \div 100)

\* What stands for the eight dimensions that are not measured.
Composite(row) == Clamp(row.trust_score \div 100)

\* round() of x / 100: a half goes to the even neighbour.
Round(x) ==
    IF x % 100 < 50 \/ (x % 100 = 50 /\ (x \div 100) % 2 = 0)
    THEN x \div 100 ELSE x \div 100 + 1

\* The mean of the ten dimensions under their weights, which add up to 100: 15 each for
\* the two that are measured, 10, 10, 10, 10, 10, 8, 7 and 5 for the rest.
Overall(row) ==
    Round(15 * Performance(row) + 15 * Reliability(row) + 70 * Composite(row))

\* Mutated form: two grades change places.
GradeSwapped(score) ==
    IF score >= 95 THEN "A+"
    ELSE IF score >= 90 THEN "A"
    ELSE IF score >= 85 THEN "A-"
    ELSE IF score >= 80 THEN "B+"
    ELSE IF score >= 75 THEN "B"
    ELSE IF score >= 70 THEN "B-"
    ELSE IF score >= 60 THEN "C"
    ELSE IF score >= 50 THEN "F" ELSE "D"

Grade(score) ==
    IF score >= 95 THEN "A+"
    ELSE IF score >= 90 THEN "A"
    ELSE IF score >= 85 THEN "A-"
    ELSE IF score >= 80 THEN "B+"
    ELSE IF score >= 75 THEN "B"
    ELSE IF score >= 70 THEN "B-"
    ELSE IF score >= 60 THEN "C"
    ELSE IF score >= 50 THEN "D" ELSE "F"

\* Mutated form: the limits are a decimal place off.
TierTenfold(row) ==
    IF row.trust_score >= 850 THEN "GOLD"
    ELSE IF row.trust_score >= 750 THEN "SILVER"
    ELSE IF row.trust_score >= 650 THEN "BRONZE" ELSE "FAILING"

\* The tier of a badge.
Tier(row) ==
    IF row.trust_score >= 8500 THEN "GOLD"
    ELSE IF row.trust_score >= 7500 THEN "SILVER"
    ELSE IF row.trust_score >= 6500 THEN "BRONZE" ELSE "FAILING"

\* A card without a row says that evidence is missing.
Card(row) ==
    IF row = None THEN [row |-> None, score |-> None, grade |-> None]
    ELSE [row |-> row, score |-> Overall(row), grade |-> Grade(Overall(row))]

Badge(row) ==
    IF row = None THEN [row |-> None, tier |-> "NO_EVIDENCE"]
    ELSE [row |-> row, tier |-> Tier(row)]

-----------------------------------------------------------------------------

Cards == {Card(row) : row \in Row \cup {None}}

TypeOK ==
    /\ active \in SUBSET Api
    /\ newest \in [Api -> Row \cup {None}]
    /\ request \in [Request -> [at : {"idle", "reading"}, apis : SUBSET Api,
                                cards : [Api -> Cards \cup {None}]]]
    /\ badge \in [Api -> {Badge(row) : row \in Row \cup {None}} \cup {None}]

Unread == [at |-> "idle", apis |-> {}, cards |-> [a \in Api |-> None]]

Init ==
    /\ active \in SUBSET Api
    /\ newest = [a \in Api |-> None]
    /\ request = [r \in Request |-> Unread]
    /\ badge = [a \in Api |-> None]

-----------------------------------------------------------------------------
(* What others write *)

Measure(a, row) ==
    /\ newest' = [newest EXCEPT ![a] = row]
    /\ UNCHANGED <<active, request, badge>>

SetStatus(a) ==
    /\ active' = IF a \in active THEN active \ {a} ELSE active \cup {a}
    /\ UNCHANGED <<newest, request, badge>>

-----------------------------------------------------------------------------
(* The requests *)

LoadApis(r) ==
    /\ request[r].at = "idle"
    /\ request' = [request EXCEPT ![r] = [Unread EXCEPT !.at = "reading", !.apis = active]]
    /\ UNCHANGED <<active, newest, badge>>

\* One statement for each API.
DrawCard(r, a) ==
    /\ request[r].at = "reading" /\ a \in request[r].apis
    /\ request' = [request EXCEPT ![r].apis = @ \ {a}, ![r].cards[a] = Card(newest[a])]
    /\ UNCHANGED <<active, newest, badge>>

\* The cards stay to be seen until the next request.
AnswerCards(r) ==
    /\ request[r].at = "reading" /\ request[r].apis = {}
    /\ request' = [request EXCEPT ![r].at = "idle"]
    /\ UNCHANGED <<active, newest, badge>>

\* An API has its badge whatever its status.
DrawBadge(a) ==
    /\ badge' = [badge EXCEPT ![a] = Badge(newest[a])]
    /\ UNCHANGED <<active, newest, request>>

Next ==
    \/ \E a \in Api : (\E row \in Row : Measure(a, row)) \/ SetStatus(a) \/ DrawBadge(a)
    \/ \E r \in Request :
         LoadApis(r) \/ (\E a \in Api : DrawCard(r, a)) \/ AnswerCards(r)

Spec == Init /\ [][Next]_vars

-----------------------------------------------------------------------------

Shown == {request[r].cards[a] : r \in Request, a \in Api} \ {None}

Scored == {card \in Shown : card.row # None}

\* A score lies within the range of the three figures it is made from, and so within
\* 0..100: the weights, the cut and the rounding never carry it out.
ScoreWithinFigures ==
    \A card \in Scored :
      /\ \E x \in {Performance(card.row), Reliability(card.row), Composite(card.row)} :
           x <= card.score
      /\ \E x \in {Performance(card.row), Reliability(card.row), Composite(card.row)} :
           card.score <= x
      /\ card.score \in 0..100

Rank(grade) ==
    CASE grade = "A+" -> 8 [] grade = "A" -> 7 [] grade = "A-" -> 6 [] grade = "B+" -> 5
      [] grade = "B" -> 4 [] grade = "B-" -> 3 [] grade = "C" -> 2 [] grade = "D" -> 1
      [] grade = "F" -> 0

NoWorse(row, other) ==
    /\ row.p99_latency_ms <= other.p99_latency_ms
    /\ row.uptime_percent >= other.uptime_percent
    /\ row.trust_score >= other.trust_score

\* Of two cards, of one API or two, the one of a row that is no worse in any figure has
\* no lower score and no lower grade.
BetterRowNotWorse ==
    \A card, other \in Scored :
      NoWorse(card.row, other.row) =>
        card.score >= other.score /\ Rank(card.grade) >= Rank(other.grade)

\* A gold badge and the card of the same row do not contradict each other: however slow
\* and unreliable the row is, the grade is C at least.
GoldIsPassing ==
    \A card \in Scored, a \in Api :
      badge[a] # None /\ badge[a].row = card.row /\ badge[a].tier = "GOLD" =>
        Rank(card.grade) >= Rank("C")

=============================================================================
