-------------------------- MODULE ScorecardsProofs --------------------------
(***************************************************************************)
(* What a score card and a badge say, for every telemetry row there can    *)
(* be: the type invariant knows that every card is the card of a row, and  *)
(* the rest is arithmetic.                                                 *)
(***************************************************************************)
EXTENDS Scorecards, TLAPS

-----------------------------------------------------------------------------
(* The arithmetic *)

\* A clamped figure is a score, and clamping keeps the order.
LEMMA ClampBounds == \A x \in Int : Clamp(x) \in 0..100
  BY DEF Clamp

LEMMA ClampMonotone == \A x, y \in Int : x <= y => Clamp(x) <= Clamp(y)
  BY DEF Clamp

\* Every figure of a row is a score.
LEMMA FiguresBounded ==
  ASSUME NEW row \in Row
  PROVE  /\ Performance(row) \in 0..100
         /\ Reliability(row) \in 0..100
         /\ Composite(row) \in 0..100
  <1>1. /\ row.p99_latency_ms \in Int
        /\ row.uptime_percent \in Int
        /\ row.trust_score \in Int
    BY RowAssumption
  <1>2. /\ (1000 - row.p99_latency_ms) \div 10 \in Int
        /\ row.uptime_percent \div 100 \in Int
        /\ row.trust_score \div 100 \in Int
    BY <1>1
  <1> QED  BY <1>2, ClampBounds DEF Performance, Reliability, Composite

\* Rounding moves by a half at most.
LEMMA RoundNear ==
  ASSUME NEW x \in Int
  PROVE  /\ Round(x) \in Int
         /\ 100 * Round(x) - 50 <= x
         /\ x <= 100 * Round(x) + 50
  BY DEF Round

\* Rounding keeps the order, although a half goes up for one number and down for
\* another.
LEMMA RoundMonotone ==
  ASSUME NEW x \in Int, NEW y \in Int, x <= y
  PROVE  Round(x) <= Round(y)
  <1>1. CASE x \div 100 = y \div 100
    BY <1>1 DEF Round
  <1>2. CASE x \div 100 # y \div 100
    <2>1. x \div 100 + 1 <= y \div 100
      BY <1>2
    <2>2. Round(x) <= x \div 100 + 1
      BY DEF Round
    <2>3. y \div 100 <= Round(y)
      BY DEF Round
    <2>4. /\ x \div 100 \in Int /\ y \div 100 \in Int
          /\ Round(x) \in Int /\ Round(y) \in Int
      BY RoundNear
    <2> QED  BY <2>1, <2>2, <2>3, <2>4
  <1> QED  BY <1>1, <1>2

\* A whole number of hundreds is not rounded.
LEMMA RoundWhole ==
  ASSUME NEW n \in Int
  PROVE  Round(100 * n) = n
  BY DEF Round

\* A weighted mean lies between two bounds of what it is the mean of.
LEMMA OverallBetween ==
  ASSUME NEW row \in Row, NEW low \in Int, NEW high \in Int,
         low <= Performance(row), low <= Reliability(row), low <= Composite(row),
         Performance(row) <= high, Reliability(row) <= high, Composite(row) <= high
  PROVE  low <= Overall(row) /\ Overall(row) <= high
  <1> DEFINE sum == 15 * Performance(row) + 15 * Reliability(row) + 70 * Composite(row)
  <1>1. /\ Performance(row) \in Int /\ Reliability(row) \in Int /\ Composite(row) \in Int
    BY FiguresBounded
  <1>2. sum \in Int /\ 100 * low <= sum /\ sum <= 100 * high
    BY <1>1
  <1> HIDE DEF sum
  <1>3. Round(100 * low) <= Round(sum) /\ Round(sum) <= Round(100 * high)
    <2>1. 100 * low \in Int /\ 100 * high \in Int
      OBVIOUS
    <2> QED  BY <1>2, <2>1, RoundMonotone
  <1>4. Overall(row) = Round(sum)
    BY DEF Overall, sum
  <1> QED  BY <1>3, <1>4, RoundWhole

LEMMA OverallType ==
  ASSUME NEW row \in Row
  PROVE  Overall(row) \in 0..100
  <1>1. /\ Performance(row) \in 0..100 /\ Reliability(row) \in 0..100
        /\ Composite(row) \in 0..100
    BY FiguresBounded
  <1>2. 0 <= Overall(row) /\ Overall(row) <= 100
    <2>1. /\ 0 <= Performance(row) /\ 0 <= Reliability(row) /\ 0 <= Composite(row)
          /\ Performance(row) <= 100 /\ Reliability(row) <= 100 /\ Composite(row) <= 100
      BY <1>1
    <2>2. 0 \in Int /\ 100 \in Int
      OBVIOUS
    <2> QED  BY <2>1, <2>2, OverallBetween
  <1>3. 15 * Performance(row) + 15 * Reliability(row) + 70 * Composite(row) \in Int
    <2>1. Performance(row) \in Int /\ Reliability(row) \in Int /\ Composite(row) \in Int
      BY <1>1
    <2> QED  BY <2>1
  <1>4. Overall(row) \in Int
    BY <1>3, RoundNear DEF Overall
  <1> QED  BY <1>2, <1>4

\* A row that is no worse in any figure has no lower score.
LEMMA OverallMonotone ==
  ASSUME NEW row \in Row, NEW other \in Row, NoWorse(row, other)
  PROVE  Overall(other) <= Overall(row)
  <1>1. /\ row.p99_latency_ms \in Int /\ other.p99_latency_ms \in Int
        /\ row.uptime_percent \in Int /\ other.uptime_percent \in Int
        /\ row.trust_score \in Int /\ other.trust_score \in Int
    BY RowAssumption
  <1>2. /\ (1000 - other.p99_latency_ms) \div 10 <= (1000 - row.p99_latency_ms) \div 10
        /\ other.uptime_percent \div 100 <= row.uptime_percent \div 100
        /\ other.trust_score \div 100 <= row.trust_score \div 100
    BY <1>1 DEF NoWorse
  <1>3. /\ Performance(other) <= Performance(row)
        /\ Reliability(other) <= Reliability(row)
        /\ Composite(other) <= Composite(row)
    BY <1>1, <1>2, ClampMonotone DEF Performance, Reliability, Composite
  <1> DEFINE sum(r) == 15 * Performance(r) + 15 * Reliability(r) + 70 * Composite(r)
  <1>4. sum(other) \in Int /\ sum(row) \in Int /\ sum(other) <= sum(row)
    <2>1. /\ Performance(other) \in Int /\ Reliability(other) \in Int
          /\ Composite(other) \in Int
      BY FiguresBounded
    <2>2. /\ Performance(row) \in Int /\ Reliability(row) \in Int
          /\ Composite(row) \in Int
      BY FiguresBounded
    <2> QED  BY <1>3, <2>1, <2>2
  <1> HIDE DEF sum
  <1>5. Round(sum(other)) <= Round(sum(row))
    BY <1>4, RoundMonotone
  <1> QED  BY <1>5 DEF Overall, sum

\* Grades rise with scores.
LEMMA GradeMonotone ==
  ASSUME NEW low \in 0..100, NEW high \in 0..100, low <= high
  PROVE  Rank(Grade(low)) <= Rank(Grade(high))
  BY DEF Grade, Rank

\* A gold row scores 60 at least, when the rest of it is as bad as can be: 70 weights of
\* 85 make 59.5, and the half goes to the even 60.
LEMMA GoldScore ==
  ASSUME NEW row \in Row, Tier(row) = "GOLD"
  PROVE  60 <= Overall(row)
  <1>1. row.trust_score \in Int
    BY RowAssumption
  <1>2. 8500 <= row.trust_score
    BY <1>1 DEF Tier
  <1>3. 85 <= Composite(row)
    <2>1. row.trust_score \div 100 \in Int /\ 85 <= row.trust_score \div 100
      BY <1>1, <1>2
    <2> QED  BY <2>1 DEF Composite, Clamp
  <1> DEFINE sum == 15 * Performance(row) + 15 * Reliability(row) + 70 * Composite(row)
  <1>4. sum \in Int /\ 5950 <= sum
    <2>1. /\ Performance(row) \in Int /\ 0 <= Performance(row)
          /\ Reliability(row) \in Int /\ 0 <= Reliability(row)
          /\ Composite(row) \in Int
      BY FiguresBounded
    <2> HIDE <1>1, <1>2
    <2>2. \A p, r, c \in Int :
            0 <= p /\ 0 <= r /\ 85 <= c =>
              /\ 15 * p + 15 * r + 70 * c \in Int
              /\ 5950 <= 15 * p + 15 * r + 70 * c
      OBVIOUS
    <2> QED  BY <1>3, <2>1, <2>2
  <1>5. Overall(row) = Round(sum)
    BY DEF Overall
  <1> HIDE DEF sum
  <1>6. Round(5950) <= Round(sum)
    BY <1>4, RoundMonotone
  <1>7. Round(5950) = 60
    BY DEF Round
  <1> QED  BY <1>5, <1>6, <1>7

-----------------------------------------------------------------------------
(* The type invariant *)

LEMMA TypeInit == Init => TypeOK
  BY DEF Init, TypeOK, Unread

LEMMA TypeStep == TypeOK /\ [Next]_vars => TypeOK'
  <1> SUFFICES ASSUME TypeOK, [Next]_vars PROVE TypeOK'
    OBVIOUS
  <1> USE DEF TypeOK
  <1>1. ASSUME NEW a \in Api, NEW row \in Row, Measure(a, row) PROVE TypeOK'
    BY <1>1 DEF Measure
  <1>2. ASSUME NEW a \in Api, SetStatus(a) PROVE TypeOK'
    BY <1>2 DEF SetStatus
  <1>3. ASSUME NEW a \in Api, DrawBadge(a) PROVE TypeOK'
    <2>1. Badge(newest[a]) \in {Badge(row) : row \in Row \cup {None}}
      OBVIOUS
    <2> QED  BY <1>3, <2>1 DEF DrawBadge
  <1>4. ASSUME NEW r \in Request, LoadApis(r) PROVE TypeOK'
    BY <1>4 DEF LoadApis, Unread
  <1>5. ASSUME NEW r \in Request, NEW a \in Api, DrawCard(r, a) PROVE TypeOK'
    <2>1. Card(newest[a]) \in Cards
      BY DEF Cards
    <2>2. request[r].cards \in [Api -> Cards \cup {None}]
      OBVIOUS
    <2>3. [request[r].cards EXCEPT ![a] = Card(newest[a])] \in [Api -> Cards \cup {None}]
      BY <2>1, <2>2
    <2>4. request' = [request EXCEPT ![r].apis = @ \ {a}, ![r].cards[a] = Card(newest[a])]
      BY <1>5 DEF DrawCard
    <2> DEFINE Hands == [Api -> Cards \cup {None}]
               Requests == [at : {"idle", "reading"}, apis : SUBSET Api, cards : Hands]
    <2>5. request \in [Request -> Requests]
      OBVIOUS
    <2>6. [request[r].cards EXCEPT ![a] = Card(newest[a])] \in Hands
      BY <2>3
    <2>7. request' \in [Request -> Requests]
      <3> HIDE DEF TypeOK, Hands
      <3> QED  BY <2>4, <2>5, <2>6
    <2> QED  BY <1>5, <2>7 DEF DrawCard
  <1>6. ASSUME NEW r \in Request, AnswerCards(r) PROVE TypeOK'
    BY <1>6 DEF AnswerCards
  <1>7. CASE UNCHANGED vars
    BY <1>7 DEF vars
  <1> QED  BY <1>1, <1>2, <1>3, <1>4, <1>5, <1>6, <1>7 DEF Next

\* In every reachable state the requests hold cards, and the badges are badges, of rows.
THEOREM TypeCorrect == Spec => []TypeOK
  BY TypeInit, TypeStep, PTL DEF Spec

-----------------------------------------------------------------------------
(* What the cards and badges say *)

\* A card with a row is the card of that row.
LEMMA ScoredCard ==
  ASSUME TypeOK, NEW card \in Scored
  PROVE  /\ card.row \in Row
         /\ card.score = Overall(card.row)
         /\ card.grade = Grade(Overall(card.row))
  <1>1. PICK r \in Request, a \in Api : card = request[r].cards[a]
    BY DEF Scored, Shown
  <1>2. card \in Cards
    BY <1>1 DEF TypeOK, Scored, Shown
  <1>3. PICK row \in Row \cup {None} : card = Card(row)
    BY <1>2 DEF Cards
  <1>4. row # None
    BY <1>3 DEF Card, Scored
  <1> QED  BY <1>3, <1>4 DEF Card

\* Only a row of the gold tier has a gold badge.
LEMMA GoldBadge ==
  ASSUME NEW row \in Row \cup {None}, Badge(row).tier = "GOLD"
  PROVE  Badge(row).row = row /\ Tier(row) = "GOLD"
  <1>1. CASE row = None
    <2>1. Badge(row) = [row |-> None, tier |-> "NO_EVIDENCE"]
      BY <1>1 DEF Badge
    <2>2. Badge(row).tier = "NO_EVIDENCE"
      BY <2>1
    <2>3. "NO_EVIDENCE" # "GOLD"
      OBVIOUS
    <2> QED  BY <2>2, <2>3
  <1>2. CASE row # None
    <2>1. Badge(row) = [row |-> row, tier |-> Tier(row)]
      BY <1>2 DEF Badge
    <2> QED  BY <2>1
  <1> QED  BY <1>1, <1>2

\* Every score that is shown lies within the figures of its row, whatever the row.
THEOREM ScoresWithinFigures == Spec => []ScoreWithinFigures
  <1>1. TypeOK => ScoreWithinFigures
    <2> SUFFICES ASSUME TypeOK, NEW card \in Scored
                 PROVE  /\ \E x \in {Performance(card.row), Reliability(card.row),
                                     Composite(card.row)} : x <= card.score
                        /\ \E x \in {Performance(card.row), Reliability(card.row),
                                     Composite(card.row)} : card.score <= x
                        /\ card.score \in 0..100
      BY DEF ScoreWithinFigures
    <2> DEFINE p == Performance(card.row)
               q == Reliability(card.row)
               c == Composite(card.row)
    <2>1. card.row \in Row /\ card.score = Overall(card.row)
      BY ScoredCard
    <2>2. p \in Int /\ q \in Int /\ c \in Int
      BY <2>1, FiguresBounded
    <2>3. \E x \in {p, q, c} : x <= p /\ x <= q /\ x <= c
      BY <2>2
    <2>4. \E x \in {p, q, c} : p <= x /\ q <= x /\ c <= x
      BY <2>2
    <2>5. PICK low \in {p, q, c}, high \in {p, q, c} :
            /\ low <= p /\ low <= q /\ low <= c
            /\ p <= high /\ q <= high /\ c <= high
      BY <2>3, <2>4
    <2>6. low \in Int /\ high \in Int
      BY <2>2
    <2>7. low <= Overall(card.row) /\ Overall(card.row) <= high
      BY <2>1, <2>5, <2>6, OverallBetween
    <2> QED  BY <2>1, <2>7, OverallType
  <1> QED  BY <1>1, TypeCorrect, PTL

\* A row that is no worse never gets the lower score or the lower grade.
THEOREM BetterRowsNotWorse == Spec => []BetterRowNotWorse
  <1>1. TypeOK => BetterRowNotWorse
    <2> SUFFICES ASSUME TypeOK, NEW card \in Scored, NEW other \in Scored,
                        NoWorse(card.row, other.row)
                 PROVE  /\ card.score >= other.score
                        /\ Rank(card.grade) >= Rank(other.grade)
      BY DEF BetterRowNotWorse
    <2>1. /\ card.row \in Row /\ other.row \in Row
          /\ card.score = Overall(card.row) /\ other.score = Overall(other.row)
          /\ card.grade = Grade(Overall(card.row)) /\ other.grade = Grade(Overall(other.row))
      BY ScoredCard
    <2>2. Overall(other.row) <= Overall(card.row)
      BY <2>1, OverallMonotone
    <2>3. Overall(other.row) \in 0..100 /\ Overall(card.row) \in 0..100
      BY <2>1, OverallType
    <2>4. Rank(Grade(Overall(other.row))) <= Rank(Grade(Overall(card.row)))
      BY <2>2, <2>3, GradeMonotone
    <2>5. /\ Rank(Grade(Overall(other.row))) \in Int
          /\ Rank(Grade(Overall(card.row))) \in Int
      BY <2>3 DEF Grade, Rank
    <2> QED  BY <2>1, <2>2, <2>3, <2>4, <2>5
  <1> QED  BY <1>1, TypeCorrect, PTL

\* No gold badge goes with a grade below C of the same row.
THEOREM GoldPasses == Spec => []GoldIsPassing
  <1>1. TypeOK => GoldIsPassing
    <2> SUFFICES ASSUME TypeOK, NEW card \in Scored, NEW a \in Api,
                        badge[a] # None, badge[a].row = card.row, badge[a].tier = "GOLD"
                 PROVE  Rank(card.grade) >= Rank("C")
      BY DEF GoldIsPassing
    <2>1. card.row \in Row /\ card.grade = Grade(Overall(card.row))
      BY ScoredCard
    <2>2. PICK row \in Row \cup {None} : badge[a] = Badge(row)
      BY DEF TypeOK
    <2>3. row = card.row /\ Tier(row) = "GOLD"
      BY <2>2, GoldBadge
    <2>4. 60 <= Overall(card.row) /\ Overall(card.row) \in 0..100
      BY <2>1, <2>3, GoldScore, OverallType
    <2>5. Rank(Grade(60)) <= Rank(Grade(Overall(card.row)))
      BY <2>4, GradeMonotone
    <2>6. Grade(60) = "C"
      BY DEF Grade
    <2>7. Rank("C") \in Int /\ Rank(Grade(Overall(card.row))) \in Int
      BY <2>4 DEF Grade, Rank
    <2> QED  BY <2>1, <2>5, <2>6, <2>7
  <1> QED  BY <1>1, TypeCorrect, PTL

=============================================================================
