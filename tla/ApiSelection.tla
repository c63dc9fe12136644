---------------------------- MODULE ApiSelection ----------------------------
(***************************************************************************)
(* APISelector.select of the Python SDK                                    *)
(* (src/vnp-mcp/templates/vnp_sdk_python.py): the scores of the candidates *)
(* are taken from a cache with a time to live or fetched one after the     *)
(* other (the selector opens no session, so every fetch blocks), filtered  *)
(* by a constraint and ranked.  The service may answer anything at any     *)
(* time, and time passes between any two steps.                            *)
(***************************************************************************)
EXTENDS Integers, Sequences, FiniteSets, FiniteSetsExt, SequencesExt, Orderings

CONSTANTS
    Api,          \* names of APIs
    Score,        \* bound: scores, [composite, latency, error_rate, availability]
    Call,         \* bound: calls of select, [candidates, constraint, fallback_chain]
    TTL,          \* CACHE_TTL_SECONDS
    MaxTime,      \* bound: the clock
    None

VARIABLES
    now,
    cache,        \* cache[a]: [score, expires, read], or None
    select        \* the call that is running, or its result

vars == <<now, cache, select>>

-----------------------------------------------------------------------------

\* read is when the service answered: the program does not keep it.
Entry == [score : Score, expires : 0..MaxTime + TTL, read : 0..MaxTime]

\* age is how long ago the service had answered a score when it was taken.
Fetched == [score : Score, age : 0..MaxTime]

Idle == [at |-> "idle", call |-> None, got |-> <<>>, raised |-> FALSE,
         best |-> None, alternatives |-> <<>>]

\* The locals of select: got is what it has of the scores, raised whether one of the
\* tasks that fetch them has ended with an error.
Progress ==
    [at : {"idle", "task", "take", "fetch", "selected", "ValueError", "KeyError"},
     call : Call \cup {None}, got : Seq(Fetched \cup {None}), raised : BOOLEAN,
     best : Api \cup {None}, alternatives : Seq(Api)]

TypeOK ==
    /\ now \in 0..MaxTime
    /\ cache \in [Api -> Entry \cup {None}]
    /\ select \in Progress
    /\ select.at = "idle" <=> select.call = None
    /\ select.at = "selected" <=> select.best # None

Init ==
    /\ now = 0
    /\ cache = [a \in Api |-> None]
    /\ select = Idle

-----------------------------------------------------------------------------
(* The cache *)

Tick ==
    /\ now < MaxTime
    /\ now' = now + 1
    /\ UNCHANGED <<cache, select>>

Fresh(a) == cache[a] # None /\ now < cache[a].expires

-----------------------------------------------------------------------------
(* One call of select *)

Begin(call) ==
    /\ select.at \in {"idle", "selected", "ValueError", "KeyError"}
    /\ select' = [Idle EXCEPT !.at = "task", !.call = call]
    /\ UNCHANGED <<now, cache>>

Candidate == select.call.candidates[Len(select.got) + 1]

More == select.at = "task" /\ Len(select.got) < Len(select.call.candidates)

Gets(score, raises) ==
    select' = [select EXCEPT !.at = "task", !.got = Append(@, score), !.raised = @ \/ raises]

Cached == [score |-> cache[Candidate].score, age |-> now - cache[Candidate].read]

\* "if cache_key in self.cache": the entry is looked up and, in another call of the
\* cache, taken.
LookUp ==
    /\ More
    /\ select' = [select EXCEPT !.at = IF Fresh(Candidate) THEN "take" ELSE "fetch"]
    /\ UNCHANGED <<now, cache>>

\* Mutated form: an entry lives on when it is used.
TakeAndKeep ==
    /\ select.at = "take" /\ Fresh(Candidate)
    /\ Gets(Cached, FALSE)
    /\ cache' = [cache EXCEPT ![Candidate].expires = now + TTL]
    /\ UNCHANGED now

Take ==
    /\ select.at = "take" /\ Fresh(Candidate)
    /\ Gets(Cached, FALSE)
    /\ UNCHANGED <<now, cache>>

\* An entry that expires in between raises in the task of its candidate; the tasks of the
\* others have been scheduled with it and still run, and fill the cache.
TakeExpired ==
    /\ select.at = "take" /\ ~ Fresh(Candidate)
    /\ Gets(None, TRUE)
    /\ UNCHANGED <<now, cache>>

\* The service answers with a score, which is cached.
Fetch ==
    /\ select.at = "fetch"
    /\ \E score \in Score :
         /\ Gets([score |-> score, age |-> 0], FALSE)
         /\ cache' = [cache EXCEPT ![Candidate] =
                        [score |-> score, expires |-> now + TTL, read |-> now]]
    /\ UNCHANGED now

\* It answers without one, with an error, or not in time.
FetchFails ==
    /\ select.at = "fetch"
    /\ Gets(None, FALSE)
    /\ UNCHANGED <<now, cache>>

Named(a) == {i \in DOMAIN select.got : select.call.candidates[i] = a}

\* The names with a score. A name that is given twice has the score of the last fetch
\* and the place of the first.
Valid == {a \in Api : Named(a) # {} /\ select.got[Max(Named(a))] # None}

ScoreOf(a) == select.got[Max(Named(a))].score

Position(a) == Min(Named(a))

\* _check_constraint: a metric it does not know is no constraint.
Meets(a, constraint) ==
    CASE constraint.metric = "latency" -> ScoreOf(a).latency < constraint.bound
      [] constraint.metric = "error_rate" -> ScoreOf(a).error_rate < constraint.bound
      [] constraint.metric = "availability" -> ScoreOf(a).availability > constraint.bound
      [] OTHER -> TRUE

\* The names to choose from: the ones that meet the constraint, or else all.
Filtered(constraint) ==
    LET meeting == {a \in Valid : Meets(a, constraint)}
    IN  IF meeting = {} THEN Valid ELSE meeting

\* Mutated form: the worst comes first.
RankedUp(names) ==
    LET precedes(a, b) ==
          \/ ScoreOf(a).composite < ScoreOf(b).composite
          \/ ScoreOf(a).composite = ScoreOf(b).composite /\ Position(a) < Position(b)
    IN  InOrder(names, {p \in names \X names : precedes(p[1], p[2])})

\* The best comes first, and of two with the same score the one that was named first.
Ranked(names) ==
    LET precedes(a, b) ==
          \/ ScoreOf(a).composite > ScoreOf(b).composite
          \/ ScoreOf(a).composite = ScoreOf(b).composite /\ Position(a) < Position(b)
    IN  InOrder(names, {p \in names \X names : precedes(p[1], p[2])})

Asked == select.at = "task" /\ Len(select.got) = Len(select.call.candidates)

\* gather passes the error on, through select.
Raise ==
    /\ Asked /\ select.raised
    /\ select' = [select EXCEPT !.at = "KeyError"]
    /\ UNCHANGED <<now, cache>>

\* ranked[0] is chosen and ranked[1:fallback_chain] are its alternatives.
Choose ==
    /\ Asked /\ ~ select.raised /\ Valid # {}
    /\ LET ranked == Ranked(Filtered(select.call.constraint))
       IN  select' = [select EXCEPT !.at = "selected", !.best = ranked[1],
             !.alternatives = SubSeq(ranked, 2, Min({select.call.fallback_chain, Len(ranked)}))]
    /\ UNCHANGED <<now, cache>>

NoScores ==
    /\ Asked /\ ~ select.raised /\ Valid = {}
    /\ select' = [select EXCEPT !.at = "ValueError"]
    /\ UNCHANGED <<now, cache>>

SelectStep ==
    LookUp \/ Take \/ TakeExpired \/ Fetch \/ FetchFails \/ Raise \/ Choose \/ NoScores

Next == Tick \/ (\E call \in Call : Begin(call)) \/ SelectStep

Spec == Init /\ [][Next]_vars

-----------------------------------------------------------------------------

Selected == select.at = "selected"

\* No score goes into a selection that the service had answered the time to live ago, or
\* longer, when it was taken, through whichever calls it was cached and used before.  What
\* passes between its taking and the choice comes on top of that.
ScoresRecent ==
    \A i \in DOMAIN select.got : select.got[i] # None => select.got[i].age < TTL

\* b is to be preferred to a: it meets the constraint and a does not, or else has the
\* higher score.
Preferred(b, a, constraint) ==
    \/ Meets(b, constraint) /\ ~ Meets(a, constraint)
    \/ /\ Meets(b, constraint) <=> Meets(a, constraint)
       /\ ScoreOf(b).composite > ScoreOf(a).composite

\* An answer names different candidates, and none that it leaves out is to be preferred
\* to any of them, nor an alternative to the best, also when a name was given twice
\* with two scores.
NoneBetterLeftOut ==
    Selected =>
      LET named == {select.best} \cup ToSet(select.alternatives)
          constraint == select.call.constraint
      IN  /\ Cardinality(named) = Len(select.alternatives) + 1
          /\ \A a \in named, b \in Valid \ named : ~ Preferred(b, a, constraint)
          /\ \A a \in named : ~ Preferred(a, select.best, constraint)

=============================================================================
