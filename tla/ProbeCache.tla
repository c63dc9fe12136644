----------------------------- MODULE ProbeCache -----------------------------
(***************************************************************************)
(* POST /api/v1/ingest/probe-events/batch (src/app/batch/ingest.py) and    *)
(* the Redis cache behind it (src/app/cache/probe_cache.py).  A batch      *)
(* looks each event up and stores it when it was absent: two calls of      *)
(* Redis, between which other batches run and entries expire.  Redis may   *)
(* fail at each call; what was stored before stays.  invalidate_probe has  *)
(* no caller.                                                              *)
(***************************************************************************)
EXTENDS Naturals, Sequences

CONSTANTS
    Probe,      \* probe identifiers
    Worker,     \* requests in flight at a time
    Batches,    \* bound: the batches that are sent, sequences of probes
    TTL,        \* CACHE_TTL, more than 0
    MaxTime,    \* bound: the clock
    Absent

VARIABLES
    now,
    expires,    \* expires[p]: when the entry of probe p expires, or Absent
    batch,      \* batch[w]: the request that w is serving
    accepted    \* history: every event stored as new, when it was looked up and stored

vars == <<now, expires, batch, accepted>>

-----------------------------------------------------------------------------

BatchLocal ==
    [at : {"idle", "lookup", "store"}, events : Batches \cup {<<>>},
     next : Nat, accepted : Nat, hits : Nat, looked : 0..MaxTime]

Idle == [at |-> "idle", events |-> <<>>, next |-> 1, accepted |-> 0, hits |-> 0, looked |-> 0]

TypeOK ==
    /\ now \in 0..MaxTime
    /\ expires \in [Probe -> (0..MaxTime + TTL) \cup {Absent}]
    /\ batch \in [Worker -> BatchLocal]
    /\ \A w \in Worker :
         /\ batch[w].next \in 1..Len(batch[w].events) + 1
         /\ batch[w].accepted + batch[w].hits = batch[w].next - 1
    /\ accepted \subseteq [probe : Probe, looked : 0..MaxTime, stored : 0..MaxTime]

Init ==
    /\ now = 0
    /\ expires = [p \in Probe |-> Absent]
    /\ batch = [w \in Worker |-> Idle]
    /\ accepted = {}

-----------------------------------------------------------------------------

Tick ==
    /\ now < MaxTime
    /\ now' = now + 1
    /\ UNCHANGED <<expires, batch, accepted>>

\* Redis drops an entry at the end of its time.
Cached(p) == expires[p] # Absent /\ now < expires[p]

Begin(w, events) ==
    /\ batch[w].at = "idle"
    /\ batch' = [batch EXCEPT ![w] = [Idle EXCEPT !.at = "lookup", !.events = events]]
    /\ UNCHANGED <<now, expires, accepted>>

Current(w) == batch[w].events[batch[w].next]

More(w) == batch[w].at = "lookup" /\ batch[w].next <= Len(batch[w].events)

\* get_cached_probe: what is found is counted and skipped.
LookUp(w) ==
    /\ More(w)
    /\ batch' = IF Cached(Current(w))
                THEN [batch EXCEPT ![w].hits = @ + 1, ![w].next = @ + 1]
                ELSE [batch EXCEPT ![w].at = "store", ![w].looked = now]
    /\ UNCHANGED <<now, expires, accepted>>

AsNew(w) == [probe |-> Current(w), looked |-> batch[w].looked, stored |-> now]

\* Mutated form: an entry is given less than its time.
StoreShort(w) ==
    /\ batch[w].at = "store"
    /\ expires' = [expires EXCEPT ![Current(w)] = now + TTL - 1]
    /\ accepted' = accepted \cup {AsNew(w)}
    /\ batch' = [batch EXCEPT ![w].at = "lookup", ![w].accepted = @ + 1, ![w].next = @ + 1]
    /\ UNCHANGED now

\* set_cached_probe: the entry is written whether or not there is one by now.
Store(w) ==
    /\ batch[w].at = "store"
    /\ expires' = [expires EXCEPT ![Current(w)] = now + TTL]
    /\ accepted' = accepted \cup {AsNew(w)}
    /\ batch' = [batch EXCEPT ![w].at = "lookup", ![w].accepted = @ + 1, ![w].next = @ + 1]
    /\ UNCHANGED now

\* The batch is done, or Redis has failed and it is given up where it is.
Leave(w) ==
    /\ batch[w].at # "idle"
    /\ batch' = [batch EXCEPT ![w] = Idle]
    /\ UNCHANGED <<now, expires, accepted>>

Next ==
    \/ Tick
    \/ \E w \in Worker :
         \/ \E events \in Batches : Begin(w, events)
         \/ LookUp(w) \/ Store(w) \/ Leave(w)

Spec == Init /\ [][Next]_vars

-----------------------------------------------------------------------------

\* "skipping already-cached duplicates" (batch/ingest.py:33): what was stored before
\* an event was looked up keeps it from being taken as new until the entry expires.
\* Only a batch that looked it up before the other one stored it takes it again.
AcceptedTwiceOnlyByRace ==
    \A one, other \in accepted :
      one.probe = other.probe /\ one.stored < other.looked => one.stored + TTL <= other.looked

=============================================================================
