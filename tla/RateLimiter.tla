---------------------------- MODULE RateLimiter ----------------------------
(***************************************************************************)
(* The token buckets of amk-http: one per subject, a public key prefix or  *)
(* an address, or an address in its probes' name space.  A request is      *)
(* checked before its handler runs; one that ends 401 or 403 is penalised  *)
(* afterwards.  Both hold the map's lock throughout, but the clock is read *)
(* before the lock is asked for: `at` is that reading, and whoever gets    *)
(* the lock may come with an older one than the bucket was last set to.    *)
(* Time goes in ticks and tokens are whole.                                *)
(***************************************************************************)
EXTENDS Integers, FiniteSets

CONSTANTS CAPACITY,           \* 120
          REFILL,             \* tokens per tick; 2 per second
          COST_OK,            \* 1
          COST_AUTH_FAILURE,  \* 20
          IDLE_EVICTION,      \* ticks; 600 seconds
          MAX_BUCKETS         \* 50 000

ASSUME LimiterAssumption ==
  /\ CAPACITY \in Nat /\ REFILL \in Nat /\ IDLE_EVICTION \in Nat /\ MAX_BUCKETS \in Nat
  /\ COST_OK \in 1..CAPACITY /\ COST_AUTH_FAILURE \in Nat /\ COST_AUTH_FAILURE > COST_OK

(* A bucket may be dropped only when it would be full again, whatever it   *)
(* owed: at worst its whole capacity.  120, 2 and 600 have room to spare.  *)
ASSUME IdleIsFull == IDLE_EVICTION * REFILL >= 2 * CAPACITY

VARIABLES now,      \* ticks
          buckets   \* subject -> [tokens, last]

Least(a, b)    == IF a < b THEN a ELSE b
Greatest(a, b) == IF a < b THEN b ELSE a

(* A reading older than the last is no time at all (duration_since).       *)
Elapsed(b, at)  == Greatest(0, at - b.last)
Refilled(b, at) == Least(b.tokens + Elapsed(b, at) * REFILL, CAPACITY)

(* Mutant of Stale: every bucket gives way to a new one.                   *)
StaleAtOnce(s, at) == TRUE

Stale(s, at) == Elapsed(buckets[s], at) >= IDLE_EVICTION

(* Only at the limit are idle buckets looked for.                          *)
Evicted(at) ==
  IF Cardinality(DOMAIN buckets) < MAX_BUCKETS THEN buckets
  ELSE [s \in {t \in DOMAIN buckets : ~Stale(t, at)} |-> buckets[s]]

(* Still full: whoever asks is let through, and no bucket is kept of it.   *)
Crowded(at) == Cardinality(DOMAIN Evicted(at)) >= MAX_BUCKETS

Balance(s, at) ==
  IF s \in DOMAIN Evicted(at) THEN Refilled(Evicted(at)[s], at) ELSE CAPACITY

Verdict(s, cost, at) ==
  IF Crowded(at) THEN "open" ELSE IF Balance(s, at) >= cost THEN "admitted" ELSE "throttled"

(* The bucket is set to the reading, be it forward or back.                *)
With(table, s, tokens, at) ==
  [t \in DOMAIN table \cup {s} |->
     IF t = s THEN [tokens |-> tokens, last |-> at] ELSE table[t]]

(* A refusal costs nothing.                                                *)
check(s, cost, at) ==
  /\ buckets' =
       CASE Verdict(s, cost, at) = "open"      -> Evicted(at)
         [] Verdict(s, cost, at) = "admitted"  -> With(Evicted(at), s, Balance(s, at) - cost, at)
         [] Verdict(s, cost, at) = "throttled" -> With(Evicted(at), s, Balance(s, at), at)
  /\ UNCHANGED now

(* Mutant of Owed: debt has no floor.                                      *)
OwedInFull(tokens, cost) == tokens - cost

Owed(tokens, cost) == Greatest(tokens - cost, -CAPACITY)

(* Lands whatever the balance; a bucket that is gone is not made again.    *)
penalise(s, cost, at) ==
  /\ buckets' = IF s \in DOMAIN buckets
                THEN With(buckets, s, Owed(Refilled(buckets[s], at), cost), at) ELSE buckets
  /\ UNCHANGED now

cost_for_status(status) == IF status \in {401, 403} THEN COST_AUTH_FAILURE ELSE COST_OK

Tick == now' = now + 1 /\ UNCHANGED buckets

(* Neither a burst nor a debt is beyond capacity, and the map is bounded.  *)
BucketsOK ==
  /\ now \in Nat
  /\ Cardinality(DOMAIN buckets) <= MAX_BUCKETS
  /\ \A s \in DOMAIN buckets :
       buckets[s].tokens \in -CAPACITY..CAPACITY /\ buckets[s].last \in 0..now
=============================================================================
