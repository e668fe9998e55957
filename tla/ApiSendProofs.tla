--------------------------- MODULE ApiSendProofs ---------------------------
(***************************************************************************)
(* The limiter is fair and a sent message is accounted for, whatever the   *)
(* limits, however many requests of however many subjects run at once,     *)
(* whichever of them is overtaken on its way to the limiter's lock, and    *)
(* wherever they are cut off.                                              *)
(*                                                                         *)
(* The limiter's promise spans time, so its invariant is about what a      *)
(* subject has (Worth) at the instant its bucket stands at: what it was    *)
(* charged for since any of its admissions, and what it has left, were     *)
(* paid for by one full bucket and the refill since, in its own time.      *)
(* That time only goes forward: a reading that sets a bucket back by some  *)
(* ticks adds them to `back`.  A bucket that is dropped has refilled to    *)
(* what a new one holds by then, which is what IdleIsFull is for.          *)
(*                                                                         *)
(* A request's copies are followed domain by domain (RowInv): the domains  *)
(* left have nothing, the one under way has only lost what it took, and    *)
(* those served have one copy whose answer came.                           *)
(***************************************************************************)
EXTENDS ApiSend, FiniteSetTheorems, SequenceTheorems, TLAPS

(* What a subject has: a full bucket, if there is none.                    *)
Worth(s) == IF s \in DOMAIN buckets THEN buckets[s].tokens ELSE CAPACITY

Limits ==
  /\ now \in Nat /\ IsFiniteSet(DOMAIN buckets)
  /\ Cardinality(DOMAIN buckets) <= MAX_BUCKETS
  /\ \A s \in DOMAIN buckets :
       buckets[s].tokens \in -CAPACITY..CAPACITY /\ buckets[s].last \in 0..now

(* What n admissions cost, and what t ticks pay.                           *)
Price(n) == n * COST_OK
Pay(t)   == t * REFILL

(* From any admission on, those that followed and what is left were paid   *)
(* for.                                                                    *)
Paid(times, worth, t) ==
  \A i \in 1..Len(times) :
    Price(Len(times) - i + 1) + worth <= CAPACITY + Pay(t - times[i])

(* Whatever was owed when it was last charged has been refilled since.     *)
Recovering(last, worth, t) == worth >= Least(CAPACITY, Pay(t - last) - CAPACITY)

Burst(times) ==
  \A i, j \in 1..Len(times) :
    i <= j => Price(j - i + 1) <= CAPACITY + Pay(times[j] - times[i])

(* A subject's admissions, its last charge and its worth at t.             *)
Account(times, last, worth, t) ==
  /\ times \in Seq(0..t) /\ last \in 0..t
  /\ Paid(times, worth, t) /\ Burst(times) /\ Recovering(last, worth, t)

Stamp == [at : Nat, back : Nat]

OwnTimes(log) == [i \in 1..Len(log) |-> Own(log[i])]

(* The account of a subject whose bucket stands at c.                      *)
Settled(c, log, last, worth) ==
  /\ c \in Stamp /\ log \in Seq(Stamp)
  /\ Account(OwnTimes(log), last, worth, Own(c))

Books(s) ==
  /\ Settled(clock[s], admitted[s], charged[s], Worth(s))
  /\ s \in DOMAIN buckets => clock[s].at = buckets[s].last

Ledger ==
  /\ DOMAIN buckets \subseteq DOMAIN clock
  /\ DOMAIN admitted = DOMAIN clock /\ DOMAIN charged = DOMAIN clock
  /\ \A s \in DOMAIN clock : Books(s)

LimiterInv == Limits /\ Ledger

Codes ==
  {"none", "ok", "unauthorized", "forbidden", "missing_permission", "message_rejected",
   "validation_error", "not_found", "rate_limit_exceeded", "service_unavailable",
   "internal_error"}

Stages == {"start", "done", "gone"} \cup Waiting \cup Running

Row == [at : Stages, code : Codes,
        left : SUBSET HopNames, hop : HopNames \cup {None},
        hosts : Seq(Exchangers \cup HopNames), read : Int, waited : Int]

Typed ==
  /\ job \in [Requests -> Row] /\ stored \subseteq Requests
  /\ copies \in [Requests \X HopNames -> Nat] /\ losses \in [Requests \X HopNames -> Nat]

(* No reading is of a time to come.                                        *)
Readings == \A r \in Requests : job[r].read \in 0..now

Taken(r, hop) == copies[<<r, hop>>]
Lossy(r, hop) == losses[<<r, hop>>]

Untaken(r, hop) == Taken(r, hop) = 0 /\ Lossy(r, hop) = 0

(* A request on its way has neither an answer nor a record.                *)
OnItsWay(r) ==
  job[r].at \in Waiting \cup {"start", "checking"} => job[r].code = "none" /\ r \notin stored

(* Domain by domain, while the message goes out.                           *)
DomainByDomain(r) ==
  /\ job[r].at \in {"start", "checking", "routed"} => \A hop \in HopNames : Untaken(r, hop)
  /\ job[r].at \in {"hop", "host", "delivered"} =>
       /\ job[r].left \subseteq Hops(r)
       /\ \A hop \in HopNames :
            /\ hop \notin Hops(r) \/ hop \in job[r].left => Untaken(r, hop)
            /\ hop \in Hops(r) \ job[r].left /\ (job[r].at = "host" => hop # job[r].hop) =>
                 Taken(r, hop) = Lossy(r, hop) + 1
  /\ job[r].at = "host" =>
       /\ job[r].hosts # <<>> /\ job[r].hop \in Hops(r) \ job[r].left
       /\ Taken(r, job[r].hop) = Lossy(r, job[r].hop)
  /\ job[r].at = "delivered" => job[r].left = {}

(* What may be answered of a message that all have taken, and that is not  *)
(* stored.                                                                 *)
Told(r, code) ==
  code = "internal_error" \/ (code = "not_found" /\ r.op \in {"reply", "reply_all"})

(* What is true of it when it is answered, and stays true.                 *)
Accounted(r) ==
  /\ \A hop \in HopNames :
       /\ Taken(r, hop) <= 1 + Lossy(r, hop)
       /\ Taken(r, hop) > 0 =>
            job[r].code \notin {"rate_limit_exceeded", "unauthorized", "forbidden"}
  /\ r \in stored => \A hop \in Hops(r) : Taken(r, hop) > 0
  /\ r.path = "/v0" /\ job[r].code = "ok" => r \in stored
  /\ /\ job[r].at \in {"answering", "charging", "done"} /\ r \notin stored /\ Hops(r) # {}
     /\ \A hop \in Hops(r) : Taken(r, hop) > Lossy(r, hop)
     => Told(r, job[r].code)
  /\ job[r].code = "rate_limit_exceeded" => Pay(job[r].waited) < CAPACITY + COST_OK

RowInv(r) == OnItsWay(r) /\ DomainByDomain(r) /\ Accounted(r)

Sound == LimiterInv /\ Typed /\ \A r \in Requests : RowInv(r)

IInv == Sound /\ Readings

(***************************************************************************)
(* The limiter.                                                            *)
(***************************************************************************)
(* The only products there are: one more unit adds one more rate.          *)
LEMMA PriceSteps ==
  /\ \A n \in Int : Price(n + 1) = Price(n) + COST_OK /\ Price(n) \in Int
  /\ Price(0) = 0
BY LimiterAssumption DEF Price

LEMMA PaySteps ==
  /\ \A t \in Int : Pay(t + 1) = Pay(t) + REFILL /\ Pay(t) \in Int
  /\ Pay(0) = 0
BY LimiterAssumption DEF Pay

LEMMA PayGrows ==
  ASSUME NEW t \in Int, NEW u \in Int, t <= u
  PROVE  Pay(t) <= Pay(u)
<1>1. REFILL \in Nat
  BY LimiterAssumption
<1>2. (u - t) * REFILL >= 0 /\ u * REFILL = t * REFILL + (u - t) * REFILL
  BY <1>1
<1> QED BY <1>1, <1>2 DEF Pay

LEMMA PayAdds ==
  ASSUME NEW t \in Int, NEW u \in Int
  PROVE  Pay(t + u) = Pay(t) + Pay(u)
BY LimiterAssumption DEF Pay

(* No subject owes more than its capacity, or has more.                    *)
LEMMA WorthBounds ==
  ASSUME Limits, NEW s
  PROVE  Worth(s) \in -CAPACITY..CAPACITY
BY LimiterAssumption DEF Worth, Limits

(* An admission is paid from what the subject is worth.                    *)
LEMMA ChargeAccount ==
  ASSUME NEW t \in Nat, NEW times, NEW last, NEW worth \in COST_OK..CAPACITY,
         Account(times, last, worth, t)
  PROVE  Account(Append(times, t), t, worth - COST_OK, t)
<1> DEFINE more == Append(times, t)
           n == Len(times)
<1>1. /\ times \in Seq(0..t) /\ n \in Nat /\ t \in 0..t
      /\ more \in Seq(0..t) /\ Len(more) = n + 1 /\ more[n + 1] = t
      /\ \A i \in 1..n : more[i] = times[i] /\ times[i] \in 0..t
  BY AppendProperties, LenProperties, ElementOfSeq DEF Account
<1>2. COST_OK \in Int /\ CAPACITY \in Int /\ worth \in Int /\ COST_OK <= CAPACITY
  BY LimiterAssumption
<1>3. \A i \in 1..n : Price(n - i + 1) + worth <= CAPACITY + Pay(t - times[i])
  BY DEF Account, Paid
<1> HIDE DEF more, n
<1>4. \A i \in 1..n : /\ Price(n - i + 1) \in Int /\ Pay(t - times[i]) \in Int
                      /\ Price(n + 1 - i + 1) = Price(n - i + 1) + COST_OK
  <2> TAKE i \in 1..n
  <2>1. n - i + 1 \in Int /\ t - times[i] \in Int /\ n + 1 - i + 1 = (n - i + 1) + 1
    BY <1>1
  <2> QED BY <2>1, PriceSteps, PaySteps
<1>5. Price(1) = COST_OK /\ Pay(0) = 0
  <2>1. Price(0 + 1) = Price(0) + COST_OK
    BY PriceSteps
  <2> QED BY <1>2, <2>1, PriceSteps, PaySteps
<1>6. Paid(more, worth - COST_OK, t)
  <2> SUFFICES ASSUME NEW i \in 1..(n + 1)
               PROVE  Price(n + 1 - i + 1) + (worth - COST_OK) <= CAPACITY + Pay(t - more[i])
    BY <1>1 DEF Paid
  <2>1. CASE i \in 1..n
    <3>1. more[i] = times[i] /\ Price(n + 1 - i + 1) = Price(n - i + 1) + COST_OK
      BY <1>1, <1>4, <2>1
    <3>2. /\ Price(n - i + 1) + worth <= CAPACITY + Pay(t - times[i])
          /\ Price(n - i + 1) \in Int /\ Pay(t - times[i]) \in Int
      BY <1>3, <1>4, <2>1
    <3> QED BY <1>2, <3>1, <3>2
  <2>2. CASE i = n + 1
    <3>1. n + 1 - i + 1 = 1 /\ t - more[i] = 0
      BY <1>1, <2>2
    <3> QED BY <1>2, <1>5, <3>1
  <2> QED BY <1>1, <2>1, <2>2
<1>7. Burst(more)
  <2> SUFFICES ASSUME NEW i \in 1..(n + 1), NEW j \in 1..(n + 1), i <= j
               PROVE  Price(j - i + 1) <= CAPACITY + Pay(more[j] - more[i])
    BY <1>1 DEF Burst
  <2>1. CASE j \in 1..n
    <3>1. i \in 1..n /\ more[i] = times[i] /\ more[j] = times[j]
      BY <1>1, <2>1
    <3>2. Burst(times) /\ i \in 1..Len(times) /\ j \in 1..Len(times)
      BY <2>1, <3>1 DEF Account, n
    <3>3. Price(j - i + 1) <= CAPACITY + Pay(times[j] - times[i])
      BY <3>2 DEF Burst
    <3> QED BY <3>1, <3>3
  <2>2. CASE j = n + 1 /\ i \in 1..n
    <3>1. Price(j - i + 1) = Price(n - i + 1) + COST_OK
      <4>1. j - i + 1 = n + 1 - i + 1
        BY <1>1, <2>2
      <4> QED BY <1>4, <2>2, <4>1
    <3>2. more[j] - more[i] = t - times[i]
      BY <1>1, <2>2
    <3> QED BY <1>2, <1>3, <1>4, <2>2, <3>1, <3>2
  <2>3. CASE i = n + 1
    <3>1. j - i + 1 = 1 /\ more[j] - more[i] = 0
      BY <1>1, <2>3
    <3> QED BY <1>2, <1>5, <3>1
  <2> QED BY <1>1, <2>1, <2>2, <2>3
<1>8. Recovering(t, worth - COST_OK, t)
  <2>1. t - t = 0
    OBVIOUS
  <2> QED BY <1>2, <1>5, <2>1 DEF Recovering, Least
<1> QED BY <1>1, <1>6, <1>7, <1>8 DEF Account, more

(* The first admission there is, out of a full bucket.                     *)
LEMMA OpenAccount ==
  ASSUME NEW t \in Nat
  PROVE  Account(<<t>>, t, CAPACITY - COST_OK, t)
<1> DEFINE times == <<t>>
<1>1. times \in Seq(0..t) /\ Len(times) = 1 /\ times[1] = t /\ t - t = 0
  OBVIOUS
<1>2. COST_OK \in Int /\ CAPACITY \in Int /\ COST_OK <= CAPACITY
  BY LimiterAssumption
<1>3. Price(1) = COST_OK /\ Pay(0) = 0
  <2>1. Price(0 + 1) = Price(0) + COST_OK
    BY PriceSteps
  <2> QED BY <1>2, <2>1, PriceSteps, PaySteps
<1> HIDE DEF times
<1>4. Paid(times, CAPACITY - COST_OK, t)
  <2>1. \A i \in 1..Len(times) : i = 1
    BY <1>1
  <2>2. 1 - 1 + 1 = 1
    OBVIOUS
  <2> QED BY <1>1, <1>2, <1>3, <2>1, <2>2 DEF Paid
<1>5. Burst(times)
  <2>1. \A i \in 1..Len(times) : i = 1
    BY <1>1
  <2>2. 1 - 1 + 1 = 1
    OBVIOUS
  <2> QED BY <1>1, <1>2, <1>3, <2>1, <2>2 DEF Burst
<1>6. Recovering(t, CAPACITY - COST_OK, t)
  BY <1>1, <1>2, <1>3 DEF Recovering, Least
<1> QED BY <1>1, <1>4, <1>5, <1>6 DEF Account, times

(* A surcharge takes from what the subject is worth, down to the floor.    *)
LEMMA PenaltyAccount ==
  ASSUME NEW t \in Nat, NEW times, NEW last, NEW worth \in -CAPACITY..CAPACITY,
         NEW less \in -CAPACITY..worth, Account(times, last, worth, t)
  PROVE  Account(times, t, less, t)
<1>1. CAPACITY \in Int /\ worth \in Int /\ less \in Int /\ times \in Seq(0..t)
  BY LimiterAssumption DEF Account
<1>2. Paid(times, less, t)
  <2> SUFFICES ASSUME NEW i \in 1..Len(times)
               PROVE  Price(Len(times) - i + 1) + less <= CAPACITY + Pay(t - times[i])
    BY DEF Paid
  <2>1. Len(times) - i + 1 \in Int /\ t - times[i] \in Int
    BY <1>1, ElementOfSeq
  <2>2. Price(Len(times) - i + 1) + worth <= CAPACITY + Pay(t - times[i])
    BY DEF Account, Paid
  <2>3. Price(Len(times) - i + 1) \in Int /\ Pay(t - times[i]) \in Int
    BY <2>1, PriceSteps, PaySteps
  <2> QED BY <1>1, <2>2, <2>3
<1>3. Recovering(t, less, t)
  <2>1. Pay(t - t) = 0
    BY PaySteps
  <2> QED BY <1>1, <2>1 DEF Recovering, Least
<1> QED BY <1>2, <1>3 DEF Account

(* Time refills, and the promise grows with it.                            *)
LEMMA RefillAccount ==
  ASSUME NEW t \in Nat, NEW d \in Nat, NEW times, NEW last, NEW worth \in -CAPACITY..CAPACITY,
         Account(times, last, worth, t)
  PROVE  Account(times, last, Least(worth + Pay(d), CAPACITY), t + d)
<1>1. /\ CAPACITY \in Int /\ worth \in Int
      /\ times \in Seq(0..t) /\ last \in 0..t
  BY LimiterAssumption DEF Account
<1>2. times \in Seq(0..(t + d)) /\ last \in 0..(t + d)
  <2>1. \A i \in 1..Len(times) : times[i] \in 0..(t + d)
    BY <1>1, ElementOfSeq
  <2>2. times \in [1..Len(times) -> 0..(t + d)] /\ Len(times) \in Nat
    BY <1>1, <2>1, LenProperties
  <2> QED BY <1>1, <2>2, SeqDef
<1> DEFINE full == Least(worth + Pay(d), CAPACITY)
<1>3. Pay(d) \in Int /\ full <= worth + Pay(d) /\ full \in Int
  <2>1. d \in Int
    OBVIOUS
  <2>2. Pay(d) \in Int
    BY <2>1, PaySteps
  <2> QED BY <1>1, <2>2 DEF Least
<1> HIDE DEF full
<1>4. Paid(times, full, t + d)
  <2> DEFINE u == t + d
  <2> HIDE DEF u
  <2> SUFFICES ASSUME NEW i \in 1..Len(times)
               PROVE  Price(Len(times) - i + 1) + full
                        <= CAPACITY + Pay(u - times[i])
    BY DEF Paid, u
  <2>1. Len(times) - i + 1 \in Int /\ t - times[i] \in Int /\ u - times[i] = (t - times[i]) + d
    BY <1>1, ElementOfSeq DEF u
  <2>2. Price(Len(times) - i + 1) + worth <= CAPACITY + Pay(t - times[i])
    BY DEF Account, Paid
  <2>3. /\ Price(Len(times) - i + 1) \in Int /\ Pay(t - times[i]) \in Int
        /\ Pay(u - times[i]) = Pay(t - times[i]) + Pay(d)
    <3>1. Price(Len(times) - i + 1) \in Int /\ Pay(t - times[i]) \in Int
      BY <2>1, PriceSteps, PaySteps
    <3>2. d \in Int
      OBVIOUS
    <3>3. Pay((t - times[i]) + d) = Pay(t - times[i]) + Pay(d)
      BY <2>1, <3>2, PayAdds
    <3> QED BY <2>1, <3>1, <3>3
  <2> QED BY <1>1, <1>3, <2>2, <2>3, SMTT(30)
<1>5. Recovering(last, full, t + d)
  <2>1. t - last \in Int /\ t + d - last = (t - last) + d
    BY <1>1
  <2>2. Pay(t - last) \in Int /\ Pay(t + d - last) = Pay(t - last) + Pay(d)
    BY <2>1, PaySteps, PayAdds
  <2>3. worth >= Least(CAPACITY, Pay(t - last) - CAPACITY)
    BY DEF Account, Recovering
  <2>4. Pay(d) >= 0
    BY PayGrows, PaySteps
  <2> QED BY <1>1, <1>3, <2>2, <2>3, <2>4 DEF Recovering, Least, full
<1> QED BY <1>2, <1>4, <1>5 DEF Account, full

(***************************************************************************)
(* The same of stamps, wherever the bucket is set to.                      *)
(***************************************************************************)
LEMMA OwnNat ==
  ASSUME NEW c \in Stamp
  PROVE  Own(c) \in Nat /\ c.at \in Nat /\ c.back \in Nat
BY DEF Own, Stamp

LEMMA RefillSettled ==
  ASSUME NEW c, NEW log, NEW last, NEW worth \in -CAPACITY..CAPACITY,
         Settled(c, log, last, worth), NEW d \in Nat, NEW e \in Stamp, Own(e) = Own(c) + d
  PROVE  Settled(e, log, last, Least(worth + Pay(d), CAPACITY))
<1>1. Own(c) \in Nat /\ Account(OwnTimes(log), last, worth, Own(c)) /\ log \in Seq(Stamp)
  BY OwnNat DEF Settled
<1>2. Account(OwnTimes(log), last, Least(worth + Pay(d), CAPACITY), Own(c) + d)
  BY <1>1, RefillAccount
<1> QED BY <1>1, <1>2 DEF Settled

LEMMA OwnTimesAppend ==
  ASSUME NEW log \in Seq(Stamp), NEW c \in Stamp
  PROVE  OwnTimes(Append(log, c)) = Append(OwnTimes(log), Own(c))
<1>1. /\ Len(Append(log, c)) = Len(log) + 1 /\ Len(log) \in Nat
      /\ Append(log, c)[Len(log) + 1] = c
      /\ \A i \in 1..Len(log) : Append(log, c)[i] = log[i]
  BY AppendProperties, LenProperties
<1>2. /\ OwnTimes(log) \in Seq(Nat) /\ Len(OwnTimes(log)) = Len(log)
      /\ \A i \in 1..Len(log) : OwnTimes(log)[i] = Own(log[i])
  <2>1. \A i \in 1..Len(log) : Own(log[i]) \in Nat
    BY OwnNat, ElementOfSeq
  <2>2. OwnTimes(log) \in [1..Len(log) -> Nat]
    BY <2>1 DEF OwnTimes
  <2>3. OwnTimes(log) \in Seq(Nat) /\ Len(OwnTimes(log)) = Len(log)
    BY <1>1, <2>2, SeqDef, LenProperties
  <2> QED BY <2>3 DEF OwnTimes
<1> DEFINE old == OwnTimes(log)
           n   == Len(log)
           new == Append(old, Own(c))
           big == Append(log, c)
<1>3. Own(c) \in Nat
  BY OwnNat
<1>4. /\ DOMAIN new = 1..(n + 1) /\ new[n + 1] = Own(c) /\ new \in Seq(Nat)
      /\ \A i \in 1..n : new[i] = old[i]
  BY <1>2, <1>3, AppendProperties, LenProperties
<1>5. OwnTimes(big) = [i \in 1..(n + 1) |-> Own(big[i])]
  BY <1>1 DEF OwnTimes
<1>6. \A i \in 1..(n + 1) : Own(big[i]) = new[i]
  <2> TAKE i \in 1..(n + 1)
  <2>1. CASE i = n + 1
    BY <1>1, <1>4, <2>1
  <2>2. CASE i # n + 1
    <3>1. i \in 1..n
      BY <1>1, <2>2
    <3> QED BY <1>1, <1>2, <1>4, <3>1
  <2> QED BY <2>1, <2>2
<1>7. new = [i \in 1..(n + 1) |-> new[i]]
  <2>1. new \in [1..(n + 1) -> Nat]
    BY <1>1, <1>2, <1>3, <1>4, AppendProperties, LenProperties
  <2> HIDE DEF new
  <2> QED BY <2>1
<1> HIDE DEF new, big, n, old
<1>8. OwnTimes(big) = new
  BY <1>5, <1>6, <1>7
<1> QED BY <1>8 DEF new, big, n, old

LEMMA ChargeSettled ==
  ASSUME NEW c, NEW log, NEW last, NEW worth \in COST_OK..CAPACITY,
         Settled(c, log, last, worth)
  PROVE  Settled(c, Append(log, c), Own(c), worth - COST_OK)
<1>1. /\ c \in Stamp /\ Own(c) \in Nat /\ log \in Seq(Stamp)
      /\ Account(OwnTimes(log), last, worth, Own(c))
  BY OwnNat DEF Settled
<1>2. Account(Append(OwnTimes(log), Own(c)), Own(c), worth - COST_OK, Own(c))
  BY <1>1, ChargeAccount
<1>3. Append(log, c) \in Seq(Stamp)
  BY <1>1, AppendProperties
<1> QED BY <1>1, <1>2, <1>3, OwnTimesAppend DEF Settled

LEMMA OpenSettled ==
  ASSUME NEW c \in Stamp
  PROVE  Settled(c, <<c>>, Own(c), CAPACITY - COST_OK)
<1>1. Own(c) \in Nat /\ <<c>> \in Seq(Stamp)
  BY OwnNat
<1>2. OwnTimes(<<c>>) = <<Own(c)>>
  <2>1. Len(<<c>>) = 1 /\ <<c>>[1] = c
    OBVIOUS
  <2>2. OwnTimes(<<c>>) = [i \in 1..1 |-> Own(<<c>>[i])]
    BY <2>1 DEF OwnTimes
  <2>3. \A i \in 1..1 : Own(<<c>>[i]) = Own(c)
    BY <2>1
  <2>4. <<Own(c)>> = [i \in 1..1 |-> Own(c)]
    OBVIOUS
  <2> QED BY <2>2, <2>3, <2>4
<1> QED BY <1>1, <1>2, OpenAccount DEF Settled

LEMMA PenaltySettled ==
  ASSUME NEW c, NEW log, NEW last, NEW worth \in -CAPACITY..CAPACITY,
         NEW less \in -CAPACITY..worth, Settled(c, log, last, worth)
  PROVE  Settled(c, log, Own(c), less)
BY OwnNat, PenaltyAccount DEF Settled

(***************************************************************************)
(* A check and a penalty.                                                  *)
(***************************************************************************)
(* How far a reading takes the bucket's own time.                          *)
Moved(s, at) == Greatest(0, at - clock[s].at)

LEMMA MovedOn ==
  ASSUME LimiterInv, NEW s \in DOMAIN clock, NEW at \in Nat
  PROVE  /\ Moved(s, at) \in Nat /\ clock[s] \in Stamp
         /\ SetTo(clock[s], at) \in Stamp /\ SetTo(clock[s], at).at = at
         /\ Own(SetTo(clock[s], at)) = Own(clock[s]) + Moved(s, at)
<1>1. clock[s] \in Stamp
  BY DEF LimiterInv, Ledger, Books, Settled
<1>2. PICK c \in Stamp : c = clock[s]
  BY <1>1
<1>3. c.at \in Nat /\ c.back \in Nat /\ Greatest(0, c.at - at) \in Nat
  BY OwnNat DEF Greatest
<1>4. /\ SetTo(c, at) \in Stamp /\ SetTo(c, at).at = at
      /\ SetTo(c, at).back = c.back + Greatest(0, c.at - at)
  BY <1>3 DEF SetTo, Stamp
<1>5. at + (c.back + Greatest(0, c.at - at)) = (c.at + c.back) + Greatest(0, at - c.at)
  BY <1>3 DEF Greatest
<1> QED BY <1>1, <1>2, <1>3, <1>4, <1>5 DEF Own, Moved, Greatest

(* A bucket that is dropped would be full.                                 *)
LEMMA StaleIsFull ==
  ASSUME LimiterInv, NEW s \in DOMAIN buckets, NEW at \in Nat, Stale(s, at)
  PROVE  /\ Least(Worth(s) + Pay(Moved(s, at)), CAPACITY) = CAPACITY
         /\ clock[s].at < at
<1>1. /\ s \in DOMAIN clock /\ clock[s].at = buckets[s].last
      /\ Worth(s) \in -CAPACITY..CAPACITY /\ Worth(s) \in Int
      /\ Moved(s, at) \in Nat /\ clock[s].at \in Nat
  BY WorthBounds, MovedOn, OwnNat, LimiterAssumption DEF LimiterInv, Ledger, Books
<1>2. Moved(s, at) >= IDLE_EVICTION
  BY <1>1 DEF Stale, Elapsed, Moved
<1>3. /\ Pay(IDLE_EVICTION) >= 2 * CAPACITY /\ Pay(IDLE_EVICTION) \in Int
      /\ IDLE_EVICTION \in Int /\ CAPACITY \in Nat /\ CAPACITY > 0
  BY IdleIsFull, PaySteps, LimiterAssumption DEF Pay
<1>4. Pay(IDLE_EVICTION) <= Pay(Moved(s, at)) /\ Pay(Moved(s, at)) \in Int
  BY <1>1, <1>2, <1>3, PayGrows, PaySteps
<1>5. Least(Worth(s) + Pay(Moved(s, at)), CAPACITY) = CAPACITY
  BY <1>1, <1>3, <1>4 DEF Least
<1>6. IDLE_EVICTION > 0
  <2>1. CASE IDLE_EVICTION = 0
    BY <2>1, <1>3, PaySteps
  <2> QED BY <2>1, LimiterAssumption
<1>7. clock[s].at < at
  BY <1>1, <1>2, <1>3, <1>6 DEF Moved, Greatest
<1> QED BY <1>5, <1>7

LEMMA Eviction ==
  ASSUME Limits, NEW at
  PROVE  /\ IsFiniteSet(DOMAIN Evicted(at)) /\ DOMAIN Evicted(at) \subseteq DOMAIN buckets
         /\ Cardinality(DOMAIN Evicted(at)) <= Cardinality(DOMAIN buckets)
         /\ \A s \in DOMAIN Evicted(at) : Evicted(at)[s] = buckets[s]
         /\ \A s \in DOMAIN buckets \ DOMAIN Evicted(at) : Stale(s, at)
<1>1. /\ DOMAIN Evicted(at) \subseteq DOMAIN buckets
      /\ \A s \in DOMAIN Evicted(at) : Evicted(at)[s] = buckets[s]
      /\ \A s \in DOMAIN buckets \ DOMAIN Evicted(at) : Stale(s, at)
  BY DEF Evicted
<1>2. /\ IsFiniteSet(DOMAIN Evicted(at))
      /\ Cardinality(DOMAIN Evicted(at)) <= Cardinality(DOMAIN buckets)
  BY <1>1, FS_Subset DEF Limits
<1> QED BY <1>1, <1>2

(* What a bucket refills to at a reading, older or newer than the last.    *)
LEMMA RefilledIs ==
  ASSUME LimiterInv, NEW s \in DOMAIN buckets, NEW at \in Nat
  PROVE  Refilled(buckets[s], at) = Least(Worth(s) + Pay(Moved(s, at)), CAPACITY)
BY DEF Refilled, Elapsed, Worth, Moved, Pay, LimiterInv, Ledger, Books

(* A check sees what the subject is worth where the reading takes it.      *)
LEMMA BalanceIs ==
  ASSUME LimiterInv, NEW s \in DOMAIN clock, NEW at \in Nat
  PROVE  Balance(s, at) = Least(Worth(s) + Pay(Moved(s, at)), CAPACITY)
<1>1. CASE s \in DOMAIN Evicted(at)
  BY <1>1, Eviction, RefilledIs DEF Balance, LimiterInv
<1>2. CASE s \in DOMAIN buckets \ DOMAIN Evicted(at)
  BY <1>2, Eviction, StaleIsFull DEF Balance, LimiterInv
<1>3. CASE s \notin DOMAIN buckets
  <2>1. Balance(s, at) = CAPACITY /\ Worth(s) = CAPACITY
    BY <1>3, Eviction DEF Balance, Worth, LimiterInv
  <2>2. Pay(Moved(s, at)) >= 0 /\ Pay(Moved(s, at)) \in Int
    BY MovedOn, PayGrows, PaySteps
  <2> QED BY <2>1, <2>2, LimiterAssumption DEF Least
<1> QED BY <1>1, <1>2, <1>3

LEMMA BalanceBounds ==
  ASSUME LimiterInv, NEW s, NEW at \in Nat
  PROVE  Balance(s, at) \in -CAPACITY..CAPACITY
<1>1. CASE s \in DOMAIN clock
  <2>1. /\ Balance(s, at) = Least(Worth(s) + Pay(Moved(s, at)), CAPACITY)
        /\ Worth(s) \in -CAPACITY..CAPACITY
    BY <1>1, BalanceIs, WorthBounds DEF LimiterInv
  <2>2. Pay(Moved(s, at)) >= 0 /\ Pay(Moved(s, at)) \in Int
    BY <1>1, MovedOn, PayGrows, PaySteps
  <2> QED BY <2>1, <2>2, LimiterAssumption DEF Least
<1>2. CASE s \notin DOMAIN clock
  BY <1>2, Eviction, LimiterAssumption DEF Balance, LimiterInv, Ledger
<1> QED BY <1>1, <1>2

(* Where a reading leaves a subject that it does not charge.               *)
LEMMA StandingSettled ==
  ASSUME LimiterInv, NEW q \in DOMAIN clock, NEW at \in Nat
  PROVE  /\ q \in DOMAIN Evicted(at) =>
              /\ Settled(Standing(q, at), admitted[q], charged[q], buckets[q].tokens)
              /\ Standing(q, at).at = buckets[q].last
         /\ q \notin DOMAIN Evicted(at) =>
              Settled(Standing(q, at), admitted[q], charged[q], CAPACITY)
<1>1. Books(q) /\ clock[q] \in Stamp /\ Worth(q) \in -CAPACITY..CAPACITY
  BY WorthBounds, MovedOn DEF LimiterInv, Ledger
<1>2. CASE q \in DOMAIN Evicted(at)
  <2>1. q \in DOMAIN buckets /\ Standing(q, at) = clock[q]
    BY <1>2, Eviction DEF Standing, LimiterInv
  <2> QED BY <1>1, <1>2, <2>1 DEF Books, Worth
<1>3. CASE q \in DOMAIN buckets \ DOMAIN Evicted(at)
  <2>1. /\ Least(Worth(q) + Pay(Moved(q, at)), CAPACITY) = CAPACITY
        /\ clock[q].at < at
    BY <1>3, Eviction, StaleIsFull DEF LimiterInv
  <2>2. PICK c \in Stamp : c = clock[q]
    BY <1>1
  <2>3. c.at \in Nat /\ c.back \in Nat /\ c.at < at
    BY <2>1, <2>2, OwnNat
  <2>4. Standing(q, at) = [c EXCEPT !.at = at]
    BY <1>3, <2>2 DEF Standing
  <2> DEFINE e == [c EXCEPT !.at = at]
  <2>5. e \in Stamp /\ e.at = at /\ e.back = c.back
    BY <2>3 DEF Stamp
  <2> HIDE DEF e
  <2>6. at + c.back = (c.at + c.back) + Greatest(0, at - c.at)
    BY <2>3 DEF Greatest
  <2>7. Own(e) = Own(clock[q]) + Moved(q, at) /\ Moved(q, at) \in Nat
    BY <2>2, <2>5, <2>6, MovedOn DEF Own, Moved
  <2>8. Settled(e, admitted[q], charged[q], Least(Worth(q) + Pay(Moved(q, at)), CAPACITY))
    BY <1>1, <2>5, <2>7, RefillSettled DEF Books
  <2> QED BY <1>3, <2>1, <2>4, <2>8 DEF e
<1>4. CASE q \notin DOMAIN buckets
  <2>1. Standing(q, at) = clock[q] /\ Worth(q) = CAPACITY /\ q \notin DOMAIN Evicted(at)
    BY <1>4, Eviction DEF Standing, Worth, LimiterInv
  <2> QED BY <1>1, <2>1 DEF Books
<1> QED BY <1>2, <1>3, <1>4

(* And one that it may charge: it is worth its balance there.              *)
LEMMA StandsSettled ==
  ASSUME LimiterInv, NEW s, NEW at \in Nat
  PROVE  /\ Stands(s, at) \in Stamp /\ Stands(s, at).at = at
         /\ s \in DOMAIN clock =>
              Settled(Stands(s, at), admitted[s], charged[s], Balance(s, at))
<1>1. CASE s \notin DOMAIN clock
  BY <1>1 DEF Stands, Stamp
<1>2. CASE s \in DOMAIN clock
  <2>1. /\ Moved(s, at) \in Nat /\ clock[s] \in Stamp
        /\ SetTo(clock[s], at) \in Stamp /\ SetTo(clock[s], at).at = at
        /\ Own(SetTo(clock[s], at)) = Own(clock[s]) + Moved(s, at)
    BY <1>2, MovedOn
  <2>2. Stands(s, at) = SetTo(clock[s], at)
    <3>1. CASE s \in DOMAIN buckets \ DOMAIN Evicted(at)
      <4>1. clock[s].at < at
        BY <3>1, Eviction, StaleIsFull DEF LimiterInv
      <4>2. PICK c \in Stamp : c = clock[s]
        BY <2>1
      <4>3. c.at \in Nat /\ c.back \in Nat /\ c.at < at
        BY <4>1, <4>2, OwnNat
      <4>4. Greatest(0, c.at - at) = 0 /\ Greatest(0, at - at) = 0
        BY <4>3 DEF Greatest
      <4>5. [c EXCEPT !.at = at].at = at /\ [c EXCEPT !.at = at].back = c.back
        BY DEF Stamp
      <4>6. SetTo([c EXCEPT !.at = at], at) = SetTo(c, at)
        BY <4>4, <4>5 DEF SetTo
      <4> QED BY <1>2, <3>1, <4>2, <4>6 DEF Stands, Standing
    <3>2. CASE s \notin DOMAIN buckets \ DOMAIN Evicted(at)
      BY <1>2, <3>2 DEF Stands, Standing
    <3> QED BY <3>1, <3>2
  <2>3. Worth(s) \in -CAPACITY..CAPACITY /\ Settled(clock[s], admitted[s], charged[s], Worth(s))
    BY <1>2, WorthBounds DEF LimiterInv, Ledger, Books
  <2>4. Settled(SetTo(clock[s], at), admitted[s], charged[s],
                Least(Worth(s) + Pay(Moved(s, at)), CAPACITY))
    BY <2>1, <2>3, RefillSettled
  <2> QED BY <1>2, <2>1, <2>2, <2>4, BalanceIs
<1> QED BY <1>1, <1>2

(* A bucket set to what it may hold, in what is left of the map.           *)
LEMMA WithLimits ==
  ASSUME Limits, NEW table, NEW s, NEW tokens \in -CAPACITY..CAPACITY, NEW at \in 0..now,
         buckets' = With(table, s, tokens, at), UNCHANGED now,
         IsFiniteSet(DOMAIN table), DOMAIN table \subseteq DOMAIN buckets,
         \A q \in DOMAIN table : table[q] = buckets[q],
         Cardinality(DOMAIN table \cup {s}) <= MAX_BUCKETS
  PROVE  /\ Limits' /\ DOMAIN buckets' = DOMAIN table \cup {s}
         /\ buckets'[s].tokens = tokens /\ buckets'[s].last = at
         /\ \A q \in DOMAIN table \ {s} : buckets'[q] = buckets[q]
<1>1. /\ DOMAIN buckets' = DOMAIN table \cup {s}
      /\ buckets'[s] = [tokens |-> tokens, last |-> at]
      /\ \A q \in DOMAIN table \ {s} : buckets'[q] = buckets[q]
  BY DEF With
<1>2. IsFiniteSet(DOMAIN table \cup {s})
  BY FS_AddElement
<1>3. Limits'
  BY <1>1, <1>2 DEF Limits
<1> QED BY <1>1, <1>3

LEMMA RoomForOne ==
  ASSUME Limits, NEW s, NEW at, ~Crowded(at)
  PROVE  Cardinality(DOMAIN Evicted(at) \cup {s}) <= MAX_BUCKETS
<1>1. IsFiniteSet(DOMAIN Evicted(at))
  BY Eviction
<1>2. Cardinality(DOMAIN Evicted(at)) \in Nat
      /\ Cardinality(DOMAIN Evicted(at) \cup {s}) <= Cardinality(DOMAIN Evicted(at)) + 1
  BY <1>1, FS_AddElement, FS_CardinalityType
<1>3. Cardinality(DOMAIN Evicted(at) \cup {s}) \in Nat
  BY <1>1, FS_AddElement, FS_CardinalityType
<1>4. Cardinality(DOMAIN Evicted(at)) < MAX_BUCKETS /\ MAX_BUCKETS \in Nat
  BY <1>2, LimiterAssumption DEF Crowded
<1> QED BY <1>2, <1>3, <1>4

(* A check that is not open: the subject's books are what is left to show. *)
LEMMA CheckedInv ==
  ASSUME LimiterInv, NEW s, NEW at \in 0..now, ~Crowded(at), UNCHANGED now,
         NEW tokens \in -CAPACITY..CAPACITY, buckets' = With(Evicted(at), s, tokens, at),
         clock' = [q \in DOMAIN clock \cup {s} |->
                     IF q = s THEN Stands(s, at) ELSE Standing(q, at)],
         DOMAIN admitted' = DOMAIN clock', DOMAIN charged' = DOMAIN clock',
         \A q \in DOMAIN clock \ {s} : admitted'[q] = admitted[q] /\ charged'[q] = charged[q],
         Settled(Stands(s, at), admitted'[s], charged'[s], tokens)
  PROVE  LimiterInv'
<1>1. at \in Nat /\ Limits
  BY DEF LimiterInv, Limits
<1>2. /\ Limits' /\ DOMAIN buckets' = DOMAIN Evicted(at) \cup {s}
      /\ buckets'[s].tokens = tokens /\ buckets'[s].last = at
      /\ \A q \in DOMAIN Evicted(at) \ {s} : buckets'[q] = buckets[q]
      /\ DOMAIN Evicted(at) \subseteq DOMAIN buckets
  <2>1. /\ IsFiniteSet(DOMAIN Evicted(at)) /\ DOMAIN Evicted(at) \subseteq DOMAIN buckets
        /\ \A q \in DOMAIN Evicted(at) : Evicted(at)[q] = buckets[q]
    BY <1>1, Eviction
  <2>2. Cardinality(DOMAIN Evicted(at) \cup {s}) <= MAX_BUCKETS
    BY <1>1, RoomForOne
  <2> DEFINE table == Evicted(at)
  <2>3. buckets' = With(table, s, tokens, at) /\ UNCHANGED now
    OBVIOUS
  <2> HIDE DEF table
  <2>4. /\ IsFiniteSet(DOMAIN table) /\ DOMAIN table \subseteq DOMAIN buckets
        /\ \A q \in DOMAIN table : table[q] = buckets[q]
        /\ Cardinality(DOMAIN table \cup {s}) <= MAX_BUCKETS
    BY <2>1, <2>2 DEF table
  <2>5. /\ Limits' /\ DOMAIN buckets' = DOMAIN table \cup {s}
        /\ buckets'[s].tokens = tokens /\ buckets'[s].last = at
        /\ \A q \in DOMAIN table \ {s} : buckets'[q] = buckets[q]
    BY <1>1, <2>3, <2>4, WithLimits
  <2> QED BY <2>4, <2>5 DEF table
<1>3. DOMAIN clock' = DOMAIN clock \cup {s} /\ clock'[s] = Stands(s, at)
  OBVIOUS
<1>4. Books(s)'
  <2>1. Worth(s)' = tokens /\ Stands(s, at).at = at
    BY <1>1, <1>2, StandsSettled DEF Worth
  <2> QED BY <1>2, <1>3, <2>1 DEF Books
<1>5. ASSUME NEW q \in DOMAIN clock \ {s} PROVE Books(q)'
  <2>1. clock'[q] = Standing(q, at) /\ admitted'[q] = admitted[q] /\ charged'[q] = charged[q]
    BY <1>5
  <2>2. CASE q \in DOMAIN Evicted(at)
    <3>1. q \in DOMAIN buckets' /\ buckets'[q] = buckets[q]
      BY <1>2, <1>5, <2>2
    <3>2. Settled(Standing(q, at), admitted[q], charged[q], buckets[q].tokens)
          /\ Standing(q, at).at = buckets[q].last
      BY <1>1, <1>5, <2>2, StandingSettled
    <3> QED BY <2>1, <3>1, <3>2 DEF Books, Worth
  <2>3. CASE q \notin DOMAIN Evicted(at)
    <3>1. q \notin DOMAIN buckets'
      BY <1>2, <1>5, <2>3
    <3>2. Settled(Standing(q, at), admitted[q], charged[q], CAPACITY)
      BY <1>1, <1>5, <2>3, StandingSettled
    <3> QED BY <2>1, <3>1, <3>2 DEF Books, Worth
  <2> QED BY <2>2, <2>3
<1>6. DOMAIN buckets' \subseteq DOMAIN clock'
  BY <1>2, <1>3 DEF LimiterInv, Ledger
<1>7. Ledger'
  BY <1>3, <1>4, <1>5, <1>6 DEF Ledger
<1> QED BY <1>2, <1>7 DEF LimiterInv

LEMMA AdmitInv ==
  ASSUME LimiterInv, NEW s, NEW at \in 0..now, check(s, COST_OK, at),
         Verdict(s, COST_OK, at) = "admitted",
         clock' = [q \in DOMAIN clock \cup {s} |->
                     IF q = s THEN Stands(s, at) ELSE Standing(q, at)],
         admitted' = Push(admitted, s, Stands(s, at)),
         charged' = [q \in DOMAIN charged \cup {s} |->
                       IF q = s THEN Own(Stands(s, at)) ELSE charged[q]]
  PROVE  LimiterInv'
<1>1. /\ ~Crowded(at) /\ Balance(s, at) >= COST_OK /\ UNCHANGED now
      /\ buckets' = With(Evicted(at), s, Balance(s, at) - COST_OK, at)
  BY DEF check, Verdict
<1>2. /\ at \in Nat /\ Balance(s, at) \in COST_OK..CAPACITY
      /\ Balance(s, at) - COST_OK \in -CAPACITY..CAPACITY
  BY <1>1, BalanceBounds, LimiterAssumption DEF LimiterInv, Limits
<1>3. /\ DOMAIN admitted = DOMAIN clock /\ DOMAIN charged = DOMAIN clock
      /\ DOMAIN admitted' = DOMAIN clock' /\ DOMAIN charged' = DOMAIN clock'
      /\ charged'[s] = Own(Stands(s, at))
      /\ \A q \in DOMAIN clock \ {s} : admitted'[q] = admitted[q] /\ charged'[q] = charged[q]
  BY DEF Push, LimiterInv, Ledger
<1>4. Settled(Stands(s, at), admitted'[s], charged'[s], Balance(s, at) - COST_OK)
  <2>1. CASE s \in DOMAIN clock
    <3>1. Settled(Stands(s, at), admitted[s], charged[s], Balance(s, at))
      BY <1>2, <2>1, StandsSettled
    <3>2. admitted'[s] = Append(admitted[s], Stands(s, at))
      BY <1>3, <2>1 DEF Push
    <3> QED BY <1>2, <1>3, <3>1, <3>2, ChargeSettled
  <2>2. CASE s \notin DOMAIN clock
    <3>1. Balance(s, at) = CAPACITY
      BY <2>2, Eviction DEF Balance, LimiterInv, Ledger
    <3>2. admitted'[s] = <<Stands(s, at)>>
      BY <1>3, <2>2 DEF Push
    <3> QED BY <1>2, <1>3, <3>1, <3>2, OpenSettled, StandsSettled
  <2> QED BY <2>1, <2>2
<1> QED BY <1>1, <1>2, <1>3, <1>4, CheckedInv

(* A refusal settles nothing, and comes within the time a debt takes.      *)
LEMMA ThrottleInv ==
  ASSUME LimiterInv, NEW s, NEW at \in 0..now, check(s, COST_OK, at),
         Verdict(s, COST_OK, at) = "throttled",
         clock' = [q \in DOMAIN clock \cup {s} |->
                     IF q = s THEN Stands(s, at) ELSE Standing(q, at)],
         UNCHANGED <<admitted, charged>>
  PROVE  /\ LimiterInv' /\ Own(Stands(s, at)) - charged[s] \in Int
         /\ Pay(Own(Stands(s, at)) - charged[s]) < CAPACITY + COST_OK
<1>1. /\ ~Crowded(at) /\ ~(Balance(s, at) >= COST_OK) /\ UNCHANGED now
      /\ buckets' = With(Evicted(at), s, Balance(s, at), at)
  BY DEF check, Verdict
<1>2. at \in Nat /\ Balance(s, at) \in -CAPACITY..CAPACITY
  BY BalanceBounds DEF LimiterInv, Limits
<1>3. s \in DOMAIN clock
  BY <1>1, Eviction, LimiterAssumption DEF Balance, LimiterInv, Ledger
<1>4. Settled(Stands(s, at), admitted[s], charged[s], Balance(s, at))
  BY <1>2, <1>3, StandsSettled
<1>5. LimiterInv'
  <2>1. /\ DOMAIN admitted = DOMAIN clock /\ DOMAIN charged = DOMAIN clock
        /\ DOMAIN clock' = DOMAIN clock
    BY <1>3 DEF LimiterInv, Ledger
  <2>2. /\ DOMAIN admitted' = DOMAIN clock' /\ DOMAIN charged' = DOMAIN clock'
        /\ \A q \in DOMAIN clock \ {s} :
             admitted'[q] = admitted[q] /\ charged'[q] = charged[q]
        /\ Settled(Stands(s, at), admitted'[s], charged'[s], Balance(s, at))
    BY <1>4, <2>1
  <2> QED BY <1>1, <1>2, <2>2, CheckedInv
<1>6. /\ Own(Stands(s, at)) - charged[s] \in Int
      /\ Pay(Own(Stands(s, at)) - charged[s]) < CAPACITY + COST_OK
  <2> DEFINE t == Own(Stands(s, at))
  <2>1. t \in Nat /\ Account(OwnTimes(admitted[s]), charged[s], Balance(s, at), t)
    BY <1>4, OwnNat DEF Settled
  <2> HIDE DEF t
  <2>2. t - charged[s] \in Int
    BY <2>1 DEF Account
  <2>3. Pay(t - charged[s]) \in Int
    BY <2>2, PaySteps
  <2>4. Balance(s, at) >= Least(CAPACITY, Pay(t - charged[s]) - CAPACITY)
    BY <2>1 DEF Account, Recovering
  <2>5. Balance(s, at) < COST_OK /\ Balance(s, at) \in Int
    BY <1>1, <1>2, LimiterAssumption
  <2>6. Pay(t - charged[s]) < CAPACITY + COST_OK
    BY <2>3, <2>4, <2>5, LimiterAssumption DEF Least
  <2> QED BY <2>2, <2>6 DEF t
<1> QED BY <1>5, <1>6

(* At the limit there is nothing to settle, but buckets may be dropped.    *)
LEMMA OpenInv ==
  ASSUME LimiterInv, NEW s, NEW at \in 0..now, check(s, COST_OK, at),
         Verdict(s, COST_OK, at) = "open",
         clock' = [q \in DOMAIN clock |-> Standing(q, at)],
         UNCHANGED <<admitted, charged>>
  PROVE  LimiterInv'
<1>1. buckets' = Evicted(at) /\ UNCHANGED now /\ at \in Nat
  BY DEF check, LimiterInv, Limits
<1>2. /\ IsFiniteSet(DOMAIN Evicted(at)) /\ DOMAIN Evicted(at) \subseteq DOMAIN buckets
      /\ Cardinality(DOMAIN Evicted(at)) <= Cardinality(DOMAIN buckets)
      /\ \A q \in DOMAIN Evicted(at) : Evicted(at)[q] = buckets[q]
  BY Eviction DEF LimiterInv
<1>3. Limits'
  <2>1. Cardinality(DOMAIN Evicted(at)) \in Nat /\ Cardinality(DOMAIN buckets) \in Nat
    BY <1>2, FS_CardinalityType DEF LimiterInv, Limits
  <2>2. Cardinality(DOMAIN Evicted(at)) <= MAX_BUCKETS
    BY <1>2, <2>1, LimiterAssumption DEF LimiterInv, Limits
  <2> QED BY <1>1, <1>2, <2>2 DEF LimiterInv, Limits
<1>4. ASSUME NEW q \in DOMAIN clock PROVE Books(q)'
  <2>1. clock'[q] = Standing(q, at)
    OBVIOUS
  <2>2. CASE q \in DOMAIN Evicted(at)
    <3>1. q \in DOMAIN buckets' /\ buckets'[q] = buckets[q]
      BY <1>1, <1>2, <2>2
    <3>2. Settled(Standing(q, at), admitted[q], charged[q], buckets[q].tokens)
          /\ Standing(q, at).at = buckets[q].last
      BY <1>1, <2>2, StandingSettled
    <3> QED BY <2>1, <3>1, <3>2 DEF Books, Worth
  <2>3. CASE q \notin DOMAIN Evicted(at)
    <3>1. q \notin DOMAIN buckets'
      BY <1>1, <2>3
    <3>2. Settled(Standing(q, at), admitted[q], charged[q], CAPACITY)
      BY <1>1, <2>3, StandingSettled
    <3> QED BY <2>1, <3>1, <3>2 DEF Books, Worth
  <2> QED BY <2>2, <2>3
<1>5. Ledger'
  BY <1>1, <1>2, <1>4 DEF LimiterInv, Ledger
<1> QED BY <1>3, <1>5 DEF LimiterInv

LEMMA PenaliseInv ==
  ASSUME LimiterInv, NEW s \in DOMAIN buckets, NEW cost \in Nat, NEW at \in 0..now,
         penalise(s, cost, at), UNCHANGED admitted,
         clock' = [clock EXCEPT ![s] = SetTo(clock[s], at)],
         charged' = [charged EXCEPT ![s] = Own(SetTo(clock[s], at))]
  PROVE  LimiterInv'
<1> DEFINE c    == SetTo(clock[s], at)
           full == Least(Worth(s) + Pay(Moved(s, at)), CAPACITY)
           left == Owed(full, cost)
<1>1. /\ at \in Nat /\ Limits /\ s \in DOMAIN clock
      /\ DOMAIN admitted = DOMAIN clock /\ DOMAIN charged = DOMAIN clock
      /\ Worth(s) \in -CAPACITY..CAPACITY /\ Moved(s, at) \in Nat
      /\ c \in Stamp /\ c.at = at /\ Own(c) = Own(clock[s]) + Moved(s, at)
  BY WorthBounds, MovedOn DEF LimiterInv, Limits, Ledger
<1>2. Settled(c, admitted[s], charged[s], full)
  <2>1. Settled(clock[s], admitted[s], charged[s], Worth(s))
    BY <1>1 DEF LimiterInv, Ledger, Books
  <2> HIDE DEF c
  <2> QED BY <1>1, <2>1, RefillSettled
<1>3. buckets' = With(buckets, s, left, at) /\ UNCHANGED now
  BY <1>1, RefilledIs DEF penalise
<1>4. full \in -CAPACITY..CAPACITY
  <2>1. Pay(Moved(s, at)) >= 0 /\ Pay(Moved(s, at)) \in Int
    BY <1>1, PayGrows, PaySteps
  <2> QED BY <1>1, <2>1, LimiterAssumption DEF Least
<1> HIDE DEF full, c
<1>5. left \in -CAPACITY..full /\ left \in -CAPACITY..CAPACITY
  BY <1>4, LimiterAssumption DEF Owed, Greatest
<1> HIDE DEF left
<1>6. DOMAIN buckets \cup {s} = DOMAIN buckets
  OBVIOUS
<1>7. /\ Limits' /\ DOMAIN buckets' = DOMAIN buckets
      /\ buckets'[s].tokens = left /\ buckets'[s].last = at
      /\ \A q \in DOMAIN buckets \ {s} : buckets'[q] = buckets[q]
  BY <1>1, <1>3, <1>5, <1>6, WithLimits DEF Limits
<1>8. Settled(c, admitted[s], Own(c), left)
  BY <1>2, <1>4, <1>5, PenaltySettled
<1>9. Books(s)'
  <2>1. clock'[s] = c /\ charged'[s] = Own(c) /\ admitted'[s] = admitted[s]
    BY <1>1 DEF c
  <2>2. Worth(s)' = left
    BY <1>7 DEF Worth
  <2> QED BY <1>1, <1>7, <1>8, <2>1, <2>2 DEF Books
<1>10. ASSUME NEW q \in DOMAIN clock \ {s} PROVE Books(q)'
  <2>1. clock'[q] = clock[q] /\ charged'[q] = charged[q] /\ admitted'[q] = admitted[q]
    BY <1>1, <1>10
  <2>2. Worth(q)' = Worth(q) /\ Books(q)
    BY <1>7, <1>10 DEF Worth, LimiterInv, Ledger
  <2> QED BY <1>7, <1>10, <2>1, <2>2 DEF Books
<1>11. Ledger'
  BY <1>1, <1>7, <1>9, <1>10 DEF LimiterInv, Ledger
<1> QED BY <1>7, <1>11 DEF LimiterInv

(* Time passes, and a bucket stands where it was set to.                   *)
LEMMA TickInv ==
  ASSUME LimiterInv, Tick, UNCHANGED <<clock, admitted, charged>>
  PROVE  LimiterInv'
<1>1. Limits'
  BY DEF Tick, LimiterInv, Limits
<1>2. Ledger'
  BY DEF Tick, LimiterInv, Ledger, Books, Worth
<1> QED BY <1>1, <1>2 DEF LimiterInv

(* A restart forgets everything, debts too.                                *)
LEMMA ForgetInv ==
  ASSUME buckets' = <<>>, clock' = <<>>, admitted' = <<>>, charged' = <<>>, now' \in Nat
  PROVE  LimiterInv'
<1>1. DOMAIN buckets' = {} /\ DOMAIN clock' = {} /\ DOMAIN admitted' = {} /\ DOMAIN charged' = {}
  OBVIOUS
<1> QED BY <1>1, FS_EmptySet, LimiterAssumption DEF LimiterInv, Limits, Ledger

(***************************************************************************)
(* Requests.                                                               *)
(***************************************************************************)
LEMMA HopsSame ==
  ASSUME UNCHANGED setup, NEW r
  PROVE  Hops(r)' = Hops(r)
BY DEF Hops, by_domain

LEMMA HopsKnown ==
  ASSUME Typed, NEW r \in Requests
  PROVE  /\ Hops(r) \subseteq HopNames
         /\ setup.mode # "smarthost" => Hops(r) \subseteq Domains
BY DEF Typed, Hops, by_domain, Domains, HopNames

(* A row that moves on to a stage, with or without an answer.              *)
LEMMA RowMoves ==
  ASSUME NEW row \in Row, NEW stage \in Stages, NEW code \in Codes, NEW n \in Int, NEW t \in Int
  PROVE  /\ [row EXCEPT !.at = stage] \in Row
         /\ [row EXCEPT !.at = stage, !.code = code] \in Row
         /\ [row EXCEPT !.at = stage, !.read = n] \in Row
         /\ [row EXCEPT !.at = stage, !.code = code, !.read = n, !.waited = t] \in Row
BY DEF Row

(* A step of one request leaves the others' rows, copies and records.      *)
Only(r) ==
  /\ UNCHANGED <<setup, Requests>>
  /\ \A q \in Requests \ {r} :
       /\ job'[q] = job[q] /\ (q \in stored' <=> q \in stored)
       /\ \A hop \in HopNames : copies'[<<q, hop>>] = copies[<<q, hop>>]
                             /\ losses'[<<q, hop>>] = losses[<<q, hop>>]

LEMMA OthersInv ==
  ASSUME Typed, Typed', NEW r, Only(r), NEW q \in Requests \ {r}, RowInv(q)
  PROVE  RowInv(q)'
<1>1. /\ Hops(q)' = Hops(q) /\ job'[q] = job[q] /\ (q \in stored' <=> q \in stored)
      /\ \A hop \in HopNames : Taken(q, hop)' = Taken(q, hop) /\ Lossy(q, hop)' = Lossy(q, hop)
      /\ Hops(q) \subseteq HopNames
  BY HopsSame, HopsKnown DEF Only, Taken, Lossy
<1>2. OnItsWay(q)'
  BY <1>1 DEF RowInv, OnItsWay, Waiting
<1>3. DomainByDomain(q)'
  BY <1>1 DEF RowInv, DomainByDomain, Untaken
<1>4. Accounted(q)'
  BY <1>1 DEF RowInv, Accounted, Pay
<1> QED BY <1>2, <1>3, <1>4 DEF RowInv

(* A step that sends nothing: only the row of the request changes.         *)
LEMMA QuietRow ==
  ASSUME Typed, UNCHANGED <<setup, copies, losses, stored>>, NEW r \in Requests,
         NEW row \in Row, job' = [job EXCEPT ![r] = row]
  PROVE  /\ Typed' /\ Only(r) /\ job'[r] = row
         /\ Hops(r)' = Hops(r) /\ Hops(r) \subseteq HopNames
         /\ \A hop \in HopNames : Taken(r, hop)' = Taken(r, hop) /\ Lossy(r, hop)' = Lossy(r, hop)
<1>1. Requests' = Requests /\ job' \in [Requests -> Row] /\ job'[r] = row
  BY DEF Requests, Typed
<1>2. \A q : Hops(q)' = Hops(q)
  BY HopsSame
<1>3. Typed'
  BY <1>1, <1>2 DEF Typed
<1>4. Only(r)
  BY <1>1 DEF Only, Typed
<1> QED BY <1>1, <1>2, <1>3, <1>4, HopsKnown DEF Taken, Lossy

(* An answer that claims nothing of a message that never left.             *)
LEMMA UnsentRow ==
  ASSUME Typed, UNCHANGED <<setup, copies, losses, stored>>, NEW r \in Requests, RowInv(r),
         job[r].at \in {"start", "checking", "routed"}, NEW row \in Row,
         job' = [job EXCEPT ![r] = row], row.at \in {"answering", "done"}, row.code = "ok" => r.path # "/v0",
         row.code = "rate_limit_exceeded" => Pay(row.waited) < CAPACITY + COST_OK
  PROVE  Typed' /\ Only(r) /\ RowInv(r)'
<1>1. /\ Typed' /\ Only(r) /\ job'[r] = row
      /\ Hops(r)' = Hops(r) /\ Hops(r) \subseteq HopNames
      /\ \A hop \in HopNames : Taken(r, hop)' = Taken(r, hop) /\ Lossy(r, hop)' = Lossy(r, hop)
  BY QuietRow
<1>2. r \notin stored /\ \A hop \in HopNames : Taken(r, hop) = 0 /\ Lossy(r, hop) = 0
  BY DEF RowInv, OnItsWay, DomainByDomain, Waiting, Untaken
<1>3. OnItsWay(r)' /\ DomainByDomain(r)'
  BY <1>1 DEF OnItsWay, DomainByDomain, Waiting
<1>4. Accounted(r)'
  <2>1. \A hop \in HopNames : ~(Taken(r, hop)' > 0) /\ Taken(r, hop)' <= 1 + Lossy(r, hop)'
    BY <1>1, <1>2
  <2>2. \A hop \in HopNames : ~(Taken(r, hop)' > Lossy(r, hop)')
    BY <1>1, <1>2
  <2>3. r \notin stored'
    BY <1>2
  <2> QED BY <1>1, <2>1, <2>2, <2>3 DEF Accounted, Pay
<1> QED BY <1>1, <1>3, <1>4 DEF RowInv

(* A row that goes on its way, or is gone.                                 *)
LEMMA OnwardRow ==
  ASSUME Typed, UNCHANGED <<setup, copies, losses, stored>>, NEW r \in Requests, RowInv(r),
         NEW row \in Row, job' = [job EXCEPT ![r] = row], row.code = job[r].code,
         row.waited = job[r].waited, row.at \notin {"answering", "charging", "done"},
         row.at \in Waiting \cup {"start", "checking"} =>
           job[r].at \in Waiting \cup {"start", "checking"},
         DomainByDomain(r)'
  PROVE  Typed' /\ Only(r) /\ RowInv(r)'
<1>1. /\ Typed' /\ Only(r) /\ job'[r] = row
      /\ Hops(r)' = Hops(r) /\ Hops(r) \subseteq HopNames
      /\ \A hop \in HopNames : Taken(r, hop)' = Taken(r, hop) /\ Lossy(r, hop)' = Lossy(r, hop)
  BY QuietRow
<1>2. OnItsWay(r)'
  BY <1>1 DEF RowInv, OnItsWay, Waiting
<1>3. Accounted(r)'
  BY <1>1 DEF RowInv, Accounted, Pay
<1> QED BY <1>1, <1>2, <1>3 DEF RowInv

LEMMA RowsInv ==
  ASSUME IInv, NEW r \in Requests, Typed', Only(r), RowInv(r)', LimiterInv'
  PROVE  Sound'
<1>1. \A q \in Requests : RowInv(q)'
  BY OthersInv DEF IInv, Sound
<1> QED BY <1>1 DEF Sound, Only

(* What a step that is not the limiter's leaves of it.                     *)
LEMMA LimiterSame ==
  ASSUME LimiterInv, UNCHANGED <<now, buckets, clock, admitted, charged>>
  PROVE  LimiterInv'
<1>1. Limits'
  BY DEF LimiterInv, Limits
<1>2. Ledger'
  BY DEF LimiterInv, Ledger, Books, Worth
<1> QED BY <1>1, <1>2 DEF LimiterInv

(* Until a request is routed, nothing of it is taken.                      *)
LEMMA RoutedRow ==
  ASSUME Typed, UNCHANGED <<setup, copies, losses, stored>>, NEW r \in Requests, RowInv(r),
         job[r].at \in {"start", "checking"}, NEW row \in Row,
         job' = [job EXCEPT ![r] = row], row.at \in {"checking", "routed"},
         row.code = job[r].code, row.waited = job[r].waited
  PROVE  Typed' /\ Only(r) /\ RowInv(r)'
<1>1. /\ job'[r] = row
      /\ \A hop \in HopNames : Taken(r, hop)' = Taken(r, hop) /\ Lossy(r, hop)' = Lossy(r, hop)
  BY QuietRow
<1>2. DomainByDomain(r)'
  BY <1>1 DEF RowInv, DomainByDomain, Untaken
<1> QED BY <1>1, <1>2, OnwardRow DEF Waiting

(* An answer that stands: its request moves on without a copy more.        *)
LEMMA AnsweredRow ==
  ASSUME Typed, UNCHANGED <<setup, copies, losses, stored>>, NEW r \in Requests, RowInv(r),
         job[r].at \in {"answering", "charging"}, NEW row \in Row,
         job' = [job EXCEPT ![r] = row], row.at \in {"charging", "done"},
         row.code = job[r].code, row.waited = job[r].waited
  PROVE  Typed' /\ Only(r) /\ RowInv(r)'
<1>1. /\ Typed' /\ Only(r) /\ job'[r] = row
      /\ Hops(r)' = Hops(r) /\ Hops(r) \subseteq HopNames
      /\ \A hop \in HopNames : Taken(r, hop)' = Taken(r, hop) /\ Lossy(r, hop)' = Lossy(r, hop)
  BY QuietRow
<1>2. OnItsWay(r)' /\ DomainByDomain(r)'
  BY <1>1 DEF OnItsWay, DomainByDomain, Waiting
<1>3. Accounted(r)'
  BY <1>1 DEF RowInv, Accounted, Pay, Told
<1> QED BY <1>1, <1>2, <1>3 DEF RowInv

(* A reading is taken, and the limiter does not know of it.                *)
LEMMA ReadClockInv ==
  ASSUME IInv, NEW r \in Requests, ReadClock(r), UNCHANGED setup
  PROVE  Sound'
<1>1. /\ Typed /\ RowInv(r) /\ LimiterInv /\ now \in Int
      /\ UNCHANGED <<copies, losses, stored, now, buckets, clock, admitted, charged>>
  BY DEF IInv, Sound, ReadClock, wire, limiter, watch, ledger, LimiterInv, Limits
<1>2. CASE /\ job[r].at = "start"
           /\ job' = [job EXCEPT ![r].at = "checking", ![r].read = now]
  <2> DEFINE row == [job[r] EXCEPT !.at = "checking", !.read = now]
  <2>1. /\ row \in Row /\ job' = [job EXCEPT ![r] = row] /\ row.at = "checking"
        /\ row.code = job[r].code /\ row.waited = job[r].waited
    BY <1>1, <1>2 DEF Typed, Row, Stages, Running
  <2> HIDE DEF row
  <2> QED BY <1>1, <1>2, <2>1, RoutedRow, LimiterSame, RowsInv
<1>3. CASE /\ job[r].at = "answering"
           /\ job' = [job EXCEPT ![r].at = "charging", ![r].read = now]
  <2> DEFINE row == [job[r] EXCEPT !.at = "charging", !.read = now]
  <2>1. /\ row \in Row /\ job' = [job EXCEPT ![r] = row] /\ row.at = "charging"
        /\ row.code = job[r].code /\ row.waited = job[r].waited
    BY <1>1, <1>3 DEF Typed, Row, Stages, Running
  <2> HIDE DEF row
  <2> QED BY <1>1, <1>3, <2>1, AnsweredRow, LimiterSame, RowsInv
<1> QED BY <1>2, <1>3 DEF ReadClock

(* The limiter lets a request in or turns it away.                         *)
LEMMA ArriveInv ==
  ASSUME IInv, NEW r \in Requests, Arrive(r), UNCHANGED setup
  PROVE  Sound'
<1> DEFINE s  == derive(r)
           at == job[r].read
<1>1. /\ Typed /\ RowInv(r) /\ LimiterInv /\ job[r].at = "checking" /\ check(s, COST_OK, at)
      /\ at \in 0..now /\ UNCHANGED <<copies, losses, stored>>
  BY DEF IInv, Sound, Readings, Arrive, wire
<1>2. CASE Verdict(s, COST_OK, at) = "throttled"
  <2> DEFINE t   == Own(Stands(s, at)) - charged[s]
             row == [job[r] EXCEPT !.at = "done", !.code = "rate_limit_exceeded",
                                   !.read = 0, !.waited = t]
  <2>1. /\ clock' = [q \in DOMAIN clock \cup {s} |->
                       IF q = s THEN Stands(s, at) ELSE Standing(q, at)]
        /\ job' = [job EXCEPT ![r].at = "done", ![r].code = "rate_limit_exceeded",
                             ![r].read = 0, ![r].waited = Own(clock'[s]) - charged[s]]
        /\ UNCHANGED <<admitted, charged>>
    BY <1>2 DEF Arrive
  <2>2. clock'[s] = Stands(s, at)
    BY <2>1
  <2> HIDE DEF s, at
  <2>3. LimiterInv' /\ t \in Int /\ Pay(t) < CAPACITY + COST_OK
    BY <1>1, <1>2, <2>1, ThrottleInv
  <2>4. /\ row \in Row /\ job' = [job EXCEPT ![r] = row]
        /\ row.at = "done" /\ row.code = "rate_limit_exceeded" /\ row.waited = t
    <3> HIDE DEF t
    <3>1. job' = [job EXCEPT ![r] = row]
      BY <1>1, <2>1, <2>2 DEF Typed, t
    <3>2. job[r] \in Row /\ "done" \in Stages /\ "rate_limit_exceeded" \in Codes /\ 0 \in Int
      BY <1>1 DEF Typed, Stages, Codes
    <3>3. row \in Row
      BY <2>3, <3>2, RowMoves
    <3>4. row.at = "done" /\ row.code = "rate_limit_exceeded" /\ row.waited = t
      BY <3>2 DEF Row
    <3> QED BY <3>1, <3>3, <3>4
  <2> HIDE DEF row, t
  <2>5. Typed' /\ Only(r) /\ RowInv(r)'
    BY <1>1, <2>3, <2>4, UnsentRow
  <2> QED BY <2>3, <2>5, RowsInv
<1> DEFINE row == [job[r] EXCEPT !.at = "routed", !.read = 0]
<1>3. /\ row \in Row /\ row.at = "routed"
      /\ row.code = job[r].code /\ row.waited = job[r].waited
  <2>1. job[r] \in Row /\ "routed" \in Stages /\ "ok" \in Codes /\ 0 \in Int
    BY <1>1 DEF Typed, Stages, Waiting, Codes
  <2>2. row \in Row
    BY <2>1, RowMoves
  <2> QED BY <2>1, <2>2 DEF Row
<1>4. CASE Verdict(s, COST_OK, at) = "open"
  <2>1. /\ clock' = [q \in DOMAIN clock |-> Standing(q, at)]
        /\ job' = [job EXCEPT ![r] = row] /\ UNCHANGED <<admitted, charged>>
    BY <1>1, <1>4 DEF Arrive, Typed
  <2> HIDE DEF row, s, at
  <2>2. LimiterInv'
    BY <1>1, <1>4, <2>1, OpenInv
  <2> QED BY <1>1, <1>3, <2>1, <2>2, RoutedRow, RowsInv
<1>5. CASE Verdict(s, COST_OK, at) = "admitted"
  <2>1. /\ clock' = [q \in DOMAIN clock \cup {s} |->
                       IF q = s THEN Stands(s, at) ELSE Standing(q, at)]
        /\ job' = [job EXCEPT ![r] = row]
        /\ admitted' = Push(admitted, s, clock'[s])
        /\ charged' = [q \in DOMAIN charged \cup {s} |->
                         IF q = s THEN Own(clock'[s]) ELSE charged[q]]
    BY <1>1, <1>5 DEF Arrive, Typed
  <2>2. clock'[s] = Stands(s, at)
    BY <2>1
  <2> HIDE DEF row, s, at
  <2>3. /\ admitted' = Push(admitted, s, Stands(s, at))
        /\ charged' = [q \in DOMAIN charged \cup {s} |->
                         IF q = s THEN Own(Stands(s, at)) ELSE charged[q]]
    BY <2>1, <2>2
  <2>4. LimiterInv'
    BY <1>1, <1>5, <2>1, <2>3, AdmitInv
  <2> QED BY <1>1, <1>3, <2>1, <2>4, RoutedRow, RowsInv
<1> QED BY <1>2, <1>4, <1>5 DEF Verdict

LEMMA ArriveExemptInv ==
  ASSUME IInv, NEW r \in Requests, ArriveExempt(r), UNCHANGED setup
  PROVE  Sound'
<1> DEFINE row == [job[r] EXCEPT !.at = "routed"]
<1>1. /\ Typed /\ RowInv(r) /\ LimiterInv /\ job[r].at = "start"
      /\ UNCHANGED <<copies, losses, stored, now, buckets, clock, admitted, charged>>
      /\ job' = [job EXCEPT ![r].at = "routed"]
  BY DEF IInv, Sound, ArriveExempt, wire, limiter, watch, ledger
<1>2. /\ row \in Row /\ job' = [job EXCEPT ![r] = row] /\ row.at = "routed"
      /\ row.code = job[r].code /\ row.waited = job[r].waited
  BY <1>1 DEF Typed, Row, Stages, Waiting
<1> HIDE DEF row
<1> QED BY <1>1, <1>2, RoutedRow, LimiterSame, RowsInv

(* The answer is given, whatever it is, and the surcharge lands.           *)
LEMMA SurchargeInv ==
  ASSUME IInv, NEW r \in Requests, Surcharge(r), UNCHANGED setup
  PROVE  Sound'
<1> DEFINE s   == derive(r)
           at  == job[r].read
           row == [job[r] EXCEPT !.at = "done", !.read = 0]
<1>1. /\ Typed /\ RowInv(r) /\ LimiterInv /\ job[r].at \in {"answering", "charging"}
      /\ at \in 0..now /\ UNCHANGED <<copies, losses, stored, admitted>>
      /\ job' = [job EXCEPT ![r] = row]
  BY DEF IInv, Sound, Readings, Surcharge, wire, Typed
<1>2. LimiterInv'
  <2>1. CASE penalise(s, Extra(r), at) /\ s \in DOMAIN buckets
    <3>1. Extra(r) \in Nat
      BY LimiterAssumption DEF Extra, cost_for_status
    <3>2. s \in DOMAIN clock /\ s \in DOMAIN charged
      BY <1>1, <2>1 DEF LimiterInv, Ledger
    <3>3. \/ /\ clock' = [clock EXCEPT ![s] = SetTo(clock[s], at)]
             /\ charged' = [charged EXCEPT ![s] = Own(clock'[s])]
          \/ UNCHANGED <<limiter, clock, charged>>
      BY <2>1 DEF Surcharge
    <3>4. CASE UNCHANGED <<limiter, clock, charged>>
      BY <1>1, <3>4, LimiterSame DEF limiter
    <3>5. CASE /\ clock' = [clock EXCEPT ![s] = SetTo(clock[s], at)]
               /\ charged' = [charged EXCEPT ![s] = Own(clock'[s])]
      <4>1. clock'[s] = SetTo(clock[s], at)
        BY <3>2, <3>5
      <4>2. charged' = [charged EXCEPT ![s] = Own(SetTo(clock[s], at))]
        BY <3>5, <4>1
      <4> HIDE DEF s, at
      <4> QED BY <1>1, <2>1, <3>1, <3>5, <4>2, PenaliseInv
    <3> QED BY <3>3, <3>4, <3>5
  <2>2. CASE UNCHANGED <<now, buckets, clock, charged>>
    BY <1>1, <2>2, LimiterSame
  <2>3. \/ penalise(s, Extra(r), at) /\ s \in DOMAIN buckets
        \/ UNCHANGED <<now, buckets, clock, charged>>
    BY DEF Surcharge, limiter, penalise
  <2> QED BY <2>1, <2>2, <2>3
<1>3. /\ row \in Row /\ row.at = "done"
      /\ row.code = job[r].code /\ row.waited = job[r].waited
  <2>1. job[r] \in Row /\ "done" \in Stages /\ "ok" \in Codes /\ 0 \in Int
    BY <1>1 DEF Typed, Stages, Codes
  <2>2. row \in Row
    BY <2>1, RowMoves
  <2> QED BY <2>1, <2>2 DEF Row
<1> HIDE DEF s, at, row
<1> QED BY <1>1, <1>2, <1>3, AnsweredRow, RowsInv

(***************************************************************************)
(* Handlers.                                                               *)
(***************************************************************************)
LEMMA ProbeInv ==
  ASSUME IInv, NEW r \in Requests, Probe(r), UNCHANGED setup
  PROVE  Sound'
<1>1. /\ Typed /\ RowInv(r) /\ LimiterInv /\ job[r].at = "routed" /\ r.path # "/v0"
      /\ UNCHANGED <<copies, losses, stored, now, buckets, clock, admitted, charged>>
  BY DEF IInv, Sound, Probe, wire, limiter, watch, ledger
<1>2. PICK code \in {"ok", "service_unavailable"} :
        job' = [job EXCEPT ![r].at = "answering", ![r].code = code]
  BY DEF Probe, Answer
<1> DEFINE row == [job[r] EXCEPT !.at = "answering", !.code = code]
<1>3. /\ row \in Row /\ job' = [job EXCEPT ![r] = row]
      /\ row.at = "answering" /\ row.code = code
  <2>1. job[r] \in Row /\ "answering" \in Stages /\ code \in Codes /\ 0 \in Int
    BY <1>1, <1>2 DEF Typed, Stages, Running, Codes
  <2>2. row \in Row
    BY <2>1, RowMoves
  <2>3. job' = [job EXCEPT ![r] = row] /\ row.at = "answering" /\ row.code = code
    BY <1>1, <1>2, <2>1 DEF Typed, Row
  <2> QED BY <2>2, <2>3
<1> HIDE DEF row
<1>4. Typed' /\ Only(r) /\ RowInv(r)'
  BY <1>1, <1>3, UnsentRow
<1> QED BY <1>1, <1>4, LimiterSame, RowsInv

(* What may keep a message from being handed over.                         *)
LEMMA Refusals ==
  ASSUME NEW r
  PROVE  /\ Extracted(r) \in {"ok", "unauthorized", "forbidden", "validation_error"}
         /\ load_parent(r) \in {"ok", "not_found", "missing_permission", "validation_error"}
         /\ send_prepared(r) \in {"ok", "not_found", "missing_permission", "validation_error",
                                  "message_rejected"}
         /\ addressed(r) \in {"ok", "message_rejected"}
<1>1. Extracted(r) \in {"ok", "unauthorized", "forbidden", "validation_error"}
  BY DEF Extracted
<1>2. load_parent(r) \in {"ok", "not_found", "missing_permission", "validation_error"}
  BY DEF load_parent
<1>3. build_signed(r) \in {"ok", "forbidden_header", "assembly", "no_signing_key"}
  BY DEF build_signed, check_headers, sign
<1>4. outbound_to_app(build_signed(r)) \in {"ok", "validation_error", "message_rejected"}
  BY <1>3 DEF outbound_to_app
<1>5. send_prepared(r) \in {"ok", "not_found", "missing_permission", "validation_error",
                            "message_rejected"}
  BY <1>4 DEF send_prepared
<1>6. addressed(r) \in {"ok", "message_rejected"}
  BY DEF addressed, outbound_to_app
<1> QED BY <1>1, <1>2, <1>5, <1>6

LEMMA PrepareInv ==
  ASSUME IInv, NEW r \in Requests, Prepare(r), UNCHANGED setup
  PROVE  Sound'
<1>1. /\ Typed /\ RowInv(r) /\ LimiterInv /\ job[r].at = "routed"
      /\ UNCHANGED <<copies, losses, stored, now, buckets, clock, admitted, charged>>
  BY DEF IInv, Sound, Prepare, wire, limiter, watch, ledger
<1>2. CASE job' = [job EXCEPT ![r].at = "hop", ![r].left = Hops(r)]
  <2> DEFINE row == [job[r] EXCEPT !.at = "hop", !.left = Hops(r)]
  <2>1. /\ row \in Row /\ job' = [job EXCEPT ![r] = row]
        /\ row.at = "hop" /\ row.left = Hops(r)
        /\ row.code = job[r].code /\ row.waited = job[r].waited
    BY <1>1, <1>2, HopsKnown DEF Typed, Row, Stages, Waiting
  <2> HIDE DEF row
  <2>2. /\ job'[r] = row /\ Hops(r)' = Hops(r)
        /\ \A hop \in HopNames : Taken(r, hop)' = Taken(r, hop) /\ Lossy(r, hop)' = Lossy(r, hop)
    BY <1>1, <2>1, QuietRow
  <2>3. DomainByDomain(r)'
    BY <1>1, <2>1, <2>2 DEF RowInv, DomainByDomain, Untaken
  <2>4. Typed' /\ Only(r) /\ RowInv(r)'
    BY <1>1, <2>1, <2>3, OnwardRow DEF Waiting
  <2> QED BY <1>1, <2>4, LimiterSame, RowsInv
<1>3. ASSUME NEW code \in {"unauthorized", "forbidden", "validation_error", "not_found",
                           "missing_permission", "message_rejected", "internal_error"},
             job' = [job EXCEPT ![r].at = "answering", ![r].code = code]
      PROVE  Sound'
  <2> DEFINE row == [job[r] EXCEPT !.at = "answering", !.code = code]
  <2>1. /\ row \in Row /\ job' = [job EXCEPT ![r] = row]
        /\ row.at = "answering" /\ row.code = code
    <3>1. job[r] \in Row /\ "answering" \in Stages /\ code \in Codes /\ 0 \in Int
      BY <1>1, <1>3 DEF Typed, Stages, Running, Codes
    <3>2. row \in Row
      BY <3>1, RowMoves
    <3>3. job' = [job EXCEPT ![r] = row] /\ row.at = "answering" /\ row.code = code
      BY <1>1, <1>3, <3>1 DEF Typed, Row
    <3> QED BY <3>2, <3>3
  <2> HIDE DEF row
  <2>2. Typed' /\ Only(r) /\ RowInv(r)'
    BY <1>1, <2>1, UnsentRow
  <2> QED BY <1>1, <2>2, LimiterSame, RowsInv
<1>4. \/ job' = [job EXCEPT ![r].at = "hop", ![r].left = Hops(r)]
      \/ \E code \in {"unauthorized", "forbidden", "validation_error", "not_found",
                      "missing_permission", "message_rejected", "internal_error"} :
           job' = [job EXCEPT ![r].at = "answering", ![r].code = code]
  <2> DEFINE code == IF Extracted(r) # "ok" THEN Extracted(r)
                     ELSE IF load_parent(r) # "ok" THEN load_parent(r)
                     ELSE IF send_prepared(r) # "ok" THEN send_prepared(r)
                     ELSE addressed(r)
  <2>1. code \in {"ok", "unauthorized", "forbidden", "validation_error", "not_found",
                  "missing_permission", "message_rejected"}
    BY Refusals
  <2>2. \/ code # "ok" /\ Answer(r, code)
        \/ job' = [job EXCEPT ![r].at = "hop", ![r].left = Hops(r)]
        \/ Answer(r, "internal_error")
    BY DEF Prepare
  <2> HIDE DEF code
  <2> QED BY <2>1, <2>2 DEF Answer
<1> QED BY <1>2, <1>3, <1>4

LEMMA NextHopInv ==
  ASSUME IInv, NEW r \in Requests, NextHop(r), UNCHANGED setup
  PROVE  Sound'
<1>1. /\ Typed /\ RowInv(r) /\ LimiterInv /\ job[r].at = "hop"
      /\ UNCHANGED <<copies, losses, stored, now, buckets, clock, admitted, charged>>
  BY DEF IInv, Sound, NextHop, wire, limiter, watch, ledger
<1>2. CASE /\ job[r].left = {}
           /\ job' = [job EXCEPT ![r].at = "delivered"]
  <2> DEFINE row == [job[r] EXCEPT !.at = "delivered"]
  <2>1. /\ row \in Row /\ job' = [job EXCEPT ![r] = row]
        /\ row.at = "delivered" /\ row.left = {}
        /\ row.code = job[r].code /\ row.waited = job[r].waited
    BY <1>1, <1>2 DEF Typed, Row, Stages, Waiting
  <2> HIDE DEF row
  <2>2. /\ job'[r] = row /\ Hops(r)' = Hops(r)
        /\ \A hop \in HopNames : Taken(r, hop)' = Taken(r, hop) /\ Lossy(r, hop)' = Lossy(r, hop)
    BY <1>1, <2>1, QuietRow
  <2>3. DomainByDomain(r)'
    BY <1>1, <1>2, <2>1, <2>2 DEF RowInv, DomainByDomain, Untaken
  <2>4. Typed' /\ Only(r) /\ RowInv(r)'
    BY <1>1, <2>1, <2>3, OnwardRow DEF Waiting
  <2> QED BY <1>1, <2>4, LimiterSame, RowsInv
<1>3. ASSUME NEW hop \in job[r].left, NEW hosts \in mx_hosts(hop),
             job' = [job EXCEPT ![r].at = "host", ![r].hop = hop, ![r].hosts = hosts,
                               ![r].left = @ \ {hop}]
      PROVE  Sound'
  <2> DEFINE row == [job[r] EXCEPT !.at = "host", !.hop = hop, !.hosts = hosts,
                                   !.left = @ \ {hop}]
  <2>1. /\ hop \in Hops(r) /\ hop \in HopNames
        /\ setup.mode # "smarthost" => hop \in Domains
    BY <1>1, HopsKnown DEF RowInv, DomainByDomain
  <2>2. hosts \in Seq(Exchangers \cup HopNames) /\ hosts # <<>>
    <3>1. <<hop>> \in Seq(Exchangers \cup HopNames) /\ <<hop>> # <<>>
      BY <2>1
    <3>2. CASE hosts = <<hop>>
      BY <3>1, <3>2
    <3>3. CASE hosts # <<hop>>
      <4>1. setup.mode # "smarthost" /\ hosts = mx_records[hop] /\ hosts # <<>>
        BY <3>3 DEF mx_hosts
      <4>2. mx_records[hop] \in Seq(Exchangers)
        BY <2>1, <4>1, WireAssumption
      <4>3. hosts \in Seq(Exchangers \cup HopNames)
        BY <4>1, <4>2
      <4> QED BY <4>1, <4>3
    <3> QED BY <3>2, <3>3
  <2>3. /\ row \in Row /\ job' = [job EXCEPT ![r] = row]
        /\ row.at = "host" /\ row.left = job[r].left \ {hop}
        /\ row.hop = hop /\ row.hosts = hosts
        /\ row.code = job[r].code /\ row.waited = job[r].waited
    BY <1>1, <1>3, <2>1, <2>2 DEF Typed, Row, Stages, Waiting
  <2> HIDE DEF row
  <2>4. /\ job'[r] = row /\ Hops(r)' = Hops(r)
        /\ \A h \in HopNames : Taken(r, h)' = Taken(r, h) /\ Lossy(r, h)' = Lossy(r, h)
    BY <1>1, <2>3, QuietRow
  <2>5. Untaken(r, hop)
    BY <1>1, <1>3, <2>1 DEF RowInv, DomainByDomain
  <2>6. /\ job'[r].left \subseteq Hops(r)
        /\ \A h \in HopNames :
             /\ h \notin Hops(r) \/ h \in job'[r].left => Untaken(r, h)
             /\ h \in Hops(r) \ job'[r].left /\ h # hop => Taken(r, h) = Lossy(r, h) + 1
    BY <1>1, <2>3, <2>4 DEF RowInv, DomainByDomain
  <2>7. Taken(r, hop)' = Lossy(r, hop)'
    BY <2>1, <2>4, <2>5 DEF Untaken
  <2>8. Taken(r, job[r].hop)' = Lossy(r, job[r].hop)'
    BY <2>3, <2>4, <2>7 DEF Taken, Lossy
  <2>9. DomainByDomain(r)'
    BY <2>1, <2>2, <2>3, <2>4, <2>6, <2>8 DEF DomainByDomain, Untaken
  <2>10. Typed' /\ Only(r) /\ RowInv(r)'
    BY <1>1, <2>3, <2>9, OnwardRow DEF Waiting
  <2> QED BY <1>1, <2>10, LimiterSame, RowsInv
<1> QED BY <1>2, <1>3 DEF NextHop

(***************************************************************************)
(* Transactions with an exchanger.                                         *)
(***************************************************************************)
(* A count that goes up at one place stays as it is at the others.         *)
LEMMA CountedUp ==
  ASSUME NEW Places, NEW at \in Places, NEW f \in [Places -> Nat], NEW g,
         g = f \/ g = [f EXCEPT ![at] = @ + 1]
  PROVE  g \in [Places -> Nat] /\ \A other \in Places \ {at} : g[other] = f[other]
<1>1. f[at] + 1 \in Nat
  OBVIOUS
<1> QED BY <1>1

(* Only the domain under way may have a copy or a loss more.               *)
LEMMA SentRow ==
  ASSUME Typed, NEW r \in Requests, RowInv(r), job[r].at = "host", NEW row \in Row,
         job' = [job EXCEPT ![r] = row], UNCHANGED <<setup, stored>>,
         \/ UNCHANGED <<copies, losses>>
         \/ Took(r) /\ UNCHANGED losses
         \/ Took(r) /\ Lost(r)
  PROVE  /\ Typed' /\ Only(r) /\ job'[r] = row
         /\ Hops(r)' = Hops(r) /\ Hops(r) \subseteq HopNames
         /\ \A hop \in HopNames \ {job[r].hop} :
              Taken(r, hop)' = Taken(r, hop) /\ Lossy(r, hop)' = Lossy(r, hop)
         /\ job[r].hop \in HopNames
         /\ UNCHANGED <<copies, losses>> =>
              copies'[<<r, job[r].hop>>] = losses'[<<r, job[r].hop>>]
         /\ Took(r) /\ UNCHANGED losses =>
              copies'[<<r, job[r].hop>>] = losses'[<<r, job[r].hop>>] + 1
         /\ Took(r) /\ Lost(r) =>
              copies'[<<r, job[r].hop>>] = losses'[<<r, job[r].hop>>]
<1> DEFINE at == <<r, job[r].hop>>
<1>1. /\ job[r].hop \in HopNames /\ at \in Requests \X HopNames
      /\ copies[at] = losses[at] /\ copies[at] \in Nat /\ losses[at] \in Nat
  BY HopsKnown DEF RowInv, DomainByDomain, Taken, Lossy, Typed
<1>2. /\ Requests' = Requests /\ job' \in [Requests -> Row] /\ job'[r] = row
      /\ \A q \in Requests \ {r} : job'[q] = job[q]
  BY DEF Requests, Typed
<1>3. /\ copies' \in [Requests \X HopNames -> Nat] /\ losses' \in [Requests \X HopNames -> Nat]
      /\ \A other \in (Requests \X HopNames) \ {at} :
           copies'[other] = copies[other] /\ losses'[other] = losses[other]
  <2> DEFINE places == Requests \X HopNames
  <2>1. /\ copies' = copies \/ copies' = [copies EXCEPT ![at] = @ + 1]
        /\ losses' = losses \/ losses' = [losses EXCEPT ![at] = @ + 1]
    BY DEF Took, Lost
  <2>2. copies \in [places -> Nat] /\ losses \in [places -> Nat] /\ at \in places
    BY <1>1 DEF Typed
  <2> HIDE DEF at, places
  <2>3. copies' \in [places -> Nat] /\ \A other \in places \ {at} : copies'[other] = copies[other]
    BY <2>1, <2>2, CountedUp
  <2>4. losses' \in [places -> Nat] /\ \A other \in places \ {at} : losses'[other] = losses[other]
    BY <2>1, <2>2, CountedUp
  <2> USE DEF places
  <2> QED BY <2>3, <2>4
<1>4. /\ UNCHANGED <<copies, losses>> => copies'[at] = losses'[at]
      /\ Took(r) /\ UNCHANGED losses => copies'[at] = losses'[at] + 1
      /\ Took(r) /\ Lost(r) => copies'[at] = losses'[at]
  BY <1>1 DEF Typed, Took, Lost
<1>5. \A q : Hops(q)' = Hops(q)
  BY HopsSame
<1>6. Typed'
  BY <1>2, <1>3 DEF Typed
<1>7. \A q \in Requests, hop \in HopNames :
        q # r \/ hop # job[r].hop =>
          copies'[<<q, hop>>] = copies[<<q, hop>>] /\ losses'[<<q, hop>>] = losses[<<q, hop>>]
  <2> TAKE q \in Requests, hop \in HopNames
  <2>1. <<q, hop>> \in Requests \X HopNames
    OBVIOUS
  <2>2. q # r \/ hop # job[r].hop => <<q, hop>> # at
    OBVIOUS
  <2> QED BY <1>3, <2>1, <2>2
<1>8. Only(r)
  BY <1>2, <1>7 DEF Only
<1> QED BY <1>1, <1>2, <1>4, <1>5, <1>6, <1>7, <1>8, HopsKnown DEF Taken, Lossy

(* The exchanger's failure, or the loss of its answer.                     *)
LEMMA FailedRow ==
  ASSUME Typed, NEW r \in Requests, RowInv(r), job[r].at = "host", UNCHANGED <<setup, stored>>,
         job' = [job EXCEPT ![r] = AfterFailure(r)],
         UNCHANGED <<copies, losses>> \/ (Took(r) /\ Lost(r))
  PROVE  Typed' /\ Only(r) /\ RowInv(r)'
<1> DEFINE row == AfterFailure(r)
<1>1. /\ job[r] \in Row /\ job[r].hosts \in Seq(Exchangers \cup HopNames)
      /\ job[r].code = "none" /\ r \notin stored
  BY DEF Typed, Row, Stages, RowInv, OnItsWay, Waiting
<1>2. outbound_to_app("delivery") = "message_rejected"
  BY DEF outbound_to_app
<1>3. \/ /\ row = [job[r] EXCEPT !.hosts = Tail(@)] /\ Tail(job[r].hosts) # <<>>
         /\ Tail(job[r].hosts) \in Seq(Exchangers \cup HopNames)
      \/ row = [job[r] EXCEPT !.at = "answering", !.code = "message_rejected"]
  <2>1. CASE Len(job[r].hosts) > 1
    <3>1. job[r].hosts # <<>>
      BY <1>1, <2>1, EmptySeq
    <3>2. /\ Tail(job[r].hosts) \in Seq(Exchangers \cup HopNames)
          /\ Len(Tail(job[r].hosts)) = Len(job[r].hosts) - 1
      BY <1>1, <3>1, HeadTailProperties
    <3>3. Len(job[r].hosts) \in Nat
      BY <1>1, LenProperties
    <3>4. Tail(job[r].hosts) # <<>>
      BY <2>1, <3>2, <3>3, EmptySeq, SMTT(30)
    <3> QED BY <2>1, <3>2, <3>4 DEF AfterFailure
  <2>2. CASE ~(Len(job[r].hosts) > 1)
    BY <1>2, <2>2 DEF AfterFailure
  <2> QED BY <2>1, <2>2
<1>4. row \in Row
  BY <1>1, <1>3 DEF Row, Stages, Running, Codes
<1>5. /\ row.left = job[r].left /\ row.hop = job[r].hop
      /\ \/ row.at = "host" /\ row.code = "none" /\ row.hosts # <<>>
         \/ row.at = "answering" /\ row.code = "message_rejected"
  BY <1>1, <1>3 DEF Row
<1> HIDE DEF row
<1>6. /\ Typed' /\ Only(r) /\ job'[r] = row
      /\ Hops(r)' = Hops(r) /\ Hops(r) \subseteq HopNames
      /\ \A hop \in HopNames \ {job[r].hop} :
           Taken(r, hop)' = Taken(r, hop) /\ Lossy(r, hop)' = Lossy(r, hop)
      /\ job[r].hop \in HopNames
      /\ copies'[<<r, job[r].hop>>] = losses'[<<r, job[r].hop>>]
  BY <1>4, SentRow DEF row
<1>7. OnItsWay(r)'
  BY <1>1, <1>5, <1>6 DEF OnItsWay, Waiting
<1>8. /\ job[r].hop \in Hops(r) \ job[r].left /\ job[r].left \subseteq Hops(r)
      /\ \A hop \in HopNames \ {job[r].hop} :
           /\ hop \notin Hops(r) \/ hop \in job[r].left => Untaken(r, hop)
           /\ hop \in Hops(r) \ job[r].left => Taken(r, hop) = Lossy(r, hop) + 1
  BY DEF RowInv, DomainByDomain
<1>9. DomainByDomain(r)'
  <2>1. \A hop \in HopNames :
          /\ hop \notin Hops(r) \/ hop \in job[r].left =>
               Taken(r, hop)' = 0 /\ Lossy(r, hop)' = 0
          /\ hop \in Hops(r) \ job[r].left /\ hop # job[r].hop =>
               Taken(r, hop)' = Lossy(r, hop)' + 1
    BY <1>6, <1>8 DEF Untaken
  <2>2. job'[r].hop = job[r].hop /\ copies'[<<r, job'[r].hop>>] = losses'[<<r, job'[r].hop>>]
    BY <1>5, <1>6
  <2> QED BY <1>5, <1>6, <1>8, <2>1, <2>2 DEF DomainByDomain, Untaken, Taken, Lossy
<1>10. Accounted(r)'
  <2>1. \A hop \in HopNames : Taken(r, hop)' <= 1 + Lossy(r, hop)'
    <3> SUFFICES ASSUME NEW hop \in HopNames
                 PROVE  copies'[<<r, hop>>] <= 1 + losses'[<<r, hop>>]
      BY DEF Taken, Lossy
    <3>1. copies'[<<r, hop>>] \in Nat /\ losses'[<<r, hop>>] \in Nat
      BY <1>6 DEF Typed, Only
    <3>2. CASE hop = job[r].hop
      BY <1>6, <3>1, <3>2
    <3>3. CASE hop # job[r].hop
      BY <1>6, <3>3 DEF RowInv, Accounted, Taken, Lossy
    <3> QED BY <3>2, <3>3
  <2>2. ~(copies'[<<r, job[r].hop>>] > losses'[<<r, job[r].hop>>])
    <3>1. copies'[<<r, job[r].hop>>] \in Nat
      BY <1>6 DEF Typed, Only
    <3> QED BY <1>6, <3>1
  <2>3. \E hop \in Hops(r) : ~(copies'[<<r, hop>>] > losses'[<<r, hop>>])
    BY <1>8, <2>2
  <2>4. r \notin stored'
    BY <1>1
  <2> QED BY <1>5, <1>6, <2>1, <2>3, <2>4 DEF Accounted, Taken, Lossy
<1> QED BY <1>6, <1>7, <1>9, <1>10 DEF RowInv

(* The exchanger's answer comes: the domain is served.                     *)
LEMMA ServedRow ==
  ASSUME Typed, NEW r \in Requests, RowInv(r), job[r].at = "host", UNCHANGED <<setup, stored>>,
         job' = [job EXCEPT ![r] = AfterSuccess(r)],
         Took(r), UNCHANGED losses
  PROVE  Typed' /\ Only(r) /\ RowInv(r)'
<1> DEFINE row == AfterSuccess(r)
<1>1. job[r] \in Row /\ job[r].code = "none" /\ r \notin stored
  BY DEF Typed, Row, Stages, RowInv, OnItsWay, Waiting
<1>2. /\ row \in Row /\ row.left = job[r].left /\ row.at = "hop" /\ row.code = "none"
  BY <1>1 DEF Row, Stages, AfterSuccess, Waiting
<1> HIDE DEF row
<1>3. /\ Typed' /\ Only(r) /\ job'[r] = row
      /\ Hops(r)' = Hops(r) /\ Hops(r) \subseteq HopNames
      /\ \A hop \in HopNames \ {job[r].hop} :
           Taken(r, hop)' = Taken(r, hop) /\ Lossy(r, hop)' = Lossy(r, hop)
      /\ job[r].hop \in HopNames
      /\ copies'[<<r, job[r].hop>>] = losses'[<<r, job[r].hop>>] + 1
  BY <1>2, SentRow DEF row
<1>4. OnItsWay(r)'
  BY <1>1, <1>2, <1>3 DEF OnItsWay, Waiting
<1>5. /\ job[r].hop \in Hops(r) \ job[r].left /\ job[r].left \subseteq Hops(r)
      /\ \A hop \in HopNames \ {job[r].hop} :
           /\ hop \notin Hops(r) \/ hop \in job[r].left => Untaken(r, hop)
           /\ hop \in Hops(r) \ job[r].left => Taken(r, hop) = Lossy(r, hop) + 1
  BY DEF RowInv, DomainByDomain
<1>6. \A hop \in HopNames :
        /\ hop \notin Hops(r) \/ hop \in job[r].left =>
             copies'[<<r, hop>>] = 0 /\ losses'[<<r, hop>>] = 0
        /\ hop \in Hops(r) \ job[r].left =>
             copies'[<<r, hop>>] = losses'[<<r, hop>>] + 1
  BY <1>3, <1>5 DEF Untaken, Taken, Lossy
<1>7. DomainByDomain(r)'
  BY <1>2, <1>3, <1>5, <1>6 DEF DomainByDomain, Untaken, Taken, Lossy
<1>8. Accounted(r)'
  <2>1. \A hop \in HopNames : copies'[<<r, hop>>] <= 1 + losses'[<<r, hop>>]
    <3> TAKE hop \in HopNames
    <3>1. copies'[<<r, hop>>] \in Nat /\ losses'[<<r, hop>>] \in Nat
      BY <1>3 DEF Typed, Only
    <3> QED BY <1>6, <3>1
  <2>2. r \notin stored'
    BY <1>1
  <2> QED BY <1>2, <1>3, <2>1, <2>2 DEF Accounted, Taken, Lossy
<1> QED BY <1>3, <1>4, <1>7, <1>8 DEF RowInv

LEMMA HostInv ==
  ASSUME IInv, NEW r \in Requests, deliver_to_host(r), UNCHANGED setup
  PROVE  Sound'
<1>1. /\ Typed /\ RowInv(r) /\ LimiterInv /\ job[r].at = "host"
      /\ UNCHANGED <<stored, now, buckets, clock, admitted, charged>>
  BY DEF IInv, Sound, deliver_to_host, limiter, watch, ledger
<1>2. LimiterInv'
  BY <1>1, LimiterSame
<1>3. Typed' /\ Only(r) /\ RowInv(r)'
  <2>1. CASE job' = [job EXCEPT ![r] = AfterSuccess(r)] /\ Took(r) /\ UNCHANGED losses
    BY <1>1, <2>1, ServedRow
  <2>2. CASE /\ job' = [job EXCEPT ![r] = AfterFailure(r)]
             /\ UNCHANGED <<copies, losses>> \/ (Took(r) /\ Lost(r))
    BY <1>1, <2>2, FailedRow
  <2> QED BY <2>1, <2>2 DEF deliver_to_host
<1> QED BY <1>2, <1>3, RowsInv

(* Behind the last domain, all have the message.                           *)
LEMMA DeliveredAll ==
  ASSUME Typed, NEW r \in Requests, RowInv(r), job[r].at = "delivered"
  PROVE  Hops(r) \subseteq HopNames /\ \A hop \in Hops(r) : Taken(r, hop) > 0
<1>1. Hops(r) \subseteq HopNames
  BY HopsKnown
<1>2. ASSUME NEW hop \in Hops(r) PROVE Taken(r, hop) > 0
  <2>1. hop \in HopNames /\ Taken(r, hop) = Lossy(r, hop) + 1
    BY <1>1 DEF RowInv, DomainByDomain
  <2>2. Lossy(r, hop) \in Nat
    BY <2>1 DEF Typed, Lossy
  <2> QED BY <2>1, <2>2
<1> QED BY <1>1, <1>2

(* The record, after every domain has taken the message.                   *)
LEMMA PersistInv ==
  ASSUME IInv, NEW r \in Requests, persist_sent(r), UNCHANGED setup
  PROVE  Sound'
<1>1. /\ Typed /\ RowInv(r) /\ LimiterInv /\ job[r].at = "delivered" /\ job[r].left = {}
      /\ UNCHANGED <<copies, losses, now, buckets, clock, admitted, charged>>
  BY DEF IInv, Sound, persist_sent, limiter, watch, ledger, RowInv, DomainByDomain
<1>2. PICK code \in {"ok", "internal_error", "not_found"} :
        /\ job' = [job EXCEPT ![r].at = "answering", ![r].code = code]
        /\ \/ stored' = stored \cup {r} /\ code \in {"ok", "internal_error"}
           \/ stored' = stored /\ Told(r, code)
  BY DEF persist_sent, Answer, Told
<1> DEFINE row == [job[r] EXCEPT !.at = "answering", !.code = code]
<1>3. /\ row \in Row /\ job' = [job EXCEPT ![r] = row]
      /\ row.at = "answering" /\ row.code = code
  <2>1. job[r] \in Row /\ "answering" \in Stages /\ code \in Codes /\ 0 \in Int
    BY <1>1, <1>2 DEF Typed, Stages, Running, Codes
  <2>2. row \in Row
    BY <2>1, RowMoves
  <2>3. job' = [job EXCEPT ![r] = row] /\ row.at = "answering" /\ row.code = code
    BY <1>1, <1>2, <2>1 DEF Typed, Row
  <2> QED BY <2>2, <2>3
<1> HIDE DEF row
<1>4. /\ Requests' = Requests /\ job' \in [Requests -> Row] /\ job'[r] = row
      /\ \A q \in Requests \ {r} : job'[q] = job[q]
  BY <1>1, <1>3 DEF Requests, Typed
<1>5. \A q : Hops(q)' = Hops(q)
  BY HopsSame
<1>6. Typed' /\ Only(r)
  BY <1>1, <1>2, <1>4, <1>5 DEF Typed, Only
<1>7. OnItsWay(r)' /\ DomainByDomain(r)'
  BY <1>3, <1>4 DEF OnItsWay, DomainByDomain, Waiting
<1>8. Accounted(r)'
  <2>1. \A hop \in HopNames : Taken(r, hop)' = Taken(r, hop) /\ Lossy(r, hop)' = Lossy(r, hop)
    BY <1>1 DEF Taken, Lossy
  <2>2. \A hop \in Hops(r) : Taken(r, hop) > 0
    BY <1>1, DeliveredAll
  <2>3. Hops(r) \subseteq HopNames
    BY <1>1, HopsKnown
  <2>4. \A hop \in HopNames : Taken(r, hop) <= 1 + Lossy(r, hop)
    BY <1>1 DEF RowInv, Accounted
  <2>5. \A q : Told(r, q)' = Told(r, q)
    BY DEF Told
  <2>6. code = "ok" => r \in stored'
    BY <1>2 DEF Told
  <2>7. r \notin stored' => Told(r, code)
    BY <1>2
  <2> QED BY <1>2, <1>3, <1>4, <1>5, <2>1, <2>2, <2>3, <2>4, <2>5, <2>6, <2>7 DEF Accounted
<1> QED BY <1>1, <1>6, <1>7, <1>8, LimiterSame, RowsInv DEF RowInv

(***************************************************************************)
(* From outside.                                                           *)
(***************************************************************************)
(* A request that is gone has no answer to account for, but its copies are *)
(* still told.                                                             *)
LEMMA HangupInv ==
  ASSUME IInv, NEW r \in Requests, Hangup(r), UNCHANGED setup
  PROVE  Sound'
<1> DEFINE row == [job[r] EXCEPT !.at = "gone"]
<1>1. /\ Typed /\ RowInv(r) /\ LimiterInv /\ job[r].at \in Waiting
      /\ UNCHANGED <<now, buckets, clock, admitted, charged>>
      /\ job' = [job EXCEPT ![r].at = "gone"]
  BY DEF IInv, Sound, Hangup, limiter, watch, ledger
<1>2. /\ row \in Row /\ job' = [job EXCEPT ![r] = row]
      /\ row.at = "gone" /\ row.code = job[r].code /\ row.waited = job[r].waited
      /\ job[r].code = "none" /\ r \notin stored
  BY <1>1, ZenonT(40) DEF Typed, Row, Stages, RowInv, OnItsWay
<1> HIDE DEF row
<1>3. Typed' /\ Only(r) /\ RowInv(r)'
  <2>1. CASE UNCHANGED <<copies, losses, stored>>
    <3>1. job'[r] = row
      BY <1>1, <1>2, <2>1, QuietRow
    <3>2. DomainByDomain(r)'
      BY <1>2, <3>1 DEF DomainByDomain
    <3> QED BY <1>1, <1>2, <2>1, <3>2, OnwardRow DEF Waiting
  <2>2. CASE job[r].at = "host" /\ Took(r) /\ Lost(r) /\ UNCHANGED stored
    <3>1. /\ Typed' /\ Only(r) /\ job'[r] = row
          /\ Hops(r)' = Hops(r) /\ Hops(r) \subseteq HopNames
          /\ \A hop \in HopNames \ {job[r].hop} :
               Taken(r, hop)' = Taken(r, hop) /\ Lossy(r, hop)' = Lossy(r, hop)
          /\ job[r].hop \in HopNames
          /\ copies'[<<r, job[r].hop>>] = losses'[<<r, job[r].hop>>]
      BY <1>1, <1>2, <2>2, SentRow
    <3>2. OnItsWay(r)' /\ DomainByDomain(r)'
      BY <1>2, <3>1 DEF OnItsWay, DomainByDomain, Waiting
    <3>3. \A hop \in HopNames : copies'[<<r, hop>>] <= 1 + losses'[<<r, hop>>]
      <4> TAKE hop \in HopNames
      <4>1. copies'[<<r, hop>>] \in Nat /\ losses'[<<r, hop>>] \in Nat
        BY <3>1 DEF Typed, Only
      <4>2. CASE hop = job[r].hop
        BY <3>1, <4>1, <4>2
      <4>3. CASE hop # job[r].hop
        BY <1>1, <3>1, <4>3 DEF RowInv, Accounted, Taken, Lossy
      <4> QED BY <4>2, <4>3
    <3>4. r \notin stored'
      BY <1>2, <2>2
    <3>5. Accounted(r)'
      BY <1>2, <3>1, <3>3, <3>4 DEF Accounted, Taken, Lossy
    <3> QED BY <3>1, <3>2, <3>5 DEF RowInv
  <2>3. CASE job[r].at = "delivered" /\ stored' = stored \cup {r} /\ UNCHANGED <<copies, losses>>
    <3>1. /\ Requests' = Requests /\ job' \in [Requests -> Row] /\ job'[r] = row
          /\ \A q \in Requests \ {r} : job'[q] = job[q]
      BY <1>1, <1>2 DEF Requests, Typed
    <3>2. \A q : Hops(q)' = Hops(q)
      BY HopsSame
    <3>3. Typed' /\ Only(r)
      BY <1>1, <2>3, <3>1, <3>2 DEF Typed, Only
    <3>4. OnItsWay(r)' /\ DomainByDomain(r)'
      BY <1>2, <3>1 DEF OnItsWay, DomainByDomain, Waiting
    <3>5. \A hop \in HopNames : Taken(r, hop)' = Taken(r, hop) /\ Lossy(r, hop)' = Lossy(r, hop)
      BY <2>3 DEF Taken, Lossy
    <3>6. Hops(r) \subseteq HopNames /\ \A hop \in Hops(r) : Taken(r, hop) > 0
      BY <1>1, <2>3, DeliveredAll
    <3>7. Accounted(r)'
      BY <1>1, <1>2, <2>3, <3>1, <3>2, <3>5, <3>6 DEF RowInv, Accounted
    <3> QED BY <3>3, <3>4, <3>7 DEF RowInv
  <2> QED BY <1>1, <2>1, <2>2, <2>3 DEF Hangup, wire
<1> QED BY <1>1, <1>3, LimiterSame, RowsInv

LEMMA RestartInv ==
  ASSUME IInv, Restart, UNCHANGED setup
  PROVE  Sound'
<1>1. /\ UNCHANGED <<now, copies, losses, stored>>
      /\ buckets' = <<>> /\ clock' = <<>> /\ admitted' = <<>> /\ charged' = <<>>
      /\ job' = [r \in Requests |->
                   IF job[r].at \in Waiting \cup Running
                   THEN [job[r] EXCEPT !.at = "gone"] ELSE job[r]]
  BY DEF Restart, wire
<1>2. LimiterInv'
  BY <1>1, ForgetInv DEF IInv, Sound, LimiterInv, Limits
<1>3. Requests' = Requests
  BY <1>1 DEF Requests
<1>4. \A r : Hops(r)' = Hops(r)
  BY HopsSame
<1>5. \A r \in Requests :
        /\ job'[r] \in Row /\ job'[r].code = job[r].code /\ job'[r].waited = job[r].waited
        /\ \/ job'[r].at = "gone"
           \/ job'[r] = job[r] /\ job[r].at \notin Waiting \cup Running
  BY <1>1, ZenonT(40) DEF IInv, Sound, Typed, Row, Stages
<1>6. Typed'
  <2>1. job' \in [Requests -> Row]
    BY <1>1, <1>5
  <2> QED BY <1>1, <1>3, <2>1 DEF IInv, Sound, Typed
<1>7. ASSUME NEW r \in Requests PROVE RowInv(r)'
  <2>1. /\ RowInv(r) /\ Hops(r) \subseteq HopNames
        /\ \A hop \in HopNames : Taken(r, hop)' = Taken(r, hop) /\ Lossy(r, hop)' = Lossy(r, hop)
    BY <1>1, HopsKnown DEF IInv, Sound, Taken, Lossy
  <2>2. OnItsWay(r)'
    BY <1>1, <1>5, <2>1 DEF RowInv, OnItsWay, Waiting
  <2>3. DomainByDomain(r)'
    BY <1>4, <1>5, <2>1 DEF RowInv, DomainByDomain, Untaken, Waiting
  <2>4. Accounted(r)'
    BY <1>1, <1>4, <1>5, <2>1 DEF RowInv, Accounted, Pay
  <2> QED BY <2>2, <2>3, <2>4 DEF RowInv
<1> QED BY <1>2, <1>3, <1>6, <1>7 DEF Sound

(* Where nothing of a request changes.                                     *)
LEMMA RowsSame ==
  ASSUME IInv, UNCHANGED <<setup, job, copies, losses, stored>>, LimiterInv'
  PROVE  Sound'
<1>1. Requests' = Requests /\ \A r : Hops(r)' = Hops(r)
  BY HopsSame DEF Requests
<1>2. Typed'
  BY <1>1 DEF IInv, Sound, Typed
<1>3. ASSUME NEW r \in Requests PROVE RowInv(r)'
  <2>1. /\ RowInv(r) /\ Hops(r) \subseteq HopNames
        /\ \A hop \in HopNames : Taken(r, hop)' = Taken(r, hop) /\ Lossy(r, hop)' = Lossy(r, hop)
    BY HopsKnown DEF IInv, Sound, Taken, Lossy
  <2>2. OnItsWay(r)'
    BY <2>1 DEF RowInv, OnItsWay, Waiting
  <2>3. DomainByDomain(r)'
    BY <1>1, <2>1 DEF RowInv, DomainByDomain, Untaken
  <2>4. Accounted(r)'
    BY <1>1, <2>1 DEF RowInv, Accounted, Pay
  <2> QED BY <2>2, <2>3, <2>4 DEF RowInv
<1> QED BY <1>1, <1>2, <1>3 DEF IInv, Sound

(* A row keeps its reading, takes a new one or is rid of it.               *)
LEMMA ReadingsNext ==
  ASSUME IInv, Next
  PROVE  Readings'
<1>1. /\ job \in [Requests -> Row] /\ now \in Nat /\ \A q \in Requests : job[q].read \in 0..now
  BY DEF IInv, Sound, Typed, Readings, LimiterInv, Limits
<1>2. SUFFICES /\ Requests' = Requests /\ now' \in Nat /\ now <= now'
               /\ \A q \in Requests : job'[q].read \in {job[q].read, 0, now}
  <2> SUFFICES ASSUME NEW q \in Requests' PROVE job'[q].read \in 0..now'
    BY DEF Readings
  <2> QED BY <1>1, <1>2
<1>3. ASSUME NEW r \in Requests, Serve(r) \/ Hangup(r)
      PROVE  /\ now' = now /\ Requests' = Requests
             /\ \A q \in Requests : job'[q].read \in {job[q].read, 0, now}
  <2>1. CASE Arrive(r)
    BY <1>1, <2>1 DEF Arrive, check, Requests, Row
  <2>2. CASE ReadClock(r)
    <3>1. CASE job' = [job EXCEPT ![r].at = "checking", ![r].read = now]
      BY <1>1, <2>2, <3>1 DEF ReadClock, limiter, Requests, Row
    <3>2. CASE job' = [job EXCEPT ![r].at = "charging", ![r].read = now]
      BY <1>1, <2>2, <3>2 DEF ReadClock, limiter, Requests, Row
    <3> QED BY <2>2, <3>1, <3>2 DEF ReadClock
  <2>3. CASE Probe(r)
    BY <1>1, <2>3 DEF Probe, Answer, limiter, Requests, Row
  <2>4. CASE Prepare(r)
    <3>1. \/ \E code : Answer(r, code)
          \/ job' = [job EXCEPT ![r].at = "hop", ![r].left = Hops(r)]
      BY <2>4 DEF Prepare
    <3>2. CASE \E code : Answer(r, code)
      BY <1>1, <2>4, <3>2 DEF Prepare, Answer, limiter, Requests, Row
    <3>3. CASE job' = [job EXCEPT ![r].at = "hop", ![r].left = Hops(r)]
      BY <1>1, <2>4, <3>3 DEF Prepare, limiter, Requests, Row
    <3> QED BY <3>1, <3>2, <3>3
  <2>5. CASE NextHop(r)
    <3>1. CASE job' = [job EXCEPT ![r].at = "delivered"]
      BY <1>1, <2>5, <3>1 DEF NextHop, limiter, Requests, Row
    <3>2. ASSUME NEW hop, NEW hosts,
                 job' = [job EXCEPT ![r].at = "host", ![r].hop = hop, ![r].hosts = hosts,
                                   ![r].left = @ \ {hop}]
          PROVE  /\ Requests' = Requests
                 /\ \A q \in Requests : job'[q].read \in {job[q].read, 0, now}
      <4>1. Requests' = Requests
        BY <3>2 DEF Requests
      <4>2. \A q \in Requests : job'[q].read = job[q].read
        BY <1>1, <3>2 DEF Row
      <4> QED BY <4>1, <4>2
    <3>3. now' = now
      BY <2>5 DEF NextHop, limiter
    <3> QED BY <2>5, <3>1, <3>2, <3>3 DEF NextHop
  <2>10. CASE ArriveExempt(r)
    BY <1>1, <2>10 DEF ArriveExempt, limiter, Requests, Row
  <2>6. CASE deliver_to_host(r)
    <3>1. AfterSuccess(r).read = job[r].read /\ AfterFailure(r).read = job[r].read
      BY <1>1 DEF AfterSuccess, AfterFailure, Row
    <3> QED BY <1>1, <2>6, <3>1 DEF deliver_to_host, limiter, Requests
  <2>7. CASE persist_sent(r)
    <3>1. \E code : Answer(r, code)
      BY <2>7 DEF persist_sent
    <3> QED BY <1>1, <2>7, <3>1 DEF persist_sent, Answer, limiter, Requests, Row
  <2>8. CASE Hangup(r)
    BY <1>1, <2>8 DEF Hangup, limiter, Requests, Row
  <2>9. CASE Surcharge(r)
    BY <1>1, <2>9 DEF Surcharge, penalise, limiter, Requests, Row
  <2> QED BY <1>3, <2>1, <2>2, <2>3, <2>4, <2>5, <2>6, <2>7, <2>8, <2>9, <2>10 DEF Serve
<1>4. CASE Restart
  BY <1>1, <1>4 DEF Restart, Requests, Row
<1>5. CASE Pass
  BY <1>1, <1>5 DEF Pass, Tick, Requests
<1> QED BY <1>1, <1>3, <1>4, <1>5 DEF Next

(***************************************************************************)
(* The theorems.                                                           *)
(***************************************************************************)
(* The invariant holds from an empty limiter on, whatever request takes    *)
(* its next step, hangs up, or is cut off by a restart.                    *)
THEOREM Inductive == Spec => []IInv
<1>1. Init => IInv
  <2> SUFFICES ASSUME Init PROVE IInv
    OBVIOUS
  <2>1. PICK start \in Starts :
          /\ job = [r \in start.crowd |-> Fresh]
          /\ copies = [at \in start.crowd \X HopNames |-> 0] /\ losses = copies
          /\ stored = {} /\ clock = <<>> /\ admitted = <<>> /\ charged = <<>>
          /\ now = 0 /\ buckets = <<>>
    BY DEF Init
  <2>2. /\ DOMAIN buckets = {} /\ DOMAIN clock = {}
        /\ DOMAIN admitted = {} /\ DOMAIN charged = {}
    BY <2>1
  <2>3. LimiterInv
    BY <2>1, <2>2, FS_EmptySet, LimiterAssumption DEF LimiterInv, Limits, Ledger
  <2>4. Requests = start.crowd /\ Fresh \in Row
    <3>1. <<>> \in Seq(Exchangers \cup HopNames)
      BY EmptySeq
    <3> QED BY <2>1, <3>1 DEF Requests, Fresh, Row, Stages, Codes
  <2>5. Typed
    BY <2>1, <2>4 DEF Typed
  <2>6. ASSUME NEW r \in Requests PROVE RowInv(r)
    <3>1. job[r] = Fresh /\ r \notin stored /\ Hops(r) \subseteq HopNames
      BY <2>1, <2>4, <2>5, HopsKnown
    <3>2. \A hop \in HopNames : Taken(r, hop) = 0 /\ Lossy(r, hop) = 0
      BY <2>1, <2>4 DEF Taken, Lossy
    <3>3. OnItsWay(r) /\ DomainByDomain(r)
      BY <3>1, <3>2 DEF OnItsWay, DomainByDomain, Untaken, Fresh
    <3>4. Accounted(r)
      BY <3>1, <3>2 DEF Accounted, Fresh
    <3> QED BY <3>3, <3>4 DEF RowInv
  <2>7. Readings
    BY <2>1, <2>4 DEF Readings, Fresh
  <2> QED BY <2>3, <2>5, <2>6, <2>7 DEF IInv, Sound
<1>2. IInv /\ [Next]_vars => IInv'
  <2> SUFFICES ASSUME IInv, [Next]_vars PROVE IInv'
    OBVIOUS
  <2>1. ASSUME NEW r \in Requests, Serve(r), UNCHANGED setup PROVE Sound'
    BY <2>1, ReadClockInv, ArriveInv, ArriveExemptInv, ProbeInv, PrepareInv, NextHopInv, HostInv,
       PersistInv, SurchargeInv DEF Serve
  <2>2. ASSUME NEW r \in Requests, Hangup(r), UNCHANGED setup PROVE Sound'
    BY <2>2, HangupInv
  <2>3. ASSUME Restart, UNCHANGED setup PROVE Sound'
    BY <2>3, RestartInv
  <2>4. ASSUME Pass, UNCHANGED setup PROVE Sound'
    <3>1. Tick /\ UNCHANGED <<setup, job, copies, losses, stored, clock, admitted, charged>>
      BY <2>4 DEF Pass, wire, watch, ledger
    <3>2. LimiterInv'
      BY <3>1, TickInv DEF IInv, Sound
    <3> QED BY <3>1, <3>2, RowsSame
  <2>5. CASE Next
    BY <2>1, <2>2, <2>3, <2>4, <2>5, ReadingsNext DEF Next, IInv
  <2>6. CASE UNCHANGED vars
    <3>1. UNCHANGED <<setup, job, copies, losses, stored, clock, admitted, charged, now, buckets>>
      BY <2>6 DEF vars, limiter, wire, watch, ledger
    <3>2. LimiterInv'
      BY <3>1, LimiterSame DEF IInv, Sound
    <3>3. Readings'
      BY <3>1 DEF IInv, Readings, Requests
    <3> QED BY <3>1, <3>2, <3>3, RowsSame DEF IInv
  <2> QED BY <2>5, <2>6
<1> QED
  BY <1>1, <1>2, PTL DEF Spec

(* Tokens stay between the deepest debt and a full bucket, the map within  *)
(* its limit, and a request at an exchanger has a domain and a host.       *)
THEOREM TypeCorrect == Spec => []TypeOK
<1>1. IInv => TypeOK
  BY DEF IInv, Sound, LimiterInv, Limits, BucketsOK, Typed, Row, Stages, RowInv, DomainByDomain, TypeOK
<1> QED
  BY <1>1, Inductive, PTL

(* Whatever the rates, and however requests interleave between their       *)
(* readings of the clock and the lock: no burst is beyond what a full      *)
(* bucket pays for, the refill of its span, and the refill, once more, of  *)
(* what overtaken readings set the bucket back by; and nobody is throttled *)
(* for longer than the deepest debt takes.                                 *)
THEOREM LimitIsFair == Spec => []FairLimit
<1>1. IInv => FairLimit
  <2> SUFFICES ASSUME IInv PROVE BurstBounded /\ ThrottleEnds
    BY DEF FairLimit
  <2>1. BurstBounded
    <3> SUFFICES ASSUME NEW s \in DOMAIN admitted, NEW log, log = admitted[s],
                        NEW i \in 1..Len(log), NEW j \in 1..Len(log), i <= j
                 PROVE  (j - i + 1) * COST_OK <=
                          CAPACITY + ((log[j].at - log[i].at) + (log[j].back - log[i].back)) * REFILL
      BY DEF BurstBounded
    <3>1. log \in Seq(Stamp) /\ Account(OwnTimes(log), charged[s], Worth(s), Own(clock[s]))
      BY DEF IInv, Sound, LimiterInv, Ledger, Books, Settled
    <3>2. Len(OwnTimes(log)) = Len(log) /\ \A k \in 1..Len(log) : OwnTimes(log)[k] = Own(log[k])
      <4>1. Len(log) \in Nat /\ DOMAIN OwnTimes(log) = 1..Len(log)
            /\ OwnTimes(log) \in Seq(0..Own(clock[s]))
        BY <3>1, LenProperties DEF OwnTimes, Account
      <4> QED BY <4>1, LenProperties DEF OwnTimes
    <3>3. Price(j - i + 1) <= CAPACITY + Pay(Own(log[j]) - Own(log[i]))
      <4>1. Burst(OwnTimes(log))
        BY <3>1 DEF Account
      <4> QED BY <3>2, <4>1 DEF Burst
    <3>4. log[i] \in Stamp /\ log[j] \in Stamp
      BY <3>1, ElementOfSeq
    <3>5. Own(log[j]) - Own(log[i]) = (log[j].at - log[i].at) + (log[j].back - log[i].back)
      BY <3>4, OwnNat DEF Own
    <3> QED BY <3>3, <3>5 DEF Price, Pay
  <2>2. ThrottleEnds
    BY DEF IInv, Sound, RowInv, Accounted, ThrottleEnds, Pay
  <2> QED BY <2>1, <2>2
<1> QED
  BY <1>1, Inductive, PTL

(* A domain has a message twice only after the loss of an answer.          *)
THEOREM NoIdleDuplicates == Spec => []TwiceOnlyAfterLoss
<1>1. IInv => TwiceOnlyAfterLoss
  BY DEF IInv, Sound, RowInv, Accounted, TwiceOnlyAfterLoss, Taken, Lossy
<1> QED
  BY <1>1, Inductive, PTL

(* What is stored was taken everywhere, what is answered "ok" is stored,   *)
(* and what all took unrecorded was cut off, or answered with a failed     *)
(* store or, of a reply, a thread that is gone.                            *)
THEOREM RecordIsTrue == Spec => []RecordTruthful
<1>1. IInv => RecordTruthful
  BY DEF IInv, Sound, RowInv, Accounted, RecordTruthful, Told, Taken, Lossy
<1> QED
  BY <1>1, Inductive, PTL
=============================================================================
