------------------------------ MODULE ApiSend ------------------------------
(***************************************************************************)
(* A request through the api role, from the limiter to the answer, for the *)
(* one handler that acts on the outside world: sending mail.  The limiter  *)
(* checks, the credential is looked up, the handler assembles and signs    *)
(* the message, hands it to the recipients' mail exchangers domain by      *)
(* domain, and only then stores it; the limiter looks at the status that   *)
(* comes of it.  Other requests run in between, the client may hang up,    *)
(* which drops the request where it waits, and the process may restart.    *)
(* Threads run in parallel: one may read the clock and be overtaken on its *)
(* way to the limiter's lock.                                              *)
(*                                                                         *)
(* Where the message is stored is Delivery's matter: here it is or is not. *)
(***************************************************************************)
EXTENDS RateLimiter, Sequences

CONSTANTS
  Starts,        \* starts: a mode, a set of requests, and the bounds
  Domain,        \* address -> its domain, of those that have one
  NameOrder,     \* domain -> its place in the order of the names
  Exchangers,
  mx_records,    \* domain -> its exchangers, by preference; <<>> for none
  ReservedHeaders,  \* header names a caller may not set
  None              \* no key presented; no hop under way

VARIABLES
  setup,      \* the transport, and the bounds on time and restarts
  job,        \* request -> its progress
  copies,     \* <<request, hop>> -> how often the message was taken there
  stored,     \* requests whose message is in the database
  losses,     \* <<request, hop>> -> takings whose answer was lost
  clock,      \* subject -> where its bucket stands, and how far it was set back
  admitted,   \* subject -> where it stood at each charged admission
  charged,    \* subject -> when, in its own time, it was last charged
  restarts

wire    == <<copies, stored, losses>>
limiter == <<now, buckets>>
ledger  == <<clock, admitted, charged>>
watch   == <<ledger, restarts>>
vars    == <<setup, limiter, job, wire, watch>>

Requests == DOMAIN job

(***************************************************************************)
(* Codes and statuses.                                                     *)
(***************************************************************************)
status(code) ==
  CASE code \in {"missing_authorization", "unauthorized"} -> 401
    [] code \in {"forbidden", "missing_permission", "message_rejected"} -> 403
    [] code = "validation_error" -> 400
    [] code = "not_found" -> 404
    [] code = "rate_limit_exceeded" -> 429
    [] code = "service_unavailable" -> 503
    [] code = "internal_error" -> 500
    [] code = "ok" -> 200

Answer(r, code) ==
  job' = [job EXCEPT ![r].at = "answering", ![r].code = code]

(* What the outbound crate refuses, as the API tells it: a domain without  *)
(* a key and mail that nobody took are both the message's fault.           *)
outbound_to_app(error) ==
  CASE error = "ok"                                -> "ok"
    [] error \in {"forbidden_header", "assembly"} -> "validation_error"
    [] error \in {"no_signing_key", "delivery"}   -> "message_rejected"

(***************************************************************************)
(* trace_requests: before the handler, and after it.                       *)
(***************************************************************************)
exempt(r) == r.path = "/health"

(* Whose bucket: the probes of an address apart from its other requests,   *)
(* and a presented key's prefix, valid or not, before the address.         *)
derive(r) ==
  CASE r.path # "/v0"                   -> <<"Probe", r.peer>>
    [] r.path = "/v0" /\ r.key # None -> <<"Key", r.key>>
    [] OTHER                            -> <<"Ip", r.peer>>

Push(log, s, t) == [q \in DOMAIN log \cup {s} |->
                      IF q # s THEN log[q] ELSE IF s \in DOMAIN log THEN Append(log[s], t) ELSE <<t>>]

(* What the limiter is held to is told in the subject's own time.  Its     *)
(* bucket stands at an instant, that of a reading, and `back` sums what    *)
(* older readings have set it back by: that much is refilled once more.    *)
(* Where a bucket is dropped, it stands at the reading that dropped it.    *)
Own(c) == c.at + c.back

Standing(s, at) ==
  IF s \in DOMAIN buckets \ DOMAIN Evicted(at) THEN [clock[s] EXCEPT !.at = at] ELSE clock[s]

SetTo(c, at) == [at |-> at, back |-> c.back + Greatest(0, c.at - at)]

Stands(s, at) ==
  IF s \in DOMAIN clock THEN SetTo(Standing(s, at), at) ELSE [at |-> at, back |-> 0]

(* The surcharge of an answer, or the ordinary cost for none.              *)
Extra(r) == cost_for_status(status(job[r].code))

(* Before the lock: another request may pass it between.                   *)
ReadClock(r) ==
  /\ \/ /\ job[r].at = "start" /\ ~exempt(r)
        /\ job' = [job EXCEPT ![r].at = "checking", ![r].read = now]
     \/ /\ job[r].at = "answering" /\ Extra(r) > COST_OK
        /\ job' = [job EXCEPT ![r].at = "charging", ![r].read = now]
  /\ UNCHANGED <<limiter, wire, watch>>

(* A refusal returns at once, without a surcharge.                         *)
Arrive(r) ==
  LET s       == derive(r)
      at      == job[r].read
      verdict == Verdict(s, COST_OK, at)
  IN
  /\ job[r].at = "checking"
  /\ check(s, COST_OK, at)
  /\ \/ /\ verdict = "open"
        /\ clock' = [q \in DOMAIN clock |-> Standing(q, at)]
        /\ job' = [job EXCEPT ![r].at = "routed", ![r].read = 0]
        /\ UNCHANGED <<admitted, charged>>
     \/ /\ verdict # "open"
        /\ clock' = [q \in DOMAIN clock \cup {s} |->
                       IF q = s THEN Stands(s, at) ELSE Standing(q, at)]
        /\ \/ /\ verdict = "throttled"
              /\ job' = [job EXCEPT ![r].at = "done", ![r].code = "rate_limit_exceeded",
                                    ![r].read = 0, ![r].waited = Own(clock'[s]) - charged[s]]
              /\ UNCHANGED <<admitted, charged>>
           \/ /\ verdict = "admitted"
              /\ job' = [job EXCEPT ![r].at = "routed", ![r].read = 0]
              /\ admitted' = Push(admitted, s, clock'[s])
              /\ charged' = [q \in DOMAIN charged \cup {s} |->
                               IF q = s THEN Own(clock'[s]) ELSE charged[q]]
  /\ UNCHANGED <<wire, restarts>>

ArriveExempt(r) ==
  /\ job[r].at = "start" /\ exempt(r)
  /\ job' = [job EXCEPT ![r].at = "routed"]
  /\ UNCHANGED <<limiter, wire, watch>>

(* The surcharge of a 401 or a 403, whoever sent it; nothing else costs.   *)
Surcharge(r) ==
  LET s  == derive(r)
      at == job[r].read
  IN
  /\ job' = [job EXCEPT ![r].at = "done", ![r].read = 0]
  /\ \/ /\ job[r].at = "answering" /\ Extra(r) <= COST_OK
        /\ UNCHANGED <<limiter, clock, charged>>
     \/ /\ job[r].at = "charging"
        /\ penalise(s, Extra(r), at)
        /\ IF s \in DOMAIN buckets
           THEN /\ clock' = [clock EXCEPT ![s] = SetTo(@, at)]
                /\ charged' = [charged EXCEPT ![s] = Own(clock'[s])]
           ELSE UNCHANGED <<clock, charged>>
  /\ UNCHANGED <<wire, admitted, restarts>>

(***************************************************************************)
(* The handlers.                                                           *)
(***************************************************************************)
(* Liveness, readiness and metrics need no credential; only readiness asks *)
(* the database.                                                           *)
Probe(r) ==
  /\ job[r].at = "routed" /\ r.path # "/v0"
  /\ \/ Answer(r, "ok")
     \/ r.path = "/ready" /\ Answer(r, "service_unavailable")
  /\ UNCHANGED <<limiter, wire, watch>>

(* The extractors, in the order of the handler's parameters.               *)
Extracted(r) ==
  IF r.credential = "none" THEN "unauthorized"
  ELSE IF r.credential = "wrong" THEN "forbidden"
  ELSE IF ~r.body_ok THEN "validation_error"
  ELSE "ok"

(* A reply-all goes to the parent's people, less the inbox itself, each    *)
(* once: a name in both lists stays in the first.                          *)
ReplyAllTo(parent, me) == ({parent.from} \cup parent.to) \ {me}
ReplyAllCc(parent, me) == parent.cc \ (ReplyAllTo(parent, me) \cup {me})

(* to, cc and bcc together: the envelope.                                  *)
Recipients(r) ==
  CASE r.op \in {"send", "forward"} -> r.to
    [] r.op = "reply_all" -> ReplyAllTo(r.parent, r.inbox) \cup ReplyAllCc(r.parent, r.inbox)
    [] r.op = "reply" -> IF r.to # {} THEN r.to ELSE {r.parent.from}

(* An attachment comes inline, from one source, below the cap.             *)
AttachmentOk(attachment) == attachment = "inline"

check_headers(r) ==
  IF r.headers \cap ReservedHeaders = {} THEN "ok" ELSE "forbidden_header"

sign(r) == IF r.keyed THEN "ok" ELSE "no_signing_key"

(* Nothing is assembled before the caller's headers are looked at, and     *)
(* nothing leaves unsigned.                                                *)
build_signed(r) ==
  IF check_headers(r) # "ok" THEN check_headers(r)
  ELSE IF Recipients(r) = {} \/ \E a \in r.attachments : ~AttachmentOk(a) THEN "assembly"
  ELSE sign(r)

(* A reply or a forward reads its parent first.                            *)
load_parent(r) ==
  IF r.op = "send" THEN "ok"
  ELSE IF ~r.in_scope THEN "not_found"
  ELSE IF "message_read" \notin r.may THEN "missing_permission"
  ELSE IF ~r.parent.readable THEN "not_found"
  ELSE IF r.op = "reply" /\ r.conflict THEN "validation_error" ELSE "ok"

(* The mount, the permission, the labels, then the message.                *)
send_prepared(r) ==
  IF ~r.in_scope THEN "not_found"
  ELSE IF "message_send" \notin r.may THEN "missing_permission"
  ELSE IF r.system_label THEN "validation_error"
  ELSE outbound_to_app(build_signed(r))

by_domain(r) == {Domain[a] : a \in Recipients(r) \cap DOMAIN Domain}

(* A smarthost takes the whole envelope in one transaction.                *)
Hops(r) == IF setup.mode = "smarthost" THEN {"smarthost"} ELSE by_domain(r)

(* An address without a domain stops a direct delivery before it begins.   *)
addressed(r) ==
  IF setup.mode = "direct_mx" /\ ~(Recipients(r) \subseteq DOMAIN Domain)
  THEN outbound_to_app("delivery") ELSE "ok"

(* Up to the first transaction: a refusal, the first one that applies, or  *)
(* a store that fails on the way, asked for the credential first of all.   *)
Prepare(r) ==
  LET code == IF Extracted(r) # "ok" THEN Extracted(r)
              ELSE IF load_parent(r) # "ok" THEN load_parent(r)
              ELSE IF send_prepared(r) # "ok" THEN send_prepared(r)
              ELSE addressed(r)
  IN
  /\ job[r].at = "routed" /\ r.path = "/v0"
  /\ \/ code # "ok" /\ Answer(r, code)
     \/ code = "ok" /\ job' = [job EXCEPT ![r].at = "hop", ![r].left = Hops(r)]
     \/ r.credential # "none" /\ Answer(r, "internal_error")
  /\ UNCHANGED <<limiter, wire, watch>>

(***************************************************************************)
(* deliver_direct_mx: one transaction per recipient domain, in the order   *)
(* of their names.                                                         *)
(***************************************************************************)
(* A lookup that fails, or finds nothing, leaves the domain itself.        *)
mx_hosts(hop) ==
  IF setup.mode = "smarthost" THEN {<<hop>>}
  ELSE {<<hop>>} \cup IF mx_records[hop] = <<>> THEN {} ELSE {mx_records[hop]}

(* A BTreeMap hands its keys out in their order.                           *)
First(hop, left) == hop \in left /\ \A other \in left \ {hop} : NameOrder[hop] < NameOrder[other]

(* The next domain, or the end of them.                                    *)
NextHop(r) ==
  /\ job[r].at = "hop"
  /\ \/ \E hop \in job[r].left : \E hosts \in mx_hosts(hop) :
          /\ First(hop, job[r].left)
          /\ job' = [job EXCEPT ![r].at = "host", ![r].hop = hop, ![r].hosts = hosts,
                                ![r].left = @ \ {hop}]
     \/ /\ job[r].left = {}
        /\ job' = [job EXCEPT ![r].at = "delivered"]
  /\ UNCHANGED <<limiter, wire, watch>>

Took(r) == copies' = [copies EXCEPT ![<<r, job[r].hop>>] = @ + 1]

Lost(r) == losses' = [losses EXCEPT ![<<r, job[r].hop>>] = @ + 1]

(* Mutant of AfterSuccess: the loop over the hosts is not left.            *)
AfterSuccessNextHost(r) ==
  IF Len(job[r].hosts) > 1 THEN [job[r] EXCEPT !.hosts = Tail(@)]
  ELSE [job[r] EXCEPT !.at = "hop"]

AfterSuccess(r) == [job[r] EXCEPT !.at = "hop"]

(* Mutant of AfterFailure: a domain that takes nothing is passed over.     *)
AfterFailurePassOver(r) ==
  IF Len(job[r].hosts) > 1 THEN [job[r] EXCEPT !.hosts = Tail(@)]
  ELSE [job[r] EXCEPT !.at = "hop"]

(* The next host; after the last, the whole send fails, whatever the       *)
(* domains before it have taken.                                           *)
AfterFailure(r) ==
  IF Len(job[r].hosts) > 1 THEN [job[r] EXCEPT !.hosts = Tail(@)]
  ELSE [job[r] EXCEPT !.at = "answering", !.code = outbound_to_app("delivery")]

(* One transaction: the host refuses or is out of reach, or it takes the   *)
(* message, and its answer comes or does not within 30 seconds.            *)
deliver_to_host(r) ==
  /\ job[r].at = "host"
  /\ \/ /\ job' = [job EXCEPT ![r] = AfterFailure(r)]
        /\ UNCHANGED <<copies, losses>>
     \/ /\ job' = [job EXCEPT ![r] = AfterSuccess(r)]
        /\ Took(r) /\ UNCHANGED losses
     \/ /\ job' = [job EXCEPT ![r] = AfterFailure(r)]
        /\ Took(r) /\ Lost(r)
  /\ UNCHANGED <<limiter, stored, watch>>

(* The statements after the delivery: any of them may fail, the row        *)
(* already there or not.  Of a reply, the thread it joins may be deleted   *)
(* before it is counted there: that takes the row just stored, and the     *)
(* answer is that there is no such thread.                                 *)
persist_sent(r) ==
  /\ job[r].at = "delivered"
  /\ \/ stored' = stored \cup {r} /\ Answer(r, "ok")
     \/ stored' = stored \cup {r} /\ Answer(r, "internal_error")
     \/ stored' = stored /\ Answer(r, "internal_error")
     \/ stored' = stored /\ r.op \in {"reply", "reply_all"} /\ Answer(r, "not_found")
  /\ UNCHANGED <<limiter, copies, losses, watch>>

(***************************************************************************)
(* What ends a request from outside.                                       *)
(***************************************************************************)
Waiting == {"routed", "hop", "host", "delivered"}
Running == {"checking", "answering", "charging"}

(* The client is gone and the request with it, where it waits: no answer,  *)
(* no surcharge.  A transaction under way may have been taken, a row under *)
(* way stored.                                                             *)
Hangup(r) ==
  /\ job[r].at \in Waiting
  /\ job' = [job EXCEPT ![r].at = "gone"]
  /\ \/ UNCHANGED wire
     \/ /\ job[r].at = "host"
        /\ Took(r) /\ Lost(r) /\ UNCHANGED stored
     \/ /\ job[r].at = "delivered"
        /\ stored' = stored \cup {r} /\ UNCHANGED <<copies, losses>>
  /\ UNCHANGED <<limiter, watch>>

(* Every request that has come in ends; one that had a transaction under   *)
(* way may have been hung up first.  The limiter is in memory only.        *)
Restart ==
  /\ restarts < setup.max_restarts
  /\ restarts' = restarts + 1
  /\ buckets' = <<>> /\ clock' = <<>> /\ admitted' = <<>> /\ charged' = <<>>
  /\ job' = [r \in Requests |->
       IF job[r].at \in Waiting \cup Running THEN [job[r] EXCEPT !.at = "gone"] ELSE job[r]]
  /\ UNCHANGED <<now, wire>>

Pass ==
  /\ now < setup.max_time /\ Tick
  /\ UNCHANGED <<job, wire, watch>>

Fresh == [at |-> "start", code |-> "none", left |-> {}, hop |-> None, hosts |-> <<>>,
          read |-> 0, waited |-> 0]

Domains  == {Domain[a] : a \in DOMAIN Domain}
HopNames == Domains \cup {"smarthost"}

ASSUME WireAssumption ==
  mx_records \in [Domains -> Seq(Exchangers)] /\ NameOrder \in [Domains -> Nat]

Init ==
  \E start \in Starts :
    /\ setup = [mode |-> start.mode, max_time |-> start.max_time,
                 max_restarts |-> start.max_restarts]
    /\ now = 0 /\ buckets = <<>>
    /\ job = [r \in start.crowd |-> Fresh]
    /\ copies = [at \in start.crowd \X HopNames |-> 0] /\ losses = copies
    /\ stored = {} /\ clock = <<>> /\ admitted = <<>> /\ charged = <<>> /\ restarts = 0

Serve(r) ==
  \/ ReadClock(r) \/ Arrive(r) \/ ArriveExempt(r) \/ Probe(r) \/ Prepare(r)
  \/ NextHop(r) \/ deliver_to_host(r) \/ persist_sent(r) \/ Surcharge(r)

Next ==
  /\ \/ \E r \in Requests : Serve(r) \/ Hangup(r)
     \/ Restart \/ Pass
  /\ UNCHANGED setup

Spec == Init /\ [][Next]_vars

(***************************************************************************)
(* Properties.                                                             *)
(***************************************************************************)
(* The limiter's bounds (ratelimit.rs: "Debt is floored at -capacity"),    *)
(* and the places a request can be in.                                     *)
TypeOK ==
  /\ BucketsOK
  /\ \A r \in Requests :
       /\ job[r].at \in {"start", "done", "gone"} \cup Waiting \cup Running
       /\ job[r].at = "host" => job[r].hosts # <<>> /\ job[r].hop \in Hops(r) \ job[r].left
  /\ stored \subseteq Requests

(* However requests and surcharges interleave, and whatever buckets are    *)
(* dropped for others, the requests one subject is charged for in any span *)
(* are no more than a full bucket and the refill pay for: the refill of    *)
(* the time between the readings of the first and the last, and, over      *)
(* again, of what readings overtaken at the lock have set the bucket back  *)
(* by in between (`bucket.last = now` in check_at and penalise_at).        *)
BurstBounded ==
  \A s \in DOMAIN admitted :
    LET log == admitted[s]
        Span(i, j)  == log[j].at - log[i].at
        Again(i, j) == log[j].back - log[i].back
    IN
    \A i, j \in 1..Len(log) :
      i <= j => (j - i + 1) * COST_OK <= CAPACITY + (Span(i, j) + Again(i, j)) * REFILL

(* A subject is throttled only within the time that the deepest debt takes *)
(* to be repaid since it was last charged: hammering does not prolong it   *)
(* ("NOT decremented on rejection ... a permanent lockout").  The time is  *)
(* the subject's own, which passes no slower than the clock.               *)
ThrottleEnds ==
  \A r \in Requests :
    job[r].code = "rate_limit_exceeded" => job[r].waited * REFILL < CAPACITY + COST_OK

FairLimit == BurstBounded /\ ThrottleEnds

(* A domain gets one message twice only if an exchanger took it and its    *)
(* answer was lost; and only in a request that was admitted at all.        *)
TwiceOnlyAfterLoss ==
  \A r \in Requests, hop \in HopNames :
    /\ copies[r, hop] <= 1 + losses[r, hop]
    /\ copies[r, hop] > 0 => job[r].code \notin {"rate_limit_exceeded", "unauthorized", "forbidden"}

(* A message is stored only when every domain of its recipients has taken  *)
(* it, and a send is answered "ok" only when it is stored.  One that all   *)
(* have taken, each answering, is stored unless the request is cut off or  *)
(* an answer tells of it: 500 of a store that failed, or of a reply the    *)
(* 404 of a thread deleted meanwhile ("the mail is already delivered").    *)
RecordTruthful ==
  \A r \in Requests :
    /\ r \in stored => \A hop \in Hops(r) : copies[r, hop] > 0
    /\ r.path = "/v0" /\ job[r].code = "ok" => r \in stored
    /\ /\ job[r].at = "done" /\ r \notin stored /\ Hops(r) # {}
       /\ \A hop \in Hops(r) : copies[r, hop] > losses[r, hop]
       => \/ job[r].code = "internal_error"
          \/ job[r].code = "not_found" /\ r.op \in {"reply", "reply_all"}
=============================================================================
