----------------------------- MODULE MCApiSend -----------------------------
EXTENDS ApiSend

CONSTANTS k1, ip,            \* a key's prefix, the address everyone calls from
          me, ann, bob, cal, \* addresses: the sending inbox, and others
          bare,              \* a recipient without a domain
          da, db,            \* domains
          ha1, ha2           \* exchangers of da; db has none

Nobody == [from |-> me, to |-> {}, cc |-> {}, readable |-> FALSE]

(* A request that is in order; the crowds change what is not.              *)
Send(key, n, to) ==
  [n |-> n, key |-> key, peer |-> ip, path |-> "/v0", credential |-> "good", body_ok |-> TRUE,
   op |-> "send", inbox |-> me, in_scope |-> TRUE, may |-> {"message_send", "message_read"},
   system_label |-> FALSE, conflict |-> FALSE, headers |-> {}, attachments |-> {"inline"},
   keyed |-> TRUE, to |-> to, parent |-> Nobody]

Wrong(key, n) == [Send(key, n, {ann}) EXCEPT !.credential = "wrong"]
Bare(n)       == [Send(None, n, {ann}) EXCEPT !.credential = "none"]
Bad(key, n)   == [Send(key, n, {ann}) EXCEPT !.body_ok = FALSE]
Ask(path)     == [Send(None, 1, {}) EXCEPT !.path = path]

Parent == [from |-> ann, to |-> {me, bob}, cc |-> {ann, me, cal}, readable |-> TRUE]
Answering(op, n, to) == [Send(k1, n, to) EXCEPT !.op = op, !.parent = Parent]

(* One key, failures of credentials and a cheap request; a burst beside    *)
(* another subject's; then time enough to be idle at a table for two, and  *)
(* a third subject at it.  Each with the time it takes.                    *)
Limited ==
  {<<{Wrong(k1, 1), Wrong(k1, 2), Bad(k1, 3)}, 3>>,
   <<{Bad(k1, 1), Bad(k1, 2), Bad(k1, 3), Bare(1)}, 1>>,
   <<{Bad(k1, 1), Bad(k1, 2), Bare(1)}, 5>>,
   <<{Bad(k1, 1), Bare(1), Ask("/ready")}, 4>>}

Probed == {{Wrong(None, 1), Bare(2), Ask("/metrics"), Ask("/health")}}

(* A client that sends again, with a new message id; parents and people.   *)
Sent ==
  {{Send(k1, 1, {ann, bob, cal}), Send(k1, 2, {ann, bob, cal})},
   {Answering("reply_all", 1, {}), Answering("reply", 2, {})},
   {Answering("reply", 1, {cal}), Answering("forward", 2, {bob}), Bare(1)}}

(* Each refused on a ground of its own; a message without its key is       *)
(* refused with a 403 and so surcharged.                                   *)
Refusals ==
  {{[Send(k1, 1, {ann}) EXCEPT !.in_scope = FALSE], [Send(k1, 2, {ann}) EXCEPT !.may = {}]},
   {[Send(k1, 1, {ann}) EXCEPT !.system_label = TRUE],
    [Send(k1, 2, {ann}) EXCEPT !.headers = {"bcc"}]},
   {[Send(k1, 1, {ann}) EXCEPT !.attachments = {"inline", "url"}],
    [Send(k1, 2, {ann}) EXCEPT !.keyed = FALSE], Send(k1, 3, {}), Send(k1, 4, {ann, bare})},
   {[Answering("reply", 1, {cal}) EXCEPT !.conflict = TRUE],
    [Answering("forward", 2, {cal}) EXCEPT !.in_scope = FALSE]},
   {[Answering("forward", 1, {cal}) EXCEPT !.may = {"message_send"}],
    [Answering("reply", 2, {}) EXCEPT !.parent = Nobody]}}

Start(mode, crowd, time, crashes) ==
  [mode |-> mode, crowd |-> crowd, max_time |-> time, max_restarts |-> crashes]

MCStarts ==
  {Start("direct_mx", limited[1], limited[2], 0) : limited \in Limited}
    \cup {Start("direct_mx", crowd, 1, 1) : crowd \in Probed \cup Sent \cup Refusals}
    \cup {Start("smarthost", {Send(k1, 1, {ann, bob}), Send(k1, 2, {bob})}, 0, 1)}

MCDomain == [a \in {me, ann, bob, cal} |-> IF a \in {ann, me} THEN da ELSE db]
MCNameOrder == [d \in {da, db} |-> IF d = da THEN 1 ELSE 2]
MCRecords == [d \in {da, db} |-> IF d = da THEN <<ha1, ha2>> ELSE <<>>]
=============================================================================
