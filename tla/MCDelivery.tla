----------------------------- MODULE MCDelivery -----------------------------
(* Small instances of Delivery: the letters each run sends.                *)
EXTENDS Delivery, TLC

CONSTANTS i1, i2, m1, m2, m3, j1, j2, j3, w1, w2, w3

MCOwner == [i \in Inboxes |-> w1]

(* Two pods of one organization, and another organization's.               *)
MCOrg == (w1 :> "ours") @@ (w2 :> "ours") @@ (w3 :> "theirs")

(* The API's reply sorts between its parent and the inbound reply.         *)
MCRank == (m1 :> 3) @@ (m2 :> 1) @@ (m3 :> 2)
MCRank2 == (m1 :> 1) @@ (m2 :> 2)

Arrives(i, m, irt, refs) ==
  [kind |-> "ingest", inbox |-> i, mid |-> m, inReplyTo |-> irt, references |-> refs,
   wide |-> FALSE]

SendsOut(i, m, irt, wide) ==
  [kind |-> "send", inbox |-> i, mid |-> m, inReplyTo |-> irt, references |-> {},
   wide |-> wide]

(* A root, an inbound answer to it that also references the API's reply,   *)
(* and that reply, sent with an organization's credential.                 *)
MailReplies ==
  (j1 :> Arrives(i1, m1, {}, {}))
  @@ (j2 :> Arrives(i1, m2, {m1}, {m3}))
  @@ (j3 :> SendsOut(i1, m3, {m1}, TRUE))

(* A message sent by the API that comes back to its own inbox, and an      *)
(* answer to it that arrives at another inbox, which does not hold it.     *)
MailEcho ==
  (j1 :> SendsOut(i1, m1, {}, FALSE))
  @@ (j2 :> Arrives(i1, m1, {}, {}))
  @@ (j3 :> Arrives(i2, m2, {m1}, {}))

Symmetric == Permutations(ThreadIds)

(* Liveness allows no symmetry: the ids are drawn in one order instead,    *)
(* which nothing in the tables can tell.                                   *)
InOrder ==
  \A t \in used' \ used : t = CHOOSE u \in ThreadIds \ used : TRUE
=============================================================================
