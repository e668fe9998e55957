------------------------------ MODULE Mailbox ------------------------------
(***************************************************************************)
(* What a mailbox promises, with none of the machinery: no jobs, no index, *)
(* no statements, no failures.  A message is posted in one step, under an  *)
(* id its inbox does not hold, into a thread that belongs to that inbox,   *)
(* and stays in that thread until it is removed.  A thread id is never     *)
(* used for a second thread.  A sender is answered for a message only when *)
(* the mailbox has stored it.                                              *)
(***************************************************************************)
CONSTANTS Inboxes, Mids, ThreadIds

VARIABLES home,      \* thread -> the inbox it belongs to
          held,      \* <<inbox, message id>> -> the thread the message is in
          used,      \* thread ids ever used
          posted,    \* keys ever posted
          answered   \* keys some sender was told the mailbox has

vars == <<home, held, used, posted, answered>>

Init ==
  /\ home = [t \in {} |-> t]
  /\ held = [k \in {} |-> k]
  /\ used = {} /\ posted = {} /\ answered = {}

Extended(f, x, y) == [z \in DOMAIN f \cup {x} |-> IF z = x THEN y ELSE f[z]]

Open(t, i) ==
  /\ t \notin used
  /\ home' = Extended(home, t, i)
  /\ used' = used \cup {t}
  /\ UNCHANGED <<held, posted, answered>>

(* A message that needs no further step is answered as it is posted.       *)
Post(i, m, t) ==
  /\ <<i, m>> \notin DOMAIN held
  /\ t \in DOMAIN home /\ home[t] = i
  /\ held' = Extended(held, <<i, m>>, t)
  /\ posted' = posted \cup {<<i, m>>}
  /\ answered' \in {answered, answered \cup {<<i, m>>}}
  /\ UNCHANGED <<home, used>>

Answer(i, m) ==
  /\ <<i, m>> \in posted
  /\ answered' = answered \cup {<<i, m>>}
  /\ UNCHANGED <<home, held, used, posted>>

(* Messages and whole threads go; a thread takes its messages with it.     *)
Remove(K, T) ==
  /\ \A k \in DOMAIN held : held[k] \in T => k \in K
  /\ held' = [k \in DOMAIN held \ K |-> held[k]]
  /\ home' = [t \in DOMAIN home \ T |-> home[t]]
  /\ UNCHANGED <<used, posted, answered>>

Next ==
  \/ \E t \in ThreadIds, i \in Inboxes : Open(t, i)
  \/ \E i \in Inboxes, m \in Mids, t \in ThreadIds : Post(i, m, t)
  \/ \E i \in Inboxes, m \in Mids : Answer(i, m)
  \/ \E K \in SUBSET DOMAIN held, T \in SUBSET DOMAIN home : Remove(K, T)

Spec == Init /\ [][Next]_vars
=============================================================================
