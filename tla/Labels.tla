------------------------------- MODULE Labels -------------------------------
(***************************************************************************)
(* Label semantics of amk-core: which mail a caller may see and which      *)
(* labels it may change.  An item is hidden if it carries a restricted     *)
(* label the caller may not read, or, on the lists that have include_*     *)
(* parameters, one it did not ask for.                                     *)
(***************************************************************************)
EXTENDS Permissions, Naturals, FiniteSets

CONSTANT System   \* labels no client may add or remove

(* One access rule per kind of path.                                       *)
ListAccess(grants, include) == [grants |-> grants, asked |-> include \cap Restricted]
ByIdAccess(grants) == [grants |-> grants, asked |-> Restricted]

(* Why an item is withheld; a missing permission goes first.               *)
Admit(labels, access) ==
  IF \E l \in labels : ~AllowsLabelRead(access.grants, l) THEN "not_permitted"
  ELSE IF (labels \cap Restricted) \ access.asked # {} THEN "not_requested"
  ELSE "ok"

Admits(labels, access) == Admit(labels, access) = "ok"

(* Mutant of ExcludedLabels: asking for a label is enough to see it.       *)
ExcludedUnlessAsked(access) == Restricted \ access.asked

(* What a query pushes into its WHERE clause.                              *)
ExcludedLabels(access) == {l \in Restricted : ~Admits({l}, access)}

(***************************************************************************)
(* Redaction of one thread.  A body is the thread's own columns, item, and *)
(* its members; a member's key, timestamp and then id, is its place in     *)
(* their order.  item.last stands for last_message_id and for the preview  *)
(* and the timestamps that are written with it; item.subject and           *)
(* item.updated are the messages that gave the thread its subject and last *)
(* moved its updated_at.                                                   *)
(***************************************************************************)
Before(a, b) == a[1] < b[1] \/ (a[1] = b[1] /\ a[2] < b[2])

Shown(members, access) == {m \in members : Admits(m.labels, access)}

LastOf(members) ==
  CHOOSE m \in members : \A other \in members \ {m} : Before(other.key, m.key)

Recomputed(item, members) ==
  [item EXCEPT !.last = LastOf(members).id,
               !.stamp = LastOf(members).key[1],
               !.count = Cardinality(members)]

(* Mutant of RedactThread: members go, what was said of them stays.        *)
RedactMembersOnly(item, members, access) ==
  LET shown == Shown(members, access) IN
  [verdict |-> IF shown = {} /\ members # {} THEN "withheld" ELSE "shown",
   item |-> [item EXCEPT !.labels = {l \in @ : Admits({l}, access)}],
   members |-> shown]

(* Offending labels are stripped; hidden members are dropped and the       *)
(* aggregates recomputed, but for the subject and updated_at, which stay   *)
(* whoever they are from.  With nothing hidden the aggregates are left as  *)
(* they are.                                                               *)
RedactThread(item, members, access) ==
  LET shown == Shown(members, access)
      stripped == [item EXCEPT !.labels = {l \in @ : Admits({l}, access)}] IN
  IF shown = members
  THEN [verdict |-> "shown", item |-> stripped, members |-> members]
  ELSE IF shown = {}
  THEN [verdict |-> "withheld", item |-> stripped, members |-> {}]
  ELSE [verdict |-> "shown", item |-> Recomputed(stripped, shown), members |-> shown]

(***************************************************************************)
(* Mutation.                                                               *)
(***************************************************************************)
(* A system label anywhere in a PATCH refuses the whole of it.             *)
SystemLabelViolations(add, remove) == (add \cup remove) \cap System

(* Remove wins over add.                                                   *)
ApplyMutation(labels, add, remove) == (labels \cup add) \ remove
=============================================================================
