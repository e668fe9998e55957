---------------------------- MODULE AccessProofs ----------------------------
(***************************************************************************)
(* The two orders that access rests on, for any flags, ids and mounts: a   *)
(* key may mint only keys within its own grants, and a mount only narrows  *)
(* the window of a credential.  Both are transitive, so the end of a chain *)
(* of mints, or a row found in a narrowed window, is no wider than where   *)
(* the chain began.                                                        *)
(***************************************************************************)
EXTENDS Permissions, Scope, TLAPS

LEMMA GrantsFields ==
  ASSUME NEW g \in Grants
  PROVE  /\ g.restricted \in BOOLEAN
         /\ g.flags \in SUBSET Flags
<1>1. CASE g = Unrestricted
  BY <1>1 DEF Unrestricted
<1>2. CASE g # Unrestricted
  <2>1. PICK F \in SUBSET Flags : g = Whitelist(F)
    BY <1>2 DEF Grants
  <2> QED BY <2>1 DEF Whitelist
<1> QED BY <1>1, <1>2

(* What derive_child lets through is within the parent: no flag that the   *)
(* parent lacks, and no unrestricted child of a restricted parent          *)
(* (permissions.rs, derive_child).                                         *)
THEOREM ChildWithinParent ==
  ASSUME NEW parent \in Grants, NEW requested \in Grants,
         DeriveChild(parent, requested) = "ok"
  PROVE  Within(requested, parent)
<1>1. SUFFICES ASSUME parent.restricted
               PROVE  requested.restricted /\ requested.flags \subseteq parent.flags
  BY DEF Within
<1>2. ~(~requested.restricted \/ Missing(parent, requested) # {})
  BY <1>1 DEF DeriveChild
<1>3. requested.restricted /\ requested.flags \subseteq Flags
  BY <1>2, GrantsFields
<1>4. ASSUME NEW f \in requested.flags
      PROVE  f \in parent.flags
  <2>1. f \in Flags /\ Allows(requested, f)
    BY <1>3 DEF Allows
  <2>2. f \notin Missing(parent, requested)
    BY <1>2
  <2> QED BY <1>1, <2>1, <2>2 DEF Missing, Allows
<1> QED BY <1>3, <1>4

(* Whatever flag a key within another may use, the other may use as well;  *)
(* also with a catalog of flags that has grown since (Catalog).            *)
THEOREM WithinAllowsNoMore ==
  ASSUME NEW child \in Grants, NEW parent \in Grants, Within(child, parent),
         NEW Catalog, Flags \subseteq Catalog,
         NEW flag \in IF child.restricted THEN child.flags ELSE Catalog
  PROVE  flag \in IF parent.restricted THEN parent.flags ELSE Catalog
  BY GrantsFields DEF Within

(* A chain of mints is as good as one.                                     *)
THEOREM WithinIsTransitive ==
  ASSUME NEW a \in Grants, NEW b \in Grants, NEW c \in Grants,
         Within(a, b), Within(b, c)
  PROVE  Within(a, c)
  BY DEF Within

(* At a mount that is not ruled out, the window lies inside the scope of   *)
(* the credential, and names the mount's own id (scope.rs, resolve).       *)
THEOREM MountOnlyNarrows ==
  ASSUME NEW org, NEW pod, NEW inbox, NEW id,
         NEW mount \in {OrgMount, PodMount(id), InboxMount(id)},
         ~RuledOut(Place(org, pod, inbox), mount)
  PROVE  LET window == Narrowed(Place(org, pod, inbox), mount) IN
         /\ Inside(window, Place(org, pod, inbox))
         /\ mount.kind = "pod" => window.pod = mount.id
         /\ mount.kind = "inbox" => window.inbox = mount.id
<1>1. CASE mount = OrgMount
  BY <1>1 DEF Narrowed, Inside, Place, OrgMount
<1>2. CASE mount = PodMount(id)
  BY <1>2 DEF Narrowed, Inside, Place, PodMount, RuledOut
<1>3. CASE mount = InboxMount(id)
  BY <1>3 DEF Narrowed, Inside, Place, InboxMount, RuledOut
<1> QED BY <1>1, <1>2, <1>3

(* A row that a window admits lies in every window around it: filtering a  *)
(* query by the narrowed window is enough (scope.rs, ScopeFilter::admits). *)
THEOREM AdmittedIsInside ==
  ASSUME NEW window, NEW outer, NEW place,
         Inside(window, outer), WindowAdmits(window, place)
  PROVE  Inside(place, outer) /\ WindowAdmits(outer, place)
  BY DEF Inside, WindowAdmits, Within1

(* A settled mount was not ruled out, and a row or the credential itself   *)
(* proves that it exists where the window can see it (scope_ext.rs).       *)
THEOREM SettledIsProven ==
  ASSUME NEW scope, NEW mount, NEW pods, NEW inboxes,
         SettleMount(scope, mount, pods, inboxes) = "ready"
  PROVE  /\ ~RuledOut(scope, mount)
         /\ \/ Proven(scope, mount)
            \/ \E place \in pods \cup inboxes : WindowAdmits(Narrowed(scope, mount), place)
<1>1. ~RuledOut(scope, mount)
  <2>1. SUFFICES ASSUME RuledOut(scope, mount)
                 PROVE  FALSE
    OBVIOUS
  <2>2. Resolve(scope, mount).verdict = "denied"
    BY <2>1 DEF Resolve, RuledOut, Proven
  <2>3. SettleMount(scope, mount, pods, inboxes) = "denied"
    BY <2>2 DEF SettleMount
  <2> QED BY <2>3
<1>2. CASE Proven(scope, mount)
  BY <1>1, <1>2
<1>3. CASE ~Proven(scope, mount)
  <2>1. Resolve(scope, mount).verdict = "probe"
    BY <1>1, <1>3 DEF Resolve
  <2>2. Resolve(scope, mount).window = Narrowed(scope, mount)
    BY DEF Resolve
  <2> QED BY <1>1, <2>1, <2>2 DEF SettleMount, Settle
<1> QED BY <1>2, <1>3
=============================================================================
