---------------------------- MODULE Permissions ----------------------------
(***************************************************************************)
(* What a credential may do: the flags of amk-types, the grants a key      *)
(* carries, and the policy of amk-core over them.  A key without a         *)
(* permissions object is granted every flag, a key with one only those it  *)
(* sets to true.                                                           *)
(***************************************************************************)
CONSTANTS Flags,          \* the permission flags, by wire name
          Restricted,     \* the restricted labels
          LabelReadFlag   \* restricted label -> the flag that unlocks it

ASSUME FlagsAssumption == LabelReadFlag \in [Restricted -> Flags]

Unrestricted == [restricted |-> FALSE, flags |-> {}]
Whitelist(F) == [restricted |-> TRUE, flags |-> F]

Grants == {Unrestricted} \cup {Whitelist(F) : F \in SUBSET Flags}

(* An unknown name is granted to nobody.                                   *)
Allows(grants, flag) ==
  flag \in (IF grants.restricted THEN grants.flags ELSE Flags)

(* Mutant of AllowsLabelRead: a whitelist that is silent about labels      *)
(* leaves them open.                                                       *)
AllowsLabelReadUnlessListed(grants, label) ==
  \/ label \in Restricted => Allows(grants, LabelReadFlag[label])
  \/ \A l \in Restricted : LabelReadFlag[l] \notin grants.flags

(* Half of the rule for restricted labels; Labels composes the whole.      *)
AllowsLabelRead(grants, label) ==
  label \in Restricted => Allows(grants, LabelReadFlag[label])

(* The flags a key is asked to pass on that it does not hold.              *)
Missing(parent, requested) ==
  {f \in Flags : Allows(requested, f) /\ ~Allows(parent, f)}

(* Mutant of DeriveChild: a key with a permissions object may mint one     *)
(* without as long as it holds every flag of today.                        *)
DeriveChildByFlags(parent, requested) ==
  IF Missing(parent, requested) # {} /\ requested.restricted
  THEN "permission_escalation" ELSE "ok"

(* What a child key may be given.  A restricted parent may not mint an     *)
(* unrestricted child, whatever it holds: the catalog may grow.            *)
DeriveChild(parent, requested) ==
  IF /\ parent.restricted
     /\ ~requested.restricted \/ Missing(parent, requested) # {}
  THEN "permission_escalation" ELSE "ok"

(* The order on grants that minting must never climb, now or when flags    *)
(* are added to the catalog.                                               *)
Within(child, parent) ==
  parent.restricted => child.restricted /\ child.flags \subseteq parent.flags
=============================================================================
