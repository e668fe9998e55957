------------------------------- MODULE Scope -------------------------------
(***************************************************************************)
(* Where a credential may reach: scope resolution of amk-core and its      *)
(* combinators in amk-http.  Most collections are mounted three times: at  *)
(* the organization, under a pod, and under an inbox.  Resolving a scope   *)
(* at a mount intersects the two.  The result is a window: the coordinates *)
(* every query under it is pinned to; None leaves one open.                *)
(*                                                                         *)
(* Addresses are in their lowercased form here; resolve normalizes them.   *)
(***************************************************************************)
CONSTANT None

Place(org, pod, inbox) == [org |-> org, pod |-> pod, inbox |-> inbox]

OrgMount   == [kind |-> "organization", id |-> None]
PodMount(p)   == [kind |-> "pod", id |-> p]
InboxMount(i) == [kind |-> "inbox", id |-> i]

Mounted(mount) ==
  \/ mount = OrgMount
  \/ mount.id # None /\ mount \in {PodMount(mount.id), InboxMount(mount.id)}

(* A credential's identity names the ids its scope type calls for and no   *)
(* narrower one, and its scope_id names the scoped resource.               *)
Consistent(identity) ==
  /\ identity.type = "organization" =>
       /\ identity.pod = None /\ identity.inbox = None
       /\ identity.scope_id = identity.org
  /\ identity.type = "pod" =>
       /\ identity.pod # None /\ identity.inbox = None
       /\ identity.scope_id = identity.pod
  /\ identity.type = "inbox" =>
       /\ identity.pod # None /\ identity.inbox # None
       /\ identity.scope_id = identity.inbox

(* A scope is the window a credential carries.  An inconsistent identity   *)
(* is unusable: nothing was looked up yet, so the answer is 403.           *)
FromIdentity(identity) ==
  IF Consistent(identity)
  THEN [usable |-> TRUE, scope |-> Place(identity.org, identity.pod, identity.inbox)]
  ELSE [usable |-> FALSE, scope |-> Place(identity.org, None, None)]

(* The mount names a pod or an inbox the credential's own ids rule out.    *)
RuledOut(scope, mount) ==
  \/ mount.kind = "pod" /\ scope.pod \notin {None, mount.id}
  \/ mount.kind = "inbox" /\ scope.inbox \notin {None, mount.id}

(* The credential itself proves every resource the mount names.            *)
Proven(scope, mount) ==
  \/ mount.kind = "organization"
  \/ mount.kind = "pod" /\ mount.id = scope.pod
  \/ mount.kind = "inbox" /\ mount.id = scope.inbox

(* Mutant of Narrowed: under an inbox mount the credential's pod is let go.*)
NarrowedToMount(scope, mount) ==
  CASE mount.kind = "organization" -> scope
    [] mount.kind = "pod" -> [scope EXCEPT !.pod = mount.id]
    [] mount.kind = "inbox" -> Place(scope.org, None, mount.id)

(* The intersection of the credential's scope and the mount.               *)
Narrowed(scope, mount) ==
  CASE mount.kind = "organization" -> scope
    [] mount.kind = "pod" -> [scope EXCEPT !.pod = mount.id]
    [] mount.kind = "inbox" -> [scope EXCEPT !.inbox = mount.id]

Resolve(scope, mount) ==
  [verdict |-> IF RuledOut(scope, mount) THEN "denied"
               ELSE IF Proven(scope, mount) THEN "ready"
               ELSE "probe",
   window  |-> Narrowed(scope, mount)]

(* A coordinate a row does not know never matches a pinned one.            *)
Within1(pin, at) == pin = None \/ at = pin

WindowAdmits(window, place) ==
  /\ place.org = window.org
  /\ Within1(window.pod, place.pod)
  /\ Within1(window.inbox, place.inbox)

(* The row the store finds for the mount itself, looked up in the probe's  *)
(* window, discharges the probe.  Absent and out of reach are one answer.  *)
Settle(window, rows) ==
  IF \E place \in rows : WindowAdmits(window, place) THEN "ready" ELSE "denied"

(* Mutant of SettleMount: the probe is served without its lookup.          *)
SettleMountUnprobed(scope, mount, pods, inboxes) ==
  IF Resolve(scope, mount).verdict = "denied" THEN "denied" ELSE "ready"

(* settle_pod_mount and settle_inbox_mount, given the places of the pods   *)
(* and of the inboxes that exist.                                          *)
SettleMount(scope, mount, pods, inboxes) ==
  LET r == Resolve(scope, mount) IN
  IF r.verdict # "probe" THEN r.verdict
  ELSE Settle(r.window, {at \in IF mount.kind = "pod" THEN pods ELSE inboxes :
                           mount.id = IF mount.kind = "pod" THEN at.pod ELSE at.inbox})

(* The mount column an api-keys query pins: an inbox's keys carry no pod.  *)
KeyScopeFor(window) ==
  IF window.inbox # None THEN InboxMount(window.inbox)
  ELSE IF window.pod # None THEN PodMount(window.pod) ELSE OrgMount

(* The order on windows: everything in the first is in the second.         *)
Inside(inner, outer) ==
  /\ inner.org = outer.org
  /\ outer.pod \in {None, inner.pod}
  /\ outer.inbox \in {None, inner.inbox}
=============================================================================
