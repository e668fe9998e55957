--------------------------- MODULE MCControlPlane ---------------------------
EXTENDS ControlPlane, TLC

CONSTANTS o1, o2, p1, p2, p3, n1, n2,    \* organizations, pods, pods to come
          ia, ib, ic,                    \* addresses; ic is free at the start
          root, boss, kp1, kia, mint2, other,  \* secrets of keys that exist
          s1, s2, s3, s4, s5, s6,        \* secrets yet to be drawn
          x1, seed, nowhere

(* Two organizations, each with its default pod.  o1 also has p1, with     *)
(* inbox ia, and p2, with ib.  root may all, boss may mint and read; mint2 *)
(* is pod p2's and may only mint and read inboxes.  s1 and s6 have root's  *)
(* prefix, s4 has other's, and s5 that of s2.                              *)
Boss   == Whitelist({"api_key_create", "api_key_read", "inbox_read"})
Minter == Whitelist({"api_key_create", "inbox_read"})
Key(org, pod, inbox, grants) == [org |-> org, pod |-> pod, inbox |-> inbox, grants |-> grants]
Box(org, pod) == [org |-> org, pod |-> pod, client |-> None, by |-> seed]

MCIds       == {o1, o2, p1, p2, p3, n1, n2}
MCAddresses == {ia, ib, ic}
MCSecrets   == {root, boss, kp1, kia, mint2, other, s1, s2, s3, s4, s5, s6}

MCPrefixOf == [s \in MCSecrets \cup {nowhere} |->
                 IF s \in {s1, s6} THEN root ELSE IF s = s4 THEN other ELSE IF s = s5 THEN s2 ELSE s]
MCOrder ==
  (o1 :> 1) @@ (o2 :> 2) @@ (p1 :> 3) @@ (p2 :> 4) @@ (p3 :> 5) @@ (n1 :> 6) @@ (n2 :> 7)
  @@ (ia :> 2) @@ (ib :> 3) @@ (ic :> 1)
  @@ (root :> 3) @@ (kp1 :> 2) @@ (kia :> 5) @@ (boss :> 4) @@ (mint2 :> 6) @@ (other :> 7)
  @@ (s1 :> 8) @@ (s2 :> 1) @@ (s3 :> 9) @@ (s4 :> 10) @@ (s5 :> 11) @@ (s6 :> 12)

MCPods ==
  (o1 :> [org |-> o1, client |-> None]) @@ (o2 :> [org |-> o2, client |-> None])
  @@ (p1 :> [org |-> o1, client |-> None]) @@ (p2 :> [org |-> o1, client |-> None])
  @@ (p3 :> [org |-> o1, client |-> None])
MCInboxes == (ia :> Box(o1, p1)) @@ (ib :> Box(o1, p2))
MCKeys ==
  (root :> Key(o1, None, None, Unrestricted)) @@ (boss :> Key(o1, None, None, Boss))
  @@ (kp1 :> Key(o1, p1, None, Unrestricted)) @@ (kia :> Key(o1, None, ia, Unrestricted))
  @@ (mint2 :> Key(o1, p2, None, Minter)) @@ (other :> Key(o2, None, None, Unrestricted))

Request(op, secret, mount, target) ==
  [op |-> op, secret |-> secret, mount |-> mount, then |-> mount, target |-> target,
   client |-> None, grants |-> Whitelist({}), draws |-> <<>>, id |-> None, valid |-> TRUE,
   named |-> TRUE]

Unstored(call) == [call EXCEPT !.valid = FALSE]
Nameless(call) == [call EXCEPT !.named = FALSE]

NewPod(secret, id, client) ==
  [Request("create_pod", secret, OrgMount, None) EXCEPT !.id = id, !.client = client]
NewInbox(secret, mount, address, client) ==
  [Request("create_inbox", secret, mount, address) EXCEPT !.client = client]
NewSecret(secret, mount, grants, draws) ==
  [Request("create_key", secret, mount, None) EXCEPT !.grants = grants, !.draws = draws]
InitCall(id, draws) ==
  [Request("init", None, OrgMount, None) EXCEPT !.id = id, !.draws = draws]
Walk(op, secret, mount, then) == [Request(op, secret, mount, None) EXCEPT !.then = then]

(* Creates that race for a client id or an address, with deletions.        *)
Creates ==
  {{NewInbox(root, PodMount(p1), ic, x1), NewInbox(kp1, OrgMount, ib, x1),
    Request("delete_inbox", root, OrgMount, ic)},
   {NewInbox(root, OrgMount, ic, None), NewInbox(kia, OrgMount, ic, None),
    Request("delete_pod", root, OrgMount, o1)},
   {NewInbox(root, OrgMount, ic, x1), NewInbox(kp1, OrgMount, ic, x1),
    Nameless(NewInbox(root, OrgMount, ib, None))},
   {NewPod(root, n1, x1), NewPod(kp1, n2, x1), Request("delete_pod", root, OrgMount, n1)},
   {NewInbox(root, PodMount(p3), ic, None), Request("delete_pod", root, OrgMount, p3),
    Request("get_pod", kp1, OrgMount, p3)},
   {NewInbox(other, OrgMount, ia, x1), NewInbox(other, PodMount(p1), ic, x1),
    NewInbox(root, OrgMount, ic, x1)}}

(* Keys: minted in a chain, against deletions, at mounts that settle and   *)
(* that do not, with prefixes that collide.                                *)
Mints ==
  {{NewSecret(boss, OrgMount, Minter, <<s2, s2>>), NewSecret(s2, PodMount(p1), Minter, <<s3, s3>>),
    NewSecret(s3, OrgMount, Whitelist({"inbox_read"}), <<s1, s4>>)},
   {NewSecret(mint2, OrgMount, Whitelist({"inbox_read"}), <<s2, s2>>),
    NewSecret(mint2, PodMount(p2), Unrestricted, <<s3, s3>>),
    Request("get_inbox", s2, OrgMount, ib)},
   {NewSecret(root, OrgMount, Unrestricted, <<s1, s2>>),
    NewSecret(boss, PodMount(p3), Minter, <<s5, s3>>), Request("delete_key", root, OrgMount, root)},
   {NewSecret(root, InboxMount(ia), Unrestricted, <<s3, s3>>),
    Request("delete_inbox", kp1, PodMount(p1), ia), Walk("list_keys", kia, OrgMount, OrgMount)},
   {NewSecret(root, PodMount(p3), Unrestricted, <<s3, s3>>),
    Request("delete_pod", root, OrgMount, p3), Request("delete_pod", s3, OrgMount, p3)}}

(* An address under a new owner, and the keys of the old one.              *)
Successions ==
  {{Request("delete_inbox", root, OrgMount, ia), NewInbox(root, PodMount(p2), ia, None),
    Request(op, kia, mount, IF op = "delete_key" THEN kia ELSE ia)} :
     op \in {"update_inbox", "delete_inbox"}, mount \in {OrgMount, PodMount(p1)}}
  \cup {{Request("delete_inbox", root, OrgMount, ia), NewInbox(root, PodMount(p2), ia, None),
         Request("delete_key", kp1, InboxMount(ia), kia)}}

(* Walks, with rows that come and go, and tokens taken to other mounts.    *)
MCWalks ==
  {{Walk("list_keys", root, OrgMount, OrgMount), Request("delete_key", root, OrgMount, kp1),
    NewSecret(boss, InboxMount(ib), Minter, <<s2, s2>>)},
   {Walk("list_inboxes", kp1, OrgMount, PodMount(p1)), NewInbox(root, PodMount(p1), ic, None),
    Walk("list_pods", kia, OrgMount, OrgMount)},
   {Walk("list_inboxes", root, OrgMount, PodMount(p1)), Walk("list_pods", root, OrgMount, OrgMount),
    Request("delete_pod", root, OrgMount, p3)},
   {Walk("list_keys", boss, OrgMount, PodMount(p1)), Walk("list_inboxes", kia, PodMount(p1), OrgMount),
    Walk("list_keys", kp1, InboxMount(ia), InboxMount(ia))}}

(* Calls that reach too far, or for something absent.                      *)
Refused ==
  {{Request("get_inbox", kia, PodMount(p1), ib), Request("delete_pod", kp1, OrgMount, p2),
    Request("update_inbox", kp1, PodMount(p2), ib)},
   {Request("get_inbox", mint2, OrgMount, ia), Request("delete_inbox", mint2, PodMount(p2), ib),
    Walk("list_keys", kp1, InboxMount(ib), OrgMount)},
   {Request("get_inbox", other, OrgMount, ia), Request("get_pod", root, OrgMount, p1),
    Request("delete_key", kp1, PodMount(p1), kia)},
   {NewInbox(kp1, OrgMount, ic, None), Request("update_inbox", kia, PodMount(p1), ic),
    Request("get_inbox", kia, OrgMount, ic)},
   {Unstored(Request("update_inbox", root, OrgMount, ia)),
    Unstored(Request("update_inbox", kia, OrgMount, ib)),
    Unstored(NewInbox(root, PodMount(p1), ic, None))},
   {NewSecret(nowhere, OrgMount, Boss, <<s2, s2>>), NewInbox(root, PodMount(nowhere), ic, None),
    Request("get_pod", other, OrgMount, p1)}}

(* Mints in windows that pin an inbox along with its pod.                  *)
Narrow ==
  {{NewSecret(kp1, InboxMount(ia), Unrestricted, <<s2, s2>>),
    NewSecret(kia, OrgMount, Unrestricted, <<s3, s3>>)}}

Running(crowd) ==
  [orgs |-> {o1, o2}, pods |-> MCPods, inboxes |-> MCInboxes, keys |-> MCKeys, calls |-> crowd]

Inits == {InitCall(n1, <<s1, s1>>), InitCall(n2, <<s6, s2>>), InitCall(o1, <<s3, s3>>)}

Fresh == [orgs |-> {}, pods |-> <<>>, inboxes |-> <<>>, keys |-> <<>>, calls |-> Inits]

Crowds == Creates \cup Mints \cup Successions \cup MCWalks \cup Refused \cup Narrow

(* The crowds above, and every two calls of them that draw apart.          *)
MCStarts ==
  LET Two == {{c, d} : c, d \in UNION Crowds}
      Apart(crowd) ==
        \A c, d \in crowd : c # d => Made(c) \cap Made(d) = {} /\ Drawn(c) \cap Drawn(d) = {}
  IN {Running(crowd) : crowd \in Crowds \cup {two \in Two : Apart(two)}} \cup {Fresh}

NoLabels == <<>>

MCNarrow == {Running(crowd) : crowd \in Narrow}
=============================================================================
