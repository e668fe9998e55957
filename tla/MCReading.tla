----------------------------- MODULE MCReading -----------------------------
EXTENDS Reading, TLC

CONSTANTS o, p1, p2, ia, ib, ic, nowhere,   \* organization, pods, inboxes, an id of none
          t1, t2, t3, m1, m2, m3, m4, bytes1, bytes2

(* One organization: pod p1 holds ia, with threads t1 and t2, and an empty *)
(* ic; pod p2 holds ib, with t3.  m2 is spam and joins t1; m3 is spam and  *)
(* opens t2.  m1, m3 and m4 tie.  m1 and m4 are the same bytes.            *)
MCPods    == {Place(o, p1, None), Place(o, p2, None)}
AtIa      == Place(o, p1, ia)
AtIb      == Place(o, p2, ib)
MCInboxes == {AtIa, AtIb, Place(o, p1, ic)}
MCHome     == (t1 :> AtIa) @@ (t2 :> AtIa) @@ (t3 :> AtIb)
MCThreadOf == (m1 :> t1) @@ (m2 :> t1) @@ (m3 :> t2) @@ (m4 :> t3)
MCArrives  == (m1 :> {"received"}) @@ (m2 :> {"received", "spam"})
              @@ (m3 :> {"received", "spam"}) @@ (m4 :> {"received"})
MCStamp    == (m1 :> 1) @@ (m2 :> 2) @@ (m3 :> 1) @@ (m4 :> 1)
MCOrder    == (t1 :> 2) @@ (t2 :> 1) @@ (t3 :> 3) @@ (m1 :> 2) @@ (m2 :> 1) @@ (m3 :> 3) @@ (m4 :> 4)
MCBlobOf   == (m1 :> bytes1) @@ (m2 :> bytes2) @@ (m3 :> bytes2) @@ (m4 :> bytes1)
MCReadFlag == ("spam" :> "label_spam_read")

AtOrg == Place(o, None, None)
AtP1  == Place(o, p1, None)
Reader == Whitelist({"message_read"})
SpamReader == Whitelist({"message_read", "label_spam_read"})
Nothing == Whitelist({})

Walk(op, scope, mount, then, grants, include, ascending, limit) ==
  [op |-> op, scope |-> scope, mount |-> mount, then |-> then, grants |-> grants,
   include |-> include, ascending |-> ascending, limit |-> limit,
   target |-> None, capitals |-> FALSE]

ById(op, scope, mount, grants, target, capitals) ==
  [op |-> op, scope |-> scope, mount |-> mount, then |-> mount, grants |-> grants,
   include |-> {}, ascending |-> FALSE, limit |-> 1,
   target |-> target, capitals |-> capitals]

Walks ==
  {Walk("list_threads", AtOrg, OrgMount, OrgMount, Unrestricted, {"spam"}, None, None),
   Walk("list_threads", AtP1, OrgMount, OrgMount, Reader, {"spam"}, TRUE, 1),
   Walk("list_threads", AtOrg, InboxMount(ia), OrgMount, SpamReader, {"spam"}, TRUE, 1),
   Walk("list_threads", AtIa, PodMount(p1), PodMount(p1), SpamReader, {}, FALSE, 1),
   Walk("list_threads", AtOrg, OrgMount, OrgMount, Unrestricted, {"spam"}, FALSE, 3),
   Walk("list_messages", AtP1, InboxMount(ia), InboxMount(ia), SpamReader, {"spam"}, FALSE, None),
   Walk("list_messages", AtOrg, InboxMount(ia), InboxMount(ic), Unrestricted, {"spam"}, TRUE, 1)}

Refusals ==
  {Walk("list_threads", AtP1, PodMount(p2), OrgMount, Nothing, {}, FALSE, 1),
   Walk("list_messages", AtP1, InboxMount(ib), OrgMount, Reader, {}, FALSE, 0),
   Walk("list_messages", AtP1, InboxMount(ia), OrgMount, Reader, {}, FALSE, 0),
   Walk("list_messages", AtOrg, InboxMount(nowhere), OrgMount, Nothing, {}, FALSE, 1),
   ById("get_thread", AtOrg, PodMount(nowhere), Nothing, t1, FALSE),
   ById("get_thread", AtP1, PodMount(p1), Reader, t3, FALSE),
   ById("get_message", AtIa, InboxMount(ia), Nothing, m1, FALSE),
   ById("raw", AtP1, InboxMount(ib), SpamReader, m4, FALSE)}

Lookups ==
  {ById("get_thread", AtP1, PodMount(p1), Reader, t1, FALSE),
   ById("get_thread", AtOrg, OrgMount, SpamReader, t2, FALSE),
   ById("get_message", AtIa, InboxMount(ia), Reader, m2, FALSE),
   ById("raw", AtP1, InboxMount(ia), Reader, m1, FALSE),
   ById("raw", AtP1, InboxMount(ia), Reader, m2, FALSE),
   ById("raw", AtP1, InboxMount(ia), Reader, m1, TRUE),
   ById("attachment", AtOrg, InboxMount(ib), SpamReader, m4, TRUE),
   ById("attachment", AtOrg, OrgMount, SpamReader, m2, FALSE),
   ById("attachment", AtP1, PodMount(p1), Reader, m1, FALSE)}

MCRequests == Walks \cup Refusals \cup Lookups

Editor(op, scope, mount, grants, target, add, remove) ==
  [op |-> op, scope |-> scope, mount |-> mount, grants |-> grants,
   target |-> target, add |-> add, remove |-> remove]

(* The writes around a read: labels of one message changed by two callers  *)
(* at once, mail marked or unmarked as spam, deletions, and writes that    *)
(* are refused at the gate, for a system label, and for the window.        *)
MCCrowds ==
  {{Editor("update", AtIa, InboxMount(ia), Unrestricted, m1, {"spam"}, {}),
    Editor("update", AtP1, InboxMount(ia), Unrestricted, m1, {"read"}, {"unread"})},
   {Editor("update", AtP1, PodMount(p1), Unrestricted, t2, {"read"}, {"spam"}),
    Editor("delete", AtP1, InboxMount(ia), Unrestricted, m2, {}, {})},
   {Editor("delete", AtOrg, OrgMount, Unrestricted, t1, {}, {}),
    Editor("update", AtP1, InboxMount(ib), Unrestricted, m4, {"spam"}, {})},
   {Editor("delete", AtOrg, InboxMount(ia), Unrestricted, m1, {}, {}),
    Editor("update", AtOrg, OrgMount, Unrestricted, t1, {"spam", "received"}, {}),
    Editor("delete", AtOrg, OrgMount, Reader, t2, {}, {})}}
=============================================================================
