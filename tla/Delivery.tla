------------------------------ MODULE Delivery ------------------------------
(***************************************************************************)
(* The two pipelines that put messages into an inbox, run by any number of *)
(* concurrent jobs over the shared tables:                                 *)
(*                                                                         *)
(*   ingest  amk-ingest accept(): a letter delivered by SMTP to one        *)
(*           recipient.  Duplicate check, one lookup per linkage header    *)
(*           value, thread assignment, then up to three separate writes:   *)
(*           open a thread, store the message, count it in its thread.     *)
(*   send    amk-http send_prepared(): the API's send, reply, reply-all    *)
(*           and forward.  The letter leaves for its recipients first;     *)
(*           then the same writes record it, after a single list of the    *)
(*           inbox has served as the index.                                *)
(*                                                                         *)
(* No transaction spans two of these steps.  Between any two of them other *)
(* jobs run, users delete what the job has just read, the statement may    *)
(* fail, its acknowledgement may be lost after it took effect, and the job *)
(* itself may be dropped (process crash, SMTP session deadline, HTTP       *)
(* client gone).  A sender whose letter was deferred or whose connection   *)
(* broke tries the same letter again.                                      *)
(***************************************************************************)
EXTENDS MailTables, ThreadingRule, FiniteSets

CONSTANTS Jobs,       \* the letters in flight, one job for each
          Mail,       \* job -> the letter it carries
          Rank,       \* message id -> its place in a list's sort order
          Window,     \* messages an outbound index is read from (10 000)
          Owner,      \* inbox -> its first owner
          MaxFaults,  \* bound: statements that fail and jobs that are dropped
          MaxEdits,   \* bound: deletions and re-creations by users
          NoTenant

Letter == [kind : {"ingest", "send"}, inbox : Inboxes, mid : Mids,
           inReplyTo : SUBSET Mids, references : SUBSET Mids,
         wide : BOOLEAN]   \* sent with a credential of the whole organization

(* An In-Reply-To header names at most one message.                        *)
ASSUME MailAssumption ==
  /\ Mail \in [Jobs -> Letter]
  /\ \A j \in Jobs : Mail[j].wide => Mail[j].kind = "send"
  /\ \A j \in Jobs : \A a, b \in Mail[j].inReplyTo : a = b
  /\ Owner \in [Inboxes -> Tenants]
(* mint_message_id draws a fresh uuid for every message sent.              *)
ASSUME FreshSentIds ==
  \A j, k \in Jobs :
    /\ Mail[j].kind = "send" /\ Mail[k].kind = "send" /\ k # j
         => Mail[k].mid # Mail[j].mid
    /\ Mail[j].kind = "send" => Mail[j].mid \notin Mail[j].inReplyTo
ASSUME BoundsAssumption ==
  /\ MaxFaults \in Nat /\ MaxEdits \in Nat /\ Window \in Nat
  /\ Rank \in [Mids -> Nat]
ASSUME NoneAssumption == NoThread \notin ThreadIds /\ NoTenant \notin Tenants

VARIABLES jobs,       \* job -> where it stands
          faults, edits,
          posted      \* history: every key a message was ever stored under

vars == <<tables, jobs, faults, edits, posted>>

Stages  == {"idle", "dup", "links", "deliver", "snapshot", "assign",
            "thread", "message", "record", "done"}
Replies == {"none", "stored", "refused", "unknown", "duplicate",
            "deferred", "unresolved", "aborted", "failed", "rejected", "gone"}

Job == [stage   : Stages,
        tenant  : Tenants \cup {NoTenant},     \* the inbox's owner, as read
        pending : SUBSET Mids,                 \* links still to be looked up
        refs    : SUBSET Mids,                 \* References as stored
        index   : [Mids -> ThreadIds \cup {NoThread}],
        thread  : ThreadIds \cup {NoThread},
        opens   : BOOLEAN,                     \* the code's new_thread / is_new
        reply   : Replies,
        parent  : SUBSET ThreadIds]            \* ghost: the direct parent's thread,
                                               \* while held without a break

EmptyIndex == [m \in Mids |-> NoThread]

IdleJob == [stage |-> "idle", tenant |-> NoTenant, pending |-> {}, refs |-> {},
            index |-> EmptyIndex, thread |-> NoThread, opens |-> FALSE,
            reply |-> "none", parent |-> {}]

TypeOK ==
  /\ TablesTypeOK
  /\ jobs \in [Jobs -> Job]
  /\ faults \in 0..MaxFaults
  /\ edits \in 0..MaxEdits
  /\ posted \subseteq Inboxes \X Mids

Init ==
  /\ inboxes = Owner
  /\ threads = [t \in {} |-> NoThread]
  /\ messages = [k \in {} |-> NoThread]
  /\ used = {}
  /\ jobs = [j \in Jobs |-> IdleJob]
  /\ faults = 0
  /\ edits = 0
  /\ posted = {}

(***************************************************************************)
(* Shorthands.                                                             *)
(***************************************************************************)
At(j, stage) == jobs[j].stage = stage
Key(j)       == <<Mail[j].inbox, Mail[j].mid>>
Sends(j)     == Mail[j].kind = "send"

Go(j, stage) == jobs' = [jobs EXCEPT ![j].stage = stage]

(* A finished job forgets what only its next steps would have used.        *)
Finish(j, reply) ==
  jobs' = [jobs EXCEPT ![j].stage = "done", ![j].reply = reply,
                       ![j].index = EmptyIndex, ![j].pending = {}]

(* Mutant of StoreErrorReply: a store error is permanent for the sender.   *)
StoreErrorIsPermanent(j) == IF Sends(j) THEN "failed" ELSE "rejected"

(* StoreError -> 451 for an SMTP sender, 500 for an API caller.            *)
StoreErrorReply(j) == IF Sends(j) THEN "failed" ELSE "deferred"

(* Mutant of Reach: an organization's credential reads everybody's rows.   *)
ReachEverybody(j, tenant) == IF Mail[j].wide THEN Tenants ELSE {tenant}

(* The window a job reads through, in an inbox of this tenant: the pair    *)
(* RCPT resolved, or the caller's.  An organization's credential is        *)
(* admitted to the inbox of any of its pods and pins none.                 *)
Reach(j, tenant) ==
  IF Mail[j].wide THEN {w \in Tenants : Org[w] = Org[tenant]} ELSE {tenant}

(* Ghost: the thread of the direct parent, if the inbox holds it.          *)
ParentThread(j, tenant) ==
  {messages[<<Mail[j].inbox, m>>].thread :
     m \in {p \in Mail[j].inReplyTo \ {Mail[j].mid} :
              Visible(<<Mail[j].inbox, p>>, Reach(j, tenant))}}

(***************************************************************************)
(* Ingest: RCPT accepted ... DATA ... accept().                            *)
(***************************************************************************)

(* A letter with the id of a message this server sends is that message     *)
(* coming back (sent to the inbox's own address, or echoed by a list): it  *)
(* cannot arrive before it has left.                                       *)
HasLeft(j) ==
  \A k \in Jobs : Sends(k) /\ Mail[k].mid = Mail[j].mid
                 => jobs[k].stage \notin {"idle", "deliver"}

(* RCPT resolves the recipient to the inbox's owner; the Delivery keeps    *)
(* that answer for the rest of the transaction.                            *)
AcceptRcpt(j) ==
  /\ ~Sends(j) /\ At(j, "idle") /\ HasLeft(j)
  /\ Mail[j].inbox \in DOMAIN inboxes
  /\ jobs' = [jobs EXCEPT ![j].stage = "dup",
                          ![j].tenant = inboxes[Mail[j].inbox],
                          ![j].refs = Mail[j].references,
                          ![j].parent = ParentThread(j, inboxes[Mail[j].inbox])]
  /\ UNCHANGED <<tables, faults, edits, posted>>

(* Nothing to deliver to, or to send from or reply to: 550, or 404.        *)
RefuseUnknown(j) ==
  /\ At(j, "idle") /\ (Sends(j) \/ HasLeft(j))
  /\ \/ Mail[j].inbox \notin DOMAIN inboxes
     \/ /\ Sends(j)
        /\ ~ \A p \in Mail[j].inReplyTo :
               Visible(<<Mail[j].inbox, p>>, Reach(j, inboxes[Mail[j].inbox]))
  /\ Finish(j, "unknown")
  /\ UNCHANGED <<tables, faults, edits, posted>>

(* Oversize, hostile or unparsable (554), or authentication hard-failed    *)
(* (250, and the letter is dropped): decided before any row is read.       *)
RefuseContent(j) ==
  /\ At(j, "dup")
  /\ Finish(j, "refused")
  /\ UNCHANGED <<tables, faults, edits, posted>>

CheckDuplicate(j) ==
  /\ At(j, "dup")
  /\ IF Visible(Key(j), Reach(j, jobs[j].tenant))
     THEN Finish(j, "duplicate")
     ELSE jobs' = [jobs EXCEPT ![j].stage = "links",
                               ![j].pending = Mail[j].inReplyTo \cup Mail[j].references]
  /\ UNCHANGED <<tables, faults, edits, posted>>

ThreadOf(key, window) ==
  IF Visible(key, window) THEN messages[key].thread ELSE NoThread

(* Mutant of LookupLink: the lookup forgets the inbox.                     *)
LookupLinkAnywhere(j, link) ==
  /\ At(j, "links") /\ link \in jobs[j].pending
  /\ \E i \in Inboxes :
       jobs' = [jobs EXCEPT ![j].pending = @ \ {link},
                            ![j].index[link] = ThreadOf(<<i, link>>, Reach(j, jobs[j].tenant))]
  /\ UNCHANGED <<tables, faults, edits, posted>>

(* fill_thread_index: the lookups run concurrently, so they read the table *)
(* at different times and in any order.                                    *)
LookupLink(j, link) ==
  /\ At(j, "links") /\ link \in jobs[j].pending
  /\ jobs' = [jobs EXCEPT
       ![j].pending = @ \ {link},
       ![j].index[link] = ThreadOf(<<Mail[j].inbox, link>>, Reach(j, jobs[j].tenant))]
  /\ UNCHANGED <<tables, faults, edits, posted>>

(* Mutant of LookupsDone: the first answer is not waited for.              *)
LookupsNotAwaited(j) ==
  /\ At(j, "links")
  /\ Go(j, "assign")
  /\ UNCHANGED <<tables, faults, edits, posted>>

LookupsDone(j) ==
  /\ At(j, "links") /\ jobs[j].pending = {}
  /\ Go(j, "assign")
  /\ UNCHANGED <<tables, faults, edits, posted>>

(***************************************************************************)
(* Send: load_parent and inboxes::get, the wire, then one list.            *)
(***************************************************************************)
BeginSend(j) ==
  /\ Sends(j) /\ At(j, "idle")
  /\ Mail[j].inbox \in DOMAIN inboxes
  /\ LET owner == inboxes[Mail[j].inbox] IN
     /\ \A p \in Mail[j].inReplyTo : Visible(<<Mail[j].inbox, p>>, Reach(j, owner))
     /\ jobs' = [jobs EXCEPT
          ![j].stage = "deliver", ![j].tenant = owner,
          ![j].refs = Mail[j].inReplyTo \cup
                      UNION {messages[<<Mail[j].inbox, p>>].refs : p \in Mail[j].inReplyTo},
          ![j].parent = ParentThread(j, owner)]
  /\ UNCHANGED <<tables, faults, edits, posted>>

(* sign_and_deliver: the letter has left before anything is recorded.      *)
DeliverOut(j) ==
  /\ At(j, "deliver")
  /\ \/ Go(j, "snapshot")
     \/ Finish(j, "rejected")
  /\ UNCHANGED <<tables, faults, edits, posted>>

(* The first Window messages of the inbox in sort order, oldest first.     *)
OldestListed(inbox, window) ==
  {m \in Listed(inbox, window) :
     Cardinality({n \in Listed(inbox, window) : Rank[n] < Rank[m]}) < Window}

SnapshotIndex(j) ==
  /\ At(j, "snapshot")
  /\ jobs' = [jobs EXCEPT
       ![j].stage = "assign",
       ![j].index = [m \in Mids |->
                       IF m \in OldestListed(Mail[j].inbox, Reach(j, jobs[j].tenant))
                       THEN messages[<<Mail[j].inbox, m>>].thread ELSE NoThread]]
  /\ UNCHANGED <<tables, faults, edits, posted>>

(***************************************************************************)
(* Both pipelines: assign a thread, then write.                            *)
(***************************************************************************)
Joined(j) ==
  JoinedThreads(jobs[j].index, Mail[j].mid, Mail[j].inReplyTo, jobs[j].refs)

Assign(j) ==
  /\ At(j, "assign")
  /\ \/ /\ Joined(j) = {}
        /\ jobs' = [jobs EXCEPT ![j].stage = "thread", ![j].opens = TRUE,
                                ![j].index = EmptyIndex]
     \/ \E t \in Joined(j) :
          jobs' = [jobs EXCEPT ![j].stage = "message", ![j].thread = t,
                               ![j].index = EmptyIndex]
  /\ UNCHANGED <<tables, faults, edits, posted>>

(* The new thread's row.  Its random id, drawn in the step before, is      *)
(* first seen by anyone here.                                              *)
OpenThread(j) ==
  /\ At(j, "thread")
  /\ \E t \in ThreadIds :
       /\ InsertThread(t, Mail[j].inbox, jobs[j].tenant)
       /\ jobs' = [jobs EXCEPT ![j].stage = "message", ![j].thread = t]
  /\ UNCHANGED <<faults, edits, posted>>

OpenThreadFails(j) ==
  /\ At(j, "thread")
  /\ Mail[j].inbox \notin DOMAIN inboxes
  /\ Finish(j, StoreErrorReply(j))
  /\ UNCHANGED <<tables, faults, edits, posted>>

InsertOwnMessage(j) ==
  /\ InsertMessage(Mail[j].inbox, Mail[j].mid, jobs[j].thread, jobs[j].tenant, jobs[j].refs)
  /\ posted' = posted \cup {Key(j)}

(* Mutant of StoreMessage: a message that opened its thread is counted again.*)
StoreMessageCountsTwice(j) ==
  /\ At(j, "message")
  /\ InsertOwnMessage(j)
  /\ Go(j, "record")
  /\ UNCHANGED <<faults, edits>>

(* A message that opened its thread was counted when the row was inserted. *)
StoreMessage(j) ==
  /\ At(j, "message")
  /\ InsertOwnMessage(j)
  /\ IF jobs[j].opens THEN Finish(j, "stored") ELSE Go(j, "record")
  /\ UNCHANGED <<faults, edits>>

(* Another job stored this message id since the duplicate check, or a sent *)
(* message came back and was stored as received before it was recorded as  *)
(* sent.                                                                   *)
StoreMessageDuplicate(j) ==
  /\ At(j, "message")
  /\ IsUniqueViolation(Mail[j].inbox, Mail[j].mid)
  /\ Finish(j, IF Sends(j) THEN "failed" ELSE "duplicate")
  /\ UNCHANGED <<tables, faults, edits, posted>>

(* The inbox or the thread to join is gone since it was read.              *)
StoreMessageFails(j) ==
  /\ At(j, "message")
  /\ ~IsUniqueViolation(Mail[j].inbox, Mail[j].mid)
  /\ Mail[j].inbox \notin DOMAIN inboxes \/ jobs[j].thread \notin DOMAIN threads
  /\ Finish(j, StoreErrorReply(j))
  /\ UNCHANGED <<tables, faults, edits, posted>>

CountMember(j) ==
  /\ At(j, "record")
  /\ RecordMember(jobs[j].thread)
  /\ Finish(j, "stored")
  /\ UNCHANGED <<faults, edits, posted>>

(* record_member found no row: ingest ignores that, the API answers 404.   *)
CountMemberMissing(j) ==
  /\ At(j, "record")
  /\ jobs[j].thread \notin DOMAIN threads
  /\ Finish(j, IF Sends(j) THEN "gone" ELSE "stored")
  /\ UNCHANGED <<tables, faults, edits, posted>>

(***************************************************************************)
(* Failures.                                                               *)
(***************************************************************************)

(* The statement the job is at fails without effect, or the job is dropped *)
(* before it.  RCPT answers 550 when the lookup of the recipient fails, as *)
(* if there were no such inbox, and the sender gives up.                   *)
FailsWithoutEffect(j) ==
  /\ \/ /\ At(j, "idle") /\ (Sends(j) \/ HasLeft(j))
        /\ Finish(j, IF Sends(j) THEN "failed" ELSE "unresolved")
     \/ /\ jobs[j].stage \in Stages \ {"idle", "deliver", "done"}
        /\ Finish(j, StoreErrorReply(j))
     \/ /\ jobs[j].stage \in Stages \ {"idle", "done"}
        /\ Finish(j, "aborted")
  /\ UNCHANGED <<tables, posted>>

(* The statement takes effect, but its answer never reaches the job.       *)
AcknowledgementLost(j) ==
  /\ \/ /\ At(j, "thread")
        /\ \E t \in ThreadIds : InsertThread(t, Mail[j].inbox, jobs[j].tenant)
        /\ UNCHANGED posted
     \/ At(j, "message") /\ InsertOwnMessage(j)
     \/ /\ At(j, "record")
        /\ RecordMember(jobs[j].thread)
        /\ UNCHANGED posted
  /\ \E reply \in {StoreErrorReply(j), "aborted"} : Finish(j, reply)

Fault(j) ==
  /\ faults < MaxFaults
  /\ faults' = faults + 1
  /\ FailsWithoutEffect(j) \/ AcknowledgementLost(j)
  /\ UNCHANGED edits

(* An MTA tries a deferred or broken delivery again, from MAIL FROM on.    *)
SenderRetries(j) ==
  /\ ~Sends(j) /\ At(j, "done")
  /\ jobs[j].reply \in {"deferred", "aborted"}
  /\ jobs' = [jobs EXCEPT ![j] = IdleJob]
  /\ UNCHANGED <<tables, faults, edits, posted>>

(***************************************************************************)
(* The API's users, and the specification.                                 *)
(***************************************************************************)
UserEdit ==
  /\ edits < MaxEdits
  /\ edits' = edits + 1
  /\ \/ \E key \in Inboxes \X Mids : DeleteMessage(key)
     \/ \E t \in ThreadIds : DeleteThread(t)
     \/ \E i \in Inboxes : DeleteInbox(i)
     \/ \E i \in Inboxes, w \in Tenants : CreateInbox(i, w)
  /\ jobs' = [j \in Jobs |->
       [jobs[j] EXCEPT !.parent =
          IF \A p \in Mail[j].inReplyTo : <<Mail[j].inbox, p>> \in DOMAIN messages'
          THEN @ ELSE {}]]
  /\ UNCHANGED <<faults, posted>>

Ingest(j) ==
  \/ AcceptRcpt(j) \/ RefuseContent(j) \/ CheckDuplicate(j)
  \/ (\E link \in Mids : LookupLink(j, link)) \/ LookupsDone(j)

Send(j) == BeginSend(j) \/ DeliverOut(j) \/ SnapshotIndex(j)

Write(j) ==
  \/ Assign(j) \/ OpenThread(j) \/ OpenThreadFails(j)
  \/ StoreMessage(j) \/ StoreMessageDuplicate(j) \/ StoreMessageFails(j)
  \/ CountMember(j) \/ CountMemberMissing(j)

(* What the server does of its own accord for a job.                       *)
Progress(j) == RefuseUnknown(j) \/ Ingest(j) \/ Send(j) \/ Write(j)

Next == (\E j \in Jobs : Progress(j) \/ Fault(j) \/ SenderRetries(j)) \/ UserEdit

Spec == Init /\ [][Next]_vars

(* The executor polls every job, and an MTA keeps retrying what was        *)
(* deferred.                                                               *)
Fairness == \A j \in Jobs : WF_vars(Progress(j)) /\ WF_vars(SenderRetries(j))

FairSpec == Spec /\ Fairness

(***************************************************************************)
(* Correctness.                                                            *)
(***************************************************************************)

(* A reply sent by an organization's credential was stored in this inbox.  *)
Mixed(i) == \E j \in Jobs : Mail[j].wide /\ Mail[j].inbox = i /\ Key(j) \in posted

(* R4: a thread never spans inboxes.  Every stored message's thread has a  *)
(* row, and that row has the message's own inbox and organization.  The    *)
(* schema does not say so; the pipelines must, across index reads and      *)
(* writes that other jobs and users run between.  check_thread masks a     *)
(* whole thread when it fails (amk-core scope.rs:660).  Nor does a thread  *)
(* span pods, until a credential of the organization answers in an address *)
(* that was given up by one pod and taken by another: its window has no    *)
(* pod, so it joins what a late delivery left there for the first.         *)
ThreadsSpanOneInbox ==
  \A k \in DOMAIN messages :
    LET t == messages[k].thread IN
    /\ t \in DOMAIN threads
    /\ threads[t].inbox = k[1]
    /\ Org[threads[t].tenant] = Org[messages[k].tenant]
    /\ threads[t].tenant = messages[k].tenant \/ Mixed(k[1])

Members(t)   == Cardinality({k \in DOMAIN messages : messages[k].thread = t})
JobsIn(S, t) == Cardinality({j \in S : jobs[j].thread = t})
Counting     == {j \in Jobs : At(j, "record")}
Opening      == {j \in Jobs : At(j, "message") /\ jobs[j].opens}
LostRaces    == {j \in Jobs : At(j, "done") /\ jobs[j].opens /\ jobs[j].reply # "stored"}

(* message_count, which is written once when the thread is opened and once *)
(* per joining member, in other statements than the ones that store the    *)
(* members.  While nothing fails and nobody deletes, it differs from the   *)
(* members only by the jobs between the two statements and by the threads  *)
(* that a job opened for a message another job stored first.  Failures can *)
(* leave it short of the members by at most one each.                      *)
CountAccounting ==
  \A t \in DOMAIN threads :
    /\ faults = 0 /\ edits = 0 =>
         threads[t].count + JobsIn(Counting, t) =
           Members(t) + JobsIn(Opening, t) + JobsIn(LostRaces, t)
    /\ Members(t) <= threads[t].count + JobsIn(Counting, t) + faults

(* A message whose direct parent (In-Reply-To) the inbox has held, without *)
(* a break, since the delivery or the API call began is stored in the      *)
(* parent's thread, whatever happened in between ("a resolvable            *)
(* `In-Reply-To` wins outright", amk-core threading.rs:162).               *)
ReplyJoinsParent ==
  [][\A j \in Jobs :
       Key(j) \in DOMAIN messages' \ DOMAIN messages
         /\ At(j, "message") /\ jobs'[j] # jobs[j] /\ jobs[j].parent # {}
         => messages'[Key(j)].thread \in jobs[j].parent]_vars

(* What becomes of a letter with one recipient that was accepted once,     *)
(* through store failures, lost acknowledgements, dropped sessions and     *)
(* deletions: it is stored, or refused for what it is, or its inbox is     *)
(* gone when the sender comes back, or it is lost.  Losing it takes two    *)
(* events: one that has the sender try again, and a store failure at the   *)
(* RCPT of that try, which the code answers 550 (lookup.rs:50).            *)
LetterSettled ==
  \A j \in Jobs :
    ~Sends(j) /\ At(j, "dup") ~>
      /\ At(j, "done")
      /\ \/ Key(j) \in posted
         \/ jobs[j].reply = "refused"
         \/ jobs[j].reply = "unknown" /\ edits > 0
         \/ jobs[j].reply = "unresolved" /\ faults + edits > 1

(* The mailbox a reader of the API relies on, see Mailbox.                 *)
Box == INSTANCE Mailbox WITH
         home     <- [t \in DOMAIN threads |-> threads[t].inbox],
         held     <- [k \in DOMAIN messages |-> messages[k].thread],
         answered <- {Key(j) : j \in {i \in Jobs : At(i, "done")
                                        /\ jobs[i].reply \in {"stored", "duplicate"}}}

(* Delivery implements Mailbox: each message id is stored at most once per *)
(* inbox while held, into a thread of that inbox, is never moved between   *)
(* threads, and 250 OK or 554 Duplicate is answered only for a message the *)
(* mailbox has really stored.                                              *)
ImplementsMailbox == Box!Spec
=============================================================================
