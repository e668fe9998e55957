--------------------------- MODULE DeliveryProofs ---------------------------
(***************************************************************************)
(* Delivery keeps its types, never lets a thread span two inboxes,         *)
(* implements Mailbox, puts a reply into its parent's thread and keeps the *)
(* accounts of message_count, for any set of letters in flight, any number *)
(* of jobs, failures, retries and deletions.                               *)
(*                                                                         *)
(* ThreadsSpanOneInbox is not inductive: a job carries thread ids from an  *)
(* index it read some time ago to the row it writes, and between the two   *)
(* the thread may go, and its id would be wrong if another inbox's thread  *)
(* could get it.  IInv adds that every id a job carries was used, and      *)
(* names, if it still names anything, a thread of the job's own inbox and  *)
(* organization, and of its pod too while no reply sent with an            *)
(* organization's credential has been stored there; ids are never used     *)
(* again, so nothing can change that.                                      *)
(*                                                                         *)
(* The other three properties each add to IInv what they need: PostedInv   *)
(* (what is held was posted) for the refinement, ParentInv (what a job has *)
(* looked up still names the thread of a parent that is still held) for    *)
(* ReplyJoinsParent, CountInv (what each job between two statements owes   *)
(* the count of its thread) for CountAccounting.                           *)
(***************************************************************************)
EXTENDS Delivery, FiniteSetTheorems, TLAPS

TablesInv ==
  /\ TablesTypeOK
  /\ DOMAIN threads \subseteq used
  /\ ThreadsSpanOneInbox

(* t belongs to the letter's inbox and to the organization of w, and to    *)
(* its pod but for a letter that does not ask for one, or to nobody for    *)
(* ever.                                                                   *)
Homed(t, letter, w) ==
  /\ t \in used
  /\ t \in DOMAIN threads =>
       /\ threads[t].inbox = letter.inbox
       /\ Org[threads[t].tenant] = Org[w]
       /\ threads[t].tenant = w \/ letter.wide \/ Mixed(letter.inbox)

AimsHome(job, letter) ==
  /\ \A m \in Mids : job.index[m] # NoThread => Homed(job.index[m], letter, job.tenant)
  /\ job.stage \in {"message", "record"} => Homed(job.thread, letter, job.tenant)
  /\ job.stage \notin {"idle", "done"} => job.tenant \in Tenants
  /\ job.stage = "idle" => \A m \in Mids : job.index[m] = NoThread

BoundsInv == faults \in 0..MaxFaults /\ edits \in 0..MaxEdits /\ posted \subseteq Inboxes \X Mids

IInv ==
  /\ TablesInv
  /\ BoundsInv
  /\ jobs \in [Jobs -> Job]
  /\ \A j \in Jobs : AimsHome(jobs[j], Mail[j])

(***************************************************************************)
(* What the statements preserve.                                           *)
(***************************************************************************)

(* What was posted stays posted.                                           *)
LEMMA MixedStays ==
  ASSUME posted \subseteq posted'
  PROVE  \A b : Mixed(b) => Mixed(b)'
BY DEF Mixed, Key

(* Opening a thread keeps the tables consistent, gives the new thread its  *)
(* home and moves nobody else's.                                           *)
LEMMA InsertThreadInv ==
  ASSUME TablesInv, NEW t \in ThreadIds, NEW i \in Inboxes, NEW w \in Tenants,
         InsertThread(t, i, w), \A b : Mixed(b) => Mixed(b)'
  PROVE  /\ TablesInv'
         /\ \A letter : letter.inbox = i => Homed(t, letter, w)'
         /\ \A u, k, v : Homed(u, k, v) => Homed(u, k, v)'
<1> USE DEF InsertThread, TablesInv, Put
<1>1. TablesTypeOK'
  BY DEF TablesTypeOK, ThreadRow, MessageRow
<1>2. (DOMAIN threads \subseteq used)'
  OBVIOUS
<1>3. ThreadsSpanOneInbox'
  <2> SUFFICES ASSUME NEW k \in DOMAIN messages
               PROVE  /\ messages[k].thread \in DOMAIN threads'
                      /\ threads'[messages[k].thread].inbox = k[1]
                      /\ Org[threads'[messages[k].thread].tenant] = Org[messages[k].tenant]
                      /\ \/ threads'[messages[k].thread].tenant = messages[k].tenant
                         \/ Mixed(k[1])'
    BY DEF ThreadsSpanOneInbox
  <2>1. messages[k].thread \in DOMAIN threads /\ messages[k].thread # t
    BY DEF ThreadsSpanOneInbox
  <2> QED
    BY <2>1 DEF ThreadsSpanOneInbox
<1>4. \A letter : letter.inbox = i => Homed(t, letter, w)'
  BY DEF Homed
<1>5. \A u, k, v : Homed(u, k, v) => Homed(u, k, v)'
  BY DEF Homed
<1> QED
  BY <1>1, <1>2, <1>3, <1>4, <1>5

(* Storing a message in a thread of its own inbox and tenant.              *)
LEMMA InsertMessageInv ==
  ASSUME TablesInv, NEW i \in Inboxes, NEW m \in Mids, NEW t, NEW w \in Tenants,
         NEW refs \in SUBSET Mids, NEW letter, letter.inbox = i, Homed(t, letter, w),
         InsertMessage(i, m, t, w, refs), \A b : Mixed(b) => Mixed(b)',
         letter.wide => Mixed(i)'
  PROVE  /\ TablesInv'
         /\ \A u, k, v : Homed(u, k, v) => Homed(u, k, v)'
<1> USE DEF InsertMessage, TablesInv, Put
<1>1. t \in ThreadIds
  BY DEF Homed, TablesTypeOK
<1>2. TablesTypeOK'
  BY <1>1 DEF TablesTypeOK, MessageRow
<1>3. ThreadsSpanOneInbox'
  <2> SUFFICES ASSUME NEW k \in DOMAIN messages'
               PROVE  /\ messages'[k].thread \in DOMAIN threads
                      /\ threads[messages'[k].thread].inbox = k[1]
                      /\ Org[threads[messages'[k].thread].tenant] = Org[messages'[k].tenant]
                      /\ \/ threads[messages'[k].thread].tenant = messages'[k].tenant
                         \/ Mixed(k[1])'
    BY DEF ThreadsSpanOneInbox
  <2>1. CASE k = <<i, m>>
    BY <2>1 DEF Homed
  <2>2. CASE k # <<i, m>>
    BY <2>2 DEF ThreadsSpanOneInbox
  <2> QED
    BY <2>1, <2>2
<1>4. \A u, k, v : Homed(u, k, v) => Homed(u, k, v)'
  BY DEF Homed
<1> QED
  BY <1>2, <1>3, <1>4

(* Counting a member changes a count and nothing else.                     *)
LEMMA RecordMemberInv ==
  ASSUME TablesInv, NEW t, RecordMember(t),
         \A b : Mixed(b) => Mixed(b)'
  PROVE  /\ TablesInv'
         /\ \A u, k, v : Homed(u, k, v) => Homed(u, k, v)'
<1> USE DEF RecordMember, TablesInv
<1>1. /\ DOMAIN threads' = DOMAIN threads
      /\ \A u \in DOMAIN threads : /\ threads'[u] \in ThreadRow
                                   /\ threads'[u].inbox = threads[u].inbox
                                   /\ threads'[u].tenant = threads[u].tenant
  BY DEF TablesTypeOK, ThreadRow
<1>2. TablesTypeOK'
  BY <1>1 DEF TablesTypeOK
<1>3. ThreadsSpanOneInbox'
  BY <1>1 DEF ThreadsSpanOneInbox
<1>4. \A u, k, v : Homed(u, k, v) => Homed(u, k, v)'
  BY <1>1 DEF Homed
<1> QED
  BY <1>1, <1>2, <1>3, <1>4

(* What users delete or create: rows go, together with what refers to      *)
(* them, and ids stay used.                                                *)
LEMMA DeleteMessageInv ==
  ASSUME TablesInv, NEW key, DeleteMessage(key),
         \A b : Mixed(b) => Mixed(b)'
  PROVE  /\ TablesInv'
         /\ \A u, k, v : Homed(u, k, v) => Homed(u, k, v)'
<1> USE DEF DeleteMessage, TablesInv, Keep
<1>1. TablesTypeOK'
  BY DEF TablesTypeOK
<1>2. ThreadsSpanOneInbox'
  BY DEF ThreadsSpanOneInbox
<1>3. \A u, k, v : Homed(u, k, v) => Homed(u, k, v)'
  BY DEF Homed
<1> QED
  BY <1>1, <1>2, <1>3

LEMMA DeleteThreadInv ==
  ASSUME TablesInv, NEW t, DeleteThread(t),
         \A b : Mixed(b) => Mixed(b)'
  PROVE  /\ TablesInv'
         /\ \A u, k, v : Homed(u, k, v) => Homed(u, k, v)'
<1> USE DEF DeleteThread, TablesInv, Keep
<1>1. TablesTypeOK'
  BY DEF TablesTypeOK
<1>2. ThreadsSpanOneInbox'
  BY DEF ThreadsSpanOneInbox
<1>3. \A u, k, v : Homed(u, k, v) => Homed(u, k, v)'
  BY DEF Homed
<1> QED
  BY <1>1, <1>2, <1>3

LEMMA DeleteInboxInv ==
  ASSUME TablesInv, NEW i, DeleteInbox(i),
         \A b : Mixed(b) => Mixed(b)'
  PROVE  /\ TablesInv'
         /\ \A u, k, v : Homed(u, k, v) => Homed(u, k, v)'
<1> USE DEF DeleteInbox, TablesInv, Keep
<1>1. TablesTypeOK'
  BY SMTT(30) DEF TablesTypeOK
<1>2. ThreadsSpanOneInbox'
  BY DEF ThreadsSpanOneInbox
<1>3. \A u, k, v : Homed(u, k, v) => Homed(u, k, v)'
  BY DEF Homed
<1> QED
  BY <1>1, <1>2, <1>3

LEMMA CreateInboxInv ==
  ASSUME TablesInv, NEW i \in Inboxes, NEW w \in Tenants, CreateInbox(i, w),
         \A b : Mixed(b) => Mixed(b)'
  PROVE  /\ TablesInv'
         /\ \A u, k, v : Homed(u, k, v) => Homed(u, k, v)'
<1> USE DEF CreateInbox, TablesInv, Put
<1>1. TablesTypeOK'
  BY DEF TablesTypeOK
<1>2. ThreadsSpanOneInbox'
  BY DEF ThreadsSpanOneInbox
<1>3. \A u, k, v : Homed(u, k, v) => Homed(u, k, v)'
  BY DEF Homed
<1> QED
  BY <1>1, <1>2, <1>3

(***************************************************************************)
(* What the steps of a job preserve.                                       *)
(***************************************************************************)

(* A step of job j that leaves the tables consistent and every thread at   *)
(* home keeps IInv if j's own record still aims home.                      *)
LEMMA JobStep ==
  ASSUME IInv, NEW j \in Jobs, NEW r \in Job, jobs' = [jobs EXCEPT ![j] = r],
         TablesInv', BoundsInv',
         \A u, k, v : Homed(u, k, v) => Homed(u, k, v)',
         AimsHome(r, Mail[j])'
  PROVE  IInv'
<1>1. jobs' \in [Jobs -> Job]
  BY DEF IInv
<1>2. \A k \in Jobs : AimsHome(jobs[k], Mail[k])'
  <2> SUFFICES ASSUME NEW k \in Jobs PROVE AimsHome(jobs[k], Mail[k])'
    OBVIOUS
  <2>1. CASE k = j
    BY <2>1 DEF IInv
  <2>2. CASE k # j
    <3>1. jobs'[k] = jobs[k] /\ AimsHome(jobs[k], Mail[k])
      BY <2>2 DEF IInv
    <3> QED
      BY <3>1 DEF AimsHome
  <2> QED
    BY <2>1, <2>2
<1> QED
  BY <1>1, <1>2 DEF IInv

(* The step of a job that reads or computes, and writes no table.          *)
LEMMA LocalStep ==
  ASSUME IInv, NEW j \in Jobs, NEW r \in Job, jobs' = [jobs EXCEPT ![j] = r],
         UNCHANGED <<tables, edits, posted>>, faults' \in 0..MaxFaults,
         AimsHome(r, Mail[j])
  PROVE  IInv'
<1>1. \A b : Mixed(b) <=> Mixed(b)'
  BY DEF Mixed, Key
<1>2. TablesInv' /\ BoundsInv'
  BY <1>1 DEF IInv, TablesInv, TablesTypeOK, ThreadsSpanOneInbox, BoundsInv, tables
<1>3. /\ \A u, k, v : Homed(u, k, v) => Homed(u, k, v)'
      /\ AimsHome(r, Mail[j])'
  BY <1>1 DEF Homed, AimsHome, tables
<1> QED
  BY <1>2, <1>3, JobStep

(* A finished job aims nowhere.                                            *)
LEMMA FinishedRecord ==
  ASSUME IInv, NEW j \in Jobs, NEW reply \in Replies, Finish(j, reply)
  PROVE  \E r \in Job : /\ jobs' = [jobs EXCEPT ![j] = r]
                        /\ AimsHome(r, Mail[j]) /\ AimsHome(r, Mail[j])'
<1>1. jobs[j] \in Job
  BY DEF IInv
<1>2. PICK r \in Job : r = [jobs[j] EXCEPT !.stage = "done", !.reply = reply,
                                          !.index = EmptyIndex, !.pending = {}]
  BY <1>1 DEF Job, EmptyIndex, Stages
<1>3. jobs' = [jobs EXCEPT ![j] = r]
  BY <1>2 DEF Finish, IInv
<1>4. r.stage = "done" /\ \A m \in Mids : r.index[m] = NoThread
  BY <1>1, <1>2 DEF EmptyIndex, Job
<1>5. AimsHome(r, Mail[j]) /\ AimsHome(r, Mail[j])'
  BY <1>4 DEF AimsHome
<1> QED
  BY <1>3, <1>5

LEMMA ParentThreadType ==
  ASSUME TablesInv, NEW j \in Jobs, NEW w
  PROVE  ParentThread(j, w) \subseteq ThreadIds
<1> SUFFICES ASSUME NEW p, Visible(<<Mail[j].inbox, p>>, Reach(j, w))
             PROVE  messages[<<Mail[j].inbox, p>>].thread \in ThreadIds
  BY DEF ParentThread
<1>1. messages[<<Mail[j].inbox, p>>] \in MessageRow
  BY DEF Visible, TablesInv, TablesTypeOK
<1> QED
  BY <1>1 DEF MessageRow

(* What an index answers is a thread the job may join.                     *)
LEMMA VisibleIsHomed ==
  ASSUME TablesInv, NEW j \in Jobs, NEW m, NEW w,
         Visible(<<Mail[j].inbox, m>>, Reach(j, w))
  PROVE  /\ messages[<<Mail[j].inbox, m>>].thread \in ThreadIds
         /\ Homed(messages[<<Mail[j].inbox, m>>].thread, Mail[j], w)
<1> DEFINE k == <<Mail[j].inbox, m>>
<1>1. /\ k \in DOMAIN messages /\ Org[messages[k].tenant] = Org[w]
      /\ Mail[j].wide \/ messages[k].tenant = w
  BY DEF Visible, Reach
<1>2. messages[k].thread \in ThreadIds
  BY <1>1 DEF TablesInv, TablesTypeOK, MessageRow
<1>3. Homed(messages[k].thread, Mail[j], w)
  <2>1. /\ messages[k].thread \in used /\ threads[messages[k].thread].inbox = Mail[j].inbox
        /\ Org[threads[messages[k].thread].tenant] = Org[messages[k].tenant]
        /\ threads[messages[k].thread].tenant = messages[k].tenant \/ Mixed(Mail[j].inbox)
    BY <1>1 DEF TablesInv, ThreadsSpanOneInbox
  <2> QED BY <1>1, <2>1 DEF Homed
<1> QED
  BY <1>2, <1>3

(***************************************************************************)
(* The actions.                                                            *)
(***************************************************************************)

(* A job that ends without writing: every refusal and every failure.       *)
LEMMA FinishInv ==
  ASSUME IInv, NEW j \in Jobs, NEW reply \in Replies, Finish(j, reply),
         UNCHANGED <<tables, edits, posted>>, faults' \in 0..MaxFaults
  PROVE  IInv'
<1>1. PICK r \in Job : jobs' = [jobs EXCEPT ![j] = r] /\ AimsHome(r, Mail[j])
  BY FinishedRecord
<1> QED
  BY <1>1, LocalStep

(* A job that moves on with what it has, and is not about to write.        *)
LEMMA GoInv ==
  ASSUME IInv, NEW j \in Jobs, NEW s \in {"links", "snapshot", "assign", "thread"}, Go(j, s),
         jobs[j].stage \notin {"idle", "done"},
         UNCHANGED <<tables, faults, edits, posted>>
  PROVE  IInv'
<1>1. jobs[j] \in Job /\ AimsHome(jobs[j], Mail[j])
  BY DEF IInv
<1>2. PICK r \in Job : r = [jobs[j] EXCEPT !.stage = s]
  BY <1>1 DEF Job, Stages
<1>3. jobs' = [jobs EXCEPT ![j] = r]
  BY <1>2 DEF Go, IInv
<1>4. AimsHome(r, Mail[j])
  BY <1>1, <1>2 DEF AimsHome, Job
<1> QED
  BY <1>3, <1>4, LocalStep DEF IInv, BoundsInv

LEMMA IngestInv ==
  ASSUME IInv, NEW j \in Jobs, Ingest(j)
  PROVE  IInv'
<1>1. jobs[j] \in Job /\ AimsHome(jobs[j], Mail[j]) /\ Mail[j] \in Letter
  BY MailAssumption DEF IInv
<1>2. CASE AcceptRcpt(j)
  <2> DEFINE w == inboxes[Mail[j].inbox]
  <2>1. w \in Tenants /\ ParentThread(j, w) \subseteq ThreadIds
    BY <1>2, ParentThreadType DEF AcceptRcpt, IInv, TablesInv, TablesTypeOK
  <2>2. PICK r \in Job : r = [jobs[j] EXCEPT !.stage = "dup", !.tenant = w,
                                !.refs = Mail[j].references, !.parent = ParentThread(j, w)]
    BY <1>1, <2>1 DEF Job, Stages, Letter
  <2>3. jobs' = [jobs EXCEPT ![j] = r]
    BY <1>2, <2>2 DEF AcceptRcpt, IInv
  <2>4. AimsHome(r, Mail[j])
    BY <1>1, <1>2, <2>1, <2>2 DEF AimsHome, Job, AcceptRcpt, At
  <2> QED
    BY <1>2, <2>3, <2>4, LocalStep DEF AcceptRcpt, IInv, BoundsInv
<1>3. CASE RefuseContent(j)
  BY <1>3, FinishInv DEF RefuseContent, Replies, IInv, BoundsInv
<1>4. CASE CheckDuplicate(j)
  <2>1. CASE Visible(Key(j), Reach(j, jobs[j].tenant))
    BY <1>4, <2>1, FinishInv DEF CheckDuplicate, Replies, IInv, BoundsInv
  <2>2. CASE ~Visible(Key(j), Reach(j, jobs[j].tenant))
    <3>1. PICK r \in Job : r = [jobs[j] EXCEPT !.stage = "links",
                                  !.pending = Mail[j].inReplyTo \cup Mail[j].references]
      BY <1>1 DEF Job, Stages, Letter
    <3>2. jobs' = [jobs EXCEPT ![j] = r]
      BY <1>4, <2>2, <3>1 DEF CheckDuplicate, IInv
    <3>3. AimsHome(r, Mail[j])
      BY <1>1, <1>4, <3>1 DEF AimsHome, Job, CheckDuplicate, At
    <3> QED
      BY <1>4, <3>2, <3>3, LocalStep DEF CheckDuplicate, IInv, BoundsInv
  <2> QED
    BY <2>1, <2>2
<1>5. ASSUME NEW link \in Mids, LookupLink(j, link) PROVE IInv'
  <2> DEFINE t == ThreadOf(<<Mail[j].inbox, link>>, Reach(j, jobs[j].tenant))
  <2>1. /\ t \in ThreadIds \cup {NoThread}
        /\ t # NoThread => Homed(t, Mail[j], jobs[j].tenant)
    BY <1>1, VisibleIsHomed DEF ThreadOf, IInv, Letter
  <2> HIDE DEF t
  <2>2. PICK r \in Job : r = [jobs[j] EXCEPT !.pending = @ \ {link}, !.index[link] = t]
    BY <1>1, <2>1 DEF Job
  <2>3. jobs' = [jobs EXCEPT ![j] = r]
    BY <1>5, <2>2 DEF LookupLink, IInv, t
  <2>4. AimsHome(r, Mail[j])
    BY <1>1, <1>5, <2>1, <2>2 DEF AimsHome, Job, LookupLink, At
  <2> QED
    BY <1>5, <2>3, <2>4, LocalStep DEF LookupLink, IInv, BoundsInv
<1>6. CASE LookupsDone(j)
  BY <1>6, GoInv DEF LookupsDone, At
<1> QED
  BY <1>2, <1>3, <1>4, <1>5, <1>6 DEF Ingest

LEMMA SendInv ==
  ASSUME IInv, NEW j \in Jobs, Send(j)
  PROVE  IInv'
<1>1. jobs[j] \in Job /\ AimsHome(jobs[j], Mail[j]) /\ Mail[j] \in Letter
  BY MailAssumption DEF IInv
<1>2. CASE BeginSend(j)
  <2> DEFINE w == inboxes[Mail[j].inbox]
             refs == Mail[j].inReplyTo \cup
                     UNION {messages[<<Mail[j].inbox, p>>].refs : p \in Mail[j].inReplyTo}
  <2>1. w \in Tenants /\ ParentThread(j, w) \subseteq ThreadIds
    BY <1>2, ParentThreadType DEF BeginSend, IInv, TablesInv, TablesTypeOK
  <2>2. ASSUME NEW p \in Mail[j].inReplyTo
        PROVE  messages[<<Mail[j].inbox, p>>].refs \subseteq Mids
    <3>1. <<Mail[j].inbox, p>> \in DOMAIN messages
      BY <1>2 DEF BeginSend, Visible
    <3> QED
      BY <3>1 DEF IInv, TablesInv, TablesTypeOK, MessageRow
  <2>3. refs \subseteq Mids
    BY <1>1, <2>2 DEF Letter
  <2> HIDE DEF refs
  <2>4. PICK r \in Job : r = [jobs[j] EXCEPT !.stage = "deliver", !.tenant = w,
                                !.refs = refs, !.parent = ParentThread(j, w)]
    BY <1>1, <2>1, <2>3 DEF Job, Stages
  <2>5. jobs' = [jobs EXCEPT ![j] = r]
    BY <1>2, <2>4 DEF BeginSend, IInv, refs
  <2>6. AimsHome(r, Mail[j])
    BY <1>1, <1>2, <2>1, <2>4 DEF AimsHome, Job, BeginSend, At
  <2> QED
    BY <1>2, <2>5, <2>6, LocalStep DEF BeginSend, IInv, BoundsInv
<1>3. CASE DeliverOut(j)
  <2>1. CASE Go(j, "snapshot")
    BY <1>3, <2>1, GoInv DEF DeliverOut, At
  <2>2. CASE Finish(j, "rejected")
    BY <1>3, <2>2, FinishInv DEF DeliverOut, Replies, IInv, BoundsInv
  <2> QED
    BY <1>3, <2>1, <2>2 DEF DeliverOut
<1>4. CASE SnapshotIndex(j)
  <2> DEFINE index == [m \in Mids |->
                         IF m \in OldestListed(Mail[j].inbox, Reach(j, jobs[j].tenant))
                         THEN messages[<<Mail[j].inbox, m>>].thread ELSE NoThread]
  <2>1. ASSUME NEW m \in Mids
        PROVE  /\ index[m] \in ThreadIds \cup {NoThread}
               /\ index[m] # NoThread => Homed(index[m], Mail[j], jobs[j].tenant)
    <3>1. CASE m \in OldestListed(Mail[j].inbox, Reach(j, jobs[j].tenant))
      <4>1. Visible(<<Mail[j].inbox, m>>, Reach(j, jobs[j].tenant))
        BY <3>1 DEF OldestListed, Listed
      <4> QED
        BY <1>1, <3>1, <4>1, VisibleIsHomed DEF IInv, Letter
    <3>2. CASE m \notin OldestListed(Mail[j].inbox, Reach(j, jobs[j].tenant))
      BY <3>2
    <3> QED
      BY <3>1, <3>2
  <2>2. index \in [Mids -> ThreadIds \cup {NoThread}]
    BY <2>1
  <2>3. \A m \in Mids : index[m] # NoThread
                          => Homed(index[m], Mail[j], jobs[j].tenant)
    BY <2>1
  <2> HIDE DEF index
  <2>4. PICK r \in Job : r = [jobs[j] EXCEPT !.stage = "assign", !.index = index]
    BY <1>1, <2>2 DEF Job, Stages
  <2>5. jobs' = [jobs EXCEPT ![j] = r]
    BY <1>4, <2>4 DEF SnapshotIndex, IInv, index
  <2>6. AimsHome(r, Mail[j])
    BY <1>1, <1>4, <2>3, <2>4 DEF AimsHome, Job, SnapshotIndex, At
  <2> QED
    BY <1>4, <2>5, <2>6, LocalStep DEF SnapshotIndex, IInv, BoundsInv
<1> QED
  BY <1>2, <1>3, <1>4 DEF Send

(* The thread a job joins is one that its index named.                     *)
LEMMA JoinedIsHomed ==
  ASSUME IInv, NEW j \in Jobs, NEW t \in Joined(j)
  PROVE  t \in ThreadIds /\ Homed(t, Mail[j], jobs[j].tenant)
<1>1. jobs[j] \in Job /\ AimsHome(jobs[j], Mail[j]) /\ Mail[j] \in Letter
  BY MailAssumption DEF IInv
<1>2. PICK link \in Mids : t = jobs[j].index[link] /\ t # NoThread
  BY <1>1 DEF Joined, JoinedThreads, ThreadsNamed, Job, Letter
<1> QED
  BY <1>1, <1>2 DEF AimsHome, Job

LEMMA OpenThreadInv ==
  ASSUME IInv, NEW j \in Jobs, OpenThread(j)
  PROVE  IInv'
<1>1. jobs[j] \in Job /\ AimsHome(jobs[j], Mail[j]) /\ Mail[j] \in Letter
  BY MailAssumption DEF IInv
<1>2. PICK t \in ThreadIds :
        /\ InsertThread(t, Mail[j].inbox, jobs[j].tenant)
        /\ jobs' = [jobs EXCEPT ![j].stage = "message", ![j].thread = t]
  BY DEF OpenThread
<1>3. PICK w \in Tenants : w = jobs[j].tenant
  BY <1>1 DEF AimsHome, OpenThread, At
<1>4. /\ TablesInv' /\ Homed(t, Mail[j], w)'
      /\ \A u, k, v : Homed(u, k, v) => Homed(u, k, v)'
  <2>1. posted' = posted
    BY DEF OpenThread
  <2> QED BY <1>1, <1>2, <1>3, <2>1, MixedStays, InsertThreadInv DEF IInv, Letter
<1>5. PICK r \in Job : r = [jobs[j] EXCEPT !.stage = "message", !.thread = t]
  BY <1>1 DEF Job, Stages
<1>6. jobs' = [jobs EXCEPT ![j] = r]
  BY <1>2, <1>5 DEF IInv
<1>7. AimsHome(r, Mail[j])'
  <2>1. \A m \in Mids : r.index[m] # NoThread => Homed(r.index[m], Mail[j], r.tenant)'
    BY <1>1, <1>4, <1>5 DEF AimsHome, Job
  <2>2. r.stage = "message" /\ Homed(r.thread, Mail[j], r.tenant)'
    BY <1>1, <1>3, <1>4, <1>5 DEF Job
  <2>3. r.tenant \in Tenants
    BY <1>1, <1>3, <1>5 DEF Job
  <2> QED
    BY <2>1, <2>2, <2>3 DEF AimsHome
<1>8. BoundsInv'
  BY DEF OpenThread, IInv, BoundsInv
<1> QED
  BY <1>4, <1>6, <1>7, <1>8, JobStep

(* A job about to write has what the statements ask of it.                 *)
LEMMA WriterIsReady ==
  ASSUME IInv, NEW j \in Jobs, jobs[j].stage \in {"thread", "message", "record"}
  PROVE  /\ jobs[j] \in Job /\ Mail[j] \in Letter
         /\ AimsHome(jobs[j], Mail[j])
         /\ jobs[j].tenant \in Tenants /\ jobs[j].refs \subseteq Mids
         /\ Mail[j].inbox \in Inboxes /\ Mail[j].mid \in Mids
         /\ jobs[j].stage # "thread" => Homed(jobs[j].thread, Mail[j], jobs[j].tenant)
<1>1. jobs[j] \in Job /\ AimsHome(jobs[j], Mail[j]) /\ Mail[j] \in Letter
  BY MailAssumption DEF IInv
<1> QED
  BY <1>1 DEF AimsHome, Job, Letter

(* The tables after a write that a job at this stage issues, whether or    *)
(* not the job learns of it.                                               *)
LEMMA WriteEffect ==
  ASSUME IInv, NEW j \in Jobs,
         \/ At(j, "thread") /\ posted' = posted
            /\ \E t \in ThreadIds : InsertThread(t, Mail[j].inbox, jobs[j].tenant)
         \/ At(j, "message") /\ InsertOwnMessage(j)
         \/ At(j, "record") /\ posted' = posted /\ RecordMember(jobs[j].thread)
  PROVE  /\ TablesInv' /\ posted' \subseteq Inboxes \X Mids
         /\ \A u, k, v : Homed(u, k, v) => Homed(u, k, v)'
<1> USE WriterIsReady DEF IInv, BoundsInv
<1>1. CASE At(j, "thread") /\ posted' = posted
           /\ \E t \in ThreadIds : InsertThread(t, Mail[j].inbox, jobs[j].tenant)
  BY <1>1, InsertThreadInv, MixedStays DEF At
<1>2. CASE At(j, "message") /\ InsertOwnMessage(j)
  <2>1. posted' = posted \cup {Key(j)}
    BY <1>2 DEF InsertOwnMessage
  <2>2. \A b : Mixed(b) => Mixed(b)'
    BY <2>1, MixedStays
  <2>3. Mail[j].wide => Mixed(Mail[j].inbox)'
    BY <2>1 DEF Mixed, Key
  <2>4. posted' \subseteq Inboxes \X Mids
    BY <1>2, <2>1 DEF Key, At
  <2> QED BY <1>2, <2>2, <2>3, <2>4, InsertMessageInv DEF At, InsertOwnMessage
<1>3. CASE At(j, "record") /\ posted' = posted /\ RecordMember(jobs[j].thread)
  BY <1>3, RecordMemberInv, MixedStays
<1> QED
  BY <1>1, <1>2, <1>3

(* A write after which the job is finished.                                *)
LEMMA WriteAndFinish ==
  ASSUME IInv, NEW j \in Jobs, NEW reply \in Replies, Finish(j, reply),
         faults' \in 0..MaxFaults, edits' = edits,
         \/ At(j, "thread") /\ posted' = posted
            /\ \E t \in ThreadIds : InsertThread(t, Mail[j].inbox, jobs[j].tenant)
         \/ At(j, "message") /\ InsertOwnMessage(j)
         \/ At(j, "record") /\ posted' = posted /\ RecordMember(jobs[j].thread)
  PROVE  IInv'
<1>1. PICK r \in Job : jobs' = [jobs EXCEPT ![j] = r] /\ AimsHome(r, Mail[j])'
  BY FinishedRecord
<1>2. /\ TablesInv' /\ posted' \subseteq Inboxes \X Mids
      /\ \A u, k, v : Homed(u, k, v) => Homed(u, k, v)'
  BY WriteEffect
<1>3. BoundsInv'
  BY <1>2 DEF IInv, BoundsInv
<1> QED
  BY <1>1, <1>2, <1>3, JobStep

LEMMA StoreMessageInv ==
  ASSUME IInv, NEW j \in Jobs, StoreMessage(j)
  PROVE  IInv'
<1>1. CASE jobs[j].opens
  BY <1>1, WriteAndFinish DEF StoreMessage, Replies, IInv, BoundsInv
<1>2. CASE ~jobs[j].opens
  <2>1. jobs[j] \in Job /\ AimsHome(jobs[j], Mail[j])
    BY DEF IInv
  <2>2. PICK r \in Job : r = [jobs[j] EXCEPT !.stage = "record"]
    BY <2>1 DEF Job, Stages
  <2>3. jobs' = [jobs EXCEPT ![j] = r]
    BY <1>2, <2>2 DEF StoreMessage, Go, IInv
  <2>4. /\ TablesInv' /\ posted' \subseteq Inboxes \X Mids
        /\ \A u, k, v : Homed(u, k, v) => Homed(u, k, v)'
    BY WriteEffect DEF StoreMessage
  <2>5. AimsHome(r, Mail[j])
    BY <2>1, <2>2 DEF AimsHome, Job, StoreMessage, At
  <2>6. AimsHome(r, Mail[j])'
    BY <2>4, <2>5 DEF AimsHome
  <2>7. BoundsInv'
    BY <2>4 DEF StoreMessage, IInv, BoundsInv
  <2> QED
    BY <2>3, <2>4, <2>6, <2>7, JobStep
<1> QED
  BY <1>1, <1>2

LEMMA WriteInv ==
  ASSUME IInv, NEW j \in Jobs, Write(j)
  PROVE  IInv'
<1>1. jobs[j] \in Job /\ AimsHome(jobs[j], Mail[j])
      /\ faults \in 0..MaxFaults
  BY DEF IInv, BoundsInv
<1>2. CASE Assign(j)
  <2>1. CASE Joined(j) = {}
             /\ jobs' = [jobs EXCEPT ![j].stage = "thread", ![j].opens = TRUE,
                                     ![j].index = EmptyIndex]
    <3>1. PICK r \in Job : r = [jobs[j] EXCEPT !.stage = "thread", !.opens = TRUE,
                                               !.index = EmptyIndex]
      BY <1>1 DEF Job, Stages, EmptyIndex
    <3>2. jobs' = [jobs EXCEPT ![j] = r]
      BY <2>1, <3>1 DEF IInv
    <3>3. AimsHome(r, Mail[j])
      BY <1>1, <1>2, <3>1 DEF AimsHome, Job, EmptyIndex, Assign, At
    <3> QED
      BY <1>1, <1>2, <3>2, <3>3, LocalStep DEF Assign
  <2>2. ASSUME NEW t \in Joined(j),
               jobs' = [jobs EXCEPT ![j].stage = "message", ![j].thread = t,
                                    ![j].index = EmptyIndex]
        PROVE  IInv'
    <3>1. t \in ThreadIds /\ Homed(t, Mail[j], jobs[j].tenant)
      BY JoinedIsHomed
    <3>2. PICK r \in Job : r = [jobs[j] EXCEPT !.stage = "message", !.thread = t,
                                               !.index = EmptyIndex]
      BY <1>1, <3>1 DEF Job, Stages, EmptyIndex
    <3>3. jobs' = [jobs EXCEPT ![j] = r]
      BY <2>2, <3>2 DEF IInv
    <3>4. AimsHome(r, Mail[j])
      BY <1>1, <1>2, <3>1, <3>2 DEF AimsHome, Job, EmptyIndex, Assign, At
    <3> QED
      BY <1>1, <1>2, <3>3, <3>4, LocalStep DEF Assign
  <2> QED
    BY <1>2, <2>1, <2>2 DEF Assign
<1>3. CASE OpenThread(j)
  BY <1>3, OpenThreadInv
<1>4. CASE OpenThreadFails(j)
  BY <1>1, <1>4, FinishInv DEF OpenThreadFails, StoreErrorReply, Replies
<1>5. CASE StoreMessage(j)
  BY <1>5, StoreMessageInv
<1>6. CASE StoreMessageDuplicate(j)
  BY <1>1, <1>6, FinishInv DEF StoreMessageDuplicate, Replies
<1>7. CASE StoreMessageFails(j)
  BY <1>1, <1>7, FinishInv DEF StoreMessageFails, StoreErrorReply, Replies
<1>8. CASE CountMember(j)
  BY <1>1, <1>8, WriteAndFinish DEF CountMember, Replies
<1>9. CASE CountMemberMissing(j)
  BY <1>1, <1>9, FinishInv DEF CountMemberMissing, Replies
<1> QED
  BY <1>2, <1>3, <1>4, <1>5, <1>6, <1>7, <1>8, <1>9 DEF Write

LEMMA FaultInv ==
  ASSUME IInv, NEW j \in Jobs, Fault(j)
  PROVE  IInv'
<1>1. faults' \in 0..MaxFaults /\ edits' = edits
  BY BoundsAssumption DEF Fault, IInv, BoundsInv
<1>2. StoreErrorReply(j) \in Replies /\ "aborted" \in Replies
  BY DEF StoreErrorReply, Replies
<1>3. CASE FailsWithoutEffect(j)
  <2>1. {"failed", "unresolved"} \subseteq Replies
    BY DEF Replies
  <2>2. \E reply \in Replies : Finish(j, reply)
    BY <1>2, <1>3, <2>1 DEF FailsWithoutEffect
  <2> QED BY <1>1, <1>3, <2>2, FinishInv DEF FailsWithoutEffect
<1>4. CASE AcknowledgementLost(j)
  BY <1>1, <1>2, <1>4, WriteAndFinish DEF AcknowledgementLost
<1> QED
  BY <1>3, <1>4 DEF Fault

LEMMA RetryInv ==
  ASSUME IInv, NEW j \in Jobs, SenderRetries(j)
  PROVE  IInv'
<1>1. PICK r \in Job : r = IdleJob
  BY DEF IdleJob, Job, EmptyIndex, Stages, Replies
<1>2. AimsHome(r, Mail[j])
  BY <1>1 DEF IdleJob, AimsHome, EmptyIndex
<1>3. jobs' = [jobs EXCEPT ![j] = r]
  BY <1>1 DEF SenderRetries
<1> QED
  BY <1>2, <1>3, LocalStep DEF SenderRetries, IInv, BoundsInv

(* A user's edit touches no job but for the ghost.                         *)
LEMMA UserEditInv ==
  ASSUME IInv, UserEdit
  PROVE  IInv'
<1>1. /\ TablesInv'
      /\ \A u, k, v : Homed(u, k, v) => Homed(u, k, v)'
  <2>1. \A b : Mixed(b) => Mixed(b)'
    BY MixedStays DEF UserEdit
  <2> QED
    BY <2>1, DeleteMessageInv, DeleteThreadInv, DeleteInboxInv, CreateInboxInv DEF UserEdit, IInv
<1>2. BoundsInv'
  BY BoundsAssumption DEF UserEdit, IInv, BoundsInv
<1>3. ASSUME NEW j \in Jobs
      PROVE  jobs'[j] \in Job /\ AimsHome(jobs[j], Mail[j])'
  <2>1. jobs[j] \in Job /\ AimsHome(jobs[j], Mail[j])
    BY DEF IInv
  <2>2. PICK p \in SUBSET ThreadIds : jobs'[j] = [jobs[j] EXCEPT !.parent = p]
    BY <2>1 DEF UserEdit, Job
  <2>3. jobs'[j] \in Job
    BY <2>1, <2>2 DEF Job
  <2>4. /\ jobs'[j].stage = jobs[j].stage /\ jobs'[j].index = jobs[j].index
        /\ jobs'[j].thread = jobs[j].thread /\ jobs'[j].tenant = jobs[j].tenant
    BY <2>1, <2>2 DEF Job
  <2> QED
    BY <1>1, <2>1, <2>3, <2>4 DEF AimsHome
<1>4. jobs' \in [Jobs -> Job]
  BY <1>3 DEF UserEdit
<1> QED
  BY <1>1, <1>2, <1>3, <1>4 DEF IInv

(***************************************************************************)
(* The theorems.                                                           *)
(***************************************************************************)
THEOREM Inductive == Spec => []IInv
<1>1. Init => IInv
  <2> SUFFICES ASSUME Init PROVE IInv
    OBVIOUS
  <2>1. TablesInv
    BY MailAssumption DEF Init, TablesInv, TablesTypeOK, ThreadsSpanOneInbox
  <2>2. BoundsInv
    BY BoundsAssumption DEF Init, BoundsInv
  <2>3. IdleJob \in Job
    BY DEF IdleJob, Job, EmptyIndex, Stages, Replies
  <2>4. ASSUME NEW j \in Jobs PROVE AimsHome(jobs[j], Mail[j])
    BY DEF Init, IdleJob, AimsHome, EmptyIndex
  <2> QED
    BY <2>1, <2>2, <2>3, <2>4 DEF Init, IInv
<1>2. IInv /\ [Next]_vars => IInv'
  <2> SUFFICES ASSUME IInv, [Next]_vars PROVE IInv'
    OBVIOUS
  <2>1. ASSUME NEW j \in Jobs, Progress(j) PROVE IInv'
    <3>1. CASE RefuseUnknown(j)
      BY <3>1, FinishInv DEF RefuseUnknown, Replies, IInv, BoundsInv
    <3> QED
      BY <2>1, <3>1, IngestInv, SendInv, WriteInv DEF Progress
  <2>2. ASSUME NEW j \in Jobs, Fault(j) PROVE IInv'
    BY <2>2, FaultInv
  <2>3. ASSUME NEW j \in Jobs, SenderRetries(j) PROVE IInv'
    BY <2>3, RetryInv
  <2>4. CASE UserEdit
    BY <2>4, UserEditInv
  <2>5. CASE UNCHANGED vars
    <3>1. UNCHANGED <<inboxes, threads, messages, used, jobs, faults, edits, posted>>
      BY <2>5 DEF vars, tables
    <3>2. \A b : Mixed(b) <=> Mixed(b)'
      BY <3>1 DEF Mixed, Key
    <3> QED
      BY <3>1, <3>2 DEF IInv, TablesInv, TablesTypeOK, ThreadsSpanOneInbox,
                        BoundsInv, AimsHome, Homed
  <2> QED
    BY <2>1, <2>2, <2>3, <2>4, <2>5 DEF Next
<1> QED
  BY <1>1, <1>2, PTL DEF Spec

(* Every variable keeps its type.                                          *)
THEOREM TypeCorrect == Spec => []TypeOK
<1>1. IInv => TypeOK
  BY DEF IInv, TablesInv, BoundsInv, TypeOK
<1> QED
  BY <1>1, Inductive, PTL

(* R4: no thread ever has messages of two inboxes or two organizations,    *)
(* none has messages of two pods before a credential of the organization   *)
(* has answered there, and no message is without a thread.                 *)
THEOREM ThreadsNeverStraddle == Spec => []ThreadsSpanOneInbox
<1>1. IInv => ThreadsSpanOneInbox
  BY DEF IInv, TablesInv
<1> QED
  BY <1>1, Inductive, PTL

(***************************************************************************)
(* What a step of one job leaves alone.                                    *)
(***************************************************************************)

(* A job that finishes keeps what it carries.                              *)
LEMMA Finished ==
  ASSUME IInv, NEW j \in Jobs, NEW reply, Finish(j, reply)
  PROVE  /\ jobs'[j].stage = "done" /\ jobs'[j].reply = reply
         /\ jobs'[j].thread = jobs[j].thread /\ jobs'[j].opens = jobs[j].opens
         /\ jobs'[j].parent = jobs[j].parent /\ jobs'[j].tenant = jobs[j].tenant
         /\ \A k \in Jobs : k # j => jobs'[k] = jobs[k]
<1>1. jobs[j] \in Job /\ jobs \in [Jobs -> Job]
  BY DEF IInv
<1> QED BY <1>1 DEF Finish, Job

(* A job that goes on changes its stage only.                              *)
LEMMA Gone ==
  ASSUME IInv, NEW j \in Jobs, NEW s, Go(j, s)
  PROVE  /\ jobs'[j] = [jobs[j] EXCEPT !.stage = s]
         /\ jobs'[j].stage = s /\ jobs'[j].reply = jobs[j].reply
         /\ jobs'[j].thread = jobs[j].thread /\ jobs'[j].opens = jobs[j].opens
         /\ jobs'[j].parent = jobs[j].parent /\ jobs'[j].tenant = jobs[j].tenant
         /\ jobs'[j].index = jobs[j].index /\ jobs'[j].pending = jobs[j].pending
         /\ \A k \in Jobs : k # j => jobs'[k] = jobs[k]
<1>1. jobs[j] \in Job /\ jobs \in [Jobs -> Job]
  BY DEF IInv
<1> QED BY <1>1 DEF Go, Job

(***************************************************************************)
(* Delivery implements Mailbox.                                            *)
(***************************************************************************)

(* Whatever is held was posted, and a job that has only the count left to  *)
(* do has posted its message.                                              *)
PostedInv ==
  /\ DOMAIN messages \subseteq posted
  /\ \A j \in Jobs : At(j, "record") => Key(j) \in posted

(* The sender has an answer that says the mailbox has the message.       *)
Told(j) == At(j, "done") /\ jobs[j].reply \in {"stored", "duplicate"}

(* Mailbox's variables, as Delivery keeps them.                          *)
Answered == {Key(j) : j \in {i \in Jobs : At(i, "done")
                               /\ jobs[i].reply \in {"stored", "duplicate"}}}

Home == [t \in DOMAIN threads |-> threads[t].inbox]
Held == [k \in DOMAIN messages |-> messages[k].thread]

Mapped == <<Home, Held, used, posted, Answered>>

(* The senders who have an answer, when one job moves that had none.       *)
LEMMA AnsweredStep ==
  ASSUME NEW j \in Jobs, \A k \in Jobs : k # j => jobs'[k] = jobs[k], ~Told(j)
  PROVE  Answered' = IF Told(j)' THEN Answered \cup {Key(j)} ELSE Answered
<1>1. Answered = {Key(k) : k \in {i \in Jobs : Told(i)}}
  BY DEF Answered, Told
<1>2. Answered' = {Key(k) : k \in {i \in Jobs : Told(i)'}}
  BY DEF Answered, Told, Key, At
<1>3. \A k \in Jobs : k # j => (Told(k)' <=> Told(k))
  BY DEF Told, At
<1>4. CASE Told(j)'
  BY <1>1, <1>2, <1>3, <1>4
<1>5. CASE ~Told(j)'
  BY <1>1, <1>2, <1>3, <1>5
<1> QED BY <1>4, <1>5

(* A job that works has no answer yet.                                     *)
LEMMA QuietStep ==
  ASSUME PostedInv, NEW j \in Jobs, \A k \in Jobs : k # j => jobs'[k] = jobs[k],
         ~Told(j), UNCHANGED <<tables, posted>>,
         Told(j)' => Key(j) \in posted,
         At(j, "record")' => At(j, "record")
  PROVE  PostedInv' /\ [Box!Next]_Mapped
<1>1. PostedInv'
  BY DEF PostedInv, tables, At, Key
<1>2. CASE Told(j)'
  <2>1. Answered' = Answered \cup {Key(j)}
    BY <1>2, AnsweredStep
  <2>2. Mail[j].inbox \in Inboxes /\ Mail[j].mid \in Mids
    BY MailAssumption DEF Letter
  <2>3. Box!Answer(Mail[j].inbox, Mail[j].mid)
    BY <1>2, <2>1 DEF Box!Answer, Answered, Key, tables, Box!vars
  <2> QED BY <1>1, <2>2, <2>3 DEF Box!Next
<1>3. CASE ~Told(j)'
  BY <1>1, <1>3, AnsweredStep DEF Mapped, Home, Held, tables
<1> QED BY <1>2, <1>3

(* Opening a thread is opening a thread.                                   *)
LEMMA OpenMaps ==
  ASSUME PostedInv, NEW j \in Jobs, \A k \in Jobs : k # j => jobs'[k] = jobs[k],
         ~Told(j), ~Told(j)', UNCHANGED posted, ~At(j, "record")',
         NEW t \in ThreadIds, NEW w, InsertThread(t, Mail[j].inbox, w)
  PROVE  PostedInv' /\ [Box!Next]_Mapped
<1>1. PostedInv'
  BY DEF PostedInv, InsertThread, At, Key
<1>2. Answered' = Answered
  BY AnsweredStep
<1>3. Mail[j].inbox \in Inboxes
  BY MailAssumption DEF Letter
<1>4. Home' = Box!Extended(Home, t, Mail[j].inbox)
  BY DEF Home, InsertThread, Put, Box!Extended
<1>5. Held' = Held
  BY DEF Held, InsertThread
<1>6. Box!Open(t, Mail[j].inbox)
  BY <1>2, <1>4, <1>5 DEF Box!Open, InsertThread, Home, Held, Answered
<1> QED BY <1>1, <1>3, <1>6 DEF Box!Next

(* Storing a message posts it, in a thread that is at home in its inbox.   *)
LEMMA PostMaps ==
  ASSUME IInv, PostedInv, NEW j \in Jobs, \A k \in Jobs : k # j => jobs'[k] = jobs[k],
         At(j, "message"), InsertOwnMessage(j)
  PROVE  PostedInv' /\ [Box!Next]_Mapped
<1>1. PostedInv'
  BY DEF PostedInv, InsertOwnMessage, InsertMessage, Put, At, Key
<1>2. Answered' \in {Answered, Answered \cup {Key(j)}}
  BY AnsweredStep DEF Told, At
<1>3. Mail[j].inbox \in Inboxes /\ Mail[j].mid \in Mids /\ Homed(jobs[j].thread, Mail[j], jobs[j].tenant)
  BY WriterIsReady DEF At
<1>4. Held' = Box!Extended(Held, Key(j), jobs[j].thread)
  BY DEF Held, InsertOwnMessage, InsertMessage, Put, Box!Extended, Key
<1>5. Home' = Home /\ used' = used /\ posted' = posted \cup {Key(j)}
  BY DEF Home, InsertOwnMessage, InsertMessage
<1>6. jobs[j].thread \in DOMAIN Home /\ Home[jobs[j].thread] = Mail[j].inbox /\ Key(j) \notin DOMAIN Held
  BY <1>3 DEF Home, Held, InsertOwnMessage, InsertMessage, Homed, IsUniqueViolation, Key
<1>7. jobs[j].thread \in ThreadIds
  BY <1>6 DEF Home, IInv, TablesInv, TablesTypeOK
<1>8. PICK t \in ThreadIds : t = jobs[j].thread
  BY <1>7
<1>9. Box!Post(Mail[j].inbox, Mail[j].mid, t)
  BY <1>2, <1>4, <1>5, <1>6, <1>8 DEF Box!Post, Home, Held, Answered, Key
<1> QED BY <1>1, <1>3, <1>9 DEF Box!Next

(* Messages K and threads T go, and nothing else changes.                  *)
Goes(K, T) ==
  /\ K \subseteq DOMAIN messages /\ T \subseteq DOMAIN threads
  /\ \A k \in DOMAIN messages : messages[k].thread \in T => k \in K
  /\ DOMAIN messages' = DOMAIN messages \ K /\ DOMAIN threads' = DOMAIN threads \ T
  /\ \A k \in DOMAIN messages' : messages'[k] = messages[k]
  /\ \A t \in DOMAIN threads' : threads'[t] = threads[t]
  /\ UNCHANGED <<used, posted>>

(* Taking messages and threads away so is a removal of Mailbox.          *)
LEMMA RemoveMaps ==
  ASSUME PostedInv, NEW K, NEW T, Goes(K, T), Answered' = Answered
  PROVE  [Box!Next]_Mapped
<1>1. Home' = [t \in DOMAIN Home \ T |-> Home[t]]
  BY DEF Home, Goes
<1>2. Held' = [k \in DOMAIN Held \ K |-> Held[k]]
  BY DEF Held, Goes
<1>3. \A k \in DOMAIN Held : Held[k] \in T => k \in K
  BY DEF Held, Goes
<1>4. Box!Remove(K, T)
  BY <1>1, <1>2, <1>3 DEF Box!Remove, Home, Held, Answered, Goes
<1>5. /\ DOMAIN [k \in DOMAIN messages |-> messages[k].thread] = DOMAIN messages
      /\ DOMAIN [t \in DOMAIN threads |-> threads[t].inbox] = DOMAIN threads
  OBVIOUS
<1>6. K \in SUBSET DOMAIN messages /\ T \in SUBSET DOMAIN threads
  BY DEF Goes
<1>7. Box!Next
  BY <1>4, <1>5, <1>6, Zenon DEF Box!Next
<1> QED BY <1>7

(* What users delete goes, a thread with all its messages.                 *)
LEMMA EditGoes ==
  ASSUME IInv, UserEdit
  PROVE  \/ \E K \in SUBSET DOMAIN messages, T \in SUBSET DOMAIN threads : Goes(K, T)
         \/ UNCHANGED <<threads, messages, used, posted>>
<1>1. posted' = posted
  BY DEF UserEdit
<1>2. ASSUME NEW key, DeleteMessage(key) PROVE Goes({key}, {})
  BY <1>1, <1>2 DEF DeleteMessage, Goes, Keep
<1>3. ASSUME NEW t, DeleteThread(t) PROVE Goes({k \in DOMAIN messages : messages[k].thread = t}, {t})
  BY <1>1, <1>3 DEF DeleteThread, Goes, Keep
<1>4. ASSUME NEW i, DeleteInbox(i)
      PROVE  Goes({k \in DOMAIN messages : k[1] = i \/ threads[messages[k].thread].inbox = i},
                  {t \in DOMAIN threads : threads[t].inbox = i})
  BY <1>1, <1>4 DEF DeleteInbox, Goes, Keep
<1>5. ASSUME NEW i, NEW w, CreateInbox(i, w) PROVE UNCHANGED <<threads, messages, used, posted>>
  BY <1>1, <1>5 DEF CreateInbox
<1>6. CASE \E key \in Inboxes \X Mids : DeleteMessage(key)
  <2>1. PICK key \in Inboxes \X Mids : DeleteMessage(key)
    BY <1>6
  <2>2. {key} \in SUBSET DOMAIN messages /\ {} \in SUBSET DOMAIN threads
    BY <2>1 DEF DeleteMessage
  <2> QED BY <1>2, <2>1, <2>2
<1>7. CASE \E t \in ThreadIds : DeleteThread(t)
  <2>1. PICK t \in ThreadIds : DeleteThread(t)
    BY <1>7
  <2>2. PICK K : K = {k \in DOMAIN messages : messages[k].thread = t}
    OBVIOUS
  <2>3. Goes(K, {t})
    BY <1>1, <2>1, <2>2 DEF DeleteThread, Goes, Keep
  <2>4. K \in SUBSET DOMAIN messages /\ {t} \in SUBSET DOMAIN threads
    BY <2>3 DEF Goes
  <2> QED BY <2>3, <2>4
<1>8. CASE \E i \in Inboxes : DeleteInbox(i)
  <2>1. PICK i \in Inboxes : DeleteInbox(i)
    BY <1>8
  <2>2. PICK K : K = {k \in DOMAIN messages :
                        k[1] = i \/ threads[messages[k].thread].inbox = i}
    OBVIOUS
  <2>3. PICK T : T = {t \in DOMAIN threads : threads[t].inbox = i}
    OBVIOUS
  <2>4. Goes(K, T)
    BY <1>1, <2>1, <2>2, <2>3 DEF DeleteInbox, Goes, Keep
  <2>5. K \in SUBSET DOMAIN messages /\ T \in SUBSET DOMAIN threads
    BY <2>4 DEF Goes
  <2> QED BY <2>4, <2>5
<1> QED BY <1>5, <1>6, <1>7, <1>8 DEF UserEdit

(* What a user does to the tables is a removal of Mailbox, or nothing.   *)
LEMMA EditMaps ==
  ASSUME IInv, PostedInv, UserEdit
  PROVE  PostedInv' /\ [Box!Next]_Mapped
<1>1. ASSUME NEW j \in Jobs
      PROVE  jobs'[j].stage = jobs[j].stage /\ jobs'[j].reply = jobs[j].reply
  <2>1. jobs[j] \in Job
    BY DEF IInv
  <2> QED BY <2>1 DEF UserEdit, Job
<1>2. Answered' = Answered
  BY <1>1 DEF Answered, At, Key
<1>3. CASE UNCHANGED <<threads, messages, used, posted>>
  BY <1>1, <1>2, <1>3 DEF PostedInv, At, Key, Mapped, Home, Held
<1>4. ASSUME NEW K, NEW T, Goes(K, T)
      PROVE  PostedInv' /\ [Box!Next]_Mapped
  <2>1. PostedInv'
    BY <1>1, <1>4 DEF PostedInv, Goes, At, Key
  <2> QED BY <1>2, <1>4, <2>1, RemoveMaps
<1> QED BY <1>3, <1>4, EditGoes

(* Every step of Delivery is a step of Mailbox, or none.                   *)
LEMMA StepMaps ==
  ASSUME IInv, PostedInv, [Next]_vars
  PROVE  PostedInv' /\ [Box!Next]_Mapped
<1> DEFINE Goal == PostedInv' /\ [Box!Next]_Mapped
<1>1. ASSUME NEW j \in Jobs, NEW reply, Finish(j, reply), UNCHANGED <<tables, posted>>,
             ~Told(j), reply \in {"stored", "duplicate"} => Key(j) \in posted
      PROVE  Goal
  <2>1. /\ \A k \in Jobs : k # j => jobs'[k] = jobs[k]
        /\ Told(j)' => Key(j) \in posted
        /\ ~At(j, "record")'
    BY <1>1, Finished DEF Told, At
  <2> QED BY <1>1, <2>1, QuietStep
<1>2. ASSUME NEW j \in Jobs, \A k \in Jobs : k # j => jobs'[k] = jobs[k],
             jobs'[j].stage \notin {"record", "done"},
             UNCHANGED <<tables, posted>>, ~Told(j)
      PROVE  Goal
  <2>1. ~Told(j)' /\ ~At(j, "record")'
    BY <1>2 DEF Told, At
  <2> QED BY <1>2, <2>1, QuietStep
<1> HIDE DEF Goal
<1>3. ASSUME NEW j \in Jobs, Ingest(j) PROVE Goal
  <2>1. ~Told(j) /\ jobs[j] \in Job
    BY <1>3 DEF Ingest, AcceptRcpt, RefuseContent, CheckDuplicate, LookupLink, LookupsDone,
                Told, At, IInv
  <2>2. CASE AcceptRcpt(j)
    <3>1. (\A k \in Jobs : k # j => jobs'[k] = jobs[k]) /\ jobs'[j].stage \notin {"record", "done"}
      BY <2>1, <2>2 DEF AcceptRcpt, IInv, Job
    <3> QED BY <1>2, <2>1, <2>2, <3>1 DEF AcceptRcpt
  <2>3. CASE RefuseContent(j)
    BY <1>1, <2>1, <2>3 DEF RefuseContent
  <2>4. CASE CheckDuplicate(j) /\ Visible(Key(j), Reach(j, jobs[j].tenant))
    BY <1>1, <2>1, <2>4 DEF CheckDuplicate, Visible, PostedInv
  <2>5. CASE CheckDuplicate(j) /\ ~Visible(Key(j), Reach(j, jobs[j].tenant))
    <3>1. (\A k \in Jobs : k # j => jobs'[k] = jobs[k]) /\ jobs'[j].stage \notin {"record", "done"}
      BY <2>1, <2>5 DEF CheckDuplicate, IInv, Job
    <3> QED BY <1>2, <2>1, <2>5, <3>1 DEF CheckDuplicate
  <2>6. ASSUME NEW link \in Mids, LookupLink(j, link) PROVE Goal
    <3>1. (\A k \in Jobs : k # j => jobs'[k] = jobs[k]) /\ jobs'[j].stage = "links"
      BY <2>1, <2>6 DEF LookupLink, IInv, Job, At
    <3> QED BY <1>2, <2>1, <2>6, <3>1 DEF LookupLink
  <2>7. CASE LookupsDone(j)
    <3>1. (\A k \in Jobs : k # j => jobs'[k] = jobs[k]) /\ jobs'[j].stage \notin {"record", "done"}
      BY <2>1, <2>7 DEF LookupsDone, Go, IInv, Job
    <3> QED BY <1>2, <2>1, <2>7, <3>1 DEF LookupsDone
  <2> QED BY <1>3, <2>2, <2>3, <2>4, <2>5, <2>6, <2>7 DEF Ingest
<1>4. ASSUME NEW j \in Jobs, Send(j) PROVE Goal
  <2>1. ~Told(j) /\ jobs[j] \in Job
    BY <1>4 DEF Send, BeginSend, DeliverOut, SnapshotIndex, Told, At, IInv
  <2>2. CASE BeginSend(j)
    <3>1. (\A k \in Jobs : k # j => jobs'[k] = jobs[k]) /\ jobs'[j].stage \notin {"record", "done"}
      BY <2>1, <2>2 DEF BeginSend, IInv, Job
    <3> QED BY <1>2, <2>1, <2>2, <3>1 DEF BeginSend
  <2>3. CASE DeliverOut(j) /\ Go(j, "snapshot")
    <3>1. (\A k \in Jobs : k # j => jobs'[k] = jobs[k]) /\ jobs'[j].stage \notin {"record", "done"}
      BY <2>1, <2>3 DEF DeliverOut, Go, IInv, Job
    <3> QED BY <1>2, <2>1, <2>3, <3>1 DEF DeliverOut
  <2>4. CASE DeliverOut(j) /\ Finish(j, "rejected")
    BY <1>1, <2>1, <2>4 DEF DeliverOut
  <2>5. CASE SnapshotIndex(j)
    <3>1. (\A k \in Jobs : k # j => jobs'[k] = jobs[k]) /\ jobs'[j].stage \notin {"record", "done"}
      BY <2>1, <2>5 DEF SnapshotIndex, IInv, Job
    <3> QED BY <1>2, <2>1, <2>5, <3>1 DEF SnapshotIndex
  <2> QED BY <1>4, <2>2, <2>3, <2>4, <2>5 DEF Send, DeliverOut
<1>5. ASSUME NEW j \in Jobs, NEW t \in ThreadIds,
             InsertThread(t, Mail[j].inbox, jobs[j].tenant), posted' = posted,
             \A k \in Jobs : k # j => jobs'[k] = jobs[k],
             ~Told(j), ~Told(j)', ~At(j, "record")'
      PROVE  Goal
  <2>1. PICK w : w = jobs[j].tenant
    OBVIOUS
  <2> QED BY <1>5, <2>1, OpenMaps DEF Goal
<1>6. ASSUME NEW j \in Jobs, RecordMember(jobs[j].thread), posted' = posted,
             \A k \in Jobs : k # j => jobs'[k] = jobs[k],
             ~Told(j), At(j, "record"), ~At(j, "record")'
      PROVE  Goal
  <2>1. Home' = Home /\ Held' = Held /\ used' = used
    BY <1>6 DEF RecordMember, Home, Held, IInv, TablesInv, TablesTypeOK, ThreadRow
  <2>2. Key(j) \in posted
    BY <1>6 DEF PostedInv
  <2>3. PostedInv'
    BY <1>6 DEF PostedInv, RecordMember, At, Key
  <2>4. CASE Told(j)'
    <3>1. Answered' = Answered \cup {Key(j)}
      BY <1>6, <2>4, AnsweredStep
    <3>2. Mail[j].inbox \in Inboxes /\ Mail[j].mid \in Mids
      BY MailAssumption DEF Letter
    <3>3. Box!Answer(Mail[j].inbox, Mail[j].mid)
      BY <1>6, <2>1, <2>2, <3>1 DEF Box!Answer, Answered, Home, Held, Key
    <3> QED BY <2>3, <3>2, <3>3 DEF Box!Next, Goal
  <2>5. CASE ~Told(j)'
    <3>1. Answered' = Answered
      BY <1>6, <2>5, AnsweredStep
    <3> QED BY <1>6, <2>1, <2>3, <3>1 DEF Mapped, Goal
  <2> QED BY <2>4, <2>5
<1>7. ASSUME NEW j \in Jobs, Write(j) PROVE Goal
  <2>1. ~Told(j) /\ jobs[j] \in Job
    BY <1>7 DEF Write, Assign, OpenThread, OpenThreadFails, StoreMessage, StoreMessageDuplicate,
                StoreMessageFails, CountMember, CountMemberMissing, Told, At, IInv
  <2>2. CASE Assign(j)
    <3>1. (\A k \in Jobs : k # j => jobs'[k] = jobs[k])
          /\ jobs'[j].stage \in {"thread", "message"}
      BY <2>1, <2>2 DEF Assign, IInv, Job
    <3> QED BY <1>2, <2>1, <2>2, <3>1 DEF Assign
  <2>3. CASE OpenThread(j)
    <3>1. PICK t \in ThreadIds :
             /\ InsertThread(t, Mail[j].inbox, jobs[j].tenant)
             /\ jobs' = [jobs EXCEPT ![j].stage = "message", ![j].thread = t]
      BY <2>3 DEF OpenThread
    <3>2. /\ \A k \in Jobs : k # j => jobs'[k] = jobs[k]
          /\ jobs'[j].stage = "message"
      BY <2>1, <3>1 DEF IInv, Job
    <3> QED BY <1>5, <2>1, <2>3, <3>1, <3>2 DEF OpenThread, Told, At
  <2>4. CASE OpenThreadFails(j)
    BY <1>1, <2>1, <2>4 DEF OpenThreadFails, StoreErrorReply
  <2>5. CASE StoreMessage(j)
    <3>1. \A k \in Jobs : k # j => jobs'[k] = jobs[k]
      BY <2>5, Finished, Gone DEF StoreMessage
    <3> QED BY <2>5, <3>1, PostMaps DEF StoreMessage, Goal
  <2>6. CASE StoreMessageDuplicate(j)
    BY <1>1, <2>1, <2>6 DEF StoreMessageDuplicate, IsUniqueViolation, PostedInv, Key
  <2>7. CASE StoreMessageFails(j)
    BY <1>1, <2>1, <2>7 DEF StoreMessageFails, StoreErrorReply
  <2>8. CASE CountMember(j)
    <3>1. (\A k \in Jobs : k # j => jobs'[k] = jobs[k]) /\ ~At(j, "record")'
      BY <2>8, Finished DEF CountMember, At
    <3> QED BY <1>6, <2>1, <2>8, <3>1 DEF CountMember
  <2>9. CASE CountMemberMissing(j)
    BY <1>1, <2>1, <2>9 DEF CountMemberMissing, PostedInv
  <2> QED BY <1>7, <2>2, <2>3, <2>4, <2>5, <2>6, <2>7, <2>8, <2>9 DEF Write
<1>8. ASSUME NEW j \in Jobs, Fault(j) PROVE Goal
  <2>1. ~Told(j)
    BY <1>8 DEF Fault, FailsWithoutEffect, AcknowledgementLost, Told, At
  <2>2. PICK reply : Finish(j, reply) /\ reply \notin {"stored", "duplicate"}
    BY <1>8 DEF Fault, FailsWithoutEffect, AcknowledgementLost, StoreErrorReply
  <2>3. /\ \A k \in Jobs : k # j => jobs'[k] = jobs[k]
        /\ ~Told(j)' /\ ~At(j, "record")'
    BY <2>2, Finished DEF Told, At
  <2>4. CASE FailsWithoutEffect(j)
    BY <1>1, <2>1, <2>2, <2>4 DEF FailsWithoutEffect
  <2>5. CASE AcknowledgementLost(j)
    BY <1>5, <1>6, <2>1, <2>3, <2>5, PostMaps DEF AcknowledgementLost, Goal
  <2> QED BY <1>8, <2>4, <2>5 DEF Fault
<1>9. ASSUME NEW j \in Jobs, SenderRetries(j) PROVE Goal
  <2>1. (\A k \in Jobs : k # j => jobs'[k] = jobs[k]) /\ jobs'[j].stage = "idle"
    BY <1>9 DEF SenderRetries, IInv, IdleJob
  <2> QED BY <1>2, <1>9, <2>1 DEF SenderRetries, Told
<1>10. ASSUME NEW j \in Jobs, RefuseUnknown(j) PROVE Goal
  BY <1>1, <1>10 DEF RefuseUnknown, Told, At
<1>11. CASE UserEdit
  BY <1>11, EditMaps DEF Goal
<1>12. CASE UNCHANGED vars
  <2>1. UNCHANGED <<threads, messages, used, posted, jobs>>
    BY <1>12 DEF vars, tables
  <2>2. PostedInv'
    BY <2>1 DEF PostedInv, At, Key
  <2>3. Home' = Home /\ Held' = Held
    BY <2>1 DEF Home, Held
  <2>4. Answered' = Answered
    BY <2>1 DEF Answered, At, Key
  <2> QED BY <2>1, <2>2, <2>3, <2>4 DEF Mapped, Goal
<1>13. ASSUME NEW j \in Jobs, Progress(j) \/ Fault(j) \/ SenderRetries(j) PROVE Goal
  BY <1>3, <1>4, <1>7, <1>8, <1>9, <1>10, <1>13 DEF Progress
<1>14. CASE Next
  <2>1. CASE \E j \in Jobs : Progress(j) \/ Fault(j) \/ SenderRetries(j)
    <3>1. PICK j \in Jobs : Progress(j) \/ Fault(j) \/ SenderRetries(j)
      BY <2>1
    <3> QED BY <1>13, <3>1 DEF Goal
  <2> QED BY <1>11, <1>14, <2>1 DEF Next
<1>15. Next \/ UNCHANGED vars
  OBVIOUS
<1> QED BY <1>12, <1>14, <1>15

(* Delivery implements Mailbox, whatever letters are in flight: a message  *)
(* is posted once, in one step, into a thread of its inbox, never moves,   *)
(* and no sender is told that the mailbox has what it never had.           *)
THEOREM MailboxImplemented == Spec => ImplementsMailbox
<1>1. Init => PostedInv /\ Box!Init
  <2> SUFFICES ASSUME Init PROVE PostedInv /\ Box!Init
    OBVIOUS
  <2>1. \A j \in Jobs : jobs[j].stage = "idle"
    BY DEF Init, IdleJob
  <2>2. PostedInv
    BY <2>1 DEF Init, PostedInv, At
  <2>3. Answered = {}
    BY <2>1 DEF Answered, At
  <2>4. Home = [t \in {} |-> t] /\ Held = [k \in {} |-> k] /\ used = {} /\ posted = {}
    BY DEF Init, Home, Held
  <2> QED BY <2>2, <2>3, <2>4 DEF Box!Init, Home, Held, Answered
<1>2. IInv /\ PostedInv /\ [Next]_vars => PostedInv' /\ [Box!Next]_Mapped
  BY StepMaps
<1>3. IInv /\ PostedInv /\ [Next]_vars => PostedInv' /\ [Box!Next]_(Box!vars)
  BY <1>2 DEF Mapped, Home, Held, Answered, Box!vars
<1> QED
  BY <1>1, <1>3, Inductive, PTL DEF Spec, ImplementsMailbox, Box!Spec

(***************************************************************************)
(* A reply joins its parent.                                               *)
(***************************************************************************)

(* No list of an inbox is cut short.                                       *)
Roomy ==
  \A i \in Inboxes, S \in SUBSET Tenants : Cardinality(Listed(i, S)) <= Window

(* While the parent is held, a job's index names its thread wherever the   *)
(* job has looked, and it is the thread the job joins.                     *)
Pointed(j, p) ==
  /\ Visible(<<Mail[j].inbox, p>>, Reach(j, jobs[j].tenant))
  /\ jobs[j].parent = {messages[<<Mail[j].inbox, p>>].thread}
  /\ At(j, "links") => p \in jobs[j].pending \/ jobs[j].index[p] \in jobs[j].parent
  /\ At(j, "assign") => jobs[j].index[p] \in jobs[j].parent
  /\ ~At(j, "thread")
  /\ At(j, "message") => jobs[j].thread \in jobs[j].parent

ParentInv ==
  /\ IsFiniteSet(DOMAIN messages)
  /\ \A j \in Jobs : jobs[j].parent # {} =>
       \E p \in Mail[j].inReplyTo \ {Mail[j].mid} : Pointed(j, p)

(* What is held stays as it is.                                            *)
Grows ==
  \A key \in DOMAIN messages : key \in DOMAIN messages' /\ messages'[key] = messages[key]

(* Storing a message adds its key, and says in which thread it is.       *)
LEMMA StoreGrows ==
  ASSUME NEW j, InsertOwnMessage(j)
  PROVE  /\ Grows
         /\ DOMAIN messages' = DOMAIN messages \cup {Key(j)}
         /\ Key(j) \notin DOMAIN messages /\ messages'[Key(j)].thread = jobs[j].thread
BY DEF InsertOwnMessage, InsertMessage, Grows, Put, IsUniqueViolation, Key

(* A job's parent is as it was if only the job itself has moved on.        *)
LEMMA PointedKept ==
  ASSUME NEW j, NEW p, Pointed(j, p), Grows,
         jobs'[j].tenant = jobs[j].tenant, jobs'[j].parent = jobs[j].parent,
         At(j, "links")' => p \in jobs'[j].pending \/ jobs'[j].index[p] \in jobs[j].parent,
         At(j, "assign")' => jobs'[j].index[p] \in jobs[j].parent,
         ~At(j, "thread")',
         At(j, "message")' => jobs'[j].thread \in jobs[j].parent
  PROVE  Pointed(j, p)'
<1>1. <<Mail[j].inbox, p>> \in DOMAIN messages
  BY DEF Pointed, Visible
<1> QED BY <1>1 DEF Pointed, Visible, Grows

(* The step of one job.                                                    *)
LEMMA ParentStep ==
  ASSUME ParentInv, NEW j \in Jobs, \A k \in Jobs : k # j => jobs'[k] = jobs[k], Grows,
         IsFiniteSet(DOMAIN messages'),
         jobs'[j].parent # {} =>
           \E p \in Mail[j].inReplyTo \ {Mail[j].mid} : Pointed(j, p)'
  PROVE  ParentInv'
<1>1. ASSUME NEW k \in Jobs, k # j, jobs'[k].parent # {}
      PROVE  \E p \in Mail[k].inReplyTo \ {Mail[k].mid} : Pointed(k, p)'
  <2>1. PICK p \in Mail[k].inReplyTo \ {Mail[k].mid} : Pointed(k, p)
    BY <1>1 DEF ParentInv
  <2>2. Pointed(k, p)'
    BY <1>1, <2>1, PointedKept DEF Pointed, At
  <2> QED BY <2>2
<1> QED BY <1>1 DEF ParentInv

(* A job that finishes, or that goes on to the count, joins no thread.     *)
LEMMA ParentIdle ==
  ASSUME ParentInv, NEW j \in Jobs, \A k \in Jobs : k # j => jobs'[k] = jobs[k], Grows,
         IsFiniteSet(DOMAIN messages'),
         jobs'[j].tenant = jobs[j].tenant, jobs'[j].parent = jobs[j].parent,
         jobs'[j].stage \in {"done", "record", "snapshot"}
  PROVE  ParentInv'
<1>1. ASSUME NEW p \in Mail[j].inReplyTo \ {Mail[j].mid}, Pointed(j, p)
      PROVE  Pointed(j, p)'
  BY <1>1, PointedKept DEF At
<1>2. jobs'[j].parent # {} => \E p \in Mail[j].inReplyTo \ {Mail[j].mid} : Pointed(j, p)'
  BY <1>1 DEF ParentInv
<1> QED BY <1>2, ParentStep

(* The letter that begins has the thread of the parent it finds.           *)
LEMMA ParentFound ==
  ASSUME NEW j \in Jobs, NEW w, jobs'[j].parent = ParentThread(j, w), jobs'[j].tenant = w,
         jobs'[j].stage \in {"dup", "deliver"}, messages' = messages, jobs'[j].parent # {}
  PROVE  \E p \in Mail[j].inReplyTo \ {Mail[j].mid} : Pointed(j, p)'
<1>1. PICK p \in Mail[j].inReplyTo \ {Mail[j].mid} : Visible(<<Mail[j].inbox, p>>, Reach(j, w))
  BY DEF ParentThread
<1>2. \A q \in Mail[j].inReplyTo : q = p
  BY MailAssumption
<1>3. jobs'[j].parent = {messages[<<Mail[j].inbox, p>>].thread}
  BY <1>1, <1>2 DEF ParentThread
<1>4. Pointed(j, p)'
  BY <1>1, <1>3 DEF Pointed, Visible, At
<1> QED BY <1>4

(* A list that is not cut short names every message it could.              *)
LEMMA ListedAll ==
  ASSUME IInv, ParentInv, Roomy, NEW i \in Inboxes, NEW S \in SUBSET Tenants,
         NEW p \in Mids, Visible(<<i, p>>, S)
  PROVE  p \in OldestListed(i, S)
<1> DEFINE L == Listed(i, S)
           B == {n \in L : Rank[n] < Rank[p]}
<1>1. IsFiniteSet(L)
  <2>1. [m \in L |-> <<i, m>>] \in Injection(L, DOMAIN messages)
    BY DEF Injection, IsInjective, Listed, Visible
  <2> QED BY <2>1, FS_Injection DEF ParentInv
<1>2. p \in L
  BY DEF Listed
<1>3. p \notin B
  BY BoundsAssumption
<1>4. /\ IsFiniteSet(L \ {p}) /\ Cardinality(L \ {p}) = Cardinality(L) - 1
  BY <1>1, <1>2, FS_RemoveElement
<1>5. IsFiniteSet(B) /\ Cardinality(B) <= Cardinality(L \ {p})
  BY <1>3, <1>4, FS_Subset
<1>6. Cardinality(L) <= Window /\ Cardinality(L) \in Nat /\ Cardinality(B) \in Nat
  BY <1>1, <1>5, FS_CardinalityType DEF Roomy
<1>7. Cardinality(B) < Window
  BY <1>4, <1>5, <1>6, BoundsAssumption
<1> QED BY <1>2, <1>7 DEF OldestListed

(* Whoever has the parent in the index joins the parent's thread.          *)
LEMMA JoinsParent ==
  ASSUME IInv, NEW j \in Jobs, NEW p \in Mail[j].inReplyTo \ {Mail[j].mid},
         At(j, "assign"), Pointed(j, p)
  PROVE  Joined(j) = jobs[j].parent
<1>1. \A q \in Mail[j].inReplyTo : q = p
  BY MailAssumption
<1>2. Mail[j].inReplyTo \ {Mail[j].mid} = {p}
  BY <1>1
<1>3. <<Mail[j].inbox, p>> \in DOMAIN messages
  BY DEF Pointed, Visible
<1>4. messages[<<Mail[j].inbox, p>>].thread \in ThreadIds
  BY <1>3 DEF IInv, TablesInv, TablesTypeOK, MessageRow
<1>5. jobs[j].index[p] = messages[<<Mail[j].inbox, p>>].thread
  BY DEF Pointed
<1>6. jobs[j].index[p] # NoThread
  BY <1>4, <1>5, NoneAssumption
<1>7. ThreadsNamed(jobs[j].index, Mail[j].mid, Mail[j].inReplyTo) = {jobs[j].index[p]}
  BY <1>2, <1>6 DEF ThreadsNamed
<1> QED BY <1>5, <1>7 DEF Joined, JoinedThreads, Pointed

(* The duplicate check and the lookups of an inbound letter.             *)
LEMMA ParentIngest ==
  ASSUME IInv, ParentInv, NEW j \in Jobs, Ingest(j)
  PROVE  ParentInv'
<1>1. /\ jobs[j] \in Job /\ jobs \in [Jobs -> Job]
      /\ Grows /\ messages' = messages /\ IsFiniteSet(DOMAIN messages')
  BY DEF IInv, Ingest, AcceptRcpt, RefuseContent, CheckDuplicate, LookupLink, LookupsDone,
         tables, Grows, ParentInv
<1>2. CASE AcceptRcpt(j)
  <2>1. /\ jobs'[j].parent = ParentThread(j, inboxes[Mail[j].inbox])
        /\ jobs'[j].tenant = inboxes[Mail[j].inbox] /\ jobs'[j].stage = "dup"
        /\ \A k \in Jobs : k # j => jobs'[k] = jobs[k]
    BY <1>1, <1>2 DEF AcceptRcpt, Job
  <2>2. PICK w : w = inboxes[Mail[j].inbox]
    OBVIOUS
  <2>3. jobs'[j].parent # {} => \E p \in Mail[j].inReplyTo \ {Mail[j].mid} : Pointed(j, p)'
    BY <1>1, <2>1, <2>2, ParentFound
  <2> QED BY <1>1, <2>1, <2>3, ParentStep
<1>3. CASE RefuseContent(j)
  BY <1>1, <1>3, Finished, ParentIdle DEF RefuseContent
<1>4. CASE CheckDuplicate(j) /\ Visible(Key(j), Reach(j, jobs[j].tenant))
  BY <1>1, <1>4, Finished, ParentIdle DEF CheckDuplicate
<1>5. CASE CheckDuplicate(j) /\ ~Visible(Key(j), Reach(j, jobs[j].tenant))
  <2>1. /\ jobs'[j].parent = jobs[j].parent /\ jobs'[j].tenant = jobs[j].tenant
        /\ jobs'[j].stage = "links" /\ Mail[j].inReplyTo \subseteq jobs'[j].pending
        /\ \A k \in Jobs : k # j => jobs'[k] = jobs[k]
    BY <1>1, <1>5 DEF CheckDuplicate, Job
  <2>2. ASSUME NEW p \in Mail[j].inReplyTo \ {Mail[j].mid}, Pointed(j, p)
        PROVE  Pointed(j, p)'
    BY <1>1, <2>1, <2>2, PointedKept DEF At
  <2>3. jobs'[j].parent # {} => \E p \in Mail[j].inReplyTo \ {Mail[j].mid} : Pointed(j, p)'
    BY <2>1, <2>2 DEF ParentInv
  <2> QED BY <1>1, <2>1, <2>3, ParentStep
<1>6. ASSUME NEW link \in Mids, LookupLink(j, link) PROVE ParentInv'
  <2>1. /\ jobs'[j].parent = jobs[j].parent /\ jobs'[j].tenant = jobs[j].tenant
        /\ jobs'[j].stage = "links" /\ jobs[j].stage = "links"
        /\ jobs'[j].pending = jobs[j].pending \ {link}
        /\ \A m \in Mids : jobs'[j].index[m] =
             IF m = link THEN ThreadOf(<<Mail[j].inbox, link>>, Reach(j, jobs[j].tenant)) ELSE jobs[j].index[m]
        /\ \A k \in Jobs : k # j => jobs'[k] = jobs[k]
    BY <1>1, <1>6 DEF LookupLink, Job, At
  <2>2. ASSUME NEW p \in Mail[j].inReplyTo \ {Mail[j].mid}, Pointed(j, p)
        PROVE  Pointed(j, p)'
    <3>1. p \in Mids
      BY MailAssumption DEF Letter
    <3>2. p \in jobs'[j].pending \/ jobs'[j].index[p] \in jobs[j].parent
      BY <2>1, <2>2, <3>1 DEF Pointed, At, ThreadOf
    <3> QED BY <1>1, <2>1, <2>2, <3>2, PointedKept DEF At
  <2>3. jobs'[j].parent # {} => \E p \in Mail[j].inReplyTo \ {Mail[j].mid} : Pointed(j, p)'
    BY <2>1, <2>2 DEF ParentInv
  <2> QED BY <1>1, <2>1, <2>3, ParentStep
<1>7. CASE LookupsDone(j)
  <2>1. /\ jobs'[j].parent = jobs[j].parent /\ jobs'[j].tenant = jobs[j].tenant
        /\ jobs'[j].stage = "assign" /\ jobs[j].stage = "links" /\ jobs[j].pending = {}
        /\ jobs'[j].index = jobs[j].index /\ \A k \in Jobs : k # j => jobs'[k] = jobs[k]
    BY <1>7, Gone DEF LookupsDone, At
  <2>2. ASSUME NEW p \in Mail[j].inReplyTo \ {Mail[j].mid}, Pointed(j, p)
        PROVE  Pointed(j, p)'
    <3>1. jobs'[j].index[p] \in jobs[j].parent
      BY <2>1, <2>2 DEF Pointed, At
    <3> QED BY <1>1, <2>1, <2>2, <3>1, PointedKept DEF At
  <2>3. jobs'[j].parent # {} => \E p \in Mail[j].inReplyTo \ {Mail[j].mid} : Pointed(j, p)'
    BY <2>1, <2>2 DEF ParentInv
  <2> QED BY <1>1, <2>1, <2>3, ParentStep
<1> QED BY <1>2, <1>3, <1>4, <1>5, <1>6, <1>7 DEF Ingest

(* A sent message is indexed from one list, which names its parent.      *)
LEMMA ParentSend ==
  ASSUME IInv, ParentInv, Roomy, NEW j \in Jobs, Send(j)
  PROVE  ParentInv'
<1>1. /\ jobs[j] \in Job /\ jobs \in [Jobs -> Job]
      /\ Grows /\ messages' = messages /\ IsFiniteSet(DOMAIN messages')
  BY DEF IInv, Send, BeginSend, DeliverOut, SnapshotIndex, tables, Grows, ParentInv
<1>2. CASE BeginSend(j)
  <2>1. /\ jobs'[j].parent = ParentThread(j, inboxes[Mail[j].inbox])
        /\ jobs'[j].tenant = inboxes[Mail[j].inbox] /\ jobs'[j].stage = "deliver"
        /\ \A k \in Jobs : k # j => jobs'[k] = jobs[k]
    BY <1>1, <1>2 DEF BeginSend, Job
  <2>2. PICK w : w = inboxes[Mail[j].inbox]
    OBVIOUS
  <2>3. jobs'[j].parent # {} => \E p \in Mail[j].inReplyTo \ {Mail[j].mid} : Pointed(j, p)'
    BY <1>1, <2>1, <2>2, ParentFound
  <2> QED BY <1>1, <2>1, <2>3, ParentStep
<1>3. CASE DeliverOut(j)
  BY <1>1, <1>3, Finished, Gone, ParentIdle DEF DeliverOut
<1>4. CASE SnapshotIndex(j)
  <2>1. /\ jobs'[j].parent = jobs[j].parent /\ jobs'[j].tenant = jobs[j].tenant
        /\ jobs'[j].stage = "assign"
        /\ \A m \in OldestListed(Mail[j].inbox, Reach(j, jobs[j].tenant)) \cap Mids :
             jobs'[j].index[m] = messages[<<Mail[j].inbox, m>>].thread
        /\ \A k \in Jobs : k # j => jobs'[k] = jobs[k]
    BY <1>1, <1>4 DEF SnapshotIndex, Job
  <2>2. ASSUME NEW p \in Mail[j].inReplyTo \ {Mail[j].mid}, Pointed(j, p)
        PROVE  Pointed(j, p)'
    <3>1. p \in Mids /\ Mail[j].inbox \in Inboxes
      BY MailAssumption DEF Letter
    <3>2. Reach(j, jobs[j].tenant) \in SUBSET Tenants
      BY <1>4 DEF IInv, AimsHome, SnapshotIndex, At, Reach
    <3>3. p \in OldestListed(Mail[j].inbox, Reach(j, jobs[j].tenant))
      BY <2>2, <3>1, <3>2, ListedAll DEF Pointed
    <3>4. jobs'[j].index[p] \in jobs[j].parent
      BY <2>1, <2>2, <3>1, <3>3 DEF Pointed
    <3> QED BY <1>1, <2>1, <2>2, <3>4, PointedKept DEF At
  <2>3. jobs'[j].parent # {} => \E p \in Mail[j].inReplyTo \ {Mail[j].mid} : Pointed(j, p)'
    BY <2>1, <2>2 DEF ParentInv
  <2> QED BY <1>1, <2>1, <2>3, ParentStep
<1> QED BY <1>2, <1>3, <1>4 DEF Send

(* The assignment: with the parent in the index, the parent's thread.    *)
LEMMA ParentAssign ==
  ASSUME IInv, ParentInv, NEW j \in Jobs, Assign(j)
  PROVE  ParentInv'
<1>1. /\ jobs[j] \in Job /\ jobs \in [Jobs -> Job]
      /\ Grows /\ messages' = messages /\ IsFiniteSet(DOMAIN messages')
  BY DEF IInv, Assign, tables, Grows, ParentInv
<1>2. /\ jobs'[j].parent = jobs[j].parent /\ jobs'[j].tenant = jobs[j].tenant
      /\ \/ jobs'[j].stage = "thread" /\ Joined(j) = {}
         \/ jobs'[j].stage = "message" /\ jobs'[j].thread \in Joined(j)
      /\ \A k \in Jobs : k # j => jobs'[k] = jobs[k]
  <2>1. CASE /\ Joined(j) = {}
             /\ jobs' = [jobs EXCEPT ![j].stage = "thread", ![j].opens = TRUE,
                                     ![j].index = EmptyIndex]
    BY <1>1, <2>1 DEF Job
  <2>2. ASSUME NEW t \in Joined(j),
               jobs' = [jobs EXCEPT ![j].stage = "message", ![j].thread = t,
                                    ![j].index = EmptyIndex]
        PROVE  /\ jobs'[j].parent = jobs[j].parent /\ jobs'[j].tenant = jobs[j].tenant
               /\ jobs'[j].stage = "message" /\ jobs'[j].thread = t
               /\ \A k \in Jobs : k # j => jobs'[k] = jobs[k]
    BY <1>1, <2>2 DEF Job
  <2> QED BY <2>1, <2>2 DEF Assign
<1>3. ASSUME NEW p \in Mail[j].inReplyTo \ {Mail[j].mid}, Pointed(j, p)
      PROVE  Pointed(j, p)'
  <2>1. Joined(j) = jobs[j].parent
    BY <1>3, JoinsParent DEF Assign
  <2>2. jobs[j].parent # {}
    BY <1>3 DEF Pointed
  <2> QED BY <1>1, <1>2, <1>3, <2>1, <2>2, PointedKept DEF At
<1>4. jobs'[j].parent # {} => \E p \in Mail[j].inReplyTo \ {Mail[j].mid} : Pointed(j, p)'
  BY <1>2, <1>3 DEF ParentInv
<1> QED BY <1>1, <1>2, <1>4, ParentStep

(* A write, whatever the job learns of it.                                 *)
LEMMA ParentWrite ==
  ASSUME IInv, ParentInv, NEW j \in Jobs, \A k \in Jobs : k # j => jobs'[k] = jobs[k],
         jobs'[j].tenant = jobs[j].tenant, jobs'[j].parent = jobs[j].parent,
         InsertOwnMessage(j) \/ UNCHANGED messages,
         At(j, "thread") \/ jobs'[j].stage \in {"done", "record"}
  PROVE  ParentInv'
<1>1. Grows /\ IsFiniteSet(DOMAIN messages')
  <2>1. CASE UNCHANGED messages
    BY <2>1 DEF Grows, ParentInv
  <2>2. CASE InsertOwnMessage(j)
    <3>1. Grows /\ DOMAIN messages' = DOMAIN messages \cup {Key(j)}
      BY <2>2, StoreGrows
    <3>2. IsFiniteSet(DOMAIN messages \cup {Key(j)})
      BY FS_AddElement DEF ParentInv
    <3> QED BY <3>1, <3>2
  <2> QED BY <2>1, <2>2
<1>2. CASE At(j, "thread")
  <2>1. jobs[j].parent = {}
    BY <1>2 DEF ParentInv, Pointed
  <2> QED BY <1>1, <2>1, ParentStep
<1>3. CASE ~At(j, "thread")
  BY <1>1, <1>3, ParentIdle
<1> QED BY <1>2, <1>3

(* The writes that follow.                                               *)
LEMMA ParentWrites ==
  ASSUME IInv, ParentInv, NEW j \in Jobs, Write(j)
  PROVE  ParentInv'
<1>1. CASE Assign(j)
  BY <1>1, ParentAssign
<1>2. CASE OpenThread(j)
  <2>1. /\ \A k \in Jobs : k # j => jobs'[k] = jobs[k]
        /\ jobs'[j].tenant = jobs[j].tenant /\ jobs'[j].parent = jobs[j].parent
        /\ jobs'[j].stage = "message"
    <3>1. jobs[j] \in Job /\ jobs \in [Jobs -> Job]
      BY DEF IInv
    <3> QED BY <1>2, <3>1 DEF OpenThread, Job
  <2> QED BY <1>2, <2>1, ParentWrite DEF OpenThread, InsertThread
<1>3. CASE OpenThreadFails(j)
  BY <1>3, Finished, ParentWrite DEF OpenThreadFails, tables
<1>4. CASE StoreMessage(j)
  BY <1>4, Finished, Gone, ParentWrite DEF StoreMessage
<1>5. CASE StoreMessageDuplicate(j)
  BY <1>5, Finished, ParentWrite DEF StoreMessageDuplicate, tables
<1>6. CASE StoreMessageFails(j)
  BY <1>6, Finished, ParentWrite DEF StoreMessageFails, tables
<1>7. CASE CountMember(j)
  BY <1>7, Finished, ParentWrite DEF CountMember, RecordMember
<1>8. CASE CountMemberMissing(j)
  BY <1>8, Finished, ParentWrite DEF CountMemberMissing, tables
<1> QED BY <1>1, <1>2, <1>3, <1>4, <1>5, <1>6, <1>7, <1>8 DEF Write

(* A failure ends the job, whatever took effect.                         *)
LEMMA ParentFault ==
  ASSUME IInv, ParentInv, NEW j \in Jobs, Fault(j)
  PROVE  ParentInv'
<1>1. PICK reply : Finish(j, reply)
  BY DEF Fault, FailsWithoutEffect, AcknowledgementLost
<1>2. /\ \A k \in Jobs : k # j => jobs'[k] = jobs[k]
      /\ jobs'[j].tenant = jobs[j].tenant /\ jobs'[j].parent = jobs[j].parent
      /\ jobs'[j].stage = "done"
  BY <1>1, Finished
<1>3. \/ UNCHANGED messages
      \/ At(j, "message") /\ InsertOwnMessage(j)
  BY DEF Fault, FailsWithoutEffect, AcknowledgementLost, InsertThread, RecordMember, tables
<1> QED BY <1>2, <1>3, ParentWrite

(* A sender who tries again begins with no claim to a parent.            *)
LEMMA ParentRetry ==
  ASSUME IInv, ParentInv, NEW j \in Jobs, SenderRetries(j)
  PROVE  ParentInv'
<1>1. /\ \A k \in Jobs : k # j => jobs'[k] = jobs[k]
      /\ jobs'[j].parent = {}
      /\ Grows /\ IsFiniteSet(DOMAIN messages')
  BY DEF IInv, SenderRetries, IdleJob, Grows, tables, ParentInv
<1> QED BY <1>1, ParentStep

(* A user's edit ends the claim of every reply whose parent went.          *)
LEMMA ParentEdit ==
  ASSUME IInv, ParentInv, UserEdit
  PROVE  ParentInv'
<1>1. /\ DOMAIN messages' \subseteq DOMAIN messages
      /\ \A key \in DOMAIN messages' : messages'[key] = messages[key]
  BY EditGoes DEF Goes
<1>2. IsFiniteSet(DOMAIN messages')
  BY <1>1, FS_Subset DEF ParentInv
<1>3. ASSUME NEW j \in Jobs, jobs'[j].parent # {}
      PROVE  \E p \in Mail[j].inReplyTo \ {Mail[j].mid} : Pointed(j, p)'
  <2>1. jobs[j] \in Job
    BY DEF IInv
  <2>2. /\ jobs'[j].stage = jobs[j].stage /\ jobs'[j].tenant = jobs[j].tenant
        /\ jobs'[j].pending = jobs[j].pending /\ jobs'[j].index = jobs[j].index
        /\ jobs'[j].thread = jobs[j].thread /\ jobs'[j].parent = jobs[j].parent
        /\ \A p \in Mail[j].inReplyTo : <<Mail[j].inbox, p>> \in DOMAIN messages'
    BY <1>3, <2>1 DEF UserEdit, Job
  <2>3. PICK p \in Mail[j].inReplyTo \ {Mail[j].mid} : Pointed(j, p)
    BY <1>3, <2>2 DEF ParentInv
  <2>4. Pointed(j, p)'
    BY <1>1, <2>2, <2>3 DEF Pointed, Visible, At
  <2> QED BY <2>4
<1> QED BY <1>2, <1>3 DEF ParentInv

(* A message whose parent has been held since the delivery or the API call *)
(* began is stored in the parent's thread, as long as no inbox holds more  *)
(* messages than a list returns.                                           *)
THEOREM RepliesJoinParents == Spec /\ []Roomy => ReplyJoinsParent
<1>1. Init => ParentInv
  BY FS_EmptySet DEF Init, ParentInv, IdleJob
<1>2. IInv /\ ParentInv /\ Roomy /\ [Next]_vars => ParentInv'
  <2> SUFFICES ASSUME IInv, ParentInv, Roomy, [Next]_vars PROVE ParentInv'
    OBVIOUS
  <2>1. ASSUME NEW j \in Jobs, Progress(j) \/ Fault(j) \/ SenderRetries(j) PROVE ParentInv'
    <3>1. CASE RefuseUnknown(j)
      BY <3>1, Finished, ParentWrite DEF RefuseUnknown, tables
    <3> QED BY <2>1, <3>1, ParentIngest, ParentSend, ParentWrites, ParentFault, ParentRetry DEF Progress
  <2>2. CASE UNCHANGED vars
    BY <2>2 DEF vars, tables, ParentInv, Pointed, Visible, At
  <2> QED BY <2>1, <2>2, ParentEdit DEF Next
<1>3. ASSUME IInv, ParentInv, [Next]_vars, NEW j \in Jobs,
             Key(j) \in DOMAIN messages' \ DOMAIN messages,
             At(j, "message"), jobs'[j] # jobs[j], jobs[j].parent # {}
      PROVE  messages'[Key(j)].thread \in jobs[j].parent
  <2>1. jobs[j].thread \in jobs[j].parent
    BY <1>3 DEF ParentInv, Pointed
  <2>2. ~UserEdit
    BY <1>3, EditGoes DEF Goes
  <2>3. messages' # messages
    BY <1>3
  <2>4. PICK k \in Jobs : Progress(k) \/ Fault(k) \/ SenderRetries(k)
    BY <1>3, <2>2, <2>3 DEF Next, vars, tables
  <2>5. InsertOwnMessage(k)
    BY <2>3, <2>4 DEF Progress, RefuseUnknown, Ingest, AcceptRcpt, RefuseContent, CheckDuplicate,
       LookupLink, LookupsDone, Send, BeginSend, DeliverOut, SnapshotIndex, Write, Assign,
       OpenThread, OpenThreadFails, StoreMessage, StoreMessageDuplicate, StoreMessageFails,
       CountMember, CountMemberMissing, Fault, FailsWithoutEffect, AcknowledgementLost,
       SenderRetries, tables, InsertThread, RecordMember
  <2>6. Key(k) = Key(j)
    <3>1. DOMAIN messages' = DOMAIN messages \cup {Key(k)}
      BY <2>5, StoreGrows
    <3> QED BY <1>3, <3>1
  <2>7. k = j
    <3>1. \A i \in Jobs : i # k => jobs'[i] = jobs[i]
      <4>1. CASE StoreMessage(k)
        BY <1>3, <4>1, Finished, Gone DEF StoreMessage
      <4>2. CASE \E reply : Finish(k, reply)
        BY <1>3, <4>2, Finished
      <4>3. StoreMessage(k) \/ \E reply : Finish(k, reply)
        BY <2>3, <2>4 DEF Progress, RefuseUnknown, Ingest, AcceptRcpt, RefuseContent, CheckDuplicate,
           LookupLink, LookupsDone, Send, BeginSend, DeliverOut, SnapshotIndex, Write, Assign,
           OpenThread, OpenThreadFails, StoreMessageDuplicate, StoreMessageFails,
           CountMember, CountMemberMissing, Fault, FailsWithoutEffect, AcknowledgementLost,
           SenderRetries, tables, InsertThread, RecordMember
      <4> QED BY <4>1, <4>2, <4>3
    <3> QED BY <1>3, <3>1
  <2> QED BY <2>1, <2>5, <2>7, StoreGrows
<1>4. IInv /\ ParentInv /\ [Next]_vars =>
        [\A j \in Jobs :
           Key(j) \in DOMAIN messages' \ DOMAIN messages
             /\ At(j, "message") /\ jobs'[j] # jobs[j] /\ jobs[j].parent # {}
             => messages'[Key(j)].thread \in jobs[j].parent]_vars
  BY <1>3
<1> QED
  BY <1>1, <1>2, <1>4, Inductive, PTL DEF Spec, ReplyJoinsParent

(***************************************************************************)
(* The counts of a thread add up.                                          *)
(***************************************************************************)

(* CountAccounting for one thread, its second half with the messages that  *)
(* a job is still to store in a thread it opened.                          *)
Short(t) ==
  Members(t) + JobsIn(Opening, t) <= threads[t].count + JobsIn(Counting, t) + faults

Exact(t) ==
  faults = 0 /\ edits = 0 =>
    threads[t].count + JobsIn(Counting, t) =
      Members(t) + JobsIn(Opening, t) + JobsIn(LostRaces, t)

(* A job has a thread only from the moment the thread has an id.           *)
Carries(job) ==
  /\ job.thread # NoThread => job.thread \in used
  /\ job.thread # NoThread => job.stage \in {"message", "record", "done"}
  /\ job.opens => job.stage \in {"thread", "message", "done"}
  /\ job.stage = "thread" => job.opens

(* Without an edit nothing goes, and without an edit or a failure nobody   *)
(* is told to try again.                                                   *)
Undisturbed ==
  /\ edits = 0 => DOMAIN inboxes = Inboxes /\ used \subseteq DOMAIN threads
  /\ faults = 0 /\ edits = 0 =>
       \A j \in Jobs : At(j, "done") => jobs[j].reply \notin {"deferred", "aborted"}

Begun == {j \in Jobs : ~At(j, "idle")}

CountInv ==
  /\ IsFiniteSet(DOMAIN messages) /\ IsFiniteSet(Begun)
  /\ \A j \in Jobs : Carries(jobs[j])
  /\ Undisturbed
  /\ \A t \in DOMAIN threads : Short(t) /\ Exact(t)

(* What one job weighs in the accounts of thread t.                        *)
Counts(job, t) == job.stage = "record" /\ job.thread = t
Opens(job, t)  == job.stage = "message" /\ job.opens /\ job.thread = t
Loses(job, t)  == /\ job.stage = "done" /\ job.opens /\ job.reply # "stored"
                  /\ job.thread = t

Bit(b) == IF b THEN 1 ELSE 0

(* A set that changes in one element at most changes its size by as much.  *)
LEMMA SizeStep ==
  ASSUME NEW S, NEW T, NEW x, IsFiniteSet(S), S \ {x} = T \ {x}
  PROVE  /\ IsFiniteSet(T) /\ Cardinality(S) \in Nat /\ Cardinality(T) \in Nat
         /\ Cardinality(T) = Cardinality(S) - Bit(x \in S) + Bit(x \in T)
<1> DEFINE R == S \ {x}
<1>1. /\ IsFiniteSet(R) /\ Cardinality(S) \in Nat
      /\ Cardinality(R) = Cardinality(S) - Bit(x \in S)
  BY FS_RemoveElement, FS_CardinalityType DEF Bit
<1>2. x \notin R /\ T = IF x \in T THEN R \cup {x} ELSE R
  OBVIOUS
<1> HIDE DEF R
<1>3. Cardinality(R) \in Nat
  BY <1>1, FS_CardinalityType
<1>4. IsFiniteSet(R \cup {x}) /\ Cardinality(R \cup {x}) = Cardinality(R) + 1
  BY <1>1, <1>2, FS_AddElement
<1>5. CASE x \in T
  <2>1. T = R \cup {x} /\ Bit(x \in T) = 1
    BY <1>2, <1>5 DEF Bit
  <2>2. Cardinality(T) = Cardinality(R) + 1 /\ IsFiniteSet(T)
    BY <1>4, <2>1
  <2> QED BY <1>1, <1>3, <2>1, <2>2
<1>6. CASE x \notin T
  <2>1. T = R /\ Bit(x \in T) = 0
    BY <1>2, <1>6 DEF Bit
  <2> QED BY <1>1, <1>3, <2>1 DEF Bit
<1> QED BY <1>5, <1>6

(* The jobs that are between two statements, when one job moves.           *)
LEMMA JobsInStep ==
  ASSUME IsFiniteSet(Begun), NEW j \in Jobs, \A k \in Jobs : k # j => jobs'[k] = jobs[k],
         NEW t
  PROVE  /\ IsFiniteSet(Begun')
         /\ JobsIn(Counting, t) \in Nat /\ JobsIn(Opening, t) \in Nat /\ JobsIn(LostRaces, t) \in Nat
         /\ JobsIn(Counting, t)' =
              JobsIn(Counting, t) - Bit(Counts(jobs[j], t)) + Bit(Counts(jobs'[j], t))
         /\ JobsIn(Opening, t)' =
              JobsIn(Opening, t) - Bit(Opens(jobs[j], t)) + Bit(Opens(jobs'[j], t))
         /\ JobsIn(LostRaces, t)' =
              JobsIn(LostRaces, t) - Bit(Loses(jobs[j], t)) + Bit(Loses(jobs'[j], t))
<1>1. PICK B, Bn : B = Begun /\ Bn = Begun'
  OBVIOUS
<1>2. IsFiniteSet(Begun')
  <2>1. B \ {j} = Bn \ {j}
    BY <1>1 DEF Begun, At
  <2> QED BY <1>1, <2>1, SizeStep
<1>3. PICK C, D, E : /\ C = {k \in Counting : jobs[k].thread = t}
                     /\ D = {k \in Opening : jobs[k].thread = t}
                     /\ E = {k \in LostRaces : jobs[k].thread = t}
  OBVIOUS
<1>4. PICK Cn, Dn, En : /\ Cn = {k \in Counting' : jobs'[k].thread = t}
                        /\ Dn = {k \in Opening' : jobs'[k].thread = t}
                        /\ En = {k \in LostRaces' : jobs'[k].thread = t}
  OBVIOUS
<1>5. C \subseteq B /\ D \subseteq B /\ E \subseteq B
  BY <1>1, <1>3 DEF Begun, Counting, Opening, LostRaces, At
<1>6. IsFiniteSet(C) /\ IsFiniteSet(D) /\ IsFiniteSet(E)
  BY <1>1, <1>5, FS_Subset
<1>7. /\ C \ {j} = Cn \ {j} /\ (j \in C <=> Counts(jobs[j], t)) /\ (j \in Cn <=> Counts(jobs'[j], t))
  BY <1>3, <1>4 DEF Counting, At, Counts
<1>8. /\ D \ {j} = Dn \ {j} /\ (j \in D <=> Opens(jobs[j], t)) /\ (j \in Dn <=> Opens(jobs'[j], t))
  BY <1>3, <1>4 DEF Opening, At, Opens
<1>9. /\ E \ {j} = En \ {j} /\ (j \in E <=> Loses(jobs[j], t)) /\ (j \in En <=> Loses(jobs'[j], t))
  BY <1>3, <1>4 DEF LostRaces, At, Loses
<1>10. /\ JobsIn(Counting, t) = Cardinality(C) /\ JobsIn(Counting, t)' = Cardinality(Cn)
       /\ JobsIn(Opening, t) = Cardinality(D) /\ JobsIn(Opening, t)' = Cardinality(Dn)
       /\ JobsIn(LostRaces, t) = Cardinality(E) /\ JobsIn(LostRaces, t)' = Cardinality(En)
  BY <1>3, <1>4 DEF JobsIn
<1>11. /\ Cardinality(C) \in Nat /\ Cardinality(Cn) = Cardinality(C) - Bit(j \in C) + Bit(j \in Cn)
       /\ Cardinality(D) \in Nat /\ Cardinality(Dn) = Cardinality(D) - Bit(j \in D) + Bit(j \in Dn)
       /\ Cardinality(E) \in Nat /\ Cardinality(En) = Cardinality(E) - Bit(j \in E) + Bit(j \in En)
  BY <1>6, <1>7, <1>8, <1>9, SizeStep
<1> QED BY <1>2, <1>7, <1>8, <1>9, <1>10, <1>11 DEF Bit

(* The members of a thread, when a message is stored.                      *)
LEMMA MembersStep ==
  ASSUME IsFiniteSet(DOMAIN messages), NEW j \in Jobs, InsertOwnMessage(j), NEW t
  PROVE  /\ Members(t) \in Nat
         /\ Members(t)' = Members(t) + Bit(jobs[j].thread = t)
<1>1. PICK M, N, k : /\ M = {q \in DOMAIN messages : messages[q].thread = t}
                     /\ N = {q \in DOMAIN messages' : messages'[q].thread = t}
                     /\ k = Key(j)
  OBVIOUS
<1>2. IsFiniteSet(M)
  BY <1>1, FS_Subset
<1>3. /\ DOMAIN messages' = DOMAIN messages \cup {k} /\ k \notin DOMAIN messages
      /\ \A q \in DOMAIN messages : messages'[q] = messages[q]
      /\ messages'[k].thread = jobs[j].thread
  BY <1>1, StoreGrows DEF Grows
<1>4. M \ {k} = N \ {k} /\ k \notin M /\ (k \in N <=> jobs[j].thread = t)
  BY <1>1, <1>3
<1>5. Members(t) = Cardinality(M) /\ Members(t)' = Cardinality(N)
  BY <1>1 DEF Members
<1> QED BY <1>2, <1>4, <1>5, SizeStep DEF Bit

(* How many are in flight, and how many are held, is a number.             *)
LEMMA JobsInNat ==
  ASSUME IsFiniteSet(Begun), NEW t
  PROVE  /\ JobsIn(Counting, t) \in Nat /\ JobsIn(Opening, t) \in Nat
         /\ JobsIn(LostRaces, t) \in Nat
<1>1. Counting \subseteq Begun /\ Opening \subseteq Begun /\ LostRaces \subseteq Begun
  BY DEF Counting, Opening, LostRaces, Begun, At
<1>2. /\ IsFiniteSet({j \in Counting : jobs[j].thread = t})
      /\ IsFiniteSet({j \in Opening : jobs[j].thread = t})
      /\ IsFiniteSet({j \in LostRaces : jobs[j].thread = t})
  BY <1>1, FS_Subset
<1> QED BY <1>2, FS_CardinalityType DEF JobsIn

(* A thread has a number of members.                                     *)
LEMMA MembersNat ==
  ASSUME IsFiniteSet(DOMAIN messages), NEW t
  PROVE  Members(t) \in Nat
<1>1. IsFiniteSet({q \in DOMAIN messages : messages[q].thread = t})
  BY FS_Subset
<1> QED BY <1>1, FS_CardinalityType DEF Members

(* The rest of CountInv, when one job moves.                               *)
Ordered(j) ==
  /\ \A k \in Jobs : k # j => jobs'[k] = jobs[k]
  /\ Carries(jobs[j])'
  /\ edits' = edits /\ inboxes' = inboxes
  /\ used \subseteq used' /\ used' \ used \subseteq DOMAIN threads'
  /\ DOMAIN threads \subseteq DOMAIN threads'
  /\ faults' = faults \/ faults' = faults + 1
  /\ faults' = 0 /\ edits = 0 /\ jobs'[j].stage = "done" =>
       jobs'[j].reply \notin {"deferred", "aborted"}

(* What Ordered says is the rest of CountInv.                            *)
LEMMA OrderedStep ==
  ASSUME IInv, CountInv, NEW j \in Jobs, Ordered(j), IsFiniteSet(DOMAIN messages'),
         \A t \in DOMAIN threads' : Short(t)' /\ Exact(t)'
  PROVE  CountInv'
<1>1. IsFiniteSet(Begun')
  BY JobsInStep DEF CountInv, Ordered
<1>2. \A k \in Jobs : Carries(jobs[k])'
  BY DEF CountInv, Carries, Ordered
<1>3. faults' = 0 => faults = 0
  BY DEF IInv, BoundsInv, Ordered
<1>4. Undisturbed'
  BY <1>3 DEF CountInv, Undisturbed, Ordered, At
<1> QED BY <1>1, <1>2, <1>4 DEF CountInv

(* The accounts of a thread, when one job moves: c more are counted and m  *)
(* more are held.                                                          *)
Settles(j, t, c, m) ==
  /\ m + Bit(Opens(jobs'[j], t)) + Bit(Counts(jobs[j], t)) + faults <=
       c + Bit(Counts(jobs'[j], t)) + Bit(Opens(jobs[j], t)) + faults'
  /\ faults' = 0 /\ edits = 0 =>
       m + Bit(Opens(jobs'[j], t)) + Bit(Loses(jobs'[j], t)) + Bit(Counts(jobs[j], t)) =
         c + Bit(Counts(jobs'[j], t)) + Bit(Opens(jobs[j], t)) + Bit(Loses(jobs[j], t))

(* A step that settles with a thread keeps its accounts.                 *)
LEMMA AccountStep ==
  ASSUME IInv, CountInv, NEW j \in Jobs, Ordered(j), NEW t \in DOMAIN threads,
         NEW c \in Int, threads'[t].count = threads[t].count + c,
         NEW m \in Int, Members(t)' = Members(t) + m, Settles(j, t, c, m)
  PROVE  Short(t)' /\ Exact(t)'
<1>1. /\ threads[t].count \in Int /\ Members(t) \in Int /\ faults \in Nat
      /\ edits' = edits /\ (faults' = faults \/ faults' = faults + 1)
  BY MembersNat DEF IInv, TablesInv, TablesTypeOK, ThreadRow, CountInv, BoundsInv, Ordered
<1>2. Short(t) /\ Exact(t)
  BY DEF CountInv
<1>3. /\ JobsIn(Counting, t) \in Nat /\ JobsIn(Opening, t) \in Nat /\ JobsIn(LostRaces, t) \in Nat
      /\ JobsIn(Counting, t)' =
           JobsIn(Counting, t) - Bit(Counts(jobs[j], t)) + Bit(Counts(jobs'[j], t))
      /\ JobsIn(Opening, t)' =
           JobsIn(Opening, t) - Bit(Opens(jobs[j], t)) + Bit(Opens(jobs'[j], t))
      /\ JobsIn(LostRaces, t)' =
           JobsIn(LostRaces, t) - Bit(Loses(jobs[j], t)) + Bit(Loses(jobs'[j], t))
  BY JobsInStep DEF CountInv, Ordered
<1>4. \A b : Bit(b) \in Int
  BY DEF Bit
<1>5. Short(t)'
  BY <1>1, <1>2, <1>3, <1>4 DEF Short, Settles
<1>6. Exact(t)'
  BY <1>1, <1>2, <1>3, <1>4 DEF Exact, Settles
<1> QED BY <1>5, <1>6

(* A step that touches no table.                                           *)
LEMMA LocalAccounts ==
  ASSUME IInv, CountInv, NEW j \in Jobs, Ordered(j), UNCHANGED tables,
         \A t \in DOMAIN threads : Settles(j, t, 0, 0)
  PROVE  CountInv'
<1>1. \A t : Members(t)' = Members(t)
  BY DEF Members, tables
<1>2. ASSUME NEW t \in DOMAIN threads PROVE Short(t)' /\ Exact(t)'
  <2>1. threads[t].count \in Int /\ Members(t) \in Int
    BY MembersNat DEF IInv, TablesInv, TablesTypeOK, ThreadRow, CountInv
  <2>2. threads'[t].count = threads[t].count + 0 /\ Members(t)' = Members(t) + 0
    BY <1>1, <2>1 DEF tables
  <2> QED BY <2>2, AccountStep
<1> QED BY <1>2, OrderedStep DEF tables, CountInv

(* Opening a thread.                                                       *)
LEMMA OpenAccounts ==
  ASSUME IInv, CountInv, NEW j \in Jobs, Ordered(j), At(j, "thread"),
         NEW u \in ThreadIds, NEW w, InsertThread(u, Mail[j].inbox, w),
         IF jobs'[j].stage = "message" THEN jobs'[j].thread = u /\ jobs'[j].opens
         ELSE jobs'[j].stage = "done" /\ faults' = faults + 1 /\ jobs'[j].thread = jobs[j].thread
  PROVE  CountInv'
<1>1. \A t : Members(t)' = Members(t)
  BY DEF Members, InsertThread
<1>2. /\ u \notin used /\ DOMAIN threads' = DOMAIN threads \cup {u} /\ threads'[u].count = 1
      /\ \A t \in DOMAIN threads : threads'[t] = threads[t]
      /\ DOMAIN threads \subseteq used /\ faults \in Nat
  BY DEF InsertThread, Put, IInv, TablesInv, BoundsInv
<1>3. jobs[j].thread = NoThread
  BY DEF CountInv, Carries, At
<1>4. ASSUME NEW t \in DOMAIN threads PROVE Short(t)' /\ Exact(t)'
  <2>1. threads[t].count \in Int /\ Members(t) \in Int /\ t # NoThread
    BY MembersNat, NoneAssumption DEF IInv, TablesInv, TablesTypeOK, ThreadRow, CountInv
  <2>2. threads'[t].count = threads[t].count + 0 /\ Members(t)' = Members(t) + 0
    BY <1>1, <1>2, <2>1
  <2>3. Settles(j, t, 0, 0)
    BY <1>2, <1>3, <2>1 DEF Settles, Counts, Opens, Loses, Bit, At, Ordered
  <2> QED BY <2>2, <2>3, AccountStep
<1>5. Short(u)' /\ Exact(u)'
  <2>1. Members(u) = 0
    <3>1. {q \in DOMAIN messages : messages[q].thread = u} = {}
      BY <1>2 DEF IInv, TablesInv, ThreadsSpanOneInbox
    <3> QED BY <3>1, FS_EmptySet DEF Members
  <2>2. \A k \in Jobs : jobs[k].thread # u
    BY <1>2, NoneAssumption DEF CountInv, Carries
  <2>3. JobsIn(Counting, u) = 0 /\ JobsIn(Opening, u) = 0 /\ JobsIn(LostRaces, u) = 0
    <3>1. /\ {k \in Counting : jobs[k].thread = u} = {}
          /\ {k \in Opening : jobs[k].thread = u} = {}
          /\ {k \in LostRaces : jobs[k].thread = u} = {}
      BY <2>2 DEF Counting, Opening, LostRaces
    <3> QED BY <3>1, FS_EmptySet DEF JobsIn
  <2>4. /\ ~Counts(jobs[j], u) /\ ~Opens(jobs[j], u) /\ ~Loses(jobs[j], u)
        /\ ~Counts(jobs'[j], u) /\ ~Loses(jobs'[j], u)
    BY <2>2 DEF Counts, Opens, Loses
  <2>5. /\ JobsIn(Counting, u)' = 0 /\ JobsIn(LostRaces, u)' = 0
        /\ JobsIn(Opening, u)' = Bit(Opens(jobs'[j], u))
    BY <2>3, <2>4, JobsInStep DEF CountInv, Ordered, Bit
  <2>6. Bit(Opens(jobs'[j], u)) \in {0, 1}
    BY DEF Bit
  <2>7. faults' \in Nat /\ (faults' = 0 => faults' = faults)
    BY <1>2 DEF Ordered
  <2>8. faults' = 0 => Opens(jobs'[j], u)
    BY <1>2, <2>7 DEF Opens
  <2> QED BY <1>1, <1>2, <2>1, <2>5, <2>6, <2>7, <2>8 DEF Short, Exact, Bit
<1> QED BY <1>2, <1>4, <1>5, OrderedStep DEF CountInv, InsertThread

(* Storing a message.                                                      *)
LEMMA StoreAccounts ==
  ASSUME IInv, CountInv, NEW j \in Jobs, Ordered(j), At(j, "message"), InsertOwnMessage(j),
         jobs'[j].thread = jobs[j].thread, jobs'[j].opens = jobs[j].opens,
         \/ jobs'[j].stage = "done" /\ faults' = faults + 1
         \/ jobs'[j].stage = "done" /\ jobs'[j].reply = "stored" /\ jobs[j].opens
         \/ jobs'[j].stage = "record" /\ ~jobs[j].opens
  PROVE  CountInv'
<1>1. ASSUME NEW t \in DOMAIN threads PROVE Short(t)' /\ Exact(t)'
  <2>1. threads[t].count \in Int /\ threads' = threads /\ faults \in Nat /\ edits' = edits
    BY DEF IInv, TablesInv, TablesTypeOK, ThreadRow, BoundsInv, InsertOwnMessage, InsertMessage,
           Ordered
  <2>2. PICK m : m = Bit(jobs[j].thread = t)
    OBVIOUS
  <2>3. m \in Int /\ Members(t)' = Members(t) + m
    BY <2>2, MembersStep DEF Bit, CountInv
  <2>4. threads'[t].count = threads[t].count + 0
    BY <2>1
  <2>5. Settles(j, t, 0, m)
    BY <2>1, <2>2 DEF Settles, Counts, Opens, Loses, Bit, At, Ordered
  <2> QED BY <2>3, <2>4, <2>5, AccountStep
<1>2. IsFiniteSet(DOMAIN messages')
  <2>1. DOMAIN messages' = DOMAIN messages \cup {Key(j)}
    BY StoreGrows
  <2>2. IsFiniteSet(DOMAIN messages \cup {Key(j)})
    BY FS_AddElement DEF CountInv
  <2> QED BY <2>1, <2>2
<1> QED BY <1>1, <1>2, OrderedStep DEF InsertOwnMessage, InsertMessage

(* Counting a member.                                                      *)
LEMMA RecordAccounts ==
  ASSUME IInv, CountInv, NEW j \in Jobs, Ordered(j), At(j, "record"),
         RecordMember(jobs[j].thread), jobs'[j].stage = "done",
         jobs'[j].opens = jobs[j].opens
  PROVE  CountInv'
<1>1. \A t : Members(t)' = Members(t)
  BY DEF Members, RecordMember
<1>2. DOMAIN threads' = DOMAIN threads /\ ~jobs[j].opens
  BY DEF RecordMember, CountInv, Carries, At
<1>3. ASSUME NEW t \in DOMAIN threads PROVE Short(t)' /\ Exact(t)'
  <2>1. threads[t] \in ThreadRow /\ Members(t) \in Int /\ faults \in Nat
    BY MembersNat DEF IInv, TablesInv, TablesTypeOK, CountInv, BoundsInv
  <2>2. PICK c : c = Bit(jobs[j].thread = t)
    OBVIOUS
  <2>3. c \in Int /\ threads'[t].count = threads[t].count + c
    BY <2>1, <2>2 DEF Bit, RecordMember, ThreadRow
  <2>4. Members(t)' = Members(t) + 0
    BY <1>1, <2>1
  <2>5. Settles(j, t, c, 0)
    BY <1>2, <2>1, <2>2 DEF Settles, Counts, Opens, Loses, Bit, At, Ordered
  <2> QED BY <2>3, <2>4, <2>5, AccountStep
<1> QED BY <1>2, <1>3, OrderedStep DEF CountInv, RecordMember

(* A job that has no thread before or after its step weighs nothing.       *)
LEMMA QuietAccounts ==
  ASSUME IInv, CountInv, NEW j \in Jobs, \A k \in Jobs : k # j => jobs'[k] = jobs[k],
         UNCHANGED <<tables, faults, edits>>,
         jobs[j].thread = NoThread, jobs'[j].thread = NoThread,
         jobs'[j].opens <=> jobs'[j].stage = "thread",
         jobs'[j].stage \notin {"message", "record", "done"}
  PROVE  CountInv'
<1>1. Ordered(j)
  BY DEF Ordered, Carries, tables
<1>2. ASSUME NEW t \in DOMAIN threads PROVE Settles(j, t, 0, 0)
  <2>1. t # NoThread /\ faults \in Nat
    BY NoneAssumption DEF IInv, TablesInv, TablesTypeOK, BoundsInv
  <2> QED BY <2>1 DEF Settles, Counts, Opens, Loses, Bit
<1> QED BY <1>1, <1>2, LocalAccounts

(* A job that finishes without touching a table.                           *)
LEMMA FinishAccounts ==
  ASSUME IInv, CountInv, NEW j \in Jobs, NEW reply, Finish(j, reply),
         UNCHANGED <<tables, edits>>, faults' = faults \/ faults' = faults + 1, ~At(j, "done"),
         faults' = 0 /\ edits = 0 =>
           /\ reply \notin {"deferred", "aborted"}
           /\ At(j, "message") /\ jobs[j].thread \in DOMAIN threads => reply # "stored",
         At(j, "record") => faults' = faults + 1 \/ jobs[j].thread \notin DOMAIN threads
  PROVE  CountInv'
<1>1. /\ jobs'[j].stage = "done" /\ jobs'[j].reply = reply
      /\ jobs'[j].thread = jobs[j].thread /\ jobs'[j].opens = jobs[j].opens
      /\ \A k \in Jobs : k # j => jobs'[k] = jobs[k]
  BY Finished
<1>2. Carries(jobs[j])
  BY DEF CountInv
<1>3. Ordered(j)
  BY <1>1, <1>2 DEF Ordered, Carries, tables
<1>4. ASSUME NEW t \in DOMAIN threads PROVE Settles(j, t, 0, 0)
  <2>1. t # NoThread /\ faults \in Nat
    BY NoneAssumption DEF IInv, TablesInv, TablesTypeOK, BoundsInv
  <2> QED BY <1>1, <1>2, <2>1 DEF Settles, Counts, Opens, Loses, Bit, At, Carries
<1> QED BY <1>3, <1>4, LocalAccounts

(* An inbound letter has no thread until it is assigned one.             *)
LEMMA CountIngest ==
  ASSUME IInv, CountInv, NEW j \in Jobs, Ingest(j)
  PROVE  CountInv'
<1>1. /\ jobs[j] \in Job /\ jobs \in [Jobs -> Job] /\ Carries(jobs[j])
      /\ jobs[j].stage \in {"idle", "dup", "links"}
      /\ UNCHANGED <<tables, faults, edits>>
  BY DEF IInv, CountInv, Ingest, AcceptRcpt, RefuseContent, CheckDuplicate, LookupLink,
         LookupsDone, At
<1>2. jobs[j].thread = NoThread /\ ~jobs[j].opens
  BY <1>1 DEF Carries, Job
<1>3. ASSUME NEW reply, Finish(j, reply), reply \notin {"deferred", "aborted"} PROVE CountInv'
  BY <1>1, <1>3, FinishAccounts DEF At
<1>4. ASSUME /\ \A k \in Jobs : k # j => jobs'[k] = jobs[k]
             /\ jobs'[j].thread = jobs[j].thread /\ jobs'[j].opens = jobs[j].opens
             /\ jobs'[j].stage \in {"dup", "links", "assign"}
      PROVE  CountInv'
  BY <1>1, <1>2, <1>4, QuietAccounts
<1>5. CASE AcceptRcpt(j)
  BY <1>1, <1>4, <1>5 DEF AcceptRcpt, Job
<1>6. CASE RefuseContent(j)
  BY <1>3, <1>6 DEF RefuseContent
<1>7. CASE CheckDuplicate(j) /\ Visible(Key(j), Reach(j, jobs[j].tenant))
  BY <1>3, <1>7 DEF CheckDuplicate
<1>8. CASE CheckDuplicate(j) /\ ~Visible(Key(j), Reach(j, jobs[j].tenant))
  BY <1>1, <1>4, <1>8 DEF CheckDuplicate, Job
<1>9. ASSUME NEW link \in Mids, LookupLink(j, link) PROVE CountInv'
  BY <1>1, <1>4, <1>9 DEF LookupLink, Job, At
<1>10. CASE LookupsDone(j)
  BY <1>4, <1>10, Gone DEF LookupsDone
<1> QED BY <1>5, <1>6, <1>7, <1>8, <1>9, <1>10 DEF Ingest

(* Nor has a sent one.                                                   *)
LEMMA CountSend ==
  ASSUME IInv, CountInv, NEW j \in Jobs, Send(j)
  PROVE  CountInv'
<1>1. /\ jobs[j] \in Job /\ jobs \in [Jobs -> Job] /\ Carries(jobs[j])
      /\ jobs[j].stage \in {"idle", "deliver", "snapshot"}
      /\ UNCHANGED <<tables, faults, edits>>
  BY DEF IInv, CountInv, Send, BeginSend, DeliverOut, SnapshotIndex, At
<1>2. jobs[j].thread = NoThread /\ ~jobs[j].opens
  BY <1>1 DEF Carries, Job
<1>3. ASSUME /\ \A k \in Jobs : k # j => jobs'[k] = jobs[k]
             /\ jobs'[j].thread = jobs[j].thread /\ jobs'[j].opens = jobs[j].opens
             /\ jobs'[j].stage \in {"deliver", "snapshot", "assign"}
      PROVE  CountInv'
  BY <1>1, <1>2, <1>3, QuietAccounts
<1>4. CASE BeginSend(j)
  BY <1>1, <1>3, <1>4 DEF BeginSend, Job
<1>5. CASE Go(j, "snapshot")
  BY <1>3, <1>5, Gone
<1>6. CASE Finish(j, "rejected")
  BY <1>1, <1>6, FinishAccounts DEF At
<1>7. CASE SnapshotIndex(j)
  BY <1>1, <1>3, <1>7 DEF SnapshotIndex, Job
<1> QED BY <1>4, <1>5, <1>6, <1>7 DEF Send, DeliverOut

(* Joining a thread weighs nothing until the message is stored, and nor    *)
(* does the decision to open one until there is a row.                     *)
LEMMA CountAssign ==
  ASSUME IInv, CountInv, NEW j \in Jobs, Assign(j)
  PROVE  CountInv'
<1>1. /\ jobs[j] \in Job /\ jobs \in [Jobs -> Job] /\ Carries(jobs[j])
      /\ UNCHANGED <<tables, faults, edits>> /\ jobs[j].stage = "assign"
  BY DEF IInv, CountInv, Assign, At
<1>2. jobs[j].thread = NoThread /\ ~jobs[j].opens
  BY <1>1 DEF Carries, Job
<1>3. CASE jobs' = [jobs EXCEPT ![j].stage = "thread", ![j].opens = TRUE, ![j].index = EmptyIndex]
  <2>1. /\ \A k \in Jobs : k # j => jobs'[k] = jobs[k]
        /\ jobs'[j].thread = jobs[j].thread /\ jobs'[j].stage = "thread" /\ jobs'[j].opens
    BY <1>1, <1>3 DEF Job
  <2> QED BY <1>1, <1>2, <2>1, QuietAccounts
<1>4. ASSUME NEW t \in Joined(j),
             jobs' = [jobs EXCEPT ![j].stage = "message", ![j].thread = t, ![j].index = EmptyIndex]
      PROVE  CountInv'
  <2>1. /\ \A k \in Jobs : k # j => jobs'[k] = jobs[k]
        /\ jobs'[j].thread = t /\ jobs'[j].stage = "message" /\ ~jobs'[j].opens
    BY <1>1, <1>2, <1>4 DEF Job
  <2>2. t \in used /\ faults \in Nat
    BY JoinedIsHomed DEF Homed, IInv, BoundsInv
  <2>3. Ordered(j)
    BY <1>1, <2>1, <2>2 DEF Ordered, Carries, tables
  <2>4. \A u \in DOMAIN threads : Settles(j, u, 0, 0)
    BY <1>1, <2>1, <2>2 DEF Settles, Counts, Opens, Loses, Bit
  <2> QED BY <1>1, <2>3, <2>4, LocalAccounts
<1> QED BY <1>3, <1>4 DEF Assign

(* The writes keep the accounts.                                         *)
LEMMA CountWrites ==
  ASSUME IInv, CountInv, NEW j \in Jobs, Write(j)
  PROVE  CountInv'
<1>1. jobs[j] \in Job /\ jobs \in [Jobs -> Job] /\ Carries(jobs[j])
      /\ faults \in Nat /\ (At(j, "message") => jobs[j].thread \in used)
      /\ Mail[j].inbox \in Inboxes
  BY WriterIsReady, MailAssumption DEF IInv, CountInv, BoundsInv, At, Homed, Letter
<1>2. CASE OpenThread(j)
  <2>1. PICK t \in ThreadIds :
          /\ InsertThread(t, Mail[j].inbox, jobs[j].tenant)
          /\ jobs' = [jobs EXCEPT ![j].stage = "message", ![j].thread = t]
    BY <1>2 DEF OpenThread
  <2>2. /\ \A k \in Jobs : k # j => jobs'[k] = jobs[k]
        /\ jobs'[j].thread = t /\ jobs'[j].stage = "message" /\ jobs'[j].opens = jobs[j].opens
    BY <1>1, <2>1 DEF Job
  <2>3. At(j, "thread") /\ jobs[j].opens /\ UNCHANGED <<faults, edits>>
    BY <1>1, <1>2 DEF OpenThread, Carries, At
  <2>4. Ordered(j)
    BY <1>1, <2>1, <2>2, <2>3 DEF Ordered, Carries, InsertThread, Put
  <2>5. PICK w : w = jobs[j].tenant
    OBVIOUS
  <2> QED BY <2>1, <2>2, <2>3, <2>4, <2>5, OpenAccounts
<1>3. CASE OpenThreadFails(j)
  <2>1. edits # 0
    BY <1>1, <1>3 DEF OpenThreadFails, CountInv, Undisturbed
  <2> QED BY <1>3, <2>1, FinishAccounts DEF OpenThreadFails, At
<1>4. CASE StoreMessage(j)
  <2>1. CASE jobs[j].opens
    <3>1. /\ jobs'[j].stage = "done" /\ jobs'[j].reply = "stored"
          /\ jobs'[j].thread = jobs[j].thread /\ jobs'[j].opens = jobs[j].opens
          /\ \A k \in Jobs : k # j => jobs'[k] = jobs[k]
      BY <1>4, <2>1, Finished DEF StoreMessage
    <3>2. Ordered(j)
      BY <1>1, <1>4, <3>1 DEF Ordered, Carries, StoreMessage, InsertOwnMessage, InsertMessage
    <3> QED BY <1>4, <2>1, <3>1, <3>2, StoreAccounts DEF StoreMessage
  <2>2. CASE ~jobs[j].opens
    <3>1. /\ jobs'[j].stage = "record"
          /\ jobs'[j].thread = jobs[j].thread /\ jobs'[j].opens = jobs[j].opens
          /\ \A k \in Jobs : k # j => jobs'[k] = jobs[k]
      BY <1>4, <2>2, Gone DEF StoreMessage
    <3>2. Ordered(j)
      BY <1>1, <1>4, <2>2, <3>1 DEF Ordered, Carries, StoreMessage, InsertOwnMessage, InsertMessage
    <3> QED BY <1>4, <2>2, <3>1, <3>2, StoreAccounts DEF StoreMessage
  <2> QED BY <2>1, <2>2
<1>5. CASE StoreMessageDuplicate(j)
  BY <1>5, FinishAccounts DEF StoreMessageDuplicate, At
<1>6. CASE StoreMessageFails(j)
  <2>1. edits # 0
    BY <1>1, <1>6 DEF StoreMessageFails, CountInv, Undisturbed
  <2> QED BY <1>6, <2>1, FinishAccounts DEF StoreMessageFails, At
<1>7. CASE CountMember(j)
  <2>1. /\ jobs'[j].stage = "done" /\ jobs'[j].reply = "stored"
        /\ jobs'[j].thread = jobs[j].thread /\ jobs'[j].opens = jobs[j].opens
        /\ \A k \in Jobs : k # j => jobs'[k] = jobs[k]
    BY <1>7, Finished DEF CountMember
  <2>2. Ordered(j)
    BY <1>1, <1>7, <2>1 DEF Ordered, Carries, CountMember, RecordMember
  <2> QED BY <1>7, <2>1, <2>2, RecordAccounts DEF CountMember
<1>8. CASE CountMemberMissing(j)
  BY <1>8, FinishAccounts DEF CountMemberMissing, At
<1> QED BY <1>2, <1>3, <1>4, <1>5, <1>6, <1>7, <1>8, CountAssign DEF Write

(* A failure leaves a count short of one member at most.                 *)
LEMMA CountFault ==
  ASSUME IInv, CountInv, NEW j \in Jobs, Fault(j)
  PROVE  CountInv'
<1>1. /\ jobs[j] \in Job /\ Carries(jobs[j]) /\ faults \in Nat
      /\ faults' = faults + 1 /\ edits' = edits
      /\ Mail[j].inbox \in Inboxes
  BY MailAssumption DEF IInv, CountInv, BoundsInv, Fault, Letter
<1>2. ASSUME NEW reply, Finish(j, reply)
      PROVE  /\ jobs'[j].stage = "done"
             /\ jobs'[j].thread = jobs[j].thread /\ jobs'[j].opens = jobs[j].opens
             /\ \A k \in Jobs : k # j => jobs'[k] = jobs[k]
  BY <1>2, Finished
<1>3. CASE FailsWithoutEffect(j)
  <2>1. PICK reply : Finish(j, reply)
    BY <1>3 DEF FailsWithoutEffect
  <2> QED BY <1>1, <1>3, <2>1, FinishAccounts DEF FailsWithoutEffect, At
<1>4. CASE AcknowledgementLost(j)
  <2>1. /\ jobs'[j].stage = "done"
        /\ jobs'[j].thread = jobs[j].thread /\ jobs'[j].opens = jobs[j].opens
        /\ \A k \in Jobs : k # j => jobs'[k] = jobs[k]
    BY <1>2, <1>4 DEF AcknowledgementLost
  <2>2. ASSUME NEW t \in ThreadIds, At(j, "thread"), InsertThread(t, Mail[j].inbox, jobs[j].tenant)
        PROVE  CountInv'
    <3>1. Ordered(j)
      BY <1>1, <2>1, <2>2 DEF Ordered, Carries, InsertThread, Put
    <3>2. PICK w : w = jobs[j].tenant
      OBVIOUS
    <3> QED BY <1>1, <2>1, <2>2, <3>1, <3>2, OpenAccounts
  <2>3. CASE At(j, "message") /\ InsertOwnMessage(j)
    <3>1. Ordered(j)
      BY <1>1, <2>1, <2>3 DEF Ordered, Carries, InsertOwnMessage, InsertMessage
    <3> QED BY <1>1, <2>1, <2>3, <3>1, StoreAccounts
  <2>4. CASE At(j, "record") /\ RecordMember(jobs[j].thread)
    <3>1. Ordered(j)
      BY <1>1, <2>1, <2>4 DEF Ordered, Carries, RecordMember
    <3> QED BY <2>1, <2>4, <3>1, RecordAccounts
  <2> QED BY <1>4, <2>2, <2>3, <2>4 DEF AcknowledgementLost
<1> QED BY <1>3, <1>4 DEF Fault

(* Only what failed is tried again.                                      *)
LEMMA CountRetry ==
  ASSUME IInv, CountInv, NEW j \in Jobs, SenderRetries(j)
  PROVE  CountInv'
<1>1. /\ jobs \in [Jobs -> Job] /\ Carries(jobs[j]) /\ faults \in Nat
      /\ jobs[j].stage = "done" /\ UNCHANGED <<tables, faults, edits>>
      /\ ~(faults = 0 /\ edits = 0)
  BY DEF IInv, CountInv, BoundsInv, SenderRetries, At, Undisturbed
<1>2. /\ \A k \in Jobs : k # j => jobs'[k] = jobs[k]
      /\ jobs'[j].stage = "idle" /\ jobs'[j].thread = NoThread /\ ~jobs'[j].opens
  BY <1>1 DEF SenderRetries, IdleJob
<1>3. Ordered(j)
  BY <1>1, <1>2 DEF Ordered, Carries, tables
<1>4. ASSUME NEW t \in DOMAIN threads PROVE Settles(j, t, 0, 0)
  BY <1>1, <1>2 DEF Settles, Counts, Opens, Loses, Bit
<1> QED BY <1>1, <1>3, <1>4, LocalAccounts

(* What users delete is held no more; the counts of what stays are kept.   *)
LEMMA CountEdit ==
  ASSUME IInv, CountInv, UserEdit
  PROVE  CountInv'
<1>1. /\ edits' # 0 /\ faults' = faults /\ faults \in Nat
      /\ used' = used
  <2>1. edits' # 0 /\ faults' = faults /\ faults \in Nat
    BY BoundsAssumption DEF UserEdit, IInv, BoundsInv
  <2> QED BY <2>1, EditGoes DEF Goes
<1>2. /\ DOMAIN messages' \subseteq DOMAIN messages
      /\ \A q \in DOMAIN messages' : messages'[q] = messages[q]
      /\ DOMAIN threads' \subseteq DOMAIN threads
      /\ \A t \in DOMAIN threads' : threads'[t] = threads[t]
  BY EditGoes DEF Goes
<1>3. \A j \in Jobs : /\ jobs'[j].stage = jobs[j].stage /\ jobs'[j].thread = jobs[j].thread
                     /\ jobs'[j].opens = jobs[j].opens /\ jobs'[j].reply = jobs[j].reply
  <2> SUFFICES ASSUME NEW j \in Jobs
               PROVE  /\ jobs'[j].stage = jobs[j].stage /\ jobs'[j].thread = jobs[j].thread
                      /\ jobs'[j].opens = jobs[j].opens /\ jobs'[j].reply = jobs[j].reply
    OBVIOUS
  <2>1. jobs[j] \in Job
    BY DEF IInv
  <2> QED BY <2>1 DEF UserEdit, Job
<1>4. IsFiniteSet(DOMAIN messages')
  BY <1>2, FS_Subset DEF CountInv
<1>5. Begun' = Begun /\ Counting' = Counting /\ Opening' = Opening
  BY <1>3 DEF Begun, Counting, Opening, At
<1>6. (\A j \in Jobs : Carries(jobs[j]))'
  BY <1>1, <1>3 DEF CountInv, Carries
<1>7. ASSUME NEW t \in DOMAIN threads' PROVE Short(t)' /\ Exact(t)'
  <2>1. Members(t) \in Nat /\ Members(t)' \in Nat /\ Members(t)' <= Members(t)
    <3>1. PICK M, N : /\ M = {q \in DOMAIN messages : messages[q].thread = t}
                      /\ N = {q \in DOMAIN messages' : messages'[q].thread = t}
      OBVIOUS
    <3>2. N \subseteq M /\ IsFiniteSet(M)
      BY <1>2, <3>1, FS_Subset DEF CountInv
    <3>3. Cardinality(M) \in Nat /\ Cardinality(N) \in Nat /\ Cardinality(N) <= Cardinality(M)
      BY <3>2, FS_Subset, FS_CardinalityType
    <3> QED BY <3>1, <3>3 DEF Members
  <2>2. /\ JobsIn(Counting, t)' = JobsIn(Counting, t) /\ JobsIn(Opening, t)' = JobsIn(Opening, t)
    <3>1. /\ {j \in Counting : jobs'[j].thread = t} = {j \in Counting : jobs[j].thread = t}
          /\ {j \in Opening : jobs'[j].thread = t} = {j \in Opening : jobs[j].thread = t}
      BY <1>3 DEF Counting, Opening
    <3> QED BY <1>5, <3>1 DEF JobsIn
  <2>3. JobsIn(Counting, t) \in Nat /\ JobsIn(Opening, t) \in Nat
    BY JobsInNat DEF CountInv
  <2>4. Short(t) /\ threads'[t] = threads[t] /\ threads[t].count \in Nat
    BY <1>2 DEF CountInv, IInv, TablesInv, TablesTypeOK, ThreadRow
  <2>5. Short(t)'
    BY <1>1, <2>1, <2>2, <2>3, <2>4 DEF Short
  <2> QED BY <1>1, <2>5 DEF Exact
<1> QED BY <1>1, <1>4, <1>5, <1>6, <1>7 DEF CountInv, Undisturbed

(* message_count differs from the messages held by what is in flight, by   *)
(* lost races and by failures, and by nothing else.                        *)
THEOREM CountsAddUp == Spec => []CountAccounting
<1>1. Init => CountInv
  <2> SUFFICES ASSUME Init PROVE CountInv
    OBVIOUS
  <2>1. Begun = {} /\ DOMAIN messages = {} /\ DOMAIN threads = {} /\ used = {}
    BY DEF Init, Begun, At, IdleJob
  <2>2. DOMAIN inboxes = Inboxes
    BY MailAssumption DEF Init
  <2>3. \A j \in Jobs : Carries(jobs[j]) /\ ~At(j, "done")
    BY DEF Init, Carries, IdleJob, At
  <2> QED BY <2>1, <2>2, <2>3, FS_EmptySet DEF CountInv, Undisturbed
<1>2. IInv /\ CountInv /\ [Next]_vars => CountInv'
  <2> SUFFICES ASSUME IInv, CountInv, [Next]_vars PROVE CountInv'
    OBVIOUS
  <2>1. ASSUME NEW j \in Jobs, Progress(j) \/ Fault(j) \/ SenderRetries(j) PROVE CountInv'
    <3>1. CASE RefuseUnknown(j)
      BY <3>1, FinishAccounts DEF RefuseUnknown, At
    <3> QED BY <2>1, <3>1, CountIngest, CountSend, CountWrites, CountFault, CountRetry DEF Progress
  <2>2. CASE UNCHANGED vars
    BY <2>2 DEF vars, tables, CountInv, Carries, Undisturbed, Begun, At, Short, Exact, Members,
                JobsIn, Counting, Opening, LostRaces
  <2> QED BY <2>1, <2>2, CountEdit DEF Next
<1>3. IInv /\ CountInv => CountAccounting
  <2> SUFFICES ASSUME IInv, CountInv, NEW t \in DOMAIN threads
               PROVE  /\ Exact(t)
                      /\ Members(t) <= threads[t].count + JobsIn(Counting, t) + faults
    BY DEF CountAccounting, Exact
  <2>1. /\ threads[t].count \in Nat /\ Members(t) \in Nat /\ faults \in Nat
        /\ Short(t) /\ Exact(t)
    BY MembersNat DEF IInv, TablesInv, TablesTypeOK, ThreadRow, CountInv, BoundsInv
  <2>2. JobsIn(Counting, t) \in Nat /\ JobsIn(Opening, t) \in Nat
    BY JobsInNat DEF CountInv
  <2> QED BY <2>1, <2>2 DEF Short
<1> QED
  BY <1>1, <1>2, <1>3, Inductive, PTL DEF Spec
=============================================================================
