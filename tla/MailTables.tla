----------------------------- MODULE MailTables -----------------------------
(***************************************************************************)
(* The tables inboxes, threads and messages of amk-store and the SQL       *)
(* statements that change them, one action per committed statement or      *)
(* transaction.  Keys and foreign keys are those of migrations 0003, 0004, *)
(* 0005 and 0008: threads.inbox_id and messages.inbox_id reference inboxes *)
(* and messages.thread_id references threads, all ON DELETE CASCADE.  Each *)
(* foreign key covers its own column only: nothing in the schema makes a   *)
(* message and its thread agree on the inbox or on the tenant.             *)
(*                                                                         *)
(* A tenant stands for the pair (organization_id, pod_id) that rows carry. *)
(* A query filters by a window of them: one pair, or every pod of one      *)
(* organization (a window without a pod: `$n::uuid IS NULL OR pod_id = $n`).*)
(***************************************************************************)
EXTENDS Integers

CONSTANTS Inboxes,    \* inbox addresses, globally unique (primary key)
          Tenants,    \* (organization, pod) pairs
          Org,        \* tenant -> its organization
          Mids,       \* message ids in canonical form
          ThreadIds   \* thread uuids

VARIABLES inboxes,    \* inbox address -> tenant that owns it
          threads,    \* thread id -> [inbox, tenant, count]
          messages,   \* <<inbox, message id>> -> [thread, tenant, refs]
          used        \* thread ids that some row has ever had

tables == <<inboxes, threads, messages, used>>

ThreadRow  == [inbox : Inboxes, tenant : Tenants, count : Nat]
MessageRow == [thread : ThreadIds, tenant : Tenants, refs : SUBSET Mids]

TablesTypeOK ==
  /\ DOMAIN inboxes \subseteq Inboxes
  /\ \A i \in DOMAIN inboxes : inboxes[i] \in Tenants
  /\ DOMAIN threads \subseteq ThreadIds
  /\ \A t \in DOMAIN threads : threads[t] \in ThreadRow
  /\ DOMAIN messages \subseteq Inboxes \X Mids
  /\ \A k \in DOMAIN messages : messages[k] \in MessageRow
  /\ used \subseteq ThreadIds

Put(table, key, row) ==
  [k \in DOMAIN table \cup {key} |-> IF k = key THEN row ELSE table[k]]

Keep(table, keys) == [k \in keys |-> table[k]]

(***************************************************************************)
(* Reads.                                                                  *)
(***************************************************************************)

(* messages::get under a scope filter: the row, if it is in the window.    *)
Visible(key, window) ==
  key \in DOMAIN messages /\ messages[key].tenant \in window

(* The messages a list of this inbox returns under this window.            *)
Listed(inbox, window) ==
  {m \in Mids : Visible(<<inbox, m>>, window)}

(* A violated primary key is reported before any foreign key is looked at. *)
IsUniqueViolation(inbox, mid) == <<inbox, mid>> \in DOMAIN messages

(***************************************************************************)
(* Statements of the delivery pipelines.                                   *)
(***************************************************************************)

(* Mutant of InsertThread: the row starts at the schema's default of 0.    *)
InsertThreadUncounted(t, inbox, tenant) ==
  /\ inbox \in DOMAIN inboxes
  /\ t \notin used
  /\ threads' = Put(threads, t, [inbox |-> inbox, tenant |-> tenant, count |-> 0])
  /\ used' = used \cup {t}
  /\ UNCHANGED <<inboxes, messages>>

(* threads::insert.  The id is a fresh random uuid; the row starts with    *)
(* message_count 1, for a message that is not in the table yet.            *)
InsertThread(t, inbox, tenant) ==
  /\ inbox \in DOMAIN inboxes
  /\ t \notin used
  /\ threads' = Put(threads, t, [inbox |-> inbox, tenant |-> tenant, count |-> 1])
  /\ used' = used \cup {t}
  /\ UNCHANGED <<inboxes, messages>>

(* Mutant of InsertMessage: no foreign key on thread_id.                   *)
InsertMessageUnchecked(inbox, mid, t, tenant, refs) ==
  /\ ~IsUniqueViolation(inbox, mid)
  /\ inbox \in DOMAIN inboxes
  /\ messages' = Put(messages, <<inbox, mid>>,
                     [thread |-> t, tenant |-> tenant, refs |-> refs])
  /\ UNCHANGED <<inboxes, threads, used>>

(* messages::insert.  Primary key (inbox_id, message_id).                  *)
InsertMessage(inbox, mid, t, tenant, refs) ==
  /\ ~IsUniqueViolation(inbox, mid)
  /\ inbox \in DOMAIN inboxes
  /\ t \in DOMAIN threads
  /\ messages' = Put(messages, <<inbox, mid>>,
                     [thread |-> t, tenant |-> tenant, refs |-> refs])
  /\ UNCHANGED <<inboxes, threads, used>>

(* Mutant of RecordMember: the count goes the wrong way.                   *)
RecordMemberSubtracts(t) ==
  /\ t \in DOMAIN threads
  /\ threads' = [threads EXCEPT ![t].count = @ - 1]
  /\ UNCHANGED <<inboxes, messages, used>>

(* threads::record_member: one transaction over a row locked FOR UPDATE,   *)
(* found by thread id alone.                                               *)
RecordMember(t) ==
  /\ t \in DOMAIN threads
  /\ threads' = [threads EXCEPT ![t].count = @ + 1]
  /\ UNCHANGED <<inboxes, messages, used>>

(***************************************************************************)
(* Statements of the API's users.                                          *)
(***************************************************************************)

(* messages::delete.  The thread's aggregates are left alone.              *)
DeleteMessage(key) ==
  /\ key \in DOMAIN messages
  /\ messages' = Keep(messages, DOMAIN messages \ {key})
  /\ UNCHANGED <<inboxes, threads, used>>

(* threads::delete, with the cascade to its messages.                      *)
DeleteThread(t) ==
  /\ t \in DOMAIN threads
  /\ threads' = Keep(threads, DOMAIN threads \ {t})
  /\ messages' = Keep(messages, {k \in DOMAIN messages : messages[k].thread # t})
  /\ UNCHANGED <<inboxes, used>>

(* inboxes::delete, with the cascade to threads, to messages, and from the *)
(* deleted threads to their messages.                                      *)
DeleteInbox(i) ==
  /\ i \in DOMAIN inboxes
  /\ inboxes' = Keep(inboxes, DOMAIN inboxes \ {i})
  /\ threads' = Keep(threads, {t \in DOMAIN threads : threads[t].inbox # i})
  /\ messages' = Keep(messages,
                      {k \in DOMAIN messages :
                         k[1] # i /\ threads[messages[k].thread].inbox # i})
  /\ UNCHANGED used

(* inboxes::create of a free address: any tenant may take one that another *)
(* has given up.                                                           *)
CreateInbox(i, tenant) ==
  /\ i \notin DOMAIN inboxes
  /\ inboxes' = Put(inboxes, i, tenant)
  /\ UNCHANGED <<threads, messages, used>>
=============================================================================
