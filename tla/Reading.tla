------------------------------ MODULE Reading ------------------------------
(***************************************************************************)
(* Reading mail while it changes.  One API request is read here from its   *)
(* gate to its answer: a walk over a list, page by page; a thread with its *)
(* messages, two queries; one message; or a signed link and the fetch that *)
(* presents it.  Around it letters arrive and the other users of the       *)
(* inboxes change labels and delete.  A reader writes nothing, so one at a *)
(* time shows all that several would.                                      *)
(*                                                                         *)
(* Every statement and every committed transaction is one action.  A label *)
(* change is two, a locked read and the write, and what Postgres makes     *)
(* wait for the lock in between is a guard here.  Pods and inboxes stay as *)
(* they are; module ControlPlane is about those.                           *)
(***************************************************************************)
EXTENDS Labels, Scope, Integers, FiniteSets

CONSTANTS
  Messages, Threads,    \* what may come to exist
  ThreadOf,             \* message -> its thread
  Opens,                \* the messages that open their thread
  Home,                 \* thread -> place; a thread never leaves its inbox
  Arrives,              \* message -> the labels ingest gives it
  Stamp,                \* message -> timestamp, in milliseconds; may tie
  Order,                \* thread or message -> rank of its id
  BlobOf,               \* message -> blob with its raw bytes
  Pods, Inboxes,        \* places of the pods and of the inboxes that exist
  Requests,             \* reads to try
  Crowds,               \* sets of writes that run around a read
  DEFAULT_LIMIT,        \* rows of a page for who names none; 100
  MAX_LIMIT,            \* rows a page holds at most; 1000
  TTL, MaxClock         \* life of a link; bound on time, in TTL's unit

(* A letter that joins nothing opens a thread of its own, with a fresh id. *)
ASSUME MailAssumption ==
  /\ IsFiniteSet(Messages) /\ IsFiniteSet(Threads) /\ Threads \cap Messages = {}
  /\ ThreadOf \in [Messages -> Threads] /\ Opens \subseteq Messages
  /\ \A t \in Threads : \E m \in Opens : ThreadOf[m] = t
  /\ \A m, n \in Opens : ThreadOf[m] = ThreadOf[n] => m = n
  /\ Home \in [Threads -> Inboxes]
  /\ \A at \in Inboxes : Place(at.org, at.pod, None) \in Pods

(* Ids are unique among threads and among messages.                        *)
ASSUME OrderAssumption ==
  /\ Stamp \in [Messages -> Nat] /\ Order \in [Threads \cup Messages -> Nat]
  /\ \A a, b \in Threads : Order[a] = Order[b] => a = b
  /\ \A a, b \in Messages : Order[a] = Order[b] => a = b
  /\ DEFAULT_LIMIT \in 1..MAX_LIMIT /\ MAX_LIMIT \in Nat
  /\ TTL \in Nat \ {0} /\ MaxClock \in Nat

(* A credential names the pod and the inbox it is for, and they exist.     *)
Scoped(scope) ==
  /\ scope = Place(scope.org, scope.pod, scope.inbox)
  /\ scope.pod # None => Place(scope.org, scope.pod, None) \in Pods
  /\ scope.inbox # None => scope \in Inboxes

ASSUME CallersAssumption ==
  /\ \A r \in Requests :
       /\ Scoped(r.scope) /\ Mounted(r.mount) /\ Mounted(r.then)
       /\ r.limit = None \/ r.limit \in Int
  /\ \A crowd \in Crowds : \A w \in crowd :
       Scoped(w.scope) /\ Mounted(w.mount) /\ w.op \in {"update", "delete"}

VARIABLES
  threads,    \* thread -> [labels, last, stamp, count, subject, updated]
  messages,   \* message -> labels
  arrival,    \* message -> stage of its delivery
  write,      \* write -> [at, read]
  request,    \* the read under way
  reader,     \* its progress: [at, answer, rows, cursor, body, link, clock]
  steady,     \* rows a walk must not lose
  clock,
  readable    \* blob -> when the caller could last have read it

tables == <<threads, messages>>
vars == <<threads, messages, arrival, write, request, reader, steady, clock, readable>>

Put(table, key, row) ==
  [k \in DOMAIN table \cup {key} |-> IF k = key THEN row ELSE table[k]]

Keep(table, keys) == [k \in keys |-> table[k]]

Held(m)  == m \in DOMAIN messages
HomeOf(m) == Home[ThreadOf[m]]

(***************************************************************************)
(* The gate every operation passes.  An inbox mount and a pod's list are   *)
(* settled by a lookup; what a pod mount fetches by id needs none.  A      *)
(* mount is settled before the permission is looked at: a caller who may   *)
(* not see a mount learns nothing of its own flags there.                  *)
(***************************************************************************)
Lists == {"list_threads", "list_messages"}

window_for_pod_own_resource(scope, mount) ==
  IF RuledOut(scope, mount) THEN "denied" ELSE "ready"

MountVerdict(r, mount) ==
  IF mount.kind = "pod" /\ r.op \notin Lists
  THEN window_for_pod_own_resource(r.scope, mount)
  ELSE SettleMount(r.scope, mount, Pods, Inboxes)

(* Mutant of Gate: the permission goes first.                              *)
GatePermissionFirst(r, mount, flag) ==
  IF ~Allows(r.grants, flag) THEN "forbidden"
  ELSE IF MountVerdict(r, mount) = "denied" THEN "not_found"
  ELSE "ok"

Gate(r, mount, flag) ==
  IF MountVerdict(r, mount) = "denied" THEN "not_found"
  ELSE IF ~Allows(r.grants, flag) THEN "forbidden"
  ELSE "ok"

(***************************************************************************)
(* Paged lists.  A page fetches one row more than it returns to know       *)
(* whether another follows; the token is the key of the last row returned  *)
(* and the inbox it lies in.  That row need not exist any more when the    *)
(* token comes back.                                                       *)
(***************************************************************************)
(* A limit that is no positive number is refused; a larger one than the    *)
(* most a page holds is cut to it, and the walk has more pages.            *)
parse_limit(asked) == IF asked = None \/ asked > 0 THEN "ok" ELSE "validation_error"

resolve(asked) ==
  IF asked = None THEN DEFAULT_LIMIT
  ELSE IF asked \in 1..MAX_LIMIT THEN asked ELSE MAX_LIMIT

(* Newest first unless the caller says otherwise.                          *)
direction_for(ascending) == IF ascending = TRUE THEN "ascending" ELSE "descending"

Rows(r) == IF r.op = "list_threads" THEN DOMAIN threads ELSE DOMAIN messages

RowPlace(r, row)  == IF r.op = "list_threads" THEN Home[row] ELSE HomeOf(row)
RowLabels(r, row) == IF r.op = "list_threads" THEN threads[row].labels ELSE messages[row]
RowStamp(r, row)  == IF r.op = "list_threads" THEN threads[row].stamp ELSE Stamp[row]

(* (timestamp, thread_id), and (timestamp, inbox_id, message_id) where     *)
(* message lists have only the inbox mount: one inbox, one rank.           *)
Key(r, row) == <<RowStamp(r, row), Order[row]>>

(* The order of a walk: of keys, in its direction.                         *)
Ahead(r, from, to) ==
  IF direction_for(r.ascending) = "ascending" THEN Before(from, to) ELSE Before(to, from)

(* The rows of a mount's window that the labels leave to this caller.      *)
Matching(r, mount) ==
  {row \in Rows(r) :
     /\ WindowAdmits(Narrowed(r.scope, mount), RowPlace(r, row))
     /\ RowLabels(r, row) \cap ExcludedLabels(ListAccess(r.grants, r.include)) = {}}

NoToken == [key |-> <<>>, inbox |-> None]

(* Mutant of PastToken: the cursor compares timestamps alone.              *)
PastTokenByStamp(r, token, row) ==
  token # NoToken => IF direction_for(r.ascending) = "ascending"
                     THEN token.key[1] < RowStamp(r, row) ELSE RowStamp(r, row) < token.key[1]

(* The keyset comparison of a page's WHERE clause.                         *)
PastToken(r, token, row) == token # NoToken => Ahead(r, token.key, Key(r, row))

(* ORDER BY the key, LIMIT n: a row is kept if fewer than n come first.    *)
Foremost(r, rows, n) ==
  {row \in rows :
     Cardinality({other \in rows : Ahead(r, Key(r, other), Key(r, row))}) < n}

Hindmost(r, rows) ==
  CHOOSE row \in rows :
    \A other \in rows \ {row} : Ahead(r, Key(r, other), Key(r, row))

(* The one statement of a page.                                            *)
Fetched(r, mount, token) ==
  Foremost(r, {row \in Matching(r, mount) : PastToken(r, token, row)}, resolve(r.limit) + 1)

(* A token from another inbox's walk is refused where an inbox is pinned.  *)
WrongScope(r, mount, token) ==
  LET pinned == Narrowed(r.scope, mount).inbox IN
  token # NoToken /\ pinned # None /\ token.inbox # pinned

(* What a listed thread says of its last message, and whether that message *)
(* is one this list would hide.                                            *)
HiddenFromList(r, m) ==
  ~Admits(IF Held(m) THEN messages[m] ELSE Arrives[m], ListAccess(r.grants, r.include))

Listed(r, mount, row) ==
  [row   |-> row, mount |-> mount,
   tells |-> IF r.op = "list_threads" /\ HiddenFromList(r, threads[row].last)
             THEN threads[row].last ELSE None]

(***************************************************************************)
(* One resource by its id.                                                 *)
(***************************************************************************)
ThreadInWindow(r, t) ==
  t \in DOMAIN threads /\ WindowAdmits(Narrowed(r.scope, r.mount), Home[t])

(* messages::get: the row of the address as stored, by the folded path.    *)
MessageInWindow(r, m) ==
  /\ Held(m)
  /\ WindowAdmits(Narrowed(r.scope, r.mount), HomeOf(m))
  /\ messages[m] \cap ExcludedLabels(ByIdAccess(r.grants)) = {}

(* messages::raw_blob compares the stored, lowercased address with the     *)
(* path as it was typed: spelled with capitals, what GET finds is absent.  *)
RawBlob(r, m) == MessageInWindow(r, m) /\ ~r.capitals

(* messages::attachment_blob folds the path, as messages::get does.        *)
AttachmentBlob(r, m) == MessageInWindow(r, m)

LinkFound(r, m) == IF r.op = "raw" THEN RawBlob(r, m) ELSE AttachmentBlob(r, m)

(* The members query pins the scope but not the labels: redaction has to   *)
(* see a hidden member to take it out of the aggregates.                   *)
Members(t) == {m \in DOMAIN messages : ThreadOf[m] = t}

Member(m) == [id |-> m, labels |-> messages[m], key |-> <<Stamp[m], Order[m]>>]

MemberRecords(t) == {Member(m) : m \in Members(t)}

(***************************************************************************)
(* Links.                                                                  *)
(***************************************************************************)
NoLink == [blob |-> None, expires |-> 0]

mint(m) == [blob |-> BlobOf[m], expires |-> clock + TTL]

(* Mutant of verify: the last moment counts as still valid.                *)
verifyLate(link, blob) == link.blob = blob /\ clock <= link.expires

verify(link, blob) == link.blob = blob /\ clock < link.expires

(***************************************************************************)
(* The reader's steps.                                                     *)
(***************************************************************************)
Idle == [at |-> "start", answer |-> "none", rows |-> {}, cursor |-> NoToken,
         body |-> <<>>, link |-> NoLink, clock |-> 0]

Answer(answer) == reader' = [reader EXCEPT !.at = "done", !.answer = answer]

Refused(mount, flag) ==
  /\ Gate(request, mount, flag) # "ok"
  /\ Answer(Gate(request, mount, flag))

Passes(mount) == Gate(request, mount, "message_read") = "ok"

(* A page of a walk.  The client asks for the pages after the first at     *)
(* request.then, most often the mount it began at.                         *)
Page ==
  LET first == reader.at = "start"
      mount == IF first THEN request.mount ELSE request.then
      found == Fetched(request, mount, reader.cursor)
      items == Foremost(request, found, resolve(request.limit))
      more  == found # items
      last  == Hindmost(request, items)
  IN
  /\ request.op \in Lists
  /\ reader.at \in {"start", "walking"}
  /\ \/ Refused(mount, "message_read")
     \/ /\ Passes(mount) /\ parse_limit(request.limit) # "ok"
        /\ Answer(parse_limit(request.limit))
     \/ /\ Passes(mount) /\ parse_limit(request.limit) = "ok"
        /\ WrongScope(request, mount, reader.cursor)
        /\ Answer("bad_token")
     \/ /\ Passes(mount) /\ parse_limit(request.limit) = "ok"
        /\ ~WrongScope(request, mount, reader.cursor)
        /\ reader' = [reader EXCEPT
             !.at = IF more THEN "walking" ELSE "done",
             !.answer = "ok",
             !.rows = @ \cup {Listed(request, mount, row) : row \in items},
             !.cursor = IF more THEN [key |-> Key(request, last),
                                      inbox |-> RowPlace(request, last).inbox]
                        ELSE NoToken]

(* get_with_messages, first query.                                         *)
ReadThread ==
  /\ request.op = "get_thread" /\ reader.at = "start"
  /\ \/ Refused(request.mount, "message_read")
     \/ /\ Passes(request.mount) /\ ~ThreadInWindow(request, request.target)
        /\ Answer("not_found")
     \/ /\ Passes(request.mount) /\ ThreadInWindow(request, request.target)
        /\ reader' = [reader EXCEPT !.at = "members", !.body = threads[request.target]]

(* Second query, then redaction in memory.                                 *)
ReadMembers ==
  LET body == RedactThread(reader.body, MemberRecords(request.target),
                           ByIdAccess(request.grants)) IN
  /\ reader.at = "members"
  /\ reader' = [reader EXCEPT
       !.at = "done",
       !.answer = IF body.verdict = "withheld" THEN "not_found" ELSE "ok",
       !.body = [item |-> body.item, members |-> body.members,
                 missing |-> ~Held(reader.body.last),
                 hid |-> body.members # MemberRecords(request.target)]]

ReadMessage ==
  /\ request.op = "get_message" /\ reader.at = "start"
  /\ \/ Refused(request.mount, "message_read")
     \/ /\ Passes(request.mount)
        /\ Answer(IF MessageInWindow(request, request.target) THEN "ok" ELSE "not_found")

(* GET .../raw and .../attachments/{id}: a link, never the bytes.          *)
MintLink ==
  /\ request.op \in {"raw", "attachment"} /\ reader.at = "start"
  /\ \/ Refused(request.mount, "message_read")
     \/ /\ Passes(request.mount) /\ ~LinkFound(request, request.target)
        /\ Answer("not_found")
     \/ /\ Passes(request.mount) /\ LinkFound(request, request.target)
        /\ reader' = [reader EXCEPT !.at = "linked", !.answer = "ok",
                                    !.link = mint(request.target)]

(* GET /v0/blobs/{blob}?token=...: no credential; one answer for every     *)
(* failure.                                                                *)
FetchBlob ==
  \E blob \in {BlobOf[m] : m \in Messages} :
    /\ reader.at = "linked"
    /\ reader' = [reader EXCEPT
         !.at = "done", !.clock = clock, !.body = blob,
         !.answer = IF verify(reader.link, blob) THEN "bytes" ELSE "denied"]

Read == Page \/ ReadThread \/ ReadMembers \/ ReadMessage \/ MintLink \/ FetchBlob

(***************************************************************************)
(* Letters.  One that opens a thread inserts its row before its own; one   *)
(* that joins a thread has read its index earlier, and is counted after    *)
(* it is stored.                                                           *)
(***************************************************************************)
Locked(row) == \E w \in DOMAIN write : write[w].at = "holding" /\ w.target = row

(* Mutant of OpenThread: the thread's labels are left to the default.      *)
OpenThreadUnlabelled(m) ==
  /\ m \in Opens /\ arrival[m] = "waiting"
  /\ threads' = Put(threads, ThreadOf[m],
                    [labels |-> {}, last |-> m, stamp |-> Stamp[m], count |-> 1,
                     subject |-> m, updated |-> m])
  /\ arrival' = [arrival EXCEPT ![m] = "placed"]
  /\ UNCHANGED messages

OpenThread(m) ==
  /\ m \in Opens /\ arrival[m] = "waiting"
  /\ threads' = Put(threads, ThreadOf[m],
                    [labels |-> Arrives[m], last |-> m, stamp |-> Stamp[m], count |-> 1,
                     subject |-> m, updated |-> m])
  /\ arrival' = [arrival EXCEPT ![m] = "placed"]
  /\ UNCHANGED messages

JoinThread(m) ==
  /\ m \notin Opens /\ arrival[m] = "waiting"
  /\ \E other \in DOMAIN messages : ThreadOf[other] = ThreadOf[m]
  /\ arrival' = [arrival EXCEPT ![m] = "placed"]
  /\ UNCHANGED tables

(* Mutant of InsertMessage: no foreign key on the thread.                  *)
InsertMessageUnchecked(m) ==
  /\ arrival[m] = "placed" /\ ~Locked(ThreadOf[m])
  /\ messages' = Put(messages, m, Arrives[m])
  /\ arrival' = [arrival EXCEPT ![m] = IF m \in Opens THEN "done" ELSE "stored"]
  /\ UNCHANGED threads

(* The foreign key needs the thread, and waits for who holds its row.      *)
InsertMessage(m) ==
  /\ arrival[m] = "placed" /\ ~Locked(ThreadOf[m])
  /\ IF ThreadOf[m] \in DOMAIN threads
     THEN /\ messages' = Put(messages, m, Arrives[m])
          /\ arrival' = [arrival EXCEPT ![m] = IF m \in Opens THEN "done" ELSE "stored"]
     ELSE /\ arrival' = [arrival EXCEPT ![m] = "failed"]
          /\ UNCHANGED messages
  /\ UNCHANGED threads

(* The aggregates follow whoever commits last; the labels do not follow,   *)
(* and the subject stays that of the message that opened the thread.       *)
RecordMember(m) ==
  LET t == ThreadOf[m] IN
  /\ arrival[m] = "stored" /\ ~Locked(t)
  /\ arrival' = [arrival EXCEPT ![m] = "done"]
  /\ IF t \in DOMAIN threads
     THEN threads' = [threads EXCEPT ![t].last = m, ![t].stamp = Stamp[m],
                                     ![t].count = @ + 1, ![t].updated = m]
     ELSE UNCHANGED threads
  /\ UNCHANGED messages

Arrive(m) == OpenThread(m) \/ JoinThread(m) \/ InsertMessage(m) \/ RecordMember(m)

(***************************************************************************)
(* Writes of other callers: PATCH and DELETE of a thread or a message.     *)
(***************************************************************************)
FlagFor(w) == IF w.op = "update" THEN "message_update" ELSE "message_delete"

Exists(row) == row \in DOMAIN threads \cup DOMAIN messages
PlaceOf(row) == IF row \in Threads THEN Home[row] ELSE HomeOf(row)
LabelsOf(row) == IF row \in Threads THEN threads[row].labels ELSE messages[row]

(* The row the statement of a write matches, if any.                       *)
Reaches(w) ==
  Exists(w.target) /\ WindowAdmits(Narrowed(w.scope, w.mount), PlaceOf(w.target))

Settled(w, at) == write' = [write EXCEPT ![w] = [at |-> at, read |-> {}]]

(* Answered before the store is asked, or by a statement that matches no   *)
(* row.                                                                    *)
RefuseWrite(w) ==
  /\ write[w].at = "idle"
  /\ \/ Gate(w, w.mount, FlagFor(w)) # "ok" /\ Settled(w, Gate(w, w.mount, FlagFor(w)))
     \/ /\ Gate(w, w.mount, FlagFor(w)) = "ok"
        /\ \/ SystemLabelViolations(w.add, w.remove) # {} /\ Settled(w, "refused")
           \/ /\ SystemLabelViolations(w.add, w.remove) = {}
              /\ ~Reaches(w) /\ Settled(w, "not_found")
  /\ UNCHANGED tables

Accepted(w) ==
  /\ write[w].at = "idle" /\ Gate(w, w.mount, FlagFor(w)) = "ok"
  /\ SystemLabelViolations(w.add, w.remove) = {} /\ Reaches(w)

(* Mutant of ReadLabels: SELECT without FOR UPDATE.                        *)
ReadLabelsUnlocked(w) ==
  /\ w.op = "update" /\ Accepted(w)
  /\ write' = [write EXCEPT ![w] = [at |-> "holding", read |-> LabelsOf(w.target)]]
  /\ UNCHANGED tables

(* update, SELECT ... FOR UPDATE.                                          *)
ReadLabels(w) ==
  /\ w.op = "update" /\ Accepted(w) /\ ~Locked(w.target)
  /\ write' = [write EXCEPT ![w] = [at |-> "holding", read |-> LabelsOf(w.target)]]
  /\ UNCHANGED tables

(* update, the write and the commit.  A thread's updated_at is then that   *)
(* of no message.                                                          *)
WriteLabels(w) ==
  LET next == ApplyMutation(write[w].read, w.add, w.remove) IN
  /\ write[w].at = "holding"
  /\ Settled(w, "ok")
  /\ IF w.target \in Threads
     THEN /\ threads' = [threads EXCEPT ![w.target].labels = next, ![w.target].updated = None]
          /\ UNCHANGED messages
     ELSE messages' = [messages EXCEPT ![w.target] = next] /\ UNCHANGED threads

(* messages::delete leaves the thread's aggregates as they were;           *)
(* threads::delete cascades to the messages and waits for their locks.     *)
Delete(w) ==
  /\ w.op = "delete" /\ Accepted(w)
  /\ IF w.target \in Threads
     THEN LET gone == {m \in DOMAIN messages : ThreadOf[m] = w.target} IN
          /\ \A row \in gone \cup {w.target} : ~Locked(row)
          /\ threads' = Keep(threads, DOMAIN threads \ {w.target})
          /\ messages' = Keep(messages, DOMAIN messages \ gone)
     ELSE /\ ~Locked(w.target)
          /\ messages' = Keep(messages, DOMAIN messages \ {w.target})
          /\ UNCHANGED threads
  /\ Settled(w, "ok")

Write(w) == RefuseWrite(w) \/ ReadLabels(w) \/ WriteLabels(w) \/ Delete(w)

(***************************************************************************)
(* The whole.  steady and readable only observe: nothing reads them.       *)
(***************************************************************************)
(* Time matters to a link alone.                                           *)
Tick == reader.at = "linked" /\ clock < MaxClock /\ clock' = clock + 1

(* A row that moves toward where a walk has already been can be missed.    *)
MovedBack(row) ==
  request.op = "list_threads" /\ row \in DOMAIN threads /\ row \in DOMAIN threads'
    /\ threads'[row].stamp # threads[row].stamp
    /\ (direction_for(request.ascending) = "ascending"
          <=> threads'[row].stamp < threads[row].stamp)

WatchWalk ==
  steady' = IF reader.at = "start" /\ reader'.at = "walking"
            THEN Matching(request, request.mount)
            ELSE IF reader.at = "walking"
            THEN {row \in steady : ~MovedBack(row)} \cap Matching(request, request.mount)'
            ELSE steady

ReadableNow(blob) ==
  \E m \in DOMAIN messages :
    /\ BlobOf[m] = blob
    /\ WindowAdmits(request.scope, HomeOf(m))
    /\ messages[m] \cap ExcludedLabels(ByIdAccess(request.grants)) = {}

WatchBlobs ==
  readable' = IF request.op \notin {"raw", "attachment"} THEN readable
              ELSE [b \in DOMAIN readable |-> IF ReadableNow(b) THEN clock ELSE readable[b]]

Init ==
  /\ threads = <<>> /\ messages = <<>>
  /\ arrival = [m \in Messages |-> "waiting"]
  /\ \E crowd \in Crowds : write = [w \in crowd |-> [at |-> "idle", read |-> {}]]
  /\ request \in Requests
  /\ reader = Idle
  /\ steady = {}
  /\ clock = 0
  /\ readable = [b \in {BlobOf[m] : m \in Messages} |-> -1]

Next ==
  /\ \/ Read /\ UNCHANGED <<tables, arrival, write, clock>>
     \/ \E m \in Messages : Arrive(m) /\ UNCHANGED <<write, reader, clock>>
     \/ \E w \in DOMAIN write : Write(w) /\ UNCHANGED <<arrival, reader, clock>>
     \/ Tick /\ UNCHANGED <<tables, arrival, write, reader>>
  /\ UNCHANGED request
  /\ WatchWalk /\ WatchBlobs

Spec == Init /\ [][Next]_vars

(***************************************************************************)
(* Properties.                                                             *)
(***************************************************************************)
(* Types, and every held message has its thread's row.                     *)
TypeOK ==
  /\ DOMAIN threads \subseteq Threads /\ DOMAIN messages \subseteq Messages
  /\ \A t \in DOMAIN threads :
       threads[t].last \in Messages /\ threads[t].count \in 1..Cardinality(Messages)
  /\ \A m \in DOMAIN messages : ThreadOf[m] \in DOMAIN threads
  /\ arrival \in [Messages -> {"waiting", "placed", "stored", "done", "failed"}]
  /\ \A w \in DOMAIN write :
       write[w].at \in {"idle", "holding", "ok", "not_found", "forbidden", "refused"}
  /\ reader.at \in {"start", "walking", "members", "linked", "done"}
  /\ clock \in 0..MaxClock

Done == reader.at = "done"

(* The mount names an existing resource inside the credential's scope.     *)
MountVisible(r, mount) ==
  LET Agrees(at) == /\ at.org = r.scope.org
                    /\ r.scope.pod \in {None, at.pod} IN
  CASE mount.kind = "organization" -> TRUE
    [] mount.kind = "pod"   -> \E at \in Pods : at.pod = mount.id /\ Agrees(at)
    [] mount.kind = "inbox" -> \E at \in Inboxes :
                                 /\ at.inbox = mount.id /\ Agrees(at)
                                 /\ r.scope.inbox \in {None, mount.id}

(* A pod or inbox that is absent and one out of the credential's reach get *)
(* one answer, whatever flags the credential lacks (scope.rs, resolve).    *)
(* What a pod mount fetches by id may be refused for a flag first, since   *)
(* no lookup stands between: for an absent pod as well.                    *)
OutOfScopeIsNotFound ==
  Done /\ reader.rows = {} /\ ~MountVisible(request, request.mount) =>
    \/ reader.answer = "not_found"
    \/ /\ reader.answer = "forbidden"
       /\ request.mount.kind = "pod" /\ request.op \notin Lists
       /\ ~RuledOut(request.scope, request.mount)

(* Inside the credential's scope, and under the mount.                     *)
InReach(scope, mount, place) ==
  /\ Inside(place, scope)
  /\ mount.kind = "pod" => place.pod = mount.id
  /\ mount.kind = "inbox" => place.inbox = mount.id

(* Nothing outside the credential's scope or outside the mount is ever     *)
(* answered or written: no page of a walk, also with a token from another  *)
(* mount, no resource by id, no label change, no deletion.                 *)
WindowHeld ==
  /\ \A item \in reader.rows : InReach(request.scope, item.mount, PlaceOf(item.row))
  /\ request.op \notin Lists /\ reader.answer \in {"ok", "bytes"} =>
       InReach(request.scope, request.mount, PlaceOf(request.target))
  /\ \A w \in DOMAIN write :
       write[w].at \in {"holding", "ok"} => InReach(w.scope, w.mount, PlaceOf(w.target))

(* A walk to the end returns every row that matched from its first page to *)
(* its last and did not move, with replies, toward where the walk had      *)
(* been.  Rows that come, go, change labels or tie do not make it lose     *)
(* one, nor does the deletion of the row a token names.                    *)
WalkComplete ==
  Done /\ request.op \in Lists /\ reader.answer = "ok" /\ request.then = request.mount =>
    \A row \in steady : \E item \in reader.rows : item.row = row

(* The columns of a body that are one message's, and whose they are.       *)
Sources(item) ==
  [last_message_id |-> item.last, subject |-> item.subject, updated_at |-> item.updated]

(* Those that tell of a message the body does not show.                    *)
Residue(body) ==
  {column \in DOMAIN Sources(body.item) :
     Sources(body.item)[column] \notin {m.id : m \in body.members} \cup {None}}

(* A thread's body shows no message or label its reader may not see, and   *)
(* once something is left out its count is of what is shown.  Of a message *)
(* it does not show it tells by subject and updated_at alone, the residual *)
(* channels the comment on redact_thread names, and by the subject only if *)
(* that message opened the thread.  Its last_message_id, with preview and  *)
(* timestamps, may be of a message that is not stored (a thread whose      *)
(* first message is still to come, or whose last one was deleted), but not *)
(* once something is left out.                                             *)
BodyHonest ==
  Done /\ request.op = "get_thread" /\ reader.answer = "ok" =>
    LET body == reader.body
        access == ByIdAccess(request.grants) IN
    /\ \A m \in body.members : Admits(m.labels, access)
    /\ Admits(body.item.labels, access)
    /\ body.hid => body.item.count = Cardinality(body.members)
    /\ "last_message_id" \in Residue(body) => body.missing /\ ~body.hid
    /\ "subject" \in Residue(body) => body.item.subject \in Opens

(* A list names a message it hides, as the last of a listed thread, only   *)
(* if that message joined a thread that is not itself hidden, or a caller  *)
(* changed the labels of one of the two since.  A hidden message that      *)
(* opens a thread takes its thread with it, from the first insert on.      *)
ListHidesOpeners ==
  \A item \in reader.rows :
    item.tells # None =>
      \/ item.tells \notin Opens
      \/ \E w \in DOMAIN write : /\ write[w].at = "ok" /\ w.op = "update"
                                /\ w.target \in {item.tells, ThreadOf[item.tells]}

(* No label change is lost to a concurrent one: a label that a PATCH added *)
(* is there unless another PATCH of that row removes it, and the reverse.  *)
PatchSticks ==
  \A w \in DOMAIN write :
    write[w].at = "ok" /\ w.op = "update" /\ Exists(w.target) =>
      LET others == {v \in DOMAIN write \ {w} : v.op = "update" /\ v.target = w.target} IN
      /\ \A l \in w.add \ w.remove :
           l \in LabelsOf(w.target) \/ \E v \in others : l \in v.remove
      /\ \A l \in w.remove :
           l \notin LabelsOf(w.target) \/ \E v \in others : l \in v.add

(* Bytes leave without a credential only while a link to just them is      *)
(* young: less than TTL ago the credential that asked for it could read a  *)
(* message with these bytes.  Deleting the message does not end the link.  *)
BytesWereReadable ==
  reader.answer = "bytes" =>
    readable[reader.body] >= 0 /\ reader.clock < readable[reader.body] + TTL
=============================================================================
