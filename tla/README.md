# AgentMailKit in TLA+

AgentMailKit gives programs mailboxes: an HTTP API over inboxes, threads and
messages, an SMTP daemon that receives mail into them, and a client that sends
mail out of them, over one Postgres database and one directory of blobs. This
directory holds TLA+ models of it, the TLC runs that check them, and TLAPS
proofs. Paths below are relative to `src/crates/`.

    tlasany M.tla                      parse a module
    tlc -config X.cfg M                one run (PROJECT.json lists them)
    tlapm DeliveryProofs.tla           the proofs (every *Proofs module alike)

Operators named in a comment "Mutant of ..." are plausible bugs. No
specification uses them; each shows that a property can tell the code from a
version of it that is wrong.

## 1. The system

### Parts, and what each keeps

| Part | Code | State | Operations |
|---|---|---|---|
| Threading rule | `amk-core/src/threading.rs` | none (locals of one call) | `assign`: In-Reply-To, then References, against an index of held messages |
| Mail tables | `amk-store/src/{inboxes,threads,messages}.rs`, migrations 0003-0011 | rows, keyed by address, thread id, (inbox, message id); foreign keys cascade | insert, get, list, delete, `record_member`, label updates |
| Inbound delivery | `amk-ingest/src/accept.rs` | the letter being accepted | `accept`: duplicate check, index, assign, up to three writes |
| Sent mail | `amk-http/src/handlers/messages.rs` | the request | send, reply, reply-all, forward: the parent, the wire, an index, the same writes |
| SMTP session | `amk-ingest/src/{smtp,lookup,tls}.rs` | greeted, sender, recipients, input buffer, TLS or not | EHLO, MAIL, RCPT, DATA, RSET, STARTTLS, QUIT |
| SMTP accept loop | `amk-cli/src/server.rs` | a semaphore of permits | admit, 421, session deadline |
| Blob store | `amk-store/src/blobs.rs` | a directory | `put`, `get`, `len` |
| Outbound wire | `amk-outbound/src` | hosts tried, recipients answered | assemble, sign, one transaction per domain, MX hosts in order |
| Scope, permissions | `amk-core/src/{scope,permissions}.rs`, `amk-http/src/scope_ext.rs` | none | identity, mounts, windows, probes, grants and `derive_child` |
| Labels | `amk-core/src/labels.rs` | none | mutation, exclusion, redaction |
| Paged lists | `amk-store`, `amk-http` `pagination.rs` | the cursor a client holds | keyset pages |
| Control plane | `amk-store/src/{organizations,pods,inboxes,api_keys}.rs`, `amk-http/src/auth.rs` and handlers | rows | create (idempotent by client id), delete, authenticate |
| Rate limiter | `amk-http/src/{ratelimit,observability}.rs` | a bucket per subject | check before, surcharge after a request |
| Downloads | `amk-core/src/download.rs`, `handlers/attachments.rs` | none | sign and verify a URL |
| Wire types | `amk-types`, `amk-http/src/{body,ids,error}.rs` | none | parse, print, codes and statuses |
| Command line | `amk-cli/src/commands` | none | `init` makes organization, pod and root key; the rest is start-up |
| Conformance suite | `amk-conformance`, scripts | none | test code |

### How they interact

- The SMTP accept loop spawns a task per connection. The session resolves each
  RCPT through `StoreInboxLookup` to an inbox and its owner, and calls
  `persist` (`accept`) once per recipient after DATA.
- `accept` and the API's `send_prepared` put their blobs into the blob store,
  read the mail tables to build a thread index, ask the threading rule for a
  thread, and write the mail tables. They share nothing but the tables and the
  directory, and run in two processes.
- API users delete messages, threads and inboxes, and create inboxes under
  addresses others have given up, at any time.
- `send_prepared` hands the letter to the outbound wire before it writes a row.
- Every API request passes the rate limiter, then its credential, then its mount
  and permission, then its handler's statements; the limiter looks at the status
  that comes of it. Whatever the first three read may have changed by the last.
- A signed link carries a read permission away from the credential that had it.

### What is hard about it

There is one database transaction in the pipelines (`record_member`'s); every
other statement commits by itself. So between any two statements of one
delivery other deliveries run, users delete what was just read, a statement
fails, or takes effect without its answer arriving, and the task itself is
dropped by the session deadline or a crash. What was read (the recipient's
owner, the parent, the index) is stale by the time it is used. PROJECT.json
lists these hazards one by one, at the line where each bites.

### What makes each part correct

- Threading rule: a function of the *set* of ids the headers name; In-Reply-To
  wins, References never merge two threads.
- Mail tables and both pipelines: a thread never spans inboxes or organizations
  (the schema does not say so), nor pods but for one case (section 4); counts agree
  with members as far as separate statements allow; a reply joins its parent; a
  letter an SMTP sender was told 250 for is stored, once; one that was deferred is
  stored in the end or refused for what it is, or lost in one way only (finding 2).
- SMTP session: recipients and sender of a letter are of one transaction and
  one channel; the reply is true; a permanent refusal is final for a reason.
- Accept loop: silent peers do not use up the server.
- Blob store: an id handed out names an object that is there and whole.
- Scope: nobody reads or writes outside their window, and what is absent and what
  is out of reach look the same. Labels: a reader who may not see a message sees
  of it in its thread at most the two fields the code says it leaves; concurrent
  changes are both kept. Lists: a walk
  misses nothing that stays in place. Downloads: bytes leave only to a link that
  somebody who could read them asked for, and not for long.
- Control plane: no chain of keys widens; creates with one client id have one
  outcome; a key dies with its inbox; errors of ours have a cause.
- Sending: what is recorded was delivered, and mail goes twice only after a lost
  answer. Rate limiter: a subject gets no more than its bucket and the refill of its
  own time, whatever happens between a clock's reading, the lock, the check and the
  surcharge, and its debt ends.

## 2. The modules

    ThreadingRule   the rule, as a value          MailTables   rows and statements
        |      \                                    /
        |       `------------.     .---------------'
    ThreadAssign              Delivery  --- implements --->  Mailbox
    ThreadAssignProofs        DeliveryProofs
    MCThreadAssign            MCDelivery

    Permissions -------> Labels                   SmtpSession        BlobStore
        |       Scope       |                     SmtpSessionProofs  BlobStoreProofs
        |       /   \       |                     MCSmtpSession      MCBlobStore
     ControlPlane   Reading
     ...Proofs      ReadingProofs                 RateLimiter
     MCControlPlane MCReading                         |
                                                  ApiSend
     AccessProofs (of Permissions and Scope)      ApiSendProofs
                                                  MCApiSend

Where the code chooses by the first condition that holds, so do the models, with
IF and ELSE IF: two true guards of a TLA+ CASE leave it open which is taken.

**ThreadingRule** states which threads a message may join, as sets:
`JoinedThreads`. **ThreadAssign** is `ReferenceChainThreading::assign` step by
step: `pos`, `had_link`, `visited`, `resolved`, `ambiguous` are the loop's
position and locals, `TryInReplyTo`, `VisitReference` and `Conclude` its three
parts. Header values are spellings; the constant function `canonical_link`
says which id a spelling stands for, if any.

**MailTables** has the tables as functions from keys to rows and one action for
each statement of the store that the pipelines and users run, with the primary
keys, foreign keys and cascades of the migrations as guards and effects. A
*tenant* is the pair (organization, pod) that rows carry, `Org` its organization. A
query filters by a *window*, a set of tenants: one pair, or all pods of one
organization where the caller's window has no pod (`$n::uuid IS NULL OR pod_id = $n`).

**Delivery** composes the two into jobs. A job is one letter; its `stage` is the
`.await` it stands at:

| stage | ingest (`accept.rs`) | send (`handlers/messages.rs`) |
|---|---|---|
| idle | before RCPT is answered | before `load_parent` |
| dup | `messages::get` of its own id | |
| links | `fill_thread_index`, one lookup per link, any order | |
| deliver | | `sign_and_deliver` |
| snapshot | | `messages::list`, the outbound index |
| assign | `ReferenceChainThreading::assign` | the same |
| thread | `threads::insert`, if a thread is opened | the same |
| message | `messages::insert` | the same |
| record | `threads::record_member`, if one is joined | the same |

`Reach` is the window a job reads through: the pair RCPT resolved, the caller's pod,
or, for a letter whose `wide` is TRUE, every pod of the organization whose credential
sends it. `Fault` strikes at any stage: the statement fails without effect, or takes
effect and its acknowledgement is lost, or the job is dropped. At RCPT it makes the
lookup answer "no such inbox" (reply "unresolved", a 550). `SenderRetries` starts a deferred or broken inbound letter again, as an MTA does (the only
behaviour taken from outside the repository; it is marked external in the map).
`UserEdit` is a deletion or creation through the API. The job's `parent` field
and the variable `posted` are history, for the properties only.

**Mailbox** is what a reader of the API relies on: a message is posted in one
step under a fresh key into a thread of its own inbox, never moves, and senders
are answered only for what was posted. Delivery implements it under the mapping
`Box`, checked as a property.

**SmtpSession** has one record per connection: the phase of `serve_session`, the
variables of `run_commands` (`greeted`, `mail`, `rcpts`, `buf`), and the last
reply. `PeerSends` puts lines into the buffer, ahead of the answers too;
`Handle` takes one out. Each line remembers whether it travelled in the clear,
each recipient which MAIL it followed. `Connect`, `TurnAway` and `Deadline` are
the accept loop of `server.rs`. `persist` for one recipient is one step here;
Delivery has its statements.

**BlobStore** is `FsBlobStore::put` on a POSIX directory: names lead to inodes,
opening an existing name truncates, renaming moves the name while writers go
on. `put` is seven steps, the clean-up after a failed rename one of them. Any disk
operation may fail; the failure of the clean-up is ignored, as in the code. `Drop` is a
caller that goes at an await, because the session's deadline or the HTTP client ended
it: an operation already handed to a blocking thread runs to its end, and nothing
follows it. A process may crash.

**Permissions**, **Scope** and **Labels** are the pure policy of `amk-core`, as
operators: grants are a flag set or everything; a scope is a place (organization,
pod, inbox) with `None` for an open coordinate; a mount is intersected with it to
a *window*, which is denied, ready, or needs a probe. Labels decides whether
labels admit a reader and what a thread's body says to one (`RedactThread`, which
leaves `subject` and `updated_at` as they are, as the code does).

**Reading** is one API request against mail that changes. `Page` is one page of a
keyset walk (the token, its scope, the limit, the exclusions in SQL and the
masks after it): the `Foremost` rows past the token, as a set, and `PastToken` and
`Hindmost` say where the next page begins. Order within a page is the keys'. `ReadThread` and `ReadMembers` are the two queries of
`get_with_messages`, `ReadMessage` a message, `MintLink` and `FetchBlob` a signed
link and its use. Around it letters arrive by the statements of `accept`, users
change labels (`ReadLabels` holds the row lock that `WriteLabels` releases) and
delete. `steady` and `readable` are history: the rows a walk must not lose, and
when the caller could last have read a blob.

**ControlPlane** runs calls from credential to answer: `authenticate`,
`from_request_parts` (which looks an inbox key's pod up a second time), `Enter`
(the gate: mount, ownership, permission, body, the deployment's default names, in each
handler's order), then the handler's statement, with the replay as a second one. The
INSERT of an inbox is two steps (`inboxes_arbiter`, `inboxes_create`): its ON CONFLICT
looks at the client id first, and another create may commit before it comes to the
address. Any statement may fail or have no connection, with its effect or without
(`BreakOff`, `Heard`): the answer "broken", an internal error. `Mint` is a draw of a
secret. `amk init` is a call without a credential, in three statements after
its check, any of which may be the last. `ancestry`, `gone`, `overtaken` and `steady`
are history. A row's `by` names the call that made it, so that an address under
a new owner can be told from the old one. A call's `rows` are the set of what it was
shown, over all pages of a walk. `Starts` are the deployments to start from with the
calls made there: `StartsAssumption` says what is taken of them, namely rows as the
store's statements leave them (`Deployed`), calls the router takes (`Routed`), and ids
and secrets drawn at random, of which no two are the same (`Called`; only their short
prefixes may collide, which is what `DrawAgain` is for).

**RateLimiter** is `check` and `penalise` over a bounded map, with eviction, at a
clock reading `at` that may be older than the bucket's. **ApiSend** puts it around the
handler that sends mail: `ReadClock` reads the clock, before the lock; `Arrive` derives
the subject and checks, `Extracted` is the order of the extractors, `Prepare`
assembles and signs, `NextHop` and `deliver_to_host` walk the domains in the
order of their names (`left` is the set not yet served, `NameOrder` the order) and
the exchangers of each (`hop`), `persist_sent` records, `Surcharge` looks at the status (with a reading of its own
where there is something to charge). `Hangup` drops a request where it awaits,
`Restart` loses the map and every request. `clock`, `admitted` and `charged` are
history: a subject's *own time* is the instant its bucket stands at plus all that late
readings have set it back by.
The message's rows are Delivery's; here it is stored or not.

## 3. The runs

| Run | Question | Answer |
|---|---|---|
| `delivery_replies` | A root, an inbound answer to it, and the API's reply to it with an organization's key, at once; one fault, MTA retries, two user edits, another pod or another organization that may take over the address | Threads stay inside one inbox and organization, and inside one pod until that key's reply is stored (`ThreadsSpanOneInbox`); counts are exact but for named races, and short by at most the faults (`CountAccounting`); a reply joins a parent that stays held (`ReplyJoinsParent`); Delivery implements Mailbox (`ImplementsMailbox`) |
| `delivery_echo` | The API's message comes back to its own inbox while it is recorded, and an answer arrives at another inbox; two faults, fairness | The same, and a letter accepted once is stored or refused for what it is in the end, unless a first event makes its sender come back and the store then fails at that very RCPT (`LetterSettled`) |
| `thread_assign` | Every index, every candidate, every References list up to three | The loop answers the rule, gives the right reason, credits the right link |
| `smtp_session` | Two peers and one permit; any commands, pipelined; STARTTLS; a database that comes and goes | No letter mixes transactions (`OneTransaction`) or channels (`UpgradeStartsFresh`); the reply to DATA is true (`ReplyIsHonest`); capacity returns (`CapacityReturns`) |
| `blob_store` | Four puts in two processes, disk faults, dropped callers, crashes | An id is returned only for an object that is there (`OkMeansStored`); partial only if shared (`WholeUnlessShared`); temporary files are left only by a crash, a dropped caller, a failed write or a failed clean-up (`StrayOnlyAfterFailure`) |
| `reading` | Each of 24 reads, allowed and refused (walks in both directions, with tokens taken to other mounts; threads; messages; links), against four letters arriving and one of four sets of label changes and deletions | Absent and out of reach look alike (`OutOfScopeIsNotFound`); nothing outside window and mount is shown or written (`WindowHeld`); a walk loses no row that stays (`WalkComplete`); a thread's body tells of a hidden message only by `updated_at` and, if it opened the thread, `subject` (`BodyHonest`), a list only what joined later (`ListHidesOpeners`); concurrent PATCHes are both kept (`PatchSticks`); a link ends TTL after its bytes were last readable (`BytesWereReadable`) |
| `control_plane` | Calls on two organizations, in threes chosen to race and in every pair of all of them; three runs of `amk init` on an empty deployment | `DescendantsWithin`, `AnswersInWindow`, `CreatedOnce`, `ErrorHasCause`, `KeyDiesWithInbox`, `WalkWhole`, `InitOnce` |
| `api_send` | Up to four requests through limiter, handler and exchangers, with failing hosts, lost answers, hang-ups, a restart, and time | The limiter's burst bound holds, corrected by what late readings set a bucket back, and throttling ends (`FairLimit`); a domain takes one message twice only after a lost answer (`TwiceOnlyAfterLoss`); what is recorded was delivered, and what was delivered is recorded but for a failing store, a thread deleted before a reply is counted in it, or a dropped request (`RecordTruthful`) |
| `control_mint` | A pod's key at its inbox, or an inbox's key anywhere, mints a key | **Violates** `MintInherits` (finding 4) |
| `delivery_window` | The outbound index with fewer messages than the inbox holds | **Violates** `ReplyJoinsParent` (finding 1) |
| `smtp_outage` | RCPT while the database does not answer | **Violates** `UnknownIsUnknown` (finding 2) |
| `blob_shared` | Two puts of the same bytes in one process, no faults | **Violates** `WholeOrAbsent` (finding 3) |

### Bounds, and why they are enough

- Delivery: three letters. Each race in the hazards is between two jobs; the
  third is the parent, or the second inbox's letter. `MaxFaults = 1` in
  `delivery_replies`: one fault reaches every stage of every job. `delivery_echo` has
  two, because losing a letter takes two (a deferral, and an outage at the RCPT of the
  retry), and no edits; the proofs have no bound. `MaxEdits = 2`: deleting an inbox and giving
  its address to another tenant takes two. Four thread ids (five with
  two faults) are enough: each attempt of a job opens at most one, there are three
  jobs, and only a fault makes one of them try again. Thread ids are symmetric; where
  liveness allows no symmetry (`delivery_echo`) the action constraint `InOrder` draws
  them in one order, which no guard or property can tell from another. Three tenants:
  two pods of one organization, and another organization. `Window = 3` holds
  every message of the run; it stands for the code's 10 000.
- ThreadAssign: two threads are what ambiguity needs; three ids, one in two
  spellings, a blank; three References make every pattern of repeat, clash and
  unknown. The proofs have no bound.
- SmtpSession: two slots and one permit make capacity run out; two recipients
  make "the last error wins" visible; two pipelined lines put one behind
  STARTTLS.
- BlobStore: two calls of one process and one of another on the same bytes, and
  one on other bytes; two blocks make a file partial; two faults (`MaxFaults`
  counts dropped callers as well) let a clean-up fail after the rename it follows.
- Reading: one organization, two pods, three inboxes (one of them empty), three
  threads, four messages. A page holds one row by default and two at most
  (`DEFAULT_LIMIT`, `MAX_LIMIT`; 100 and 1000 in the code), so that every walk has
  several pages, and a request for three is clamped. Three messages tie in their
  timestamp, two share their bytes. `TTL = 1` with `MaxClock = 2` has a link used
  before, at and after its end. Two or three editors: the PATCH that loses needs two.
  A read writes nothing, so one at a time shows all that several would.
- ControlPlane: three calls are what a create, its replay and a deletion need;
  a chain of mints takes three. `MINT_ATTEMPTS = 2` (4 in the code) makes the last
  draw fail; prefixes of the secrets drawn collide on purpose. Every pair of the calls
  that draw apart is run as well, so that a race nobody chose is not missed between two.
- ApiSend: `CAPACITY = 2`, `REFILL = 1`, `COST_AUTH_FAILURE = 3` (120, 2 a
  second, and 20 in the code): a full bucket admits two, one surcharge reaches the floor of the
  debt, and four requests overlap before the first surcharge lands.
  `IDLE_EVICTION = 4` is the least that `IdleIsFull` allows, `MAX_BUCKETS = 2`
  with three subjects reaches the limit of the map. Five ticks repay the deepest
  debt; each crowd has the time its question takes. A reading is held over as many
  ticks as the crowd has: the run reaches buckets that are set back. Two domains, one with two exchangers and one without a record.
- Deadlock checking is off in every cfg: jobs finish, a session may wait for its
  peer for ever, and calls and requests return,
  so all of these systems may really stop.

### Fairness

- `Delivery!Fairness`: weak fairness of each job's own progress (the tokio
  executor polls every runnable task and sqlx answers or fails) and of each
  MTA's retry (RFC 5321 queues retry what was deferred or broken off; the code's
  451 counts on it). No fairness of faults or edits, which are bounded, and no
  choice between outcomes is fair: `LetterSettled` holds whichever outcome is
  taken.
- Reading, ControlPlane and ApiSend state safety only. A request may be dropped
  wherever it awaits (the client hangs up), so the code promises no request an
  answer.
- `SmtpSession!FairSpec`: each task is polled and each connection's timer fires
  (`tokio::time::timeout` in `server.rs`). Nothing of peers or the database.

## 4. Findings

1. **A reply through the API may leave its thread in a large inbox.**
   `assign_outbound_thread` fills its index from one list of at most 10 000
   messages, the oldest first (`amk-http/src/handlers/messages.rs:518`), while
   `threading.rs:162` promises that a resolvable In-Reply-To wins outright.
   Inbound mail looks links up by id and is not affected. Run `delivery_window`.
2. **A database outage at RCPT bounces mail.** `StoreInboxLookup` answers `None`
   for a store error (`amk-ingest/src/lookup.rs:50`) and the session answers 550
   User unknown, where `docs/PLAN.md:203` promises deferral. Run `smtp_outage`. A
   letter deferred before may be lost that way; `LetterSettled` says so.
3. **Temporary blob names are not unique within a process.** `.tmp-{pid}-{id}`
   (`amk-store/src/blobs.rs:161`) is the same for two puts of the same bytes, so
   a reader may find a truncated object, against the comment above it. If the
   second write is cut short the object stays truncated, because later puts
   take it for present. Run `blob_shared`.
4. **Some keys cannot mint at all.** `create_key` passes both the pod and the
   inbox of the window to the INSERT (`amk-http/src/handlers/api_keys.rs:156`),
   and migration 0007 forbids a key with both. The window of a pod's key at an
   inbox mount, and of an inbox's key at any, pins both: the caller, who is
   permitted, is answered 500, where the handler's doc says the key inherits the
   narrowing. Run `control_mint`; `ErrorHasCause` excepts just this case.

Two further divergences are recorded as hazards: a letter for several recipients
is refused for good when one recipient is deferred and a later one rejected, and
a RCPT given twice is stored and then answered 554.

Met while modelling, with no run of their own:

- A thread may hold messages of two pods. RCPT resolves an address to (organization,
  pod A); the inbox is deleted and its address taken by pod B before the letter is
  stored (`amk-ingest/src/smtp.rs:261`); a key of the organization, whose window has
  no pod (`amk-core/src/scope.rs:367`), replies to it in the new inbox
  (`handlers/messages.rs:339`, `:518`): B's message goes into A's thread. This is what
  `Mixed` excepts in `ThreadsSpanOneInbox`; the run `delivery_replies` reaches it.
- A burst may exceed the bucket. `check` and `penalise` read the clock before the
  lock (`amk-http/src/ratelimit.rs:125`, `:180`), and an older reading sets
  `bucket.last` back (`:149`), so one interval is refilled twice, again with every
  such race. `ratelimit.rs:34` calls CAPACITY "the largest burst allowed". Each race
  sets a bucket back by no more than the time a caller spent between reading and lock.
- `GET .../messages/{id}/raw` looks the blob up by the inbox id as it was spelled
  (`amk-store/src/messages.rs:99`), where the message itself is found under any
  capitals: 404 beside a 200. Reading has it as `capitals`.
- A message nobody took (`outbound_to_app`) is answered 403, which the limiter
  surcharges as it does a failed authentication; a test in `ratelimit.rs` is named
  `a_dependency_outage_is_not_charged_as_a_credential_guess`.
- `penalise` says a missing bucket "cannot happen"; it does for a request that
  `check` let pass at `MAX_BUCKETS`.
- `inboxes::create` that lost a client id race and finds the winner deleted
  answers 500 (`amk-store/src/inboxes.rs:132`). The default pod can be deleted;
  creating an inbox at the organization mount then answers 500.
- An inbox-scoped key is shown its pod in a list and gets 404 for the same pod by
  id. A pod-scoped key can never delete its own pod: it is a reference itself.
- A client id's replay answers with the original wherever in the organization it
  lies, and `pods::create` looks at no scope; an inbox-scoped key may create a
  sibling inbox.
- A call that a deletion overtakes may act on the next inbox of that address.
- `redact_thread` with nothing left to show still returns the thread's body.
- Two racing creates with one client id and one address may meet at the primary key:
  the loser is answered `already_exists`, where the comment on `inboxes::create`
  (`amk-store/src/inboxes.rs:73`) promises an idempotent replay.
- A reply that was delivered, and whose thread is deleted before it is counted there,
  is answered 404 and recorded nowhere (`handlers/messages.rs:720`).
- `http/pagination.rs` explains why there is no upper bound on a limit; the store
  clamps it to 1000. `messages.rs` calls the label update one statement; it is a
  SELECT FOR UPDATE and an UPDATE.

## 5. Proofs

**DeliveryProofs** proves, for any sets of inboxes, tenants, ids and jobs, any
letters, and any number of faults and edits:

- `TypeCorrect == Spec => []TypeOK`
- `ThreadsNeverStraddle == Spec => []ThreadsSpanOneInbox`
- `MailboxImplemented == Spec => ImplementsMailbox`
- `RepliesJoinParents == Spec /\ []Roomy => ReplyJoinsParent`
- `CountsAddUp == Spec => []CountAccounting`

The first two come from `Inductive == Spec => []IInv`. `ThreadsSpanOneInbox` is not inductive: a
job reads a thread id at one moment and writes a message under it later, and
nothing in the tables says what the id means by then. `IInv` adds what a job
carries: every thread id in its index, and the thread it chose, is *homed*: it
has been used, and if it still names a row, that row has the job's inbox and
organization, and its pod unless an organization's credential is at work, or has
been (`Mixed`). Ids are never reused, so nothing any other job or user does can change
this; that is the second conclusion of every statement's lemma
(`InsertThreadInv` ... `CreateInboxInv`). `VisibleIsHomed` and `JoinedIsHomed`
show that what a job reads through its window (`Reach`) and what the rule selects is
homed, and the step
lemmas (`IngestInv`, `SendInv`, `WriteInv`, `FaultInv`, `RetryInv`,
`UserEditInv`) put the two together.

Each of the other three adds an invariant of its own to `IInv`:

- *The refinement.* `PostedInv`: whatever is held was posted, and a job that has only
  the count left to do has posted its message. Then every step of a job opens a
  thread of Mailbox, posts, answers or stutters (`QuietStep`, `OpenMaps`, `PostMaps`),
  and a user's edit takes messages away, and threads only with all their messages
  (`EditGoes`, `RemoveMaps`). That a post goes to a thread at home in the inbox is
  `IInv` again; that 250 or 554 is only answered for what was posted is `PostedInv`.
- *Replies.* `ParentInv`: while the parent is held without a break, it is visible to
  the job, the lookup of it is pending or has named its thread, the job never gets to
  open a thread of its own, and the thread it carries to the insert is the parent's.
  The hypothesis `Roomy` (no inbox holds more messages of a tenant than `Window`) is
  what finding 1 is about: the API's index is one list, and `delivery_window` shows
  the property false without it. `ListedAll` is where it is used, and only for sent
  messages.
- *Counts.* `CountInv` has the account of each thread with what every job owes it:
  a job before `record_member` is counted later (`Counts`), a job that opened a thread
  was counted before it stored (`Opens`), and one that lost the race was counted and
  will never store (`Loses`). `JobsInStep` and `MembersStep` say how the sums
  change when one job moves, `AccountStep` that a step whose bits balance
  (`Settles`) keeps both halves of `CountAccounting`, and the rest is one balance per
  statement. Exactness needs `Undisturbed`: without an edit no thread a job knows is
  missing, and without a failure nobody runs a delivery twice.

Assumptions: `MailAssumption`, `BoundsAssumption`, `NoneAssumption`, that is, the types
of the constants, and that an In-Reply-To header names at most one message.

**ThreadAssignProofs** proves, for any ids, any index, and References lists of
any length, that the loop answers the rule (`AssignAnswersRule`), gives the right
reason (`AssignReasonIsRight`) and credits the right link
(`AssignCreditIsRight`), from `LoopInvariant`: after `pos - 1` references,
`visited` is what they name, `resolved` is the first of them that names a thread,
and `ambiguous` says whether two of them disagree. Assumptions:
`LinksAssumption`, `NoneAssumption`.

**AccessProofs** proves of the operators of Permissions and Scope, for any flags,
ids, mounts and tables: `ChildWithinParent` (what `derive_child` lets through is
within the parent, in an order that is transitive, `WithinIsTransitive`, so a chain
of mints is as good as one); `MountOnlyNarrows`; `AdmittedIsInside` (so a query
filtered by the narrowed window needs no second check); `SettledIsProven`. No
assumption but the types. ReadingProofs and ControlPlaneProofs build on it.

The five modules that follow prove every safety property their runs check, each
from one invariant `IInv` (theorem `Inductive`) that TLC checked on a run of the
same size before it was proved.

**SmtpSessionProofs** (any connections, commands, pipelining, recipients, outages):
`TypeOK`, `OneTransaction`, `UpgradeStartsFresh`, `ReplyIsHonest`. Connections share
only what is stored, which only grows, and the permits; so the invariant is about one
connection's row, and each handler is a lemma about rows. `ReplyIsHonest` is not
inductive, because the reply is put together after the last recipient: `Pending` says
what `error` and `envelope` mean while recipients are still being stored. That no
more connections are open than there are permits is a count of a finite set.
Assumptions: `CapacityAssumption`, `AddressAssumption`, `LetterAssumption`.

**BlobStoreProofs** (any calls, processes, contents, number of blocks and faults):
`TypeOK`, `OkMeansStored`, `WholeUnlessShared`, `StrayOnlyAfterFailure`. The
properties are about names, the invariant about inodes: an inode has one name at most
(`OneName`), only calls with the same temporary name open it (`Openers`), and the one
that truncated it last is still writing, or wrote all of it, or was cut short
(`LastOpener`). `WholeUnlessShared` then follows: another opener is a sharer. A call
whose caller went writes on to the end of its operation, so it cuts nothing short.
Assumption: `CallsAssumption`.

**ApiSendProofs** (any rates, requests, domains, exchangers, answers and restarts):
`TypeOK`, `FairLimit`, `TwiceOnlyAfterLoss`, `RecordTruthful`. `FairLimit` spans time;
the invariant speaks of `Worth`, what a subject has at the instant its bucket stands
at: what was charged since any admission plus `Worth` is at most one full bucket plus
the refill since (`Paid`), in the subject's own time, which a late reading moves on by
what it sets the bucket back (`Books`, `Settled`). No reading is of a time to come
(`Readings`). A dropped bucket is worth no more than a new one at the reading that drops
it, which is exactly `IdleIsFull` (600 s at 2 a second against a debt of 120). A request's copies are
followed domain by domain (`DomainByDomain`): those left have none, the one under way
has only lost what it took, those served have one whose answer came. Assumptions:
`LimiterAssumption`, `IdleIsFull`, `WireAssumption`.

**ReadingProofs** (any mail, requests, limits, editors, TTL): `TypeOK`,
`OutOfScopeIsNotFound`, `WindowHeld`, `WalkComplete`, `BodyHonest`,
`ListHidesOpeners`, `PatchSticks`, `BytesWereReadable`. The store's half of `IInv` is
about locks and rows: a writer that holds a lock is alone with the row and has read
what it says (`Locks`), so a PATCH is undone only by a PATCH. The reader's half is
what a request not yet answered has committed itself to. A walk under way has
returned each row it must not lose or has it past its token (`Walked`); the step needs
that keys order rows totally (`Keyed`), that the page is the first rows past the
token (lemmas about finite sets in a strict order, without induction over data), and
that one row more than a page is read. A link ends within TTL of a moment at which
its bytes were readable (`Links`). Assumptions: `MailAssumption` (a thread is opened by
one message and lies in one inbox), `OrderAssumption` (ids rank, no two alike),
`CallersAssumption` (scopes and mounts that authentication and routing can make).

**ControlPlaneProofs** (any deployment, any calls at once, chains of mints of any
length): `TypeOK`, `DescendantsWithin`, `AnswersInWindow`, `CreatedOnce`,
`ErrorHasCause`, `KeyDiesWithInbox`, `WalkWhole`, `InitOnce`. None of them is
inductive: each handler acts on what its call read some statements ago. `IInv` says, for
the tables, that references lead to rows, client ids are unique and each key is within
all it descends from (`TablesInv`), and for each call (`CallInv`) what it has read by the
statement it stands at and how much of that still holds: its key is its row while there
is one, and is within that row's ancestors even when it is gone (`OwnKey`); while no
deletion overtakes the call, its key, its mount and the row it replays are there
(`Undisturbed`). No statement rewrites a row, so a step touches what another call knows
only by adding a row or removing one. `Frame` says just that, and `OtherKeeps` carries
every other call across any step; what is left of a handler is its own statement and its
own call. A mint is right because the window lies in the minter's scope, `derive_child`
lets through only what the minter has, and the minter was within its ancestors when its
row was read (`ApiKeysCreate`). That chain would break where a key outlived its inbox and
the address lay in another pod; `born` in the invariant excludes it. `WalkWhole` rests on
ids ranking totally: the first row of a page is the least of those ahead, so none that
stays is passed over (`WalkGoesOn`). Assumptions: `MintAssumption`, `OrderAssumption`,
`StartsAssumption`.

Only model-checked: liveness (`LetterSettled`, `CapacityReturns`; TLAPS does not
do liveness under fairness). Every other property of a passing run is a theorem.

## 6. What is left out, and why

- *Data*: message bodies, MIME, header syntax, DKIM and authentication verdicts.
  A letter refused for what it is takes one nondeterministic step; why it is
  refused decides no state.
- *Recipient arithmetic and permissions in Delivery*: they decide whether a
  request is made, not what it does to the tables. ApiSend has both.
- *Merged reads*: `BeginSend` merges `load_parent` and `inboxes::get`, which
  are adjacent reads before the wire is used; the wire is the long gap.
- *Locks*: `record_member` is one action because its row is locked FOR UPDATE.
- *Blobs in Delivery*: they are put before any row is written, and a failed put
  is not fatal; BlobStore models them.
- *The number of recipients in Delivery*: `persist` runs once per recipient and
  shares nothing between them, so recipients are jobs. What the one reply to all of them
  hides (a deferred recipient behind a 554) is SmtpSession's subject, not
  `LetterSettled`'s.
- *Columns without consequence*: used_at, display names, merged metadata, address
  suggestions, the read-only organization and identity endpoints.
- *Two creations of one address in flight at the same instant*: Postgres makes the
  second wait for the first, so ControlPlane has them one after the other.
- *The order of errors inside one JSON body, wording, counters and spans.*
- *A panic that poisons the limiter's lock* (it then lets everybody through).
- *Power loss*: `put` never syncs, so after one a renamed object may be empty.
  BlobStore's crash is a process that stops; the directory survives it.
- *An error of `listener.accept()`* ends the daemon (`server.rs:133`); SmtpSession has
  it accept for ever.
- *Rows of mail in ControlPlane*: threads and messages refer to a pod too, and keep it
  from being deleted as an inbox does; there, only inboxes and keys do.
- *The connection pool*: exhausted, it is one more statement that fails.
- *No caller outside their crate*: `check_thread`, `retain_visible`, `authorize`,
  `require_unrestricted`, `may_subscribe`, `LabelAccess::search`.
- *STARTTLS itself, configuration, migrations, logging, the conformance suite*:
  start-up, I/O and test code.
- The workers, jobs, webhooks and DNS crates of `docs/PLAN.md` have no code yet.

## 7. Plan

Done, in this order: ThreadingRule, MailTables, Delivery with Mailbox and its
first proofs, ThreadAssign with its proofs, SmtpSession, BlobStore; Permissions,
Scope, Labels, Reading, ControlPlane, RateLimiter, ApiSend, AccessProofs; then
SmtpSessionProofs, BlobStoreProofs, ApiSendProofs, ReadingProofs, ControlPlaneProofs.

DeliveryProofs came last in full: the refinement, replies and counts.

What is left: the safety properties are all proved. The invariants that carry the
proofs could be stated nearer the code (CountInv's bits as one weight per job), and
the parts the inventory lists as partly modelled or not at all could be opened.
