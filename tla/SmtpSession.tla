---------------------------- MODULE SmtpSession ----------------------------
(***************************************************************************)
(* The SMTP front of amk-ingest: serve_smtpd's accept loop, which admits a *)
(* bounded number of connections and gives each a deadline, and            *)
(* serve_session / run_commands, the command loop of one connection.       *)
(*                                                                         *)
(* The peer may send any command at any time, ahead of the answers too:    *)
(* lines wait in the connection's buffer.  The database may be down at any *)
(* moment.  Persisting a letter for one recipient is one step here; its    *)
(* own statements are modelled in Delivery.                                *)
(***************************************************************************)
EXTENDS Naturals, Sequences, FiniteSets

CONSTANTS Sessions,        \* connection slots of peers
          MaxConnections,  \* permits of the accept loop's semaphore
          Addresses,       \* recipient addresses
          Local,           \* those in one of local_domains
          Inboxes,         \* those the table inboxes holds
          Letters,
          Unparsable,      \* letters accept() rejects for what they are
          HardFails,       \* letters that fail authentication hard
          TlsOffered,      \* a certificate is configured
          MaxPipelined,    \* bound: lines a peer sends ahead
          MaxRcpts,        \* bound: recipients of one transaction
          NoAddress, NoLetter

ASSUME CapacityAssumption == MaxConnections \in Nat \ {0}
ASSUME AddressAssumption ==
  Local \subseteq Addresses /\ Inboxes \subseteq Addresses /\ NoAddress \notin Addresses
ASSUME LetterAssumption ==
  Unparsable \subseteq Letters /\ HardFails \subseteq Letters /\ NoLetter \notin Letters

VARIABLES session,   \* connection -> what its task holds
          stored,    \* history: <<address, letter>> that were persisted
          up         \* the database answers

vars == <<session, stored, up>>

Verbs  == {"EHLO", "MAIL", "MAIL too big", "RCPT", "DATA", "RSET", "NOOP", "STARTTLS", "QUIT"}
Phases == {"idle", "greeting", "command", "data", "storing", "handshake"}
Codes  == {"none", "ok", "sequence", "too big", "relay", "unknown", "go ahead",
           "accepted", "rejected", "duplicate", "deferred", "busy", "no tls"}
Wires  == {"clear", "tls"}

(* over is how a line travelled; txn tells one MAIL from the next.         *)
Line  == [verb : Verbs, to : Addresses \cup {NoAddress}, over : Wires]
Rcpt  == [to : Addresses, over : Wires, txn : {0, 1}]
Reply == [code : Codes, to : SUBSET Addresses, letter : Letters \cup {NoLetter}]

Plain(code) == [code |-> code, to |-> {}, letter |-> NoLetter]

Closed == [phase |-> "idle", secure |-> FALSE, greeted |-> FALSE, mail |-> "none", txn |-> 0,
           rcpts |-> <<>>, envelope |-> {}, letter |-> NoLetter, error |-> "none",
           buf |-> <<>>, reply |-> Plain("none")]

Session == [phase : Phases, secure : BOOLEAN, greeted : BOOLEAN, mail : Wires \cup {"none"},
            txn : {0, 1}, rcpts : Seq(Rcpt), envelope : SUBSET Addresses,
            letter : Letters \cup {NoLetter},
            error : {"none", "rejected", "duplicate", "deferred"},
            buf : Seq(Line), reply : Reply]

At(s, phase) == session[s].phase = phase
Live         == {s \in Sessions : ~At(s, "idle")}

(* A letter is only taken for a sender and recipients, and a transaction   *)
(* that is being stored has no sender left to be used again.               *)
TypeOK ==
  /\ session \in [Sessions -> Session]
  /\ stored \subseteq Addresses \X Letters
  /\ up \in BOOLEAN
  /\ Cardinality(Live) <= MaxConnections
  /\ \A s \in Sessions :
       /\ At(s, "data") => session[s].mail # "none" /\ session[s].rcpts # <<>>
       /\ At(s, "storing") => session[s].mail = "none" /\ session[s].envelope # {}

Init ==
  /\ session = [s \in Sessions |-> Closed]
  /\ stored = {}
  /\ up = TRUE

Become(s, row) == session' = [session EXCEPT ![s] = row]
End(s)         == Become(s, Closed)

(***************************************************************************)
(* The accept loop.                                                        *)
(***************************************************************************)
Connect(s) ==
  /\ At(s, "idle") /\ Cardinality(Live) < MaxConnections
  /\ Become(s, [Closed EXCEPT !.phase = "greeting"])
  /\ UNCHANGED <<stored, up>>

(* try_acquire_owned: at capacity the peer is answered 421, not queued.    *)
TurnAway(s) ==
  /\ At(s, "idle") /\ Cardinality(Live) >= MaxConnections
  /\ Become(s, [Closed EXCEPT !.reply = Plain("busy")])
  /\ UNCHANGED <<stored, up>>

(* Mutant of Deadline: it only covers waiting for a command.               *)
DeadlineForCommands(s) ==
  /\ At(s, "command")
  /\ End(s)
  /\ UNCHANGED <<stored, up>>

(* tokio::time::timeout drops the session's task wherever it is; the       *)
(* statement it was waiting for may still take effect.                     *)
Deadline(s) ==
  /\ s \in Live
  /\ End(s)
  /\ \/ UNCHANGED stored
     \/ /\ At(s, "storing") /\ up /\ session[s].rcpts # <<>>
        /\ session[s].letter \notin Unparsable \cup HardFails
        /\ stored' = stored \cup {<<Head(session[s].rcpts).to, session[s].letter>>}
  /\ UNCHANGED up

(* The peer closes, or sends a line longer than 16 KiB.                    *)
Hangup(s) ==
  /\ session[s].phase \in {"command", "data", "handshake"}
  /\ At(s, "command") => session[s].buf = <<>>
  /\ End(s)
  /\ UNCHANGED <<stored, up>>

(***************************************************************************)
(* The peer.  It waits for the answer to DATA.                             *)
(***************************************************************************)
PeerSends(s, verb, to) ==
  LET buf == session[s].buf IN
  /\ session[s].phase \in {"greeting", "command"}
  /\ Len(buf) < MaxPipelined
  /\ \A n \in 1..Len(buf) : buf[n].verb # "DATA"
  /\ (verb = "RCPT") <=> (to # NoAddress)
  /\ verb = "RCPT" => Len(session[s].rcpts) < MaxRcpts
  /\ Become(s, [session[s] EXCEPT
       !.buf = Append(@, [verb |-> verb, to |-> to,
                          over |-> IF session[s].secure THEN "tls" ELSE "clear"])])
  /\ UNCHANGED <<stored, up>>

(***************************************************************************)
(* serve_session: greet pause, banner, and the TLS handshake in between.   *)
(***************************************************************************)
(* A peer that speaks before the banner is answered 421 and dropped.       *)
Greet(s) ==
  /\ At(s, "greeting")
  /\ IF session[s].buf = <<>> THEN Become(s, [session[s] EXCEPT !.phase = "command"])
                              ELSE End(s)
  /\ UNCHANGED <<stored, up>>

(* Mutant of Upgrade: the second command loop goes on with the state of    *)
(* the first.                                                              *)
UpgradeKeepsState(s) ==
  /\ At(s, "handshake")
  /\ Become(s, [session[s] EXCEPT !.phase = "command", !.secure = TRUE])
  /\ UNCHANGED <<stored, up>>

(* The loop starts again over TLS with nothing it learned in the clear.    *)
Upgrade(s) ==
  /\ At(s, "handshake")
  /\ Become(s, [Closed EXCEPT !.phase = "command", !.secure = TRUE])
  /\ UNCHANGED <<stored, up>>

(***************************************************************************)
(* run_commands: one line of the buffer.                                   *)
(***************************************************************************)
Reset(row) == [row EXCEPT !.mail = "none", !.rcpts = <<>>]

AnswerEhlo(row, line) == [Reset(row) EXCEPT !.greeted = TRUE, !.reply = Plain("ok")]

(* Mutant of AnswerMail: recipients outlive the next MAIL.                 *)
AnswerMailKeepsRcpts(row, line) ==
  IF ~row.greeted THEN [row EXCEPT !.reply = Plain("sequence")]
  ELSE IF line.verb = "MAIL too big" THEN [row EXCEPT !.reply = Plain("too big")]
  ELSE [row EXCEPT !.mail = line.over, !.txn = 1 - @, !.reply = Plain("ok")]

(* A MAIL refused for its SIZE leaves the transaction before it as it was. *)
AnswerMail(row, line) ==
  IF ~row.greeted THEN [row EXCEPT !.reply = Plain("sequence")]
  ELSE IF line.verb = "MAIL too big" THEN [row EXCEPT !.reply = Plain("too big")]
  ELSE [row EXCEPT !.mail = line.over, !.rcpts = <<>>, !.txn = 1 - @, !.reply = Plain("ok")]

(* StoreInboxLookup: no row, and no answer from the database, are the same.*)
LookupFinds(to) == up /\ to \in Inboxes

AnswerRcpt(row, line) ==
  IF row.mail = "none" THEN [row EXCEPT !.reply = Plain("sequence")]
  ELSE IF line.to \notin Local THEN [row EXCEPT !.reply = Plain("relay")]
  ELSE IF LookupFinds(line.to)
       THEN [row EXCEPT !.rcpts = Append(@, [to |-> line.to, over |-> line.over, txn |-> row.txn]),
                        !.reply = Plain("ok")]
       ELSE [row EXCEPT !.reply = [Plain("unknown") EXCEPT !.to = {line.to}]]

(* Mutant of AnswerData: a sender is enough.                               *)
AnswerDataNoRcpt(row, line) ==
  IF row.mail = "none"
  THEN [row EXCEPT !.reply = Plain("sequence")]
  ELSE [row EXCEPT !.phase = "data", !.reply = Plain("go ahead")]

AnswerData(row, line) ==
  IF row.mail = "none" \/ row.rcpts = <<>>
  THEN [row EXCEPT !.reply = Plain("sequence")]
  ELSE [row EXCEPT !.phase = "data", !.reply = Plain("go ahead")]

AnswerRset(row, line) == [Reset(row) EXCEPT !.reply = Plain("ok")]

(* NOOP, and whatever is not understood or not implemented.                *)
AnswerNoop(row, line) == [row EXCEPT !.reply = Plain("ok")]

AnswerQuit(row, line) == Closed

(* The loop returns, and its buffer with it.                               *)
AnswerStartTls(row, line) ==
  IF row.secure THEN [row EXCEPT !.reply = Plain("sequence")]
  ELSE IF ~TlsOffered THEN [row EXCEPT !.reply = Plain("no tls")]
  ELSE [row EXCEPT !.phase = "handshake", !.reply = Plain("ok")]

Unread(s) == [session[s] EXCEPT !.buf = Tail(@)]
First(s)  == Head(session[s].buf)

Handle(s, verbs, answered) ==
  /\ At(s, "command") /\ session[s].buf # <<>>
  /\ First(s).verb \in verbs
  /\ Become(s, answered)
  /\ UNCHANGED <<stored, up>>

HandleLine(s) ==
  \/ Handle(s, {"EHLO"}, AnswerEhlo(Unread(s), First(s)))
  \/ Handle(s, {"MAIL", "MAIL too big"}, AnswerMail(Unread(s), First(s)))
  \/ Handle(s, {"RCPT"}, AnswerRcpt(Unread(s), First(s)))
  \/ Handle(s, {"DATA"}, AnswerData(Unread(s), First(s)))
  \/ Handle(s, {"RSET"}, AnswerRset(Unread(s), First(s)))
  \/ Handle(s, {"NOOP"}, AnswerNoop(Unread(s), First(s)))
  \/ Handle(s, {"STARTTLS"}, AnswerStartTls(Unread(s), First(s)))
  \/ Handle(s, {"QUIT"}, AnswerQuit(Unread(s), First(s)))

(***************************************************************************)
(* DATA: the content, one persist per recipient in order, one reply.       *)
(***************************************************************************)
ReceiveTooBig(s) ==
  /\ At(s, "data")
  /\ Become(s, [Reset(session[s]) EXCEPT !.phase = "command", !.reply = Plain("too big")])
  /\ UNCHANGED <<stored, up>>

Receive(s, l) ==
  /\ At(s, "data")
  /\ Become(s, [session[s] EXCEPT
       !.phase = "storing", !.mail = "none", !.letter = l, !.error = "none",
       !.envelope = {session[s].rcpts[n].to : n \in 1..Len(session[s].rcpts)}])
  /\ UNCHANGED <<stored, up>>

(* What persist may answer for one recipient, and do.                      *)
Persist(i, l, result) ==
  CASE l \in Unparsable -> result = "rejected" /\ UNCHANGED stored
    [] l \in HardFails \ Unparsable -> result = "none" /\ UNCHANGED stored
    [] OTHER ->
         \/ /\ up /\ <<i, l>> \in stored
            /\ result = "duplicate" /\ UNCHANGED stored
         \/ /\ up /\ <<i, l>> \notin stored
            /\ result = "none" /\ stored' = stored \cup {<<i, l>>}
         \/ /\ ~up
            /\ result = "deferred" /\ stored' \in {stored, stored \cup {<<i, l>>}}

(* Mutant of PersistNext: only the last recipient's result counts.         *)
PersistNextForgets(s) ==
  /\ At(s, "storing") /\ session[s].rcpts # <<>>
  /\ \E result \in {"none", "rejected", "duplicate", "deferred"} :
       /\ Persist(Head(session[s].rcpts).to, session[s].letter, result)
       /\ Become(s, [session[s] EXCEPT !.rcpts = Tail(@), !.error = result])
  /\ UNCHANGED up

(* The last error wins; a success after it does not hide it.               *)
PersistNext(s) ==
  /\ At(s, "storing") /\ session[s].rcpts # <<>>
  /\ \E result \in {"none", "rejected", "duplicate", "deferred"} :
       /\ Persist(Head(session[s].rcpts).to, session[s].letter, result)
       /\ Become(s, [session[s] EXCEPT !.rcpts = Tail(@),
                                       !.error = IF result = "none" THEN @ ELSE result])
  /\ UNCHANGED up

AnswerLetter(s) ==
  /\ At(s, "storing") /\ session[s].rcpts = <<>>
  /\ LET row == session[s] IN
     Become(s, [row EXCEPT
       !.phase = "command", !.envelope = {}, !.letter = NoLetter, !.error = "none",
       !.reply = [code |-> IF row.error = "none" THEN "accepted" ELSE row.error,
                  to |-> row.envelope, letter |-> row.letter]])
  /\ UNCHANGED <<stored, up>>

DatabaseGoesDown  == up /\ up' = FALSE /\ UNCHANGED <<session, stored>>
DatabaseComesBack == ~up /\ up' = TRUE /\ UNCHANGED <<session, stored>>

(* What the daemon does of its own accord for a connection.                *)
Serve(s) ==
  \/ Greet(s) \/ Upgrade(s) \/ HandleLine(s) \/ PersistNext(s) \/ AnswerLetter(s)

Peer(s) ==
  \/ Connect(s) \/ TurnAway(s) \/ Hangup(s) \/ ReceiveTooBig(s)
  \/ \E l \in Letters : Receive(s, l)
  \/ \E verb \in Verbs, to \in Addresses \cup {NoAddress} : PeerSends(s, verb, to)

Next ==
  \/ \E s \in Sessions : Serve(s) \/ Deadline(s) \/ Peer(s)
  \/ DatabaseGoesDown \/ DatabaseComesBack

Spec == Init /\ [][Next]_vars

(* The executor polls every task and the timer fires; nothing is assumed   *)
(* of the peers or the database.                                           *)
FairSpec == Spec /\ \A s \in Sessions : WF_vars(Serve(s)) /\ WF_vars(Deadline(s))

(***************************************************************************)
(* Correctness.                                                            *)
(***************************************************************************)

(* Whatever the peer sends ahead: the recipients a letter will be stored   *)
(* for are local inboxes, asked for after the MAIL whose transaction it is.*)
OneTransaction ==
  \A s \in Sessions :
    \A n \in 1..Len(session[s].rcpts) :
      /\ session[s].rcpts[n].to \in Local \cap Inboxes
      /\ session[s].rcpts[n].txn = session[s].txn

(* Nothing sent in the clear, and no line still waiting when STARTTLS was  *)
(* handled, is part of a letter taken over TLS ("fresh session state",     *)
(* amk-ingest smtp.rs:147).                                                *)
UpgradeStartsFresh ==
  \A s \in Sessions : session[s].secure =>
    /\ session[s].mail # "clear"
    /\ \A n \in 1..Len(session[s].rcpts) : session[s].rcpts[n].over = "tls"
    /\ \A n \in 1..Len(session[s].buf) : session[s].buf[n].over = "tls"

(* The one reply to a letter with several recipients: 250 only if every    *)
(* one of them has it (or it failed authentication and is dropped for all),*)
(* 554 only if one of them really had it or it cannot be accepted as it is.*)
ReplyIsHonest ==
  \A s \in Sessions :
    LET reply == session[s].reply IN
    /\ reply.code = "accepted" =>
         \A i \in reply.to : <<i, reply.letter>> \in stored \/ reply.letter \in HardFails
    /\ reply.code = "duplicate" => \E i \in reply.to : <<i, reply.letter>> \in stored
    /\ reply.code = "rejected" => reply.letter \in Unparsable

(* Peers that open connections and say nothing, in any phase of a session, *)
(* never keep the server from admitting another one for good.              *)
CapacityReturns == []<>(Cardinality(Live) < MaxConnections)

(* "Postgres restart = API and inbound SMTP down for its duration;         *)
(* deferred by sender retries, not lost" (docs/PLAN.md:203): an address is *)
(* only answered 550 User unknown, which no sender retries, if there is no *)
(* such inbox.                                                             *)
UnknownIsUnknown ==
  \A s \in Sessions :
    session[s].reply.code = "unknown" => session[s].reply.to \cap Inboxes = {}
=============================================================================
