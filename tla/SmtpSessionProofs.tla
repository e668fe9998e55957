------------------------- MODULE SmtpSessionProofs -------------------------
(***************************************************************************)
(* The SMTP session keeps its promises for any number of connections, any  *)
(* commands pipelined to any depth, any recipients and any database that   *)
(* comes and goes: no letter mixes transactions or channels, and the one   *)
(* reply it gets is true.                                                  *)
(*                                                                         *)
(* A connection's row shares nothing with another's but what is stored, so *)
(* the invariant is about one row (RowInv), every handler is a lemma about *)
(* rows, and what is stored only grows.  ReplyIsHonest is not inductive:   *)
(* the reply is put together from `error` and `envelope` after the last    *)
(* recipient.  Pending adds what these two say of the recipients that have *)
(* been dealt with so far.                                                 *)
(***************************************************************************)
EXTENDS SmtpSession, SequenceTheorems, FiniteSetTheorems, TLAPS

Typed(row) ==
  /\ row \in Session
  /\ row.phase = "data" => row.mail # "none" /\ row.rcpts # <<>>
  /\ row.phase = "storing" =>
       row.mail = "none" /\ row.envelope # {} /\ row.letter \in Letters

OwnRcpts(row) ==
  \A n \in 1..Len(row.rcpts) :
    row.rcpts[n].to \in Local \cap Inboxes /\ row.rcpts[n].txn = row.txn

Fresh(row) ==
  row.secure =>
    /\ row.mail # "clear"
    /\ \A n \in 1..Len(row.rcpts) : row.rcpts[n].over = "tls"
    /\ \A n \in 1..Len(row.buf) : row.buf[n].over = "tls"

HonestReply(reply, kept) ==
  /\ reply.code = "accepted" =>
       \A i \in reply.to : <<i, reply.letter>> \in kept \/ reply.letter \in HardFails
  /\ reply.code = "duplicate" => \E i \in reply.to : <<i, reply.letter>> \in kept
  /\ reply.code = "rejected" => reply.letter \in Unparsable

(* What error and envelope say half way through the recipients.            *)
Pending(row, kept) ==
  row.phase = "storing" =>
    /\ \A n \in 1..Len(row.rcpts) : row.rcpts[n].to \in row.envelope
    /\ row.error = "none" =>
         \A i \in row.envelope :
           \/ \E n \in 1..Len(row.rcpts) : row.rcpts[n].to = i
           \/ <<i, row.letter>> \in kept
           \/ row.letter \in HardFails
    /\ row.error = "duplicate" => \E i \in row.envelope : <<i, row.letter>> \in kept
    /\ row.error = "rejected" => row.letter \in Unparsable

RowInv(row, kept) ==
  /\ Typed(row) /\ OwnRcpts(row) /\ Fresh(row)
  /\ HonestReply(row.reply, kept) /\ Pending(row, kept)

IInv ==
  /\ session \in [Sessions -> Session]
  /\ \A s \in Sessions : RowInv(session[s], stored)
  /\ stored \subseteq Addresses \X Letters
  /\ up \in BOOLEAN
  /\ IsFiniteSet(Live) /\ Cardinality(Live) <= MaxConnections

(***************************************************************************)
(* Rows.                                                                   *)
(***************************************************************************)
(* A plain reply claims nothing about a letter.                            *)
LEMMA PlainIsHonest ==
  ASSUME NEW code \in Codes \ {"accepted", "duplicate", "rejected"}, NEW kept
  PROVE  /\ Plain(code) \in Reply
         /\ HonestReply(Plain(code), kept)
BY DEF Plain, Reply, HonestReply, Codes

(* Nothing is quantified over the positions of an empty sequence.          *)
LEMMA NoneListed == \A n \in 1..Len(<<>>) : FALSE
BY EmptySeq

(* A row without a letter, a transaction or a line.                        *)
LEMMA BlankInv ==
  ASSUME NEW row \in Session, NEW kept, row.phase \in {"idle", "greeting", "command"},
         row.mail = "none", row.rcpts = <<>>, row.buf = <<>>,
         NEW code \in {"none", "busy"}, row.reply = Plain(code)
  PROVE  RowInv(row, kept)
<1>1. HonestReply(row.reply, kept)
  BY PlainIsHonest DEF Codes
<1>2. \A n \in 1..Len(row.rcpts) : FALSE
  BY NoneListed
<1>3. \A n \in 1..Len(row.buf) : FALSE
  BY NoneListed
<1>4. Typed(row) /\ Pending(row, kept)
  BY DEF Typed, Pending
<1>5. OwnRcpts(row) /\ Fresh(row)
  BY <1>2, <1>3 DEF OwnRcpts, Fresh
<1> QED BY <1>1, <1>4, <1>5 DEF RowInv

(* The row of a connection that is not there.                              *)
LEMMA ClosedTyped == Closed \in Session
<1>1. <<>> \in Seq(Rcpt) /\ <<>> \in Seq(Line)
  BY EmptySeq
<1>2. Plain("none") \in Reply
  BY PlainIsHonest DEF Codes
<1> QED BY <1>1, <1>2 DEF Closed, Session, Phases

(* What is stored only grows, and no row minds.                            *)
LEMMA RowInvGrows ==
  ASSUME NEW row, NEW kept, NEW more, kept \subseteq more, RowInv(row, kept)
  PROVE  RowInv(row, more)
<1>1. HonestReply(row.reply, more)
  BY DEF RowInv, HonestReply
<1>2. Pending(row, more)
  BY DEF RowInv, Pending
<1> QED BY <1>1, <1>2 DEF RowInv

(* A row in the command loop with another plain reply.                     *)
LEMMA Answered ==
  ASSUME NEW kept, NEW row, RowInv(row, kept), row.phase = "command",
         NEW code \in Codes \ {"accepted", "duplicate", "rejected"}
  PROVE  RowInv([row EXCEPT !.reply = Plain(code)], kept)
<1>1. Plain(code) \in Reply /\ HonestReply(Plain(code), kept)
  BY PlainIsHonest
<1> QED BY <1>1 DEF RowInv, Typed, OwnRcpts, Fresh, Pending, Session

(* Taking a line out of the buffer; over TLS the line came over TLS.       *)
LEMMA UnreadInv ==
  ASSUME NEW kept, NEW row, RowInv(row, kept), row.phase = "command", row.buf # <<>>
  PROVE  /\ RowInv([row EXCEPT !.buf = Tail(@)], kept)
         /\ Head(row.buf) \in Line
         /\ row.secure => Head(row.buf).over = "tls"
<1>1. row.buf \in Seq(Line) /\ row \in Session
  BY DEF RowInv, Typed, Session
<1>2. /\ Head(row.buf) \in Line /\ Tail(row.buf) \in Seq(Line)
      /\ Len(Tail(row.buf)) = Len(row.buf) - 1
      /\ \A n \in 1..Len(Tail(row.buf)) : Tail(row.buf)[n] = row.buf[n + 1]
  BY <1>1, HeadTailProperties
<1>3. Head(row.buf) = row.buf[1] /\ Len(row.buf) \in Nat \ {0}
  BY <1>1, EmptySeq
<1>4. row.secure => /\ Head(row.buf).over = "tls"
                    /\ \A n \in 1..Len(Tail(row.buf)) : Tail(row.buf)[n].over = "tls"
  BY <1>2, <1>3 DEF RowInv, Fresh
<1>5. [row EXCEPT !.buf = Tail(@)] \in Session
  BY <1>1, <1>2 DEF Session
<1> QED
  BY <1>2, <1>4, <1>5 DEF RowInv, Typed, OwnRcpts, Fresh, Pending, Session

(* RSET, EHLO and a letter too big leave no transaction.                   *)
AfterReset(row, greeted, code) ==
  [Reset(row) EXCEPT !.phase = "command", !.greeted = greeted, !.reply = Plain(code)]

(* RSET, EHLO, and the end of a letter: nothing of the transaction stays.  *)
LEMMA ResetInv ==
  ASSUME NEW kept, NEW row, RowInv(row, kept), row.phase \in {"command", "data"},
         NEW greeted \in BOOLEAN, NEW code \in {"ok", "too big"}
  PROVE  RowInv(AfterReset(row, greeted, code), kept)
<1>1. Plain(code) \in Reply /\ HonestReply(Plain(code), kept)
  BY PlainIsHonest DEF Codes
<1>2. <<>> \in Seq(Rcpt) /\ Len(<<>>) = 0
  BY EmptySeq
<1>3. row \in Session
  BY DEF RowInv, Typed
<1> DEFINE next == AfterReset(row, greeted, code)
<1>4. next \in Session
  BY <1>1, <1>2, <1>3 DEF AfterReset, Reset, Session, Phases
<1>5. /\ next.phase = "command" /\ next.rcpts = <<>> /\ next.mail = "none"
      /\ next.reply = Plain(code) /\ next.buf = row.buf /\ next.secure = row.secure
  BY <1>3 DEF AfterReset, Reset, Session
<1> HIDE DEF next
<1>6. Typed(next) /\ Pending(next, kept)
  BY <1>4, <1>5 DEF Typed, Pending
<1>7. \A n \in 1..Len(next.rcpts) : FALSE
  BY <1>5, NoneListed
<1>8. OwnRcpts(next)
  BY <1>7 DEF OwnRcpts
<1>9. Fresh(next)
  BY <1>5, <1>7 DEF RowInv, Fresh
<1> QED BY <1>1, <1>5, <1>6, <1>8, <1>9 DEF RowInv, next

LEMMA EhloInv ==
  ASSUME NEW kept, NEW row, RowInv(row, kept), row.phase = "command", NEW line \in Line
  PROVE  RowInv(AnswerEhlo(row, line), kept)
<1>1. row \in Session
  BY DEF RowInv, Typed
<1>2. AnswerEhlo(row, line) = AfterReset(row, TRUE, "ok")
  BY <1>1 DEF AnswerEhlo, AfterReset, Reset, Session
<1> QED BY <1>2, ResetInv

LEMMA RsetInv ==
  ASSUME NEW kept, NEW row, RowInv(row, kept), row.phase = "command", NEW line \in Line
  PROVE  RowInv(AnswerRset(row, line), kept)
<1>1. row \in Session /\ row.greeted \in BOOLEAN
  BY DEF RowInv, Typed, Session
<1>2. AnswerRset(row, line) = AfterReset(row, row.greeted, "ok")
  BY <1>1 DEF AnswerRset, AfterReset, Reset, Session
<1> QED BY <1>1, <1>2, ResetInv

LEMMA NoopInv ==
  ASSUME NEW kept, NEW row, RowInv(row, kept), row.phase = "command", NEW line \in Line
  PROVE  RowInv(AnswerNoop(row, line), kept)
BY Answered DEF AnswerNoop, Codes

(* A new transaction has a sender, of this line's channel, and no          *)
(* recipients.                                                             *)
LEMMA MailInv ==
  ASSUME NEW kept, NEW row, RowInv(row, kept), row.phase = "command", NEW line \in Line,
         row.secure => line.over = "tls"
  PROVE  RowInv(AnswerMail(row, line), kept)
<1>1. CASE ~row.greeted
  BY <1>1, Answered DEF AnswerMail, Codes
<1>2. CASE row.greeted /\ line.verb = "MAIL too big"
  BY <1>2, Answered DEF AnswerMail, Codes
<1>3. CASE row.greeted /\ line.verb # "MAIL too big"
  <2> DEFINE next == [row EXCEPT !.mail = line.over, !.rcpts = <<>>, !.txn = 1 - @,
                                 !.reply = Plain("ok")]
  <2>1. Plain("ok") \in Reply /\ HonestReply(Plain("ok"), kept)
    BY PlainIsHonest DEF Codes
  <2>2. <<>> \in Seq(Rcpt) /\ Len(<<>>) = 0
    BY EmptySeq
  <2>3. row \in Session
    BY DEF RowInv, Typed
  <2>4. line.over \in Wires /\ 1 - row.txn \in {0, 1}
    BY <2>3 DEF Line, Session
  <2>5. next \in Session
    BY <2>1, <2>2, <2>3, <2>4 DEF Session
  <2>6. /\ next.phase = "command" /\ next.rcpts = <<>> /\ next.mail = line.over
        /\ next.reply = Plain("ok") /\ next.buf = row.buf /\ next.secure = row.secure
    BY <2>3 DEF Session
  <2>7. AnswerMail(row, line) = next
    BY <1>3 DEF AnswerMail
  <2> HIDE DEF next
  <2>8. Typed(next) /\ OwnRcpts(next) /\ Fresh(next) /\ Pending(next, kept)
    BY <2>2, <2>5, <2>6 DEF RowInv, Typed, OwnRcpts, Fresh, Pending
  <2> QED BY <2>1, <2>6, <2>7, <2>8 DEF RowInv
<1> QED BY <1>1, <1>2, <1>3

(* A recipient joins the transaction only if an inbox has its address.     *)
LEMMA RcptInv ==
  ASSUME NEW kept, NEW row, RowInv(row, kept), row.phase = "command", NEW line \in Line,
         row.secure => line.over = "tls"
  PROVE  RowInv(AnswerRcpt(row, line), kept)
<1>1. CASE row.mail = "none"
  BY <1>1, Answered DEF AnswerRcpt, Codes
<1>2. CASE row.mail # "none" /\ line.to \notin Local
  BY <1>2, Answered DEF AnswerRcpt, Codes
<1>3. CASE row.mail # "none" /\ line.to \in Local /\ ~LookupFinds(line.to)
  <2> DEFINE reply == [Plain("unknown") EXCEPT !.to = {line.to}]
  <2>1. reply \in Reply /\ HonestReply(reply, kept)
    BY <1>3, AddressAssumption DEF Plain, Reply, HonestReply, Codes
  <2>2. AnswerRcpt(row, line) = [row EXCEPT !.reply = reply]
    BY <1>3 DEF AnswerRcpt
  <2> HIDE DEF reply
  <2> QED BY <2>1, <2>2 DEF RowInv, Typed, OwnRcpts, Fresh, Pending, Session
<1>4. CASE row.mail # "none" /\ line.to \in Local /\ LookupFinds(line.to)
  <2> DEFINE rcpt == [to |-> line.to, over |-> line.over, txn |-> row.txn]
             next == [row EXCEPT !.rcpts = Append(@, rcpt), !.reply = Plain("ok")]
  <2>1. Plain("ok") \in Reply /\ HonestReply(Plain("ok"), kept)
    BY PlainIsHonest DEF Codes
  <2>2. row \in Session /\ row.rcpts \in Seq(Rcpt) /\ row.txn \in {0, 1}
    BY DEF RowInv, Typed, Session
  <2>3. rcpt \in Rcpt /\ rcpt.to \in Local \cap Inboxes /\ rcpt.txn = row.txn
        /\ rcpt.over = line.over
    BY <1>4, <2>2, AddressAssumption DEF Rcpt, Line, LookupFinds
  <2>4. AnswerRcpt(row, line) = next
    BY <1>4 DEF AnswerRcpt
  <2> HIDE DEF rcpt
  <2>5. /\ Append(row.rcpts, rcpt) \in Seq(Rcpt)
        /\ Len(Append(row.rcpts, rcpt)) = Len(row.rcpts) + 1
        /\ \A n \in 1..Len(row.rcpts) : Append(row.rcpts, rcpt)[n] = row.rcpts[n]
        /\ Append(row.rcpts, rcpt)[Len(row.rcpts) + 1] = rcpt
        /\ Len(row.rcpts) \in Nat
    BY <2>2, <2>3, AppendProperties, LenProperties
  <2>6. \A n \in 1..Len(Append(row.rcpts, rcpt)) :
          n \in 1..Len(row.rcpts) \/ Append(row.rcpts, rcpt)[n] = rcpt
    BY <2>5
  <2>7. next \in Session
    BY <2>1, <2>2, <2>5 DEF Session
  <2>8. /\ next.phase = "command" /\ next.rcpts = Append(row.rcpts, rcpt)
        /\ next.mail = row.mail /\ next.txn = row.txn /\ next.reply = Plain("ok")
        /\ next.buf = row.buf /\ next.secure = row.secure
    BY <2>2 DEF Session
  <2> HIDE DEF next
  <2>9. OwnRcpts(next)
    BY <2>3, <2>5, <2>6, <2>8 DEF RowInv, OwnRcpts
  <2>10. Fresh(next)
    BY <2>3, <2>5, <2>6, <2>8 DEF RowInv, Fresh
  <2>11. Typed(next) /\ Pending(next, kept)
    BY <2>7, <2>8 DEF Typed, Pending
  <2> QED BY <2>1, <2>4, <2>8, <2>9, <2>10, <2>11 DEF RowInv
<1> QED BY <1>1, <1>2, <1>3, <1>4

(* DATA starts a letter only for a sender and somebody to deliver to.      *)
LEMMA DataInv ==
  ASSUME NEW kept, NEW row, RowInv(row, kept), row.phase = "command", NEW line \in Line
  PROVE  RowInv(AnswerData(row, line), kept)
<1>1. CASE row.mail = "none" \/ row.rcpts = <<>>
  BY <1>1, Answered DEF AnswerData, Codes
<1>2. CASE row.mail # "none" /\ row.rcpts # <<>>
  <2>1. Plain("go ahead") \in Reply /\ HonestReply(Plain("go ahead"), kept)
    BY PlainIsHonest DEF Codes
  <2>2. AnswerData(row, line) = [row EXCEPT !.phase = "data", !.reply = Plain("go ahead")]
    BY <1>2 DEF AnswerData
  <2>3. row \in Session
    BY DEF RowInv, Typed
  <2> DEFINE next == [row EXCEPT !.phase = "data", !.reply = Plain("go ahead")]
  <2>4. next \in Session
    BY <2>1, <2>3 DEF Session, Phases
  <2>5. /\ next.phase = "data" /\ next.rcpts = row.rcpts /\ next.mail = row.mail
        /\ next.txn = row.txn /\ next.reply = Plain("go ahead")
        /\ next.buf = row.buf /\ next.secure = row.secure
    BY <2>3 DEF Session
  <2> HIDE DEF next
  <2>6. Typed(next) /\ Pending(next, kept)
    BY <1>2, <2>4, <2>5 DEF Typed, Pending
  <2>7. OwnRcpts(next) /\ Fresh(next)
    BY <2>5 DEF RowInv, OwnRcpts, Fresh
  <2> QED BY <2>1, <2>2, <2>5, <2>6, <2>7 DEF RowInv, next
<1> QED BY <1>1, <1>2

(* STARTTLS is answered in the clear, before anything is forgotten.        *)
LEMMA StartTlsInv ==
  ASSUME NEW kept, NEW row, RowInv(row, kept), row.phase = "command", NEW line \in Line
  PROVE  RowInv(AnswerStartTls(row, line), kept)
<1>1. CASE row.secure \/ ~TlsOffered
  BY <1>1, Answered DEF AnswerStartTls, Codes
<1>2. CASE ~row.secure /\ TlsOffered
  <2>1. Plain("ok") \in Reply /\ HonestReply(Plain("ok"), kept)
    BY PlainIsHonest DEF Codes
  <2>2. AnswerStartTls(row, line) = [row EXCEPT !.phase = "handshake", !.reply = Plain("ok")]
    BY <1>2 DEF AnswerStartTls
  <2> QED BY <1>2, <2>1, <2>2 DEF RowInv, Typed, OwnRcpts, Fresh, Pending, Session, Phases
<1> QED BY <1>1, <1>2

(* The peer writes ahead; the line remembers its channel.                  *)
LEMMA SentAheadInv ==
  ASSUME NEW kept, NEW row, RowInv(row, kept), NEW line \in Line,
         line.over = IF row.secure THEN "tls" ELSE "clear"
  PROVE  RowInv([row EXCEPT !.buf = Append(@, line)], kept)
<1>1. row \in Session /\ row.buf \in Seq(Line)
  BY DEF RowInv, Typed, Session
<1>2. /\ Append(row.buf, line) \in Seq(Line)
      /\ Len(Append(row.buf, line)) = Len(row.buf) + 1
      /\ \A n \in 1..Len(row.buf) : Append(row.buf, line)[n] = row.buf[n]
      /\ Append(row.buf, line)[Len(row.buf) + 1] = line
      /\ Len(row.buf) \in Nat
  BY <1>1, AppendProperties, LenProperties
<1>3. \A n \in 1..Len(Append(row.buf, line)) :
        n \in 1..Len(row.buf) \/ Append(row.buf, line)[n] = line
  BY <1>2
<1> DEFINE next == [row EXCEPT !.buf = Append(@, line)]
<1>4. next \in Session
  BY <1>1, <1>2 DEF Session
<1>5. /\ next.phase = row.phase /\ next.rcpts = row.rcpts /\ next.mail = row.mail
      /\ next.txn = row.txn /\ next.reply = row.reply /\ next.secure = row.secure
      /\ next.envelope = row.envelope /\ next.letter = row.letter
      /\ next.error = row.error /\ next.buf = Append(row.buf, line)
  BY <1>1 DEF Session
<1> HIDE DEF next
<1>6. Typed(next) /\ OwnRcpts(next) /\ Pending(next, kept)
  BY <1>4, <1>5 DEF RowInv, Typed, OwnRcpts, Pending
<1>7. Fresh(next)
  BY <1>2, <1>3, <1>5 DEF RowInv, Fresh
<1> QED BY <1>5, <1>6, <1>7 DEF RowInv, next

(* The content has come: nobody has been dealt with yet.                   *)
Received(row, l) ==
  [row EXCEPT !.phase = "storing", !.mail = "none", !.letter = l, !.error = "none",
              !.envelope = {row.rcpts[n].to : n \in 1..Len(row.rcpts)}]

(* The letter takes the recipients, and the transaction ends with it.      *)
LEMMA ReceiveInv ==
  ASSUME NEW kept, NEW row, RowInv(row, kept), row.phase = "data", NEW l \in Letters
  PROVE  RowInv(Received(row, l), kept)
<1>1. row \in Session /\ row.rcpts \in Seq(Rcpt) /\ row.rcpts # <<>>
  BY DEF RowInv, Typed, Session
<1>2. \A n \in 1..Len(row.rcpts) : row.rcpts[n] \in Rcpt
  BY <1>1, ElementOfSeq
<1>3. Len(row.rcpts) \in Nat \ {0}
  BY <1>1, EmptySeq
<1> DEFINE envelope == {row.rcpts[n].to : n \in 1..Len(row.rcpts)}
           next == Received(row, l)
<1>4. envelope \in SUBSET Addresses /\ row.rcpts[1].to \in envelope
  BY <1>2, <1>3 DEF Rcpt
<1>5. next \in Session
  BY <1>1, <1>4 DEF Received, Session, Phases
<1>6. /\ next.phase = "storing" /\ next.rcpts = row.rcpts /\ next.mail = "none"
      /\ next.txn = row.txn /\ next.reply = row.reply /\ next.secure = row.secure
      /\ next.envelope = envelope /\ next.letter = l
      /\ next.error = "none" /\ next.buf = row.buf
  BY <1>1 DEF Received, Session
<1>7. \A n \in 1..Len(row.rcpts) : row.rcpts[n].to \in envelope
  OBVIOUS
<1>8. \A i \in envelope : \E n \in 1..Len(row.rcpts) : row.rcpts[n].to = i
  OBVIOUS
<1> HIDE DEF next, envelope
<1>9. Typed(next)
  BY <1>4, <1>5, <1>6 DEF Typed
<1>10. OwnRcpts(next) /\ Fresh(next)
  BY <1>6 DEF RowInv, OwnRcpts, Fresh
<1>11. Pending(next, kept)
  BY <1>6, <1>7, <1>8 DEF Pending
<1> QED BY <1>6, <1>9, <1>10, <1>11 DEF RowInv, next

(* One recipient is dealt with, and what error says stays true.            *)
Persisted(row, result) ==
  [row EXCEPT !.rcpts = Tail(@), !.error = IF result = "none" THEN @ ELSE result]

(* One recipient is dealt with: stored, refused, or left to the error.     *)
LEMMA PersistInv ==
  ASSUME stored \subseteq Addresses \X Letters, up \in BOOLEAN,
         NEW row, RowInv(row, stored), row.phase = "storing", row.rcpts # <<>>,
         NEW result \in {"none", "rejected", "duplicate", "deferred"},
         Persist(Head(row.rcpts).to, row.letter, result)
  PROVE  /\ RowInv(Persisted(row, result), stored')
         /\ stored \subseteq stored' /\ stored' \subseteq Addresses \X Letters
<1> DEFINE i == Head(row.rcpts).to
           l == row.letter
           next == Persisted(row, result)
<1>1. row \in Session /\ row.rcpts \in Seq(Rcpt) /\ l \in Letters
  BY DEF RowInv, Typed, Session
<1>2. /\ Head(row.rcpts) \in Rcpt /\ Tail(row.rcpts) \in Seq(Rcpt)
      /\ Len(Tail(row.rcpts)) = Len(row.rcpts) - 1
      /\ \A n \in 1..Len(Tail(row.rcpts)) : Tail(row.rcpts)[n] = row.rcpts[n + 1]
  BY <1>1, HeadTailProperties
<1>3. Head(row.rcpts) = row.rcpts[1] /\ Len(row.rcpts) \in Nat \ {0}
  BY <1>1, EmptySeq
<1>4. i \in Addresses /\ i \in row.envelope
  BY <1>2, <1>3 DEF RowInv, Pending, Rcpt
<1>5. \A n \in 1..Len(Tail(row.rcpts)) :
        n + 1 \in 1..Len(row.rcpts) /\ Tail(row.rcpts)[n] = row.rcpts[n + 1]
  BY <1>2, <1>3
<1>6. \A n \in 1..Len(row.rcpts) :
        row.rcpts[n].to = i \/ \E m \in 1..Len(Tail(row.rcpts)) : Tail(row.rcpts)[m] = row.rcpts[n]
  <2> SUFFICES ASSUME NEW n \in 1..Len(row.rcpts), n # 1
               PROVE  \E m \in 1..Len(Tail(row.rcpts)) : Tail(row.rcpts)[m] = row.rcpts[n]
    BY <1>3
  <2>1. n - 1 \in 1..Len(Tail(row.rcpts)) /\ (n - 1) + 1 = n
    BY <1>2, <1>3
  <2> QED BY <1>2, <2>1
<1>7. /\ stored \subseteq stored' /\ stored' \subseteq Addresses \X Letters
      /\ result = "none" => <<i, l>> \in stored' \/ l \in HardFails
      /\ result = "duplicate" => <<i, l>> \in stored'
      /\ result = "rejected" => l \in Unparsable
  BY <1>1, <1>4 DEF Persist
<1>8. next \in Session
  BY <1>1, <1>2 DEF Persisted, Session
<1>9. /\ next.phase = "storing" /\ next.rcpts = Tail(row.rcpts) /\ next.mail = row.mail
      /\ next.txn = row.txn /\ next.reply = row.reply /\ next.secure = row.secure
      /\ next.envelope = row.envelope /\ next.letter = l /\ next.buf = row.buf
      /\ next.error = IF result = "none" THEN row.error ELSE result
  BY <1>1 DEF Persisted, Session
<1>10. RowInv(row, stored')
  BY <1>7, RowInvGrows
<1> HIDE DEF next, i, l
<1>11. Typed(next)
  BY <1>1, <1>8, <1>9 DEF RowInv, Typed
<1>12. OwnRcpts(next) /\ Fresh(next)
  BY <1>5, <1>9 DEF RowInv, OwnRcpts, Fresh
<1>13. \A n \in 1..Len(next.rcpts) : next.rcpts[n].to \in next.envelope
  BY <1>5, <1>9 DEF RowInv, Pending
<1>14. ASSUME next.error = "none", NEW a \in next.envelope
       PROVE  \/ \E n \in 1..Len(next.rcpts) : next.rcpts[n].to = a
              \/ <<a, next.letter>> \in stored'
              \/ next.letter \in HardFails
  <2>1. row.error = "none" /\ result = "none"
    BY <1>9, <1>14
  <2>2. CASE \E n \in 1..Len(row.rcpts) : row.rcpts[n].to = a
    <3>1. PICK n \in 1..Len(row.rcpts) : row.rcpts[n].to = a
      BY <2>2
    <3> QED BY <1>6, <1>7, <1>9, <2>1, <3>1
  <2>3. CASE ~ \E n \in 1..Len(row.rcpts) : row.rcpts[n].to = a
    BY <1>9, <1>10, <2>1, <2>3, <1>14 DEF RowInv, Pending, l
  <2> QED BY <2>2, <2>3
<1>15. next.error = "duplicate" => \E a \in next.envelope : <<a, next.letter>> \in stored'
  BY <1>4, <1>7, <1>9, <1>10 DEF RowInv, Pending, l
<1>16. next.error = "rejected" => next.letter \in Unparsable
  BY <1>7, <1>9 DEF RowInv, Pending, l
<1>17. Pending(next, stored')
  BY <1>13, <1>14, <1>15, <1>16 DEF Pending
<1>18. HonestReply(next.reply, stored')
  BY <1>9, <1>10 DEF RowInv
<1> QED BY <1>7, <1>11, <1>12, <1>17, <1>18 DEF RowInv, next

(* All recipients are dealt with: the reply says what is so.               *)
Concluded(row) ==
  [row EXCEPT !.phase = "command", !.envelope = {}, !.letter = NoLetter, !.error = "none",
              !.reply = [code |-> IF row.error = "none" THEN "accepted" ELSE row.error,
                         to |-> row.envelope, letter |-> row.letter]]

(* The reply says of the envelope what Pending says of the recipients.     *)
LEMMA ConcludeInv ==
  ASSUME NEW kept, NEW row, RowInv(row, kept), row.phase = "storing", row.rcpts = <<>>
  PROVE  RowInv(Concluded(row), kept)
<1> DEFINE reply == [code |-> IF row.error = "none" THEN "accepted" ELSE row.error,
                     to |-> row.envelope, letter |-> row.letter]
           next == Concluded(row)
<1>1. row \in Session
  BY DEF RowInv, Typed
<1>2. \A n \in 1..Len(row.rcpts) : FALSE
  BY NoneListed
<1>3. reply \in Reply
  BY <1>1 DEF Reply, Session, Codes
<1>4. HonestReply(reply, kept)
  BY <1>1, <1>2 DEF RowInv, Pending, HonestReply, Session
<1>5. next \in Session
  BY <1>1, <1>3 DEF Concluded, Session, Phases
<1>6. /\ next.phase = "command" /\ next.rcpts = row.rcpts /\ next.mail = row.mail
      /\ next.txn = row.txn /\ next.reply = reply /\ next.secure = row.secure
      /\ next.buf = row.buf
  BY <1>1 DEF Concluded, Session
<1> HIDE DEF next, reply
<1>7. Typed(next) /\ Pending(next, kept)
  BY <1>5, <1>6 DEF Typed, Pending
<1>8. OwnRcpts(next) /\ Fresh(next)
  BY <1>6 DEF RowInv, OwnRcpts, Fresh
<1> QED BY <1>4, <1>6, <1>7, <1>8 DEF RowInv, next

(***************************************************************************)
(* Steps.                                                                  *)
(***************************************************************************)
(* A step that replaces one row, and uses no permit that is not there.     *)
LEMMA BecomeInv ==
  ASSUME IInv, NEW s \in Sessions, NEW row, Become(s, row),
         RowInv(row, stored'), stored \subseteq stored', stored' \subseteq Addresses \X Letters,
         up' \in BOOLEAN,
         row.phase # "idle" => s \in Live \/ Cardinality(Live) < MaxConnections
  PROVE  IInv'
<1>1. row \in Session
  BY DEF RowInv, Typed
<1>2. /\ session' \in [Sessions -> Session]
      /\ session'[s] = row
      /\ \A t \in Sessions \ {s} : session'[t] = session[t]
  BY <1>1 DEF IInv, Become
<1>3. ASSUME NEW t \in Sessions
      PROVE  RowInv(session'[t], stored')
  <2>1. CASE t = s
    BY <1>2, <2>1
  <2>2. CASE t # s
    BY <1>2, <2>2, RowInvGrows DEF IInv
  <2> QED BY <2>1, <2>2
<1>4. IsFiniteSet(Live') /\ Cardinality(Live') <= MaxConnections
  <2> USE CapacityAssumption
  <2>1. CASE row.phase = "idle"
    <3>1. Live' = Live \ {s}
      BY <1>2, <2>1 DEF Live, At
    <3>2. IsFiniteSet(Live) /\ Cardinality(Live) \in Nat
      BY FS_CardinalityType DEF IInv
    <3>3. IsFiniteSet(Live \ {s}) /\ Cardinality(Live \ {s}) <= Cardinality(Live)
      <4>1. IsFiniteSet(Live \ {s})
        BY <3>2, FS_RemoveElement
      <4>2. Live \ {s} \in SUBSET Live
        OBVIOUS
      <4> QED BY <3>2, <4>1, <4>2, FS_Subset
    <3>4. Cardinality(Live \ {s}) \in Nat
      BY <3>3, FS_CardinalityType
    <3> QED BY <3>1, <3>2, <3>3, <3>4 DEF IInv
  <2>2. CASE row.phase # "idle"
    <3>1. Live' = Live \cup {s}
      BY <1>2, <2>2 DEF Live, At
    <3>2. IsFiniteSet(Live) /\ Cardinality(Live) \in Nat
      BY FS_CardinalityType DEF IInv
    <3>3. /\ IsFiniteSet(Live \cup {s})
          /\ Cardinality(Live \cup {s})
               = IF s \in Live THEN Cardinality(Live) ELSE Cardinality(Live) + 1
      BY <3>2, FS_AddElement
    <3> QED BY <2>2, <3>1, <3>2, <3>3 DEF IInv
  <2> QED BY <2>1, <2>2
<1> QED BY <1>2, <1>3, <1>4 DEF IInv

(* The same, where nothing is stored and the connection is open already.   *)
LEMMA ServeInv ==
  ASSUME IInv, NEW s \in Live, NEW row, Become(s, row), RowInv(row, stored),
         UNCHANGED <<stored, up>>
  PROVE  IInv'
BY BecomeInv DEF IInv, Live

(* A connection that ends gives its permit back and forgets its row.       *)
LEMMA EndInv ==
  ASSUME IInv, NEW s \in Sessions, End(s), stored \subseteq stored',
         stored' \subseteq Addresses \X Letters, UNCHANGED up
  PROVE  IInv'
<1>1. /\ Closed.phase = "idle" /\ Closed.mail = "none" /\ Closed.rcpts = <<>>
      /\ Closed.buf = <<>> /\ Closed.reply = Plain("none")
  BY DEF Closed
<1>2. RowInv(Closed, stored')
  BY <1>1, ClosedTyped, BlankInv
<1>3. Closed.phase = "idle"
  BY DEF Closed
<1> QED BY <1>2, <1>3, BecomeInv DEF End, IInv

(* The greeting is sent, or one who spoke before it is dropped.            *)
LEMMA GreetInv ==
  ASSUME IInv, NEW s \in Sessions, Greet(s)
  PROVE  IInv'
<1>1. CASE session[s].buf = <<>>
  <2>1. s \in Live /\ session[s] \in Session
    BY DEF Greet, Live, At, IInv
  <2>2. RowInv([session[s] EXCEPT !.phase = "command"], stored)
    <3>1. RowInv(session[s], stored)
      BY DEF IInv
    <3> QED BY <2>1, <3>1 DEF RowInv, Typed, OwnRcpts, Fresh, Pending, Session, Phases
  <2> QED BY <1>1, <2>1, <2>2, ServeInv DEF Greet
<1>2. CASE session[s].buf # <<>>
  BY <1>2, EndInv DEF Greet, IInv
<1> QED BY <1>1, <1>2

(* A finished handshake starts from a blank row.                           *)
LEMMA UpgradeInv ==
  ASSUME IInv, NEW s \in Sessions, Upgrade(s)
  PROVE  IInv'
<1>1. s \in Live
  BY DEF Upgrade, Live, At
<1> DEFINE row == [Closed EXCEPT !.phase = "command", !.secure = TRUE]
<1>2. row \in Session
  BY ClosedTyped DEF Session, Phases
<1>3. RowInv(row, stored)
  <2>1. /\ row.phase = "command" /\ row.mail = "none" /\ row.rcpts = <<>>
        /\ row.buf = <<>> /\ row.reply = Plain("none")
    BY DEF Closed
  <2> HIDE DEF row
  <2> QED BY <1>2, <2>1, BlankInv
<1> QED BY <1>1, <1>3, ServeInv DEF Upgrade

(* One line of the buffer, whichever command it is.                        *)
LEMMA HandleLineInv ==
  ASSUME IInv, NEW s \in Sessions, HandleLine(s)
  PROVE  IInv'
<1> DEFINE row == Unread(s)
           line == First(s)
<1>1. s \in Live /\ session[s].phase = "command" /\ session[s].buf # <<>>
      /\ UNCHANGED <<stored, up>>
  BY DEF HandleLine, Handle, Live, At
<1>2. RowInv(session[s], stored) /\ session[s] \in Session
  BY DEF IInv
<1>3. RowInv(row, stored) /\ line \in Line /\ (session[s].secure => line.over = "tls")
  BY <1>1, <1>2, UnreadInv DEF Unread, First
<1>4. row.phase = "command" /\ row.secure = session[s].secure
  BY <1>1, <1>2 DEF Unread, Session
<1> HIDE DEF row, line
<1>5. CASE Handle(s, {"EHLO"}, AnswerEhlo(row, line))
  BY <1>1, <1>3, <1>4, <1>5, EhloInv, ServeInv DEF Handle
<1>6. CASE Handle(s, {"MAIL", "MAIL too big"}, AnswerMail(row, line))
  BY <1>1, <1>3, <1>4, <1>6, MailInv, ServeInv DEF Handle
<1>7. CASE Handle(s, {"RCPT"}, AnswerRcpt(row, line))
  BY <1>1, <1>3, <1>4, <1>7, RcptInv, ServeInv DEF Handle
<1>8. CASE Handle(s, {"DATA"}, AnswerData(row, line))
  BY <1>1, <1>3, <1>4, <1>8, DataInv, ServeInv DEF Handle
<1>9. CASE Handle(s, {"RSET"}, AnswerRset(row, line))
  BY <1>1, <1>3, <1>4, <1>9, RsetInv, ServeInv DEF Handle
<1>10. CASE Handle(s, {"NOOP"}, AnswerNoop(row, line))
  BY <1>1, <1>3, <1>4, <1>10, NoopInv, ServeInv DEF Handle
<1>11. CASE Handle(s, {"STARTTLS"}, AnswerStartTls(row, line))
  BY <1>1, <1>3, <1>4, <1>11, StartTlsInv, ServeInv DEF Handle
<1>12. CASE Handle(s, {"QUIT"}, AnswerQuit(row, line))
  BY <1>1, <1>12, EndInv DEF Handle, AnswerQuit, End, IInv
<1> QED
  BY <1>5, <1>6, <1>7, <1>8, <1>9, <1>10, <1>11, <1>12 DEF HandleLine, row, line

(* One recipient's result joins what the row says of the others.           *)
LEMMA PersistNextInv ==
  ASSUME IInv, NEW s \in Sessions, PersistNext(s)
  PROVE  IInv'
<1>1. RowInv(session[s], stored) /\ session[s].phase = "storing" /\ session[s].rcpts # <<>>
      /\ s \in Live
  BY DEF IInv, PersistNext, At, Live
<1>2. PICK result \in {"none", "rejected", "duplicate", "deferred"} :
        /\ Persist(Head(session[s].rcpts).to, session[s].letter, result)
        /\ Become(s, Persisted(session[s], result))
  BY DEF PersistNext, Persisted
<1>3. stored \subseteq Addresses \X Letters /\ up \in BOOLEAN /\ UNCHANGED up
  BY DEF IInv, PersistNext
<1>4. /\ RowInv(Persisted(session[s], result), stored')
      /\ stored \subseteq stored' /\ stored' \subseteq Addresses \X Letters
  BY <1>1, <1>2, <1>3, PersistInv
<1> QED BY <1>1, <1>2, <1>3, <1>4, BecomeInv

(* The deadline may let the statement under way take effect.               *)
LEMMA DeadlineInv ==
  ASSUME IInv, NEW s \in Sessions, Deadline(s)
  PROVE  IInv'
<1>1. stored \subseteq Addresses \X Letters /\ RowInv(session[s], stored)
  BY DEF IInv
<1>2. CASE UNCHANGED stored
  BY <1>1, <1>2, EndInv DEF Deadline
<1>3. CASE /\ At(s, "storing") /\ session[s].rcpts # <<>>
           /\ stored' = stored \cup {<<Head(session[s].rcpts).to, session[s].letter>>}
  <2>1. session[s].rcpts \in Seq(Rcpt) /\ session[s].letter \in Letters
    BY <1>1, <1>3 DEF RowInv, Typed, Session, At
  <2>2. Head(session[s].rcpts) \in Rcpt
    BY <1>3, <2>1, HeadTailProperties
  <2>3. stored \subseteq stored' /\ stored' \subseteq Addresses \X Letters
    BY <1>1, <1>3, <2>1, <2>2 DEF Rcpt
  <2> QED BY <2>3, EndInv DEF Deadline
<1> QED BY <1>2, <1>3 DEF Deadline

(* What the other end may do at any time.                                  *)
LEMMA PeerInv ==
  ASSUME IInv, NEW s \in Sessions, Peer(s)
  PROVE  IInv'
<1>1. stored \subseteq Addresses \X Letters /\ RowInv(session[s], stored)
      /\ session[s] \in Session /\ up \in BOOLEAN
  BY DEF IInv
<1>2. CASE Connect(s)
  <2> DEFINE row == [Closed EXCEPT !.phase = "greeting"]
  <2>1. row \in Session
    BY ClosedTyped DEF Session, Phases
  <2>2. RowInv(row, stored)
    <3>1. /\ row.phase = "greeting" /\ row.mail = "none" /\ row.rcpts = <<>>
          /\ row.buf = <<>> /\ row.reply = Plain("none")
      BY DEF Closed
    <3> HIDE DEF row
    <3> QED BY <2>1, <3>1, BlankInv
  <2> QED BY <1>1, <1>2, <2>2, BecomeInv DEF Connect
<1>3. CASE TurnAway(s)
  <2> DEFINE row == [Closed EXCEPT !.reply = Plain("busy")]
  <2>1. row \in Session
    BY ClosedTyped, PlainIsHonest DEF Session, Codes
  <2>2. RowInv(row, stored)
    <3>1. /\ row.phase = "idle" /\ row.mail = "none" /\ row.rcpts = <<>>
          /\ row.buf = <<>> /\ row.reply = Plain("busy")
      BY DEF Closed
    <3> HIDE DEF row
    <3> QED BY <2>1, <3>1, BlankInv
  <2>3. [Closed EXCEPT !.reply = Plain("busy")].phase = "idle"
    BY DEF Closed
  <2> QED BY <1>1, <1>3, <2>2, <2>3, BecomeInv DEF TurnAway
<1>4. CASE Hangup(s)
  BY <1>1, <1>4, EndInv DEF Hangup
<1>5. CASE ReceiveTooBig(s)
  <2>1. s \in Live /\ session[s].phase = "data"
    BY <1>5 DEF ReceiveTooBig, Live, At
  <2>2. [Reset(session[s]) EXCEPT !.phase = "command", !.reply = Plain("too big")]
          = AfterReset(session[s], session[s].greeted, "too big")
    BY <1>1 DEF AfterReset, Reset, Session
  <2>3. RowInv(AfterReset(session[s], session[s].greeted, "too big"), stored)
    BY <1>1, <2>1, ResetInv DEF Session
  <2> QED BY <1>5, <2>1, <2>2, <2>3, ServeInv DEF ReceiveTooBig
<1>6. ASSUME NEW l \in Letters, Receive(s, l)
      PROVE  IInv'
  <2>1. s \in Live /\ session[s].phase = "data"
    BY <1>6 DEF Receive, Live, At
  <2>2. Become(s, Received(session[s], l)) /\ UNCHANGED <<stored, up>>
    BY <1>6 DEF Receive, Received
  <2>3. RowInv(Received(session[s], l), stored)
    BY <1>1, <2>1, ReceiveInv
  <2> QED BY <2>1, <2>2, <2>3, ServeInv
<1>7. ASSUME NEW verb \in Verbs, NEW to \in Addresses \cup {NoAddress}, PeerSends(s, verb, to)
      PROVE  IInv'
  <2> DEFINE line == [verb |-> verb, to |-> to,
                      over |-> IF session[s].secure THEN "tls" ELSE "clear"]
  <2>1. s \in Live
    BY <1>7 DEF PeerSends, Live, At
  <2>2. line \in Line /\ line.over = IF session[s].secure THEN "tls" ELSE "clear"
    BY DEF Line, Wires
  <2>3. Become(s, [session[s] EXCEPT !.buf = Append(@, line)]) /\ UNCHANGED <<stored, up>>
    BY <1>7 DEF PeerSends
  <2> HIDE DEF line
  <2>4. RowInv([session[s] EXCEPT !.buf = Append(@, line)], stored)
    BY <1>1, <2>2, SentAheadInv
  <2> QED BY <2>1, <2>3, <2>4, ServeInv
<1> QED BY <1>2, <1>3, <1>4, <1>5, <1>6, <1>7 DEF Peer

(***************************************************************************)
(* The theorems.                                                           *)
(***************************************************************************)
(* The invariant holds from the first state on, whatever step is taken.    *)
THEOREM Inductive == Spec => []IInv
<1>1. Init => IInv
  <2> SUFFICES ASSUME Init PROVE IInv
    OBVIOUS
  <2>1. /\ Closed.phase = "idle" /\ Closed.mail = "none" /\ Closed.rcpts = <<>>
        /\ Closed.buf = <<>> /\ Closed.reply = Plain("none")
    BY DEF Closed
  <2>2. RowInv(Closed, stored)
    BY <2>1, ClosedTyped, BlankInv
  <2>3. Live = {}
    BY <2>1 DEF Init, Live, At
  <2>4. IsFiniteSet(Live) /\ Cardinality(Live) <= MaxConnections
    BY <2>3, FS_EmptySet, CapacityAssumption
  <2> QED BY <2>2, <2>4, ClosedTyped DEF Init, IInv
<1>2. IInv /\ [Next]_vars => IInv'
  <2> SUFFICES ASSUME IInv, [Next]_vars PROVE IInv'
    OBVIOUS
  <2>1. ASSUME NEW s \in Sessions, Serve(s) PROVE IInv'
    <3>1. CASE AnswerLetter(s)
      <4>1. s \in Live /\ session[s].phase = "storing" /\ session[s].rcpts = <<>>
        BY <3>1 DEF AnswerLetter, Live, At
      <4>2. Become(s, Concluded(session[s])) /\ UNCHANGED <<stored, up>>
        BY <3>1 DEF AnswerLetter, Concluded
      <4>3. RowInv(Concluded(session[s]), stored)
        BY <4>1, ConcludeInv DEF IInv
      <4> QED BY <4>1, <4>2, <4>3, ServeInv
    <3> QED BY <2>1, <3>1, GreetInv, UpgradeInv, HandleLineInv, PersistNextInv DEF Serve
  <2>2. ASSUME NEW s \in Sessions, Deadline(s) PROVE IInv'
    BY <2>2, DeadlineInv
  <2>3. ASSUME NEW s \in Sessions, Peer(s) PROVE IInv'
    BY <2>3, PeerInv
  <2>4. CASE DatabaseGoesDown \/ DatabaseComesBack
    BY <2>4 DEF DatabaseGoesDown, DatabaseComesBack, IInv, Live, At
  <2>5. CASE UNCHANGED vars
    BY <2>5 DEF vars, IInv, Live, At
  <2> QED
    BY <2>1, <2>2, <2>3, <2>4, <2>5 DEF Next
<1> QED
  BY <1>1, <1>2, PTL DEF Spec

(* Every connection's state keeps its type, no more are open than there    *)
(* are permits, a letter is only taken for a sender and recipients, and    *)
(* one that is being stored has no sender left to be used again.           *)
THEOREM TypeCorrect == Spec => []TypeOK
<1>1. IInv => TypeOK
  BY DEF IInv, RowInv, Typed, TypeOK, At
<1> QED
  BY <1>1, Inductive, PTL

(* Whatever is pipelined, the recipients of a letter are local inboxes     *)
(* named after the MAIL that opened its transaction.                       *)
THEOREM NoMixedTransactions == Spec => []OneTransaction
<1>1. IInv => OneTransaction
  BY DEF IInv, RowInv, OwnRcpts, OneTransaction
<1> QED
  BY <1>1, Inductive, PTL

(* Nothing that travelled in the clear counts after STARTTLS.              *)
THEOREM NothingClearAfterTls == Spec => []UpgradeStartsFresh
<1>1. IInv => UpgradeStartsFresh
  BY DEF IInv, RowInv, Fresh, UpgradeStartsFresh
<1> QED
  BY <1>1, Inductive, PTL

(* The one reply to a letter is true of every recipient it stands for,     *)
(* whatever other sessions, the database and the deadline did meanwhile.   *)
THEOREM RepliesAreTrue == Spec => []ReplyIsHonest
<1>1. IInv => ReplyIsHonest
  BY DEF IInv, RowInv, HonestReply, ReplyIsHonest
<1> QED
  BY <1>1, Inductive, PTL
=============================================================================
