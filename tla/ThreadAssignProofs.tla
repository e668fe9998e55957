------------------------- MODULE ThreadAssignProofs -------------------------
(***************************************************************************)
(* The assignment loop answers the declarative rule for every index, every *)
(* candidate and References lists of any length.                           *)
(*                                                                         *)
(* The invariant of the loop, LoopInv, says what its locals mean while no  *)
(* answer is given: visited is the set of ids the first pos - 1 references *)
(* link to, resolved the first of them that names a thread, and ambiguous  *)
(* whether they name more than one.                                        *)
(***************************************************************************)
EXTENDS ThreadAssign, TLAPS

(* The ids that the first n references of a candidate link to.             *)
Seen(refs, me, n) == Named({refs[k] : k \in 1..n}) \ {me}

(* link is carried by one of the first n, and by none after one that names *)
(* a thread.                                                               *)
FirstNamed(idx, me, refs, link, n) ==
  \E k \in 1..n :
    /\ canonical_link[refs[k]] = link
    /\ \A h \in 1..(k - 1) : ThreadsNamed(idx, me, Named({refs[h]})) = {}

(* What the locals mean once the first n references are visited.           *)
LoopAt(idx, me, parent, refs, n, linked, seen, first, two) ==
  /\ seen = Seen(refs, me, n)
  /\ linked <=> (Named({parent}) \ {me}) \cup seen # {}
  /\ first = Unresolved => ThreadsNamed(idx, me, seen) = {}
  /\ first # Unresolved =>
       /\ first.linked_by \in seen
       /\ first.thread_id # NoThread /\ idx[first.linked_by] = first.thread_id
       /\ FirstNamed(idx, me, refs, first.linked_by, n)
  /\ two <=> \E t, u \in ThreadsNamed(idx, me, seen) : t # u

LoopInv == LoopAt(index, own, in_reply_to, references, pos - 1,
                  had_link, visited, resolved, ambiguous)

IInv ==
  /\ TypeOK
  /\ answer = NoAnswer /\ pos = 0 =>
       ~had_link /\ ~ambiguous /\ visited = {} /\ resolved = Unresolved
  /\ answer = NoAnswer /\ pos > 0 =>
       ThreadsNamed(index, own, Named({in_reply_to})) = {} /\ LoopInv
  /\ AnswersRule /\ ReasonIsRight /\ CreditIsRight

(***************************************************************************)
(* Sets of links.                                                          *)
(***************************************************************************)

(* One more reference adds what that reference links to.                   *)
LEMMA SeenStep ==
  ASSUME NEW refs, NEW me, NEW n \in Nat \ {0}
  PROVE  Seen(refs, me, n) = Seen(refs, me, n - 1) \cup (Named({refs[n]}) \ {me})
<1>1. 1..n = 1..(n - 1) \cup {n}
  OBVIOUS
<1>2. {refs[k] : k \in 1..n} = {refs[k] : k \in 1..(n - 1)} \cup {refs[n]}
  BY <1>1
<1> QED
  BY <1>2 DEF Seen, Named

LEMMA NothingSeen == \A refs, me : Seen(refs, me, 0) = {}
  BY DEF Seen, Named

(* A header value links to the one id it is usable for, if any.            *)
LEMMA LinkOf ==
  ASSUME TypeOK, NEW raw \in Links \cup {NoLink}
  PROVE  /\ Usable(raw) \in Mids \cup {NoMid}
         /\ Usable(raw) # NoMid => Usable(raw) # own /\ canonical_link[raw] = Usable(raw)
         /\ Named({raw}) \ {own} = IF Usable(raw) = NoMid THEN {} ELSE {Usable(raw)}
  BY LinksAssumption, NoneAssumption DEF Usable, Named, TypeOK

LEMMA NamedUnion ==
  \A idx, me, A, B : ThreadsNamed(idx, me, A \cup B)
                       = ThreadsNamed(idx, me, A) \cup ThreadsNamed(idx, me, B)
  BY DEF ThreadsNamed

LEMMA OwnNamesNothing ==
  \A idx, me, A : ThreadsNamed(idx, me, A \ {me}) = ThreadsNamed(idx, me, A)
  BY DEF ThreadsNamed

LEMMA NamedNothing == \A idx, me : ThreadsNamed(idx, me, {}) = {}
  BY DEF ThreadsNamed

LEMMA NamedOne ==
  \A idx, me, link : link # me =>
    ThreadsNamed(idx, me, {link}) = IF idx[link] = NoThread THEN {} ELSE {idx[link]}
  BY DEF ThreadsNamed

(* What one header value names.                                            *)
LEMMA ValueNames ==
  ASSUME TypeOK, NEW raw \in Links \cup {NoLink}
  PROVE  ThreadsNamed(index, own, Named({raw}))
           = IF Usable(raw) = NoMid \/ index[Usable(raw)] = NoThread THEN {}
             ELSE {index[Usable(raw)]}
<1>1. ThreadsNamed(index, own, Named({raw})) = ThreadsNamed(index, own, Named({raw}) \ {own})
  BY OwnNamesNothing
<1>2. CASE Usable(raw) = NoMid
  BY <1>1, <1>2, LinkOf, NamedNothing
<1>3. CASE Usable(raw) # NoMid
  <2>1. Usable(raw) # own /\ Named({raw}) \ {own} = {Usable(raw)}
    BY <1>3, LinkOf
  <2>2. ThreadsNamed(index, own, {Usable(raw)})
          = IF index[Usable(raw)] = NoThread THEN {} ELSE {index[Usable(raw)]}
    BY <2>1, NamedOne
  <2> QED
    BY <1>1, <1>3, <2>1, <2>2
<1> QED
  BY <1>2, <1>3

(***************************************************************************)
(* The steps.                                                              *)
(***************************************************************************)
LEMMA InReplyToInv ==
  ASSUME IInv, TryInReplyTo
  PROVE  IInv'
<1> DEFINE link == Usable(in_reply_to)
<1>1. TypeOK /\ in_reply_to \in Links \cup {NoLink} /\ UNCHANGED inputs
  BY DEF IInv, TypeOK, TryInReplyTo
<1>2. /\ link \in Mids \cup {NoMid}
      /\ link # NoMid => link # own /\ canonical_link[in_reply_to] = link
      /\ Named({in_reply_to}) \ {own} = IF link = NoMid THEN {} ELSE {link}
      /\ ThreadsNamed(index, own, Named({in_reply_to}))
           = IF link = NoMid \/ index[link] = NoThread THEN {} ELSE {index[link]}
  BY <1>1, LinkOf, ValueNames
<1>3. TypeOK'
  <2>1. /\ pos' = 1 /\ had_link' = (link # NoMid)
        /\ UNCHANGED <<index, own, in_reply_to, references, visited, resolved, ambiguous>>
    BY DEF TryInReplyTo, inputs
  <2>2. pos' \in 0..Len(references) + 1 /\ had_link' \in BOOLEAN
    BY <1>1, <2>1 DEF TypeOK
  <2>3. \/ answer' = NoAnswer
        \/ link # NoMid /\ answer' = Existing(index[link], link)
    BY DEF TryInReplyTo
  <2>4. answer' \in [kind : {"none", "Existing", "New"}, thread_id : ThreadIds \cup {NoThread},
                     linked_by : Mids \cup {NoMid}, reason : Reasons \cup {"none"}]
    <3>1. link # NoMid => index[link] \in ThreadIds \cup {NoThread}
      BY <1>1, <1>2 DEF TypeOK
    <3> QED
      BY <1>2, <2>3, <3>1 DEF Existing, NoAnswer, Reasons
  <2> QED
    BY <1>1, <2>1, <2>2, <2>4 DEF TypeOK
<1>4. CASE link # NoMid /\ index[link] # NoThread
  <2>1. answer' = Existing(index[link], link)
    BY <1>4 DEF TryInReplyTo
  <2>2. answer' # NoAnswer
    BY <2>1 DEF Existing, NoAnswer
  <2>3. AnswersRule'
    BY <1>1, <1>2, <1>4, <2>1 DEF AnswersRule, JoinedThreads, Parents, Existing, NoAnswer, inputs
  <2>4. ReasonIsRight'
    BY <2>1 DEF ReasonIsRight, Existing, NoAnswer
  <2>5. CreditIsRight'
    BY <1>1, <1>2, <1>4, <2>1 DEF CreditIsRight, Parents, Existing, NoAnswer, inputs
  <2> QED
    BY <1>3, <2>2, <2>3, <2>4, <2>5 DEF IInv
<1>5. CASE link = NoMid \/ index[link] = NoThread
  <2>1. /\ answer' = NoAnswer /\ pos' = 1 /\ had_link' = (link # NoMid)
        /\ visited' = {} /\ resolved' = Unresolved /\ ambiguous' = FALSE
    BY <1>5 DEF TryInReplyTo, IInv, TypeOK
  <2>2. ThreadsNamed(index, own, Named({in_reply_to}))' = {}
    BY <1>1, <1>2, <1>5 DEF inputs
  <2>3. LoopInv'
    <3>1. Seen(references, own, 0) = {}
      BY NothingSeen
    <3>2. LoopAt(index, own, in_reply_to, references, 0, link # NoMid, {}, Unresolved, FALSE)
      BY <1>2, <3>1, NamedNothing DEF LoopAt
    <3>3. pos' - 1 = 0
      BY <2>1
    <3> QED
      BY <1>1, <2>1, <3>2, <3>3 DEF LoopInv, inputs
  <2>4. AnswersRule' /\ ReasonIsRight' /\ CreditIsRight'
    BY <2>1 DEF AnswersRule, ReasonIsRight, CreditIsRight, NoAnswer
  <2> QED
    BY <1>3, <2>1, <2>2, <2>3, <2>4 DEF IInv
<1> QED
  BY <1>2, <1>4, <1>5

(* A link carried by the first n of a list is carried by the first n + 1.  *)
LEMMA FirstNamedStays ==
  ASSUME NEW idx, NEW me, NEW refs, NEW link, NEW n \in Nat, FirstNamed(idx, me, refs, link, n)
  PROVE  FirstNamed(idx, me, refs, link, n + 1)
<1>1. 1..n \subseteq 1..(n + 1)
  OBVIOUS
<1> QED
  BY <1>1 DEF FirstNamed

(* While none of the first n names a thread, the next one may be the first. *)
LEMMA FirstNamedNext ==
  ASSUME NEW idx, NEW me, NEW refs, NEW n \in Nat,
         ThreadsNamed(idx, me, Seen(refs, me, n)) = {}
  PROVE  FirstNamed(idx, me, refs, canonical_link[refs[n + 1]], n + 1)
<1>1. \A h \in 1..n : Named({refs[h]}) \ {me} \subseteq Seen(refs, me, n)
  BY DEF Seen, Named
<1>2. \A h \in 1..n : ThreadsNamed(idx, me, Named({refs[h]})) = {}
  BY <1>1 DEF ThreadsNamed
<1>3. n + 1 \in 1..(n + 1) /\ (n + 1) - 1 = n
  OBVIOUS
<1> QED
  BY <1>2, <1>3 DEF FirstNamed

LEMMA VisitReferenceInv ==
  ASSUME IInv, VisitReference
  PROVE  IInv'
<1> DEFINE link == Usable(references[pos])
<1>1. TypeOK /\ answer = NoAnswer /\ pos \in 1..Len(references) /\ pos' = pos + 1
  BY DEF IInv, VisitReference
<1>2. /\ UNCHANGED <<index, own, in_reply_to, references, answer>>
      /\ references[pos] \in Links /\ pos \in Nat \ {0} /\ Len(references) \in Nat
  BY <1>1 DEF VisitReference, TypeOK, inputs
<1>3. /\ LoopInv
      /\ ThreadsNamed(index, own, Named({in_reply_to})) = {}
  BY <1>1, <1>2 DEF IInv
<1>4. /\ link \in Mids \cup {NoMid}
      /\ link # NoMid => link # own /\ canonical_link[references[pos]] = link
      /\ Named({references[pos]}) \ {own} = IF link = NoMid THEN {} ELSE {link}
  BY <1>1, <1>2, LinkOf
<1>5. visited = Seen(references, own, pos - 1)
  BY <1>3 DEF LoopInv, LoopAt
<1>6. Seen(references, own, pos) = IF link = NoMid THEN visited ELSE visited \cup {link}
  <2>1. Seen(references, own, pos) = visited \cup (Named({references[pos]}) \ {own})
    BY <1>2, <1>5, SeenStep
  <2>2. CASE link = NoMid
    BY <1>4, <2>1, <2>2
  <2>3. CASE link # NoMid
    BY <1>4, <2>1, <2>3
  <2> QED
    BY <2>2, <2>3
<1>7. visited' = Seen(references, own, pos)
  BY <1>6 DEF VisitReference
<1>8. had_link' <=> (Named({in_reply_to}) \ {own}) \cup visited' # {}
  <2>1. CASE link = NoMid
    <3>1. had_link' = had_link /\ visited' = visited
      BY <2>1 DEF VisitReference
    <3> QED
      BY <1>3, <3>1 DEF LoopInv, LoopAt
  <2>2. CASE link # NoMid
    <3>1. had_link' = TRUE /\ visited' = visited \cup {link}
      BY <2>2 DEF VisitReference
    <3> QED
      BY <3>1
  <2> QED
    BY <2>1, <2>2
<1>9. ASSUME NEW cited, FirstNamed(index, own, references, cited, pos - 1)
      PROVE  FirstNamed(index, own, references, cited, pos)
  <2>1. pos - 1 \in Nat /\ (pos - 1) + 1 = pos
    BY <1>2
  <2>2. FirstNamed(index, own, references, cited, (pos - 1) + 1)
    BY <1>9, <2>1, FirstNamedStays
  <2> QED
    BY <2>1, <2>2
<1>10. LoopAt(index, own, in_reply_to, references, pos, had_link', visited', resolved', ambiguous')
  <2>1. CASE UNCHANGED <<resolved, ambiguous>>
             /\ (link = NoMid \/ link \in visited \/ index[link] = NoThread)
    <3>1. ThreadsNamed(index, own, visited') = ThreadsNamed(index, own, visited)
      <4>1. CASE link = NoMid \/ link \in visited
        BY <1>6, <1>7, <4>1
      <4>2. CASE link # NoMid /\ index[link] = NoThread
        <5>1. ThreadsNamed(index, own, {link}) = {}
          BY <1>4, <4>2, NamedOne
        <5>2. visited' = visited \cup {link}
          BY <1>6, <1>7, <4>2
        <5> QED
          BY <5>1, <5>2, NamedUnion
      <4> QED
        BY <2>1, <4>1, <4>2
    <3>2. visited \subseteq visited'
      BY <1>6, <1>7
    <3>3. resolved' = resolved /\ ambiguous' = ambiguous
      BY <2>1
    <3> QED
      BY <1>3, <1>7, <1>8, <1>9, <3>1, <3>2, <3>3 DEF LoopInv, LoopAt
  <2>2. CASE /\ link # NoMid /\ link \notin visited /\ index[link] # NoThread
             /\ ResolveReference(link)
    <3>1. visited' = visited \cup {link}
      BY <1>6, <1>7, <2>2
    <3>2. ThreadsNamed(index, own, visited') = ThreadsNamed(index, own, visited) \cup {index[link]}
      <4>1. ThreadsNamed(index, own, {link}) = {index[link]}
        BY <1>4, <2>2, NamedOne
      <4> QED
        BY <3>1, <4>1, NamedUnion
    <3>3. CASE resolved = Unresolved
      <4>1. /\ resolved' = [thread_id |-> index[link], linked_by |-> link]
            /\ ambiguous' = ambiguous
        BY <2>2, <3>3 DEF ResolveReference
      <4>2. ThreadsNamed(index, own, visited) = {} /\ ~ambiguous
        BY <1>3, <3>3 DEF LoopInv, LoopAt
      <4>3. ~ \E t, u \in ThreadsNamed(index, own, visited') : t # u
        BY <3>2, <4>2
      <4>4. FirstNamed(index, own, references, link, pos)
        <5>1. pos - 1 \in Nat /\ (pos - 1) + 1 = pos
          BY <1>2
        <5>2. FirstNamed(index, own, references, canonical_link[references[(pos - 1) + 1]],
                         (pos - 1) + 1)
          BY <1>5, <4>2, <5>1, FirstNamedNext
        <5>3. canonical_link[references[pos]] = link
          BY <1>4, <2>2
        <5> QED
          BY <5>1, <5>2, <5>3
      <4>5. /\ resolved'.thread_id = index[link] /\ resolved'.linked_by = link
            /\ resolved' # Unresolved /\ link \in visited'
        BY <2>2, <3>1, <4>1 DEF Unresolved
      <4> QED
        BY <1>7, <1>8, <2>2, <4>1, <4>2, <4>3, <4>4, <4>5 DEF LoopAt
    <3>4. CASE resolved # Unresolved
      <4>1. resolved' = resolved /\ ambiguous' = (ambiguous \/ resolved.thread_id # index[link])
        BY <2>2, <3>4 DEF ResolveReference
      <4>2. /\ resolved.linked_by \in visited
            /\ resolved.thread_id # NoThread /\ index[resolved.linked_by] = resolved.thread_id
            /\ FirstNamed(index, own, references, resolved.linked_by, pos)
        BY <1>3, <1>9, <3>4 DEF LoopInv, LoopAt
      <4>3. resolved.thread_id \in ThreadsNamed(index, own, visited)
        BY <1>5, <4>2 DEF ThreadsNamed, Seen
      <4>4. ambiguous' <=> \E t, u \in ThreadsNamed(index, own, visited') : t # u
        <5>1. ambiguous <=> \E t, u \in ThreadsNamed(index, own, visited) : t # u
          BY <1>3 DEF LoopInv, LoopAt
        <5>2. (\E t, u \in ThreadsNamed(index, own, visited') : t # u)
                <=> \/ \E t, u \in ThreadsNamed(index, own, visited) : t # u
                    \/ resolved.thread_id # index[link]
          BY <3>2, <4>3
        <5> QED
          BY <4>1, <5>1, <5>2
      <4> QED
        BY <1>7, <1>8, <3>1, <3>4, <4>1, <4>2, <4>4 DEF LoopAt
    <3> QED
      BY <3>3, <3>4
  <2> QED
    BY <2>1, <2>2 DEF VisitReference, ResolveReference
<1>11. LoopInv'
  <2>1. pos' - 1 = pos
    BY <1>1, <1>2
  <2> QED
    BY <1>2, <1>10, <2>1 DEF LoopInv
<1>12. TypeOK'
  <2>1. pos' \in 0..Len(references) + 1
    BY <1>1, <1>2
  <2>2. had_link' \in BOOLEAN /\ visited' \subseteq Mids
    BY <1>1, <1>4 DEF VisitReference, TypeOK
  <2>3. /\ resolved' \in [thread_id : ThreadIds \cup {NoThread}, linked_by : Mids \cup {NoMid}]
        /\ ambiguous' \in BOOLEAN
    <3>1. CASE UNCHANGED <<resolved, ambiguous>>
      BY <1>1, <3>1 DEF TypeOK
    <3>2. CASE link # NoMid /\ ResolveReference(link)
      <4>1. index[link] \in ThreadIds \cup {NoThread} /\ link \in Mids
        BY <1>1, <1>4, <3>2 DEF TypeOK
      <4>2. resolved' \in {resolved, [thread_id |-> index[link], linked_by |-> link]}
        BY <3>2 DEF ResolveReference
      <4>3. ambiguous' \in {ambiguous, ambiguous \/ resolved.thread_id # index[link]}
        BY <3>2 DEF ResolveReference
      <4>4. ambiguous' \in BOOLEAN
        BY <1>1, <4>3 DEF TypeOK
      <4> QED
        BY <1>1, <4>1, <4>2, <4>4 DEF TypeOK
    <3> QED
      BY <3>1, <3>2 DEF VisitReference
  <2> QED
    BY <1>1, <1>2, <2>1, <2>2, <2>3 DEF TypeOK
<1>13. AnswersRule' /\ ReasonIsRight' /\ CreditIsRight'
  <2>1. answer' = NoAnswer
    BY <1>1, <1>2
  <2> QED
    BY <2>1 DEF AnswersRule, ReasonIsRight, CreditIsRight, NoAnswer
<1>14. pos' # 0
  BY <1>1, <1>2
<1>15. ThreadsNamed(index, own, Named({in_reply_to}))' = {}
  BY <1>2, <1>3
<1> QED
  BY <1>11, <1>12, <1>13, <1>14, <1>15 DEF IInv

LEMMA ConcludeInv ==
  ASSUME IInv, Conclude
  PROVE  IInv'
<1> DEFINE named == ThreadsNamed(index, own, Ancestors)
<1>1. TypeOK /\ answer = NoAnswer /\ pos = Len(references) + 1 /\ Len(references) \in Nat
  BY DEF IInv, Conclude, TypeOK
<1>2. LoopInv /\ ThreadsNamed(index, own, Parents) = {}
  <2>1. pos > 0
    BY <1>1
  <2> QED
    BY <1>1, <2>1 DEF IInv, Parents
<1>3. UNCHANGED <<index, own, in_reply_to, references, pos, had_link, visited, resolved, ambiguous>>
  BY DEF Conclude, inputs, locals
<1>4. pos - 1 = Len(references) /\ Seen(references, own, pos - 1) = Ancestors \ {own}
  BY <1>1 DEF Seen, Ancestors
<1>5. ThreadsNamed(index, own, Ancestors \ {own}) = named
  BY OwnNamesNothing
<1>6. /\ ambiguous <=> \E t, u \in named : t # u
      /\ had_link <=> (Parents \cup Ancestors) \ {own} # {}
      /\ resolved = Unresolved => named = {}
  <2>1. (Parents \ {own}) \cup (Ancestors \ {own}) = (Parents \cup Ancestors) \ {own}
    OBVIOUS
  <2> QED
    BY <1>2, <1>4, <1>5, <2>1 DEF LoopInv, LoopAt, Parents
<1>7. resolved # Unresolved =>
        /\ resolved.linked_by \in Ancestors \ {own, NoMid}
        /\ index[resolved.linked_by] = resolved.thread_id
        /\ FirstNamed(index, own, references, resolved.linked_by, Len(references))
        /\ resolved.thread_id \in named
  <2> SUFFICES ASSUME resolved # Unresolved
               PROVE  /\ resolved.linked_by \in Ancestors \ {own, NoMid}
                      /\ index[resolved.linked_by] = resolved.thread_id
                      /\ FirstNamed(index, own, references, resolved.linked_by, Len(references))
                      /\ resolved.thread_id \in named
    OBVIOUS
  <2>1. /\ resolved.linked_by \in Ancestors \ {own}
        /\ index[resolved.linked_by] = resolved.thread_id /\ resolved.thread_id # NoThread
        /\ FirstNamed(index, own, references, resolved.linked_by, Len(references))
    BY <1>2, <1>4 DEF LoopInv, LoopAt
  <2>2. NoMid \notin Ancestors
    BY DEF Ancestors, Named
  <2> QED
    BY <2>1, <2>2 DEF ThreadsNamed
<1>8. /\ Parents' = Parents /\ Ancestors' = Ancestors
      /\ ThreadsNamed(index, own, Ancestors)' = named
  BY <1>3 DEF Parents, Ancestors
<1>9. JoinedThreads(index, own, Parents, Ancestors)' = {t \in named : named = {t}}
  BY <1>2, <1>3, <1>8 DEF JoinedThreads
<1>10. CASE ambiguous
  <2>1. answer' = New("AmbiguousLinkage")
    BY <1>10 DEF Conclude
  <2>2. TypeOK'
    BY <1>1, <1>3, <2>1 DEF TypeOK, New, Reasons
  <2>3. AnswersRule' /\ ReasonIsRight' /\ CreditIsRight'
    BY <1>6, <1>8, <1>9, <1>10, <2>1 DEF AnswersRule, ReasonIsRight, CreditIsRight, New
  <2> QED
    BY <2>1, <2>2, <2>3 DEF IInv, New, NoAnswer
<1>11. CASE ~ambiguous /\ resolved # Unresolved
  <2>1. answer' = Existing(resolved.thread_id, resolved.linked_by)
    BY <1>11 DEF Conclude
  <2>2. TypeOK'
    BY <1>1, <1>3, <2>1 DEF TypeOK, Existing, Reasons
  <2>3. {t \in named : named = {t}} = {resolved.thread_id}
    BY <1>6, <1>7, <1>11
  <2>4. AnswersRule' /\ ReasonIsRight'
    BY <1>9, <2>1, <2>3 DEF AnswersRule, ReasonIsRight, Existing
  <2>5. CreditIsRight'
    BY <1>3, <1>7, <1>8, <1>11, <2>1 DEF CreditIsRight, FirstNamed, Existing
  <2> QED
    BY <2>1, <2>2, <2>4, <2>5 DEF IInv, Existing, NoAnswer
<1>12. CASE ~ambiguous /\ resolved = Unresolved
  <2> DEFINE reason == IF had_link THEN "UnknownLinkage" ELSE "NoLinkage"
  <2>1. answer' = New(reason)
    BY <1>12 DEF Conclude
  <2>2. TypeOK'
    BY <1>1, <1>3, <2>1 DEF TypeOK, New, Reasons
  <2>3. AnswersRule' /\ CreditIsRight'
    BY <1>6, <1>8, <1>9, <1>12, <2>1 DEF AnswersRule, CreditIsRight, New
  <2>4. ReasonIsRight'
    <3>1. answer'.reason = reason
      BY <2>1 DEF New
    <3>2. reason = IF (Parents \cup Ancestors) \ {own} # {} THEN "UnknownLinkage" ELSE "NoLinkage"
      BY <1>6
    <3>3. own' = own
      BY <1>3
    <3> QED
      BY <1>6, <1>8, <1>12, <3>1, <3>2, <3>3 DEF ReasonIsRight
  <2> QED
    BY <2>1, <2>2, <2>3, <2>4 DEF IInv, New, NoAnswer
<1> QED
  BY <1>10, <1>11, <1>12

LEMMA InitInv ==
  ASSUME Init
  PROVE  IInv
<1>1. TypeOK
  <2>1. references \in Seq(Links) /\ pos \in 0..Len(references) + 1
    BY LinksAssumption DEF Init
  <2> QED
    BY <2>1 DEF Init, TypeOK, Unresolved, NoAnswer, Reasons
<1>2. AnswersRule /\ ReasonIsRight /\ CreditIsRight
  BY DEF Init, AnswersRule, ReasonIsRight, CreditIsRight, NoAnswer
<1> QED
  BY <1>1, <1>2 DEF IInv, Init, NoAnswer

LEMMA StutterInv ==
  ASSUME IInv, UNCHANGED vars
  PROVE  IInv'
<1>1. /\ UNCHANGED <<index, own, in_reply_to, references>>
      /\ UNCHANGED <<pos, had_link, visited, resolved, ambiguous, answer>>
  BY DEF vars, inputs, locals
<1>2. TypeOK' = TypeOK /\ LoopInv' = LoopInv
  BY <1>1 DEF TypeOK, LoopInv
<1>3. Parents' = Parents /\ Ancestors' = Ancestors
  BY <1>1 DEF Parents, Ancestors
<1>4. AnswersRule' = AnswersRule /\ ReasonIsRight' = ReasonIsRight
  BY <1>1, <1>3 DEF AnswersRule, ReasonIsRight
<1>5. CreditIsRight' = CreditIsRight
  BY <1>1, <1>3 DEF CreditIsRight
<1> QED
  BY <1>1, <1>2, <1>4, <1>5 DEF IInv

(* The invariant of the walk over the references holds throughout.         *)
THEOREM LoopInvariant == Spec => []IInv
<1>1. Init => IInv
  BY InitInv
<1>2. IInv /\ [Next]_vars => IInv'
  BY InReplyToInv, VisitReferenceInv, ConcludeInv, StutterInv DEF Next
<1> QED
  BY <1>1, <1>2, PTL DEF Spec

(* The loop answers the declarative threading rule, for every index and    *)
(* candidate: assign (amk-core threading.rs) implements R1 to R3.          *)
THEOREM AssignAnswersRule == Spec => []AnswersRule
<1>1. IInv => AnswersRule
  BY DEF IInv
<1> QED
  BY <1>1, LoopInvariant, PTL

(* A new thread is opened for the reason reported (NewReason).             *)
THEOREM AssignReasonIsRight == Spec => []ReasonIsRight
<1>1. IInv => ReasonIsRight
  BY DEF IInv
<1> QED
  BY <1>1, LoopInvariant, PTL

(* The link credited for a join (Assignment::Existing.linked_by) is right. *)
THEOREM AssignCreditIsRight == Spec => []CreditIsRight
<1>1. IInv => CreditIsRight
  BY DEF IInv
<1> QED
  BY <1>1, LoopInvariant, PTL
=============================================================================
