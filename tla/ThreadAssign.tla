---------------------------- MODULE ThreadAssign ----------------------------
(***************************************************************************)
(* ReferenceChainThreading::assign, the loop that decides which thread a   *)
(* message joins.  It reads the In-Reply-To header first, and only if that *)
(* resolves nothing walks the References list once, front to back, keeping *)
(* the links visited, the first one resolved, and whether a second thread  *)
(* was met.                                                                *)
(*                                                                         *)
(* A header value is spelled as its sender chose; canonical_link says what *)
(* id a spelling stands for, if any.  The candidate (own id, headers) and  *)
(* the index are the inputs: any of them, chosen at the start.             *)
(***************************************************************************)
EXTENDS ThreadingRule, Integers, Sequences

CONSTANTS Links,           \* header values, as spelled
          Mids,            \* canonical message ids
          ThreadIds,
          canonical_link,  \* header value -> canonical id, or NoMid
          RefLists,        \* the References lists a candidate may carry
          NoMid, NoLink

ASSUME LinksAssumption ==
  /\ canonical_link \in [Links -> Mids \cup {NoMid}]
  /\ RefLists \subseteq Seq(Links)
ASSUME NoneAssumption ==
  NoThread \notin ThreadIds /\ NoMid \notin Mids /\ NoLink \notin Links

VARIABLES index, own, in_reply_to, references,      \* the inputs
          pos,                                      \* next element of references
          had_link, visited, resolved, ambiguous,   \* the code's locals
          answer

inputs == <<index, own, in_reply_to, references>>
locals == <<pos, had_link, visited, resolved, ambiguous>>
vars   == <<inputs, locals, answer>>

NoAnswer == [kind |-> "none", thread_id |-> NoThread, linked_by |-> NoMid,
             reason |-> "none"]

Existing(t, link) == [kind |-> "Existing", thread_id |-> t, linked_by |-> link,
                      reason |-> "none"]
New(reason) == [kind |-> "New", thread_id |-> NoThread, linked_by |-> NoMid,
                reason |-> reason]

Unresolved == [thread_id |-> NoThread, linked_by |-> NoMid]

Reasons == {"NoLinkage", "UnknownLinkage", "AmbiguousLinkage"}

TypeOK ==
  /\ index \in [Mids -> ThreadIds \cup {NoThread}]
  /\ own \in Mids \cup {NoMid}
  /\ in_reply_to \in Links \cup {NoLink}
  /\ references \in Seq(Links)
  /\ pos \in 0..Len(references) + 1
  /\ had_link \in BOOLEAN /\ ambiguous \in BOOLEAN
  /\ visited \subseteq Mids
  /\ resolved \in [thread_id : ThreadIds \cup {NoThread}, linked_by : Mids \cup {NoMid}]
  /\ answer \in [kind : {"none", "Existing", "New"}, thread_id : ThreadIds \cup {NoThread},
                 linked_by : Mids \cup {NoMid}, reason : Reasons \cup {"none"}]

Init ==
  /\ index \in [Mids -> ThreadIds \cup {NoThread}]
  /\ own \in Mids \cup {NoMid}
  /\ in_reply_to \in Links \cup {NoLink}
  /\ references \in RefLists
  /\ pos = 0
  /\ had_link = FALSE /\ ambiguous = FALSE
  /\ visited = {}
  /\ resolved = Unresolved
  /\ answer = NoAnswer

(* Mutant of Usable: a message may name itself.                            *)
UsableEvenSelf(raw) == IF raw = NoLink THEN NoMid ELSE canonical_link[raw]

(* The id a header value links to; blank values and self-references do not *)
(* link.                                                                   *)
Usable(raw) ==
  IF raw = NoLink \/ canonical_link[raw] = own THEN NoMid ELSE canonical_link[raw]

(* pos = 0: the direct parent.                                             *)
TryInReplyTo ==
  /\ answer = NoAnswer /\ pos = 0
  /\ LET link == Usable(in_reply_to) IN
     /\ had_link' = (link # NoMid)
     /\ answer' = IF link # NoMid /\ index[link] # NoThread
                  THEN Existing(index[link], link) ELSE NoAnswer
  /\ pos' = 1
  /\ UNCHANGED <<inputs, visited, resolved, ambiguous>>

(* Mutant of ResolveReference: the last thread met wins, and no second one *)
(* is ever noticed.                                                        *)
ResolveLast(link) ==
  /\ resolved' = IF index[link] # NoThread
                 THEN [thread_id |-> index[link], linked_by |-> link] ELSE resolved
  /\ UNCHANGED ambiguous

(* Look a link up that was not visited before.                             *)
ResolveReference(link) ==
  IF index[link] = NoThread THEN UNCHANGED <<resolved, ambiguous>>
  ELSE IF resolved = Unresolved
       THEN /\ resolved' = [thread_id |-> index[link], linked_by |-> link]
            /\ UNCHANGED ambiguous
       ELSE /\ ambiguous' = (ambiguous \/ resolved.thread_id # index[link])
            /\ UNCHANGED resolved

VisitReference ==
  /\ answer = NoAnswer /\ pos \in 1..Len(references)
  /\ LET link == Usable(references[pos]) IN
     IF link = NoMid THEN UNCHANGED <<had_link, visited, resolved, ambiguous>>
     ELSE /\ had_link' = TRUE
          /\ visited' = visited \cup {link}
          /\ IF link \in visited THEN UNCHANGED <<resolved, ambiguous>>
                                 ELSE ResolveReference(link)
  /\ pos' = pos + 1
  /\ UNCHANGED <<inputs, answer>>

(* Mutant of Conclude: a message that only names unknown ids is told apart *)
(* from no one.                                                            *)
ConcludeUnreasoned ==
  /\ answer = NoAnswer /\ pos = Len(references) + 1
  /\ answer' = IF ambiguous THEN New("AmbiguousLinkage")
               ELSE IF resolved # Unresolved
                    THEN Existing(resolved.thread_id, resolved.linked_by)
                    ELSE New("NoLinkage")
  /\ UNCHANGED <<inputs, locals>>

Conclude ==
  /\ answer = NoAnswer /\ pos = Len(references) + 1
  /\ answer' = IF ambiguous THEN New("AmbiguousLinkage")
               ELSE IF resolved # Unresolved
                    THEN Existing(resolved.thread_id, resolved.linked_by)
                    ELSE IF had_link THEN New("UnknownLinkage") ELSE New("NoLinkage")
  /\ UNCHANGED <<inputs, locals>>

Next == TryInReplyTo \/ VisitReference \/ Conclude

Spec == Init /\ [][Next]_vars

(***************************************************************************)
(* Correctness: the loop against the rule.                                 *)
(***************************************************************************)

(* The canonical ids a header carries, the message's own included.         *)
Named(raws) == {canonical_link[raw] : raw \in raws \ {NoLink}} \ {NoMid}

Parents   == Named({in_reply_to})
Ancestors == Named({references[n] : n \in 1..Len(references)})

(* The answer is the one JoinedThreads gives for the same headers as sets: *)
(* neither their spelling nor the order nor the repetition of References   *)
(* matters, In-Reply-To wins outright when it resolves, and two threads    *)
(* are never merged (R1, R2 and R3).                                       *)
AnswersRule ==
  answer # NoAnswer =>
    JoinedThreads(index, own, Parents, Ancestors) =
      IF answer.kind = "Existing" THEN {answer.thread_id} ELSE {}

(* A new thread is opened for the reason given: no linkage at all, linkage *)
(* that names nothing held, or references to more than one thread.         *)
ReasonIsRight ==
  answer.kind = "New" =>
    LET carried == (Parents \cup Ancestors) \ {own}
        named   == ThreadsNamed(index, own, Ancestors)
    IN  answer.reason = IF \E t, u \in named : t # u THEN "AmbiguousLinkage"
                        ELSE IF carried # {} THEN "UnknownLinkage" ELSE "NoLinkage"

(* The link credited for the join is one the message really carried, is    *)
(* not the message itself, and names the thread joined; from References it *)
(* is the first that names any.                                            *)
CreditIsRight ==
  answer.kind = "Existing" =>
    /\ answer.linked_by \in (Parents \cup Ancestors) \ {own, NoMid}
    /\ index[answer.linked_by] = answer.thread_id
    /\ answer.linked_by \in Parents
         \/ \E n \in 1..Len(references) :
              /\ canonical_link[references[n]] = answer.linked_by
              /\ \A k \in 1..(n - 1) :
                   ThreadsNamed(index, own, Named({references[k]})) = {}
=============================================================================
