--------------------------- MODULE ThreadingRule ---------------------------
(***************************************************************************)
(* The threading rule of amk-core as a value: which thread a message joins *)
(* given an index of the messages its inbox holds.  ThreadAssign models    *)
(* the loop that computes it and shows that the loop answers this rule;    *)
(* Delivery uses the rule in one step.                                     *)
(*                                                                         *)
(* An index answers thread_of: message id -> thread id, or NoThread for a  *)
(* message the inbox does not hold.  Message ids are in canonical form     *)
(* (canonical_link: folding whitespace stripped, brackets put on), so that *)
(* two spellings of one id are one element.                                *)
(***************************************************************************)
CONSTANT NoThread

(* The threads of this inbox that a set of links names.  A message that    *)
(* names itself names nothing: its thread does not exist yet.              *)
ThreadsNamed(index, own, links) ==
  {index[link] : link \in links \ {own}} \ {NoThread}

(* The thread to join, {} when a new one is to be opened.  inReplyTo and   *)
(* references are sets of links, inReplyTo of at most one.  In-Reply-To    *)
(* wins whenever it names a held message; References decide only when they *)
(* name one thread, and never merge two.                                   *)
JoinedThreads(index, own, inReplyTo, references) ==
  IF ThreadsNamed(index, own, inReplyTo) # {}
  THEN ThreadsNamed(index, own, inReplyTo)
  ELSE {t \in ThreadsNamed(index, own, references) :
          ThreadsNamed(index, own, references) = {t}}
=============================================================================
