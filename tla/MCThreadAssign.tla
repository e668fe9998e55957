--------------------------- MODULE MCThreadAssign ---------------------------
(* Three ids, one of them in two spellings, and a blank header value.      *)
EXTENDS ThreadAssign, TLC

CONSTANTS m1, m2, m3, bare1, blank

MCLinks == {m1, m2, m3, bare1, blank}

MCCanonical == (m1 :> m1) @@ (m2 :> m2) @@ (m3 :> m3) @@ (bare1 :> m1) @@ (blank :> NoMid)

(* Every References list of up to three entries.                           *)
MCRefLists == UNION {[1..n -> MCLinks] : n \in 0..3}
=============================================================================
