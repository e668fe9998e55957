---------------------------- MODULE MCBlobStore ----------------------------
EXTENDS BlobStore, TLC

CONSTANTS a1, a2, a3, a4,   \* put calls
          api, smtpd,       \* processes
          logo, letter      \* contents

(* The API and the SMTP daemon store the same bytes at once, the daemon    *)
(* twice: two messages with the same attachment, or a delivery repeated.   *)
(* It stores other bytes meanwhile.                                        *)
MCContent == (a1 :> logo)  @@ (a2 :> logo) @@ (a3 :> logo) @@ (a4 :> letter)
MCProcess == (a1 :> smtpd) @@ (a2 :> api) @@ (a3 :> smtpd) @@ (a4 :> smtpd)
=============================================================================
