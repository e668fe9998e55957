--------------------------- MODULE MCSmtpSession ---------------------------
EXTENDS SmtpSession
=============================================================================
