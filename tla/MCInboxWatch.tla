---------------------------- MODULE MCInboxWatch ----------------------------
(* InboxWatch for TLC: three mails, of which the first may be old, and each *)
(* fault once.  MaxPerReport = 1, so that two mails are one too many.       *)
EXTENDS InboxInvariant
=============================================================================
