------------------------------ MODULE MCBridge ------------------------------
(* Instances of Bridge for TLC: two mailboxes, one of them in the file. *)
EXTENDS BridgeInvariant

CONSTANTS ann, bob

MCKnown == <<ann>>
MCImports == {<<ann, bob>>}
=============================================================================
