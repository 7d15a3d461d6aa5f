---------------------------- MODULE MCBridgePage ----------------------------
(* Instances of BridgePage for TLC: two accounts, one with a second folder. *)
EXTENDS BridgePageInvariant

CONSTANTS a, b

MCLists == {<<a, "INBOX">>, <<a, "Sent">>, <<b, "INBOX">>}
MCContents == [l \in MCLists |-> IF l = <<a, "INBOX">> THEN {1, 2, 3} ELSE {1}]
MCConnected == {a}
MCViews == {[account |-> a, folder |-> "INBOX", uid |-> 3]}
=============================================================================
