----------------------------- MODULE MCRulesApi -----------------------------
(* Instances of RulesApi for TLC: one rule from .env and one of a user.     *)
EXTENDS RulesApi

CONSTANTS envForward, mine, good, other, faulty, ann, bob

McIds     == {envForward, mine}
McEnvIds  == {envForward}
McBodies  == {good, other, faulty}
McFaulty  == {faulty}
McClients == {ann, bob}
=============================================================================
