----------------------------- MODULE MCSettings -----------------------------
(* Settings of three different contents, the default ones among them: what *)
(* was stored before, what is stored and what is being stored.             *)
EXTENDS Settings

CONSTANTS d, s1, s2

SomeValues == {d, s1, s2}
=============================================================================
