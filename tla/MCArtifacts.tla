----------------------------- MODULE MCArtifacts -----------------------------
(***************************************************************************)
(* Instances of Artifacts for TLC.                                         *)
(***************************************************************************)
EXTENDS Artifacts

\* Two Cairo 0 contracts, of which "*uninitialized_account*.json" matches both, and
\* one of the Scarb package.
Mixed == <<"uninitialized_account_fixture", "uninitialized_account", "StarknetToken">>
Package == {"StarknetToken"}
Globs == [n \in Name |->
            IF n = "uninitialized_account" THEN {n, "uninitialized_account_fixture"} ELSE {n}]
AllWorlds == [make : BOOLEAN, abandons : BOOLEAN]
=============================================================================
