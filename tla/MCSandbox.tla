----------------------------- MODULE MCSandbox -----------------------------
(* Small instances of Sandbox for TLC.                                       *)
EXTENDS Sandbox, TLC

CONSTANTS c1, c2, admin, admin2, name, amount, ik, ik2

\* Clients differ only by what they ask for.
MCSymmetry == Permutations(Client)
=============================================================================
