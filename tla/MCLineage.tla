------------------------------ MODULE MCLineage ------------------------------
(***************************************************************************)
(* Instances of Lineage for TLC.                                           *)
(***************************************************************************)
EXTENDS Lineage

CONSTANTS q1, q2

By(s, q, o) == [from |-> s, req |-> q, origin |-> o]

\* Agents ask, twice in the root and once in each of two children.
Agents == {By(0, q1, "agent"), By(0, q2, "agent"), By(1, q1, "agent"), By(2, q1, "agent")}
=============================================================================
