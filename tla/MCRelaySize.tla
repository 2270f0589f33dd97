----------------------------- MODULE MCRelaySize -----------------------------
(***************************************************************************)
(* Instances of RelaySize for TLC.                                         *)
(***************************************************************************)
EXTENDS RelaySize

CONSTANTS a1, a2, c1, c2

OneConnection == [a \in Attachments |-> c1]
TwoConnections == [a \in Attachments |-> IF a = a1 THEN c1 ELSE c2]
Twice == [a \in Attachments |-> 2]
OneTwice == [a \in Attachments |-> IF a = a1 THEN 2 ELSE 1]
=============================================================================
