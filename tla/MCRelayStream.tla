---------------------------- MODULE MCRelayStream ----------------------------
(***************************************************************************)
(* Instances of RelayStream for TLC.                                       *)
(***************************************************************************)
EXTENDS RelayStream

CONSTANTS a1, a2, c1

\* The panes of one client share its connection and its queue.
OneConnection == [a \in Attachments |-> c1]
=============================================================================
