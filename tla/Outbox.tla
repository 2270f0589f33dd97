------------------------------- MODULE Outbox -------------------------------
(***************************************************************************)
(* The table of child events owed to one parent and its transitions, as    *)
(* operators on a table value.                                             *)
(*                                                                         *)
(* crates/agents/src/outbox.rs.  A row is [st, key, tries, rests]: its     *)
(* state, the send_key of the batch it was claimed in, its attempts, and   *)
(* whether its next_attempt_at is still ahead.  Every UPDATE that names a  *)
(* send_key takes a set of keys here: reports of one kind come in sets.    *)
(***************************************************************************)
EXTENDS Naturals

CONSTANT Rows  \* the rows of the parent, one per edge identity

RowStates == {"none", "pending", "claimed", "sent", "accepted", "delivered",
              "unconfirmed", "undeliverable"}

NoKey == {}

NoRow == [st |-> "none", key |-> NoKey, tries |-> 0, rests |-> FALSE]

In(t, states) == {r \in Rows : t[r].st \in states}

Under(t, keys) == {r \in Rows : t[r].key \in keys}

\* UPDATE ... SET state = to WHERE id IN rows
Set(t, rows, to) == [r \in Rows |-> IF r \in rows THEN [t[r] EXCEPT !.st = to] ELSE t[r]]

\* (Mutant: the attempt is not counted.)
BackUncounted(t, rows) ==
  [r \in Rows |-> IF r \in rows THEN [t[r] EXCEPT !.st = "pending", !.key = NoKey] ELSE t[r]]

\* Rows go back to pending and count an attempt: their next key is a new one.
Back(t, rows) ==
  [r \in Rows |-> IF r \in rows
     THEN [t[r] EXCEPT !.st = "pending", !.key = NoKey, !.tries = @ + 1]
     ELSE t[r]]

Push(t, r) == [t EXCEPT ![r].st = "pending"]

Due(t) == {r \in In(t, {"pending"}) : ~t[r].rests}

\* The ids and attempts of the rows stand for their hash.
BatchKey(t, rows) == {<<r, t[r].tries>> : r \in rows}

Claim(t) ==
  [r \in Rows |-> IF r \in Due(t)
     THEN [t[r] EXCEPT !.st = "claimed", !.key = BatchKey(t, Due(t))] ELSE t[r]]

\* (Mutant: a line of doubtful fate is owed again.)
UnclaimUnsure(t, keys) == Back(t, Under(t, keys) \cap In(t, {"claimed", "sent", "unconfirmed"}))

Unclaim(t, keys) == Back(t, Under(t, keys) \cap In(t, {"claimed", "sent"}))

ReleaseWithBackoff(t, keys) ==
  LET back == Under(t, keys) \cap In(t, {"claimed"})
  IN  [r \in Rows |-> IF r \in back THEN [Back(t, back)[r] EXCEPT !.rests = TRUE] ELSE t[r]]

MarkSent(t, keys) == Set(t, Under(t, keys) \cap In(t, {"claimed"}), "sent")

MarkAccepted(t, keys) ==
  Set(t, Under(t, keys) \cap In(t, {"claimed", "sent", "unconfirmed"}), "accepted")

MarkDelivered(t, keys) ==
  Set(t, Under(t, keys) \cap In(t, {"claimed", "sent", "accepted", "unconfirmed"}), "delivered")

MarkUnconfirmed(t, keys) == Set(t, Under(t, keys) \cap In(t, {"sent"}), "unconfirmed")

ReleaseParent(t) == Set(Back(t, In(t, {"claimed"})), In(t, {"sent"}), "unconfirmed")

SettleUndeliverable(t) == Set(t, In(t, {"pending", "claimed"}), "undeliverable")

\* (Mutant: what was sent is left to a window that nobody runs.)
TakeOverClaims(t) ==
  [r \in Rows |-> IF t[r].st = "claimed" THEN [t[r] EXCEPT !.st = "pending", !.key = NoKey] ELSE t[r]]

\* A new host instance: unlike every other way back to pending this one
\* counts no attempt, so the same rows get the same key again.
TakeOver(t) ==
  [r \in Rows |->
     CASE t[r].st = "claimed" -> [t[r] EXCEPT !.st = "pending", !.key = NoKey]
       [] t[r].st = "sent" -> [t[r] EXCEPT !.st = "unconfirmed"]
       [] OTHER -> t[r]]

ParentsInFlight(t) == In(t, {"claimed", "sent", "accepted", "unconfirmed"}) # {}
=============================================================================
