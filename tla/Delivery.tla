------------------------------ MODULE Delivery ------------------------------
(***************************************************************************)
(* What the outbox promises the children of an agent, without keys, gate,  *)
(* receipts, windows and rounds: an event is offered to its parent, comes  *)
(* back or is settled, and the parent's agent starts on it once; what the  *)
(* host could not see it doubts, and only that may be started on again.    *)
(*                                                                         *)
(* crates/agents/src/outbox.rs states the promise ("consumed on acceptance,*)
(* never on write", "unconfirmed ... is never resent on its own",          *)
(* "undeliverable (the parent ended)").                                    *)
(***************************************************************************)
CONSTANT Events

VARIABLES
  fate,    \* per event: where it stands
  starts,  \* per event: the names under which the agent has started on it
  doubt,   \* events that came back though the agent may have had them
  ended    \* the parent has ended

deliveryVars == <<fate, starts, doubt, ended>>

Fates == {"none",     \* not reported yet
          "owed",     \* to be offered
          "offered",  \* on its way: it may still come back
          "unsure",   \* written, and nobody knows what became of it
          "taken",    \* known to be started on
          "failed"}   \* the parent ended: shown, never sent

Init ==
  /\ fate = [e \in Events |-> "none"]
  /\ starts = [e \in Events |-> {}]
  /\ doubt = {} /\ ended = FALSE

\* The agent may start on the event for the first time, or once more.
Fresh(e) == starts[e] = {} \/ e \in doubt

Becomes(e, from, to) ==
  /\ fate[e] \in from /\ fate'[e] = to
  /\ starts'[e] = starts[e] /\ (e \in doubt' <=> e \in doubt)

Owe(e) == Becomes(e, {"none"}, "owed")

Offer(e) == Fresh(e) /\ Becomes(e, {"owed"}, "offered")

\* It comes back: not started on.
Return(e) == Fresh(e) /\ Becomes(e, {"offered"}, "owed")

\* It is given up on, or comes back, while the agent may have it.
Lose(e) ==
  /\ fate[e] = "offered" /\ fate'[e] \in {"offered", "owed"}
  /\ starts'[e] = starts[e]
  /\ e \notin doubt /\ e \in doubt'

Miss(e) == Becomes(e, {"offered"}, "unsure")

\* Only what was started on is taken, and late proof counts.
Take(e) == starts[e] # {} /\ Becomes(e, {"offered", "unsure"}, "taken")

Fail(e) == ended /\ Becomes(e, {"owed", "offered"}, "failed")

\* The agent starts on an event that was offered.
Start(e) ==
  /\ Fresh(e)
  /\ fate[e] \in {"offered", "unsure", "failed"} \/ e \in doubt
  /\ \E name \in starts'[e] : starts'[e] = starts[e] \cup {name}
  /\ fate'[e] = fate[e] /\ (e \in doubt' <=> e \in doubt)

Same(e) == Becomes(e, Fates, fate[e])

\* Events go in batches: any number of them move in a step.
Next ==
  /\ fate' \in [Events -> Fates] /\ starts' = [e \in Events |-> starts'[e]]
  /\ doubt' \subseteq Events
  /\ ended' \in BOOLEAN /\ (ended => ended')
  /\ \A e \in Events :
       \/ Owe(e) \/ Offer(e) \/ Return(e) \/ Lose(e) \/ Miss(e) \/ Take(e) \/ Fail(e)
       \/ Start(e) \/ Same(e)

Spec == Init /\ [][Next]_deliveryVars

\* What a child may rely on: its event is started on at most once unless it is
\* in doubt, is not owed once started on, and passes for taken only if it was.
Kept ==
  \A e \in Events :
    /\ e \notin doubt => \A m, n \in starts[e] : m = n
    /\ fate[e] \in {"none", "owed"} => Fresh(e)
    /\ fate[e] = "taken" => starts[e] # {}
    /\ fate[e] = "failed" => ended
=============================================================================
