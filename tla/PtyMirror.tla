----------------------------- MODULE PtyMirror -----------------------------
(***************************************************************************)
(* What the relay promises whoever watches a PTY, without queues, gaps,    *)
(* snapshots or fences: the screen follows the output chunk by chunk, or   *)
(* knows that it does not.                                                 *)
(*                                                                         *)
(* crates/relay-client/src/attach.rs states the promise ("a byte is either *)
(* in the replay or delivered to us - never both, never neither") and what *)
(* happens when the daemon drops output: the client is told, and rebuilds  *)
(* the whole screen.                                                       *)
(***************************************************************************)
EXTENDS Naturals

CONSTANT Watchers

VARIABLES
  out,   \* chunks the child has written
  over,  \* the child's end has been recorded: it writes no more
  seen,  \* per watcher: the last chunk on its screen
  mode   \* per watcher: what it may assume of its screen

mirrorVars == <<out, over, seen, mode>>

Modes == {"absent",      \* not watching yet
          "exact",       \* shows every chunk up to `seen`
          "recovering",  \* knows that output was dropped, is asking for a snapshot
          "unsure",      \* the snapshot was refused: the screen is known to be stale
          "final",       \* was told of the end with an exact screen
          "closed"}      \* watches no more

Init ==
  /\ out = 0 /\ over = FALSE
  /\ seen = [w \in Watchers |-> 0] /\ mode = [w \in Watchers |-> "absent"]

Emit ==
  /\ ~over
  /\ out' = out + 1
  /\ UNCHANGED <<over, seen, mode>>

End ==
  /\ over' = TRUE
  /\ UNCHANGED <<out, seen, mode>>

Become(w, m) == mode' = [mode EXCEPT ![w] = m]

\* The screen jumps forward to a snapshot.
CatchUp(w) == \E n \in seen[w]..out : seen' = [seen EXCEPT ![w] = n]

Join(w) ==
  /\ mode[w] = "absent"
  /\ CatchUp(w) /\ Become(w, "exact")
  /\ UNCHANGED <<out, over>>

Follow(w) ==
  /\ mode[w] = "exact" /\ seen[w] < out
  /\ seen' = [seen EXCEPT ![w] = @ + 1]
  /\ UNCHANGED <<out, over, mode>>

Notice(w) ==
  /\ mode[w] \in {"exact", "unsure"}
  /\ Become(w, "recovering")
  /\ UNCHANGED <<out, over, seen>>

Recover(w) ==
  /\ mode[w] = "recovering"
  /\ CatchUp(w) /\ Become(w, "exact")
  /\ UNCHANGED <<out, over>>

GiveUp(w) ==
  /\ mode[w] = "recovering"
  /\ Become(w, "unsure")
  /\ UNCHANGED <<out, over, seen>>

\* Only a screen that is known to be stale may leave output out.
Skip(w) ==
  /\ mode[w] = "unsure"
  /\ CatchUp(w)
  /\ UNCHANGED <<out, over, mode>>

\* Told of the end: an exact screen is then complete.
Finish(w) ==
  /\ mode[w] = "exact" /\ over /\ seen[w] = out
  /\ Become(w, "final")
  /\ UNCHANGED <<out, over, seen>>

Part(w) ==
  /\ Become(w, "closed")
  /\ UNCHANGED <<out, over, seen>>

Next ==
  \/ Emit \/ End
  \/ \E w \in Watchers :
       \/ Join(w) \/ Follow(w) \/ Notice(w) \/ Recover(w) \/ GiveUp(w)
       \/ Skip(w) \/ Finish(w) \/ Part(w)

Spec == Init /\ [][Next]_mirrorVars
=============================================================================
