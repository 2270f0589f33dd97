----------------------------- MODULE RelaySize -----------------------------
(***************************************************************************)
(* The size of one PTY of the relay daemon: every attachment votes, the    *)
(* PTY is driven at the smallest vote, and each change is sent to the      *)
(* kernel again a little later for programs that missed the first signal.  *)
(*                                                                         *)
(* Daemon: crates/relay/src/registry.rs (attach, resize, detach,           *)
(* apply_effective_size, arm_resize_resend), crates/relay/src/server.rs    *)
(* (dispatch_loop).  Client: crates/relay-client/src/backend.rs (resize,   *)
(* detach), which sends each of these requests from a task of its own.     *)
(*                                                                         *)
(* Columns and rows are treated alike: a size is one number.  The handlers *)
(* of two connections may race, as the source does not say; the history    *)
(* variables tell when they did.                                           *)
(***************************************************************************)
EXTENDS Naturals, FiniteSets, FiniteSetsExt, Functions

CONSTANTS
  Attachments,  \* attachment ids, each used by one pane once
  ConnOf,       \* the client connection each of them belongs to
  Sizes,        \* what a pane may ask for
  Start,        \* the size the session was spawned with
  Resends,      \* RESIZE_RESEND_DELAYS_MS: how often a change is sent again
  MaxAsks       \* bound: resizes per pane

ASSUME SizeAssumption ==
  /\ IsFiniteSet(Attachments) /\ ConnOf \in [Attachments -> Range(ConnOf)]
  /\ Sizes \subseteq Nat /\ Start \in Nat \ {0}
  /\ Resends \in Nat \ {0} /\ MaxAsks \in [Attachments -> Nat]

VARIABLES
  pane,    \* per attachment: "off", "asking", "given" up, "on", "left" (detached), "lost"
  asked,   \* per attachment: resizes its pane sent
  sent,    \* requests on their way, in no order
  up,      \* connections whose client is there
  owned,   \* dispatch_loop's list: attachments its end will detach
  doing,   \* per connection: the step its handler is at
  votes,   \* Entry::attachments: the size each attachment asked for
  size,    \* Entry::cols and rows: the size in effect
  kernel,  \* the size the PTY was last set to
  seq,     \* Entry::resize_seq
  tasks,   \* resend tasks under way
  latest,  \* history: the connection, if any, with the newest outcome still to apply
  raced,   \* history: an older outcome was applied last, or an old size voted for
  crossed  \* history: the resends armed last are of a size another handler replaced

clientVars == <<pane, asked, up>>
sizeVars == <<votes, size, kernel, seq, tasks>>
history == <<latest, raced, crossed>>
vars == <<clientVars, sent, owned, doing, sizeVars, history>>

Conns == Range(ConnOf)
Request == [op : {"attach", "resize", "detach"}, a : Attachments, s : Nat, n : Nat]
Ask(op, a, s, n) == [op |-> op, a |-> a, s |-> s, n |-> n]
Task == [seq : Nat, size : Nat, left : Nat \ {0}, checked : BOOLEAN]

\* What a handler is about to do, for attachment a, with size s.
Steps == {"enroll", "measure", "apply", "arm"}
Idle == [at |-> "idle"]
At(step, a, s) == [at |-> step, a |-> a, s |-> s]
Doing == {Idle} \cup [at : Steps, a : Attachments, s : Nat]

TypeOK ==
  /\ pane \in [Attachments -> {"off", "asking", "given", "on", "left", "lost"}]
  /\ asked \in [Attachments -> Nat]
  /\ sent \in SUBSET Request /\ up \in SUBSET Conns
  /\ owned \in SUBSET Attachments
  /\ doing \in [Conns -> Doing]
  /\ DOMAIN votes \in SUBSET Attachments /\ votes \in [DOMAIN votes -> Nat]
  /\ size \in Nat \ {0} /\ kernel \in Nat \ {0} /\ seq \in Nat
  /\ tasks \in SUBSET Task
  /\ latest \in SUBSET Conns /\ raced \in BOOLEAN /\ crossed \in BOOLEAN

NoVotes == [a \in {} |-> 0]

Init ==
  /\ pane = [a \in Attachments |-> "off"] /\ asked = [a \in Attachments |-> 0]
  /\ sent = {} /\ up = Conns /\ owned = {}
  /\ doing = [c \in Conns |-> Idle]
  /\ votes = NoVotes /\ size = Start /\ kernel = Start /\ seq = 0 /\ tasks = {}
  /\ latest = {} /\ raced = FALSE /\ crossed = FALSE

\* Mutant: a vote of 0 is taken at its word.
SmallestAsIs == Min(Range(votes))

\* The smallest vote, at least 1.
Smallest == Max({1, Min(Range(votes))})

Vote(a, s) == votes' = [b \in DOMAIN votes \cup {a} |-> IF b = a THEN s ELSE votes[b]]

-----------------------------------------------------------------------------
(* The client.                                                             *)

SendAttach(a) ==
  /\ pane[a] = "off" /\ ConnOf[a] \in up
  /\ pane' = [pane EXCEPT ![a] = "asking"]
  /\ sent' = sent \cup {Ask("attach", a, 0, 0)}
  /\ UNCHANGED <<asked, up, owned, doing, sizeVars, history>>

\* The client's wait for the answer times out: it only unsubscribes.
GiveUp(a) ==
  /\ pane[a] = "asking"
  /\ pane' = [pane EXCEPT ![a] = "given"]
  /\ UNCHANGED <<asked, up, sent, owned, doing, sizeVars, history>>

PaneResize(a) ==
  /\ pane[a] = "on" /\ asked[a] < MaxAsks[a]
  /\ asked' = [asked EXCEPT ![a] = @ + 1]
  /\ \E s \in Sizes : sent' = sent \cup {Ask("resize", a, s, asked[a])}
  /\ UNCHANGED <<pane, up, owned, doing, sizeVars, history>>

PaneDetach(a) ==
  /\ pane[a] = "on"
  /\ pane' = [pane EXCEPT ![a] = "left"]
  /\ sent' = sent \cup {Ask("detach", a, 0, 0)}
  /\ UNCHANGED <<asked, up, owned, doing, sizeVars, history>>

\* The client crashes or its socket drops: what it sent may still arrive.
Disconnect(c) ==
  /\ c \in up
  /\ up' = up \ {c}
  /\ pane' = [a \in Attachments |->
       IF ConnOf[a] = c /\ pane[a] \in {"asking", "given", "on"} THEN "lost" ELSE pane[a]]
  /\ UNCHANGED <<asked, sent, owned, doing, sizeVars, history>>

Lose(r) ==
  /\ r \in sent /\ ConnOf[r.a] \notin up
  /\ sent' = sent \ {r}
  /\ UNCHANGED <<clientVars, owned, doing, sizeVars, history>>

-----------------------------------------------------------------------------
(* The daemon: one request of a connection at a time.                      *)

\* The connection's handler takes r and goes on at `step`.
Serve(r, step) ==
  /\ r \in sent /\ doing[ConnOf[r.a]] = Idle
  /\ sent' = sent \ {r}
  /\ doing' = [doing EXCEPT ![ConnOf[r.a]] = step]

\* attach reads the size in effect ...
ServeAttach(r) ==
  /\ r.op = "attach"
  /\ Serve(r, At("enroll", r.a, size))
  /\ UNCHANGED <<clientVars, owned, sizeVars, history>>

\* ... and votes for it.  The answer makes the pane live.  (An outcome still to
\* be applied stays the newest if the new vote is not below it.)
Enroll(c) ==
  /\ doing[c].at = "enroll"
  /\ LET a == doing[c].a
         s == doing[c].s
         holds == \E d \in latest : doing[d].s <= s
     IN
       /\ Vote(a, s)
       /\ owned' = owned \cup {a}
       /\ pane' = [pane EXCEPT ![a] = IF @ = "asking" THEN "on" ELSE @]
       /\ latest' = IF holds THEN latest ELSE {}
       /\ raced' = (raced \/ (~holds /\ s # size))
  /\ doing' = [doing EXCEPT ![c] = Idle]
  /\ UNCHANGED <<asked, up, sent, size, kernel, seq, tasks, crossed>>

\* resize records the vote, whether or not the attachment is there.
ServeResize(r) ==
  /\ r.op = "resize"
  /\ Serve(r, At("measure", r.a, 0))
  /\ Vote(r.a, r.s)
  /\ UNCHANGED <<clientVars, owned, size, kernel, seq, tasks, history>>

\* Mutant: a vote is withdrawn and the size is not looked at again.
DropVoteOnly(a, c) ==
  /\ votes' = Restrict(votes, DOMAIN votes \ {a})
  /\ doing' = [doing EXCEPT ![c] = Idle]

\* registry.detach: the vote goes; if there was one, the size is recomputed.
DropVote(a, c) ==
  /\ votes' = Restrict(votes, DOMAIN votes \ {a})
  /\ doing' = [doing EXCEPT ![c] = IF a \in DOMAIN votes THEN At("measure", a, 0) ELSE Idle]

ServeDetach(r) ==
  /\ r \in sent /\ r.op = "detach" /\ doing[ConnOf[r.a]] = Idle
  /\ sent' = sent \ {r}
  /\ DropVote(r.a, ConnOf[r.a])
  /\ owned' = owned \ {r.a}
  /\ UNCHANGED <<clientVars, size, kernel, seq, tasks, history>>

\* Mutant: the end of a connection releases nothing.
TeardownForgets(c) ==
  /\ c \notin up /\ doing[c] = Idle
  /\ \A r \in sent : ConnOf[r.a] # c
  /\ \E a \in owned : ConnOf[a] = c /\ owned' = owned \ {a}
  /\ UNCHANGED <<clientVars, sent, doing, sizeVars, history>>

\* The end of dispatch_loop: what the connection still holds is detached.
Teardown(c) ==
  /\ c \notin up /\ doing[c] = Idle
  /\ \A r \in sent : ConnOf[r.a] # c
  /\ \E a \in owned : ConnOf[a] = c /\ owned' = owned \ {a} /\ DropVote(a, c)
  /\ UNCHANGED <<clientVars, sent, size, kernel, seq, tasks, history>>

\* apply_effective_size reads the votes under their lock ...
Measure(c) ==
  /\ doing[c].at = "measure"
  /\ doing' = [doing EXCEPT ![c] =
       IF votes = NoVotes THEN Idle ELSE At("apply", doing[c].a, Smallest)]
  /\ latest' = IF votes = NoVotes THEN {} ELSE {c}
  /\ UNCHANGED <<clientVars, sent, owned, sizeVars, raced, crossed>>

\* ... applies the outcome under the locks of the size ...  (The newest outcome
\* ends a race, any other starts one unless it changes nothing.)
Apply(c) ==
  /\ doing[c].at = "apply"
  /\ LET s == doing[c].s IN
       IF s = size
       THEN /\ doing' = [doing EXCEPT ![c] = Idle]
            /\ UNCHANGED <<size, kernel>>
       ELSE /\ size' = s /\ kernel' = s
            /\ doing' = [doing EXCEPT ![c] = At("arm", doing[c].a, s)]
  /\ raced' = (latest # {c} /\ (raced \/ latest # {} \/ doing[c].s # size))
  /\ latest' = latest \ {c}
  /\ UNCHANGED <<clientVars, sent, owned, votes, seq, tasks, crossed>>

\* Mutant: the resends of the change before are not superseded.
ArmBeside(c) ==
  /\ doing[c].at = "arm"
  /\ tasks' = tasks \cup
       {[seq |-> seq, size |-> doing[c].s, left |-> Resends, checked |-> FALSE]}
  /\ doing' = [doing EXCEPT ![c] = Idle]
  /\ crossed' = (doing[c].s # size)
  /\ UNCHANGED <<clientVars, sent, owned, votes, size, kernel, seq, latest, raced>>

\* ... and arms the resends, superseding the ones before.
Arm(c) ==
  /\ doing[c].at = "arm"
  /\ seq' = seq + 1
  /\ tasks' = tasks \cup
       {[seq |-> seq + 1, size |-> doing[c].s, left |-> Resends, checked |-> FALSE]}
  /\ doing' = [doing EXCEPT ![c] = Idle]
  /\ crossed' = (doing[c].s # size)
  /\ UNCHANGED <<clientVars, sent, owned, votes, size, kernel, latest, raced>>

-----------------------------------------------------------------------------
(* The resends.                                                            *)

\* A delay passed: stop if superseded.  A task does not dwell between its
\* check and its resize as long as a delay takes, so none is caught there.
ResendCheck(t) ==
  /\ t \in tasks /\ ~t.checked
  /\ \A other \in tasks : ~other.checked
  /\ tasks' = IF t.seq # seq THEN tasks \ {t}
              ELSE (tasks \ {t}) \cup {[t EXCEPT !.checked = TRUE]}
  /\ UNCHANGED <<clientVars, sent, owned, doing, votes, size, kernel, seq, history>>

ResendApply(t) ==
  /\ t \in tasks /\ t.checked
  /\ kernel' = t.size
  /\ tasks' = (tasks \ {t}) \cup
       {x \in {[t EXCEPT !.checked = FALSE, !.left = @ - 1]} : x.left > 0}
  /\ UNCHANGED <<clientVars, sent, owned, doing, votes, size, seq, history>>

-----------------------------------------------------------------------------
Next ==
  \/ \E a \in Attachments : SendAttach(a) \/ GiveUp(a) \/ PaneResize(a) \/ PaneDetach(a)
  \/ \E c \in Conns :
       Disconnect(c) \/ Enroll(c) \/ Teardown(c) \/ Measure(c) \/ Apply(c) \/ Arm(c)
  \/ \E r \in sent : Lose(r) \/ ServeAttach(r) \/ ServeResize(r) \/ ServeDetach(r)
  \/ \E t \in tasks : ResendCheck(t) \/ ResendApply(t)

Spec == Init /\ [][Next]_vars

\* The daemon serves what arrives, ends what is gone, and runs its tasks.
Fairness ==
  /\ \A c \in Conns : /\ WF_vars(Enroll(c)) /\ WF_vars(Measure(c)) /\ WF_vars(Apply(c))
                      /\ WF_vars(Arm(c)) /\ WF_vars(Teardown(c))
  /\ WF_vars(\E r \in sent : ServeAttach(r) \/ ServeResize(r) \/ ServeDetach(r))
  /\ WF_vars(\E t \in tasks : ResendCheck(t) \/ ResendApply(t))

FairSpec == Spec /\ Fairness
-----------------------------------------------------------------------------
(* Properties.                                                             *)

\* Between two requests the size in effect is the smallest vote, whatever
\* panes came, left, resized out of order or vanished (registry.rs:553-557,
\* relay.attachment-min-size), unless the last of two connections to apply had
\* read the votes first, or a newcomer voted for a size replaced meanwhile.
SettledSize ==
  (\A c \in Conns : doing[c] = Idle) /\ votes # NoVotes => size = Smallest \/ raced

\* The kernel ends up with the size in effect, although an old resend may
\* run after a newer change (registry.rs:876-881), unless the handlers of two
\* changes arm their resends in the other order.
KernelSettles ==
  tasks = {} /\ (\A c \in Conns : doing[c] = Idle) => kernel = size \/ crossed

\* A client that vanishes without detaching, or gave up on an attach that was
\* served all the same, holds no PTY small: a vote nobody withdrew is on the
\* list that the end of its connection goes through (server.rs:551-559).
LostPanesDoNotVote ==
  \A a \in Attachments :
    pane[a] # "left" /\ a \in DOMAIN votes => a \in owned

\* Once panes stop changing, the program runs at the smallest vote for good, or
\* at a size that a race of two connections left it with.
FollowsSmallest == <>[](votes # NoVotes => kernel = Smallest \/ raced \/ crossed)

\* config/reliability-gates.toml, relay.attachment-min-size: the PTY follows
\* its live attachments, not a phantom one.
NoPhantomVote ==
  \A a \in DOMAIN votes : pane[a] = "left" => a \in owned
=============================================================================
