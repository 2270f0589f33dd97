---------------------------- MODULE RelayStream ----------------------------
(***************************************************************************)
(* One PTY of the relay daemon and the clients that watch it: the replay   *)
(* log, the subscribers it is fanned out to over bounded queues, the gap   *)
(* notice, the resync a client runs after one, and the fence that tells    *)
(* the client which queued output the resync already covered.              *)
(*                                                                         *)
(* Daemon side: crates/relay/src/reader.rs and registry.rs.                *)
(* Client side: crates/relay-client/src/attach.rs and client.rs.           *)
(*                                                                         *)
(* Output is numbered: chunk n is the n-th one published, and the log      *)
(* always ends at chunk `out`, so a snapshot is its end position.  A       *)
(* screen is abstracted to the last chunk it shows and three marks: a      *)
(* chunk was skipped, a chunk was applied twice, it is knowingly stale.    *)
(***************************************************************************)
EXTENDS Naturals, Sequences, FiniteSets, Functions

CONSTANTS
  Attachments,   \* attachment ids, one per watching pane or peer
  Spawners,      \* those that come from Spawn; the others come from Attach
  ConnOf,        \* the client connection each attachment belongs to
  QueueCap,      \* SUBSCRIBER_QUEUE: notifications queued per connection
  MaxOut,        \* bound: chunks published
  MaxStatus,     \* bound: agent-status packets injected
  MaxFails       \* bound: resync requests that fail, per attachment

ASSUME ConstantsAssumption ==
  /\ IsFiniteSet(Attachments)
  /\ Spawners \subseteq Attachments /\ Cardinality(Spawners) <= 1
  /\ ConnOf \in [Attachments -> Range(ConnOf)]
  /\ QueueCap \in Nat /\ MaxOut \in Nat /\ MaxStatus \in Nat /\ MaxFails \in Nat

VARIABLES
  out,        \* chunks published, the end of the replay log
  status,     \* agent-status packets injected so far
  exit,       \* "no", "flagged" (child_exited is set), "told" (Exit fanned out),
              \* "quiet" (a daemon restart ended the child: no Exit is sent)
  subs,       \* attachments in Entry::subscribers
  gapped,     \* those whose Subscriber::gapped flag is up
  pipe,       \* per attachment: notifications sent and not yet handled, in order
  taken,      \* how many of them already left the daemon's bounded queue
  pump,       \* per attachment: where the client is
  fence,      \* per attachment: "none", "wait", or "late" (FENCE_TIMEOUT ran out)
  asks,       \* per attachment: Replay requests the daemon has not handled
  answer,     \* per attachment: end of the snapshot a response carries
  shown,      \* per attachment: the last chunk on the screen
  fails,      \* per attachment: resync requests that failed
  hole,       \* history: a chunk was applied past a missing one
  twice,      \* history: a chunk already on the screen was applied again
  stale,      \* history: a resync failed and none has succeeded since
  astray      \* history: since the last snapshot, "mixed" when another fence than
              \* its own was queued, "late" when the wait for it ran out

daemonVars == <<out, status, exit, subs, gapped>>
wireVars == <<pipe, taken>>
clientVars == <<pump, fence, asks, answer, shown, fails>>
historyVars == <<hole, twice, stale, astray>>
vars == <<daemonVars, wireVars, clientVars, historyVars>>

Kinds == {"out", "status", "gap", "fence", "exit"}
Notification == [k : Kinds, n : Nat]
Note(kind) == [k |-> kind, n |-> 0]
Output(i) == [k |-> "out", n |-> i]
PumpStates == {"off", "asking", "granted", "gaveup", "spawning", "spawned",
               "live", "resync", "answered", "exited", "ended"}

\* The client has a subscription for the attachment: subscribe_pty ran and
\* the session was not torn down.
Subscribed(a) == pump[a] \in {"asking", "granted", "live", "resync", "answered"}

\* Free slots in the notification channel every attachment of c shares.
Room(c) ==
  LET waiting == [a \in Attachments |-> Len(pipe[a]) - taken[a]]
  IN  QueueCap - SumFunctionOnSet(waiting, {a \in Attachments : ConnOf[a] = c})

TypeOK ==
  /\ out \in Nat /\ status \in Nat /\ exit \in {"no", "flagged", "told", "quiet"}
  /\ subs \in SUBSET Attachments /\ gapped \in SUBSET subs
  /\ pipe \in [Attachments -> Seq(Notification)]
  /\ taken \in [Attachments -> Nat]
  /\ pump \in [Attachments -> PumpStates]
  /\ fence \in [Attachments -> {"none", "wait", "late"}]
  /\ asks \in [Attachments -> Nat] /\ answer \in [Attachments -> Nat]
  /\ shown \in [Attachments -> Nat] /\ fails \in [Attachments -> Nat]
  /\ hole \in [Attachments -> BOOLEAN] /\ twice \in [Attachments -> BOOLEAN]
  /\ stale \in [Attachments -> BOOLEAN] /\ astray \in [Attachments -> {"no", "mixed", "late"}]

Init ==
  /\ out = 0 /\ status = 0 /\ exit = "no" /\ subs = {} /\ gapped = {}
  /\ pipe = [a \in Attachments |-> <<>>] /\ taken = [a \in Attachments |-> 0]
  /\ pump = [a \in Attachments |-> IF a \in Spawners THEN "spawning" ELSE "off"]
  /\ fence = [a \in Attachments |-> "none"]
  /\ asks = [a \in Attachments |-> 0] /\ answer = [a \in Attachments |-> 0]
  /\ shown = [a \in Attachments |-> 0] /\ fails = [a \in Attachments |-> 0]
  /\ hole = [a \in Attachments |-> FALSE] /\ twice = [a \in Attachments |-> FALSE]
  /\ stale = [a \in Attachments |-> FALSE] /\ astray = [a \in Attachments |-> "no"]

-----------------------------------------------------------------------------
(* The daemon: fan-out, attach, replay, detach.                            *)

\* What fan_out wants to queue for a: a pending gap is announced first.
Wanted(a) == IF a \in gapped THEN 2 ELSE 1

\* Mutant: the notice of a gap comes after the output that follows it.
QueuedLate(a, count, note) ==
  CASE count = 0 -> <<>>
    [] count = 1 -> <<note>>
    [] OTHER     -> <<note, Note("gap")>>

\* The notifications queued for a when `count` of the wanted ones fit.
Queued(a, count, note) ==
  CASE count = 0 -> <<>>
    [] count = 1 -> IF a \in gapped THEN <<Note("gap")>> ELSE <<note>>
    [] OTHER     -> <<Note("gap"), note>>

\* fan_out: every subscriber gets what fits in its connection's queue, and
\* whoever was short is marked gapped.  A subscriber is short only if the
\* queue was found full (the pump may empty it between two subscribers, so
\* which ones are short is not fixed by their order).
FanOut(note) ==
  \E fit \in [subs -> 0..2] :
    /\ \A a \in subs :
         LET c == ConnOf[a]
             used == SumFunctionOnSet(fit, {b \in subs : ConnOf[b] = c})
         IN  /\ fit[a] <= Wanted(a)
             /\ used <= Room(c)
             /\ fit[a] < Wanted(a) => used = Room(c)
    /\ pipe' = [a \in Attachments |->
                 IF a \in subs THEN pipe[a] \o Queued(a, fit[a], note) ELSE pipe[a]]
    /\ gapped' = {a \in subs : fit[a] < Wanted(a)}

\* reader_loop's publish: log and fan out under the log's lock.
Publish ==
  /\ exit = "no" /\ out < MaxOut
  /\ out' = out + 1
  /\ FanOut(Output(out + 1))
  /\ UNCHANGED <<status, exit, subs, taken, clientVars, historyVars>>

\* agent_status (and notify): live only, never in the log.
AgentStatus ==
  /\ status < MaxStatus
  /\ status' = status + 1
  /\ FanOut(Note("status"))
  /\ UNCHANGED <<out, exit, subs, taken, clientVars, historyVars>>

\* The end of reader_loop: the flag first, then the Exit fan-out, unless a
\* daemon restart ended the child.
FlagExit ==
  /\ exit = "no"
  /\ exit' \in {"flagged", "quiet"}
  /\ UNCHANGED <<out, status, subs, gapped, wireVars, clientVars, historyVars>>

\* Mutant: Exit is sent past a pending gap.
FanExitAtOnce ==
  /\ exit = "flagged"
  /\ exit' = "told"
  /\ pipe' = [a \in Attachments |->
       IF a \in subs /\ Room(ConnOf[a]) > 0 THEN Append(pipe[a], Note("exit")) ELSE pipe[a]]
  /\ UNCHANGED <<out, status, subs, gapped, taken, clientVars, historyVars>>

FanExit ==
  /\ exit = "flagged"
  /\ exit' = "told"
  /\ FanOut(Note("exit"))
  /\ UNCHANGED <<out, status, subs, taken, clientVars, historyVars>>

\* registry.attach: snapshot and subscribe in one step; an Exit that already
\* happened is queued for the newcomer if there is room, and lost otherwise.
Subscribe(a) ==
  /\ subs' = subs \cup {a}
  /\ pipe' = [pipe EXCEPT ![a] =
       IF exit # "no" /\ Room(ConnOf[a]) > 0 THEN Append(@, Note("exit")) ELSE @]
  /\ UNCHANGED <<out, status, exit, gapped, taken>>

\* An Attach the client gave up on is handled all the same.
HandleAttach(a) ==
  /\ pump[a] \in {"asking", "gaveup"}
  /\ Subscribe(a)
  /\ answer' = [answer EXCEPT ![a] = out]
  /\ pump' = [pump EXCEPT ![a] = IF @ = "asking" THEN "granted" ELSE "ended"]
  /\ UNCHANGED <<fence, asks, shown, fails, historyVars>>

\* Spawn's auto-attach: the replay is discarded.
HandleSpawn(a) ==
  /\ pump[a] = "spawning"
  /\ Subscribe(a)
  /\ pump' = [pump EXCEPT ![a] = "spawned"]
  /\ UNCHANGED <<fence, asks, answer, shown, fails, historyVars>>

\* Mutant: a fence that finds the queue full is lost without a trace.
FencePeersUnnoticed(peers) ==
  \E fit \in SUBSET peers :
    /\ \A a \in peers : LET room == Room(ConnOf[a]) IN
         /\ Cardinality(fit) <= room
         /\ a \notin fit => Cardinality(fit) = room
    /\ pipe' = [a \in Attachments |->
                 IF a \in fit THEN Append(pipe[a], Note("fence")) ELSE pipe[a]]
    /\ UNCHANGED gapped

\* Queue an empty Output for every subscriber of the connection; one that
\* finds the queue full is gapped instead.
FencePeers(peers) ==
  \E fit \in SUBSET peers :
    /\ \A a \in peers : LET room == Room(ConnOf[a]) IN
         /\ Cardinality(fit) <= room
         /\ a \notin fit => Cardinality(fit) = room
    /\ pipe' = [a \in Attachments |->
                 IF a \in fit THEN Append(pipe[a], Note("fence")) ELSE pipe[a]]
    /\ gapped' = gapped \cup (peers \ fit)

\* A fence that a's last snapshot does not belong to is in a's queue.
Stray(a) == IF astray[a] = "no" THEN "mixed" ELSE astray[a]

\* registry.replay: snapshot and fence in one step.  The fence goes to every
\* subscriber of the connection.  Requests of one attachment are handled in
\* order, so a waiting client waits for the last one outstanding; one it gave
\* up on answers nobody.
HandleReplay(a) ==
  LET peers == {b \in subs : ConnOf[b] = ConnOf[a]}
      awaited == pump[a] = "resync" /\ asks[a] = 1
      fenced(b) == \E i \in DOMAIN pipe[b] : pipe[b][i].k = "fence"
  IN  /\ asks[a] > 0
      /\ asks' = [asks EXCEPT ![a] = @ - 1]
      /\ FencePeers(peers)
      /\ IF awaited
         THEN /\ answer' = [answer EXCEPT ![a] = out]
              /\ pump' = [pump EXCEPT ![a] = "answered"]
         ELSE UNCHANGED <<answer, pump>>
      /\ astray' = [b \in Attachments |->
           IF b = a /\ awaited THEN IF fenced(a) THEN "mixed" ELSE "no"
           ELSE IF b \in peers THEN Stray(b) ELSE astray[b]]
      /\ UNCHANGED <<out, status, exit, subs, taken, fence, shown, fails,
                     hole, twice, stale>>

\* Mutant: the subscriber goes, its gap stays on the books.
DetachKeepsGap(a) ==
  /\ pump[a] = "ended" /\ a \in subs
  /\ subs' = subs \ {a}
  /\ UNCHANGED <<out, status, exit, gapped, wireVars, clientVars, historyVars>>

\* registry.detach, by request or at the end of the connection.
Detach(a) ==
  /\ pump[a] = "ended" /\ a \in subs
  /\ subs' = subs \ {a}
  /\ gapped' = gapped \ {a}
  /\ UNCHANGED <<out, status, exit, wireVars, clientVars, historyVars>>

-----------------------------------------------------------------------------
(* The wire and the client.                                                *)

\* One notification leaves the bounded queue.  A subscribed client holds it in
\* its unbounded inbox; nobody else does ("notification for unknown pty").
Deliver(a) ==
  /\ taken[a] < Len(pipe[a])
  /\ IF Subscribed(a)
     THEN taken' = [taken EXCEPT ![a] = @ + 1] /\ UNCHANGED pipe
     ELSE pipe' = [pipe EXCEPT ![a] = Tail(@)] /\ UNCHANGED taken
  /\ UNCHANGED <<daemonVars, clientVars, historyVars>>

\* The inbox of a subscription that ends goes with it.
Forget(a) ==
  /\ pipe' = [pipe EXCEPT ![a] = SubSeq(@, taken[a] + 1, Len(@))]
  /\ taken' = [taken EXCEPT ![a] = 0]

\* attach: subscribe, then ask; the pump starts when the answer is in.
SendAttach(a) ==
  /\ pump[a] = "off"
  /\ pump' = [pump EXCEPT ![a] = "asking"]
  /\ UNCHANGED <<daemonVars, wireVars, fence, asks, answer, shown, fails, historyVars>>

AttachOk(a) ==
  /\ pump[a] = "granted"
  /\ pump' = [pump EXCEPT ![a] = "live"]
  /\ shown' = [shown EXCEPT ![a] = answer[a]]
  /\ UNCHANGED <<daemonVars, wireVars, fence, asks, answer, fails, historyVars>>

\* spawn: the subscription is made only after the answer came back.
SpawnOk(a) ==
  /\ pump[a] = "spawned"
  /\ pump' = [pump EXCEPT ![a] = "live"]
  /\ UNCHANGED <<daemonVars, wireVars, fence, asks, answer, shown, fails, historyVars>>

\* The request failed or timed out; the daemon may still handle it.
AttachFails(a) ==
  /\ pump[a] \in {"asking", "granted"}
  /\ pump' = [pump EXCEPT ![a] = IF @ = "asking" THEN "gaveup" ELSE "ended"]
  /\ Forget(a)
  /\ UNCHANGED <<daemonVars, fence, asks, answer, shown, fails, historyVars>>

\* The pump's next notification, of one of these kinds, leaves its inbox.
Take(a, kinds) ==
  /\ pump[a] = "live" /\ taken[a] > 0
  /\ Head(pipe[a]).k \in kinds
  /\ pipe' = [pipe EXCEPT ![a] = Tail(@)]
  /\ taken' = [taken EXCEPT ![a] = @ - 1]
  /\ UNCHANGED daemonVars

\* Output (a status packet is output that draws nothing): dropped while a fence
\* is awaited, applied otherwise.  The first one after FENCE_TIMEOUT ends the wait.
PumpOutput(a) ==
  LET n == Head(pipe[a]).n
      draws == Head(pipe[a]).k = "out" /\ fence[a] # "wait"
  IN  /\ Take(a, {"out", "status"})
      /\ fence' = [fence EXCEPT ![a] = IF @ = "wait" THEN @ ELSE "none"]
      /\ shown' = [shown EXCEPT ![a] = IF draws /\ n > @ THEN n ELSE @]
      /\ hole' = [hole EXCEPT ![a] = @ \/ (draws /\ n > shown[a] + 1)]
      /\ twice' = [twice EXCEPT ![a] = @ \/ (draws /\ n <= shown[a])]
      /\ UNCHANGED <<pump, asks, answer, fails, stale, astray>>

\* Mutant: the fence is skipped like any empty output and the wait goes on.
PumpFenceSkipped(a) ==
  /\ Take(a, {"fence"})
  /\ UNCHANGED <<clientVars, historyVars>>

\* An empty Output ends the wait, whichever resync it was queued for.
PumpFence(a) ==
  /\ Take(a, {"fence"})
  /\ fence' = [fence EXCEPT ![a] = "none"]
  /\ UNCHANGED <<pump, asks, answer, shown, fails, historyVars>>

\* Mutant: the notice is logged and nothing done about it.
PumpGapInert(a) ==
  /\ Take(a, {"gap"})
  /\ UNCHANGED <<clientVars, historyVars>>

\* A gap notice: ask for the log again, and wait for the answer.
PumpGap(a) ==
  /\ Take(a, {"gap"})
  /\ pump' = [pump EXCEPT ![a] = "resync"]
  /\ asks' = [asks EXCEPT ![a] = @ + 1]
  /\ UNCHANGED <<fence, answer, shown, fails, historyVars>>

\* Exit ends the pump, and its inbox with it.
PumpExit(a) ==
  /\ pump[a] = "live" /\ taken[a] > 0 /\ Head(pipe[a]).k = "exit"
  /\ pump' = [pump EXCEPT ![a] = "exited"]
  /\ Forget(a)
  /\ UNCHANGED <<daemonVars, fence, asks, answer, shown, fails, historyVars>>

\* FENCE_TIMEOUT passes.
FenceExpires(a) ==
  /\ fence[a] = "wait"
  /\ fence' = [fence EXCEPT ![a] = "late"]
  /\ astray' = [astray EXCEPT ![a] = "late"]
  /\ UNCHANGED <<daemonVars, wireVars, pump, asks, answer, shown, fails,
                 hole, twice, stale>>

\* Mutant: the pump does not wait for the fence.
ReplayOkNoWait(a) ==
  /\ pump[a] = "answered"
  /\ pump' = [pump EXCEPT ![a] = "live"]
  /\ shown' = [shown EXCEPT ![a] = answer[a]]
  /\ hole' = [hole EXCEPT ![a] = FALSE] /\ twice' = [twice EXCEPT ![a] = FALSE]
  /\ stale' = [stale EXCEPT ![a] = FALSE]
  /\ UNCHANGED <<daemonVars, wireVars, fence, asks, answer, fails, astray>>

\* resync_after_gap: the screen is replaced by the snapshot.
ReplayOk(a) ==
  /\ pump[a] = "answered"
  /\ pump' = [pump EXCEPT ![a] = "live"]
  /\ shown' = [shown EXCEPT ![a] = answer[a]]
  /\ fence' = [fence EXCEPT ![a] = "wait"]
  /\ hole' = [hole EXCEPT ![a] = FALSE] /\ twice' = [twice EXCEPT ![a] = FALSE]
  /\ stale' = [stale EXCEPT ![a] = FALSE]
  /\ UNCHANGED <<daemonVars, wireVars, asks, answer, fails, astray>>

\* The request fails or times out, before or after the daemon handled it: the
\* screen stays as it was and the pump goes on.
ReplayFails(a) ==
  /\ pump[a] \in {"resync", "answered"} /\ fails[a] < MaxFails
  /\ pump' = [pump EXCEPT ![a] = "live"]
  /\ fails' = [fails EXCEPT ![a] = @ + 1]
  /\ stale' = [stale EXCEPT ![a] = TRUE]
  /\ astray' = [astray EXCEPT ![a] = IF pump[a] = "answered" THEN Stray(a) ELSE @]
  /\ UNCHANGED <<daemonVars, wireVars, fence, asks, answer, shown, hole, twice>>

\* close or detach on the client, or the connection goes: the pump is
\* superseded and the subscription dropped with what is in its inbox.
Leave(a) ==
  /\ pump[a] \in {"live", "resync", "answered", "exited"}
  /\ pump' = [pump EXCEPT ![a] = "ended"]
  /\ Forget(a)
  /\ UNCHANGED <<daemonVars, fence, asks, answer, shown, fails, historyVars>>

-----------------------------------------------------------------------------
Next ==
  \/ Publish \/ AgentStatus \/ FlagExit \/ FanExit
  \/ \E a \in Attachments :
       \/ SendAttach(a) \/ HandleAttach(a) \/ AttachOk(a) \/ AttachFails(a)
       \/ HandleSpawn(a) \/ SpawnOk(a)
       \/ Deliver(a) \/ PumpOutput(a) \/ PumpFence(a) \/ PumpGap(a) \/ PumpExit(a)
       \/ HandleReplay(a) \/ ReplayOk(a) \/ ReplayFails(a) \/ FenceExpires(a)
       \/ Leave(a) \/ Detach(a)

Spec == Init /\ [][Next]_vars

\* The daemon serves its requests and its queues, and the client's runtime runs
\* its pumps.  Nothing obliges the program to write, the child to exit, a
\* request to fail or anyone to leave.
Fairness ==
  \A a \in Attachments :
    /\ WF_vars(HandleAttach(a)) /\ WF_vars(AttachOk(a))
    /\ WF_vars(HandleSpawn(a)) /\ WF_vars(SpawnOk(a))
    /\ WF_vars(Deliver(a)) /\ WF_vars(HandleReplay(a)) /\ WF_vars(ReplayOk(a))
    /\ WF_vars(PumpOutput(a)) /\ WF_vars(PumpFence(a))
    /\ WF_vars(PumpGap(a)) /\ WF_vars(PumpExit(a))

FairSpec == Spec /\ Fairness
-----------------------------------------------------------------------------
(* Properties.                                                             *)

\* No screen has a hole the client was not told of: output is applied past a
\* missing chunk only while the last resync failed (the daemon's gap notice
\* comes before the output that follows a drop, and the snapshot covers it).
NoSilentHole ==
  \A a \in Attachments \ Spawners : hole[a] => stale[a]

\* Output already on the screen is applied again only when the fence of the
\* last resync was not the first to arrive, or did not arrive in time.
RepeatsOnlyAstray ==
  \A a \in Attachments \ Spawners : pump[a] = "live" /\ twice[a] => astray[a] # "no"

\* A live, subscribed client with an empty queue and no gap against its name
\* shows everything the child wrote, whatever was dropped on the way.
SettledMeansCurrent ==
  \A a \in subs \ Spawners :
    pump[a] = "live" /\ a \notin gapped /\ pipe[a] = <<>> /\ ~stale[a]
      => shown[a] = out

\* A pane that learnt of the exit shows the child's last output: the Exit
\* never overtakes output or the notice of a gap.
ExitShowsEverything ==
  \A a \in Attachments \ Spawners :
    pump[a] = "exited" /\ ~stale[a] => shown[a] = out

\* Every attach and every resync comes to an end, and a watched session that
\* falls quiet ends up shown in full by every client with no gap pending.
CaughtUp ==
  \A a \in Attachments \ Spawners :
    <>[](/\ pump[a] \notin {"asking", "granted", "resync", "answered"}
         /\ pump[a] = "live" /\ a \in subs /\ a \notin gapped /\ ~stale[a]
              => shown[a] = out)

\* What a client may assume of its screen, in the words of PtyMirror.
ScreenMode(a) ==
  CASE pump[a] \in {"off", "asking", "granted"} -> "absent"
    [] pump[a] \in {"resync", "answered"}       -> "recovering"
    [] pump[a] = "live"   -> IF stale[a] THEN "unsure" ELSE "exact"
    [] pump[a] = "exited" -> IF stale[a] THEN "closed" ELSE "final"
    [] OTHER              -> "closed"

Mirror ==
  INSTANCE PtyMirror WITH
    Watchers <- Attachments \ Spawners,
    over <- exit # "no",
    seen <- [a \in Attachments \ Spawners |-> shown[a]],
    mode <- [a \in Attachments \ Spawners |-> ScreenMode(a)]

\* The stream is a mirror: each screen follows the output chunk by chunk, jumps
\* only to a snapshot after it noticed a gap, and is complete when it is told
\* of the end, unless it knows itself to be stale.
IsMirror == Mirror!Spec

\* attach.rs:12-14 and the comment on registry.replay: output queued up to the
\* fence is in the replay, output after it is not, so nothing is applied twice
\* unless the fence fails to come in time.
NoDoubleApply ==
  \A a \in Attachments : pump[a] = "live" /\ twice[a] => astray[a] = "late"
=============================================================================
