---------------------------- MODULE RemoteSession ----------------------------
(***************************************************************************)
(* A phone that follows a session of the desktop: the event ring and the   *)
(* transcript snapshot of the session's handle, the stream a connection    *)
(* forwards, and the phone's fold with its cursor, which survives lost     *)
(* links, missed events and handles that are replaced.                     *)
(*                                                                         *)
(* crates/agents/src/session_registry.rs; crates/remote-host/src/          *)
(* dispatcher/stream.rs, handlers.rs; crates/remote-session/src/           *)
(* subscription.rs, demux.rs, driver.rs; crates/mobile-core/src/           *)
(* subscription.rs, client/connect.rs; apps/desktop/src/shell/agent_chat/  *)
(* mod.rs, publish_throttle.rs, remote_link.rs.                            *)
(*                                                                         *)
(* One session and one phone, paired and allowed to read it, for the life  *)
(* of one client object.  Events are numbered through, whatever handle     *)
(* they went into: the seq of event n is n less the handle's base.  An RPC *)
(* is its handling by the host, and later what its caller makes of it;     *)
(* a call whose link is lost, or whose reply is too large, fails.          *)
(***************************************************************************)
EXTENDS Integers, Sequences, FiniteSets, SequencesExt

CONSTANTS
  Cap,       \* DEFAULT_BACKLOG_CAP
  Ring,      \* DEFAULT_BROADCAST_CAP
  MaxMade,   \* bound: events
  MaxLinks,  \* bound: connections of the phone
  MaxOpens,  \* bound: times the user opens the session on the phone
  MaxBinds   \* bound: handles of the session

ASSUME RemoteAssumption ==
  /\ Cap \in Nat \ {0} /\ Ring \in Nat \ {0}
  /\ MaxMade \in Nat /\ MaxLinks \in Nat /\ MaxOpens \in Nat /\ MaxBinds \in Nat \ {0}

VARIABLES
  made,    \* events ingested so far: the backlog's last is event `made`
  base,    \* events before the handle, or, without one, before the next
  reg,     \* the session has a handle in the registry
  binds,   \* handles so far
  relay,   \* events ingested by the host that the view has not folded
  snap,    \* the handle's TranscriptSnapshot
  due,     \* the view has a publish to make
  host,    \* the host's end of the connection that is up
  links,   \* connections so far: the epoch
  up,      \* the one that is up, or 0
  live,    \* Shared::session: the connection published, or 0
  act,     \* per connection, its activate
  disp,    \* per connection, its run_dispatcher
  wire,    \* per connection, frames sent and not folded yet
  sub,     \* the registered Sub
  open,    \* MobileClient::subscribe under way
  opens,   \* calls of it so far
  missed   \* history: events that reached the phone in vain: there was no Sub yet, or
           \* one of another handle, or mixed, or about to be replaced, they ended a
           \* backlog that began too late, or their reply was too large

hostVars == <<made, base, reg, binds, relay, snap, due>>
linkVars == <<host, links, up>>
phoneVars == <<live, act, disp, wire, sub, open, opens, missed>>
vars == <<hostVars, linkVars, phoneVars>>

Links == 1..MaxLinks

\* A frame is the event and the base it was numbered from.
Frame(n, b) == [n |-> n, base |-> b]
SeqNo(f) == f.n - f.base

NoSnap == [seq |-> 0, lacks |-> {}, none |-> TRUE]

\* History: `lacks`, what the snapshot it came from did not hold; `mixed`, it met
\* frames of another handle, or, of a stream, it began at another handle's seq;
\* `late`, a newer connection was past its start when it was registered.
NoSub == [cur |-> -1, base |-> 0, has |-> {}, lacks |-> {}, mixed |-> FALSE, late |-> FALSE]
SubAt(cur, has, lacks) ==
  [NoSub EXCEPT !.cur = cur, !.base = base, !.has = has, !.lacks = lacks]

NoConn == [st |-> "none", known |-> FALSE, cur |-> 0, base |-> 0, next |-> 0, gone |-> FALSE,
           last |-> 0, mixed |-> FALSE]

Step(at) == [at |-> at, after |-> 0, got |-> <<>>]
Idle == [at |-> "idle", from |-> 0, link |-> 0, got |-> <<>>]
Unopened == [at |-> "idle", link |-> 0, sub |-> NoSub, got |-> <<>>]

Init ==
  /\ made = 0 /\ base = 0 /\ reg = TRUE /\ binds = 1
  /\ relay = {} /\ snap = NoSnap /\ due = TRUE
  /\ host = NoConn /\ links = 0 /\ up = 0
  /\ live = 0
  /\ act = [l \in Links |-> Step("off")]
  /\ disp = [l \in Links |-> [Idle EXCEPT !.at = "off"]]
  /\ wire = [l \in Links |-> <<>>]
  /\ sub = NoSub /\ open = Unopened /\ opens = 0 /\ missed = {}

-----------------------------------------------------------------------------
(* The handle and the view behind it.                                      *)

\* ingest: the seq, the backlog and the broadcast under one lock
Ingest == reg /\ made < MaxMade /\ made' = made + 1

\* apply_batch: the view ingests what it folds; deltas alone publish nothing
ViewIngests ==
  /\ Ingest
  /\ due' \in {due, TRUE}
  /\ UNCHANGED <<base, reg, binds, relay, snap, linkVars, phoneVars>>

\* post_notice, an edited approval, a prompt written directly: ingested on the
\* thread of the call and left to the view to fold
HostIngests ==
  /\ Ingest
  /\ relay' = relay \cup {made'}
  /\ UNCHANGED <<base, reg, binds, snap, due, linkVars, phoneVars>>

ViewFolds ==
  /\ \E n \in relay : (\A m \in relay : n <= m) /\ relay' = relay \ {n}
  /\ UNCHANGED <<made, base, reg, binds, snap, due, linkVars, phoneVars>>

\* (Mutant: the seq the next event will have.)
PublishNextSeq ==
  /\ reg /\ due
  /\ snap' = [seq |-> made - base + 1, lacks |-> relay, none |-> FALSE]
  /\ due' = FALSE
  /\ UNCHANGED <<made, base, reg, binds, relay, linkVars, phoneVars>>

\* publish_transcript: the seq is read when the entries are serialized already
Publish ==
  /\ reg /\ due
  /\ snap' = [seq |-> made - base, lacks |-> relay, none |-> FALSE]
  /\ due' = FALSE
  /\ UNCHANGED <<made, base, reg, binds, relay, linkVars, phoneVars>>

\* unregister: who holds the receiver still gets what is in the ring
Unbind ==
  /\ reg
  /\ reg' = FALSE /\ snap' = NoSnap /\ due' = FALSE /\ base' = made
  /\ host' = IF host.st \in {"taken", "live"} /\ ~host.gone
             THEN [host EXCEPT !.gone = TRUE, !.last = made] ELSE host
  /\ UNCHANGED <<made, binds, relay, links, up, phoneVars>>

\* register under an id that has no handle: a new one, at seq 1.  (Under one
\* that has, the handle stays and only its process changes.)
Bind ==
  /\ ~reg /\ binds < MaxBinds
  /\ reg' = TRUE /\ binds' = binds + 1 /\ due' = TRUE
  /\ UNCHANGED <<made, base, relay, snap, linkVars, phoneVars>>

-----------------------------------------------------------------------------
(* The host's end of a connection.                                         *)

\* events_since on a handle with events b+1..e
Retained(b, e, after) ==
  LET lo == CHOOSE n \in {b + after, b, e - Cap} : \A m \in {b + after, b, e - Cap} : m <= n
  IN  [i \in 1..(IF e > lo THEN e - lo ELSE 0) |-> Frame(lo + i, b)]

End(h) == IF h.gone THEN h.last ELSE made

\* begin_subscribe, first on this connection: the receiver ...
TakeReceiver(s) ==
  /\ reg /\ host.st = "none" /\ ~host.known
  /\ host' = [host EXCEPT !.st = "taken", !.base = base, !.next = made + 1,
                          !.mixed = s.base # base \/ s.mixed]

\* ... and then the backlog and the cursor, ...
Answer(after, got) ==
  /\ host.st = "taken"
  /\ got = Retained(host.base, End(host), after)
  /\ host' = [host EXCEPT !.st = "live", !.known = TRUE,
                !.cur = IF got = <<>> THEN after ELSE SeqNo(Last(got))]

\* ... or, again on this connection, the backlog alone; or, without a handle,
\* begin_dormant_subscribe.
AnswerAtOnce(s, got) ==
  \/ /\ host.known
     /\ got = IF reg THEN Retained(base, made, s.cur) ELSE <<>>
     /\ UNCHANGED host
  \/ /\ ~reg /\ host.st = "none" /\ ~host.known
     /\ got = <<>>
     /\ host' = [host EXCEPT !.st = "waiting", !.known = TRUE, !.cur = s.cur,
                             !.mixed = s.base # base \/ s.mixed]

\* deferred_live_stream, once there is a handle
Materialize ==
  /\ up # 0 /\ host.st = "waiting" /\ reg
  /\ LET caught == Retained(base, made, host.cur)
     IN  /\ host' = [host EXCEPT !.st = "live", !.base = base, !.next = made + 1,
                       !.cur = IF caught = <<>> THEN @ ELSE SeqNo(Last(caught))]
         /\ wire' = [wire EXCEPT ![up] = @ \o caught]
  /\ UNCHANGED <<hostVars, links, up, live, act, disp, sub, open, opens, missed>>

\* live_stream and forward_live: what the ring has lost is skipped, what the
\* backlog held is not sent again
Forward ==
  /\ up # 0 /\ host.st = "live" /\ host.next <= End(host)
  /\ LET oldest == End(host) - Ring + 1
         n == IF host.next < oldest THEN oldest ELSE host.next
         f == Frame(n, host.base)
         new == SeqNo(f) > host.cur
     IN  /\ host' = [host EXCEPT !.next = n + 1, !.cur = IF new THEN SeqNo(f) ELSE @]
         /\ wire' = IF new THEN [wire EXCEPT ![up] = Append(@, f)] ELSE wire
  /\ UNCHANGED <<hostVars, links, up, live, act, disp, sub, open, opens, missed>>

-----------------------------------------------------------------------------
(* The fold.                                                               *)

\* (Mutant: a frame past a gap is folded.)
ApplyPastGap(s, f) ==
  IF SeqNo(f) > s.cur
    THEN [s EXCEPT !.cur = SeqNo(f), !.has = @ \cup {f.n}, !.mixed = @ \/ f.base # s.base]
    ELSE [s EXCEPT !.mixed = @ \/ f.base # s.base]

\* SessionSubscription::apply
Apply(s, f) ==
  CASE SeqNo(f) = s.cur + 1 ->
         [s EXCEPT !.cur = @ + 1, !.has = @ \cup {f.n}, !.mixed = @ \/ f.base # s.base]
    [] SeqNo(f) <= s.cur -> [s EXCEPT !.mixed = @ \/ f.base # s.base]
    [] OTHER -> s

After(s, frames) == FoldLeft(Apply, s, frames)

Gaps(s, frames) == frames # <<>> /\ SeqNo(Last(frames)) > After(s, frames).cur

\* There is no thread, or it goes by the seqs of another handle.
Vain(s, frames) == {f.n : f \in {g \in ToSet(frames) : s = NoSub \/ s.mixed \/ g.base # s.base}}

Refused(s, got) == IF Gaps(s, got) THEN {Last(got).n} ELSE {}

\* A reply of this backlog fails its call: the link is lost, or the frame is over
\* the cap, which leaves the connection up and the host as if it were received.
Unanswered(l, got) == up # l \/ got # <<>>

Lost(l, got) == IF up = l THEN {f.n : f \in ToSet(got)} ELSE {}

-----------------------------------------------------------------------------
(* The connection.                                                         *)

\* maintain_connection: the dial and the handshake succeed
Connect ==
  /\ up = 0 /\ links < MaxLinks
  /\ links' = links + 1 /\ up' = links + 1
  /\ host' = NoConn
  /\ act' = [act EXCEPT ![links + 1] = Step("start")]
  /\ UNCHANGED <<hostVars, live, disp, wire, sub, open, opens, missed>>

\* The link is lost, and the frames under way with it.
Lose ==
  /\ up # 0
  /\ up' = 0 /\ live' = 0 /\ host' = NoConn
  /\ \E k \in 0..Len(wire[up]) : wire' = [wire EXCEPT ![up] = SubSeq(@, 1, k)]
  /\ UNCHANGED <<hostVars, links, act, disp, sub, open, opens, missed>>

\* resubscribe_all: the ids, the cursor, the call
Resubscribe(l) ==
  /\ act[l].at = "start" /\ sub # NoSub /\ up = l
  /\ \/ /\ TakeReceiver(sub)
        /\ act' = [act EXCEPT ![l] = [at |-> "taken", after |-> sub.cur, got |-> <<>>]]
     \/ \E got \in {IF reg THEN Retained(base, made, sub.cur) ELSE <<>>} :
          /\ AnswerAtOnce(sub, got)
          /\ act' = [act EXCEPT ![l] = [at |-> "told", after |-> sub.cur, got |-> got]]
  /\ UNCHANGED <<hostVars, links, up, live, disp, wire, sub, open, opens, missed>>

ResubscribeAnswer(l) ==
  /\ act[l].at = "taken" /\ up = l
  /\ LET got == Retained(host.base, End(host), act[l].after)
     IN  /\ Answer(act[l].after, got)
         /\ act' = [act EXCEPT ![l] = [@ EXCEPT !.at = "told", !.got = got]]
  /\ UNCHANGED <<hostVars, links, up, live, disp, wire, sub, open, opens, missed>>

Resubscribed(l) ==
  /\ act[l].at = "told"
  /\ sub' = [After(sub, act[l].got) EXCEPT !.late = FALSE]
  /\ missed' = missed \cup Vain(sub, act[l].got) \cup Refused(sub, act[l].got)
  /\ act' = [act EXCEPT ![l] = Step("wired")]
  /\ UNCHANGED <<hostVars, linkVars, live, disp, wire, open, opens>>

\* Nothing to resubscribe, or the call fails.
Unsubscribed(l) ==
  /\ act[l].at \in {"start", "taken", "told"}
  /\ Unanswered(l, act[l].got) \/ (act[l].at = "start" /\ sub = NoSub)
  /\ act' = [act EXCEPT ![l] = Step("wired")]
  /\ missed' = missed \cup Lost(l, act[l].got)
  /\ UNCHANGED <<hostVars, linkVars, live, disp, wire, sub, open, opens>>

\* (Mutant: published, but nobody drains its events.)
ActivateUndrained(l) ==
  /\ act[l].at = "wired"
  /\ act' = [act EXCEPT ![l] = Step("done")]
  /\ IF l = links THEN live' = l /\ UNCHANGED wire
                  ELSE wire' = [wire EXCEPT ![l] = <<>>] /\ UNCHANGED live
  /\ UNCHANGED <<hostVars, linkVars, disp, sub, open, opens, missed>>

\* activate, the rest: published unless a newer connection is there
Activate(l) ==
  /\ act[l].at = "wired"
  /\ act' = [act EXCEPT ![l] = Step("done")]
  /\ IF l = links
       THEN live' = l /\ disp' = [disp EXCEPT ![l] = Idle] /\ UNCHANGED wire
       ELSE wire' = [wire EXCEPT ![l] = <<>>] /\ UNCHANGED <<live, disp>>
  /\ UNCHANGED <<hostVars, linkVars, sub, open, opens, missed>>

-----------------------------------------------------------------------------
(* run_dispatcher and backfill_gap.                                        *)

\* (Mutant: a gap is skipped, and filled by nobody.)
FoldSkipsGap(l) ==
  /\ disp[l].at \in {"idle", "refused"}
  /\ \E k \in 1..Len(wire[l]) :
       LET batch == SubSeq(wire[l], 1, k)
       IN  /\ wire' = [wire EXCEPT ![l] = SubSeq(@, k + 1, Len(@))]
           /\ sub' = IF sub = NoSub THEN sub ELSE After(sub, batch)
           /\ missed' = missed \cup Vain(sub, batch)
  /\ UNCHANGED <<hostVars, linkVars, live, act, disp, open, opens>>

\* The frames that are there are folded as one batch.
Fold(l) ==
  /\ disp[l].at \in {"idle", "refused"}
  /\ \E k \in 1..Len(wire[l]) :
       LET batch == SubSeq(wire[l], 1, k)
           known == sub # NoSub
       IN  /\ wire' = [wire EXCEPT ![l] = SubSeq(@, k + 1, Len(@))]
           /\ sub' = IF known THEN After(sub, batch) ELSE sub
           /\ disp' = IF known /\ Gaps(sub, batch)
                      THEN [disp EXCEPT ![l].at = "gap", ![l].from = sub'.cur] ELSE disp
           /\ missed' = missed \cup Vain(sub, batch)
  /\ UNCHANGED <<hostVars, linkVars, live, act, open, opens>>

\* events_since on the connection that is published
Backfill(l) ==
  /\ disp[l].at = "gap" /\ up # 0 /\ live = up /\ reg
  /\ disp' = [disp EXCEPT ![l] = [@ EXCEPT !.at = "told", !.link = up,
                                    !.got = Retained(base, made, disp[l].from)]]
  /\ UNCHANGED <<hostVars, linkVars, live, act, wire, sub, open, opens, missed>>

BackfillFails(l) ==
  /\ \/ disp[l].at = "gap" /\ (live = 0 \/ live # up \/ ~reg)
     \/ disp[l].at = "told" /\ Unanswered(disp[l].link, disp[l].got)
  /\ disp' = [disp EXCEPT ![l] = Idle]
  /\ missed' = missed \cup Lost(disp[l].link, disp[l].got)
  /\ UNCHANGED <<hostVars, linkVars, live, act, wire, sub, open, opens>>

\* (A backfill that leaves the gap: "refused" is history.)
Backfilled(l) ==
  /\ disp[l].at = "told"
  /\ sub' = After(sub, disp[l].got)
  /\ missed' = missed \cup Vain(sub, disp[l].got) \cup Refused(sub, disp[l].got)
  /\ disp' = [disp EXCEPT ![l] = IF Gaps(sub, disp[l].got) THEN [Idle EXCEPT !.at = "refused"] ELSE Idle]
  /\ UNCHANGED <<hostVars, linkVars, live, act, wire, open, opens>>

-----------------------------------------------------------------------------
(* MobileClient::subscribe.                                                *)

\* fetch_transcript: the snapshot, nothing before the first, the stored history
\* of a session without a handle; or the call alone fails, and the fold starts
\* empty.
Fetched ==
  {SubAt(0, {}, 1..base)} \cup
  {IF reg /\ snap.none THEN SubAt(0, {}, 1..base)
   ELSE IF reg THEN SubAt(snap.seq, (1..(base + snap.seq)) \ snap.lacks, snap.lacks)
   ELSE SubAt(0, (1..base) \ relay, relay)}

OpenFetch ==
  /\ open.at = "idle" /\ opens < MaxOpens
  /\ up # 0 /\ live = up
  /\ opens' = opens + 1
  /\ \E s \in Fetched : open' = [at |-> "fetched", link |-> up, sub |-> s, got |-> <<>>]
  /\ UNCHANGED <<hostVars, linkVars, live, act, disp, wire, sub, missed>>

OpenSubscribe ==
  /\ open.at = "fetched" /\ up = open.link
  /\ \/ TakeReceiver(open.sub) /\ open' = [open EXCEPT !.at = "taken"]
     \/ \E got \in {IF reg THEN Retained(base, made, open.sub.cur) ELSE <<>>} :
          /\ AnswerAtOnce(open.sub, got)
          /\ open' = [open EXCEPT !.at = "told", !.got = got]
  /\ UNCHANGED <<hostVars, links, up, live, act, disp, wire, sub, opens, missed>>

OpenAnswer ==
  /\ open.at = "taken" /\ up = open.link
  /\ LET got == Retained(host.base, End(host), open.sub.cur)
     IN  /\ Answer(open.sub.cur, got)
         /\ open' = [open EXCEPT !.at = "told", !.got = got]
  /\ UNCHANGED <<hostVars, links, up, live, act, disp, wire, sub, opens, missed>>

\* The backlog is folded and the Sub registered, in place of an older one.
OpenInsert ==
  /\ open.at = "told"
  /\ LET s == After(open.sub, open.got)
     IN  /\ sub' = [s EXCEPT !.late = \E l \in Links : l > open.link /\ act[l].at \notin {"off", "start"}]
         /\ missed' = missed \cup (sub.has \ s.has) \cup Refused(open.sub, open.got)
  /\ open' = Unopened
  /\ UNCHANGED <<hostVars, linkVars, live, act, disp, wire, opens>>

OpenFails ==
  /\ open.at # "idle" /\ Unanswered(open.link, open.got)
  /\ open' = Unopened
  /\ missed' = missed \cup Lost(open.link, open.got)
  /\ UNCHANGED <<hostVars, linkVars, live, act, disp, wire, sub, opens>>

-----------------------------------------------------------------------------
Desktop == ViewIngests \/ HostIngests \/ ViewFolds \/ Publish \/ Unbind \/ Bind

Connection == Materialize \/ Forward \/ Connect \/ Lose

Opening == OpenFetch \/ OpenSubscribe \/ OpenAnswer \/ OpenInsert \/ OpenFails

Activation(l) ==
  Resubscribe(l) \/ ResubscribeAnswer(l) \/ Resubscribed(l) \/ Unsubscribed(l) \/ Activate(l)

Dispatch(l) == Fold(l) \/ Backfill(l) \/ BackfillFails(l) \/ Backfilled(l)

Next ==
  \/ Desktop \/ Connection \/ Opening
  \/ \E l \in Links : Activation(l) \/ Dispatch(l)

Spec == Init /\ [][Next]_vars

\* The tasks of host and phone run.  Nobody has to make events, open the
\* session, close or bind it, connect or lose the link.
Fairness ==
  /\ WF_vars(Materialize \/ Forward)
  /\ WF_vars(OpenSubscribe \/ OpenAnswer \/ OpenInsert \/ OpenFails)
  /\ \A l \in Links : WF_vars(Activation(l)) /\ WF_vars(Dispatch(l))

FairSpec == Spec /\ Fairness

-----------------------------------------------------------------------------
(* What the phone may rely on.                                             *)

\* Every variable has its type.
TypeOK ==
  /\ made \in 0..MaxMade /\ base \in 0..made /\ reg \in BOOLEAN /\ binds \in 1..MaxBinds
  /\ relay \subseteq 1..made /\ due \in BOOLEAN
  /\ snap.seq \in 0..(made - base) /\ snap.lacks \subseteq 1..made
  /\ host.st \in {"none", "taken", "waiting", "live"} /\ host.next \in 0..(made + 1)
  /\ links \in 0..MaxLinks /\ up \in {0, links} /\ live \in 0..links
  /\ \A l \in Links : /\ act[l].at \in {"off", "start", "taken", "told", "wired", "done"}
                      /\ disp[l].at \in {"off", "idle", "gap", "told", "refused"}
                      /\ \A f \in ToSet(wire[l]) : f.n \in 1..made /\ f.base < f.n
  /\ sub.cur \in -1..MaxMade /\ sub.has \subseteq 1..made
  /\ open.at \in {"idle", "fetched", "taken", "told"} /\ opens \in 0..MaxOpens

\* The thread is what its cursor says: every event up to it and none beyond,
\* none of them folded twice, save what the snapshot it was opened from did not
\* hold, and as long as it only met frames of one handle.
ThreadMatchesCursor ==
  sub # NoSub /\ ~sub.mixed => sub.has = (1..(sub.base + sub.cur)) \ sub.lacks

Asleep(l) == disp[l].at \in {"off", "idle", "refused"} /\ wire[l] = <<>>

\* Nothing is under way between host and phone.
Quiet ==
  /\ up # 0 /\ reg /\ act[up].at = "done" /\ open.at = "idle"
  /\ \A l \in Links : Asleep(l)
  /\ host.st = "waiting" => FALSE
  /\ host.st = "live" => host.next > End(host)

Current == sub.base + sub.cur = made

\* The handle was replaced, and the thread or its stream goes by a seq of another.
Replaced == sub.base # base \/ sub.mixed \/ host.gone \/ host.mixed

\* Or the thread was registered after the newer connection resubscribed, or the
\* last event fell into the window before it was registered.
Excused == Replaced \/ sub.late \/ made \in missed

\* When nothing is under way, the phone shows every event of the session, save
\* for the windows of Excused: no order of sends, losses, reconnects and
\* backfills leaves it short of an event that nobody will bring.  Of the second
\* window crates/mobile-core/src/subscription.rs:19-21 says that the gap logic
\* recovers all but a literal last event.
QuietMeansCurrent == Quiet /\ sub # NoSub => Current \/ Excused

\* On a link that stays up every thread comes to that: the tasks of host and
\* phone wait for nothing that does not come (maintain_connection,
\* run_dispatcher, backfill_gap, forward_live).
CatchesUp == <>[](up # 0 /\ reg) => <>[](sub # NoSub => Current \/ Excused)

\* A backfill that leaves the same gap is answered by a fresh snapshot, or the
\* link goes: crates/remote-session/src/subscription.rs:30-36, "A driver must
\* treat an unchanged resume_from across an events_since round-trip as
\* unrecoverable history loss and reset the subscription from a fresh snapshot".
GapsHeal ==
  \A l \in Links :
    disp[l].at = "refused" ~> ~Gaps(sub, Retained(base, made, sub.cur)) \/ live # l \/ ~reg
=============================================================================
