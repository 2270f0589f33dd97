# A verification project for OxiMux

OxiMux is a desktop application for running coding agents in terminals. Its
terminals live in a daemon of their own, the *relay*, so that they survive the
application; the application, a second window and a paired phone attach to them
as clients. Agents in chats may start further agents as children, whose events
reach them through a durable outbox. This directory holds TLA+ modules for the
relay and its client, for the agents' lineage and outbox and for the sessions a
phone follows, TLC configurations that check them on small instances, and proofs
that TLAPS checks for every value of the constants.

All paths below are relative to the repository (`src/` in `PROJECT.json`).

## The system

| component | source | state | operations |
|---|---|---|---|
| relay output stream | `crates/relay/src/reader.rs` | replay log, subscribers with a `gapped` flag | publish, fan-out, exit |
| relay registry | `crates/relay/src/registry.rs` | `entries`, `closing`, attachments with sizes, `restarting`, `spawn_gate` | spawn, attach, replay, resize, detach, close, terminate_all, stop_if_idle, checkpoint_all |
| relay checkpoints | `crates/relay/src/checkpoint.rs` | a directory per session | open, write, remove, sweep |
| relay server loops | `crates/relay/src/server.rs` | accept loop, one dispatch loop per connection with its `owned` attachments | requests, teardown, shutdown, signal, ticks |
| relay client | `crates/relay-client/src/{client,attach,backend}.rs` | pending requests, subscriptions, a pump per pane | attach, spawn, resize, detach, close, resync |
| supervisor, restart from the app | `crates/relay-supervisor`, `apps/desktop/src/relay_lifecycle` | pid and version records, the app's view of the daemon | probe, spawn, retire, restart |
| send gate, outbox, receipts | `crates/agents/src/{send_gate,outbox,send_receipts}.rs`, `crates/remote-host/src/outbox_drainer.rs`, `apps/desktop/src/shell/agent_chat/send_gate_link.rs` | the table `agent_outbox`; the drainer's links and windows; the gate's queue and steered lines | push, claim, mark_*, release, take_over; rounds of the drainer; flush, steer, stop, receipts |
| lineage and session registry | `crates/agents/src/{lineage,session_registry}.rs`, `crates/remote-host/src/dispatcher/spawn.rs` | the tables `agent_lineage`, `agent_spawn_failures`; launch jobs; registered sessions | reserve, finalize, rollback, rekey, activate, park, mark_ended, boot_reconcile; spawn_agent, cancel_agent |
| chat view of an agent | `apps/desktop/src/shell/agent_chat/{mod,remote_link,lifecycle}.rs` | the thread, its turn, the session it is bound to | bind, unbind, rekey, send, stop, respawn, disconnect |
| remote sessions | `crates/remote-session/src` | subscriptions with sequence numbers | connect, reconnect, resume |
| remote host, pairing | `crates/remote-host`, `crates/remote-proto` | devices, requests | dispatch, authenticate |
| worktree operations | `crates/worktree-ops/src` | git's | create, rename, merge, roll back |
| auto update, single instance | `crates/auto-update/src`, `crates/single-instance/src` | staged bundle; lock and socket | swap; claim, forward |
| agents: status, retry, schedules | `crates/agents/src` | status per agent, retry and schedule tables | transitions |
| terminal emulation, UI | `crates/pty`, `apps/*` | grids, widgets | parse, draw |

**How the parts interact.** A client speaks to the daemon over one socket per
connection: requests with responses by id, and notifications (`Output`,
`Exit`, `Gapped`, `Attention`). All panes of a connection share one bounded
queue of notifications in the daemon; a pump per connection moves them to the
socket, a reader on the client routes them by attachment id to unbounded
inboxes, and a pump per pane applies them to the screen. Inside the daemon
every session has a reader thread that owns the child and publishes to the log
and the subscribers under the log's lock; request handlers of different
connections, the reader threads, the checkpoint passes (the tick, the flush of
the last client, the restart's, the final one) and the resend tasks run
concurrently and meet in a handful of locks and atomics.

**What is hard.** Output dropped at a full queue and what the client is told of
it; a snapshot taken while output is in flight; the fence that marks what a
snapshot covers when several are on their way; requests sent from independent
tasks; a vote that outlives its pane; a child that ends while it is being
checkpointed, closed or restarted; a SIGTERM while a restart is under way; a
wake-up of a loop that is not waiting.
In the outbox the write of a line, the report of it and the agent's receipts
reach the durable rows by different paths, while Stops, respawns, closed tabs
and restarts take the line's way back from under it. In the lineage a launch
takes longer than any lock is held: its slot may be reclaimed, its parent
cancelled, its session renamed or its host restarted before it is recorded.
`PROJECT.json` lists each of these under `hazards`, at its line.

**What makes each part correct.**
- Stream: a screen never silently differs from the log; a client that is settled is current; `Exit` is last.
- Sizes: the PTY runs at the smallest live request, and the kernel agrees.
- Lifecycle: no child outlives a restart that was not cut short, and whoever outlives the daemon can be found on disk; a restart keeps every session's checkpoint; a session that ended leaves none; a stop that was accepted happens.
- Outbox: an event is taken by the agent at most once, what it took is never owed again, every claim is held by somebody, and an event comes to an end, across restarts.
- Daemon link (planned): every request is answered or fails; after a loss no pane is believed live.
- Lineage: one request leads to one child; the caps hold over the tree as it is; a cancelled parent gets no child; a row names its child.

## Modules

    PtyMirror            what the relay promises a watcher
      RelayStream        log, fan-out, gaps, resync, fences       (implements PtyMirror)
        RelayStreamProofs  its theorems
        RelayMirrorProofs  the refinement, as a theorem
        MCRelayStream      its instances
    RelaySize            attachments, smallest size, resends
      RelaySizeProofs    its theorems
      MCRelaySize
    RelayLifecycle       spawn, end, close, checkpoints, shutdown
      RelayLifecycleProofs  its theorems
      MCRelayLifecycle
    Outbox               the table of events owed to a parent, as operators
      Delivery           what the outbox promises of each event
      EventDelivery      drainer, send gate, chat view, agent     (implements Delivery)
        EventDeliveryProofs  its theorems
        DeliveryProofs       the refinement, as a theorem
        MCEventDelivery
    Lineage              reservations, launches, sessions, cancels
      LineageProofs      its theorems
      MCLineage
    RemoteSession        a phone that follows a session: ring, snapshot, stream, fold
      RemoteSessionProofs  its theorems
      MCRemoteSession

The three relay modules describe one daemon from three sides and share no
variable: the stream does not depend on sizes, sizes not on whether the child
lives, and checkpoints only on how much was published. Each keeps the steps the
code takes under one lock as one action and splits everything that is not.

### RelayStream

One PTY, the attachments that watch it, and the connections they belong to.

- Chunk `n` is the n-th one published; the log ends at `out`, so a snapshot is a number and a screen (`shown`) is the last chunk on it. History variables record what went wrong on the way: a missing chunk was passed over (`hole`), one was applied twice (`twice`), the last resync failed (`stale`), a fence was not the one awaited or came too late (`astray`).
- `pipe[a]` holds the notifications sent to attachment `a` and not yet handled, in order. Its first `taken[a]` have left the daemon's bounded queue (they are in the socket or the client's inbox); the rest occupy slots of the queue their connection shares (`Room`).
- `FanOut` is `fan_out`: a pending gap is announced before anything else; what does not fit raises `gapped`. The pump may empty the queue between two subscribers, so the action allows any split in which a subscriber is short only when the queue was full.
- `HandleAttach`, `HandleSpawn`, `HandleReplay`, `Detach` are the request handlers; `SendAttach` to `ReplayFails` the client. `FenceExpires` is `FENCE_TIMEOUT`, which may run out at any time. A response and the notifications around it travel independently, as in the code.
- Left out: how a replay is made from the ring (it always ends at `out`; its capacity only cuts scrollback), the generation guard of reconnects, daemons without fences, `Attention` (treated as a status packet).

### RelaySize

The votes of one PTY. `sent` is a set: the client sends `Resize` and `Detach`
from independent tasks of a multi-threaded runtime, so they reach the daemon in
any order. A connection's handler serves one request at a time (`doing`), and
`attach`, `resize` and `detach` are split where the code releases a lock
(`registry.rs:475-481`, `840-848`). A size is one number, for columns and rows
are treated alike. The resize system call is taken to succeed. A resend task is
assumed not to dwell between its check and its resize for as long as a delay
takes (40 ms): without that, `KernelSettles` fails, as the code comment at
`registry.rs:878-880` does not say.

An attach that the client gives up on (`GiveUp`, after 10 s) is served all the
same: its attachment votes for the size it found until its connection ends, which
is as much as the code promises, and `LostPanesDoNotVote` says that the end does
withdraw it.

The daemon spawns a task per connection, so two handlers may overlap. Three history
variables tell when they get in each other's way: `latest` is the connection that
holds the newest reading of the votes and has not applied it; `raced` rises when an
older reading is applied after it, or when `attach` votes for a size it read before
another handler changed it, and falls when a newest reading is applied; `crossed`
is up while the resends armed last are for a size that was replaced before they
were armed. `SettledSize` and `KernelSettles` hold outside these cases.

### RelayLifecycle

The sessions of a daemon from spawn to end, with what is on disk. `sess` is
where the registry has a session, step by step: `forking` to `opened` under the
spawn gate, `moving` between its removal from `entries` and its insertion into
`closing`. A chunk is first counted and then logged (`ReaderCounts`,
`ReaderLogs`); a pass reads the counter, then the log, writes, marks and checks
(`PassPick` to `PassCheck`). The end of a child is seen, flagged and cleared in
three steps, since a restart may begin between any two. The accept loop is
`parked` or `busy`, which is what distinguishes `notify_one` from
`notify_waiters`. `Crash` may hit anywhere.

`Signal` is the one signal that the handler waits for (`signalled`). It may come
whatever is under way: before a stop, at any stage of a restart (the supervisor
sends one when a restart takes more than 7 s, `stop.rs:96-102`), or while the
loop is busy, when it is lost. The loop it finds parked leaves at once and does
not wait for `terminate_all`, so `FinalPass` may overtake any step of the restart
and the process ends between two of them. `cause` is what sent the loop away
(`asked` is `notify_one`, `signal` is `notify_waiters`) or `crash`, and `stop`
how far the restart was by then. A restart may also be asked for when the loop
has left already, and be too late for everything.

Left out: a spawn that fails after the fork, restored history (`prefill`), the
boot-time sweep of old checkpoints, a second `Close` of a closing session, a
second `Shutdown` of either kind while one is under way, the supervisor's sweep
itself, the idle GC (it needs the number of connections), errors of the file
system.

### Outbox and EventDelivery

`Outbox` is `outbox.rs`, one operator per statement of the store, on a table
value: a row has a state, the key of the batch it was claimed in, its attempts,
and whether it rests until `next_attempt_at`. A batch key is the set of ids and
attempts that the code hashes (`batch_key`), so two keys are equal exactly when
the code's are.

`EventDelivery` puts the table between its five users, for one parent:

- *The drainer* (`outbox_drainer.rs`): a round is `Handle` or `Tick` (both end with `unlink_gone`), then `LinkInFlight`, `Drain` or `Settle`. `drain` is split at the push (`HandOver`), where the gate it looked up may be that of a closed tab (`hand.gone`). `Lapse` is ACCEPT_WITHIN, which may pass at any time.
- *The gate* (`send_gate.rs`): its queue of batches and the steered lines the agent has not started on. The holds that only put a send off are the time an action may take.
- *The view* (`send_gate_link.rs` and neighbours): one action per callback of the UI thread. A write and its report are one step.
- *The agent* (external): it starts on lines in its input in any order, ends turns, takes lines back when asked, exits. What it says reaches the view as `events`, in order.
- *The user and the host*: messages, Stops, closed tabs, respawns, cancels, restarts with `take_over`; each costs one of `MaxSpent`.

`inbox` is the drainer's message queue; a receipt enters it only if the drainer's
Link is for the session's present incarnation and the broadcast did not lag.
History: `heard` (the keys under which the agent started on a row), `written`
and `again` (keys written twice to one host instance), and two that name
exceptions: `blind` (rows put back although their line was out or could still
go out, which the code has no means to know) and `strayed` (claimed rows whose
Link was replaced by one for a newer incarnation, `outbox_drainer.rs:210`).

`Delivery` is the promise of `outbox.rs`'s opening comment without keys, gate,
windows and rounds: per event its `fate` (owed, offered, unsure, taken, failed),
`starts` (the names under which the agent started on it) and whether it is in
`doubt`. An event comes back only if it was not started on or is in doubt, is
taken only once started on ("consumed on acceptance, never on write"), never
leaves `unsure` but by late proof, and fails only under a parent that ended.
`FateOf` maps the row's state to its fate; `heard` and `blind` are the starts and
the doubt. `Delivery` is safety only, it states no fairness.

Left out: the user's and other agents' messages in the same gate but for one
turn of the user, `rearm`, send receipts of prompts, retries and recovery notes,
agents that report no receipts, a rekey of the parent.

### Lineage

The table `agent_lineage`, whose every transaction is an action, with the launch
jobs of `spawn.rs` and the sessions they open. Session 0 is the root, session
`i` the one launched for row `i`; it goes by a placeholder id until its provider
names it. A launch is `Reserve`, `Launch`, `Finalize`, `Deliver`, with anything in between: the
reservation reclaimed by a sweep (`late`) or a replay, the parent cancelled, the
session renamed (`Rekey`, and `RekeyAgain` behind the queued writes), closed, or
the host restarted. Which timeouts and graces have passed is left open, so the
model has every order of them. `work` is what `RegistryWorking` sees of a
session: a turn, or a prompt that waits in its gate.
History: `asked` (who asked for a row, whatever it is called now), `prompted`,
and the exceptions `revived` (rows active again by work of their own, which no
cap is asked for), `orphaned` (finalized under a placeholder the session had
lost already, `lineage.rs:531`; put right by the second rekey), `unknown`
(sessions that spawned before a row named them, and so passed for roots).

Left out: team and plan runs, roots the operator starts, request fingerprints (a
reused request id with other contents is refused before anything changes),
postures, owner and guest hosts.

### RemoteSession

One session of the desktop and one phone that follows it, for the life of one
`MobileClient`.

- *Numbers.* Events are numbered through, whatever handle they went into; `base` is where the present handle began, so the `seq` of event `n` is `n - base`. A closed and reopened session gets a new handle (`Unbind`, `Bind`), whose seqs start over. That is the hard case: a cursor means nothing without its handle, and the frames do not say which handle they are of.
- *The desktop* (`session_registry.rs`, `agent_chat/mod.rs`): the view ingests what it folds (`ViewIngests`), the host ingests what is relayed to the view later (`HostIngests`, `relay`, `ViewFolds`), and the throttled `Publish` puts up a snapshot with the seq of the moment, which `relay` may still be ahead of.
- *The host's end* (`stream.rs`, `handlers.rs`), the record `host`: a first subscribe takes the broadcast's receiver and then reads the backlog (`TakeReceiver`, `Answer`), with events in between; a second on the same connection gets the backlog alone; one that finds no handle waits for it (`Materialize`). `Forward` skips what the broadcast's ring has lost.
- *The connection* (`connect.rs`): `Connect`, `Resubscribe` to `Activate`, `Lose`. A newer link may be up while an older one's activation and frames are still being worked on, so `act`, `disp` and `wire` are kept per link.
- *The fold* (`subscription.rs`, `demux.rs`, `driver.rs`): `Fold` takes the frames that are there as one batch, `Backfill` to `Backfilled` fill a gap on whatever link is published by then.
- *Opening* (`mobile-core/src/subscription.rs`): `OpenFetch` to `OpenInsert`; the Sub exists at the end only.

A call is handled by the host in one step and answered in another, and the link
may go in between; a reply over the frame cap fails its call and leaves the link
up. History: `lacks` (what the snapshot a thread came from did not hold),
`mixed`, `late`, `missed` (the windows below), `refused`. A stream that a mixed
thread's cursor began is mixed itself, and what a mixed thread folded before it
was replaced has arrived in vain (`Vain`).

Left out: several sessions on a connection, the back-off, handshake, tokens,
scopes and revocation, older peers, a session that is given another id while it
is followed, an event frame over the cap (`demux.rs:170`), sharing turned off, the catalog (it always knows the session),
lists, terminals and history pages.

## Runs

| run | instance | shows |
|---|---|---|
| `RelayStream` | an attaching and a spawned pane on one connection, queue of 2, 3 chunks, 1 failing resync; 2.1 M states | `TypeOK`, `NoSilentHole`, `RepeatsOnlyAstray`, `ExitShowsEverything` |
| `RelayStreamOne` | one watcher, queue of 2, 6 chunks, 1 status packet, 1 failure; fair; 1 M states | `SettledMeansCurrent`, `CaughtUp`, and that the stream implements `PtyMirror` (`IsMirror`) |
| `RelaySize` | two panes on two connections, start size 2, requests of 0 and 3, two resizes by one and one by the other, one resend; fair; 2.8 M states | `SettledSize`, `KernelSettles`, `LostPanesDoNotVote`, `FollowsSmallest` |
| `RelayLifecycle` | one session, 1 chunk, a tick beside the restart's and the final pass; fair; 0.5 M states | `NoSurvivor`, `SurvivorsAreOnDisk`, `RestartKeepsSessions`, `EndLeavesNothing`, `RestartCompletes`, `CloseCompletes` |
| `EventDelivery` | one event, an agent that can be steered, 3 mishaps; fair; 0.8 M states | `AtMostOnce`, `NothingTakenIsOwed`, `ClaimIsHeld`, `SentIsWatched`, `NoKeyTwice`, `FateIsFinal`, `EveryEventEnds`, and that the parts together implement `Delivery` (`IsDelivery`) |
| `Lineage` | a root asking twice and two children asking once each, 3 rows, depth 2, caps of 1 and 2, one failed launch, cancel, close or restart; 3.9 M states | `ReservedIsLaunching`, `OneChildPerRequest`, `RowNamesItsChild`, `TreeWithinCaps`, `CancelledGetNoChild` |
| `RemoteSession` | a backlog of 2 and a broadcast ring of 1, 2 events, 2 handles, 2 links, the session opened twice; fair; 1.3 M states | `ThreadMatchesCursor`, `QuietMeansCurrent`, `CatchesUp` |
| `RelayStreamRepeat`, `RelaySizePhantom`, `RelayLifecycleGhost`, `LineageCancelled`, `RemoteSessionAged` | small | a statement of the repository that the code does not keep; see *Findings* |

**Bounds.** A queue of 2 is the smallest in which a gap notice and the output
after it can both fit, one of them or none, and 6 chunks let it overflow, be
announced and overflow again before the first resync is answered, the longest
pattern any property is about. Two attachments are needed for the shared queue
and for fences that go to a neighbour. In `RelaySize` a vote of 0 and one above
the start size reach both ends of the comparison, two connections every race of
handlers, and two resizes of a pane may be handled out of order. The code resends
twice; two resends (safety, 9.1 M states), two resizes each on one connection
(0.7 M), and three panes on two connections with one resize for two of them (4.6 M)
give the same result, and the safety properties are proved for any number of each. In
`RelayLifecycle` one chunk is enough for it to be counted and not logged, logged
and not saved, or saved as the child ends; that an older snapshot replaces a
newer one (`behind`) needs two, with which the safety properties were checked
apart (6.2 M states), as they were for two sessions without output or tick, up to
symmetry (0.4 M states); they are proved for any number of all three. In
`EventDelivery` three mishaps are the fewest that show the `Forgotten` gate below; two let one follow on another (a Stop and a restart, an
exit and a lost receipt). Two rows, of which one may become due while the other
is in flight, which changes a key, were checked apart with two mishaps for
safety (3.0 M states; `IsDelivery` without symmetry, 6.0 M) and with one for liveness (0.2 M states); the safety
properties are proved for any number of rows. `MaxSpent` counts what befalls
the chat, not what the drainer, view and agent do, which is unbounded: an event
may go back to pending any number of times by the mishaps it meets. In `Lineage` three
rows allow two children beside each other and a grandchild, and a replayed
request beside its late launch; caps of 1 and 2 are both met and refused. Two
rows with two mishaps, and children of two origins, pass as well. In
`RemoteSession` a ring of 1 is lapped by the second event, which the backlog
still has; two links let the frames and calls of one meet the activation of the
next, two opens a thread that is replaced, two handles a seq that starts over.
With three events and two handles but one open (1.5 M states) the same
properties hold; the inductive invariant of the proofs was checked apart with
three opens (4.3 M states), its property `QuietMeansCurrent` with three links (16.2 M states),
and the safety properties are proved for any number of each. A backlog of 1, which loses what the ring lost, is the subject of
`RemoteSessionAged`. Deadlock checking is off: the bounds stop every instance.

**Fairness.** Weak fairness of what the daemon's threads and tasks and the
client's runtime do by themselves: serving a request, moving a queue, applying a
notification, a pass's next step, the stages of a restart or a close, a resend.
Nobody is obliged to write output, ask for anything, fail, die, leave or crash,
and a timeout need not run out.
In `EventDelivery` the view, the drainer and the agent go on. The view's wakes are not
lost: `apply_event` always ends in `sync_composer`, which puts the holds to the
gate, and a gate that opens wakes the view. `select!` picks at random among
what is ready, so a message, or the end of a window, that is ready again and again is handled
(strong fairness of `Handle`, `Lapse`, and of the branches of a round that find
something due). The agent starts on its lines and ends its turns; it need not
take lines back or answer a Stop, and a steered line need not be written before
the turn ends: the property holds without. Children, user and faults owe nothing.
In `RemoteSession` the tasks of host and phone run: forwarding, a call once it is
made, the activation of a link, the dispatcher. Nobody has to produce an event,
publish, open or close the session, connect, or lose the link; `CatchesUp` speaks
of a link that stays up.

**The liveness of the stream** excepts one thing the code does not promise: a
gap is announced with the next notification, so a session that falls quiet with
a pending gap leaves the screen short (`registry.rs:20-26`).

## Findings

1. `NoDoubleApply` (`attach.rs:170`): a second resync's wait ends at the first resync's fence; output is applied twice.
2. `NoPhantomVote` (`registry.rs:570`): a `Resize` handled after the `Detach` of its pane leaves a vote for good.
3. `NoGhost` (`registry.rs:339`): a child that dies at once leaves a checkpoint and is restored at the next start.
4. `CancelledRests` (`spawn.rs:255`): a Stop that finds no turn does not hold the gate, so a child cancelled while its prompt waits there works on it afterwards.
5. `GapsHeal` (`crates/mobile-core/src/subscription.rs:137`): a backfill that leaves the gap, for the backlog has lost the events, is to be answered by a fresh snapshot, say `session_registry.rs:384-385`, `884-885` and `crates/remote-session/src/subscription.rs:30-36`. The dispatcher drops the result and waits for the next frame; the thread stays short of the session until the user opens it again.

**Known windows**, which the models contain and properties that hold otherwise except:

- `slipped`: a session is in neither `entries` nor `closing` while a restart looks (`registry.rs:634`).
- A restart cut short: a SIGTERM (or a crash) before the kills of `terminate_all` leaves the children to the hangup, and one that ignores it outlives the daemon, as `stop.rs:128-131` says; the supervisor then sweeps by the checkpoints on disk. `NoSurvivor` excepts it, `SurvivorsAreOnDisk` says that the sweep can find them, and `RestartKeepsSessions` that nothing is lost, save the last output of a session that ends meanwhile (a pass skips it, `registry.rs:749`) and what no pass had saved at a crash.
- A child between its fork and its checkpoint (`registry.rs:213-339`) when the daemon goes: if it ignores the hangup, no sweep finds it.
- `behind`: an older snapshot replaces a newer one (`server.rs:176`).
- `raced`: `apply_effective_size` reads the votes under one lock and applies the minimum under others (`registry.rs:839-869`), so the older minimum of two connections may be applied last; and `attach` votes for a size read before (`475-481`). Nothing corrects it before the next resize or detach, although the comment at `833-837` says that concurrent resizes converge on the true minimum.
- `crossed`: the sequence number of a change is taken after the locks are dropped (`871`), so of two connections the one that changed the size first may arm its resends last: the other's are superseded, and the kernel is driven back to a size that is no longer in effect, while the daemon takes it for current and compares with it.
- The pane that spawned a session misses what the child writes before the auto-attach (`server.rs:715`, whose replay is discarded) or before the client subscribed (`backend.rs:441`), although the comment at `server.rs:710-712` says the replay holds at most the prefill.
- A chunk counted before it is logged can be marked as saved without being saved, and later passes skip it (`registry.rs:753`, `reader.rs:208-221`).
- `blind`: a line is written, its report not handled, and the session goes or the host dies: its rows are sent again. `outbox_drainer.rs:163-173` and `outbox.rs:275-288` cannot tell; only after a restart does the CLI see the same key.
- A line taken back by a Stop after its window lapsed stays `unconfirmed`: nobody resends it, though nobody took it (`outbox_drainer.rs:99`, `outbox.rs:197`).
- `strayed`: a Link replaced while rows are claimed leaves them claimed until the session goes or the host restarts.
- `Forgotten`: the reply to a Stop notes a line as steered again after its receipt came in, and no turn is left whose end would start the timer that gives it up: the gate stays closed (`send_gate_link.rs:243-246`). Narrow, for the reply comes within 500 ms.
- `unknown`, `orphaned`, `revived`: see *Lineage* above.
- `Replaced`: a handle was replaced and a cursor, a stream or an old link's frame of the former one met the new, or a stream began at the cursor of a thread that had: frames carry no incarnation, so a cursor beyond the new seqs ignores them until they pass it.
- `missed`, `late`: events that arrive between a subscribe and the registration of its Sub are dropped; the next frame shows the gap, and a literal last event waits for it (`crates/mobile-core/src/subscription.rs:19-21` says so). The same holds of a backlog that begins too late or whose reply is too large, and of a thread registered after a newer link resubscribed.
- `lacks`: a snapshot published while an event is on its way to the view has that event's seq but not the event, and a thread opened from it never shows it.

## Proofs

`RelayStreamProofs` proves for any set of attachments, any assignment to
connections, any queue capacity and any bounds, from `ConstantsAssumption` only:

- `TypeCorrect`: `Spec => []TypeOK`.
- `InvHolds`: `Spec => []Inv`, the inductive invariant.
- `HolesAreKnown`, `RepeatsAreAstray`, `SettledIsCurrent`, `ExitIsLast`: the four safety properties of the runs.

*The argument.* The properties speak of a screen; what makes them true is what
is still on the way to it. `Inv` says of every watcher that was not spawned here,
that its queue *follows* its screen: read from the screen's last chunk (while a
fence is awaited, from the fence on; while an answer is awaited, from the
answer) the chunks in the queue are consecutive up to the next gap notice, an
`Exit` is preceded by everything, and unless the watcher is gapped the queue
ends at `out`. `Published`, `Phases`, `Follows` and `Unmixed` are its parts. It
is proved once per kind of step: the lemma `Steps` sorts every action by what it
does to one watcher (nothing, something appended, a head taken, a snapshot
answered, ...), and one lemma per kind shows that the watcher's part of `Inv`
survives. The properties then follow from `Inv` alone.

The spawned attachment is excepted from the proofs and from most runs because
its stream has a hole from the start (*Known windows*).

`RelayMirrorProofs` proves `StreamIsMirror`, `Spec => IsMirror`: the stream
implements `PtyMirror` for the same constants, with no limit on the queue or on
what is dropped. `IsMirror` is a safety property: `PtyMirror` states no fairness.

*The argument.* `Inv` with `Blank` (before its first answer a screen is blank
and not stale) is enough. Steps are sorted by what the mirror can see of them:
the daemon's own change no screen, `Waiting`, `Hidden` and `Spawning` steps of a
client are stutters, and a `Visible` one changes its own screen only
(`OthersAreStill`). `ScreenStep` says what it may do: `Phases` bounds what
output may draw on an exact screen (the next chunk, or nothing) and makes
a screen complete when its client hears of the end; `Published` keeps an
answer from being behind the screen it replaces.

`EventDeliveryProofs` proves, from `DeliveryAssumption` only, for any finite set
of events, with or without steering, and any number of mishaps:

- `TypeCorrect`, and `Invariance`: `Spec => []Inv`.
- `StartedOnce`, `TakenIsNotOwed`, `ClaimsAreHeld`, `SentRowsAreWatched`, `KeysAreWrittenOnce`, `FateStays`: every safety property of the run.

*The argument.* At-most-once delivery is a matter of keys. `Keyed` and `Dated`
say that a key stands for its rows at one attempt and that whatever key is about
(in the gate, in hand, in a report, or written since the host started) names
attempts that are past or current; so a batch's key is a new one (`FreshKey`).
`Apart`: a key is in one place, and not in the gate once it was written.
`OnTheWay`: what the agent, the view or an event speaks of was written.
`Lines`: a line not started on is still that of its rows. `Settling`: when a
report is on its way that will return a line's rows, the line can no longer be
started on. `HeardOnce`, which the properties follow from, survives because a row
returns only for one of the reasons in `Reason`, and in each of them nothing was
heard of it (`ReturnsUnheard`). `StepKinds` sorts the 24 actions into seven kinds,
and each part of `Inv` is shown to survive each kind. `ClaimIsHeld` has an
invariant of its own (`Held`, `HandGone`) beside it. All of it leaves out the
rows in `blind`, or in `strayed`: these are the cases the code cannot tell.

`DeliveryProofs` proves the same components, for the same constants, to
implement `Delivery`:

- `TakenWasStarted`: `Spec => []Proven`.
- `OutboxDelivers`: `Spec => IsDelivery`.
- `PromiseIsKept`: `IsDelivery => []Promise!Kept`, what a child may rely on, from the abstract specification alone.

*The argument.* `Inv` keeps an event from coming back once it was started on, but
says nothing of the other direction, that what is taken was started on. `Proven`
adds it: a receipt on its way, in the view or in `inbox`, the turn, and the rows
already accepted speak only of lines the agent started on. Then each row of a
step is looked at alone (`EventDelivers`): either it falls into doubt
(`DoubtSteps`), or the agent starts on it (`BeginDelivers`, where `Lines` says it is
still under the key of its row), or its state moves, and `RowSteps` sorts what any
action does to a row into eight moves, each a promise of `Delivery` or a
stutter. That a row which comes back was not started on is `HeardOnce` of the
state after the step.

`LineageProofs` proves, from `LineageAssumption` only, for any table size, caps,
depth, askers and number of mishaps:

- `TypeCorrect`, and `Invariance`: `Spec => []Inv`.
- `SlotsAreLaunches`, `RequestsGetOneChild`, `RowsFollowTheirChildren`, `CapsHold`, `CancelledStayChildless`: every safety property of the run.

*The argument.* `Launches` ties a row's state to its launch job, so that a slot
cannot outlive its launch. `Named` says which names are in use and that no two
rows share one; `Kin` says whose child a row is whatever its parent is called now,
which is what makes counting by id count the right children; `Unique` that a
request has one row that could still be prompted; `Placed` and `OneTree` where
the tree puts a row. `Caps` then survives because `reserve` counts the very rows
the property counts. `Kinds` sorts the actions by what they do to the table: tidy
it (states move, nothing else), reserve, finalize, rekey.

`RelaySizeProofs` proves, from `SizeAssumption` only, for any panes on any
connections, any sizes they ask for, and any number of resends and requests:

- `TypeCorrect`, and `Invariance`: `Spec => []Inv`.
- `SizeSettles`, `KernelAgrees`, `VotesAreWithdrawn`: every safety property of the run.
- `OneClientNeverRaces`: with all panes on one connection neither `raced` nor `crossed` ever rises, and both properties hold without exception.

*The argument.* `Newest` says that between a change of the votes and the size it
leads to a handler is about to measure, or the newest reading is in a handler's
hands and is the minimum of the votes, or the size is that minimum; a newcomer keeps
this because its vote is its first (`Fresh`) and the minimum of the votes with it is
the smaller of the two (`NewVote`). `Armed` says that the resends with the current
number bring the size in effect, and that one of them is still to come if the kernel
has another size or an old one is about to be set. `Listed` ties votes to the list
the end of a connection goes through: a resize of a pane that did not detach can
only be under way if the pane is on it. That a set of votes has a least one is
taken from the library's `WFMin`.

`RelayLifecycleProofs` proves, from `LifecycleAssumption` only, for any set of
sessions, any passes beside the restart's and the final one, and any output:

- `TypeCorrect`, and `Invariance`: `Spec => []Inv`.
- `NobodySurvives`, `SurvivorsAreFound`, `SessionsAreKept`, `EndsLeaveNothing`: every safety property of the run.

*The argument.* `Shapes`, `Stops` and `Stages` say what each pass has in hand, how
far the stop is and which passes run by then: a wake-up left at the accept loop,
or a loop that left without a signal or a crash, means that the restart has
killed everybody. `Reached` then gives the first theorem: once the restart has
collected its victims, every living child is among them or slipped off both
lists. `OnDisk` gives the second: a checkpoint is only removed of a session whose
child is dead. `Undone` gives the last: what is on disk of a session that ended is in the
hands of a pass that has yet to check, and will remove it. For the third,
`Saved` says that a kept session's file holds what its mark promises unless it is
`behind`, and `Owed` that the restart's own pass still comes to everybody who is
promised one and has none. `Last` says the same of the final pass, for a restart
that a signal does not let get so far: whoever is owed something was on the list
when that pass began, so it is in the pass's hands until the process ends. `DiskSteps`, `PassSteps` and `StopSteps` sort the
actions by what they do to the disk, to a pass and to the stop.

`RemoteSessionProofs` proves, from `RemoteAssumption` only, for any backlog and
ring, any number of events, connections, handles and openings:

- `TypesHold`, and `Invariance`: `Spec => []IInv`.
- `ThreadsMatch`, `QuietThreads`: every safety property of the run.

*The argument.* It follows the last event. `Served`: a thread of the present
handle on a connection whose host was asked has the last event, or something
under way will bring it (`Coming`: an answer, a frame, a stream that is behind,
a backfill), or it is in `missed`. An opening folds a thread of its own, and
when that takes the place of the old one the debt passes to it: `CandServed` and
`CandLacks` say that it will be served too, or lacks nothing that the old one
has. `Unserved`: where the host was not asked, there is no thread or it came
late, and nobody is still resubscribing. `Hosts` and `Sent` keep a stream's
ring, cursor and frames in step, so
that what the ring lost is seen as a gap behind the cursor and not passed over.
`Threads` is `ThreadMatchesCursor` for every thread there is. A new handle owes
nobody anything at first (`NothingOwed`), which settles `Bind` and `Unbind`.

The fold is `FoldLeft` of the community modules, which chooses a recursive
function. `FoldExists` shows that there is one to choose and `FoldInvariant` that
a set closed under `Apply` keeps the thread that is folded. Both are inductions
over the length of the run, made without an induction theorem: `SetInduction`
takes a set of numbers instead of a predicate and follows from the library's
`WFMin`.

*What the proof found in the model.* `Served` could not be shown with the former
history variables, and a run with three openings showed why: a thread that had met
two handles dropped the last event, was replaced by one of the same seqs, and
nobody had noted it; or its cursor began a stream on the next link that passed
over the event. The windows are the code's, and are now on record as
`Replaced` and `missed` above; the run's bounds were one opening too small to meet them.

Only model-checked: all liveness (out of the prover's reach).

## Plan

In this order:

1. *Done*: `PtyMirror`, `RelayStream` and its proofs, `RelaySize`, `RelayLifecycle`.
2. *Done*: `Outbox`, `EventDelivery`, `Lineage`, `RemoteSession`.
3. `RelayLink`: the client's pending requests, timeouts and the loss of the daemon, with the supervisor's probing, retiring and restarting by two app processes; composed with an abstract daemon taken from `RelayLifecycle`.
4. `RemoteSession` with several sessions on a connection, back-off and revocation; the stream as a refinement of a mirror promise like `PtyMirror`.
5. `EventDelivery` with a second parent that is itself a child, composed with `Lineage`: the events of a tree while it is cancelled.
6. Proofs. *Done*: `RelayStream` with its refinement of `PtyMirror`, `RelaySize`, `RelayLifecycle`, `EventDelivery` with its refinement of `Delivery`, `Lineage`, `RemoteSession`. Left: the mirror promise of 4.

Not planned: parsing, drawing, cryptography, git and the file system, whose
correctness is not one of ordering.
