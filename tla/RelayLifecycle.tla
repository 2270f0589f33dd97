--------------------------- MODULE RelayLifecycle ---------------------------
(***************************************************************************)
(* The sessions of the relay daemon from spawn to end, their checkpoints   *)
(* on disk, and the ways the daemon itself stops.                          *)
(*                                                                         *)
(* crates/relay/src/registry.rs (spawn, close, terminate_all,              *)
(* stop_if_idle, checkpoint_all), reader.rs (the end of reader_loop),      *)
(* checkpoint.rs (what is on disk), server.rs (run_server, the two kinds   *)
(* of Shutdown, the signal handler).                                       *)
(*                                                                         *)
(* A checkpoint is abstracted to how many chunks of output it holds.       *)
(***************************************************************************)
EXTENDS Naturals, FiniteSets, Functions

CONSTANTS
  Sessions,  \* pty ids, each spawned at most once
  Passes,    \* checkpoint passes that may run at once: the tick, a flush
  Restart,   \* the pass of terminate_all
  Final,     \* the pass run_server ends with
  MaxOut     \* bound: chunks of output per session

ASSUME LifecycleAssumption ==
  /\ IsFiniteSet(Sessions) /\ IsFiniteSet(Passes) /\ MaxOut \in Nat
  /\ Restart \notin Passes /\ Final \notin Passes /\ Restart # Final

VARIABLES
  sess,        \* where the registry has the session
  child,       \* its process: "none", "alive", "dead"
  reader,      \* its reader thread
  byRestart,   \* sessions whose reader found that a restart ended them
  counted,     \* Entry::bytes_out: chunks the reader has counted
  out,         \* chunks in the replay log
  mark,        \* Entry::checkpointed_bytes_out
  disk,        \* the checkpoints: chunks held, per session that has one
  pass,        \* the checkpoint passes under way
  restarting,  \* the registry's flag
  stop,        \* how far the shutdown is
  signalled,   \* the signal handler has had its one signal
  cause,       \* what sends the accept loop away
  loop,        \* the accept loop: "parked", "busy", "left"; "gone" with the process
  permit,      \* shutdown.notify_one found nobody parked
  slipped,     \* history: sessions on no list when the live ones were looked up
  promised,    \* history: chunks logged when the flag went up, by whom a pass to come will find
  behind,      \* history: sessions a pass left behind on disk: an older snapshot over a
               \* newer one, or a snapshot without chunks that were counted
  late         \* history: sessions whose checkpoint was opened after their end

sessVars == <<sess, child, reader, byRestart, counted, out>>
diskVars == <<mark, disk, pass>>
stopVars == <<restarting, stop, signalled, cause, loop, permit>>
historyVars == <<slipped, promised, behind, late>>
vars == <<sessVars, diskVars, stopVars, historyVars>>

AllPasses == Passes \cup {Restart, Final}
Off == [at |-> "off"]
Stage(step, todo, s, seen, held) ==
  [at |-> step, todo |-> todo, s |-> s, seen |-> seen, held |-> held]
PassStates == {Off}
  \cup [at : {"pick", "snap", "write", "mark", "check"}, todo : SUBSET Sessions,
        s : SUBSET Sessions, seen : 0..MaxOut, held : 0..MaxOut]

TypeOK ==
  /\ sess \in [Sessions -> {"none", "refused", "forking", "forked", "opened", "listed",
                            "moving", "closing", "killed", "closed"}]
  /\ child \in [Sessions -> {"none", "alive", "dead"}]
  /\ reader \in [Sessions -> {"none", "live", "draining", "clearing", "done"}]
  /\ byRestart \in SUBSET Sessions
  /\ counted \in [Sessions -> 0..MaxOut] /\ \A s \in Sessions : counted[s] \in {out[s], out[s] + 1}
  /\ out \in [Sessions -> 0..MaxOut] /\ mark \in [Sessions -> 0..MaxOut]
  /\ DOMAIN disk \in SUBSET Sessions /\ \A s \in DOMAIN disk : disk[s] \in 0..out[s]
  /\ pass \in [AllPasses -> PassStates]
  /\ restarting \in BOOLEAN /\ permit \in BOOLEAN /\ signalled \in BOOLEAN
  /\ stop \in {"none", "marking", "passing", "collected", "killed", "notified"}
  /\ cause \in {"none", "asked", "signal", "crash"}
  /\ loop \in {"parked", "busy", "left", "gone"}
  /\ slipped \in SUBSET Sessions /\ behind \in SUBSET Sessions /\ late \in SUBSET Sessions
  /\ DOMAIN promised \in SUBSET Sessions /\ \A s \in DOMAIN promised : promised[s] \in 0..out[s]

Init ==
  /\ sess = [s \in Sessions |-> "none"] /\ child = [s \in Sessions |-> "none"]
  /\ reader = [s \in Sessions |-> "none"] /\ byRestart = {}
  /\ counted = [s \in Sessions |-> 0] /\ out = [s \in Sessions |-> 0]
  /\ mark = [s \in Sessions |-> 0]
  /\ disk = [s \in {} |-> 0] /\ pass = [p \in AllPasses |-> Off]
  /\ restarting = FALSE /\ stop = "none" /\ signalled = FALSE /\ cause = "none"
  /\ loop = "parked" /\ permit = FALSE
  /\ slipped = {} /\ behind = {} /\ late = {}
  /\ promised = [s \in {} |-> 0]

Running == loop # "gone"
Exited(s) == reader[s] \in {"clearing", "done"}   \* Entry::child_exited
Listed == {s \in Sessions : sess[s] = "listed"}
Closing == {s \in Sessions : sess[s] \in {"closing", "killed"}}

\* A spawn holds spawn_gate from its check to the insert.
GateFree == \A s \in Sessions : sess[s] \notin {"forking", "forked", "opened"}

Enter(s, from, to) == sess[s] = from /\ sess' = [sess EXCEPT ![s] = to]
Write(s, n) == disk' = [x \in DOMAIN disk \cup {s} |-> IF x = s THEN n ELSE disk[x]]
Remove(s) == disk' = Restrict(disk, DOMAIN disk \ {s})

-----------------------------------------------------------------------------
(* Spawn.                                                                  *)

\* Mutant: the flag is not looked at.
SpawnUnchecked(s) ==
  /\ Running /\ sess[s] = "none"
  /\ sess' = [sess EXCEPT ![s] = "forking"]
  /\ UNCHANGED <<child, reader, byRestart, counted, out, diskVars, stopVars, historyVars>>

SpawnCheck(s) ==
  /\ Running /\ sess[s] = "none"
  /\ sess' = [sess EXCEPT ![s] = IF restarting THEN "refused" ELSE "forking"]
  /\ UNCHANGED <<child, reader, byRestart, counted, out, diskVars, stopVars, historyVars>>

\* The child runs, and its reader thread with it.
SpawnFork(s) ==
  /\ Running /\ Enter(s, "forking", "forked")
  /\ child' = [child EXCEPT ![s] = "alive"]
  /\ reader' = [reader EXCEPT ![s] = "live"]
  /\ UNCHANGED <<byRestart, counted, out, diskVars, stopVars, historyVars>>

SpawnOpen(s) ==
  /\ Running /\ Enter(s, "forked", "opened")
  /\ Write(s, 0)
  /\ late' = IF reader[s] = "done" THEN late \cup {s} ELSE late
  /\ UNCHANGED <<child, reader, byRestart, counted, out, mark, pass, stopVars,
                 slipped, promised, behind>>

SpawnInsert(s) ==
  /\ Running /\ Enter(s, "opened", "listed")
  /\ UNCHANGED <<child, reader, byRestart, counted, out, diskVars, stopVars, historyVars>>

-----------------------------------------------------------------------------
(* The child and its reader.                                               *)

\* publish: the reader counts a chunk ...
ReaderCounts(s) ==
  /\ Running /\ reader[s] \in {"live", "draining"}
  /\ counted[s] = out[s] /\ counted[s] < MaxOut
  /\ counted' = [counted EXCEPT ![s] = @ + 1]
  /\ UNCHANGED <<sess, child, reader, byRestart, out, diskVars, stopVars, historyVars>>

\* ... and then puts it in the log.
ReaderLogs(s) ==
  /\ Running /\ counted[s] > out[s]
  /\ out' = [out EXCEPT ![s] = @ + 1]
  /\ UNCHANGED <<sess, child, reader, byRestart, counted, diskVars, stopVars, historyVars>>

\* By itself, or of a signal that it honours.
ChildDies(s) ==
  /\ child[s] = "alive"
  /\ child' = [child EXCEPT ![s] = "dead"]
  /\ UNCHANGED <<sess, reader, byRestart, counted, out, diskVars, stopVars, historyVars>>

\* The end is first seen: whose doing it is is settled here, before the drain.
ReaderSeesEnd(s) ==
  /\ Running /\ child[s] = "dead" /\ reader[s] = "live" /\ counted[s] = out[s]
  /\ reader' = [reader EXCEPT ![s] = "draining"]
  /\ byRestart' = IF restarting THEN byRestart \cup {s} ELSE byRestart
  /\ UNCHANGED <<sess, child, counted, out, diskVars, stopVars, historyVars>>

\* child_exited goes up; a restart keeps the checkpoint.
ReaderFlagsExit(s) ==
  /\ Running /\ reader[s] = "draining" /\ counted[s] = out[s]
  /\ reader' = [reader EXCEPT ![s] = IF s \in byRestart THEN "done" ELSE "clearing"]
  /\ UNCHANGED <<sess, child, byRestart, counted, out, diskVars, stopVars, historyVars>>

ReaderClears(s) ==
  /\ Running /\ reader[s] = "clearing"
  /\ reader' = [reader EXCEPT ![s] = "done"]
  /\ Remove(s)
  /\ UNCHANGED <<sess, child, byRestart, counted, out, mark, pass, stopVars, historyVars>>

-----------------------------------------------------------------------------
(* Close.                                                                  *)

\* begin_close: out of `entries`, ...
CloseBegin(s) ==
  /\ Running /\ Enter(s, "listed", "moving")
  /\ UNCHANGED <<child, reader, byRestart, counted, out, diskVars, stopVars, historyVars>>

\* Mutant: the checkpoint goes when the close begins.
CloseMovedRemoves(s) ==
  /\ Running /\ Enter(s, "moving", "closing")
  /\ Remove(s)
  /\ UNCHANGED <<child, reader, byRestart, counted, out, mark, pass, stopVars, historyVars>>

\* ... into `closing`, and SIGTERM.
CloseMoved(s) ==
  /\ Running /\ Enter(s, "moving", "closing")
  /\ UNCHANGED <<child, reader, byRestart, counted, out, diskVars, stopVars, historyVars>>

\* Mutant: the end of the child is waited for, not brought about.
CloseWaits(s) ==
  /\ Running /\ Exited(s) /\ Enter(s, "closing", "killed")
  /\ UNCHANGED <<child, reader, byRestart, counted, out, diskVars, stopVars, historyVars>>

\* Closing::finish: whoever outlives the grace is killed, ...
CloseEscalates(s) ==
  /\ Running /\ Enter(s, "closing", "killed")
  /\ child' = [child EXCEPT ![s] = "dead"]
  /\ UNCHANGED <<reader, byRestart, counted, out, diskVars, stopVars, historyVars>>

\* ... and leaves nothing to restore.
CloseFinish(s) ==
  /\ Running /\ Enter(s, "killed", "closed")
  /\ Remove(s)
  /\ UNCHANGED <<child, reader, byRestart, counted, out, mark, pass, stopVars, historyVars>>

-----------------------------------------------------------------------------
(* checkpoint_all.                                                         *)

PassBegins(p) == pass' = [pass EXCEPT ![p] = Stage("pick", Listed, {}, 0, 0)]

PassStart(p) ==
  /\ Running /\ p \in Passes /\ pass[p] = Off
  /\ PassBegins(p)
  /\ UNCHANGED <<sessVars, mark, disk, stopVars, historyVars>>

\* Ended sessions are skipped, and those whose counter has not moved.
PassPick(p) ==
  /\ Running /\ pass[p].at = "pick"
  /\ \E s \in pass[p].todo :
       LET rest == pass[p].todo \ {s} IN
       pass' = [pass EXCEPT ![p] = IF Exited(s) \/ counted[s] = mark[s]
                                   THEN Stage("pick", rest, {}, 0, 0)
                                   ELSE Stage("snap", rest, {s}, counted[s], 0)]
  /\ UNCHANGED <<sessVars, mark, disk, stopVars, historyVars>>

\* Mutant: the counter is taken for the length of the log.
PassSnapCounted(p) ==
  /\ Running /\ pass[p].at = "snap"
  /\ pass' = [pass EXCEPT ![p].at = "write", ![p].held = pass[p].seen]
  /\ UNCHANGED <<sessVars, mark, disk, stopVars, historyVars>>

\* The log is read after the counter.
PassSnap(p) ==
  /\ Running /\ pass[p].at = "snap"
  /\ \E s \in pass[p].s :
       pass' = [pass EXCEPT ![p].at = "write", ![p].held = out[s]]
  /\ UNCHANGED <<sessVars, mark, disk, stopVars, historyVars>>

\* write_scrollback creates the directory if it is not there.
PassWrite(p) ==
  /\ Running /\ pass[p].at = "write"
  /\ \E s \in pass[p].s :
       /\ Write(s, pass[p].held)
       /\ behind' = IF \/ pass[p].held < pass[p].seen
                       \/ s \in DOMAIN disk /\ pass[p].held < disk[s]
                    THEN behind \cup {s} ELSE behind
  /\ pass' = [pass EXCEPT ![p].at = "mark"]
  /\ UNCHANGED <<sessVars, mark, stopVars, slipped, promised, late>>

PassMark(p) ==
  /\ Running /\ pass[p].at = "mark"
  /\ \E s \in pass[p].s : mark' = [mark EXCEPT ![s] = pass[p].seen]
  /\ pass' = [pass EXCEPT ![p].at = "check"]
  /\ UNCHANGED <<sessVars, disk, stopVars, historyVars>>

PassGoesOn(p) == pass' = [pass EXCEPT ![p] = Stage("pick", @.todo, {}, 0, 0)]

\* Mutant: a session that ended while it was written keeps what was written.
PassCheckNot(p) ==
  /\ Running /\ pass[p].at = "check"
  /\ PassGoesOn(p)
  /\ UNCHANGED <<sessVars, mark, disk, stopVars, historyVars>>

\* Mutant: the restart is forgotten here.
PassCheckAlways(p) ==
  /\ Running /\ pass[p].at = "check"
  /\ \E s \in pass[p].s : IF Exited(s) THEN Remove(s) ELSE UNCHANGED disk
  /\ PassGoesOn(p)
  /\ UNCHANGED <<sessVars, mark, stopVars, historyVars>>

\* Ended mid-write: undo.
PassCheck(p) ==
  /\ Running /\ pass[p].at = "check"
  /\ \E s \in pass[p].s : IF Exited(s) /\ ~restarting THEN Remove(s) ELSE UNCHANGED disk
  /\ PassGoesOn(p)
  /\ UNCHANGED <<sessVars, mark, stopVars, historyVars>>

PassDone(p) == pass[p].at = "pick" /\ pass[p].todo = {}

PassEnd(p) ==
  /\ Running /\ p \in Passes /\ PassDone(p)
  /\ pass' = [pass EXCEPT ![p] = Off]
  /\ UNCHANGED <<sessVars, mark, disk, stopVars, historyVars>>

-----------------------------------------------------------------------------
(* The daemon stops.                                                       *)

\* Mutant: the wake-up is lost on an accept loop that is not parked.
WakeParked == loop' = (IF loop = "parked" THEN "left" ELSE loop) /\ UNCHANGED permit

\* shutdown.notify_one: a loop that is not parked finds the permit.
Wake == loop' = (IF loop = "parked" THEN "left" ELSE loop) /\ permit' = (loop = "busy")

\* What the loop will leave for, if nothing has sent it off before.
Sent(why) == cause' = IF loop = "left" THEN cause ELSE why

\* shutdown.notify_waiters: no permit.
WakeWaiters == loop' = (IF loop = "parked" THEN "left" ELSE loop) /\ UNCHANGED permit

\* The accept loop turns to a connection, and back to its select.
Accept ==
  /\ loop = "parked"
  /\ loop' = "busy"
  /\ UNCHANGED <<sessVars, diskVars, restarting, stop, signalled, cause, permit, historyVars>>

Rearm ==
  /\ loop = "busy"
  /\ loop' = IF permit THEN "left" ELSE "parked"
  /\ permit' = FALSE
  /\ UNCHANGED <<sessVars, diskVars, restarting, stop, signalled, cause, historyVars>>

\* Shutdown{kill_sessions}: the flag, then terminate_all in this order.  A
\* daemon on its way out takes the request as well, and may be too far for it.
RestartRequest ==
  /\ Running /\ stop = "none" /\ ~restarting
  /\ restarting' = TRUE /\ stop' = "marking"
  /\ promised' = IF pass[Final] = Off THEN out ELSE promised
  /\ UNCHANGED <<sessVars, diskVars, signalled, cause, loop, permit, slipped, behind, late>>

RestartGate ==
  /\ Running /\ stop = "marking" /\ GateFree
  /\ stop' = "passing"
  /\ PassBegins(Restart)
  /\ UNCHANGED <<sessVars, mark, disk, restarting, signalled, cause, loop, permit, historyVars>>

\* Who is to be ended: everyone listed or closing who has not ended.
RestartCollect ==
  /\ Running /\ stop = "passing" /\ PassDone(Restart)
  /\ stop' = "collected"
  /\ LET victims == {s \in Listed \cup Closing : ~Exited(s)} IN
       /\ pass' = [pass EXCEPT ![Restart] = Stage("pick", {}, victims, 0, 0)]
       /\ promised' = Restrict(promised, victims \cap DOMAIN promised)
  /\ slipped' = slipped \cup {s \in Sessions : sess[s] = "moving"}
  /\ UNCHANGED <<sessVars, mark, disk, restarting, signalled, cause, loop, permit,
                 behind, late>>

\* SIGTERM, the grace, SIGHUP, and SIGKILL for whoever is left.
RestartKill ==
  /\ Running /\ stop = "collected"
  /\ stop' = "killed"
  /\ child' = [s \in Sessions |-> IF s \in pass[Restart].s THEN "dead" ELSE child[s]]
  /\ pass' = [pass EXCEPT ![Restart] = Off]
  /\ UNCHANGED <<sess, reader, byRestart, counted, out, mark, disk, restarting, signalled, cause,
                 loop, permit, historyVars>>

RestartNotify ==
  /\ Running /\ stop = "killed"
  /\ stop' = "notified"
  /\ Wake /\ Sent("asked")
  /\ UNCHANGED <<sessVars, diskVars, restarting, signalled, historyVars>>

\* Mutant: the sessions being closed are not counted.
StopUnlessListed ==
  /\ Running /\ stop = "none" /\ ~restarting /\ GateFree /\ Listed = {}
  /\ restarting' = TRUE /\ stop' = "notified"
  /\ slipped' = slipped \cup {s \in Sessions : sess[s] = "moving"}
  /\ Wake /\ Sent("asked")
  /\ UNCHANGED <<sessVars, diskVars, signalled, promised, behind, late>>

\* Shutdown without kill_sessions: stop_if_idle.
StopIfIdle ==
  /\ Running /\ stop = "none" /\ ~restarting /\ GateFree /\ Listed \cup Closing = {}
  /\ restarting' = TRUE /\ stop' = "notified"
  /\ slipped' = slipped \cup {s \in Sessions : sess[s] = "moving"}
  /\ Wake /\ Sent("asked")
  /\ UNCHANGED <<sessVars, diskVars, signalled, promised, behind, late>>

\* SIGTERM to the daemon, whatever is under way; the supervisor sends one when
\* a restart takes too long.  The accept loop does not wait for terminate_all,
\* so a restart may be cut short and its sessions be left to the hangup.
Signal ==
  /\ Running /\ ~signalled
  /\ signalled' = TRUE
  /\ cause' = IF loop = "parked" THEN "signal" ELSE cause
  /\ WakeWaiters
  /\ UNCHANGED <<sessVars, diskVars, restarting, stop, historyVars>>

\* Sessions not on the list yet are none of this pass's.
FinalPass ==
  /\ loop = "left" /\ pass[Final] = Off
  /\ PassBegins(Final)
  /\ promised' = IF stop = "marking" THEN Restrict(promised, Listed \cap DOMAIN promised)
                 ELSE promised
  /\ UNCHANGED <<sessVars, mark, disk, stopVars, slipped, behind, late>>

\* The process ends, and every thread and task in it.
DaemonExits ==
  /\ loop = "left" /\ PassDone(Final)
  /\ loop' = "gone"
  /\ pass' = [p \in AllPasses |-> Off]
  /\ UNCHANGED <<sessVars, mark, disk, restarting, stop, signalled, cause, permit, historyVars>>

Crash ==
  /\ Running
  /\ loop' = "gone" /\ cause' = "crash"
  /\ pass' = [p \in AllPasses |-> Off]
  /\ UNCHANGED <<sessVars, mark, disk, restarting, stop, signalled, permit, historyVars>>

-----------------------------------------------------------------------------
SessionStep(s) ==
  \/ SpawnCheck(s) \/ SpawnFork(s) \/ SpawnOpen(s) \/ SpawnInsert(s)
  \/ ReaderCounts(s) \/ ReaderLogs(s) \/ ChildDies(s)
  \/ ReaderSeesEnd(s) \/ ReaderFlagsExit(s) \/ ReaderClears(s)
  \/ CloseBegin(s) \/ CloseMoved(s) \/ CloseEscalates(s) \/ CloseFinish(s)

PassStep(p) ==
  \/ PassStart(p) \/ PassPick(p) \/ PassSnap(p)
  \/ PassWrite(p) \/ PassMark(p) \/ PassCheck(p) \/ PassEnd(p)

StopStep ==
  \/ Accept \/ Rearm
  \/ RestartRequest \/ RestartGate \/ RestartCollect \/ RestartKill \/ RestartNotify
  \/ StopIfIdle \/ Signal \/ FinalPass \/ DaemonExits \/ Crash

Next ==
  \/ \E s \in Sessions : SessionStep(s)
  \/ \E p \in AllPasses : PassStep(p)
  \/ StopStep

Spec == Init /\ [][Next]_vars

\* The daemon's threads and tasks run.  Nobody has to spawn, write, die, close,
\* tick, connect or stop the daemon.
Fairness ==
  /\ \A s \in Sessions :
       /\ WF_vars(SpawnFork(s)) /\ WF_vars(SpawnOpen(s)) /\ WF_vars(SpawnInsert(s))
       /\ WF_vars(ReaderSeesEnd(s)) /\ WF_vars(ReaderFlagsExit(s)) /\ WF_vars(ReaderClears(s))
       /\ WF_vars(ReaderLogs(s))
       /\ WF_vars(CloseMoved(s)) /\ WF_vars(CloseEscalates(s)) /\ WF_vars(CloseFinish(s))
  /\ \A p \in AllPasses :
       /\ WF_vars(PassPick(p)) /\ WF_vars(PassSnap(p)) /\ WF_vars(PassWrite(p))
       /\ WF_vars(PassMark(p))
       /\ WF_vars(PassCheck(p)) /\ WF_vars(PassEnd(p))
  /\ WF_vars(Rearm) /\ WF_vars(RestartGate) /\ WF_vars(RestartCollect)
  /\ WF_vars(RestartKill) /\ WF_vars(RestartNotify)
  /\ WF_vars(FinalPass) /\ WF_vars(DaemonExits)

FairSpec == Spec /\ Fairness
-----------------------------------------------------------------------------
(* Properties.                                                             *)

\* The restart has not yet looked up, or not yet killed, whom it is to end.
Unsaved == stop \in {"marking", "passing"}
Unkilled == Unsaved \/ stop = "collected"

\* A restart or an idle stop leaves no child behind that the app would start
\* a second time: none but one a close had off both lists at that moment, and
\* those of a restart that a signal or a crash cut short before its kills
\* (registry.rs:680-694, 668-670; relay-supervisor/src/stop.rs:96-102).
NoSurvivor ==
  loop = "gone" /\ restarting =>
    \/ Unkilled /\ cause \in {"signal", "crash"}
    \/ \A s \in Sessions : child[s] = "alive" => s \in slipped

\* Whoever outlives the daemon, however it ends, is on disk, where the
\* supervisor's sweep finds it: all but a child that has been forked and has no
\* checkpoint yet (stop.rs:128-131, survivors.rs:3-9, registry.rs:332-337).
SurvivorsAreOnDisk ==
  loop = "gone" =>
    \A s \in Sessions : child[s] = "alive" => s \in DOMAIN disk \/ sess[s] = "forked"

\* A restart loses no session and no output: whoever is listed and was not
\* seen to end before keeps a checkpoint, and it holds at least what was logged
\* when the flag went up, unless a pass left the session behind.  When a signal
\* cuts the restart short the final pass sees to it, but for those that ended
\* meanwhile; when a crash does, only the checkpoint is sure
\* (registry.rs:172-176, 683-686, server.rs:195-202).
RestartKeepsSessions ==
  loop = "gone" /\ restarting =>
    \A s \in Listed : s \in byRestart \/ reader[s] = "live" =>
      /\ s \in DOMAIN disk
      /\ s \in DOMAIN promised \ behind /\ (Unsaved => cause # "crash" /\ ~Exited(s))
           => disk[s] >= promised[s]

\* In a daemon that is not restarting a session that ended by itself leaves no
\* checkpoint, though a pass may have been writing it at that moment
\* (reader.rs:287-289, registry.rs:705-706, 729-731).
EndLeavesNothing ==
  Running /\ ~restarting =>
    \A s \in Sessions \ late :
      reader[s] = "done" /\ (\A p \in AllPasses : pass[p] = Off \/ s \notin pass[p].s)
        => s \notin DOMAIN disk

\* A restart that was accepted comes to an end, with a spawn at the gate, with
\* sessions closing, and with an accept loop that is looking elsewhere.
RestartCompletes == (stop = "marking") ~> (loop = "gone")

\* A close that was accepted ends the session, or the daemon goes first.
CloseCompletes ==
  \A s \in Sessions : (sess[s] = "moving") ~> (sess[s] = "closed" \/ loop = "gone")

\* reader.rs:287-289 and checkpoint.rs:3-7: an exited shell never cold-restores;
\* whatever remains on disk is an unclean death.
NoGhost ==
  loop = "gone" =>
    \A s \in DOMAIN disk : ~(reader[s] = "done" /\ s \notin byRestart)
=============================================================================
