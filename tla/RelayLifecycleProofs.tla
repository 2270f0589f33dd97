------------------------- MODULE RelayLifecycleProofs -------------------------
(***************************************************************************)
(* Theorems about RelayLifecycle, for any sessions, any passes beside the  *)
(* restart's and the final one, and any amount of output.                  *)
(***************************************************************************)
EXTENDS RelayLifecycle, TLAPS

Staged == [at : {"pick", "snap", "write", "mark", "check"}, todo : SUBSET Sessions,
           s : SUBSET Sessions, seen : 0..MaxOut, held : 0..MaxOut]
Working == {"snap", "write", "mark", "check"}
Unlisted == {"none", "refused", "forking", "forked", "opened"}

-----------------------------------------------------------------------------
(* The parts of the invariant.                                             *)

\* What a pass has in hand, and that what it will write has been logged.
ShapeOf(p) ==
  /\ pass[p].at \in Working => \E s \in Sessions : pass[p].s = {s}
  /\ pass[p].at = "pick" => pass[p].s = {} \/ (p = Restart /\ stop = "collected")
  /\ pass[p].at = "write" => \A s \in pass[p].s : pass[p].held <= out[s]
Shapes == \A p \in AllPasses : ShapeOf(p)

\* How far the stop is, and what has been seen to by then.
Stops ==
  /\ restarting <=> stop # "none"
  /\ permit => stop = "notified"
  /\ loop = "left" => stop = "notified" \/ cause = "signal"
  /\ loop = "gone" => stop = "notified" \/ cause \in {"signal", "crash"}
  /\ cause = "crash" => loop = "gone"
  /\ stop \notin {"none", "marking"} => GateFree
  /\ stop = "none" => DOMAIN promised = {}

\* Where the passes are, given that.
Stages ==
  /\ loop = "gone" => \A p \in AllPasses : pass[p].at = "off"
  /\ Running /\ stop = "passing" => pass[Restart].at # "off"
  /\ Running /\ stop = "collected" => pass[Restart].at = "pick" /\ pass[Restart].todo = {}
  /\ Running /\ stop \notin {"passing", "collected"} => pass[Restart].at = "off"

\* A session before it is listed, and the end of one.
LifeOf(s) ==
  /\ sess[s] \in {"none", "refused", "forking"} <=> reader[s] = "none"
  /\ sess[s] \in Unlisted => mark[s] = 0
  /\ child[s] = "alive" => sess[s] \in {"forked", "opened", "listed", "moving", "closing"}
                           /\ reader[s] = "live"
  /\ s \in byRestart => reader[s] \in {"draining", "done"}
Lives == \A s \in Sessions : LifeOf(s)

\* Passes take sessions that were listed.
Takes ==
  \A p \in AllPasses : pass[p].at # "off" =>
    \A s \in pass[p].todo \cup pass[p].s : sess[s] \notin Unlisted

\* No child is forgotten by the restart.
Reached ==
  /\ Running /\ stop = "collected" =>
       \A s \in Sessions : child[s] = "alive" => s \in pass[Restart].s \cup slipped
  /\ stop \in {"killed", "notified"} => \A s \in Sessions : child[s] = "alive" => s \in slipped

\* Whatever is on disk of an ended session is about to be removed.
Undone ==
  Running /\ ~restarting =>
    /\ byRestart = {}
    /\ \A s \in Sessions \ late :
         reader[s] = "done" /\ s \in DOMAIN disk =>
           \E p \in AllPasses : pass[p].at \in {"mark", "check"} /\ s \in pass[p].s

\* Sessions the next start restores.
Kept(s) == /\ sess[s] \in {"opened", "listed"}
           /\ s \in byRestart \/ reader[s] \in {"live", "draining"}

\* A checkpoint is there, with all that it is believed to hold.
SavedOf(s) ==
  /\ s \in DOMAIN disk
  /\ s \notin behind =>
       /\ disk[s] >= mark[s]
       /\ \A p \in AllPasses : pass[p].at = "mark" /\ s \in pass[p].s => disk[s] >= pass[p].seen
Saved == \A s \in Sessions : Kept(s) => SavedOf(s)

\* A pass comes to whoever is owed something.
OwedOf(p, s) ==
  \/ s \in pass[p].todo
  \/ pass[p].at = "snap" /\ s \in pass[p].s
  \/ pass[p].at = "write" /\ s \in pass[p].s /\ pass[p].held >= promised[s]
  \/ disk[s] >= promised[s]

\* The restart's pass does, ...
Owed ==
  /\ Running /\ stop = "passing" =>
       \A s \in Listed \ behind : ~Exited(s) /\ s \in DOMAIN promised => OwedOf(Restart, s)
  /\ stop \in {"collected", "killed", "notified"} =>
       \A s \in Listed \ behind : Kept(s) /\ s \in DOMAIN promised => disk[s] >= promised[s]

\* ... and the final one where a signal does not let the restart's finish.
Last ==
  /\ pass[Final].at # "off" /\ Unsaved =>
       \A s \in Listed \ behind : ~Exited(s) /\ s \in DOMAIN promised => OwedOf(Final, s)
  /\ pass[Final].at # "off" /\ stop = "marking" =>
       \A s \in DOMAIN promised : sess[s] \notin Unlisted
  /\ loop = "gone" /\ cause # "crash" /\ Unsaved =>
       \A s \in Listed \ behind : ~Exited(s) /\ s \in DOMAIN promised => disk[s] >= promised[s]

\* Once it has a checkpoint, a session has one as long as its child runs.
OnDisk == \A s \in Sessions : child[s] = "alive" => s \in DOMAIN disk \/ sess[s] = "forked"

\* The inductive invariant.
Inv == /\ TypeOK /\ Shapes /\ Stops /\ Stages /\ Lives /\ Takes /\ Reached /\ Undone
       /\ Saved /\ Owed /\ Last /\ OnDisk

-----------------------------------------------------------------------------
(* Types, and what a step does to the passes.                              *)

SessTyped ==
  /\ sess \in [Sessions -> {"none", "refused", "forking", "forked", "opened", "listed",
                            "moving", "closing", "killed", "closed"}]
  /\ child \in [Sessions -> {"none", "alive", "dead"}]
  /\ reader \in [Sessions -> {"none", "live", "draining", "clearing", "done"}]
  /\ byRestart \in SUBSET Sessions

OutTyped ==
  /\ counted \in [Sessions -> 0..MaxOut] /\ \A s \in Sessions : counted[s] \in {out[s], out[s] + 1}
  /\ out \in [Sessions -> 0..MaxOut] /\ mark \in [Sessions -> 0..MaxOut]

PassTyped == pass \in [AllPasses -> PassStates]

HeldTyped ==
  /\ DOMAIN disk \in SUBSET Sessions /\ \A s \in DOMAIN disk : disk[s] \in 0..out[s]
  /\ DOMAIN promised \in SUBSET Sessions /\ \A s \in DOMAIN promised : promised[s] \in 0..out[s]

StopTyped ==
  /\ restarting \in BOOLEAN /\ permit \in BOOLEAN /\ signalled \in BOOLEAN
  /\ stop \in {"none", "marking", "passing", "collected", "killed", "notified"}
  /\ cause \in {"none", "asked", "signal", "crash"}
  /\ loop \in {"parked", "busy", "left", "gone"}
  /\ slipped \in SUBSET Sessions /\ behind \in SUBSET Sessions /\ late \in SUBSET Sessions

LEMMA TypeParts == TypeOK <=> SessTyped /\ OutTyped /\ PassTyped /\ HeldTyped /\ StopTyped
BY DEF TypeOK, SessTyped, OutTyped, PassTyped, HeldTyped, StopTyped

LEMMA StageIs ==
  ASSUME NEW at \in {"pick", "snap", "write", "mark", "check"}, NEW todo \in SUBSET Sessions,
         NEW s \in SUBSET Sessions, NEW seen \in 0..MaxOut, NEW held \in 0..MaxOut
  PROVE  /\ Stage(at, todo, s, seen, held) \in PassStates
         /\ Stage(at, todo, s, seen, held).at = at
         /\ Stage(at, todo, s, seen, held).todo = todo
         /\ Stage(at, todo, s, seen, held).s = s
         /\ Stage(at, todo, s, seen, held).seen = seen
         /\ Stage(at, todo, s, seen, held).held = held
BY DEF Stage, PassStates

LEMMA OffIs == Off \in PassStates /\ Off.at = "off"
BY DEF Off, PassStates

LEMMA StagedIs ==
  ASSUME PassTyped, NEW p \in AllPasses
  PROVE  \/ pass[p] = Off /\ pass[p].at = "off"
         \/ /\ pass[p] = Stage(pass[p].at, pass[p].todo, pass[p].s, pass[p].seen, pass[p].held)
            /\ pass[p].at \in {"pick", "snap", "write", "mark", "check"}
            /\ pass[p].todo \in SUBSET Sessions /\ pass[p].s \in SUBSET Sessions
            /\ pass[p].seen \in 0..MaxOut /\ pass[p].held \in 0..MaxOut
<1> DEFINE r == pass[p]
<1>1. r \in PassStates
  BY DEF PassTyped
<1>2. r = Off \/ r \in Staged
  BY <1>1 DEF PassStates, Staged
<1>3. CASE r = Off
  BY <1>3, OffIs
<1>4. CASE r \in Staged
  BY <1>4 DEF Staged, Stage
<1> QED
  BY <1>2, <1>3, <1>4

\* Only pass p moves, to r.
To(p, r) == /\ pass' \in [AllPasses -> PassStates]
            /\ pass'[p] = r
            /\ \A q \in AllPasses : q # p => pass'[q] = pass[q]

LEMMA Moves ==
  ASSUME PassTyped, NEW p \in AllPasses, NEW r \in PassStates, pass' = [pass EXCEPT ![p] = r]
  PROVE  To(p, r)
BY DEF PassTyped, To

LEMMA ListedIsSet == Listed \in SUBSET Sessions
BY DEF Listed

LEMMA Begins == ASSUME PassTyped, NEW p \in AllPasses, PassBegins(p)
                PROVE  To(p, Stage("pick", Listed, {}, 0, 0))
<1>1. Stage("pick", Listed, {}, 0, 0) \in PassStates
  BY StageIs, ListedIsSet, LifecycleAssumption
<1> QED
  BY <1>1, Moves DEF PassBegins

LEMMA Alters ==
  ASSUME PassTyped, NEW p \in AllPasses, pass[p].at # "off",
         NEW at \in {"pick", "snap", "write", "mark", "check"}
  PROVE  /\ pass' = [pass EXCEPT ![p].at = at] =>
              To(p, Stage(at, pass[p].todo, pass[p].s, pass[p].seen, pass[p].held))
         /\ \A h \in 0..MaxOut : pass' = [pass EXCEPT ![p].at = at, ![p].held = h] =>
              To(p, Stage(at, pass[p].todo, pass[p].s, pass[p].seen, h))
<1> DEFINE t == pass[p].todo
           x == pass[p].s
           n == pass[p].seen
           m == pass[p].held
<1>1. /\ pass[p] = Stage(pass[p].at, t, x, n, m)
      /\ t \in SUBSET Sessions /\ x \in SUBSET Sessions /\ n \in 0..MaxOut /\ m \in 0..MaxOut
  BY StagedIs
<1>2. pass \in [AllPasses -> PassStates]
  BY DEF PassTyped
<1>3. \A h \in 0..MaxOut : Stage(at, t, x, n, h) \in PassStates
  BY <1>1, StageIs
<1>4. [pass[p] EXCEPT !.at = at] = Stage(at, t, x, n, m)
  BY <1>1 DEF Stage
<1>5. [pass EXCEPT ![p].at = at] = [pass EXCEPT ![p] = Stage(at, t, x, n, m)]
  BY <1>2, <1>4
<1>6. ASSUME NEW h \in 0..MaxOut
      PROVE  [pass EXCEPT ![p].at = at, ![p].held = h] = [pass EXCEPT ![p] = Stage(at, t, x, n, h)]
  <2> DEFINE g == [pass EXCEPT ![p] = [pass[p] EXCEPT !.at = at]]
  <2>1. g[p] = [pass[p] EXCEPT !.at = at]
    BY <1>2
  <2>2. [g[p] EXCEPT !.held = h] = Stage(at, t, x, n, h)
    <3>1. g[p] = Stage(at, t, x, n, m)
      BY <1>4, <2>1
    <3>2. [Stage(at, t, x, n, m) EXCEPT !.held = h] = Stage(at, t, x, n, h)
      BY DEF Stage
    <3> HIDE DEF g, t, x, n, m
    <3> QED
      BY <3>1, <3>2
  <2>3. [g EXCEPT ![p] = Stage(at, t, x, n, h)] = [pass EXCEPT ![p] = Stage(at, t, x, n, h)]
    BY <1>2
  <2> QED
    BY <2>2, <2>3
<1> HIDE DEF t, x, n, m
<1>7. pass' = [pass EXCEPT ![p].at = at] => To(p, Stage(at, t, x, n, m))
  BY <1>1, <1>3, <1>5, Moves
<1>8. ASSUME NEW h \in 0..MaxOut, pass' = [pass EXCEPT ![p].at = at, ![p].held = h]
      PROVE  To(p, Stage(at, t, x, n, h))
  BY <1>3, <1>6, <1>8, Moves
<1> QED
  BY <1>7, <1>8 DEF t, x, n, m

\* What the steps of a pass do to it.
Picks(p) ==
  /\ pass[p].at = "pick"
  /\ \E s \in pass[p].todo :
       \/ /\ Exited(s) \/ counted[s] = mark[s]
          /\ To(p, Stage("pick", pass[p].todo \ {s}, {}, 0, 0))
       \/ /\ ~Exited(s)
          /\ To(p, Stage("snap", pass[p].todo \ {s}, {s}, counted[s], 0))

Advances(p, s, from, to, held) ==
  /\ pass[p].at = from /\ pass[p].s = {s}
  /\ To(p, Stage(to, pass[p].todo, {s}, pass[p].seen, held))

LEMMA PickTo == ASSUME SessTyped, OutTyped, PassTyped, NEW p \in AllPasses, PassPick(p) PROVE Picks(p)
<1>1. pass[p].at = "pick"
  BY DEF PassPick
<1>2. PICK s \in pass[p].todo :
        pass' = [pass EXCEPT ![p] = IF Exited(s) \/ counted[s] = mark[s]
                                    THEN Stage("pick", pass[p].todo \ {s}, {}, 0, 0)
                                    ELSE Stage("snap", pass[p].todo \ {s}, {s}, counted[s], 0)]
  BY DEF PassPick
<1>3. pass[p].todo \in SUBSET Sessions
  BY <1>1, StagedIs
<1>4. s \in Sessions /\ counted[s] \in 0..MaxOut /\ 0 \in 0..MaxOut
  BY <1>3, LifecycleAssumption DEF OutTyped
<1>5. /\ Stage("pick", pass[p].todo \ {s}, {}, 0, 0) \in PassStates
      /\ Stage("snap", pass[p].todo \ {s}, {s}, counted[s], 0) \in PassStates
  <2>1. pass[p].todo \ {s} \in SUBSET Sessions /\ {s} \in SUBSET Sessions /\ {} \in SUBSET Sessions
    BY <1>3, <1>4
  <2> QED
    BY <1>4, <2>1, StageIs
<1>6. CASE Exited(s) \/ counted[s] = mark[s]
  <2>1. To(p, Stage("pick", pass[p].todo \ {s}, {}, 0, 0))
    BY <1>2, <1>5, <1>6, Moves
  <2> QED
    BY <1>1, <1>6, <2>1 DEF Picks
<1>7. CASE ~(Exited(s) \/ counted[s] = mark[s])
  <2>1. To(p, Stage("snap", pass[p].todo \ {s}, {s}, counted[s], 0))
    BY <1>2, <1>5, <1>7, Moves
  <2> QED
    BY <1>1, <1>7, <2>1 DEF Picks
<1> QED
  BY <1>6, <1>7

LEMMA SnapTo ==
  ASSUME OutTyped, PassTyped, Shapes, NEW p \in AllPasses, PassSnap(p)
  PROVE  \E s \in Sessions : Advances(p, s, "snap", "write", out[s])
<1>1. PICK s \in Sessions : pass[p].s = {s}
  BY DEF PassSnap, Shapes, ShapeOf, Working
<1>2. pass' = [pass EXCEPT ![p].at = "write", ![p].held = out[s]]
  BY <1>1 DEF PassSnap
<1>3. out[s] \in 0..MaxOut
  BY DEF OutTyped
<1>4. To(p, Stage("write", pass[p].todo, pass[p].s, pass[p].seen, out[s]))
  BY <1>2, <1>3, Alters DEF PassSnap
<1> QED
  BY <1>1, <1>4 DEF Advances, PassSnap

LEMMA WriteTo ==
  ASSUME PassTyped, Shapes, NEW p \in AllPasses, PassWrite(p)
  PROVE  \E s \in Sessions :
           /\ Advances(p, s, "write", "mark", pass[p].held)
           /\ Write(s, pass[p].held)
           /\ behind' = IF \/ pass[p].held < pass[p].seen
                           \/ s \in DOMAIN disk /\ pass[p].held < disk[s]
                        THEN behind \cup {s} ELSE behind
<1>1. PICK s \in Sessions : pass[p].s = {s}
  BY DEF PassWrite, Shapes, ShapeOf, Working
<1>2. To(p, Stage("mark", pass[p].todo, pass[p].s, pass[p].seen, pass[p].held))
  BY Alters DEF PassWrite
<1> QED
  BY <1>1, <1>2 DEF Advances, PassWrite

LEMMA MarkTo ==
  ASSUME PassTyped, Shapes, NEW p \in AllPasses, PassMark(p)
  PROVE  \E s \in Sessions : /\ Advances(p, s, "mark", "check", pass[p].held)
                             /\ mark' = [mark EXCEPT ![s] = pass[p].seen]
<1>1. PICK s \in Sessions : pass[p].s = {s}
  BY DEF PassMark, Shapes, ShapeOf, Working
<1>2. To(p, Stage("check", pass[p].todo, pass[p].s, pass[p].seen, pass[p].held))
  BY Alters DEF PassMark
<1> QED
  BY <1>1, <1>2 DEF Advances, PassMark

LEMMA CheckTo ==
  ASSUME PassTyped, Shapes, NEW p \in AllPasses, PassCheck(p)
  PROVE  /\ To(p, Stage("pick", pass[p].todo, {}, 0, 0))
         /\ \E s \in Sessions : /\ pass[p].s = {s}
                                /\ IF Exited(s) /\ ~restarting THEN Remove(s) ELSE UNCHANGED disk
<1>1. PICK s \in Sessions : pass[p].s = {s}
  BY DEF PassCheck, Shapes, ShapeOf, Working
<1>2. pass[p].todo \in SUBSET Sessions
  BY StagedIs DEF PassCheck
<1>3. Stage("pick", pass[p].todo, {}, 0, 0) \in PassStates
  BY <1>2, StageIs, LifecycleAssumption
<1>4. pass' = [pass EXCEPT ![p] = Stage("pick", pass[p].todo, {}, 0, 0)]
  BY DEF PassCheck, PassGoesOn, PassTyped
<1> QED
  BY <1>1, <1>3, <1>4, Moves DEF PassCheck

LEMMA CollectTo ==
  ASSUME PassTyped, RestartCollect
  PROVE  To(Restart, Stage("pick", {}, {s \in Listed \cup Closing : ~Exited(s)}, 0, 0))
<1> DEFINE victims == {s \in Listed \cup Closing : ~Exited(s)}
<1>1. victims \in SUBSET Sessions
  BY DEF Listed, Closing
<1>2. Stage("pick", {}, victims, 0, 0) \in PassStates
  BY <1>1, StageIs, LifecycleAssumption
<1>3. Restart \in AllPasses
  BY DEF AllPasses
<1> QED
  BY <1>2, <1>3, Moves DEF RestartCollect

LEMMA TurnsOff ==
  ASSUME PassTyped
  PROVE  /\ \A p \in AllPasses : pass' = [pass EXCEPT ![p] = Off] => To(p, Off)
         /\ pass' = [p \in AllPasses |-> Off] =>
              pass' \in [AllPasses -> PassStates] /\ \A p \in AllPasses : pass'[p].at = "off"
BY OffIs, Moves

-----------------------------------------------------------------------------
(* Types are preserved.                                                    *)

LEMMA SessTypes == ASSUME SessTyped, [Next]_vars PROVE SessTyped'
<1>1. ASSUME NEW s \in Sessions, SessionStep(s) PROVE SessTyped'
  BY <1>1 DEF SessTyped, SessionStep, SpawnCheck, SpawnFork, SpawnOpen, SpawnInsert, Enter,
     ReaderCounts, ReaderLogs, ChildDies, ReaderSeesEnd, ReaderFlagsExit, ReaderClears,
     CloseBegin, CloseMoved, CloseEscalates, CloseFinish
<1>2. ASSUME NEW p \in AllPasses, PassStep(p) PROVE UNCHANGED sessVars
  BY <1>2 DEF PassStep, PassStart, PassPick, PassSnap, PassWrite, PassMark, PassCheck, PassEnd
<1>3. ASSUME StopStep PROVE SessTyped'
  BY <1>3 DEF SessTyped, StopStep, Accept, Rearm, RestartRequest, RestartGate, RestartCollect,
     RestartKill, RestartNotify, StopIfIdle, Signal, FinalPass, DaemonExits, Crash, sessVars
<1> QED
  BY <1>1, <1>2, <1>3 DEF Next, vars, sessVars, SessTyped

LEMMA OutTypes ==
  ASSUME OutTyped, PassTyped, Shapes, [Next]_vars
  PROVE  OutTyped' /\ \A s \in Sessions : out'[s] >= out[s]
<1>0. OutTyped /\ UNCHANGED <<counted, out, mark>> => OutTyped' /\ \A s \in Sessions : out'[s] >= out[s]
  BY DEF OutTyped
<1>1. ASSUME NEW s \in Sessions, SessionStep(s)
      PROVE  OutTyped' /\ \A x \in Sessions : out'[x] >= out[x]
  <2>1. CASE ReaderCounts(s)
    <3>1. counted' = [counted EXCEPT ![s] = counted[s] + 1] /\ UNCHANGED <<out, mark>>
          /\ counted[s] = out[s] /\ counted[s] < MaxOut
      BY <2>1 DEF ReaderCounts, diskVars
    <3> QED
      BY <3>1, LifecycleAssumption DEF OutTyped
  <2>2. CASE ReaderLogs(s)
    <3>1. out' = [out EXCEPT ![s] = out[s] + 1] /\ UNCHANGED <<counted, mark>> /\ counted[s] > out[s]
      BY <2>2 DEF ReaderLogs, diskVars
    <3>2. out[s] + 1 = counted[s] /\ out[s] + 1 \in 0..MaxOut
      BY <3>1 DEF OutTyped
    <3> QED
      BY <3>1, <3>2 DEF OutTyped
  <2>3. CASE ~ReaderCounts(s) /\ ~ReaderLogs(s)
    <3>1. UNCHANGED <<counted, out, mark>>
      BY <1>1, <2>3 DEF SessionStep, SpawnCheck, SpawnFork, SpawnOpen, SpawnInsert,
         ChildDies, ReaderSeesEnd, ReaderFlagsExit, ReaderClears,
         CloseBegin, CloseMoved, CloseEscalates, CloseFinish, diskVars
    <3> QED
      BY <3>1, <1>0
  <2> QED
    BY <2>1, <2>2, <2>3
<1>2. ASSUME NEW p \in AllPasses, PassMark(p)
      PROVE  OutTyped' /\ \A x \in Sessions : out'[x] >= out[x]
  <2>1. PICK s \in Sessions : mark' = [mark EXCEPT ![s] = pass[p].seen]
    BY <1>2, MarkTo
  <2>2. PICK n \in 0..MaxOut : mark' = [mark EXCEPT ![s] = n]
    BY <1>2, <2>1, StagedIs DEF PassMark
  <2>3. UNCHANGED <<counted, out>>
    BY <1>2 DEF PassMark, sessVars
  <2> QED
    BY <2>2, <2>3 DEF OutTyped
<1>3. ASSUME NEW p \in AllPasses, PassStep(p), ~PassMark(p) PROVE UNCHANGED <<counted, out, mark>>
  BY <1>3 DEF PassStep, PassStart, PassPick, PassSnap, PassWrite, PassCheck, PassEnd, sessVars
<1>4. ASSUME StopStep PROVE UNCHANGED <<counted, out, mark>>
  BY <1>4 DEF StopStep, Accept, Rearm, RestartRequest, RestartGate, RestartCollect,
     RestartKill, RestartNotify, StopIfIdle, Signal, FinalPass, DaemonExits, Crash, sessVars, diskVars
<1>5. CASE UNCHANGED vars
  BY <1>5, <1>0 DEF vars, sessVars, diskVars
<1> QED
  BY <1>0, <1>1, <1>2, <1>3, <1>4, <1>5 DEF Next

LEMMA StopTypes == ASSUME StopTyped, PassTyped, Shapes, [Next]_vars PROVE StopTyped'
<1>1. ASSUME NEW s \in Sessions, SessionStep(s) PROVE StopTyped'
  BY <1>1 DEF StopTyped, SessionStep, SpawnCheck, SpawnFork, SpawnOpen, SpawnInsert,
     ReaderCounts, ReaderLogs, ChildDies, ReaderSeesEnd, ReaderFlagsExit, ReaderClears,
     CloseBegin, CloseMoved, CloseEscalates, CloseFinish, stopVars, historyVars
<1>2. ASSUME NEW p \in AllPasses, PassStep(p) PROVE StopTyped'
  <2>1. CASE PassWrite(p)
    <3>1. UNCHANGED <<stopVars, slipped, late>>
      BY <2>1 DEF PassWrite
    <3>2. \E s \in Sessions : behind' \in {behind, behind \cup {s}}
      BY <2>1, WriteTo
    <3> QED
      BY <3>1, <3>2 DEF StopTyped, stopVars
  <2> QED
    BY <1>2, <2>1 DEF StopTyped, PassStep, PassStart, PassPick, PassSnap, PassMark, PassCheck, PassEnd,
       stopVars, historyVars
<1>3. ASSUME StopStep PROVE StopTyped'
  BY <1>3 DEF StopTyped, StopStep, Accept, Rearm, RestartRequest, RestartGate, RestartCollect,
     RestartKill, RestartNotify, StopIfIdle, Signal, FinalPass, DaemonExits, Crash, stopVars, historyVars,
     Wake, WakeWaiters, Sent
<1> QED
  BY <1>1, <1>2, <1>3 DEF Next, vars, stopVars, historyVars, StopTyped

LEMMA PassTypes == ASSUME SessTyped, OutTyped, PassTyped, Shapes, [Next]_vars PROVE PassTyped'
<1>1. ASSUME NEW s \in Sessions, SessionStep(s) PROVE PassTyped'
  BY <1>1 DEF SessionStep, SpawnCheck, SpawnFork, SpawnOpen, SpawnInsert,
     ReaderCounts, ReaderLogs, ChildDies, ReaderSeesEnd, ReaderFlagsExit, ReaderClears,
     CloseBegin, CloseMoved, CloseEscalates, CloseFinish, diskVars, PassTyped
<1>2. ASSUME NEW p \in AllPasses, PassStep(p) PROVE PassTyped'
  <2>1. CASE PassStart(p)
    BY <2>1, Begins DEF PassStart, To, PassTyped
  <2>2. CASE PassPick(p)
    BY <2>2, PickTo DEF Picks, To, PassTyped
  <2>3. CASE PassSnap(p)
    BY <2>3, SnapTo DEF Advances, To, PassTyped
  <2>4. CASE PassWrite(p)
    BY <2>4, WriteTo DEF Advances, To, PassTyped
  <2>5. CASE PassMark(p)
    BY <2>5, MarkTo DEF Advances, To, PassTyped
  <2>6. CASE PassCheck(p)
    BY <2>6, CheckTo DEF To, PassTyped
  <2>7. CASE PassEnd(p)
    BY <2>7, TurnsOff DEF PassEnd, To, PassTyped
  <2> QED
    BY <1>2, <2>1, <2>2, <2>3, <2>4, <2>5, <2>6, <2>7 DEF PassStep
<1>3. ASSUME StopStep PROVE PassTyped'
  <2>0. Restart \in AllPasses /\ Final \in AllPasses
    BY DEF AllPasses
  <2>1. CASE RestartGate
    BY <2>0, <2>1, Begins DEF RestartGate, To, PassTyped
  <2>2. CASE RestartCollect
    BY <2>2, CollectTo DEF To, PassTyped
  <2>3. CASE RestartKill
    BY <2>0, <2>3, TurnsOff DEF RestartKill, To, PassTyped
  <2>4. CASE FinalPass
    BY <2>0, <2>4, Begins DEF FinalPass, To, PassTyped
  <2>5. CASE DaemonExits \/ Crash
    BY <2>5, TurnsOff DEF DaemonExits, Crash, PassTyped
  <2> QED
    BY <1>3, <2>1, <2>2, <2>3, <2>4, <2>5 DEF StopStep, Accept, Rearm, RestartRequest, RestartNotify,
       StopIfIdle, Signal, diskVars, PassTyped
<1>4. CASE UNCHANGED vars
  BY <1>4 DEF vars, diskVars, PassTyped
<1> QED
  BY <1>1, <1>2, <1>3, <1>4 DEF Next

-----------------------------------------------------------------------------
(* What a step does to the disk.                                           *)

Opens(s) == SpawnOpen(s) /\ Write(s, 0)

Writes(p, s) ==
  /\ PassWrite(p)
  /\ Advances(p, s, "write", "mark", pass[p].held)
  /\ Write(s, pass[p].held)
  /\ behind' = IF \/ pass[p].held < pass[p].seen
                  \/ s \in DOMAIN disk /\ pass[p].held < disk[s]
               THEN behind \cup {s} ELSE behind

\* An ended session is removed, by its reader, its close, or a pass.
Removes(s) ==
  /\ Remove(s)
  /\ \/ ReaderClears(s)
     \/ CloseFinish(s)
     \/ /\ Running /\ Exited(s) /\ ~restarting
        /\ \E p \in AllPasses : PassCheck(p) /\ pass[p].s = {s}

LEMMA DiskSteps ==
  ASSUME PassTyped, Shapes, [Next]_vars
  PROVE  \/ disk' = disk /\ behind' = behind
         \/ \E s \in Sessions : Opens(s) /\ behind' = behind
         \/ \E p \in AllPasses, s \in Sessions : Writes(p, s)
         \/ \E s \in Sessions : Removes(s) /\ behind' = behind
<1> DEFINE Same == disk' = disk /\ behind' = behind
<1>1. ASSUME NEW s \in Sessions, SessionStep(s)
      PROVE  Same \/ ((Opens(s) \/ Removes(s)) /\ behind' = behind)
  <2>1. CASE SpawnOpen(s)
    BY <2>1 DEF SpawnOpen, Opens
  <2>2. CASE ReaderClears(s) \/ CloseFinish(s)
    BY <2>2 DEF ReaderClears, CloseFinish, Removes, historyVars
  <2> QED
    BY <1>1, <2>1, <2>2 DEF SessionStep, SpawnCheck, SpawnFork, SpawnInsert,
       ReaderCounts, ReaderLogs, ChildDies, ReaderSeesEnd, ReaderFlagsExit,
       CloseBegin, CloseMoved, CloseEscalates, diskVars, historyVars
<1>2. ASSUME NEW p \in AllPasses, PassStep(p)
      PROVE  Same \/ \E s \in Sessions : Writes(p, s) \/ (Removes(s) /\ behind' = behind)
  <2>1. CASE PassWrite(p)
    BY <2>1, WriteTo DEF Writes
  <2>2. CASE PassCheck(p)
    <3>1. PICK s \in Sessions : /\ pass[p].s = {s}
                                /\ IF Exited(s) /\ ~restarting THEN Remove(s) ELSE UNCHANGED disk
      BY <2>2, CheckTo
    <3>2. behind' = behind /\ Running
      BY <2>2 DEF PassCheck, historyVars
    <3> QED
      BY <2>2, <3>1, <3>2 DEF Removes
  <2> QED
    BY <1>2, <2>1, <2>2 DEF PassStep, PassStart, PassPick, PassSnap, PassMark, PassEnd, historyVars
<1>3. ASSUME StopStep PROVE Same
  BY <1>3 DEF StopStep, Accept, Rearm, RestartRequest, RestartGate, RestartCollect,
     RestartKill, RestartNotify, StopIfIdle, Signal, FinalPass, DaemonExits, Crash, diskVars, historyVars
<1>4. CASE UNCHANGED vars
  BY <1>4 DEF vars, diskVars, historyVars
<1> QED
  BY <1>1, <1>2, <1>3, <1>4 DEF Next

LEMMA PromiseSteps ==
  ASSUME [Next]_vars
  PROVE  \/ promised' = promised
         \/ RestartRequest /\ pass[Final] = Off /\ promised' = out
         \/ RestartCollect
            /\ promised' = Restrict(promised, {s \in Listed \cup Closing : ~Exited(s)} \cap DOMAIN promised)
         \/ FinalPass /\ stop = "marking" /\ promised' = Restrict(promised, Listed \cap DOMAIN promised)
<1>1. ASSUME NEW s \in Sessions, SessionStep(s) PROVE promised' = promised
  BY <1>1 DEF SessionStep, SpawnCheck, SpawnFork, SpawnOpen, SpawnInsert,
     ReaderCounts, ReaderLogs, ChildDies, ReaderSeesEnd, ReaderFlagsExit, ReaderClears,
     CloseBegin, CloseMoved, CloseEscalates, CloseFinish, historyVars
<1>2. ASSUME NEW p \in AllPasses, PassStep(p) PROVE promised' = promised
  BY <1>2 DEF PassStep, PassStart, PassPick, PassSnap, PassWrite, PassMark, PassCheck, PassEnd, historyVars
<1> QED
  BY <1>1, <1>2 DEF Next, StopStep, Accept, Rearm, RestartRequest, RestartGate, RestartCollect,
     RestartKill, RestartNotify, StopIfIdle, Signal, FinalPass, DaemonExits, Crash, vars, historyVars

LEMMA HeldTypes ==
  ASSUME OutTyped, PassTyped, HeldTyped, Shapes, Stops, [Next]_vars
  PROVE  HeldTyped'
<1>0. /\ OutTyped' /\ \A s \in Sessions : out'[s] >= out[s]
      /\ \A s \in Sessions : out[s] \in Nat /\ out'[s] \in Nat
  BY OutTypes, LifecycleAssumption DEF OutTyped
<1>1. DOMAIN disk' \in SUBSET Sessions /\ \A s \in DOMAIN disk' : disk'[s] \in 0..out'[s]
  <2>0. DOMAIN disk \in SUBSET Sessions /\ \A s \in DOMAIN disk : disk[s] \in 0..out'[s]
    BY <1>0 DEF HeldTyped
  <2>1. CASE disk' = disk
    BY <2>0, <2>1
  <2>2. ASSUME NEW s \in Sessions, Opens(s)
        PROVE  DOMAIN disk' \in SUBSET Sessions /\ \A x \in DOMAIN disk' : disk'[x] \in 0..out'[x]
    BY <1>0, <2>0, <2>2 DEF Opens, Write
  <2>3. ASSUME NEW p \in AllPasses, NEW s \in Sessions, Writes(p, s)
        PROVE  DOMAIN disk' \in SUBSET Sessions /\ \A x \in DOMAIN disk' : disk'[x] \in 0..out'[x]
    <3>1. PICK n : n = pass[p].held
      OBVIOUS
    <3>2. n \in 0..MaxOut /\ n <= out[s] /\ Write(s, n)
      BY <2>3, <3>1, StagedIs DEF Writes, Advances, Shapes, ShapeOf
    <3>3. n \in 0..out'[s]
      BY <1>0, <3>2, LifecycleAssumption
    <3> QED
      BY <2>0, <3>2, <3>3 DEF Write
  <2>4. ASSUME NEW s \in Sessions, Removes(s)
        PROVE  DOMAIN disk' \in SUBSET Sessions /\ \A x \in DOMAIN disk' : disk'[x] \in 0..out'[x]
    BY <2>0, <2>4 DEF Removes, Remove, Restrict
  <2> QED
    BY <2>1, <2>2, <2>3, <2>4, DiskSteps
<1>2. DOMAIN promised' \in SUBSET Sessions /\ \A s \in DOMAIN promised' : promised'[s] \in 0..out'[s]
  <2>0. DOMAIN promised \in SUBSET Sessions /\ \A s \in DOMAIN promised : promised[s] \in 0..out'[s]
    BY <1>0 DEF HeldTyped
  <2>1. CASE promised' = promised
    BY <2>0, <2>1
  <2>2. CASE promised' = out
    BY <1>0, <2>2 DEF OutTyped
  <2>3. ASSUME NEW S, promised' = Restrict(promised, S \cap DOMAIN promised)
        PROVE  DOMAIN promised' \in SUBSET Sessions /\ \A s \in DOMAIN promised' : promised'[s] \in 0..out'[s]
    BY <2>0, <2>3 DEF Restrict
  <2> QED
    BY <2>1, <2>2, <2>3, PromiseSteps
<1> QED
  BY <1>1, <1>2 DEF HeldTyped

-----------------------------------------------------------------------------
(* What a step does to the passes, seen from one of them.                  *)

\* Pass q goes from r to a new value.
Starts(q) == /\ pass[q].at = "off" /\ pass'[q] = Stage("pick", Listed, {}, 0, 0)
             /\ \/ PassStart(q) \/ (q = Restart /\ RestartGate) \/ (q = Final /\ FinalPass)
PicksOne(q) ==
  /\ PassPick(q) /\ pass[q].at = "pick"
  /\ \E s \in pass[q].todo :
       \/ /\ Exited(s) \/ counted[s] = mark[s]
          /\ pass'[q] = Stage("pick", pass[q].todo \ {s}, {}, 0, 0)
       \/ /\ ~Exited(s)
          /\ pass'[q] = Stage("snap", pass[q].todo \ {s}, {s}, counted[s], 0)
Snaps(q) ==
  /\ PassSnap(q) /\ pass[q].at = "snap"
  /\ \E s \in Sessions : /\ pass[q].s = {s}
                         /\ pass'[q] = Stage("write", pass[q].todo, {s}, pass[q].seen, out[s])
HasWritten(q) ==
  /\ PassWrite(q) /\ pass[q].at = "write"
  /\ \E s \in Sessions : /\ pass[q].s = {s} /\ Writes(q, s)
                         /\ pass'[q] = Stage("mark", pass[q].todo, {s}, pass[q].seen, pass[q].held)
HasMarked(q) ==
  /\ PassMark(q) /\ pass[q].at = "mark"
  /\ \E s \in Sessions : /\ pass[q].s = {s} /\ mark' = [mark EXCEPT ![s] = pass[q].seen]
                         /\ pass'[q] = Stage("check", pass[q].todo, {s}, pass[q].seen, pass[q].held)
HasChecked(q) ==
  /\ PassCheck(q) /\ pass[q].at = "check"
  /\ pass'[q] = Stage("pick", pass[q].todo, {}, 0, 0)
  /\ \E s \in Sessions : /\ pass[q].s = {s}
                         /\ IF Exited(s) /\ ~restarting THEN Remove(s) ELSE UNCHANGED disk
Collects(q) ==
  /\ q = Restart /\ RestartCollect
  /\ pass'[q] = Stage("pick", {}, {s \in Listed \cup Closing : ~Exited(s)}, 0, 0)
Stands(q) ==
  /\ pass'[q].at = "off"
  /\ \/ PassEnd(q) /\ PassDone(q) /\ q \in Passes
     \/ q = Restart /\ RestartKill
     \/ loop' = "gone" /\ loop # "gone" /\ (DaemonExits \/ Crash)

LEMMA PassSteps ==
  ASSUME SessTyped, OutTyped, PassTyped, Shapes, Stages, [Next]_vars, NEW q \in AllPasses
  PROVE  \/ pass'[q] = pass[q]
         \/ Starts(q) \/ PicksOne(q) \/ Snaps(q) \/ HasWritten(q) \/ HasMarked(q) \/ HasChecked(q)
         \/ Collects(q) \/ Stands(q)
<1>1. ASSUME NEW s \in Sessions, SessionStep(s) PROVE pass' = pass
  BY <1>1 DEF SessionStep, SpawnCheck, SpawnFork, SpawnOpen, SpawnInsert,
     ReaderCounts, ReaderLogs, ChildDies, ReaderSeesEnd, ReaderFlagsExit, ReaderClears,
     CloseBegin, CloseMoved, CloseEscalates, CloseFinish, diskVars
<1>2. ASSUME NEW p \in AllPasses, PassStep(p)
      PROVE  \/ pass'[q] = pass[q]
             \/ Starts(q) \/ PicksOne(q) \/ Snaps(q) \/ HasWritten(q) \/ HasMarked(q) \/ HasChecked(q)
             \/ Collects(q) \/ Stands(q)
  <2>1. CASE PassStart(p)
    BY <2>1, Begins, OffIs DEF PassStart, To, Starts
  <2>2. CASE PassPick(p)
    BY <2>2, PickTo DEF Picks, To, PicksOne
  <2>3. CASE PassSnap(p)
    BY <2>3, SnapTo DEF Advances, To, Snaps
  <2>4. CASE PassWrite(p)
    <3>1. PICK s \in Sessions : Writes(p, s)
      BY <2>4, WriteTo DEF Writes
    <3> QED
      BY <2>4, <3>1 DEF Writes, Advances, To, HasWritten
  <2>5. CASE PassMark(p)
    BY <2>5, MarkTo DEF Advances, To, HasMarked
  <2>6. CASE PassCheck(p)
    BY <2>6, CheckTo DEF To, HasChecked, PassCheck
  <2>7. CASE PassEnd(p)
    <3>1. To(p, Off)
      BY <2>7, TurnsOff DEF PassEnd
    <3> QED
      BY <2>7, <3>1, OffIs DEF To, PassEnd, Stands
  <2> QED
    BY <1>2, <2>1, <2>2, <2>3, <2>4, <2>5, <2>6, <2>7 DEF PassStep
<1>3. ASSUME StopStep
      PROVE  pass'[q] = pass[q] \/ Starts(q) \/ Collects(q) \/ Stands(q)
  <2>0. Restart \in AllPasses /\ Final \in AllPasses
    BY DEF AllPasses
  <2>1. CASE RestartGate
    BY <2>0, <2>1, Begins DEF RestartGate, To, Starts, Stages
  <2>2. CASE RestartCollect
    BY <2>2, CollectTo DEF To, Collects
  <2>3. CASE RestartKill
    <3>1. To(Restart, Off)
      BY <2>0, <2>3, TurnsOff DEF RestartKill
    <3> QED
      BY <2>3, <3>1, OffIs DEF To, Stands
  <2>4. CASE FinalPass
    BY <2>0, <2>4, Begins, OffIs DEF FinalPass, To, Starts
  <2>5. CASE DaemonExits \/ Crash
    BY <2>5, TurnsOff DEF DaemonExits, Crash, Stands, Running
  <2> QED
    BY <1>3, <2>1, <2>2, <2>3, <2>4, <2>5 DEF StopStep, Accept, Rearm, RestartRequest, RestartNotify,
       StopIfIdle, Signal, diskVars
<1>4. CASE UNCHANGED vars
  BY <1>4 DEF vars, diskVars
<1> QED
  BY <1>1, <1>2, <1>3, <1>4 DEF Next

\* How far the stop is may change with the restart's steps and an idle stop alone.
LEMMA StopSteps ==
  ASSUME [Next]_vars
  PROVE  \/ UNCHANGED <<restarting, stop>>
         \/ RestartRequest \/ RestartGate \/ RestartCollect \/ RestartKill \/ RestartNotify \/ StopIfIdle
<1>1. ASSUME NEW s \in Sessions, SessionStep(s) PROVE UNCHANGED <<restarting, stop>>
  BY <1>1 DEF SessionStep, SpawnCheck, SpawnFork, SpawnOpen, SpawnInsert,
     ReaderCounts, ReaderLogs, ChildDies, ReaderSeesEnd, ReaderFlagsExit, ReaderClears,
     CloseBegin, CloseMoved, CloseEscalates, CloseFinish, stopVars
<1>2. ASSUME NEW p \in AllPasses, PassStep(p) PROVE UNCHANGED <<restarting, stop>>
  BY <1>2 DEF PassStep, PassStart, PassPick, PassSnap, PassWrite, PassMark, PassCheck, PassEnd, stopVars
<1> QED
  BY <1>1, <1>2 DEF Next, StopStep, Accept, Rearm, Signal, FinalPass, DaemonExits, Crash, vars, stopVars

LEMMA ShapesKept ==
  ASSUME SessTyped, OutTyped, PassTyped, Shapes, Stages, [Next]_vars
  PROVE  Shapes'
<1> SUFFICES ASSUME NEW q \in AllPasses PROVE ShapeOf(q)'
  BY DEF Shapes
<1>0. /\ ShapeOf(q) /\ \A s \in Sessions : out'[s] >= out[s] /\ out[s] \in Nat /\ out'[s] \in Nat
      /\ OutTyped'
  BY OutTypes, LifecycleAssumption DEF Shapes, OutTyped
<1>s. pass[q].at # "off" => pass[q].todo \in SUBSET Sessions /\ pass[q].s \in SUBSET Sessions
        /\ pass[q].seen \in 0..MaxOut /\ pass[q].held \in 0..MaxOut
  BY StagedIs
<1>1. CASE pass'[q] = pass[q]
  <2>1. q = Restart /\ stop = "collected" /\ stop' # "collected" => ~Running \/ pass'[q].at = "off"
    <3>1. q = Restart /\ RestartKill => pass'[q].at = "off"
      BY TurnsOff, OffIs DEF RestartKill, To, AllPasses
    <3>2. stop = "collected" => ~RestartRequest /\ ~RestartGate /\ ~RestartCollect /\ ~RestartNotify /\ ~StopIfIdle
      BY DEF RestartRequest, RestartGate, RestartCollect, RestartNotify, StopIfIdle
    <3> QED
      BY <3>1, <3>2, StopSteps
  <2>2. ~Running => pass[q].at = "off"
    BY DEF Running, Stages
  <2>3. pass[q].at = "pick" => pass[q].s = {} \/ (q = Restart /\ stop' = "collected")
    BY <1>0, <1>1, <2>1, <2>2 DEF ShapeOf
  <2>4. pass[q].at = "write" => pass[q].s \in SUBSET Sessions /\ pass[q].held \in Nat
    BY <1>s, LifecycleAssumption
  <2>5. pass[q].at = "write" => \A s \in pass[q].s : pass[q].held <= out'[s]
    <3> SUFFICES ASSUME pass[q].at = "write", NEW s \in pass[q].s PROVE pass[q].held <= out'[s]
      OBVIOUS
    <3>1. PICK h : h = pass[q].held
      OBVIOUS
    <3>2. h \in Nat /\ s \in Sessions /\ h <= out[s]
      BY <1>0, <2>4, <3>1 DEF ShapeOf
    <3> QED
      BY <1>0, <3>1, <3>2
  <2> QED
    BY <1>0, <1>1, <2>3, <2>5 DEF ShapeOf
<1>2. CASE Starts(q)
  <2>1. pass'[q].at = "pick" /\ pass'[q].s = {}
    BY <1>2, StageIs, ListedIsSet, LifecycleAssumption DEF Starts
  <2> QED
    BY <2>1 DEF ShapeOf, Working
<1>3. CASE PicksOne(q)
  <2>1. PICK s \in pass[q].todo :
       \/ pass'[q] = Stage("pick", pass[q].todo \ {s}, {}, 0, 0)
       \/ pass'[q] = Stage("snap", pass[q].todo \ {s}, {s}, counted[s], 0)
    BY <1>3 DEF PicksOne
  <2>2. s \in Sessions /\ counted[s] \in 0..MaxOut /\ 0 \in 0..MaxOut
        /\ pass[q].todo \ {s} \in SUBSET Sessions /\ {s} \in SUBSET Sessions
    BY <1>3, <1>s, LifecycleAssumption DEF PicksOne, OutTyped
  <2>3. \/ pass'[q].at = "pick" /\ pass'[q].s = {}
        \/ pass'[q].at = "snap" /\ pass'[q].s = {s}
    BY <2>1, <2>2, StageIs
  <2> QED
    BY <2>2, <2>3 DEF ShapeOf, Working
<1>4. CASE Snaps(q)
  <2>1. PICK s \in Sessions : pass[q].s = {s} /\ pass'[q] = Stage("write", pass[q].todo, {s}, pass[q].seen, out[s])
    BY <1>4 DEF Snaps
  <2>2. out[s] \in 0..MaxOut /\ {s} \in SUBSET Sessions
    BY DEF OutTyped
  <2>3. pass'[q].at = "write" /\ pass'[q].s = {s} /\ pass'[q].held = out[s]
    BY <1>4, <1>s, <2>1, <2>2, StageIs DEF Snaps
  <2> QED
    BY <1>0, <2>3 DEF ShapeOf, Working
<1>5. CASE HasWritten(q)
  <2>1. PICK s \in Sessions : pass[q].s = {s} /\ pass'[q] = Stage("mark", pass[q].todo, {s}, pass[q].seen, pass[q].held)
    BY <1>5 DEF HasWritten
  <2>2. pass'[q].at = "mark" /\ pass'[q].s = {s}
    BY <1>5, <1>s, <2>1, StageIs DEF HasWritten
  <2> QED
    BY <2>2 DEF ShapeOf, Working
<1>6. CASE HasMarked(q)
  <2>1. PICK s \in Sessions : pass[q].s = {s} /\ pass'[q] = Stage("check", pass[q].todo, {s}, pass[q].seen, pass[q].held)
    BY <1>6 DEF HasMarked
  <2>2. pass'[q].at = "check" /\ pass'[q].s = {s}
    BY <1>6, <1>s, <2>1, StageIs DEF HasMarked
  <2> QED
    BY <2>2 DEF ShapeOf, Working
<1>7. CASE HasChecked(q)
  <2>1. pass'[q].at = "pick" /\ pass'[q].s = {}
    BY <1>7, <1>s, StageIs, LifecycleAssumption DEF HasChecked
  <2> QED
    BY <2>1 DEF ShapeOf, Working
<1>8. CASE Collects(q)
  <2>1. {s \in Listed \cup Closing : ~Exited(s)} \in SUBSET Sessions
    BY DEF Listed, Closing
  <2>2. pass'[q].at = "pick"
    BY <1>8, <2>1, StageIs, LifecycleAssumption DEF Collects
  <2> QED
    BY <1>8, <2>2 DEF ShapeOf, Working, Collects, RestartCollect
<1>9. CASE Stands(q)
  BY <1>9 DEF Stands, ShapeOf, Working
<1> QED
  BY <1>1, <1>2, <1>3, <1>4, <1>5, <1>6, <1>7, <1>8, <1>9, PassSteps

-----------------------------------------------------------------------------
(* The stop.                                                               *)

LEMMA StopsKept ==
  ASSUME SessTyped, OutTyped, StopTyped, Stops, [Next]_vars
  PROVE  Stops'
<1>1. ASSUME NEW s \in Sessions, SessionStep(s) PROVE Stops'
  <2>1. UNCHANGED <<restarting, stop, cause, loop, permit, promised>>
    BY <1>1 DEF SessionStep, SpawnCheck, SpawnFork, SpawnOpen, SpawnInsert,
       ReaderCounts, ReaderLogs, ChildDies, ReaderSeesEnd, ReaderFlagsExit, ReaderClears,
       CloseBegin, CloseMoved, CloseEscalates, CloseFinish, stopVars, historyVars
  <2>2. restarting /\ GateFree => GateFree'
    BY <1>1 DEF GateFree, SessTyped, SessionStep, SpawnCheck, SpawnFork, SpawnOpen, SpawnInsert, Enter,
       ReaderCounts, ReaderLogs, ChildDies, ReaderSeesEnd, ReaderFlagsExit, ReaderClears,
       CloseBegin, CloseMoved, CloseEscalates, CloseFinish
  <2> QED
    BY <2>1, <2>2 DEF Stops
<1>2. ASSUME NEW p \in AllPasses, PassStep(p) PROVE Stops'
  <2>1. UNCHANGED <<sess, restarting, stop, cause, loop, permit, promised>>
    BY <1>2 DEF PassStep, PassStart, PassPick, PassSnap, PassWrite, PassMark, PassCheck, PassEnd,
       sessVars, stopVars, historyVars
  <2> QED
    BY <2>1 DEF Stops, GateFree
<1>3. ASSUME StopStep PROVE Stops'
  <2>1. UNCHANGED sess
    BY <1>3 DEF StopStep, Accept, Rearm, RestartRequest, RestartGate, RestartCollect,
       RestartKill, RestartNotify, StopIfIdle, Signal, FinalPass, DaemonExits, Crash, sessVars
  <2>2. GateFree' <=> GateFree
    BY <2>1 DEF GateFree
  <2>3. CASE Accept \/ Rearm \/ Signal \/ FinalPass \/ DaemonExits \/ Crash
    <3>1. UNCHANGED <<restarting, stop>> /\ (stop = "none" => promised' = promised)
      BY <2>3 DEF Accept, Rearm, Signal, FinalPass, DaemonExits, Crash, stopVars, historyVars
    <3>2. /\ permit' => stop = "notified"
          /\ loop' = "left" => stop = "notified" \/ cause' = "signal"
          /\ loop' = "gone" => stop = "notified" \/ cause' \in {"signal", "crash"}
          /\ cause' = "crash" => loop' = "gone"
      BY <2>3 DEF Stops, StopTyped, Accept, Rearm, Signal, FinalPass, DaemonExits, Crash, stopVars,
         WakeWaiters, Running
    <3> QED
      BY <2>2, <3>1, <3>2 DEF Stops
  <2>4. CASE RestartRequest
    BY <2>2, <2>4 DEF Stops, StopTyped, OutTyped, RestartRequest, Running
  <2>5. CASE RestartGate
    BY <2>2, <2>5 DEF Stops, StopTyped, RestartGate, historyVars, Running
  <2>6. CASE RestartCollect
    BY <2>2, <2>6 DEF Stops, StopTyped, RestartCollect, Running
  <2>7. CASE RestartKill
    BY <2>2, <2>7 DEF Stops, StopTyped, RestartKill, historyVars, Running
  <2>8. CASE RestartNotify
    BY <2>2, <2>8 DEF Stops, StopTyped, RestartNotify, historyVars, Running, Wake, Sent
  <2>9. CASE StopIfIdle
    BY <2>2, <2>9 DEF Stops, StopTyped, StopIfIdle, Running, Wake, Sent
  <2> QED
    BY <1>3, <2>3, <2>4, <2>5, <2>6, <2>7, <2>8, <2>9 DEF StopStep
<1>4. CASE UNCHANGED vars
  BY <1>4 DEF vars, sessVars, stopVars, historyVars, Stops, GateFree
<1> QED
  BY <1>1, <1>2, <1>3, <1>4 DEF Next

\* The process ends with an exit or a crash, and does not come back.
LEMMA LoopSteps ==
  ASSUME Stops, [Next]_vars
  PROVE  /\ loop = "gone" => loop' = "gone"
         /\ loop' = "gone" => loop = "gone" \/ DaemonExits \/ Crash
<1>1. ASSUME NEW s \in Sessions, SessionStep(s) PROVE loop' = loop
  BY <1>1 DEF SessionStep, SpawnCheck, SpawnFork, SpawnOpen, SpawnInsert,
     ReaderCounts, ReaderLogs, ChildDies, ReaderSeesEnd, ReaderFlagsExit, ReaderClears,
     CloseBegin, CloseMoved, CloseEscalates, CloseFinish, stopVars
<1>2. ASSUME NEW p \in AllPasses, PassStep(p) PROVE loop' = loop
  BY <1>2 DEF PassStep, PassStart, PassPick, PassSnap, PassWrite, PassMark, PassCheck, PassEnd, stopVars
<1> QED
  BY <1>1, <1>2 DEF Next, StopStep, Accept, Rearm, RestartRequest, RestartGate, RestartCollect,
     RestartKill, RestartNotify, StopIfIdle, Signal, FinalPass, DaemonExits, Crash, vars, stopVars,
     Wake, WakeWaiters, Running

LEMMA StagesKept ==
  ASSUME SessTyped, OutTyped, PassTyped, StopTyped, Shapes, Stops, Stages, [Next]_vars
  PROVE  Stages'
<1>0. Restart \in AllPasses /\ Restart \notin Passes /\ Restart # Final
  BY LifecycleAssumption DEF AllPasses
<1>1. ASSUME loop' = "gone" PROVE \A p \in AllPasses : pass'[p].at = "off"
  <2>1. CASE loop = "gone"
    <3>1. ASSUME NEW p \in AllPasses PROVE pass'[p].at = "off"
      <4>1. pass[p].at = "off" /\ ~Running
        BY <2>1 DEF Stages, Running
      <4> QED
        BY <4>1, <2>1, PassSteps DEF Starts, PassStart, RestartGate, FinalPass, PicksOne, PassPick,
           Snaps, PassSnap, HasWritten, PassWrite, HasMarked, PassMark, HasChecked, PassCheck,
           Collects, RestartCollect, Stands
    <3> QED
      BY <3>1
  <2>2. CASE DaemonExits \/ Crash
    BY <2>2, TurnsOff DEF DaemonExits, Crash
  <2> QED
    BY <1>1, <2>1, <2>2, LoopSteps
<1>2. ASSUME loop' # "gone", stop' = "passing" PROVE pass'[Restart].at # "off"
  <2>1. loop # "gone"
    BY <1>2, LoopSteps
  <2>2. CASE stop = "passing"
    <3>1. pass[Restart].at # "off"
      BY <2>1, <2>2 DEF Stages, Running
    <3>2. ~Stands(Restart)
      BY <1>0, <1>2, <2>2 DEF Stands, RestartKill
    <3>3. CASE pass'[Restart] = pass[Restart]
      BY <3>1, <3>3
    <3>4. CASE Collects(Restart)
      BY <1>2, <3>4 DEF Collects, RestartCollect
    <3>5. CASE PicksOne(Restart)
      <4>1. PICK s \in pass[Restart].todo :
           \/ pass'[Restart] = Stage("pick", pass[Restart].todo \ {s}, {}, 0, 0)
           \/ pass'[Restart] = Stage("snap", pass[Restart].todo \ {s}, {s}, counted[s], 0)
        BY <3>5 DEF PicksOne
      <4> QED
        BY <4>1 DEF Stage
    <3>6. CASE Starts(Restart)
      BY <3>6 DEF Starts, Stage
    <3>7. CASE Snaps(Restart)
      BY <3>7 DEF Snaps, Stage
    <3>8. CASE HasWritten(Restart)
      BY <3>8 DEF HasWritten, Stage
    <3>9. CASE HasMarked(Restart)
      BY <3>9 DEF HasMarked, Stage
    <3>10. CASE HasChecked(Restart)
      BY <3>10 DEF HasChecked, Stage
    <3> QED
      BY <1>0, <3>2, <3>3, <3>4, <3>5, <3>6, <3>7, <3>8, <3>9, <3>10, PassSteps
  <2>3. CASE RestartGate
    <3>1. To(Restart, Stage("pick", Listed, {}, 0, 0))
      BY <1>0, <2>3, Begins DEF RestartGate
    <3> QED
      BY <3>1 DEF To, Stage
  <2> QED
    BY <1>2, <2>2, <2>3, StopSteps DEF RestartRequest, RestartCollect, RestartKill, RestartNotify, StopIfIdle
<1>3. ASSUME loop' # "gone", stop' = "collected" PROVE pass'[Restart].at = "pick" /\ pass'[Restart].todo = {}
  <2>1. loop # "gone"
    BY <1>3, LoopSteps
  <2>2. CASE stop = "collected"
    <3>1. pass[Restart].at = "pick" /\ pass[Restart].todo = {}
      BY <2>1, <2>2 DEF Stages, Running
    <3>2. pass'[Restart] = pass[Restart]
      BY <1>0, <1>3, <2>2, <3>1, PassSteps DEF Starts, PicksOne, Snaps, HasWritten, HasMarked, HasChecked,
         Collects, RestartCollect, Stands, RestartKill
    <3> QED
      BY <3>1, <3>2
  <2>3. CASE RestartCollect
    BY <2>3, CollectTo DEF To, Stage
  <2> QED
    BY <1>3, <2>2, <2>3, StopSteps DEF RestartRequest, RestartGate, RestartKill, RestartNotify, StopIfIdle
<1>4. ASSUME loop' # "gone", stop' \notin {"passing", "collected"} PROVE pass'[Restart].at = "off"
  <2>1. loop # "gone"
    BY <1>4, LoopSteps
  <2>2. CASE stop \notin {"passing", "collected"}
    <3>1. pass[Restart].at = "off"
      BY <2>1, <2>2 DEF Stages, Running
    <3> QED
      BY <1>0, <1>4, <3>1, PassSteps DEF Starts, PassStart, RestartGate, PicksOne, Snaps, HasWritten,
         HasMarked, HasChecked, Collects, RestartCollect, Stands
  <2>3. CASE RestartKill
    BY <1>0, <2>3, TurnsOff, OffIs DEF RestartKill, To
  <2> QED
    BY <1>4, <2>2, <2>3, StopSteps DEF RestartRequest, RestartGate, RestartCollect, RestartNotify, StopIfIdle
<1> QED
  BY <1>1, <1>2, <1>3, <1>4 DEF Stages, Running

-----------------------------------------------------------------------------
(* Sessions.                                                               *)

\* A pass in hand, or with something to do, is of listed sessions.
LEMMA InHand ==
  ASSUME SessTyped, OutTyped, PassTyped, Shapes, Stages, [Next]_vars, NEW q \in AllPasses, pass'[q].at # "off"
  PROVE  \/ pass[q].at # "off" /\ pass'[q].todo \cup pass'[q].s \subseteq pass[q].todo \cup pass[q].s
         \/ pass'[q].todo \cup pass'[q].s \subseteq Listed \cup Closing
<1>1. CASE pass'[q] = pass[q]
  BY <1>1
<1>2. CASE Starts(q)
  <2>1. pass'[q].todo = Listed /\ pass'[q].s = {}
    BY <1>2 DEF Starts, Stage
  <2> QED
    BY <2>1
<1>3. CASE PicksOne(q)
  <2>1. PICK s \in pass[q].todo :
       \/ pass'[q] = Stage("pick", pass[q].todo \ {s}, {}, 0, 0)
       \/ pass'[q] = Stage("snap", pass[q].todo \ {s}, {s}, counted[s], 0)
    BY <1>3 DEF PicksOne
  <2>2. pass'[q].todo = pass[q].todo \ {s} /\ pass'[q].s \subseteq {s}
    BY <2>1 DEF Stage
  <2> QED
    BY <1>3, <2>2 DEF PicksOne
<1>4. CASE Snaps(q)
  <2>1. pass'[q].todo = pass[q].todo /\ pass'[q].s = pass[q].s
    BY <1>4 DEF Snaps, Stage
  <2> QED
    BY <1>4, <2>1 DEF Snaps
<1>5. CASE HasWritten(q)
  <2>1. pass'[q].todo = pass[q].todo /\ pass'[q].s = pass[q].s
    BY <1>5 DEF HasWritten, Stage
  <2> QED
    BY <1>5, <2>1 DEF HasWritten
<1>6. CASE HasMarked(q)
  <2>1. pass'[q].todo = pass[q].todo /\ pass'[q].s = pass[q].s
    BY <1>6 DEF HasMarked, Stage
  <2> QED
    BY <1>6, <2>1 DEF HasMarked
<1>7. CASE HasChecked(q)
  <2>1. pass'[q].todo = pass[q].todo /\ pass'[q].s = {}
    BY <1>7 DEF HasChecked, Stage
  <2> QED
    BY <1>7, <2>1 DEF HasChecked
<1>8. CASE Collects(q)
  <2>1. pass'[q].todo = {} /\ pass'[q].s \subseteq Listed \cup Closing
    BY <1>8 DEF Collects, Stage
  <2> QED
    BY <2>1
<1> QED
  BY <1>1, <1>2, <1>3, <1>4, <1>5, <1>6, <1>7, <1>8, PassSteps DEF Stands

\* Once listed, a session is never on its way there again.
LEMMA StaysListed ==
  ASSUME SessTyped, [Next]_vars, NEW s \in Sessions, sess[s] \notin Unlisted
  PROVE  sess'[s] \notin Unlisted
<1>1. ASSUME NEW x \in Sessions, SessionStep(x) PROVE sess'[s] \notin Unlisted
  BY <1>1 DEF SessTyped, Unlisted, SessionStep, SpawnCheck, SpawnFork, SpawnOpen, SpawnInsert, Enter,
     ReaderCounts, ReaderLogs, ChildDies, ReaderSeesEnd, ReaderFlagsExit, ReaderClears,
     CloseBegin, CloseMoved, CloseEscalates, CloseFinish
<1>2. ASSUME NEW p \in AllPasses, PassStep(p) PROVE sess' = sess
  BY <1>2 DEF PassStep, PassStart, PassPick, PassSnap, PassWrite, PassMark, PassCheck, PassEnd, sessVars
<1>3. ASSUME StopStep PROVE sess' = sess
  BY <1>3 DEF StopStep, Accept, Rearm, RestartRequest, RestartGate, RestartCollect,
     RestartKill, RestartNotify, StopIfIdle, Signal, FinalPass, DaemonExits, Crash, sessVars
<1> QED
  BY <1>1, <1>2, <1>3 DEF Next, vars, sessVars

LEMMA TakesKept ==
  ASSUME SessTyped, OutTyped, PassTyped, Shapes, Stages, Takes, [Next]_vars
  PROVE  Takes'
<1> SUFFICES ASSUME NEW q \in AllPasses, pass'[q].at # "off", NEW s \in pass'[q].todo \cup pass'[q].s
             PROVE  sess'[s] \notin Unlisted
  BY DEF Takes
<1>1. CASE s \in Listed \cup Closing
  BY <1>1, StaysListed DEF Listed, Closing, Unlisted
<1>2. CASE pass[q].at # "off" /\ s \in pass[q].todo \cup pass[q].s
  <2>1. s \in Sessions
    BY <1>2, StagedIs
  <2> QED
    BY <1>2, <2>1, StaysListed DEF Takes
<1> QED
  BY <1>1, <1>2, InHand

LEMMA LivesKept ==
  ASSUME SessTyped, OutTyped, PassTyped, Shapes, Stages, Takes, Lives, [Next]_vars
  PROVE  Lives'
<1>1. ASSUME NEW s \in Sessions, SessionStep(s), NEW x \in Sessions PROVE LifeOf(x)'
  <2>1. LifeOf(x) /\ mark' = mark
    BY <1>1 DEF Lives, SessionStep, SpawnCheck, SpawnFork, SpawnOpen, SpawnInsert,
       ReaderCounts, ReaderLogs, ChildDies, ReaderSeesEnd, ReaderFlagsExit, ReaderClears,
       CloseBegin, CloseMoved, CloseEscalates, CloseFinish, diskVars
  <2>2. CASE x # s
    <3>1. sess'[x] = sess[x] /\ child'[x] = child[x] /\ reader'[x] = reader[x]
          /\ (x \in byRestart' <=> x \in byRestart)
      BY <1>1, <2>2 DEF SessTyped, SessionStep, SpawnCheck, SpawnFork, SpawnOpen, SpawnInsert, Enter,
         ReaderCounts, ReaderLogs, ChildDies, ReaderSeesEnd, ReaderFlagsExit, ReaderClears,
         CloseBegin, CloseMoved, CloseEscalates, CloseFinish
    <3> QED
      BY <2>1, <3>1 DEF LifeOf
  <2>3. CASE x = s
    BY <1>1, <2>1, <2>3 DEF LifeOf, Unlisted, SessTyped, SessionStep, SpawnCheck, SpawnFork, SpawnOpen,
       SpawnInsert, Enter,
       ReaderCounts, ReaderLogs, ChildDies, ReaderSeesEnd, ReaderFlagsExit, ReaderClears,
       CloseBegin, CloseMoved, CloseEscalates, CloseFinish
  <2> QED
    BY <2>2, <2>3
<1>2. ASSUME NEW p \in AllPasses, PassStep(p) PROVE Lives'
  <2>1. UNCHANGED sessVars
    BY <1>2 DEF PassStep, PassStart, PassPick, PassSnap, PassWrite, PassMark, PassCheck, PassEnd
  <2>2. CASE mark' = mark
    BY <2>1, <2>2 DEF Lives, LifeOf, sessVars
  <2>3. CASE PassMark(p)
    <3>1. PICK s \in Sessions : pass[p].s = {s} /\ pass[p].at = "mark" /\ mark' = [mark EXCEPT ![s] = pass[p].seen]
      BY <2>3, MarkTo DEF Advances
    <3>2. sess[s] \notin Unlisted
      BY <3>1 DEF Takes
    <3>3. \A x \in Sessions : sess[x] \in Unlisted => mark'[x] = mark[x]
      BY <3>1, <3>2 DEF OutTyped
    <3> QED
      BY <2>1, <3>3 DEF Lives, LifeOf, sessVars
  <2> QED
    BY <1>2, <2>2, <2>3 DEF PassStep, PassStart, PassPick, PassSnap, PassWrite, PassCheck, PassEnd
<1>3. ASSUME StopStep PROVE Lives'
  <2>1. UNCHANGED <<sess, reader, byRestart, mark>>
    BY <1>3 DEF StopStep, Accept, Rearm, RestartRequest, RestartGate, RestartCollect,
       RestartKill, RestartNotify, StopIfIdle, Signal, FinalPass, DaemonExits, Crash, sessVars, diskVars
  <2>2. \A s \in Sessions : child'[s] = "alive" => child[s] = "alive"
    BY <1>3 DEF StopStep, Accept, Rearm, RestartRequest, RestartGate, RestartCollect,
       RestartKill, RestartNotify, StopIfIdle, Signal, FinalPass, DaemonExits, Crash, sessVars
  <2> QED
    BY <2>1, <2>2 DEF Lives, LifeOf
<1>4. CASE UNCHANGED vars
  BY <1>4 DEF vars, sessVars, diskVars, Lives, LifeOf
<1> QED
  BY <1>1, <1>2, <1>3, <1>4 DEF Next, Lives

-----------------------------------------------------------------------------
(* No child is forgotten.                                                  *)

LEMMA History ==
  ASSUME PassTyped, Shapes, [Next]_vars
  PROVE  slipped \subseteq slipped' /\ behind \subseteq behind' /\ late \subseteq late'
<1>1. ASSUME NEW s \in Sessions, SessionStep(s) PROVE slipped' = slipped /\ late \subseteq late'
  BY <1>1 DEF SessionStep, SpawnCheck, SpawnFork, SpawnOpen, SpawnInsert,
     ReaderCounts, ReaderLogs, ChildDies, ReaderSeesEnd, ReaderFlagsExit, ReaderClears,
     CloseBegin, CloseMoved, CloseEscalates, CloseFinish, historyVars
<1>2. ASSUME NEW p \in AllPasses, PassStep(p) PROVE slipped' = slipped /\ late' = late
  BY <1>2 DEF PassStep, PassStart, PassPick, PassSnap, PassWrite, PassMark, PassCheck, PassEnd, historyVars
<1>3. ASSUME StopStep PROVE slipped \subseteq slipped' /\ late' = late
  BY <1>3 DEF StopStep, Accept, Rearm, RestartRequest, RestartGate, RestartCollect,
     RestartKill, RestartNotify, StopIfIdle, Signal, FinalPass, DaemonExits, Crash, historyVars
<1>4. behind \subseteq behind'
  BY DiskSteps DEF Writes
<1> QED
  BY <1>1, <1>2, <1>3, <1>4 DEF Next, vars, historyVars

LEMMA AliveSteps ==
  ASSUME SessTyped, Stops, [Next]_vars, NEW s \in Sessions, child'[s] = "alive"
  PROVE  child[s] = "alive" \/ stop \in {"none", "marking"}
<1>1. ASSUME NEW x \in Sessions, SessionStep(x) PROVE child[s] = "alive" \/ stop \in {"none", "marking"}
  BY <1>1 DEF Stops, GateFree, SessTyped, SessionStep, SpawnCheck, SpawnFork, SpawnOpen, SpawnInsert, Enter,
     ReaderCounts, ReaderLogs, ChildDies, ReaderSeesEnd, ReaderFlagsExit, ReaderClears,
     CloseBegin, CloseMoved, CloseEscalates, CloseFinish
<1>2. ASSUME NEW p \in AllPasses, PassStep(p) PROVE child' = child
  BY <1>2 DEF PassStep, PassStart, PassPick, PassSnap, PassWrite, PassMark, PassCheck, PassEnd, sessVars
<1>3. ASSUME StopStep PROVE child[s] = "alive"
  BY <1>3 DEF StopStep, Accept, Rearm, RestartRequest, RestartGate, RestartCollect,
     RestartKill, RestartNotify, StopIfIdle, Signal, FinalPass, DaemonExits, Crash, sessVars
<1> QED
  BY <1>1, <1>2, <1>3 DEF Next, vars, sessVars

\* Those to be ended are settled until they are.
LEMMA VictimsStay ==
  ASSUME SessTyped, OutTyped, PassTyped, Shapes, Stages, [Next]_vars,
         loop' # "gone", loop # "gone", stop = "collected", stop' = "collected"
  PROVE  pass'[Restart] = pass[Restart]
<1>1. Restart \in AllPasses /\ Restart \notin Passes
  BY LifecycleAssumption DEF AllPasses
<1>2. pass[Restart].at = "pick" /\ pass[Restart].todo = {}
  BY DEF Stages, Running
<1> QED
  BY <1>1, <1>2, PassSteps DEF Starts, PicksOne, Snaps, HasWritten, HasMarked, HasChecked,
     Collects, RestartCollect, Stands, RestartKill

\* Who is alive when the gate is free is listed, closing, or on its way between.
LEMMA WhereAlive ==
  ASSUME SessTyped, Lives, GateFree, NEW s \in Sessions, child[s] = "alive"
  PROVE  (s \in Listed \cup Closing \/ sess[s] = "moving") /\ ~Exited(s)
BY DEF Lives, LifeOf, GateFree, Listed, Closing, Exited

LEMMA ReachedKept ==
  ASSUME SessTyped, OutTyped, PassTyped, Shapes, Stops, Stages, Lives, Reached, [Next]_vars
  PROVE  Reached'
<1>0. Restart \in AllPasses
  BY DEF AllPasses
<1>1. ASSUME loop' # "gone", stop' = "collected", NEW s \in Sessions, child'[s] = "alive"
      PROVE  s \in pass'[Restart].s \cup slipped'
  <2>1. loop # "gone"
    BY <1>1, LoopSteps
  <2>2. CASE stop = "collected"
    <3>1. child[s] = "alive"
      BY <1>1, <2>2, AliveSteps
    <3> QED
      BY <1>1, <2>1, <2>2, <3>1, VictimsStay, History DEF Reached, Running
  <2>3. CASE RestartCollect
    <3>1. child[s] = "alive" /\ GateFree /\ slipped' = slipped \cup {x \in Sessions : sess[x] = "moving"}
      BY <1>1, <2>3 DEF RestartCollect, sessVars, Stops
    <3>2. pass'[Restart].s = {x \in Listed \cup Closing : ~Exited(x)}
      BY <2>3, CollectTo DEF To, Stage
    <3> QED
      BY <3>1, <3>2, WhereAlive
  <2> QED
    BY <1>1, <2>2, <2>3, StopSteps DEF RestartRequest, RestartGate, RestartKill, RestartNotify, StopIfIdle
<1>2. ASSUME stop' \in {"killed", "notified"}, NEW s \in Sessions, child'[s] = "alive"
      PROVE  s \in slipped'
  <2>1. CASE stop \in {"killed", "notified"}
    BY <1>2, <2>1, AliveSteps, History DEF Reached
  <2>2. CASE RestartKill
    BY <1>2, <2>2, <1>0, History DEF RestartKill, Reached
  <2>3. CASE StopIfIdle
    <3>1. child[s] = "alive" /\ GateFree /\ Listed \cup Closing = {}
          /\ slipped' = slipped \cup {x \in Sessions : sess[x] = "moving"}
      BY <1>2, <2>3 DEF StopIfIdle, sessVars
    <3> QED
      BY <3>1, WhereAlive
  <2>4. CASE RestartNotify
    BY <2>1, <2>4 DEF RestartNotify
  <2> QED
    BY <1>2, <2>1, <2>2, <2>3, <2>4, StopSteps DEF RestartRequest, RestartGate, RestartCollect
<1> QED
  BY <1>1, <1>2 DEF Reached, Running

-----------------------------------------------------------------------------
(* What an ended session leaves.                                           *)

\* A session's end, and the restart's part in it, are settled once.
LEMMA ReaderSteps ==
  ASSUME SessTyped, Lives, [Next]_vars, NEW s \in Sessions
  PROVE  /\ reader'[s] = "done" => reader[s] = "done" \/ ReaderFlagsExit(s) \/ ReaderClears(s)
         /\ Exited(s) => Exited(s)'
         /\ s \in byRestart' => s \in byRestart \/ (restarting /\ reader[s] = "live")
         /\ reader'[s] \in {"live", "draining"} => reader[s] \in {"live", "draining"} \/ sess[s] = "forking"
         /\ SpawnOpen(s) => reader' = reader
<1>1. ASSUME NEW x \in Sessions, SessionStep(x)
      PROVE  /\ reader'[s] = "done" => reader[s] = "done" \/ ReaderFlagsExit(s) \/ ReaderClears(s)
             /\ reader[s] \in {"clearing", "done"} => reader'[s] \in {"clearing", "done"}
             /\ s \in byRestart' => s \in byRestart \/ (restarting /\ reader[s] = "live")
             /\ reader'[s] \in {"live", "draining"} => reader[s] \in {"live", "draining"} \/ sess[s] = "forking"
  <2>1. CASE ReaderFlagsExit(x) \/ ReaderClears(x) \/ ReaderSeesEnd(x)
    BY <2>1 DEF SessTyped, ReaderFlagsExit, ReaderClears, ReaderSeesEnd
  <2>2. CASE SpawnFork(x)
    <3>1. reader[x] = "none" /\ sess[x] = "forking" /\ reader' = [reader EXCEPT ![x] = "live"] /\ byRestart' = byRestart
      BY <2>2 DEF SpawnFork, Enter, Lives, LifeOf
    <3> QED
      BY <3>1 DEF SessTyped
  <2> QED
    BY <1>1, <2>1, <2>2 DEF SessionStep, SpawnCheck, SpawnOpen, SpawnInsert,
       ReaderCounts, ReaderLogs, ChildDies, CloseBegin, CloseMoved, CloseEscalates, CloseFinish
<1>2. ASSUME NEW p \in AllPasses, PassStep(p) PROVE reader' = reader /\ byRestart' = byRestart
  BY <1>2 DEF PassStep, PassStart, PassPick, PassSnap, PassWrite, PassMark, PassCheck, PassEnd, sessVars
<1>3. ASSUME StopStep PROVE reader' = reader /\ byRestart' = byRestart
  BY <1>3 DEF StopStep, Accept, Rearm, RestartRequest, RestartGate, RestartCollect,
     RestartKill, RestartNotify, StopIfIdle, Signal, FinalPass, DaemonExits, Crash, sessVars
<1>4. SpawnOpen(s) => reader' = reader
  BY DEF SpawnOpen
<1> QED
  BY <1>1, <1>2, <1>3, <1>4 DEF Next, vars, sessVars, Exited

LEMMA UndoneKept ==
  ASSUME SessTyped, OutTyped, PassTyped, Shapes, Stops, Stages, Lives, Undone, [Next]_vars
  PROVE  Undone'
<1> SUFFICES ASSUME loop' # "gone", ~restarting'
             PROVE  /\ byRestart' = {}
                    /\ \A s \in Sessions \ late' :
                         reader'[s] = "done" /\ s \in DOMAIN disk' =>
                           \E p \in AllPasses : pass'[p].at \in {"mark", "check"} /\ s \in pass'[p].s
  BY DEF Undone, Running
<1>1. loop # "gone" /\ ~restarting /\ stop = "none"
  BY LoopSteps, StopSteps DEF Stops, RestartRequest, RestartGate, RestartCollect, RestartKill,
     RestartNotify, StopIfIdle
<1>2. byRestart = {}
  BY <1>1 DEF Undone, Running
<1>3. byRestart' = {}
  <2>1. byRestart' \subseteq Sessions
    BY SessTypes DEF SessTyped
  <2> QED
    BY <1>1, <1>2, <2>1, ReaderSteps
<1>4. ASSUME NEW s \in Sessions \ late', reader'[s] = "done", s \in DOMAIN disk'
      PROVE  \E p \in AllPasses : pass'[p].at \in {"mark", "check"} /\ s \in pass'[p].s
  <2>1. s \notin late
    BY <1>4, History
  <2>2. ~ReaderClears(s) /\ ~ReaderFlagsExit(s)
    BY <1>2, <1>4 DEF ReaderClears, Remove, Restrict, ReaderFlagsExit, SessTyped
  <2>3. reader[s] = "done"
    BY <1>4, <2>2, ReaderSteps
  <2>4. CASE s \in DOMAIN disk
    <3>1. PICK p \in AllPasses : pass[p].at \in {"mark", "check"} /\ s \in pass[p].s
      BY <1>1, <2>1, <2>3, <2>4 DEF Undone, Running
    <3>2. CASE pass'[p] = pass[p]
      BY <3>1, <3>2
    <3>3. CASE HasMarked(p)
      BY <3>1, <3>3 DEF HasMarked, Stage
    <3>4. CASE HasChecked(p)
      BY <1>1, <1>4, <2>3, <3>1, <3>4 DEF HasChecked, Exited, Remove, Restrict
    <3>5. ~Stands(p) /\ ~Collects(p)
      BY <1>1, <3>1 DEF Stands, PassEnd, PassDone, RestartKill, Collects, RestartCollect
    <3> QED
      BY <3>1, <3>2, <3>3, <3>4, <3>5, PassSteps DEF Starts, PicksOne, Snaps, HasWritten
  <2>5. CASE s \notin DOMAIN disk
    <3>1. ASSUME NEW x \in Sessions, Opens(x) PROVE FALSE
      <4>1. x = s
        BY <1>4, <2>5, <3>1 DEF Opens, Write
      <4> QED
        BY <1>4, <2>3, <3>1, <4>1 DEF Opens, SpawnOpen
    <3>2. ASSUME NEW x \in Sessions, Removes(x) PROVE FALSE
      BY <1>4, <2>5, <3>2 DEF Removes, Remove, Restrict
    <3>3. PICK p \in AllPasses, x \in Sessions : Writes(p, x)
      BY <1>4, <2>5, <3>1, <3>2, DiskSteps
    <3>4. x = s
      BY <1>4, <2>5, <3>3 DEF Writes, Write
    <3>5. pass'[p].at = "mark" /\ pass'[p].s = {s}
      BY <3>3, <3>4 DEF Writes, Advances, To, Stage
    <3> QED
      BY <3>5
  <2> QED
    BY <2>4, <2>5
<1> QED
  BY <1>3, <1>4

-----------------------------------------------------------------------------
(* What a restart keeps.                                                   *)

LEMMA ListedSteps ==
  ASSUME SessTyped, [Next]_vars, NEW s \in Sessions, sess'[s] \in {"opened", "listed"}
  PROVE  \/ sess[s] = sess'[s]
         \/ sess[s] = "opened" /\ SpawnInsert(s)
         \/ SpawnOpen(s)
<1>1. ASSUME NEW x \in Sessions, SessionStep(x)
      PROVE  sess[s] = sess'[s] \/ (sess[s] = "opened" /\ SpawnInsert(s)) \/ SpawnOpen(s)
  <2>1. CASE x # s
    BY <1>1, <2>1 DEF SessTyped, SessionStep, SpawnCheck, SpawnFork, SpawnOpen, SpawnInsert, Enter,
       ReaderCounts, ReaderLogs, ChildDies, ReaderSeesEnd, ReaderFlagsExit, ReaderClears,
       CloseBegin, CloseMoved, CloseEscalates, CloseFinish
  <2>2. CASE x = s
    BY <1>1, <2>2 DEF SessTyped, SessionStep, SpawnCheck, SpawnFork, SpawnInsert, Enter,
       ReaderCounts, ReaderLogs, ChildDies, ReaderSeesEnd, ReaderFlagsExit, ReaderClears,
       CloseBegin, CloseMoved, CloseEscalates, CloseFinish
  <2> QED
    BY <2>1, <2>2
<1>2. ASSUME NEW p \in AllPasses, PassStep(p) PROVE sess' = sess
  BY <1>2 DEF PassStep, PassStart, PassPick, PassSnap, PassWrite, PassMark, PassCheck, PassEnd, sessVars
<1>3. ASSUME StopStep PROVE sess' = sess
  BY <1>3 DEF StopStep, Accept, Rearm, RestartRequest, RestartGate, RestartCollect,
     RestartKill, RestartNotify, StopIfIdle, Signal, FinalPass, DaemonExits, Crash, sessVars
<1> QED
  BY <1>1, <1>2, <1>3 DEF Next, vars, sessVars

LEMMA KeptSteps ==
  ASSUME SessTyped, Lives, [Next]_vars, NEW s \in Sessions, Kept(s)'
  PROVE  Kept(s) \/ SpawnOpen(s)
<1>1. sess'[s] \in {"opened", "listed"} /\ (s \in byRestart' \/ reader'[s] \in {"live", "draining"})
  BY DEF Kept
<1>2. CASE ~SpawnOpen(s)
  <2>1. sess[s] \in {"opened", "listed"}
    BY <1>1, <1>2, ListedSteps
  <2>2. s \in byRestart \/ reader[s] \in {"live", "draining"}
    BY <1>1, <2>1, ReaderSteps
  <2> QED
    BY <2>1, <2>2 DEF Kept
<1> QED
  BY <1>2

\* The checkpoint of a session that is kept grows, unless a pass leaves it behind.
LEMMA DiskGrows ==
  ASSUME SessTyped, OutTyped, PassTyped, HeldTyped, Shapes, Stops, Lives, Undone, [Next]_vars,
         NEW s \in Sessions, Kept(s), s \in DOMAIN disk
  PROVE  s \in DOMAIN disk' /\ (s \notin behind' => disk'[s] >= disk[s])
<1>0. disk[s] \in Nat
  BY LifecycleAssumption DEF HeldTyped, OutTyped
<1>1. CASE disk' = disk
  BY <1>0, <1>1
<1>2. ASSUME NEW x \in Sessions, Opens(x) PROVE s \in DOMAIN disk' /\ disk'[s] >= disk[s]
  <2>1. x # s
    BY <1>2 DEF Opens, SpawnOpen, Enter, Kept
  <2>2. s \in DOMAIN disk' /\ disk'[s] = disk[s]
    BY <1>2, <2>1 DEF Opens, Write
  <2> QED
    BY <1>0, <2>2
<1>3. ASSUME NEW p \in AllPasses, NEW x \in Sessions, Writes(p, x)
      PROVE  s \in DOMAIN disk' /\ (s \notin behind' => disk'[s] >= disk[s])
  <2>1. PICK h : h = pass[p].held
    OBVIOUS
  <2>2. h \in Nat
    BY <1>3, <2>1, StagedIs, LifecycleAssumption DEF Writes, Advances
  <2>3. disk' = [y \in DOMAIN disk \cup {x} |-> IF y = x THEN h ELSE disk[y]]
    BY <1>3, <2>1 DEF Writes, Write
  <2>4. x = s /\ h < disk[s] => s \in behind'
    BY <1>3, <2>1 DEF Writes
  <2> QED
    BY <1>0, <2>2, <2>3, <2>4
<1>4. ASSUME NEW x \in Sessions, Removes(x) PROVE s \in DOMAIN disk' /\ disk'[s] >= disk[s]
  <2>1. ~ReaderClears(s) /\ ~CloseFinish(s)
    BY DEF ReaderClears, CloseFinish, Enter, Kept, Lives, LifeOf
  <2>2. Running /\ ~restarting => ~Exited(s)
    BY DEF Undone, Kept, Exited
  <2>3. x # s
    BY <1>4, <2>1, <2>2 DEF Removes
  <2>4. s \in DOMAIN disk' /\ disk'[s] = disk[s]
    BY <1>4, <2>3 DEF Removes, Remove, Restrict
  <2> QED
    BY <1>0, <2>4
<1> QED
  BY <1>1, <1>2, <1>3, <1>4, DiskSteps

LEMMA MarkSteps ==
  ASSUME PassTyped, Shapes, [Next]_vars
  PROVE  \/ mark' = mark
         \/ \E p \in AllPasses, s \in Sessions :
              /\ pass[p].at = "mark" /\ pass[p].s = {s}
              /\ mark' = [mark EXCEPT ![s] = pass[p].seen] /\ disk' = disk
<1>1. ASSUME NEW s \in Sessions, SessionStep(s) PROVE mark' = mark
  BY <1>1 DEF SessionStep, SpawnCheck, SpawnFork, SpawnOpen, SpawnInsert,
     ReaderCounts, ReaderLogs, ChildDies, ReaderSeesEnd, ReaderFlagsExit, ReaderClears,
     CloseBegin, CloseMoved, CloseEscalates, CloseFinish, diskVars
<1>2. ASSUME NEW p \in AllPasses, PassStep(p), ~PassMark(p) PROVE mark' = mark
  BY <1>2 DEF PassStep, PassStart, PassPick, PassSnap, PassWrite, PassCheck, PassEnd
<1>3. ASSUME NEW p \in AllPasses, PassMark(p)
      PROVE  \E s \in Sessions : /\ pass[p].at = "mark" /\ pass[p].s = {s}
                                 /\ mark' = [mark EXCEPT ![s] = pass[p].seen] /\ disk' = disk
  BY <1>3, MarkTo DEF Advances, PassMark
<1>4. ASSUME StopStep PROVE mark' = mark
  BY <1>4 DEF StopStep, Accept, Rearm, RestartRequest, RestartGate, RestartCollect,
     RestartKill, RestartNotify, StopIfIdle, Signal, FinalPass, DaemonExits, Crash, diskVars
<1> QED
  BY <1>1, <1>2, <1>3, <1>4 DEF Next, vars, diskVars

LEMMA SavedKept ==
  ASSUME SessTyped, OutTyped, PassTyped, HeldTyped, Shapes, Stops, Stages, Lives, Takes, Undone, Saved,
         [Next]_vars
  PROVE  Saved'
<1> SUFFICES ASSUME NEW s \in Sessions, Kept(s)' PROVE SavedOf(s)'
  BY DEF Saved
<1>1. CASE SpawnOpen(s)
  <2>1. /\ sess[s] = "forked" /\ pass' = pass /\ mark' = mark
        /\ disk' = [y \in DOMAIN disk \cup {s} |-> IF y = s THEN 0 ELSE disk[y]]
    BY <1>1 DEF SpawnOpen, Enter, Write
  <2>2. s \in DOMAIN disk' /\ disk'[s] = 0 /\ mark'[s] = 0
    BY <2>1 DEF Lives, LifeOf, Unlisted
  <2>3. \A p \in AllPasses : pass[p].at = "mark" => s \notin pass[p].s
    BY <2>1 DEF Takes, Unlisted
  <2> QED
    BY <2>1, <2>2, <2>3 DEF SavedOf
<1>2. CASE Kept(s)
  <2>1. SavedOf(s) /\ s \in DOMAIN disk /\ disk[s] \in Nat
    BY <1>2, LifecycleAssumption DEF Saved, SavedOf, HeldTyped, OutTyped
  <2>2. s \in DOMAIN disk' /\ (s \notin behind' => disk'[s] >= disk[s] /\ s \notin behind)
    BY <1>2, <2>1, DiskGrows, History
  <2> SUFFICES ASSUME s \notin behind'
               PROVE  /\ disk'[s] >= mark'[s]
                      /\ \A q \in AllPasses : pass'[q].at = "mark" /\ s \in pass'[q].s => disk'[s] >= pass'[q].seen
    BY <2>2 DEF SavedOf
  <2>3. disk'[s] >= disk[s] /\ disk'[s] \in Nat /\ disk[s] >= mark[s] /\ mark[s] \in Nat
    <3>1. HeldTyped' /\ OutTyped'
      BY HeldTypes, OutTypes
    <3>2. disk'[s] \in Nat /\ mark[s] \in Nat
      BY <2>2, <3>1, LifecycleAssumption DEF HeldTyped, OutTyped
    <3> QED
      BY <2>1, <2>2, <3>2 DEF SavedOf
  <2>4. disk'[s] >= mark'[s]
    <3>1. CASE mark' = mark
      BY <2>1, <2>3, <3>1
    <3>2. ASSUME NEW p \in AllPasses, NEW x \in Sessions, pass[p].at = "mark", pass[p].s = {x},
                 mark' = [mark EXCEPT ![x] = pass[p].seen], disk' = disk
          PROVE  disk'[s] >= mark'[s]
      <4>1. CASE x # s
        <5>1. mark'[s] = mark[s]
          BY <3>2, <4>1 DEF OutTyped
        <5> QED
          BY <2>1, <2>3, <5>1
      <4>2. CASE x = s
        <5>1. mark'[s] = pass[p].seen
          BY <3>2, <4>2 DEF OutTyped
        <5>2. disk[s] >= pass[p].seen
          BY <2>1, <2>2, <3>2, <4>2 DEF SavedOf
        <5> QED
          BY <3>2, <5>1, <5>2
      <4> QED
        BY <4>1, <4>2
    <3> QED
      BY <3>1, <3>2, MarkSteps
  <2>5. ASSUME NEW q \in AllPasses, pass'[q].at = "mark", s \in pass'[q].s
        PROVE  disk'[s] >= pass'[q].seen
    <3>1. CASE pass'[q] = pass[q]
      <4>1. PICK n : n = pass[q].seen
        OBVIOUS
      <4>2. n \in Nat
        BY <2>5, <3>1, <4>1, StagedIs, LifecycleAssumption
      <4>3. disk[s] >= n
        BY <2>1, <2>2, <2>5, <3>1, <4>1 DEF SavedOf
      <4>4. disk'[s] >= n
        BY <2>1, <2>3, <4>2, <4>3
      <4> QED
        BY <3>1, <4>1, <4>4
    <3>2. CASE HasWritten(q)
      <4>1. PICK x \in Sessions : /\ pass[q].s = {x} /\ Writes(q, x)
                                  /\ pass'[q] = Stage("mark", pass[q].todo, {x}, pass[q].seen, pass[q].held)
        BY <3>2 DEF HasWritten
      <4>2. PICK h, n : h = pass[q].held /\ n = pass[q].seen
        OBVIOUS
      <4>3. h \in Nat /\ n \in Nat
        BY <3>2, <4>2, StagedIs, LifecycleAssumption DEF HasWritten
      <4>4. pass'[q].seen = n /\ pass'[q].s = {x}
        BY <4>1, <4>2 DEF Stage
      <4>5. x = s
        BY <2>5, <4>4
      <4>6. disk'[s] = h /\ ~(h < n)
        BY <4>1, <4>2, <4>5 DEF Writes, Write
      <4> QED
        BY <4>3, <4>4, <4>6
    <3>3. CASE PicksOne(q)
      <4>1. PICK x \in pass[q].todo :
           \/ pass'[q] = Stage("pick", pass[q].todo \ {x}, {}, 0, 0)
           \/ pass'[q] = Stage("snap", pass[q].todo \ {x}, {x}, counted[x], 0)
        BY <3>3 DEF PicksOne
      <4> QED
        BY <2>5, <4>1 DEF Stage
    <3>4. CASE Snaps(q)
      BY <2>5, <3>4 DEF Snaps, Stage
    <3>5. CASE HasMarked(q)
      BY <2>5, <3>5 DEF HasMarked, Stage
    <3>6. CASE Starts(q)
      BY <2>5, <3>6 DEF Starts, Stage
    <3>7. CASE HasChecked(q)
      BY <2>5, <3>7 DEF HasChecked, Stage
    <3>8. CASE Collects(q)
      BY <2>5, <3>8 DEF Collects, Stage
    <3>9. ~Stands(q)
      BY <2>5 DEF Stands
    <3> QED
      BY <3>1, <3>2, <3>3, <3>4, <3>5, <3>6, <3>7, <3>8, <3>9, PassSteps
  <2> QED
    BY <2>4, <2>5
<1> QED
  BY <1>1, <1>2, KeptSteps

\* Whoever is listed during the restart was listed at its start.
LEMMA ListedBefore ==
  ASSUME SessTyped, Stops, [Next]_vars, stop \notin {"none", "marking"}, NEW s \in Sessions, s \in Listed'
  PROVE  s \in Listed /\ ~SpawnOpen(s)
<1>1. sess[s] \notin {"forked", "opened"} /\ sess'[s] = "listed"
  BY DEF Stops, GateFree, Listed
<1>2. ~SpawnOpen(s)
  BY <1>1 DEF SpawnOpen, Enter
<1> QED
  BY <1>1, <1>2, ListedSteps DEF Listed

\* As long as a pass is under way, it comes to whoever is owed.
LEMMA PassComes ==
  ASSUME SessTyped, OutTyped, PassTyped, HeldTyped, Shapes, Stops, Stages, Lives, Undone, Saved,
         [Next]_vars, promised' = promised, NEW p \in AllPasses, pass[p].at # "off", pass'[p].at # "off",
         ~Collects(p),
         NEW s \in Sessions, s \in Listed, s \notin behind', ~Exited(s), s \in DOMAIN promised, OwedOf(p, s)
  PROVE  OwedOf(p, s)'
<1>1. Kept(s) /\ s \notin behind
  BY History DEF Listed, Exited, Kept, Lives, LifeOf, SessTyped
<1>2. SavedOf(s) /\ s \in DOMAIN disk
  BY <1>1 DEF Saved, SavedOf
<1>3. s \in DOMAIN disk' /\ disk'[s] >= disk[s]
  BY <1>1, <1>2, DiskGrows
<1>4. /\ disk[s] \in Nat /\ disk'[s] \in Nat /\ promised[s] \in 0..out[s]
      /\ mark[s] \in Nat /\ out[s] \in Nat /\ counted[s] \in {out[s], out[s] + 1}
  <2>1. HeldTyped' /\ OutTyped'
    BY HeldTypes, OutTypes
  <2> QED
    BY <1>2, <1>3, <2>1, LifecycleAssumption DEF HeldTyped, OutTyped
<1>5. CASE disk[s] >= promised[s]
  <2>1. disk'[s] >= promised'[s]
    BY <1>3, <1>4, <1>5
  <2> QED
    BY <2>1 DEF OwedOf
<1>7. ~Starts(p) /\ ~Stands(p)
  BY DEF Starts, Stands
<1>8. CASE pass'[p] = pass[p]
  BY <1>5, <1>8 DEF OwedOf
<1>9. CASE PicksOne(p)
  <2>1. PICK x \in pass[p].todo :
       \/ /\ Exited(x) \/ counted[x] = mark[x]
          /\ pass'[p] = Stage("pick", pass[p].todo \ {x}, {}, 0, 0)
       \/ pass'[p] = Stage("snap", pass[p].todo \ {x}, {x}, counted[x], 0)
    BY <1>9 DEF PicksOne
  <2>2. pass[p].at = "pick"
    BY <1>9 DEF PicksOne
  <2>3. CASE s \in pass[p].todo /\ s # x
    BY <2>1, <2>3 DEF OwedOf, Stage
  <2>4. CASE s = x /\ counted[s] = mark[s]
    <3>1. disk[s] >= mark[s]
      BY <1>1, <1>2 DEF SavedOf
    <3>2. disk[s] >= promised[s]
      BY <1>4, <2>4, <3>1
    <3> QED
      BY <1>5, <3>2
  <2>5. CASE s = x /\ pass'[p] = Stage("snap", pass[p].todo \ {x}, {x}, counted[x], 0)
    BY <2>5 DEF OwedOf, Stage
  <2> QED
    BY <1>5, <2>1, <2>2, <2>3, <2>4, <2>5 DEF OwedOf
<1>10. CASE Snaps(p)
  <2>1. PICK x \in Sessions : /\ pass[p].s = {x} /\ pass[p].at = "snap"
                              /\ pass'[p] = Stage("write", pass[p].todo, {x}, pass[p].seen, out[x])
    BY <1>10 DEF Snaps
  <2>2. /\ pass'[p].todo = pass[p].todo /\ pass'[p].at = "write"
        /\ pass'[p].s = {x} /\ pass'[p].held = out[x]
    BY <2>1 DEF Stage
  <2>3. CASE s = x
    <3>1. out[s] >= promised[s]
      BY <1>4
    <3>2. pass'[p].held >= promised'[s]
      BY <2>2, <2>3, <3>1
    <3> QED
      BY <2>2, <2>3, <3>2 DEF OwedOf
  <2>4. CASE s \in pass[p].todo
    BY <2>2, <2>4 DEF OwedOf
  <2> QED
    BY <1>5, <2>1, <2>3, <2>4 DEF OwedOf
<1>11. CASE HasWritten(p)
  <2>1. PICK x \in Sessions : /\ pass[p].s = {x} /\ pass[p].at = "write" /\ Writes(p, x)
                              /\ pass'[p] = Stage("mark", pass[p].todo, {x}, pass[p].seen, pass[p].held)
    BY <1>11 DEF HasWritten
  <2>2. pass'[p].todo = pass[p].todo
    BY <2>1 DEF Stage
  <2>3. CASE s = x /\ pass[p].held >= promised[s]
    <3>1. disk'[s] = pass[p].held
      BY <2>1, <2>3 DEF Writes, Write
    <3>2. disk'[s] >= promised'[s]
      BY <2>3, <3>1
    <3> QED
      BY <3>2 DEF OwedOf
  <2>4. CASE s \in pass[p].todo
    BY <2>2, <2>4 DEF OwedOf
  <2> QED
    BY <1>5, <2>1, <2>3, <2>4 DEF OwedOf
<1>12. CASE HasMarked(p) \/ HasChecked(p)
  <2>1. pass[p].at \in {"mark", "check"} /\ pass'[p].todo = pass[p].todo
    <3>1. CASE HasMarked(p)
      BY <3>1 DEF HasMarked, Stage
    <3>2. CASE HasChecked(p)
      BY <3>2 DEF HasChecked, Stage
    <3> QED
      BY <1>12, <3>1, <3>2
  <2> QED
    BY <1>5, <2>1 DEF OwedOf
<1> QED
  BY <1>7, <1>8, <1>9, <1>10, <1>11, <1>12, PassSteps

LEMMA OwedKept ==
  ASSUME SessTyped, OutTyped, PassTyped, HeldTyped, StopTyped, Shapes, Stops, Stages, Lives, Undone, Saved, Owed,
         [Next]_vars
  PROVE  Owed'
<1>0. Restart \in AllPasses
  BY DEF AllPasses
<1>1. ASSUME loop' # "gone", stop' = "passing",
             NEW s \in Sessions, s \in Listed', s \notin behind', ~Exited(s)', s \in DOMAIN promised'
      PROVE  OwedOf(Restart, s)'
  <2>1. loop # "gone" /\ ~Exited(s)
    BY <1>1, LoopSteps, ReaderSteps
  <2>2. CASE stop = "passing"
    <3>1. promised' = promised
      BY <1>1, <2>2, PromiseSteps DEF RestartRequest, RestartCollect
    <3>2. s \in Listed
      BY <1>1, <2>2, ListedBefore
    <3>3. s \notin behind
      BY <1>1, History
    <3>4. OwedOf(Restart, s)
      BY <1>1, <2>1, <2>2, <3>1, <3>2, <3>3 DEF Owed, Running
    <3>5. pass[Restart].at # "off" /\ pass'[Restart].at # "off" /\ ~Collects(Restart)
      BY <1>1, <2>1, <2>2, StagesKept DEF Stages, Running, Collects, RestartCollect
    <3> QED
      BY <1>0, <1>1, <2>1, <2>2, <3>1, <3>2, <3>4, <3>5, PassComes
  <2>3. CASE RestartGate
    <3>1. pass'[Restart].todo = Listed
      BY <1>0, <2>3, Begins DEF RestartGate, To, Stage
    <3>2. Listed' = Listed
      BY <2>3 DEF RestartGate, sessVars, Listed
    <3> QED
      BY <1>1, <3>1, <3>2 DEF OwedOf
  <2> QED
    BY <1>1, <2>2, <2>3, StopSteps DEF RestartRequest, RestartCollect, RestartKill, RestartNotify, StopIfIdle
<1>2. ASSUME stop' \in {"collected", "killed", "notified"},
             NEW s \in Sessions, s \in Listed', s \notin behind', Kept(s)', s \in DOMAIN promised'
      PROVE  disk'[s] >= promised'[s]
  <2>0. s \notin behind
    BY <1>2, History
  <2>1. CASE stop \in {"collected", "killed", "notified"}
    <3>1. promised' = promised
      BY <2>1, PromiseSteps DEF RestartRequest, RestartCollect
    <3>2. s \in Listed /\ Kept(s)
      BY <1>2, <2>1, ListedBefore, KeptSteps
    <3>3. disk[s] >= promised[s] /\ s \in DOMAIN disk
      BY <1>2, <2>0, <2>1, <3>1, <3>2 DEF Owed, Saved, SavedOf
    <3>4. s \in DOMAIN disk' /\ disk'[s] >= disk[s]
      BY <1>2, <3>2, <3>3, DiskGrows
    <3>5. disk[s] \in Nat /\ disk'[s] \in Nat /\ promised[s] \in Nat
      <4>1. HeldTyped' /\ OutTyped'
        BY HeldTypes, OutTypes
      <4> QED
        BY <1>2, <3>1, <3>3, <3>4, <4>1, LifecycleAssumption DEF HeldTyped, OutTyped
    <3> QED
      BY <3>1, <3>3, <3>4, <3>5
  <2>2. CASE RestartCollect
    <3>1. /\ Running /\ stop = "passing" /\ pass[Restart].at = "pick" /\ pass[Restart].todo = {}
          /\ promised' = Restrict(promised, {x \in Listed \cup Closing : ~Exited(x)} \cap DOMAIN promised)
          /\ disk' = disk /\ sess' = sess
      BY <2>2 DEF RestartCollect, PassDone, sessVars
    <3>2. s \in Listed /\ ~Exited(s) /\ s \in DOMAIN promised /\ promised'[s] = promised[s]
      BY <1>2, <3>1 DEF Restrict, Listed
    <3>4. OwedOf(Restart, s)
      BY <2>0, <3>1, <3>2 DEF Owed
    <3>5. disk[s] >= promised[s]
      BY <3>1, <3>4 DEF OwedOf
    <3> QED
      BY <3>1, <3>2, <3>5
  <2>3. CASE StopIfIdle
    BY <1>2, <2>3 DEF StopIfIdle, Stops
  <2>4. CASE RestartKill \/ RestartNotify
    BY <2>1, <2>4 DEF RestartKill, RestartNotify
  <2> QED
    BY <1>2, <2>1, <2>2, <2>3, <2>4, StopSteps DEF RestartRequest, RestartGate
<1>3. Listed' \subseteq Sessions
  BY DEF Listed
<1> QED
  BY <1>1, <1>2, <1>3 DEF Owed, Running

\* A daemon that is gone leaves all as it is; children may still die.
LEMMA GoneStays ==
  ASSUME loop = "gone", [Next]_vars
  PROVE  UNCHANGED <<sess, reader, byRestart, disk, stop, cause, promised, behind>>
<1>1. ASSUME NEW s \in Sessions, SessionStep(s)
      PROVE  UNCHANGED <<sess, reader, byRestart, disk, stop, cause, promised, behind>>
  BY <1>1 DEF Running, SessionStep, SpawnCheck, SpawnFork, SpawnOpen, SpawnInsert,
     ReaderCounts, ReaderLogs, ChildDies, ReaderSeesEnd, ReaderFlagsExit, ReaderClears,
     CloseBegin, CloseMoved, CloseEscalates, CloseFinish, diskVars, stopVars, historyVars
<1>2. ASSUME NEW p \in AllPasses, PassStep(p) PROVE FALSE
  BY <1>2 DEF Running, PassStep, PassStart, PassPick, PassSnap, PassWrite, PassMark, PassCheck, PassEnd
<1>3. ASSUME StopStep PROVE FALSE
  BY <1>3 DEF Running, StopStep, Accept, Rearm, RestartRequest, RestartGate, RestartCollect,
     RestartKill, RestartNotify, StopIfIdle, Signal, FinalPass, DaemonExits, Crash
<1> QED
  BY <1>1, <1>2, <1>3 DEF Next, vars, sessVars, diskVars, stopVars, historyVars

LEMMA LastKept ==
  ASSUME SessTyped, OutTyped, PassTyped, HeldTyped, StopTyped, Shapes, Stops, Stages, Lives, Undone,
         Saved, Last, [Next]_vars
  PROVE  Last'
<1>0. Final \in AllPasses /\ Final \notin Passes /\ Final # Restart
  BY LifecycleAssumption DEF AllPasses
<1>1. ASSUME pass[Final].at # "off", Unsaved' PROVE promised' = promised /\ (Unsaved \/ DOMAIN promised = {})
  <2>1. pass[Final] # Off
    BY <1>1, OffIs
  <2>2. stop' \in {"marking", "passing"}
    BY <1>1 DEF Unsaved
  <2>3. ~(RestartCollect \/ FinalPass)
    BY <2>1, <2>2 DEF RestartCollect, FinalPass
  <2>4. promised' = promised
    BY <2>1, <2>3, PromiseSteps
  <2>5. Unsaved \/ stop = "none"
    BY <2>2, StopSteps DEF Unsaved, RestartRequest, RestartGate, RestartCollect, RestartKill,
       RestartNotify, StopIfIdle
  <2> QED
    BY <2>4, <2>5 DEF Stops
<1>2. ASSUME pass'[Final].at # "off" PROVE pass[Final].at # "off" \/ FinalPass
  BY <1>0, <1>2, PassSteps DEF Starts, PassStart, PicksOne, Snaps, HasWritten, HasMarked, HasChecked,
     Collects, Stands
<1>3. ASSUME pass'[Final].at # "off", Unsaved',
             NEW s \in Sessions, s \in Listed', s \notin behind', ~Exited(s)', s \in DOMAIN promised'
      PROVE  OwedOf(Final, s)'
  <2>1. CASE FinalPass
    <3>1. pass'[Final].todo = Listed /\ sess' = sess
      BY <1>0, <2>1, Begins DEF FinalPass, To, Stage, sessVars
    <3> QED
      BY <1>3, <3>1 DEF OwedOf, Listed
  <2>2. CASE pass[Final].at # "off"
    <3>1. promised' = promised /\ Unsaved /\ s \in DOMAIN promised
      BY <1>1, <1>3, <2>2
    <3>2. s \in Listed
      <4>1. CASE stop = "marking"
        <5>1. sess[s] \notin Unlisted
          BY <2>2, <3>1, <4>1 DEF Last
        <5> QED
          BY <1>3, <5>1, ListedSteps DEF Listed, SpawnOpen, Enter, Unlisted
      <4>2. CASE stop = "passing"
        BY <1>3, <4>2, ListedBefore
      <4> QED
        BY <3>1, <4>1, <4>2 DEF Unsaved
    <3>3. s \notin behind /\ ~Exited(s)
      BY <1>3, History, ReaderSteps
    <3>4. OwedOf(Final, s)
      BY <2>2, <3>1, <3>2, <3>3 DEF Last
    <3>5. ~Collects(Final)
      BY <1>0 DEF Collects
    <3> QED
      BY <1>0, <1>3, <2>2, <3>1, <3>2, <3>3, <3>4, <3>5, PassComes
  <2> QED
    BY <1>2, <1>3, <2>1, <2>2
<1>4. ASSUME pass'[Final].at # "off", stop' = "marking", NEW s \in DOMAIN promised'
      PROVE  sess'[s] \notin Unlisted
  <2>1. CASE FinalPass
    <3>1. stop = "marking" /\ sess' = sess /\ promised' = Restrict(promised, Listed \cap DOMAIN promised)
      BY <1>4, <2>1 DEF FinalPass, stopVars, sessVars
    <3>2. s \in Listed
      BY <1>4, <3>1 DEF Restrict
    <3> QED
      BY <3>1, <3>2 DEF Listed, Unlisted
  <2>2. CASE pass[Final].at # "off"
    <3>1. promised' = promised /\ Unsaved /\ s \in DOMAIN promised
      BY <1>1, <1>4, <2>2 DEF Unsaved
    <3>2. stop = "marking"
      BY <1>4, <3>1, StopSteps DEF RestartRequest, RestartGate, RestartCollect, RestartKill,
         RestartNotify, StopIfIdle, Unsaved
    <3>3. sess[s] \notin Unlisted /\ s \in Sessions
      BY <2>2, <3>1, <3>2 DEF Last, HeldTyped
    <3> QED
      BY <3>3, StaysListed
  <2> QED
    BY <1>2, <1>4, <2>1, <2>2
<1>5. ASSUME loop' = "gone", cause' # "crash", Unsaved',
             NEW s \in Sessions, s \in Listed', s \notin behind', ~Exited(s)', s \in DOMAIN promised'
      PROVE  disk'[s] >= promised'[s]
  <2>1. CASE loop = "gone"
    BY <1>5, <2>1, GoneStays DEF Last, Unsaved, Listed, Exited
  <2>2. CASE DaemonExits
    <3>1. /\ pass[Final].at = "pick" /\ pass[Final].todo = {}
          /\ UNCHANGED <<sess, reader, disk, stop, promised, behind>>
      BY <2>2 DEF DaemonExits, PassDone, sessVars, historyVars
    <3>2. OwedOf(Final, s)
      BY <1>5, <3>1 DEF Last, Unsaved, Listed, Exited
    <3> QED
      BY <3>1, <3>2 DEF OwedOf
  <2> QED
    BY <1>5, <2>1, <2>2, LoopSteps DEF Crash
<1>6. Listed' \subseteq Sessions
  BY DEF Listed
<1> QED
  BY <1>3, <1>4, <1>5, <1>6 DEF Last

LEMMA OnDiskKept ==
  ASSUME SessTyped, PassTyped, Shapes, Lives, OnDisk, [Next]_vars
  PROVE  OnDisk'
<1> SUFFICES ASSUME NEW s \in Sessions, child'[s] = "alive" PROVE s \in DOMAIN disk' \/ sess'[s] = "forked"
  BY DEF OnDisk
<1>1. ASSUME NEW x \in Sessions, SessionStep(x)
      PROVE  \/ child[s] = "alive" /\ (sess[s] = "forked" => sess'[s] = "forked" \/ SpawnOpen(s))
             \/ sess'[s] = "forked"
  BY <1>1 DEF SessTyped, SessionStep, SpawnCheck, SpawnFork, SpawnOpen, SpawnInsert, Enter,
     ReaderCounts, ReaderLogs, ChildDies, ReaderSeesEnd, ReaderFlagsExit, ReaderClears,
     CloseBegin, CloseMoved, CloseEscalates, CloseFinish
<1>2. ASSUME NEW p \in AllPasses, PassStep(p) PROVE UNCHANGED <<sess, child>>
  BY <1>2 DEF PassStep, PassStart, PassPick, PassSnap, PassWrite, PassMark, PassCheck, PassEnd, sessVars
<1>3. ASSUME StopStep PROVE sess' = sess /\ child[s] = "alive"
  BY <1>3 DEF StopStep, Accept, Rearm, RestartRequest, RestartGate, RestartCollect,
     RestartKill, RestartNotify, StopIfIdle, Signal, FinalPass, DaemonExits, Crash, sessVars
<1>4. \/ child[s] = "alive" /\ (sess[s] = "forked" => sess'[s] = "forked" \/ SpawnOpen(s))
      \/ sess'[s] = "forked"
  BY <1>1, <1>2, <1>3 DEF Next, vars, sessVars
<1>5. CASE SpawnOpen(s)
  BY <1>5 DEF SpawnOpen, Write
<1>6. CASE child[s] = "alive" /\ s \in DOMAIN disk
  <2>1. ~Removes(s)
    BY <1>6 DEF Removes, ReaderClears, CloseFinish, Enter, Exited, Lives, LifeOf
  <2> QED
    BY <1>6, <2>1, DiskSteps DEF Opens, Writes, Write, Removes, Remove, Restrict
<1> QED
  BY <1>4, <1>5, <1>6 DEF OnDisk

-----------------------------------------------------------------------------
(* The theorems.                                                           *)

LEMMA InvInit == Init => Inv
<1> SUFFICES ASSUME Init PROVE Inv
  OBVIOUS
<1>1. SessTyped /\ OutTyped /\ HeldTyped /\ StopTyped
  <2>1. SessTyped
    BY DEF Init, SessTyped
  <2>2. OutTyped
    BY LifecycleAssumption DEF Init, OutTyped
  <2>3. HeldTyped
    <3>1. DOMAIN disk = {} /\ DOMAIN promised = {}
      BY DEF Init
    <3> QED
      BY <3>1 DEF HeldTyped
  <2>4. StopTyped
    BY DEF Init, StopTyped
  <2> QED
    BY <2>1, <2>2, <2>3, <2>4
<1>2. PassTyped /\ \A p \in AllPasses : pass[p].at = "off"
  BY OffIs DEF Init, PassTyped
<1>3. Shapes /\ Stages /\ Takes
  BY <1>2, LifecycleAssumption DEF Init, Shapes, ShapeOf, Working, Stages, Running, Takes, AllPasses
<1>4. Stops /\ Reached
  BY DEF Init, Stops, Reached, GateFree
<1>5. Lives /\ Saved /\ Undone
  BY DEF Init, Lives, LifeOf, Unlisted, Saved, Kept, Undone
<1>6. Owed /\ Last /\ OnDisk
  BY DEF Init, Owed, Last, Unsaved, OnDisk
<1> QED
  BY <1>1, <1>2, <1>3, <1>4, <1>5, <1>6, TypeParts DEF Inv

LEMMA InvNext == Inv /\ [Next]_vars => Inv'
<1> SUFFICES ASSUME Inv, [Next]_vars PROVE Inv'
  OBVIOUS
<1>1. /\ SessTyped /\ OutTyped /\ PassTyped /\ HeldTyped /\ StopTyped
      /\ Shapes /\ Stops /\ Stages /\ Lives /\ Takes /\ Reached /\ Undone /\ Saved /\ Owed
      /\ Last /\ OnDisk
  BY TypeParts DEF Inv
<1>2. SessTyped' /\ OutTyped' /\ PassTyped' /\ HeldTyped' /\ StopTyped'
  BY <1>1, SessTypes, OutTypes, PassTypes, HeldTypes, StopTypes
<1>3. (SessTyped /\ OutTyped /\ PassTyped /\ HeldTyped /\ StopTyped)' => TypeOK'
  BY DEF TypeOK, SessTyped, OutTyped, PassTyped, HeldTyped, StopTyped
<1>4. Shapes' /\ Stops' /\ Stages' /\ Lives' /\ Takes'
  BY <1>1, ShapesKept, StopsKept, StagesKept, LivesKept, TakesKept
<1>5. Reached' /\ Undone' /\ Saved' /\ Owed' /\ Last' /\ OnDisk'
  BY <1>1, ReachedKept, UndoneKept, SavedKept, OwedKept, LastKept, OnDiskKept
<1> QED
  BY <1>2, <1>3, <1>4, <1>5 DEF Inv

\* The inductive invariant holds.
THEOREM Invariance == Spec => []Inv
BY InvInit, InvNext, PTL DEF Spec

\* Every variable has its type.
THEOREM TypeCorrect == Spec => []TypeOK
<1>1. Inv => TypeOK
  BY DEF Inv
<1> QED
  BY <1>1, Invariance, PTL

\* A restart or an idle stop leaves no child behind that the app would start a
\* second time, save one a close had off both lists at that moment, and those of
\* a restart that a signal or a crash cut short before its kills: terminate_all
\* and stop_if_idle, against the signal handler.
THEOREM NobodySurvives == Spec => []NoSurvivor
<1>1. Inv => NoSurvivor
  <2> SUFFICES ASSUME Inv, loop = "gone", restarting
               PROVE  \/ Unkilled /\ cause \in {"signal", "crash"}
                      \/ \A s \in Sessions : child[s] = "alive" => s \in slipped
    BY DEF NoSurvivor
  <2>1. stop # "none" /\ (stop = "notified" \/ cause \in {"signal", "crash"})
    BY DEF Inv, Stops
  <2>2. CASE stop \in {"killed", "notified"}
    BY <2>2 DEF Inv, Reached
  <2>3. CASE stop \in {"marking", "passing", "collected"}
    BY <2>1, <2>3 DEF Unkilled, Unsaved
  <2> QED
    BY <2>1, <2>2, <2>3 DEF Inv, TypeOK
<1> QED
  BY <1>1, Invariance, PTL

\* Whoever outlives the daemon is on disk, where the supervisor's sweep finds
\* it, however the daemon ends, save a child just forked: spawn, reader_loop,
\* Closing::finish and checkpoint_all.
THEOREM SurvivorsAreFound == Spec => []SurvivorsAreOnDisk
<1>1. Inv => SurvivorsAreOnDisk
  BY DEF Inv, OnDisk, SurvivorsAreOnDisk
<1> QED
  BY <1>1, Invariance, PTL

\* A restart keeps a checkpoint of every listed session that was not seen to end
\* before, with all that was logged when its flag went up, save what a pass left
\* behind; cut short by a signal, save those that ended meanwhile; by a crash,
\* the checkpoint alone: terminate_all, checkpoint_all, reader_loop, run_server.
THEOREM SessionsAreKept == Spec => []RestartKeepsSessions
<1>1. Inv => RestartKeepsSessions
  <2> SUFFICES ASSUME Inv, loop = "gone", restarting, NEW s \in Listed, s \in byRestart \/ reader[s] = "live"
               PROVE  /\ s \in DOMAIN disk
                      /\ s \in DOMAIN promised \ behind /\ (Unsaved => cause # "crash" /\ ~Exited(s))
                           => disk[s] >= promised[s]
    BY DEF RestartKeepsSessions
  <2>1. Kept(s) /\ s \in Sessions
    BY DEF Kept, Listed
  <2>2. s \in DOMAIN disk
    BY <2>1 DEF Inv, Saved, SavedOf
  <2>3. CASE Unsaved
    BY <2>2, <2>3 DEF Inv, Last
  <2>4. CASE stop \in {"collected", "killed", "notified"}
    BY <2>1, <2>2, <2>4 DEF Inv, Owed, Unsaved
  <2>5. stop \in {"marking", "passing", "collected", "killed", "notified"}
    BY DEF Inv, TypeOK, Stops
  <2> QED
    BY <2>3, <2>4, <2>5 DEF Unsaved
<1> QED
  BY <1>1, Invariance, PTL

\* In a daemon that is not restarting a session that ended by itself leaves no
\* checkpoint, whatever passes wrote it at that moment: reader_loop's end and the
\* check of checkpoint_all.
THEOREM EndsLeaveNothing == Spec => []EndLeavesNothing
<1>1. Inv => EndLeavesNothing
  <2> SUFFICES ASSUME Inv, Running, ~restarting, NEW s \in Sessions \ late, reader[s] = "done",
                      \A p \in AllPasses : pass[p] = Off \/ s \notin pass[p].s
               PROVE  s \notin DOMAIN disk
    BY DEF EndLeavesNothing
  <2>1. \A p \in AllPasses : pass[p].at \in {"mark", "check"} => s \notin pass[p].s
    BY OffIs
  <2> QED
    BY <2>1 DEF Inv, Undone
<1> QED
  BY <1>1, Invariance, PTL
=============================================================================
