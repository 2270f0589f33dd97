------------------------- MODULE RelayMirrorProofs -------------------------
(***************************************************************************)
(* RelayStream implements PtyMirror for any number of watchers and         *)
(* connections, any queue size and any amount of output: every step of the *)
(* stream is a step of the mirror or leaves it as it is.                   *)
(*                                                                         *)
(* The invariant of RelayStreamProofs carries the refinement, with one     *)
(* addition: before its first answer a screen is blank and not stale.      *)
(***************************************************************************)
EXTENDS RelayStreamProofs

-----------------------------------------------------------------------------
(* What one client's step does to the others.                              *)

\* Nothing the mirror sees of b changes.
Unseen(b) == pump'[b] = pump[b] /\ stale'[b] = stale[b] /\ shown'[b] = shown[b]

\* The log and the child's end are as they were.
LogStill == out' = out /\ exit' = exit

\* The steps that can change what the mirror sees of a.
Visible(a) ==
  \/ AttachOk(a) \/ AttachFails(a) \/ PumpOutput(a) \/ PumpGap(a) \/ PumpExit(a)
  \/ ReplayOk(a) \/ ReplayFails(a) \/ Leave(a)

\* The steps that only move a client from one wait to the next.
Waiting(a) == SendAttach(a) \/ HandleAttach(a) \/ HandleReplay(a)

\* The steps that change no phase, no screen and no mark of staleness.
Hidden(a) == Deliver(a) \/ PumpFence(a) \/ FenceExpires(a) \/ Detach(a)

\* The steps of the client that spawned the child: it is no watcher.
Spawning(a) == HandleSpawn(a) \/ SpawnOk(a)

LEMMA OthersAreStill ==
  ASSUME TypeOK, NEW a \in Attachments,
         Visible(a) \/ Waiting(a) \/ Hidden(a) \/ Spawning(a)
  PROVE  LogStill /\ \A b \in Attachments \ {a} : Unseen(b)
<1> USE DEF TypeOK, LogStill, Unseen, daemonVars, wireVars, clientVars, historyVars
<1>1. CASE Visible(a)
  <2>1. CASE AttachOk(a)      BY <2>1 DEF AttachOk
  <2>2. CASE AttachFails(a)   BY <2>2 DEF AttachFails
  <2>3. CASE PumpOutput(a)    BY <2>3 DEF PumpOutput, Take
  <2>4. CASE PumpGap(a)       BY <2>4 DEF PumpGap, Take
  <2>5. CASE PumpExit(a)      BY <2>5 DEF PumpExit
  <2>6. CASE ReplayOk(a)      BY <2>6 DEF ReplayOk
  <2>7. CASE ReplayFails(a)   BY <2>7 DEF ReplayFails
  <2>8. CASE Leave(a)         BY <2>8 DEF Leave
  <2> QED  BY <1>1, <2>1, <2>2, <2>3, <2>4, <2>5, <2>6, <2>7, <2>8 DEF Visible
<1>2. CASE Waiting(a)
  <2>1. CASE SendAttach(a)    BY <2>1 DEF SendAttach
  <2>2. CASE HandleAttach(a)  BY <2>2 DEF HandleAttach, Subscribe
  <2>3. CASE HandleReplay(a)  BY <2>3 DEF HandleReplay
  <2> QED  BY <1>2, <2>1, <2>2, <2>3 DEF Waiting
<1>3. CASE Hidden(a)
  BY <1>3 DEF Hidden, Deliver, PumpFence, Take, FenceExpires, Detach
<1>4. CASE Spawning(a)
  BY <1>4 DEF Spawning, HandleSpawn, SpawnOk, Subscribe
<1> QED  BY <1>1, <1>2, <1>3, <1>4

\* A hidden step changes nothing of its own client either.
LEMMA HiddenIsStill ==
  ASSUME TypeOK, NEW a \in Attachments, Hidden(a)
  PROVE  Unseen(a)
BY DEF TypeOK, Hidden, Unseen, Deliver, PumpFence, Take, FenceExpires, Detach,
       daemonVars, wireVars, clientVars, historyVars

\* A client that waits goes on waiting for the same thing.
LEMMA WaitingIsStill ==
  ASSUME TypeOK, NEW a \in Attachments, Waiting(a)
  PROVE  /\ stale'[a] = stale[a] /\ shown'[a] = shown[a]
         /\ \/ pump'[a] = pump[a]
            \/ pump[a] \in {"off", "asking"} /\ pump'[a] \in {"asking", "granted"}
            \/ pump[a] = "gaveup" /\ pump'[a] = "ended"
            \/ pump[a] = "resync" /\ pump'[a] = "answered"
<1> USE DEF TypeOK, daemonVars, wireVars, historyVars
<1>1. CASE SendAttach(a)    BY <1>1 DEF SendAttach
<1>2. CASE HandleAttach(a)  BY <1>2 DEF HandleAttach
<1>3. CASE HandleReplay(a)  BY <1>3 DEF HandleReplay
<1> QED  BY <1>1, <1>2, <1>3 DEF Waiting

\* What a visible step does to its own client.
LEMMA VisibleStep ==
  ASSUME TypeOK, NEW a \in Attachments, Visible(a)
  PROVE  \/ pump[a] = "granted" /\ pump'[a] = "live"
            /\ shown'[a] = answer[a] /\ stale'[a] = stale[a]
         \/ /\ pump[a] \in {"asking", "granted", "live", "resync", "answered", "exited"}
            /\ pump'[a] \in {"gaveup", "ended"} /\ (pump'[a] = "gaveup" => pump[a] = "asking")
            /\ shown'[a] = shown[a] /\ stale'[a] = stale[a]
         \/ PumpOutput(a)
         \/ pump[a] = "live" /\ pump'[a] \in {"resync", "exited"}
            /\ shown'[a] = shown[a] /\ stale'[a] = stale[a]
         \/ pump[a] = "answered" /\ pump'[a] = "live" /\ shown'[a] = answer[a] /\ ~stale'[a]
         \/ pump[a] \in {"resync", "answered"} /\ pump'[a] = "live"
            /\ shown'[a] = shown[a] /\ stale'[a]
<1> USE DEF TypeOK, historyVars
<1>1. CASE AttachOk(a)      BY <1>1 DEF AttachOk
<1>2. CASE AttachFails(a)   BY <1>2 DEF AttachFails
<1>3. CASE PumpOutput(a)    BY <1>3
<1>4. CASE PumpGap(a)       BY <1>4 DEF PumpGap, Take
<1>5. CASE PumpExit(a)      BY <1>5 DEF PumpExit
<1>6. CASE ReplayOk(a)      BY <1>6 DEF ReplayOk
<1>7. CASE ReplayFails(a)   BY <1>7 DEF ReplayFails
<1>8. CASE Leave(a)         BY <1>8 DEF Leave
<1> QED  BY <1>1, <1>2, <1>3, <1>4, <1>5, <1>6, <1>7, <1>8 DEF Visible

\* Output on a screen that is not stale draws the next chunk or nothing.
LEMMA OutputStep ==
  ASSUME TypeOK, TypeOK', NEW a \in Watchers, WatcherInv(a)', PumpOutput(a)
  PROVE  /\ pump[a] = "live" /\ pump'[a] = "live" /\ stale'[a] = stale[a]
         /\ shown[a] \in Nat /\ shown'[a] \in Nat /\ out' = out
         /\ shown[a] <= shown'[a] /\ shown'[a] <= out
         /\ ~stale[a] => shown'[a] <= shown[a] + 1
<1> DEFINE n == Head(pipe[a]).n
           draws == Head(pipe[a]).k = "out" /\ fence[a] # "wait"
<1>1. a \in Attachments
  BY DEF Watchers
<1>2. /\ pump[a] = "live" /\ pump' = pump /\ stale' = stale /\ out' = out
      /\ shown'[a] = IF draws /\ n > shown[a] THEN n ELSE shown[a]
      /\ hole'[a] = (hole[a] \/ (draws /\ n > shown[a] + 1))
  BY <1>1 DEF PumpOutput, Take, TypeOK, daemonVars
<1>3. shown[a] \in Nat /\ shown'[a] \in Nat
  BY <1>1 DEF TypeOK
<1>4. shown'[a] <= out /\ (hole'[a] => stale[a])
  BY <1>2 DEF WatcherInv, Published, Phases
<1> HIDE DEF n, draws
<1>5. ~stale[a] => ~(draws /\ n > shown[a] + 1)
  BY <1>2, <1>4
<1>6. shown[a] <= shown'[a] /\ (~stale[a] => shown'[a] <= shown[a] + 1)
  <2>1. CASE draws /\ n > shown[a]
    <3>1. shown'[a] = n /\ n \in Nat
      BY <1>2, <1>3, <2>1
    <3> QED  BY <1>3, <1>5, <2>1, <3>1
  <2>2. CASE ~(draws /\ n > shown[a])
    BY <1>2, <1>3, <2>2
  <2> QED  BY <2>1, <2>2
<1> QED  BY <1>2, <1>3, <1>4, <1>6

-----------------------------------------------------------------------------
(* Before its first answer a screen is blank and not stale.                *)

Blank(a) ==
  pump[a] \in {"off", "asking", "gaveup", "granted"} => ~stale[a] /\ shown[a] = 0

MirrorInv == Inv /\ \A a \in Watchers : Blank(a)

\* Every step is the daemon's own or a client's, in one of the four groups.
LEMMA NextCases ==
  ASSUME [Next]_vars
  PROVE  \/ Publish \/ AgentStatus \/ FlagExit \/ FanExit \/ UNCHANGED vars
         \/ \E a \in Attachments : Visible(a) \/ Waiting(a) \/ Hidden(a) \/ Spawning(a)
BY DEF Next, Visible, Waiting, Hidden, Spawning

\* The daemon's own steps touch no client.
LEMMA DaemonIsStill ==
  ASSUME Publish \/ AgentStatus \/ FlagExit \/ FanExit \/ UNCHANGED vars
  PROVE  \A b \in Attachments : Unseen(b)
BY DEF Unseen, Publish, AgentStatus, FlagExit, FanExit, vars, clientVars, historyVars

LEMMA BlankStep ==
  ASSUME MirrorInv, [Next]_vars, NEW w \in Watchers
  PROVE  Blank(w)'
<1>1. TypeOK /\ Inv' /\ Blank(w) /\ WatcherInv(w) /\ TypeOK' /\ WatcherInv(w)'
  BY StepInv DEF MirrorInv, Inv
<1>2. w \in Attachments /\ pump[w] \notin {"spawning", "spawned"}
  BY <1>1 DEF Watchers, WatcherInv, Phases
<1>3. CASE Unseen(w)
  BY <1>1, <1>3 DEF Blank, Unseen
<1>4. CASE Visible(w)
  <2>1. CASE PumpOutput(w)
    BY <1>1, <2>1, OutputStep DEF Blank
  <2>2. CASE ~PumpOutput(w)
    BY <1>1, <1>2, <1>4, <2>2, VisibleStep DEF Blank
  <2> QED  BY <2>1, <2>2
<1>5. CASE Waiting(w)
  BY <1>1, <1>2, <1>5, WaitingIsStill DEF Blank
<1>6. Unseen(w) \/ Visible(w) \/ Waiting(w)
  <2>1. CASE Publish \/ AgentStatus \/ FlagExit \/ FanExit \/ UNCHANGED vars
    BY <1>2, <2>1, DaemonIsStill
  <2>2. ASSUME NEW a \in Attachments, Visible(a) \/ Waiting(a) \/ Hidden(a) \/ Spawning(a)
        PROVE  Unseen(w) \/ Visible(w) \/ Waiting(w)
    <3>1. CASE a # w
      BY <1>1, <1>2, <2>2, <3>1, OthersAreStill
    <3>2. CASE a = w
      <4>1. ~Spawning(w)
        BY <1>2 DEF Spawning, HandleSpawn, SpawnOk
      <4>2. Hidden(w) => Unseen(w)
        BY <1>1, <1>2, HiddenIsStill
      <4> QED  BY <2>2, <3>2, <4>1, <4>2
    <3> QED  BY <3>1, <3>2
  <2> QED  BY <2>1, <2>2, NextCases
<1> QED  BY <1>3, <1>4, <1>5, <1>6

LEMMA MirrorInvHolds == Spec => []MirrorInv
<1>1. Init => MirrorInv
  <2> SUFFICES ASSUME Init, NEW a \in Watchers PROVE Blank(a)
    BY InitInv DEF MirrorInv
  <2> QED  BY DEF Init, Watchers, Blank
<1>2. MirrorInv /\ [Next]_vars => MirrorInv'
  <2> SUFFICES ASSUME MirrorInv, [Next]_vars PROVE MirrorInv'
    OBVIOUS
  <2>1. Inv'
    BY StepInv DEF MirrorInv
  <2>2. \A a \in Watchers : Blank(a)'
    BY BlankStep
  <2>3. Watchers' = Watchers
    BY DEF Watchers
  <2> QED  BY <2>1, <2>2 DEF MirrorInv
<1> QED  BY <1>1, <1>2, PTL DEF Spec

-----------------------------------------------------------------------------
(* The steps of the mirror.                                                *)

\* The mirror's view of the screens.
Seen == [a \in Watchers |-> shown[a]]
Mode == [a \in Watchers |-> ScreenMode(a)]

\* If only w's screen changes, the mirror's view changes at w alone.
LEMMA OneScreen ==
  ASSUME NEW w \in Watchers, \A b \in Watchers \ {w} : Unseen(b)
  PROVE  /\ Seen' = [Seen EXCEPT ![w] = shown'[w]]
         /\ Mode' = [Mode EXCEPT ![w] = ScreenMode(w)']
         /\ Seen[w] = shown[w] /\ Mode[w] = ScreenMode(w)
<1>1. \A b \in Watchers \ {w} : shown'[b] = shown[b]
  BY DEF Unseen
<1>2. \A b \in Watchers \ {w} : ScreenMode(b)' = ScreenMode(b)
  BY DEF Unseen, ScreenMode
<1>3. Seen' = [Seen EXCEPT ![w] = shown'[w]] /\ Seen[w] = shown[w]
  BY <1>1 DEF Seen
<1>4. Mode' = [Mode EXCEPT ![w] = ScreenMode(w)'] /\ Mode[w] = ScreenMode(w)
  <2> DEFINE M(b) == ScreenMode(b)
  <2>1. \A b \in Watchers \ {w} : M(b)' = M(b)
    BY <1>2
  <2>2. Mode = [b \in Watchers |-> M(b)] /\ Mode' = [b \in Watchers |-> M(b)']
    BY DEF Mode
  <2> HIDE DEF M
  <2> QED  BY <2>1, <2>2 DEF M
<1> QED  BY <1>3, <1>4

\* If no screen changes, neither does the view.
LEMMA NoScreen ==
  ASSUME \A b \in Watchers : Unseen(b)
  PROVE  Seen' = Seen /\ Mode' = Mode
<1>1. \A b \in Watchers : shown'[b] = shown[b]
  BY DEF Unseen
<1>2. \A b \in Watchers : ScreenMode(b)' = ScreenMode(b)
  BY DEF Unseen, ScreenMode
<1> QED  BY <1>1, <1>2 DEF Seen, Mode

\* One client's visible step is a step of its screen in the mirror, or none.
LEMMA ScreenStep ==
  ASSUME MirrorInv, Inv', NEW w \in Watchers, Visible(w)
  PROVE  \/ /\ ScreenMode(w) \in {"absent", "recovering"} /\ ScreenMode(w)' = "exact"
            /\ shown'[w] \in shown[w]..out
         \/ /\ ScreenMode(w) = "exact" /\ ScreenMode(w)' = "exact"
            /\ shown[w] < out /\ shown'[w] = shown[w] + 1
         \/ /\ ScreenMode(w) = "unsure" /\ ScreenMode(w)' = "unsure"
            /\ shown'[w] \in shown[w]..out
         \/ /\ ScreenMode(w) \in {"exact", "unsure"} /\ ScreenMode(w)' = "recovering"
            /\ shown'[w] = shown[w]
         \/ /\ ScreenMode(w) = "recovering" /\ ScreenMode(w)' = "unsure"
            /\ shown'[w] = shown[w]
         \/ /\ ScreenMode(w) = "exact" /\ ScreenMode(w)' = "final"
            /\ exit # "no" /\ shown[w] = out /\ shown'[w] = shown[w]
         \/ ScreenMode(w)' = "closed" /\ shown'[w] = shown[w]
         \/ ScreenMode(w)' = ScreenMode(w) /\ shown'[w] = shown[w]
<1>1. /\ TypeOK /\ TypeOK' /\ Blank(w) /\ WatcherInv(w) /\ WatcherInv(w)'
      /\ w \in Attachments
  BY DEF MirrorInv, Inv, Watchers
<1>2. /\ out' = out /\ exit' = exit
      /\ out \in Nat /\ shown[w] \in Nat /\ answer[w] \in Nat /\ shown'[w] \in Nat
      /\ stale[w] \in BOOLEAN /\ stale'[w] \in BOOLEAN
      /\ shown[w] <= out /\ answer[w] <= out
      /\ (pump[w] = "answered" => shown[w] <= answer[w])
  BY <1>1, OthersAreStill DEF LogStill, TypeOK, WatcherInv, Published
<1>3. CASE PumpOutput(w)
  <2>1. /\ pump[w] = "live" /\ pump'[w] = "live" /\ stale'[w] = stale[w]
        /\ shown[w] <= shown'[w] /\ shown'[w] <= out
        /\ ~stale[w] => shown'[w] <= shown[w] + 1
    BY <1>1, <1>3, OutputStep
  <2>2. CASE stale[w]
    <3>1. ScreenMode(w) = "unsure" /\ ScreenMode(w)' = "unsure"
      BY <2>1, <2>2 DEF ScreenMode
    <3> QED  BY <1>2, <2>1, <3>1
  <2>3. CASE ~stale[w]
    <3>1. ScreenMode(w) = "exact" /\ ScreenMode(w)' = "exact"
      BY <2>1, <2>3 DEF ScreenMode
    <3>2. shown'[w] = shown[w] \/ (shown'[w] = shown[w] + 1 /\ shown[w] < out)
      BY <1>2, <2>1, <2>3
    <3> QED  BY <3>1, <3>2
  <2> QED  BY <2>2, <2>3
<1>4. CASE pump[w] = "granted" /\ pump'[w] = "live"
           /\ shown'[w] = answer[w] /\ stale'[w] = stale[w]
  <2>1. ~stale[w] /\ shown[w] = 0
    BY <1>1, <1>4 DEF Blank
  <2>2. ScreenMode(w) = "absent" /\ ScreenMode(w)' = "exact"
    BY <1>4, <2>1 DEF ScreenMode
  <2> QED  BY <1>2, <1>4, <2>1, <2>2
<1>5. CASE /\ pump'[w] \in {"gaveup", "ended"}
           /\ shown'[w] = shown[w] /\ stale'[w] = stale[w]
  BY <1>5 DEF ScreenMode
<1>6. CASE pump[w] = "live" /\ pump'[w] \in {"resync", "exited"}
           /\ shown'[w] = shown[w] /\ stale'[w] = stale[w]
  <2>1. ScreenMode(w) = IF stale[w] THEN "unsure" ELSE "exact"
    BY <1>6 DEF ScreenMode
  <2>2. pump'[w] = "resync" => ScreenMode(w)' = "recovering"
    BY <1>6 DEF ScreenMode
  <2>3. pump'[w] = "exited" =>
          /\ ScreenMode(w)' = IF stale[w] THEN "closed" ELSE "final"
          /\ exit # "no" /\ (~stale[w] => shown[w] = out)
    BY <1>1, <1>2, <1>6 DEF ScreenMode, WatcherInv, Phases
  <2> QED  BY <1>2, <1>6, <2>1, <2>2, <2>3
<1>7. CASE pump[w] = "answered" /\ pump'[w] = "live" /\ shown'[w] = answer[w] /\ ~stale'[w]
  <2>1. ScreenMode(w) = "recovering" /\ ScreenMode(w)' = "exact"
    BY <1>7 DEF ScreenMode
  <2> QED  BY <1>2, <1>7, <2>1
<1>8. CASE pump[w] \in {"resync", "answered"} /\ pump'[w] = "live"
           /\ shown'[w] = shown[w] /\ stale'[w]
  <2>1. ScreenMode(w) = "recovering" /\ ScreenMode(w)' = "unsure"
    BY <1>8 DEF ScreenMode
  <2> QED  BY <1>8, <2>1
<1> QED  BY <1>1, <1>3, <1>4, <1>5, <1>6, <1>7, <1>8, VisibleStep

\* What a watcher's screen does, the mirror allows.
LEMMA VisibleMirrors ==
  ASSUME MirrorInv, Inv', NEW w \in Watchers, Visible(w)
  PROVE  [Mirror!Next]_(Mirror!mirrorVars)
<1> DEFINE m == ScreenMode(w)
           n == shown'[w]
<1>1. /\ out' = out /\ exit' = exit
      /\ Seen' = [Seen EXCEPT ![w] = n] /\ Mode' = [Mode EXCEPT ![w] = m']
      /\ Seen[w] = shown[w] /\ Mode[w] = m
      /\ Seen \in [Watchers -> Nat] /\ DOMAIN Mode = Watchers
  <2>1. TypeOK /\ w \in Attachments /\ Watchers \subseteq Attachments
    BY DEF MirrorInv, Inv, Watchers
  <2>2. Seen \in [Watchers -> Nat] /\ DOMAIN Mode = Watchers
    BY <2>1 DEF Seen, Mode, TypeOK
  <2>3. LogStill /\ \A b \in Watchers \ {w} : Unseen(b)
    BY <2>1, OthersAreStill
  <2> QED  BY <2>2, <2>3, OneScreen DEF LogStill
<1>2. /\ Seen = [a \in Attachments \ Spawners |-> shown[a]]
      /\ Seen' = [a \in Attachments \ Spawners |-> shown'[a]]
      /\ Mode = [a \in Attachments \ Spawners |-> ScreenMode(a)]
      /\ Mode' = [a \in Attachments \ Spawners |-> ScreenMode(a)']
      /\ Watchers = Attachments \ Spawners
  BY DEF Seen, Mode, Watchers
<1>3. /\ m \in {"absent", "recovering"} /\ m' = "exact" /\ n \in shown[w]..out
         => Mirror!Join(w) \/ Mirror!Recover(w)
      /\ m = "exact" /\ m' = "exact" /\ shown[w] < out /\ n = shown[w] + 1
         => Mirror!Follow(w)
      /\ m = "unsure" /\ m' = "unsure" /\ n \in shown[w]..out
         => Mirror!Skip(w)
      /\ m \in {"exact", "unsure"} /\ m' = "recovering" /\ n = shown[w]
         => Mirror!Notice(w)
      /\ m = "recovering" /\ m' = "unsure" /\ n = shown[w]
         => Mirror!GiveUp(w)
      /\ m = "exact" /\ m' = "final" /\ exit # "no" /\ shown[w] = out /\ n = shown[w]
         => Mirror!Finish(w)
      /\ m' = "closed" /\ n = shown[w]
         => Mirror!Part(w)
      /\ m' = m /\ n = shown[w]
         => UNCHANGED Mirror!mirrorVars
  <2>m. Mode = [Mode EXCEPT ![w] = m]
    <3>1. Mode = [a \in Watchers |-> Mode[a]]
      BY DEF Mode
    <3> HIDE DEF m
    <3> QED  BY <1>1, <3>1
  <2>n. Seen = [Seen EXCEPT ![w] = shown[w]]
    BY <1>1
  <2> HIDE DEF m, n
  <2>1. m \in {"absent", "recovering"} /\ m' = "exact" /\ n \in shown[w]..out
         => Mirror!Join(w) \/ Mirror!Recover(w)
    BY <1>1, <1>2 DEF Mirror!Join, Mirror!Recover, Mirror!CatchUp, Mirror!Become
  <2>2. m = "exact" /\ m' = "exact" /\ shown[w] < out /\ n = shown[w] + 1
         => Mirror!Follow(w)
    BY <1>1, <1>2 DEF Mirror!Follow
  <2>3. m = "unsure" /\ m' = "unsure" /\ n \in shown[w]..out => Mirror!Skip(w)
    BY <1>1, <1>2, <2>m DEF Mirror!Skip, Mirror!CatchUp
  <2>4. m \in {"exact", "unsure"} /\ m' = "recovering" /\ n = shown[w] => Mirror!Notice(w)
    BY <1>1, <1>2, <2>n DEF Mirror!Notice, Mirror!Become
  <2>5. m = "recovering" /\ m' = "unsure" /\ n = shown[w] => Mirror!GiveUp(w)
    BY <1>1, <1>2, <2>n DEF Mirror!GiveUp, Mirror!Become
  <2>6. m = "exact" /\ m' = "final" /\ exit # "no" /\ shown[w] = out /\ n = shown[w]
         => Mirror!Finish(w)
    BY <1>1, <1>2, <2>n DEF Mirror!Finish, Mirror!Become
  <2>7. m' = "closed" /\ n = shown[w] => Mirror!Part(w)
    BY <1>1, <1>2, <2>n DEF Mirror!Part, Mirror!Become
  <2>8. m' = m /\ n = shown[w] => UNCHANGED Mirror!mirrorVars
    BY <1>1, <1>2, <2>m, <2>n DEF Mirror!mirrorVars
  <2> QED  BY <2>1, <2>2, <2>3, <2>4, <2>5, <2>6, <2>7, <2>8
<1>4. w \in Attachments \ Spawners
  BY DEF Watchers
<1>5. \/ UNCHANGED Mirror!mirrorVars
      \/ Mirror!Join(w) \/ Mirror!Follow(w) \/ Mirror!Notice(w) \/ Mirror!Recover(w)
      \/ Mirror!GiveUp(w) \/ Mirror!Skip(w) \/ Mirror!Finish(w) \/ Mirror!Part(w)
  BY <1>3, ScreenStep
<1> QED  BY <1>4, <1>5 DEF Mirror!Next

\* A step that changes no watcher's screen is one of the child's, or none.
LEMMA LogMirrors ==
  ASSUME \A b \in Watchers : Unseen(b),
         LogStill \/ Publish \/ FlagExit \/ FanExit
  PROVE  [Mirror!Next]_(Mirror!mirrorVars)
<1>1. /\ Seen' = Seen /\ Mode' = Mode
      /\ Seen = [a \in Attachments \ Spawners |-> shown[a]]
      /\ Seen' = [a \in Attachments \ Spawners |-> shown'[a]]
      /\ Mode = [a \in Attachments \ Spawners |-> ScreenMode(a)]
      /\ Mode' = [a \in Attachments \ Spawners |-> ScreenMode(a)']
  BY NoScreen DEF Seen, Mode, Watchers
<1>2. CASE LogStill
  BY <1>1, <1>2 DEF Mirror!mirrorVars, LogStill
<1>3. CASE Publish
  BY <1>1, <1>3 DEF Publish, Mirror!Next, Mirror!Emit
<1>4. CASE FlagExit
  BY <1>1, <1>4 DEF FlagExit, Mirror!Next, Mirror!End
<1>5. CASE FanExit
  BY <1>1, <1>5 DEF FanExit, Mirror!mirrorVars
<1> QED  BY <1>2, <1>3, <1>4, <1>5

\* Every step of the stream is one of the mirror.
LEMMA StepMirrors ==
  ASSUME MirrorInv, [Next]_vars
  PROVE  [Mirror!Next]_(Mirror!mirrorVars)
<1>1. TypeOK /\ Inv' /\ Watchers \subseteq Attachments
  BY StepInv DEF MirrorInv, Inv, Watchers
<1>2. CASE Publish \/ AgentStatus \/ FlagExit \/ FanExit \/ UNCHANGED vars
  <2>1. \A b \in Watchers : Unseen(b)
    BY <1>1, <1>2, DaemonIsStill
  <2>2. LogStill \/ Publish \/ FlagExit \/ FanExit
    BY <1>2 DEF LogStill, AgentStatus, vars, daemonVars
  <2> QED  BY <2>1, <2>2, LogMirrors
<1>3. ASSUME NEW a \in Attachments, Visible(a) \/ Waiting(a) \/ Hidden(a) \/ Spawning(a)
      PROVE  [Mirror!Next]_(Mirror!mirrorVars)
  <2>1. LogStill /\ \A b \in Attachments \ {a} : Unseen(b)
    BY <1>1, <1>3, OthersAreStill
  <2>2. CASE a \notin Watchers
    BY <1>1, <2>1, <2>2, LogMirrors
  <2>3. CASE a \in Watchers /\ Visible(a)
    BY <1>1, <2>3, VisibleMirrors
  <2>4. CASE a \in Watchers /\ Hidden(a)
    BY <1>1, <1>3, <2>1, <2>4, HiddenIsStill, LogMirrors
  <2>5. CASE a \in Watchers /\ Waiting(a)
    <3>1. shown'[a] = shown[a] /\ ScreenMode(a)' = ScreenMode(a)
      BY <1>1, <1>3, <2>5, WaitingIsStill DEF ScreenMode
    <3>2. \A b \in Watchers : shown'[b] = shown[b] /\ ScreenMode(b)' = ScreenMode(b)
      BY <1>1, <2>1, <3>1 DEF Unseen, ScreenMode
    <3> QED  BY <2>1, <3>2 DEF LogStill, Watchers, Mirror!mirrorVars
  <2>6. a \in Watchers => ~Spawning(a)
    BY DEF MirrorInv, Inv, WatcherInv, Phases, Spawning, HandleSpawn, SpawnOk
  <2> QED  BY <1>3, <2>2, <2>3, <2>4, <2>5, <2>6
<1> QED  BY <1>2, <1>3, NextCases

\* The stream is a mirror of the child's output for every watcher: whatever the
\* queues drop and whichever requests fail, each screen follows chunk by chunk,
\* jumps only to a snapshot, and is complete when it is told of the end.
THEOREM StreamIsMirror == Spec => IsMirror
<1>1. Init => Mirror!Init
  <2> SUFFICES ASSUME Init PROVE Mirror!Init
    OBVIOUS
  <2>1. \A a \in Attachments \ Spawners : shown[a] = 0 /\ ScreenMode(a) = "absent"
    BY DEF Init, ScreenMode
  <2> QED  BY <2>1 DEF Init, Mirror!Init
<1>2. MirrorInv /\ [Next]_vars => [Mirror!Next]_(Mirror!mirrorVars)
  BY StepMirrors
<1> QED  BY <1>1, <1>2, MirrorInvHolds, PTL DEF Spec, IsMirror, Mirror!Spec

=============================================================================
