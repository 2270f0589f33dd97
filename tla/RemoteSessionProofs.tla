------------------------ MODULE RemoteSessionProofs ------------------------
(***************************************************************************)
(* The safety properties of RemoteSession hold for any backlog and ring,   *)
(* any number of events, connections, handles and openings.                *)
(*                                                                         *)
(* The argument follows the last event.  From a thread that does not have  *)
(* it, either something under way is going to bring it (Coming), or the    *)
(* history knows of the window it fell into: that is Served.  The thread   *)
(* of an opening that is under way does not count yet, but must be served  *)
(* as well when it is registered (CandServed, CandLacks); and a connection *)
(* whose host was never asked has no thread, or one that came too late     *)
(* (Unserved).  An event that is made puts every stream behind again, so   *)
(* Served asks no more of a stream that is behind than that it goes on.    *)
(*                                                                         *)
(* The fold of a run is not recursive in the model: FoldLeft chooses a     *)
(* function on sets of positions.  FoldExists shows by induction that      *)
(* there is one, FoldInvariant that a set closed under Apply keeps a       *)
(* thread; what a fold does to a thread is stated by such sets.            *)
(***************************************************************************)
EXTENDS RemoteSession, WellFoundedInduction, TLAPS

-----------------------------------------------------------------------------
(* Induction over a run of frames.                                         *)

\* Induction over the naturals, for a set.
LEMMA SetInduction ==
  ASSUME NEW T, 0 \in T, \A n \in Nat : n \in T => n + 1 \in T
  PROVE  \A n \in Nat : n \in T
<1> DEFINE R == OpToRel(<, Nat)
           U == Nat \ T
<1>1. IsWellFoundedOn(R, Nat)
  BY NatLessThanWellFounded
<1>2. \A x, y \in Nat : <<y, x>> \in R <=> y < x
  BY DEF OpToRel
<1>3. SUFFICES ASSUME U # {} PROVE FALSE
  OBVIOUS
<1> HIDE DEF R
<1>4. PICK x \in U : \A y \in U : <<y, x>> \notin R
  <2> HIDE DEF U
  <2>1. U \subseteq Nat
    BY DEF U
  <2> QED  BY <1>1, <1>3, <2>1, WFMin
<1>5. x \in Nat /\ x \notin T /\ x # 0
  OBVIOUS
<1>6. x - 1 \in Nat /\ x - 1 < x /\ x = (x - 1) + 1
  BY <1>5
<1>7. x - 1 \in T
  BY <1>2, <1>4, <1>5, <1>6
<1> QED  BY <1>5, <1>6, <1>7

\* The last position of a set of positions.
LEMMA MaxOfRange ==
  ASSUME NEW n \in Nat
  PROVE  /\ \A t \in SUBSET (1..(n + 1)) : n + 1 \in t => Max(t) = n + 1 /\ t \ {Max(t)} \in SUBSET (1..n)
         /\ (1..(n + 1)) \ {n + 1} = 1..n
<1>1. ASSUME NEW t \in SUBSET (1..(n + 1)), n + 1 \in t PROVE Max(t) = n + 1
  <2>1. \A y \in t : n + 1 >= y /\ y \in Int
    OBVIOUS
  <2>2. \A x \in t : (\A y \in t : x >= y) => x = n + 1
    BY <1>1, <2>1
  <2> QED  BY <1>1, <2>1, <2>2 DEF Max
<1>2. ASSUME NEW t \in SUBSET (1..(n + 1)) PROVE t \ {n + 1} \in SUBSET (1..n)
  <2>1. \A y \in 1..(n + 1) : y # n + 1 => y \in 1..n
    OBVIOUS
  <2> QED  BY <2>1
<1>3. (1..(n + 1)) \ {n + 1} = 1..n
  OBVIOUS
<1> QED  BY <1>1, <1>2, <1>3

Folded(g, s, p, n) ==
  g = [t \in SUBSET (1..n) |-> IF t = {} THEN s ELSE Apply(g[t \ {Max(t)}], p[Max(t)])]

\* The function that FoldLeft chooses exists.
LEMMA FoldExists ==
  ASSUME NEW s, NEW p
  PROVE  \A n \in Nat : \E g : Folded(g, s, p, n)
<1> DEFINE T == {n \in Nat : \E g : Folded(g, s, p, n)}
<1>1. 0 \in T
  <2> DEFINE g == [t \in SUBSET (1..0) |-> s]
  <2>1. \A t \in SUBSET (1..0) : t = {}
    OBVIOUS
  <2>2. Folded(g, s, p, 0)
    BY <2>1 DEF Folded
  <2> QED  BY <2>2
<1>2. ASSUME NEW n \in Nat, n \in T PROVE n + 1 \in T
  <2>1. PICK g : Folded(g, s, p, n)
    BY <1>2
  <2> DEFINE S == SUBSET (1..(n + 1))
             h == [t \in S |-> IF n + 1 \in t THEN Apply(g[t \ {n + 1}], p[n + 1]) ELSE g[t]]
  <2>2. ASSUME NEW t \in S
        PROVE  h[t] = IF t = {} THEN s ELSE Apply(h[t \ {Max(t)}], p[Max(t)])
    <3>1. CASE n + 1 \in t
      <4>1. Max(t) = n + 1 /\ t \ {n + 1} \in SUBSET (1..n) /\ t # {}
        BY <3>1, MaxOfRange
      <4>2. h[t \ {n + 1}] = g[t \ {n + 1}]
        BY <4>1
      <4> QED  BY <3>1, <4>1, <4>2
    <3>2. CASE n + 1 \notin t
      <4>1. t \in SUBSET (1..n)
        BY <3>2
      <4>2. g[t] = IF t = {} THEN s ELSE Apply(g[t \ {Max(t)}], p[Max(t)])
        BY <2>1, <4>1 DEF Folded
      <4>3. h[t \ {Max(t)}] = g[t \ {Max(t)}]
        BY <3>2, <4>1
      <4> QED  BY <3>2, <4>2, <4>3
    <3> QED  BY <3>1, <3>2
  <2>3. h = [t \in S |-> h[t]]
    OBVIOUS
  <2> HIDE DEF h
  <2>4. Folded(h, s, p, n + 1)
    BY <2>2, <2>3 DEF Folded
  <2> QED  BY <2>4
<1> HIDE DEF T
<1>3. \A n \in Nat : n \in T
  BY <1>1, <1>2, SetInduction
<1> QED  BY <1>3 DEF T

\* A set that a thread is in, and that no frame takes it out of, holds it after the frames.
LEMMA FoldInvariant ==
  ASSUME NEW F, NEW p \in Seq(F), NEW I, NEW s \in I,
         \A x \in I : \A i \in 1..Len(p) : Apply(x, p[i]) \in I
  PROVE  After(s, p) \in I
<1>1. Len(p) \in Nat /\ DOMAIN p = 1..Len(p)
  OBVIOUS
<1> DEFINE g == CHOOSE h : Folded(h, s, p, Len(p))
<1>2. Folded(g, s, p, Len(p))
  BY <1>1, FoldExists
<1>3. After(s, p) = g[1..Len(p)]
  BY <1>1 DEF After, FoldLeft, MapThenFoldSet, Folded
<1> HIDE DEF g
<1> DEFINE T == {n \in Nat : n <= Len(p) => g[1..n] \in I}
<1>4. 0 \in T
  <2>1. 1..0 = {} /\ {} \in SUBSET (1..Len(p))
    OBVIOUS
  <2>2. g[{}] = s
    BY <1>2, <2>1 DEF Folded
  <2> QED  BY <2>1, <2>2
<1>5. ASSUME NEW n \in Nat, n \in T PROVE n + 1 \in T
  <2> SUFFICES ASSUME n + 1 <= Len(p) PROVE g[1..(n + 1)] \in I
    OBVIOUS
  <2>1. /\ Max(1..(n + 1)) = n + 1 /\ (1..(n + 1)) \ {n + 1} = 1..n
        /\ 1..(n + 1) \in SUBSET (1..Len(p)) /\ 1..(n + 1) # {} /\ n + 1 \in 1..Len(p)
    <3>1. n + 1 \in 1..(n + 1) /\ n + 1 \in 1..Len(p) /\ 1..(n + 1) \in SUBSET (1..(n + 1))
      BY <1>1
    <3>2. 1..(n + 1) \in SUBSET (1..Len(p))
      BY <1>1
    <3> QED  BY <3>1, <3>2, MaxOfRange
  <2>2. g[1..(n + 1)] = Apply(g[1..n], p[n + 1])
    BY <1>2, <2>1 DEF Folded
  <2>3. g[1..n] \in I
    BY <1>1, <1>5
  <2> QED  BY <2>1, <2>2, <2>3
<1> HIDE DEF T
<1>6. \A n \in Nat : n \in T
  BY <1>4, <1>5, SetInduction
<1> QED  BY <1>1, <1>3, <1>6 DEF T

-----------------------------------------------------------------------------
(* Backlogs.                                                               *)

FrameType == [n : Nat, base : Nat]
Run == Seq(FrameType)
SubType ==
  [cur : Int, base : Nat, has : SUBSET Nat, lacks : SUBSET Nat, mixed : BOOLEAN, late : BOOLEAN]

\* What a handle with the events b+1..e has to return after a seq.
Backlog(p, b, e, after) ==
  /\ p \in Run
  /\ \A i \in 1..Len(p) : /\ p[i].base = b /\ p[i].n \in Nat
                          /\ b < p[i].n /\ b + after < p[i].n /\ p[i].n <= e
  /\ \A i, j \in 1..Len(p) : i < j => p[i].n < p[j].n
  /\ p = <<>> <=> e <= b + after \/ e <= b
  /\ p # <<>> => Len(p) \in 1..Len(p) /\ p[Len(p)].n = e

\* events_since returns such a backlog.
LEMMA RetainedFacts ==
  ASSUME NEW b \in Nat, NEW e \in Nat, NEW after \in Int
  PROVE  Backlog(Retained(b, e, after), b, e, after)
<1> DEFINE S == {b + after, b, e - Cap}
           lo == CHOOSE n \in S : \A m \in S : m <= n
           k == IF e > lo THEN e - lo ELSE 0
           p == [i \in 1..k |-> Frame(lo + i, b)]
<1>1. Cap \in Nat /\ Cap > 0
  BY RemoteAssumption
<1>2. \E n \in S : \A m \in S : m <= n
  <2>1. CASE b + after >= b /\ b + after >= e - Cap
    BY <1>1, <2>1
  <2>2. CASE b >= b + after /\ b >= e - Cap
    BY <1>1, <2>2
  <2>3. CASE e - Cap >= b /\ e - Cap >= b + after
    BY <1>1, <2>3
  <2> QED  BY <1>1, <2>1, <2>2, <2>3
<1>3. lo \in S /\ \A m \in S : m <= lo
  <2> HIDE DEF S
  <2> QED  BY <1>2
<1> HIDE DEF lo
<1>4. lo \in Int /\ b <= lo /\ b + after <= lo /\ e - Cap <= lo
  BY <1>1, <1>3
<1>5. e <= lo <=> e <= b + after \/ e <= b
  BY <1>1, <1>3, <1>4
<1>6. k \in Nat /\ (e > lo => k = e - lo) /\ (e <= lo => k = 0)
  BY <1>4
<1> HIDE DEF k
<1>7. p \in Run /\ Len(p) = k /\ \A i \in 1..k : p[i] = Frame(lo + i, b)
  <2>1. \A i \in 1..k : Frame(lo + i, b) \in FrameType
    BY <1>4, <1>6 DEF Frame, FrameType
  <2> QED  BY <1>6, <2>1 DEF Run
<1>8. Retained(b, e, after) = p
  BY DEF Retained, k, lo
<1>9. \A i \in 1..k : p[i].n = lo + i /\ p[i].base = b
  BY <1>7 DEF Frame
<1>10. p = <<>> <=> k = 0
  BY <1>6, <1>7 DEF Run
<1> HIDE DEF p, S
<1> QED  BY <1>4, <1>5, <1>6, <1>7, <1>8, <1>9, <1>10 DEF Backlog

-----------------------------------------------------------------------------
(* What the fold does to a thread.                                         *)

\* SessionSubscription::apply, in full.
LEMMA ApplyFacts ==
  ASSUME NEW s \in SubType, NEW f \in FrameType
  PROVE  LET t == Apply(s, f)
         IN  /\ t \in SubType
             /\ t.base = s.base /\ t.lacks = s.lacks /\ t.late = s.late
             /\ s.cur <= t.cur /\ s.has \subseteq t.has /\ (s.mixed => t.mixed)
             /\ f.base = s.base => t.mixed = s.mixed
             /\ f.n - f.base = s.cur + 1 =>
                  /\ t.cur = s.cur + 1 /\ t.has = s.has \cup {f.n}
                  /\ t.mixed = (s.mixed \/ f.base # s.base)
             /\ f.n - f.base # s.cur + 1 => t.cur = s.cur /\ t.has = s.has
<1> DEFINE m == s.mixed \/ f.base # s.base
<1>1. /\ f.n \in Nat /\ f.base \in Nat /\ s.cur \in Int /\ s.has \in SUBSET Nat
      /\ m \in BOOLEAN /\ s.mixed \in BOOLEAN
  BY DEF SubType, FrameType
<1>2. CASE f.n - f.base = s.cur + 1
  <2>1. Apply(s, f) = [s EXCEPT !.cur = s.cur + 1, !.has = s.has \cup {f.n}, !.mixed = m]
    BY <1>1, <1>2 DEF Apply, SeqNo
  <2> HIDE DEF m
  <2>2. Apply(s, f) \in SubType
    <3>1. s.cur + 1 \in Int /\ s.has \cup {f.n} \in SUBSET Nat
      BY <1>1
    <3> QED  BY <1>1, <2>1, <3>1 DEF SubType
  <2>3. /\ Apply(s, f).cur = s.cur + 1 /\ Apply(s, f).has = s.has \cup {f.n} /\ Apply(s, f).mixed = m
        /\ Apply(s, f).base = s.base /\ Apply(s, f).lacks = s.lacks /\ Apply(s, f).late = s.late
    BY <2>1 DEF SubType
  <2> QED  BY <1>1, <1>2, <2>2, <2>3 DEF m
<1>3. CASE f.n - f.base < s.cur + 1
  <2>1. Apply(s, f) = [s EXCEPT !.mixed = m]
    BY <1>1, <1>3 DEF Apply, SeqNo
  <2>2. Apply(s, f) \in SubType
    BY <1>1, <2>1 DEF SubType
  <2> HIDE DEF m
  <2>3. /\ Apply(s, f).cur = s.cur /\ Apply(s, f).has = s.has /\ Apply(s, f).mixed = m
        /\ Apply(s, f).base = s.base /\ Apply(s, f).lacks = s.lacks /\ Apply(s, f).late = s.late
    BY <2>1 DEF SubType
  <2> QED  BY <1>1, <1>3, <2>2, <2>3 DEF m
<1>4. CASE f.n - f.base > s.cur + 1
  <2>1. Apply(s, f) = s
    BY <1>1, <1>4 DEF Apply, SeqNo
  <2> QED  BY <1>1, <1>4, <2>1
<1> QED  BY <1>1, <1>2, <1>3, <1>4

\* Of what the fold keeps of a thread, and what it only adds to.
LEMMA AfterFacts ==
  ASSUME NEW s \in SubType, NEW p \in Run
  PROVE  LET t == After(s, p)
         IN  /\ t \in SubType
             /\ t.base = s.base /\ t.lacks = s.lacks /\ t.late = s.late
             /\ s.cur <= t.cur /\ s.has \subseteq t.has /\ (s.mixed => t.mixed)
<1> DEFINE I == {t \in SubType : /\ t.base = s.base /\ t.lacks = s.lacks /\ t.late = s.late
                                 /\ s.cur <= t.cur /\ s.has \subseteq t.has /\ (s.mixed => t.mixed)}
<1>1. s \in I
  BY DEF SubType
<1>2. \A x \in I : \A i \in 1..Len(p) : Apply(x, p[i]) \in I
  <2> SUFFICES ASSUME NEW x \in I, NEW i \in 1..Len(p) PROVE Apply(x, p[i]) \in I
    OBVIOUS
  <2>1. x \in SubType /\ p[i] \in FrameType
    BY DEF Run
  <2>2. Apply(x, p[i]).cur \in Int /\ x.cur \in Int /\ s.cur \in Int
    BY <2>1, ApplyFacts DEF SubType
  <2> QED  BY <2>1, <2>2, ApplyFacts
<1> HIDE DEF I
<1>3. After(s, p) \in I
  BY <1>1, <1>2, FoldInvariant DEF Run
<1> QED  BY <1>3 DEF I

\* No frame, no change.
LEMMA AfterNothing == ASSUME NEW s PROVE After(s, <<>>) = s
<1>1. <<>> \in Seq({}) /\ s \in {s} /\ \A x \in {s} : \A i \in 1..Len(<<>>) : Apply(x, <<>>[i]) \in {s}
  OBVIOUS
<1>2. After(s, <<>>) \in {s}
  BY <1>1, FoldInvariant
<1> QED  BY <1>2

\* Frames of the thread's own handle do not mix it.
LEMMA AfterSame ==
  ASSUME NEW s \in SubType, NEW p \in Run, \A i \in 1..Len(p) : p[i].base = s.base
  PROVE  After(s, p).mixed = s.mixed
<1> DEFINE I == {t \in SubType : t.base = s.base /\ t.mixed = s.mixed}
<1>1. \A x \in I : \A i \in 1..Len(p) : Apply(x, p[i]) \in I
  <2> SUFFICES ASSUME NEW x \in I, NEW i \in 1..Len(p) PROVE Apply(x, p[i]) \in I
    OBVIOUS
  <2>1. x \in SubType /\ p[i] \in FrameType
    BY DEF Run
  <2> QED  BY <2>1, ApplyFacts
<1>2. s \in I
  OBVIOUS
<1> HIDE DEF I
<1>3. After(s, p) \in I
  BY <1>1, <1>2, FoldInvariant DEF Run
<1> QED  BY <1>3 DEF I

-----------------------------------------------------------------------------
(* The inductive invariant.                                                *)

ConnType ==
  [st : {"none", "taken", "waiting", "live"}, known : BOOLEAN, cur : Nat, base : Nat, next : Nat,
   gone : BOOLEAN, last : Nat, mixed : BOOLEAN]
ActType == [at : {"off", "start", "taken", "told", "wired", "done"}, after : Nat, got : Run]
DispType == [at : {"off", "idle", "gap", "told", "refused"}, from : Nat, link : Nat, got : Run]
OpenType == [at : {"idle", "fetched", "taken", "told"}, link : Nat, sub : SubType, got : Run]
SnapType == [seq : Nat, lacks : SUBSET Nat, none : BOOLEAN]

Types ==
  /\ made \in 0..MaxMade /\ base \in 0..made /\ reg \in BOOLEAN /\ binds \in 1..MaxBinds
  /\ relay \subseteq 1..made /\ due \in BOOLEAN /\ snap \in SnapType
  /\ host \in ConnType
  /\ links \in 0..MaxLinks /\ up \in {0, links} /\ live \in 0..links
  /\ act \in [Links -> ActType] /\ disp \in [Links -> DispType] /\ wire \in [Links -> Run]
  /\ sub \in SubType /\ open \in OpenType /\ opens \in 0..MaxOpens /\ missed \in SUBSET Nat

\* The frames of a run are events that were made, all of one handle; a frame of a
\* handle that is gone is older than the present one.
RunOK(p, m, b) ==
  \A i \in 1..Len(p) : /\ p[i].n \in 1..m /\ p[i].base < p[i].n /\ p[i].base = p[1].base
                       /\ p[i].base = b \/ p[i].n <= b

\* Every run under way is one, and only a reply that was received carries one.
Runs ==
  /\ \A l \in Links : /\ RunOK(wire[l], made, base)
                      /\ RunOK(act[l].got, made, base) /\ RunOK(disp[l].got, made, base)
                      /\ act[l].at # "told" => act[l].got = <<>>
                      /\ disp[l].at # "told" => disp[l].got = <<>>
  /\ RunOK(open.got, made, base)
  /\ open.at # "told" => open.got = <<>>

\* A snapshot is of the handle that is there, and covers events that were made.
Snaps ==
  /\ ~reg => base = made /\ snap = NoSnap
  /\ snap.seq <= made - base /\ snap.lacks \subseteq 1..(base + snap.seq)

\* A thread with m events made and b of them before the handle.  Unless it is
\* mixed, it is what its cursor says.
Thread(t, m, b) ==
  /\ t.cur \in 0..m /\ t.base <= b /\ t.has \subseteq 1..m
  /\ t.lacks \subseteq 1..(t.base + t.cur) /\ t.lacks \subseteq 1..m
  /\ ~t.mixed => t.base + t.cur <= m /\ t.has = (1..(t.base + t.cur)) \ t.lacks

\* The thread, and the one of an opening; who resubscribes or backfills has one.
Threads ==
  /\ sub # NoSub => Thread(sub, made, base)
  /\ open.at = "idle" => open = Unopened
  /\ open.at # "idle" => Thread(open.sub, made, base) /\ ~open.sub.mixed
  /\ sub = NoSub => \A l \in Links : act[l].at \notin {"taken", "told"} /\ disp[l].at \notin {"gap", "told"}

\* The cursor of the call that the host is answering.
Asked == IF act[up].at = "taken" THEN act[up].after ELSE open.sub.cur

\* Where a connection is on the phone and where its host is.
Conns ==
  /\ \A l \in Links : /\ (act[l].at = "off" <=> l > links)
                      /\ act[l].at = "off" => wire[l] = <<>>
                      /\ disp[l].at # "off" => act[l].at = "done"
                      /\ disp[l].at = "told" /\ l = up => disp[l].link = up
  /\ live # 0 => act[live].at = "done"
  /\ up # 0 /\ disp[up].at # "off" => live = up
  /\ open.at # "idle" => open.link \in 1..links /\ act[open.link].at = "done"
  /\ up = 0 => host = NoConn
  /\ up # 0 => (act[up].at = "start" => host = NoConn)
  /\ open.at = "told" /\ open.link = up => host.known
  /\ open.at = "taken" /\ open.link = up => host.st = "taken"
  /\ up # 0 => (act[up].at = "taken" => host.st = "taken")
  /\ up # 0 => (act[up].at = "told" => host.known)
  /\ host.st = "taken" => act[up].at = "taken" \/ (open.at = "taken" /\ open.link = up)

\* A stream of the handle that is there has skipped nothing beyond its cursor, and
\* a receiver that waits for its answer was asked for no more than there was.
Hosts ==
  /\ host.known <=> host.st \in {"waiting", "live"}
  /\ host.gone => host.st \in {"taken", "live"} /\ host.last <= base
  /\ host.next <= made + 1
  /\ host.st \in {"taken", "live"} => host.base <= base /\ (~host.gone => reg /\ host.base = base)
  /\ host.st = "live" /\ ~host.mixed /\ ~host.gone =>
       /\ host.next - 1 <= base + host.cur /\ base + host.cur <= made
  /\ host.st = "waiting" /\ ~host.mixed => host.cur = 0
  /\ host.st = "taken" /\ ~host.mixed /\ ~host.gone => base + Asked <= made

\* A stream sends each event once, in order, and none beyond its cursor.
Sent ==
  up # 0 =>
  /\ host.st # "live" => wire[up] = <<>>
  /\ \A i \in 1..Len(wire[up]) : wire[up][i].base = host.base /\ wire[up][i].n <= host.base + host.cur
  /\ \A i, j \in 1..Len(wire[up]) : i < j => wire[up][i].n < wire[up][j].n

Brings(p, m) == p # <<>> /\ p[Len(p)].n = m

\* Something on the connection is going to bring the last event, or to leave it
\* noted in `missed`.
Coming ==
  \/ host.st = "waiting"
  \/ host.st = "taken" /\ base + Asked < made
  \/ host.st = "live" /\ base + host.cur < made
  \/ act[up].at = "told" /\ Brings(act[up].got, made)
  \/ Brings(wire[up], made)
  \/ disp[up].at = "gap" /\ base + disp[up].from < made
  \/ disp[up].at = "told" /\ Brings(disp[up].got, made)

\* A thread of the present handle; one that has all of its events.
Fair(t, b) == t.base = b /\ ~t.mixed
Covers(t, m) == t.base + t.cur = m

Stream == up # 0 /\ host.st # "none" /\ ~host.gone /\ ~host.mixed
Resubscribing == \E l \in Links : act[l].at \in {"taken", "told"}

Served ==
  Stream /\ sub # NoSub /\ Fair(sub, base) /\ (~sub.late \/ Resubscribing)
    => Covers(sub, made) \/ made \in missed \/ Coming

\* The thread that an opening is about to register.
Cand == After(open.sub, open.got)

\* It will be served too; if the thread it replaces had the last event, the event
\* is noted as it goes ...
CandServed ==
  Stream /\ open.at = "told" /\ Fair(Cand, base)
   => \/ Covers(Cand, made) \/ Coming
      \/ made \in Refused(open.sub, open.got) \/ made \in missed \/ made \in sub.has

\* ... unless its snapshot did not hold it; but then the snapshot was of all events.
CandLacks ==
  /\ open.at = "told" /\ Fair(Cand, base) /\ made \in sub.lacks
       => Covers(Cand, made) \/ made \in Refused(open.sub, open.got)
  /\ open.at = "taken" /\ open.link = up /\ host.gone /\ Fair(open.sub, base) /\ made \in sub.lacks
       => Covers(open.sub, made)

\* A host that has answered nobody on a connection past its start.
Unserved ==
  up # 0 /\ host.st \in {"none", "taken"} /\ act[up].at \notin {"start", "taken"} =>
    (sub = NoSub \/ sub.late) /\ ~Resubscribing

IInv ==
  /\ Types /\ Runs /\ Snaps /\ Threads /\ Conns /\ Hosts /\ Sent
  /\ Served /\ CandServed /\ CandLacks /\ Unserved

-----------------------------------------------------------------------------
(* What its parts say.                                                     *)

\* The first state has the types.
LEMMA InitTypes == Init => Types
<1> SUFFICES ASSUME Init PROVE Types
  OBVIOUS
<1> USE RemoteAssumption DEF Init
<1>1. <<>> \in Run
  BY DEF Run
<1>2. snap \in SnapType /\ host \in ConnType /\ sub \in SubType
  BY DEF SnapType, ConnType, SubType, NoSnap, NoConn, NoSub
<1>3. open \in OpenType
  BY <1>1 DEF OpenType, Unopened, SubType, NoSub
<1>4. act \in [Links -> ActType]
  BY <1>1 DEF ActType, Step
<1>5. disp \in [Links -> DispType]
  BY <1>1 DEF DispType, Idle
<1> QED  BY <1>1, <1>2, <1>3, <1>4, <1>5 DEF Types

\* What Types says of each part.
Scalars ==
  /\ made \in Nat /\ made <= MaxMade /\ base \in Nat /\ base <= made /\ reg \in BOOLEAN
  /\ links \in Nat /\ links <= MaxLinks /\ (up = 0 \/ up = links) /\ live \in Nat /\ live <= links
  /\ opens \in Nat /\ missed \subseteq Nat
  /\ snap.seq \in Nat /\ snap.lacks \subseteq Nat /\ snap.none \in BOOLEAN

HostParts ==
  /\ host.st \in {"none", "taken", "waiting", "live"} /\ host.known \in BOOLEAN /\ host.cur \in Nat
  /\ host.base \in Nat /\ host.next \in Nat /\ host.gone \in BOOLEAN /\ host.last \in Nat
  /\ host.mixed \in BOOLEAN

LinkParts ==
  \A l \in Links :
    /\ act[l].at \in {"off", "start", "taken", "told", "wired", "done"}
    /\ act[l].after \in Nat /\ act[l].got \in Run
    /\ disp[l].at \in {"off", "idle", "gap", "told", "refused"}
    /\ disp[l].from \in Nat /\ disp[l].link \in Nat /\ disp[l].got \in Run
    /\ wire[l] \in Run

SubParts(s) ==
  /\ s.cur \in Int /\ s.base \in Nat /\ s.has \subseteq Nat /\ s.lacks \subseteq Nat
  /\ s.mixed \in BOOLEAN /\ s.late \in BOOLEAN

OpenParts ==
  /\ open.at \in {"idle", "fetched", "taken", "told"} /\ open.link \in Nat
  /\ open.sub \in SubType /\ SubParts(open.sub) /\ open.got \in Run

\* The types, part by part.
LEMMA TypeFacts ==
  Types => Scalars /\ HostParts /\ LinkParts /\ SubParts(sub) /\ OpenParts
<1> SUFFICES ASSUME Types PROVE Scalars /\ HostParts /\ LinkParts /\ SubParts(sub) /\ OpenParts
  OBVIOUS
<1>1. Scalars
  BY RemoteAssumption DEF Types, Scalars, SnapType
<1>2. HostParts
  BY DEF Types, HostParts, ConnType
<1>3. LinkParts
  BY DEF Types, LinkParts, ActType, DispType
<1>4. SubParts(sub)
  BY DEF Types, SubParts, SubType
<1>5. OpenParts
  <2>1. open \in OpenType
    BY DEF Types
  <2>2. /\ open.at \in {"idle", "fetched", "taken", "told"} /\ open.link \in Nat
        /\ open.sub \in SubType /\ open.got \in Run
    BY <2>1 DEF OpenType
  <2> QED  BY <2>2 DEF OpenParts, SubParts, SubType
<1> QED  BY <1>1, <1>2, <1>3, <1>4, <1>5

\* The connections that there are.
LEMMA LinkFacts ==
  Types => /\ Links \subseteq Nat \ {0} /\ 1..links \subseteq Links /\ (up # 0 => up \in Links)
           /\ (links < MaxLinks => links + 1 \in Links)
           /\ (live # 0 => live \in Links)
  BY RemoteAssumption DEF Types, Links

\* The cursor of a call is a number.
LEMMA AskedInt == Types /\ up # 0 => Asked \in Int
  BY TypeFacts, LinkFacts DEF Asked, LinkParts, OpenParts, SubParts

\* A thread that folds a run stays what its cursor says, or is mixed.
LEMMA AfterThread ==
  ASSUME Types, NEW s \in SubType, Thread(s, made, base), NEW p \in Run, RunOK(p, made, base)
  PROVE  Thread(After(s, p), made, base)
<1> DEFINE I == {t \in SubType : Thread(t, made, base)}
<1>1. \A x \in I : \A i \in 1..Len(p) : Apply(x, p[i]) \in I
  <2> SUFFICES ASSUME NEW x \in I, NEW i \in 1..Len(p) PROVE Apply(x, p[i]) \in I
    OBVIOUS
  <2> DEFINE f == p[i]
             t == Apply(x, f)
  <2>1. x \in SubType /\ f \in FrameType /\ Thread(x, made, base)
    BY DEF Run
  <2>2. f.n \in 1..made /\ f.base < f.n /\ f.base \in Nat
    BY <2>1 DEF RunOK, FrameType
  <2>3. SubParts(x) /\ Scalars
    BY <2>1, TypeFacts DEF SubParts, SubType
  <2> HIDE DEF f, I
  <2>4. CASE f.n - f.base = x.cur + 1
    <3>1. /\ t.cur = x.cur + 1 /\ t.has = x.has \cup {f.n} /\ t.base = x.base /\ t.lacks = x.lacks
          /\ t.mixed = (x.mixed \/ f.base # x.base)
      BY <2>1, <2>4, ApplyFacts
    <3>2. ~t.mixed => t.base + t.cur <= made /\ t.has = (1..(t.base + t.cur)) \ t.lacks
      <4> SUFFICES ASSUME ~t.mixed PROVE t.base + t.cur <= made /\ t.has = (1..(t.base + t.cur)) \ t.lacks
        OBVIOUS
      <4>1. f.n = x.base + x.cur + 1 /\ ~x.mixed /\ f.n = t.base + t.cur
        <5> HIDE DEF t
        <5>1. ~x.mixed /\ f.base = x.base
          BY <3>1
        <5> QED  BY <2>2, <2>3, <2>4, <3>1, <5>1 DEF SubParts
      <4>2. x.has = (1..(x.base + x.cur)) \ x.lacks /\ x.lacks \subseteq 1..(x.base + x.cur)
        BY <2>1, <4>1 DEF Thread
      <4>3. x.base + x.cur \in Nat
        BY <2>1, <2>3 DEF Thread, SubParts
      <4>4. 1..f.n = (1..(x.base + x.cur)) \cup {f.n} /\ f.n \notin 1..(x.base + x.cur)
        BY <4>1, <4>3
      <4> QED  BY <2>2, <3>1, <4>1, <4>2, <4>4
    <3> HIDE DEF t
    <3>3. t.cur \in 0..made
      <4>1. t.cur = f.n - f.base
        BY <2>4, <3>1
      <4>2. f.n \in Nat /\ f.n <= made /\ f.base \in Nat /\ f.base < f.n /\ made \in Nat
        BY <2>2, <2>3 DEF Scalars
      <4> QED  BY <4>1, <4>2
    <3>4. t.lacks \subseteq 1..(t.base + t.cur)
      BY <2>1, <2>3, <3>1 DEF Thread, SubParts
    <3>5. Thread(t, made, base)
      BY <2>1, <2>2, <3>1, <3>2, <3>3, <3>4 DEF Thread
    <3> QED  BY <2>1, <3>5, ApplyFacts DEF I, t, f
  <2>5. CASE f.n - f.base # x.cur + 1
    <3>1. /\ t.cur = x.cur /\ t.has = x.has /\ t.base = x.base /\ t.lacks = x.lacks
          /\ x.mixed => t.mixed
      BY <2>1, <2>5, ApplyFacts
    <3> HIDE DEF t
    <3>2. Thread(t, made, base)
      BY <2>1, <3>1 DEF Thread
    <3> QED  BY <2>1, <3>2, ApplyFacts DEF I, t, f
  <2> QED  BY <2>4, <2>5 DEF f
<1>2. s \in I
  OBVIOUS
<1> HIDE DEF I
<1>3. After(s, p) \in I
  BY <1>1, <1>2, FoldInvariant DEF Run
<1> QED  BY <1>3 DEF I

\* A thread is not NoSub.
LEMMA RealThread == ASSUME NEW s, Thread(s, made, base) PROVE s # NoSub
  BY DEF Thread, NoSub

\* The thread that an opening folds is one.
LEMMA CandThread ==
  Types /\ Runs /\ Threads /\ open.at = "told" => Thread(Cand, made, base) /\ Cand \in SubType
  BY AfterThread, AfterFacts, TypeFacts DEF Runs, Threads, OpenParts, Cand

\* What a run brings a thread.
LEMMA FoldBrings ==
  ASSUME Types, NEW s \in SubType, s # NoSub => Thread(s, made, base),
         NEW p \in Run, RunOK(p, made, base), Brings(p, made), base < made
  PROVE  \/ made \in Vain(s, p)
         \/ s # NoSub /\ Fair(s, base) /\ Fair(After(s, p), base) /\ Gaps(s, p) /\ made \in Refused(s, p)
            /\ base + After(s, p).cur < made
         \/ s # NoSub /\ Fair(s, base) /\ Fair(After(s, p), base) /\ Covers(After(s, p), made)
            /\ made \in After(s, p).has \cup After(s, p).lacks
<1> DEFINE k == Len(p)
           f == p[k]
           t == After(s, p)
<1>1. k \in 1..Len(p) /\ f = Last(p) /\ f \in FrameType /\ f \in ToSet(p)
  <2>1. p # <<>> /\ p \in Seq(FrameType)
    BY DEF Brings, Run
  <2> QED  BY <2>1 DEF Last, ToSet
<1>2. f.n = made /\ f.base \in Nat /\ f.base < made /\ \A i \in 1..Len(p) : p[i].base = f.base
  BY <1>1 DEF Brings, RunOK, FrameType
<1>3. f.base = base
  BY <1>1, <1>2, TypeFacts DEF RunOK, Scalars
<1>4. CASE s = NoSub \/ s.mixed \/ f.base # s.base
  BY <1>1, <1>2, <1>4 DEF Vain
<1>5. CASE s # NoSub /\ ~s.mixed /\ f.base = s.base
  <2>1. Fair(s, base) /\ Thread(s, made, base)
    BY <1>3, <1>5 DEF Fair
  <2>2. t.mixed = s.mixed
    BY <1>2, <1>5, AfterSame
  <2>3. t.base = s.base /\ t \in SubType
    BY AfterFacts
  <2>4. Fair(t, base) /\ Thread(t, made, base)
    BY <2>1, <2>2, <2>3, AfterThread DEF Fair
  <2> HIDE DEF t
  <2>5. /\ t.base = base /\ t.cur \in Int /\ base + t.cur <= made /\ base \in Nat /\ made \in Nat
        /\ t.has = (1..(base + t.cur)) \ t.lacks
    BY <2>3, <2>4, TypeFacts DEF Fair, Thread, SubType, Scalars
  <2>6. Gaps(s, p) <=> made - base > t.cur
    BY <1>1, <1>2, <1>3 DEF Gaps, SeqNo, t
  <2>7. CASE Gaps(s, p)
    BY <1>1, <1>2, <1>5, <2>1, <2>4, <2>5, <2>6, <2>7 DEF Refused, t
  <2>8. CASE ~Gaps(s, p)
    <3>1. base + t.cur = made
      BY <2>5, <2>6, <2>8
    <3>2. made \in t.has \cup t.lacks
      BY <2>5, <3>1
    <3> QED  BY <1>5, <2>1, <2>4, <2>5, <3>1, <3>2 DEF Covers, t
  <2> QED  BY <2>7, <2>8
<1> QED  BY <1>4, <1>5

\* A function after an assignment.
LEMMA Updated ==
  ASSUME NEW S, NEW T, NEW f \in [S -> T], NEW l \in S, NEW x \in T
  PROVE  /\ [f EXCEPT ![l] = x] \in [S -> T] /\ [f EXCEPT ![l] = x][l] = x
         /\ \A k \in S : k # l => [f EXCEPT ![l] = x][k] = f[k]
  OBVIOUS

\* The empty run.
LEMMA RunEmpty == ASSUME NEW m, NEW b PROVE RunOK(<<>>, m, b) /\ <<>> \in Run
  BY DEF RunOK, Run

\* What a thread of the handle has, when it covers its events.
LEMMA CoversHas ==
  ASSUME Types, NEW t \in SubType, Thread(t, made, base), Fair(t, base)
  PROVE  /\ base + t.cur <= made /\ t.cur \in Nat
         /\ base < made /\ Covers(t, made) => made \in t.has \cup t.lacks
         /\ ~Covers(t, made) => base + t.cur < made
<1>1. base \in Nat /\ made \in Nat /\ t.cur \in Nat /\ t.base = base /\ base + t.cur <= made
  BY TypeFacts DEF Scalars, Thread, Fair
<1>2. t.has = (1..(base + t.cur)) \ t.lacks
  BY <1>1 DEF Thread, Fair
<1> QED  BY <1>1, <1>2 DEF Covers

Settled == base = made

\* Nobody is owed an event of a handle that has none.
LEMMA NothingOwed ==
  Types /\ Runs /\ Threads /\ Settled => Served /\ CandServed /\ CandLacks
<1> SUFFICES ASSUME Types, Runs, Threads, base = made PROVE Served /\ CandServed /\ CandLacks
  BY DEF Settled
<1>1. ASSUME NEW t \in SubType, Thread(t, made, base), Fair(t, base) PROVE Covers(t, made)
  BY <1>1, TypeFacts DEF Thread, Fair, Covers, Scalars, SubType
<1>2. Served
  BY <1>1 DEF Served, Threads, Types
<1>3. open.at = "told" /\ Fair(Cand, base) => Covers(Cand, made)
  BY <1>1, CandThread
<1>4. open.at = "taken" /\ Fair(open.sub, base) => Covers(open.sub, made)
  BY <1>1, TypeFacts DEF Threads, OpenParts
<1> QED  BY <1>2, <1>3, <1>4 DEF CandServed, CandLacks

-----------------------------------------------------------------------------
(* The handle and the view.                                                *)

\* A new event: a stream that is not behind is behind now.
LEMMA IngestInv ==
  IInv /\ Ingest /\ relay' \subseteq 1..made' /\ due' \in BOOLEAN
       /\ UNCHANGED <<base, reg, binds, snap, linkVars, phoneVars>> => IInv'
<1> SUFFICES ASSUME IInv, Ingest, relay' \subseteq 1..made', due' \in BOOLEAN,
                    UNCHANGED <<base, reg, binds, snap, linkVars, phoneVars>>
             PROVE  IInv'
  OBVIOUS
<1> USE DEF linkVars, phoneVars
<1>1. Scalars /\ HostParts /\ LinkParts /\ SubParts(sub) /\ OpenParts
  BY TypeFacts DEF IInv
<1>2. made' = made + 1 /\ made' \in Nat /\ base < made' /\ made < made' /\ made < MaxMade
  BY <1>1 DEF Ingest, Scalars
<1>3. Types'
  BY RemoteAssumption, <1>2 DEF IInv, Types
<1>4. Runs'
  <2>1. ASSUME NEW p \in Run, RunOK(p, made, base) PROVE RunOK(p, made', base)
    BY <1>1, <1>2, <2>1 DEF RunOK, Scalars
  <2>2. base' = base /\ UNCHANGED <<act, disp, wire, open>>
    OBVIOUS
  <2>3. ASSUME NEW l \in Links
        PROVE  /\ RunOK(wire[l], made', base) /\ RunOK(act[l].got, made', base)
               /\ RunOK(disp[l].got, made', base)
    BY <1>1, <2>1 DEF IInv, Runs, LinkParts
  <2>4. RunOK(open.got, made', base)
    BY <1>1, <2>1 DEF IInv, Runs, OpenParts
  <2> QED  BY <2>2, <2>3, <2>4 DEF IInv, Runs
<1>5. Snaps'
  BY <1>1, <1>2 DEF IInv, Snaps, Scalars, Ingest
<1>6. Threads'
  <2>1. ASSUME NEW t \in SubType, Thread(t, made, base)
        PROVE  /\ t.cur \in 0..made' /\ t.base <= base /\ t.has \subseteq 1..made'
               /\ t.lacks \subseteq 1..(t.base + t.cur) /\ t.lacks \subseteq 1..made'
               /\ ~t.mixed => t.base + t.cur <= made' /\ t.has = (1..(t.base + t.cur)) \ t.lacks
    BY <1>1, <1>2, <2>1 DEF Thread, SubType, Scalars
  <2>2. sub # NoSub => Thread(sub, made, base)'
    BY <2>1 DEF IInv, Types, Threads, Thread
  <2>3. open.at # "idle" => Thread(open.sub, made, base)'
    BY <1>1, <2>1 DEF IInv, Threads, Thread, OpenParts
  <2> QED  BY <2>2, <2>3 DEF IInv, Threads
<1>7. Conns'
  BY DEF IInv, Conns
<1>8. Asked' = Asked /\ (up # 0 => Asked \in Int)
  BY AskedInt DEF Asked, IInv
<1>9. host.st \in {"taken", "waiting", "live"} => up # 0
  BY DEF IInv, Conns, NoConn
<1>10. Hosts'
  BY <1>1, <1>2, <1>8, <1>9 DEF IInv, Hosts, Scalars, HostParts
<1>11. Sent'
  BY DEF IInv, Sent
<1>12. Stream => Coming'
  <2> SUFFICES ASSUME Stream PROVE Coming'
    OBVIOUS
  <2>1. CASE host.st = "waiting"
    BY <2>1 DEF Coming
  <2>2. CASE host.st = "taken"
    <3>1. base + Asked <= made /\ Asked \in Int
      BY <1>8, <2>2 DEF IInv, Hosts, Stream
    <3>2. base + Asked < made'
      BY <1>1, <1>2, <3>1 DEF Scalars
    <3> QED  BY <1>8, <2>2, <3>2 DEF Coming
  <2>3. CASE host.st = "live"
    <3>1. base + host.cur <= made /\ host.cur \in Int
      BY <1>1, <2>3 DEF IInv, Hosts, Stream, HostParts
    <3>2. base + host.cur < made'
      BY <1>1, <1>2, <3>1 DEF Scalars
    <3> QED  BY <2>3, <3>2 DEF Coming
  <2> QED  BY <1>1, <2>1, <2>2, <2>3 DEF Stream, HostParts
<1>13. Served'
  BY <1>12 DEF Served, Stream, Fair, Resubscribing
<1>14. CandServed'
  BY <1>12 DEF CandServed, Stream, Cand, Fair
<1>15. made' \notin sub.lacks
  BY <1>1, <1>2 DEF IInv, Threads, Thread, NoSub, Scalars
<1>16. CandLacks'
  BY <1>15 DEF CandLacks
<1>17. Unserved'
  BY DEF IInv, Unserved, Resubscribing
<1> QED  BY <1>3, <1>4, <1>5, <1>6, <1>7, <1>10, <1>11, <1>13, <1>14, <1>16, <1>17 DEF IInv

\* Steps of the view and of the registry that make no event and end no handle.
LEMMA ViewInv ==
  IInv /\ (ViewFolds \/ Publish \/ Bind) => IInv'
<1> SUFFICES ASSUME IInv, ViewFolds \/ Publish \/ Bind PROVE IInv'
  OBVIOUS
<1> USE DEF linkVars, phoneVars
<1>1. Scalars /\ HostParts
  BY TypeFacts DEF IInv
<1>2. UNCHANGED <<made, base, linkVars, phoneVars>> /\ (reg => reg')
  BY DEF ViewFolds, Publish, Bind
<1>3. Types'
  <2>1. snap' \in SnapType /\ reg' \in BOOLEAN /\ due' \in BOOLEAN /\ binds' \in 1..MaxBinds
        /\ relay' \subseteq 1..made
    <3>1. CASE ViewFolds
      BY <3>1 DEF IInv, Types, ViewFolds
    <3>2. CASE Publish
      <4>1. relay \in SUBSET Nat /\ made - base \in Nat
        BY <1>1 DEF IInv, Types, Scalars
      <4>2. snap' = [seq |-> made - base, lacks |-> relay, none |-> FALSE]
        BY <3>2 DEF Publish
      <4>3. snap' \in SnapType
        BY <4>1, <4>2 DEF SnapType
      <4> QED  BY <3>2, <4>3 DEF IInv, Types, Publish
    <3>3. CASE Bind
      BY RemoteAssumption, <3>3 DEF IInv, Types, Bind
    <3> QED  BY <3>1, <3>2, <3>3
  <2> QED  BY <1>2, <2>1 DEF IInv, Types
<1>4. Runs'
  BY <1>2 DEF IInv, Runs, RunOK
<1>5. Snaps'
  <2>1. CASE ViewFolds
    BY <2>1 DEF IInv, Snaps, ViewFolds
  <2>2. CASE Publish
    BY <1>1, <2>2 DEF IInv, Types, Snaps, Publish, Scalars
  <2>3. CASE Bind
    BY <2>3 DEF IInv, Snaps, Bind
  <2> QED  BY <2>1, <2>2, <2>3
<1>6. Threads'
  BY <1>2 DEF IInv, Threads, Thread
<1>7. Conns' /\ Sent'
  BY <1>2 DEF IInv, Conns, Sent
<1>8. Hosts'
  BY <1>2 DEF IInv, Hosts, Asked
<1>9. Served' /\ Unserved'
  BY <1>2 DEF IInv, Served, Unserved, Resubscribing, Stream, Coming, Asked, Brings, Fair, Covers
<1>10. CandServed' /\ CandLacks'
  BY <1>2 DEF IInv, CandServed, CandLacks, Cand, Stream, Coming, Asked, Brings, Fair, Covers
<1> QED  BY <1>3, <1>4, <1>5, <1>6, <1>7, <1>8, <1>9, <1>10 DEF IInv

\* The handle ends.
LEMMA UnbindInv == IInv /\ Unbind => IInv'
<1> SUFFICES ASSUME IInv, Unbind PROVE IInv'
  OBVIOUS
<1> USE DEF linkVars, phoneVars
<1>1. Scalars /\ HostParts /\ LinkParts /\ OpenParts
  BY TypeFacts DEF IInv
<1>2. /\ UNCHANGED <<made, binds, relay, links, up, phoneVars>>
      /\ reg /\ ~reg' /\ snap' = NoSnap /\ ~due' /\ base' = made /\ base <= base'
  BY <1>1 DEF Unbind, Scalars, IInv, Types
<1>3. /\ host'.st = host.st /\ host'.known = host.known /\ host'.cur = host.cur /\ host'.base = host.base
      /\ host'.next = host.next /\ host'.mixed = host.mixed
      /\ host' \in ConnType
      /\ (host.gone => host' = host)
      /\ (host.st \in {"taken", "live"} => host'.gone /\ (~host.gone => host'.last = made))
      /\ (host.st \notin {"taken", "live"} => host' = host)
  <2>1. host \in ConnType
    BY DEF IInv, Types
  <2>2. CASE host.st \in {"taken", "live"} /\ ~host.gone
    <3>1. host' = [host EXCEPT !.gone = TRUE, !.last = made]
      BY <2>2 DEF Unbind
    <3> QED  BY <1>1, <2>1, <2>2, <3>1 DEF ConnType, Scalars
  <2>3. CASE ~(host.st \in {"taken", "live"} /\ ~host.gone)
    <3>1. host' = host
      BY <2>3 DEF Unbind
    <3> QED  BY <2>1, <2>3, <3>1
  <2> QED  BY <2>2, <2>3
<1>4. Types'
  <2>1. reg' \in BOOLEAN /\ due' \in BOOLEAN
    BY DEF Unbind
  <2>2. base' \in 0..made'
    BY <1>1, <1>2 DEF Scalars
  <2>3. snap' \in SnapType
    BY <1>2 DEF NoSnap, SnapType
  <2> QED  BY <1>2, <1>3, <2>1, <2>2, <2>3 DEF IInv, Types
<1>5. Runs'
  <2>1. ASSUME NEW p \in Run, RunOK(p, made, base) PROVE RunOK(p, made, made)
    BY <2>1 DEF RunOK
  <2>2. made' = made /\ base' = made /\ UNCHANGED <<act, disp, wire, open>>
    BY <1>2
  <2>3. ASSUME NEW l \in Links
        PROVE  RunOK(wire[l], made, made) /\ RunOK(act[l].got, made, made) /\ RunOK(disp[l].got, made, made)
    BY <1>1, <2>1 DEF IInv, Runs, LinkParts
  <2>4. RunOK(open.got, made, made)
    BY <1>1, <2>1 DEF IInv, Runs, OpenParts
  <2> QED  BY <2>2, <2>3, <2>4 DEF IInv, Runs
<1>6. Snaps'
  BY <1>1, <1>2 DEF Snaps, NoSnap, Scalars
<1>7. Threads'
  <2>1. ASSUME NEW t \in SubType, t.base <= base PROVE t.base <= base'
    BY <1>1, <1>2, <2>1 DEF SubType, Scalars
  <2> QED  BY <1>1, <1>2, <2>1 DEF IInv, Types, Threads, Thread, OpenParts
<1>8. Conns'
  <2>1. up = 0 => host' = host
    BY <1>3 DEF IInv, Conns, NoConn
  <2>2. up # 0 => (act[up].at = "start" => host' = NoConn)
    BY <1>3 DEF IInv, Conns, NoConn
  <2> QED  BY <1>2, <1>3, <2>1, <2>2 DEF IInv, Conns
<1>9. Hosts'
  <2>1. host.base <= base => host.base <= base'
    BY <1>1, <1>2 DEF HostParts, Scalars
  <2>2. host'.gone => host'.st \in {"taken", "live"} /\ host'.last <= base'
    BY <1>1, <1>2, <1>3 DEF IInv, Hosts, HostParts, Scalars
  <2> QED  BY <1>2, <1>3, <2>1, <2>2 DEF IInv, Hosts
<1>10. Sent'
  BY <1>2, <1>3 DEF IInv, Sent
<1>11. (Types /\ Runs /\ Threads /\ Settled)' => (Served /\ CandServed /\ CandLacks)'
  BY NothingOwed, PTL
<1>12. Served' /\ CandServed' /\ CandLacks'
  BY <1>2, <1>4, <1>5, <1>7, <1>11 DEF Settled
<1>13. Unserved'
  BY <1>2, <1>3 DEF IInv, Unserved, Resubscribing
<1> QED  BY <1>4, <1>5, <1>6, <1>7, <1>8, <1>9, <1>10, <1>12, <1>13 DEF IInv

-----------------------------------------------------------------------------
(* The connection and the host's end of it.                                *)

\* A backlog is a run of the present handle.
LEMMA RetainedRun ==
  ASSUME Types, NEW after \in Int
  PROVE  /\ RunOK(Retained(base, made, after), made, base)
         /\ Backlog(Retained(base, made, after), base, made, after)
<1> DEFINE p == Retained(base, made, after)
<1>1. base \in Nat /\ made \in Nat
  BY TypeFacts DEF Scalars
<1>2. Backlog(p, base, made, after)
  BY <1>1, RetainedFacts
<1> HIDE DEF p
<1>3. /\ p \in Run
      /\ \A i \in 1..Len(p) : p[i].base = base /\ p[i].n \in Nat /\ base < p[i].n /\ p[i].n <= made
  BY <1>2 DEF Backlog
<1>4. Len(p) \in Nat /\ \A i \in 1..Len(p) : 1 \in 1..Len(p)
  BY <1>3 DEF Run
<1> QED  BY <1>1, <1>2, <1>3, <1>4 DEF RunOK, p

\* The handle is there: a dormant stream sends its backlog and goes on behind it.
LEMMA MaterializeInv == IInv /\ Materialize => IInv'
<1> SUFFICES ASSUME IInv, Materialize PROVE IInv'
  OBVIOUS
<1> DEFINE c == Retained(base, made, host.cur)
<1>1. Scalars /\ HostParts /\ LinkParts /\ OpenParts /\ Types
  BY TypeFacts DEF IInv
<1>2. /\ up # 0 /\ host.st = "waiting" /\ reg /\ up \in Links
      /\ UNCHANGED <<hostVars, links, up, live, act, disp, sub, open, opens, missed>>
      /\ UNCHANGED <<made, base, reg, binds, relay, snap, due>>
  BY <1>1, LinkFacts DEF Materialize, hostVars
<1>3. RunOK(c, made, base) /\ Backlog(c, base, made, host.cur)
  BY <1>1, RetainedRun DEF HostParts
<1> HIDE DEF c
<1>4. /\ c \in Run /\ RunOK(c, made, base) /\ (c = <<>> <=> made <= base + host.cur \/ made <= base)
      /\ c # <<>> => Len(c) \in 1..Len(c) /\ c[Len(c)].n = made
      /\ \A i \in 1..Len(c) : c[i].base = base /\ c[i].n <= made
      /\ \A i, j \in 1..Len(c) : i < j => c[i].n < c[j].n
  BY <1>3 DEF Backlog
<1>5. host' = [host EXCEPT !.st = "live", !.base = base, !.next = made + 1,
                       !.cur = IF c = <<>> THEN host.cur ELSE SeqNo(Last(c))]
      /\ wire' = [wire EXCEPT ![up] = wire[up] \o c]
  BY DEF Materialize, c
<1>6. wire[up] = <<>>
  BY <1>2 DEF IInv, Sent
<1>7. wire'[up] = c /\ \A l \in Links : l # up => wire'[l] = wire[l]
  BY <1>1, <1>2, <1>4, <1>5, <1>6 DEF Types, Run
<1>8. /\ host'.st = "live" /\ host'.base = base /\ host'.next = made + 1
      /\ host'.known = host.known /\ host'.gone = host.gone /\ host'.last = host.last
      /\ host'.mixed = host.mixed
      /\ (c = <<>> => host'.cur = host.cur) /\ (c # <<>> => host'.cur = made - base)
  BY <1>1, <1>4, <1>5 DEF Types, ConnType, SeqNo, Last
<1>9. Types'
  <2>1. wire' \in [Links -> Run]
    BY <1>1, <1>2, <1>4, <1>5, <1>6, <1>7 DEF Types, Run
  <2>2. host' \in ConnType
    <3> DEFINE q == IF c = <<>> THEN host.cur ELSE SeqNo(Last(c))
    <3>1. q \in Nat
      BY <1>1, <1>4 DEF Scalars, HostParts, SeqNo, Last
    <3>2. host' = [host EXCEPT !.st = "live", !.base = base, !.next = made + 1, !.cur = q]
      BY <1>5
    <3> HIDE DEF q
    <3>3. host \in ConnType /\ base \in Nat /\ made + 1 \in Nat
      BY <1>1 DEF Types, Scalars
    <3> QED  BY <3>1, <3>2, <3>3 DEF ConnType
  <2> QED  BY <1>1, <1>2, <2>1, <2>2 DEF Types
<1>10. Runs'
  BY <1>2, <1>4, <1>7 DEF IInv, Runs
<1>11. Snaps' /\ Threads'
  BY <1>2 DEF IInv, Snaps, Threads, Thread
<1>12. Conns'
  <2>1. host.known /\ host # NoConn
    BY <1>2 DEF IInv, Hosts, NoConn
  <2>2. act[up].at # "off"
    BY <1>1, <1>2 DEF IInv, Conns, Scalars
  <2> QED  BY <1>2, <1>7, <1>8, <2>1, <2>2 DEF IInv, Conns
<1>13. Hosts'
  <2>1. host'.known /\ ~host'.gone
    BY <1>2, <1>8 DEF IInv, Hosts
  <2>2. ~host'.mixed => host'.next - 1 <= base + host'.cur /\ base + host'.cur <= made
    <3> SUFFICES ASSUME ~host'.mixed PROVE host'.next - 1 <= base + host'.cur /\ base + host'.cur <= made
      OBVIOUS
    <3>1. host.cur = 0
      BY <1>2, <1>8 DEF IInv, Hosts
    <3> QED  BY <1>1, <1>4, <1>8, <3>1 DEF Scalars
  <2> QED  BY <1>1, <1>2, <1>8, <2>1, <2>2 DEF Hosts, Scalars
<1>14. Sent'
  <2>1. \A i \in 1..Len(c) : c[i].n <= base + host'.cur
    BY <1>1, <1>4, <1>8 DEF Scalars
  <2> QED  BY <1>2, <1>4, <1>7, <1>8, <2>1 DEF Sent
<1>15. Stream' => Settled' \/ Coming'
  <2> SUFFICES ASSUME Stream' PROVE Settled' \/ Coming'
    OBVIOUS
  <2>1. CASE c = <<>>
    <3>1. host.cur = 0
      BY <1>2, <1>8 DEF IInv, Hosts, Stream
    <3> QED  BY <1>1, <1>2, <1>4, <2>1, <3>1 DEF Scalars, Settled
  <2>2. CASE c # <<>>
    BY <1>2, <1>4, <1>7, <2>2 DEF Coming, Brings
  <2> QED  BY <2>1, <2>2
<1>16. (Types /\ Runs /\ Threads /\ Settled)' => (Served /\ CandServed /\ CandLacks)'
  BY NothingOwed, PTL
<1>17. Served' /\ CandServed'
  BY <1>9, <1>10, <1>11, <1>15, <1>16 DEF Served, CandServed
<1>18. CandLacks'
  BY <1>2, <1>8 DEF IInv, CandLacks, Cand, Fair, Covers
<1>19. Unserved'
  BY <1>8 DEF Unserved
<1> QED  BY <1>9, <1>10, <1>11, <1>12, <1>13, <1>14, <1>17, <1>18, <1>19 DEF IInv

\* A new connection begins with nothing said on it.
LEMMA ConnectInv == IInv /\ Connect => IInv'
<1> SUFFICES ASSUME IInv, Connect PROVE IInv'
  OBVIOUS
<1> DEFINE n == links + 1
<1>1. Scalars /\ HostParts /\ LinkParts /\ OpenParts /\ Types
  BY TypeFacts DEF IInv
<1>2. /\ up = 0 /\ links' = n /\ up' = n /\ n \in Links /\ host' = NoConn /\ n # 0
      /\ UNCHANGED <<live, disp, wire, sub, open, opens, missed>>
      /\ UNCHANGED <<made, base, reg, binds, relay, snap, due>>
  BY <1>1, LinkFacts DEF Connect, hostVars, Scalars
<1>3. act'[n] = Step("start") /\ \A l \in Links : l # n => act'[l] = act[l]
  BY <1>1, <1>2 DEF Connect, Types
<1>4. <<>> \in Run /\ Len(<<>>) = 0
  BY DEF Run
<1>5. Types'
  <2>1. act' \in [Links -> ActType]
    BY <1>1, <1>4 DEF Connect, Types, ActType, Step
  <2>2. host' \in ConnType
    BY <1>2 DEF ConnType, NoConn
  <2>3. links' \in 0..MaxLinks /\ live \in 0..links'
    BY RemoteAssumption, <1>1, <1>2 DEF Scalars, Connect
  <2> QED  BY <1>1, <1>2, <2>1, <2>2, <2>3 DEF Types
<1>6. Runs'
  <2>1. RunOK(<<>>, made, base) /\ act'[n].got = <<>>
    BY <1>3, <1>4 DEF RunOK, Step
  <2> QED  BY <1>2, <1>3, <2>1 DEF IInv, Runs
<1>7. Snaps'
  BY <1>2 DEF IInv, Snaps
<1>8. Threads'
  BY <1>2, <1>3 DEF IInv, Threads, Thread, Step
<1>9. act[n].at = "off" /\ wire[n] = <<>> /\ disp[n].at = "off"
  BY <1>1, <1>2 DEF IInv, Conns, Scalars
<1>10. Conns'
  <2>1. \A l \in Links : (act'[l].at = "off" <=> l > n)
    <3> SUFFICES ASSUME NEW l \in Links PROVE (act'[l].at = "off" <=> l > n)
      OBVIOUS
    <3>1. l \in Nat /\ (act[l].at = "off" <=> l > links)
      BY <1>1, LinkFacts DEF IInv, Conns
    <3>2. CASE l = n
      BY <1>3, <3>1, <3>2 DEF Step
    <3>3. CASE l # n
      BY <1>1, <1>3, <3>1, <3>3 DEF Scalars
    <3> QED  BY <3>2, <3>3
  <2>2. \A l \in Links : act'[l].at = "off" => wire[l] = <<>>
    BY <1>3, <1>9 DEF IInv, Conns
  <2>3. \A l \in Links : disp[l].at # "off" => l # n /\ act'[l].at = "done"
    BY <1>3, <1>9 DEF IInv, Conns
  <2>4. live # 0 => act'[live].at = "done"
    BY <1>1, <1>3, <1>9, LinkFacts DEF IInv, Conns
  <2>5. open.at # "idle" => open.link \in 1..n /\ open.link # n /\ act'[open.link].at = "done"
    BY <1>1, <1>3, <1>9, LinkFacts DEF IInv, Conns, Scalars
  <2>6. act'[n].at = "start" /\ host'.st = "none"
    BY <1>2, <1>3 DEF Step, NoConn
  <2> QED  BY <1>2, <1>3, <1>9, <2>1, <2>2, <2>3, <2>4, <2>5, <2>6 DEF Conns
<1>11. Hosts'
  BY <1>1, <1>2 DEF Hosts, NoConn, Scalars
<1>12. Sent'
  BY <1>2, <1>4, <1>9 DEF Sent, NoConn
<1>13. Served' /\ CandServed' /\ Unserved'
  BY <1>2, <1>3 DEF Served, CandServed, Unserved, Stream, NoConn, Step
<1>14. CandLacks'
  <2>1. ~host'.gone
    BY <1>2 DEF NoConn
  <2> QED  BY <1>2, <2>1 DEF IInv, CandLacks, Cand, Fair, Covers
<1> QED  BY <1>5, <1>6, <1>7, <1>8, <1>10, <1>11, <1>12, <1>13, <1>14 DEF IInv

\* Without a connection nothing is a stream.
LEMMA LoseInv == IInv /\ Lose => IInv'
<1> SUFFICES ASSUME IInv, Lose PROVE IInv'
  OBVIOUS
<1>1. Scalars /\ HostParts /\ LinkParts /\ OpenParts /\ Types
  BY TypeFacts DEF IInv
<1>2. /\ up # 0 /\ up \in Links /\ up' = 0 /\ live' = 0 /\ host' = NoConn
      /\ UNCHANGED <<links, act, disp, sub, open, opens, missed>>
      /\ UNCHANGED <<made, base, reg, binds, relay, snap, due>>
  BY <1>1, LinkFacts DEF Lose, hostVars
<1>3. PICK k \in 0..Len(wire[up]) : wire' = [wire EXCEPT ![up] = SubSeq(wire[up], 1, k)]
  BY DEF Lose
<1> DEFINE p == SubSeq(wire[up], 1, k)
<1>4. wire'[up] = p /\ \A l \in Links : l # up => wire'[l] = wire[l]
  BY <1>1, <1>2, <1>3 DEF Types
<1>5. p \in Run /\ Len(p) \in 0..Len(wire[up]) /\ \A i \in 1..Len(p) : p[i] = wire[up][i]
  BY <1>1, <1>2 DEF LinkParts, Run
<1> HIDE DEF p
<1>6. Types'
  <2>1. wire' \in [Links -> Run]
    BY <1>1, <1>2, <1>3, <1>5 DEF Types, p
  <2>2. host' \in ConnType
    BY <1>2 DEF ConnType, NoConn
  <2> QED  BY <1>1, <1>2, <2>1, <2>2 DEF Types
<1>7. Runs'
  <2>1. RunOK(wire[up], made, base)
    BY <1>2 DEF IInv, Runs
  <2>2. Len(wire[up]) \in Nat
    BY <1>1, <1>2 DEF LinkParts, Run
  <2>3. \A i \in 1..Len(p) : i \in 1..Len(wire[up]) /\ 1 \in 1..Len(p)
    BY <1>5, <2>2
  <2>4. RunOK(p, made, base)
    BY <1>5, <2>1, <2>3 DEF RunOK
  <2> QED  BY <1>2, <1>4, <2>4 DEF IInv, Runs
<1>8. Snaps' /\ Threads'
  BY <1>2 DEF IInv, Snaps, Threads, Thread
<1>9. Conns'
  <2>1. \A l \in Links : l # 0
    BY <1>1, LinkFacts
  <2>2. \A l \in Links : act[l].at = "off" => wire'[l] = <<>>
    <3>1. act[up].at # "off"
      BY <1>1, <1>2 DEF IInv, Conns, Scalars
    <3> QED  BY <1>4, <3>1 DEF IInv, Conns
  <2>3. open.at # "idle" => open.link # 0
    BY DEF IInv, Conns
  <2>4. host'.st # "taken"
    BY <1>2 DEF NoConn
  <2> QED  BY <1>2, <2>1, <2>2, <2>3, <2>4 DEF IInv, Conns
<1>10. Hosts'
  BY <1>1, <1>2 DEF Hosts, NoConn, Scalars
<1>11. Sent' /\ Served' /\ CandServed' /\ Unserved'
  BY <1>2 DEF Sent, Served, CandServed, Unserved, Stream
<1>12. CandLacks'
  <2>1. ~host'.gone
    BY <1>2 DEF NoConn
  <2> QED  BY <1>2, <2>1 DEF IInv, CandLacks, Cand, Fair, Covers
<1> QED  BY <1>6, <1>7, <1>8, <1>9, <1>10, <1>11, <1>12 DEF IInv

\* forward_live: what it sends is beyond all it sent.
LEMMA ForwardInv == IInv /\ Forward => IInv'
<1> SUFFICES ASSUME IInv, Forward PROVE IInv'
  OBVIOUS
<1> DEFINE oldest == End(host) - Ring + 1
           n == IF host.next < oldest THEN oldest ELSE host.next
           f == Frame(n, host.base)
           new == n - host.base > host.cur
<1>1. Scalars /\ HostParts /\ LinkParts /\ OpenParts /\ Types
  BY TypeFacts DEF IInv
<1>2. /\ up # 0 /\ host.st = "live" /\ host.next <= End(host) /\ up \in Links
      /\ UNCHANGED <<hostVars, links, up, live, act, disp, sub, open, opens, missed>>
      /\ UNCHANGED <<made, base, reg, binds, relay, snap, due>>
  BY <1>1, LinkFacts DEF Forward, hostVars
<1>3. /\ host.base <= base /\ (~host.gone => host.base = base) /\ (host.gone => host.last <= base)
      /\ End(host) \in Nat /\ End(host) <= made /\ (host.gone => End(host) <= base)
  BY <1>1, <1>2 DEF IInv, Hosts, End, HostParts, Scalars
<1>4. n \in Nat /\ n <= End(host) /\ n <= made /\ (host.gone => n <= base)
  BY RemoteAssumption, <1>1, <1>2, <1>3 DEF HostParts, Scalars
<1>5. /\ host' = [host EXCEPT !.next = n + 1, !.cur = IF new THEN n - host.base ELSE host.cur]
      /\ wire' = IF new THEN [wire EXCEPT ![up] = Append(wire[up], f)] ELSE wire
      /\ f = [n |-> n, base |-> host.base]
  BY DEF Forward, Frame, SeqNo
<1> HIDE DEF n, f
<1>6. /\ host'.next = n + 1 /\ (new => host'.cur = n - host.base) /\ (~new => host'.cur = host.cur)
      /\ host'.st = "live" /\ host'.known = host.known /\ host'.base = host.base
      /\ host'.gone = host.gone /\ host'.last = host.last /\ host'.mixed = host.mixed
      /\ host' \in ConnType
  <2> DEFINE q == IF new THEN n - host.base ELSE host.cur
  <2>1. q \in Nat /\ (new => q = n - host.base) /\ (~new => q = host.cur)
    BY <1>1, <1>4 DEF HostParts
  <2>2. host \in ConnType /\ n + 1 \in Nat
    BY <1>1, <1>4 DEF Types
  <2>3. host' = [host EXCEPT !.next = n + 1, !.cur = q]
    BY <1>5
  <2> HIDE DEF q, new
  <2> QED  BY <1>2, <2>1, <2>2, <2>3 DEF ConnType
<1>7. new => n > host.base + host.cur /\ n \in 1..made /\ host.base < n
  BY <1>1, <1>4 DEF HostParts, Scalars
<1>8. CASE ~new
  <2>1. wire' = wire /\ host'.cur = host.cur
    BY <1>5, <1>6, <1>8
  <2>2. n - host.base <= host.cur
    BY <1>1, <1>4, <1>8 DEF HostParts
  <2> HIDE DEF new
  <2>3. Types' /\ Runs' /\ Snaps' /\ Threads'
    BY <1>2, <1>6, <2>1 DEF IInv, Types, Runs, Snaps, Threads
  <2>4. host # NoConn /\ host' # NoConn
    BY <1>2, <1>6 DEF NoConn
  <2>5. Conns'
    BY <1>2, <1>6, <2>1, <2>4 DEF IInv, Conns
  <2>6. Hosts'
    <3>1. host'.next <= made + 1
      BY <1>1, <1>4, <1>6 DEF Scalars
    <3>2. ~host.gone => host'.next - 1 <= base + host'.cur
      BY <1>1, <1>3, <1>4, <1>6, <2>1, <2>2 DEF HostParts, Scalars
    <3> QED  BY <1>2, <1>6, <2>1, <3>1, <3>2 DEF IInv, Hosts
  <2>7. Sent'
    BY <1>2, <1>6, <2>1 DEF IInv, Sent
  <2>8. Stream' = Stream /\ Coming' = Coming
    BY <1>2, <1>6, <2>1 DEF Stream, Coming, Asked
  <2>9. Served' /\ CandServed' /\ Unserved'
    BY <1>2, <1>6, <2>8 DEF IInv, Served, CandServed, Cand, Unserved, Resubscribing
  <2>10. CandLacks'
    BY <1>2, <1>6 DEF IInv, CandLacks, Cand
  <2> QED  BY <2>3, <2>5, <2>6, <2>7, <2>9, <2>10 DEF IInv
<1>9. CASE new
  <2> DEFINE w == Append(wire[up], f)
             k == Len(wire[up])
  <2>1. /\ wire'[up] = w /\ host'.cur = n - host.base
        /\ \A l \in Links : l # up => wire'[l] = wire[l]
    BY <1>1, <1>2, <1>5, <1>6, <1>9 DEF Types
  <2>2. f.n = n /\ f.base = host.base /\ f \in FrameType
    BY <1>1, <1>4, <1>5 DEF FrameType, HostParts
  <2>3. /\ w \in Run /\ k \in Nat /\ Len(w) = k + 1 /\ w[k + 1] = f /\ w # <<>>
        /\ \A i \in 1..k : w[i] = wire[up][i]
    BY <1>1, <1>2, <2>2 DEF LinkParts, Run
  <2> HIDE DEF w
  <2>4. \A i \in 1..k : wire[up][i].base = host.base /\ wire[up][i].n < n /\ wire[up][i].n \in Nat
    <3> SUFFICES ASSUME NEW i \in 1..k
                 PROVE  wire[up][i].base = host.base /\ wire[up][i].n < n /\ wire[up][i].n \in Nat
      OBVIOUS
    <3>1. wire[up][i].base = host.base /\ wire[up][i].n <= host.base + host.cur /\ wire[up][i].n \in Nat
      BY <1>1, <1>2 DEF IInv, Sent, Runs, RunOK, Scalars
    <3> QED  BY <1>1, <1>4, <1>7, <1>9, <3>1 DEF HostParts
  <2>5. Types'
    <3>1. wire' \in [Links -> Run]
      BY <1>1, <1>2, <1>5, <1>9, <2>3 DEF Types, w
    <3> QED  BY <1>1, <1>2, <1>6, <3>1 DEF Types
  <2>6. Runs'
    <3>1. RunOK(wire[up], made, base)
      BY <1>2 DEF IInv, Runs
    <3>2. \A i \in 1..(k + 1) : w[i].n \in 1..made /\ w[i].base < w[i].n /\ w[i].base = host.base
                             /\ (w[i].base = base \/ w[i].n <= base)
      <4>1. ASSUME NEW i \in 1..k
            PROVE  w[i].n \in 1..made /\ w[i].base < w[i].n /\ w[i].base = host.base
                   /\ (w[i].base = base \/ w[i].n <= base)
        BY <2>3, <2>4, <3>1 DEF RunOK
      <4>2. w[k + 1].n \in 1..made /\ w[k + 1].base < w[k + 1].n /\ w[k + 1].base = host.base
            /\ (w[k + 1].base = base \/ w[k + 1].n <= base)
        BY <1>3, <1>4, <1>7, <1>9, <2>2, <2>3
      <4>3. \A i \in 1..(k + 1) : i \in 1..k \/ i = k + 1
        BY <2>3
      <4> QED  BY <4>1, <4>2, <4>3
    <3>3. 1 \in 1..(k + 1)
      BY <2>3
    <3>4. RunOK(w, made, base)
      BY <2>3, <3>2, <3>3 DEF RunOK
    <3> QED  BY <1>2, <2>1, <3>4 DEF IInv, Runs
  <2>7. Snaps' /\ Threads'
    BY <1>2 DEF IInv, Snaps, Threads
  <2>8. Conns'
    <3>1. act[up].at # "off"
      BY <1>1, <1>2 DEF IInv, Conns, Scalars
    <3>2. host # NoConn /\ host' # NoConn
      BY <1>2, <1>6 DEF NoConn
    <3> QED  BY <1>2, <1>6, <2>1, <3>1, <3>2 DEF IInv, Conns
  <2>9. Hosts'
    <3>1. host'.next <= made + 1
      BY <1>1, <1>4, <1>6 DEF Scalars
    <3>2. ~host.gone => host'.next - 1 <= base + host'.cur /\ base + host'.cur <= made
      BY <1>1, <1>3, <1>4, <1>6, <2>1 DEF HostParts, Scalars
    <3> QED  BY <1>2, <1>6, <3>1, <3>2 DEF IInv, Hosts
  <2>10. Sent'
    <3>1. \A i \in 1..(k + 1) : i \in 1..k \/ i = k + 1
      BY <2>3
    <3>2. \A i \in 1..(k + 1) : w[i].base = host.base /\ w[i].n <= host.base + host'.cur
      <4>1. host.base + host'.cur = n /\ n \in Nat
        BY <1>1, <1>4, <2>1 DEF HostParts
      <4>2. \A m \in Nat : m < n => m <= n
        BY <4>1
      <4>3. \A i \in 1..k : w[i].base = host.base /\ w[i].n <= n
        BY <2>3, <2>4, <4>1, <4>2
      <4>4. w[k + 1].base = host.base /\ w[k + 1].n <= n
        BY <2>2, <2>3, <4>1
      <4> QED  BY <3>1, <4>1, <4>3, <4>4
    <3>3. \A i, j \in 1..k : i < j => w[i].n < w[j].n
      BY <1>2, <2>3 DEF IInv, Sent
    <3>4. \A i \in 1..k : w[i].n < w[k + 1].n
      BY <2>2, <2>3, <2>4
    <3>5. \A i, j \in 1..(k + 1) : i < j => i \in 1..k /\ (j \in 1..k \/ j = k + 1)
      BY <2>3
    <3>6. \A i, j \in 1..(k + 1) : i < j => w[i].n < w[j].n
      BY <3>3, <3>4, <3>5
    <3> QED  BY <1>2, <1>6, <2>1, <2>3, <3>2, <3>6 DEF Sent
  <2>11. Stream' = Stream
    BY <1>2, <1>6 DEF Stream
  <2>12. Stream /\ Coming => Coming'
    <3> SUFFICES ASSUME Stream, Coming PROVE Coming'
      OBVIOUS
    <3>1. host.base = base
      BY <1>3 DEF Stream
    <3>2. CASE n = made
      <4>1. Brings(w, made)
        BY <2>2, <2>3, <3>2 DEF Brings
      <4> QED  BY <1>2, <2>1, <4>1 DEF Coming
    <3>3. CASE n < made
      <4>1. base + host'.cur < made
        BY <1>1, <1>4, <2>1, <3>1, <3>3 DEF HostParts
      <4> QED  BY <1>2, <1>6, <4>1 DEF Coming
    <3> QED  BY <1>1, <1>4, <3>2, <3>3 DEF Scalars
  <2>13. Served' /\ CandServed' /\ Unserved'
    BY <1>2, <1>6, <2>11, <2>12 DEF IInv, Served, CandServed, Cand, Unserved, Resubscribing
  <2>14. CandLacks'
    BY <1>2, <1>6 DEF IInv, CandLacks, Cand
  <2> QED  BY <2>5, <2>6, <2>7, <2>8, <2>9, <2>10, <2>13, <2>14 DEF IInv
<1> QED  BY <1>8, <1>9

-----------------------------------------------------------------------------
(* Resubscribing.                                                          *)

\* Resubscribing finds nothing of the connection: the host starts at the cursor.
LEMMA ResubscribeInv == ASSUME NEW l \in Links PROVE IInv /\ Resubscribe(l) => IInv'
<1> SUFFICES ASSUME IInv, Resubscribe(l) PROVE IInv'
  OBVIOUS
<1>1. Scalars /\ HostParts /\ LinkParts /\ SubParts(sub) /\ OpenParts /\ Types /\ sub \in SubType
  BY TypeFacts DEF IInv, Types
<1>2. /\ act[l].at = "start" /\ sub # NoSub /\ up = l /\ l # 0
      /\ UNCHANGED <<links, up, live, disp, wire, sub, open, opens, missed>>
      /\ UNCHANGED <<made, base, reg, binds, relay, snap, due>>
  BY <1>1, LinkFacts DEF Resubscribe, hostVars
<1>3. host = NoConn /\ wire[l] = <<>> /\ disp[l].at = "off" /\ (open.at # "idle" => open.link # l) /\ live # l
  <2>1. host = NoConn /\ disp[l].at = "off" /\ live # l
    BY <1>2 DEF IInv, Conns
  <2>2. open.at # "idle" => open.link # l
    BY <1>2 DEF IInv, Conns
  <2> QED  BY <1>2, <2>1, <2>2 DEF IInv, Sent, NoConn
<1>4. Thread(sub, made, base) /\ sub.cur \in Nat
  BY <1>1, <1>2 DEF IInv, Threads, Thread, Scalars
<1> DEFINE m == sub.base # base \/ sub.mixed
<1>5. m \in BOOLEAN /\ (~m <=> Fair(sub, base))
  BY <1>1 DEF SubParts, Fair
<1>6. \/ /\ reg
         /\ host' = [NoConn EXCEPT !.st = "taken", !.base = base, !.next = made + 1, !.mixed = m]
         /\ act' = [act EXCEPT ![l] = [at |-> "taken", after |-> sub.cur, got |-> <<>>]]
      \/ /\ ~reg
         /\ host' = [NoConn EXCEPT !.st = "waiting", !.known = TRUE, !.cur = sub.cur, !.mixed = m]
         /\ act' = [act EXCEPT ![l] = [at |-> "told", after |-> sub.cur, got |-> <<>>]]
  <2>1. ~host.known
    BY <1>3 DEF NoConn
  <2>2. CASE TakeReceiver(sub) /\ act' = [act EXCEPT ![l] = [at |-> "taken", after |-> sub.cur, got |-> <<>>]]
    BY <1>3, <2>2 DEF TakeReceiver
  <2>3. ASSUME NEW got, AnswerAtOnce(sub, got),
               act' = [act EXCEPT ![l] = [at |-> "told", after |-> sub.cur, got |-> got]]
        PROVE  /\ ~reg
               /\ host' = [NoConn EXCEPT !.st = "waiting", !.known = TRUE, !.cur = sub.cur, !.mixed = m]
               /\ act' = [act EXCEPT ![l] = [at |-> "told", after |-> sub.cur, got |-> <<>>]]
    BY <1>3, <2>1, <2>3 DEF AnswerAtOnce
  <2> QED  BY <2>2, <2>3 DEF Resubscribe
<1> HIDE DEF m
<1>7. /\ host' \in ConnType /\ host'.mixed = m /\ ~host'.gone /\ host'.last = 0
      /\ \/ reg /\ host'.st = "taken" /\ host'.base = base /\ host'.next = made + 1 /\ ~host'.known /\ host'.cur = 0
         \/ ~reg /\ host'.st = "waiting" /\ host'.next = 0 /\ host'.known /\ host'.cur = sub.cur
  <2>1. base \in Nat /\ made + 1 \in Nat
    BY <1>1 DEF Scalars
  <2>2. CASE reg
    <3>1. host' = [NoConn EXCEPT !.st = "taken", !.base = base, !.next = made + 1, !.mixed = m]
      BY <1>6, <2>2
    <3> QED  BY <1>5, <2>1, <2>2, <3>1 DEF NoConn, ConnType
  <2>3. CASE ~reg
    <3>1. host' = [NoConn EXCEPT !.st = "waiting", !.known = TRUE, !.cur = sub.cur, !.mixed = m]
      BY <1>6, <2>3
    <3> QED  BY <1>4, <1>5, <2>3, <3>1 DEF NoConn, ConnType
  <2> QED  BY <2>2, <2>3
<1>8. /\ act' \in [Links -> ActType] /\ act'[l].after = sub.cur /\ act'[l].got = <<>>
      /\ \A k \in Links : k # l => act'[k] = act[k]
      /\ \/ reg /\ act'[l].at = "taken"
         \/ ~reg /\ act'[l].at = "told"
  <2>1. act \in [Links -> ActType] /\ <<>> \in Run
    BY <1>1, RunEmpty DEF Types
  <2>2. PICK x \in ActType : /\ act' = [act EXCEPT ![l] = x] /\ x.after = sub.cur /\ x.got = <<>>
                             /\ (reg /\ x.at = "taken") \/ (~reg /\ x.at = "told")
    <3> DEFINE y == [at |-> "taken", after |-> sub.cur, got |-> <<>>]
               z == [at |-> "told", after |-> sub.cur, got |-> <<>>]
    <3>1. y \in ActType /\ z \in ActType
      BY <1>4, <2>1 DEF ActType
    <3>2. (reg /\ act' = [act EXCEPT ![l] = y]) \/ (~reg /\ act' = [act EXCEPT ![l] = z])
      BY <1>6
    <3> QED  BY <3>1, <3>2
  <2>3. act' \in [Links -> ActType] /\ act'[l] = x /\ \A k \in Links : k # l => act'[k] = act[k]
    BY <2>1, <2>2, Updated
  <2> QED  BY <2>2, <2>3
<1>9. Types'
  BY <1>1, <1>2, <1>7, <1>8 DEF Types
<1>10. Runs'
  BY <1>2, <1>8, RunEmpty DEF IInv, Runs
<1>11. Snaps' /\ Threads'
  BY <1>2 DEF IInv, Snaps, Threads
<1>12. Conns'
  <2>1. \A k \in Links : (act'[k].at = "off" <=> k > links)
    BY <1>2, <1>8 DEF IInv, Conns
  <2>2. \A k \in Links : act'[k].at = "off" => wire[k] = <<>>
    BY <1>2, <1>8 DEF IInv, Conns
  <2>3. \A k \in Links : disp[k].at # "off" => act'[k].at = "done"
    BY <1>3, <1>8 DEF IInv, Conns
  <2>4. live # 0 => act'[live].at = "done"
    BY <1>1, <1>3, <1>8, LinkFacts DEF IInv, Conns
  <2>5. open.at # "idle" => open.link \in 1..links /\ act'[open.link].at = "done"
    BY <1>1, <1>3, <1>8, LinkFacts DEF IInv, Conns
  <2> QED  BY <1>2, <1>3, <1>7, <1>8, <2>1, <2>2, <2>3, <2>4, <2>5 DEF IInv, Conns
<1>13. Asked' = IF reg THEN sub.cur ELSE Asked'
  BY <1>2, <1>8 DEF Asked
<1>14. ~m => base + sub.cur <= made /\ (~reg => sub.cur = 0)
  BY <1>1, <1>4, <1>5, CoversHas DEF IInv, Snaps, Scalars
<1>15. Hosts'
  BY <1>1, <1>2, <1>7, <1>13, <1>14 DEF Hosts, Scalars
<1>16. Sent'
  BY <1>2, <1>3, RunEmpty DEF Sent
<1>17. Stream' => Coming' \/ Covers(sub, made)
  BY <1>1, <1>2, <1>4, <1>5, <1>7, <1>13, CoversHas DEF Stream, Coming
<1>18. Served'
  BY <1>2, <1>17 DEF Served
<1>19. CandLacks'
  BY <1>2, <1>7 DEF IInv, CandLacks, Cand
<1>20. (Types /\ Runs /\ Threads /\ Settled)' => (Served /\ CandServed /\ CandLacks)'
  BY NothingOwed, PTL
<1>21. CandServed'
  <2> SUFFICES ASSUME Stream', open.at = "told", Fair(Cand, base), ~Coming', ~Settled'
               PROVE  Covers(Cand, made) \/ made \in Refused(open.sub, open.got) \/ made \in sub.has
    BY <1>2, <1>9, <1>10, <1>11, <1>20 DEF CandServed, Cand
  <2>1. base < made
    BY <1>1, <1>2 DEF Scalars, Settled
  <2>2. Fair(sub, base) /\ Covers(sub, made)
    BY <1>5, <1>7, <1>17 DEF Stream
  <2>3. made \in sub.has \cup sub.lacks
    BY <1>1, <1>4, <2>1, <2>2, CoversHas
  <2> QED  BY <2>3 DEF IInv, CandLacks
<1>22. Unserved'
  BY <1>2, <1>7, <1>8 DEF Unserved
<1> QED  BY <1>9, <1>10, <1>11, <1>12, <1>15, <1>16, <1>18, <1>19, <1>21, <1>22 DEF IInv

\* A backlog of the handle the host took its receiver from.
LEMMA HostRetained ==
  ASSUME IInv, host.st = "taken", NEW after \in Int
  PROVE  /\ RunOK(Retained(host.base, End(host), after), made, base)
         /\ Backlog(Retained(host.base, End(host), after), host.base, End(host), after)
         /\ End(host) \in Nat /\ End(host) <= made /\ (~host.gone => End(host) = made /\ host.base = base)
         /\ host.base <= base
<1> DEFINE p == Retained(host.base, End(host), after)
<1>1. Scalars /\ HostParts
  BY TypeFacts DEF IInv
<1>2. /\ host.base <= base /\ (~host.gone => End(host) = made /\ host.base = base)
      /\ End(host) \in Nat /\ End(host) <= made /\ (host.gone => End(host) <= base)
  BY <1>1 DEF IInv, Hosts, End, HostParts, Scalars
<1>3. Backlog(p, host.base, End(host), after)
  BY <1>1, <1>2, RetainedFacts DEF HostParts
<1> HIDE DEF p
<1>4. /\ p \in Run
      /\ \A i \in 1..Len(p) : /\ p[i].base = host.base /\ p[i].n \in Nat
                              /\ host.base < p[i].n /\ p[i].n <= End(host)
  BY <1>3 DEF Backlog
<1>5. Len(p) \in Nat /\ \A i \in 1..Len(p) : 1 \in 1..Len(p)
  BY <1>4 DEF Run
<1>6. \A i \in 1..Len(p) : p[i].n \in 1..made /\ (p[i].base = base \/ p[i].n <= base)
  BY <1>1, <1>2, <1>4 DEF Scalars, HostParts
<1>7. RunOK(p, made, base)
  BY <1>4, <1>5, <1>6 DEF RunOK
<1> QED  BY <1>2, <1>3, <1>7 DEF p

\* What Answer leaves in the host's end.
LEMMA AnswerFacts ==
  ASSUME IInv, NEW after \in Nat, NEW got, Answer(after, got),
         after = Asked
  PROVE  /\ got \in Run /\ RunOK(got, made, base)
         /\ host' \in ConnType /\ host'.st = "live" /\ host'.known /\ host'.base = host.base
         /\ host'.next = host.next /\ host'.gone = host.gone /\ host'.last = host.last
         /\ host'.mixed = host.mixed
         /\ ~host.gone /\ ~host.mixed =>
              /\ base + host'.cur = made /\ host.base = base
              /\ IF got = <<>> THEN base + after = made ELSE Brings(got, made)
<1>1. Scalars /\ HostParts /\ host \in ConnType
  BY TypeFacts DEF IInv, Types
<1>2. host.st = "taken" /\ got = Retained(host.base, End(host), after)
  BY DEF Answer
<1>3. /\ RunOK(got, made, base) /\ Backlog(got, host.base, End(host), after)
      /\ End(host) \in Nat /\ End(host) <= made /\ (~host.gone => End(host) = made /\ host.base = base)
  BY <1>2, HostRetained
<1>4. got \in Run /\ (got # <<>> => Len(got) \in 1..Len(got) /\ got[Len(got)].n = End(host)
                        /\ got[Len(got)].base = host.base /\ host.base < got[Len(got)].n)
      /\ (got = <<>> <=> End(host) <= host.base + after \/ End(host) <= host.base)
  BY <1>3 DEF Backlog
<1> DEFINE q == IF got = <<>> THEN after ELSE SeqNo(Last(got))
<1>5. q \in Nat /\ (got = <<>> => q = after) /\ (got # <<>> => host.base + q = End(host))
  BY <1>1, <1>3, <1>4 DEF HostParts, SeqNo, Last
<1>6. host' = [host EXCEPT !.st = "live", !.known = TRUE, !.cur = q]
  BY DEF Answer
<1> HIDE DEF q
<1>7. /\ host' \in ConnType /\ host'.st = "live" /\ host'.known /\ host'.base = host.base
      /\ host'.next = host.next /\ host'.gone = host.gone /\ host'.last = host.last
      /\ host'.mixed = host.mixed /\ host'.cur = q
  BY <1>1, <1>5, <1>6 DEF ConnType
<1>8. ASSUME ~host.gone, ~host.mixed
      PROVE  /\ base + q = made /\ host.base = base
             /\ IF got = <<>> THEN base + after = made ELSE Brings(got, made)
  <2>1. base + after <= made
    BY <1>2, <1>8 DEF IInv, Hosts
  <2>2. CASE got = <<>>
    BY <1>1, <1>3, <1>4, <1>5, <1>8, <2>1, <2>2 DEF Scalars
  <2>3. CASE got # <<>>
    BY <1>3, <1>4, <1>5, <1>8, <2>3 DEF Brings
  <2> QED  BY <2>2, <2>3
<1> QED  BY <1>3, <1>4, <1>7, <1>8

\* The answer to it brings all that the cursor lacks.
LEMMA ResubscribeAnswerInv == ASSUME NEW l \in Links PROVE IInv /\ ResubscribeAnswer(l) => IInv'
<1> SUFFICES ASSUME IInv, ResubscribeAnswer(l) PROVE IInv'
  OBVIOUS
<1>1. Scalars /\ HostParts /\ LinkParts /\ SubParts(sub) /\ OpenParts /\ Types
  BY TypeFacts DEF IInv, Types
<1>2. /\ act[l].at = "taken" /\ up = l /\ l # 0 /\ host.st = "taken"
      /\ UNCHANGED <<links, up, live, disp, wire, sub, open, opens, missed>>
      /\ UNCHANGED <<made, base, reg, binds, relay, snap, due>>
  BY <1>1, LinkFacts DEF ResubscribeAnswer, hostVars, Answer
<1> DEFINE after == act[l].after
           got == Retained(host.base, End(host), after)
<1>3. after \in Nat /\ Asked = after
  BY <1>1, <1>2 DEF LinkParts, Asked
<1>4. Answer(after, got) /\ act' = [act EXCEPT ![l] = [act[l] EXCEPT !.at = "told", !.got = got]]
  BY DEF ResubscribeAnswer
<1> HIDE DEF after, got
<1>5. /\ got \in Run /\ RunOK(got, made, base)
      /\ host' \in ConnType /\ host'.st = "live" /\ host'.known /\ host'.base = host.base
      /\ host'.next = host.next /\ host'.gone = host.gone /\ host'.last = host.last
      /\ host'.mixed = host.mixed
      /\ ~host.gone /\ ~host.mixed =>
           /\ base + host'.cur = made /\ host.base = base
           /\ IF got = <<>> THEN base + after = made ELSE Brings(got, made)
  BY <1>3, <1>4, AnswerFacts
<1>6. /\ act' \in [Links -> ActType] /\ act'[l].at = "told" /\ act'[l].got = got
      /\ \A k \in Links : k # l => act'[k] = act[k]
  <2>1. act \in [Links -> ActType] /\ act[l] \in ActType
    BY <1>1 DEF Types
  <2> QED  BY <1>4, <1>5, <2>1 DEF ActType
<1>7. wire[l] = <<>> /\ disp[l].at = "off" /\ (open.at # "idle" => open.link # l) /\ live # l
  <2>1. disp[l].at = "off" /\ live # l
    BY <1>2 DEF IInv, Conns
  <2>2. open.at # "idle" => open.link # l
    BY <1>2 DEF IInv, Conns
  <2> QED  BY <1>2, <2>1, <2>2 DEF IInv, Sent
<1>8. Types'
  BY <1>1, <1>2, <1>5, <1>6 DEF Types
<1>9. Runs'
  BY <1>2, <1>5, <1>6, RunEmpty DEF IInv, Runs
<1>10. Snaps'
  BY <1>2 DEF IInv, Snaps
<1>11. Threads'
  BY <1>2, <1>6 DEF IInv, Threads
<1>12. Conns'
  <2>1. \A k \in Links : (act'[k].at = "off" <=> k > links)
    BY <1>2, <1>6 DEF IInv, Conns
  <2>2. \A k \in Links : act'[k].at = "off" => wire[k] = <<>>
    BY <1>2, <1>6 DEF IInv, Conns
  <2>3. \A k \in Links : disp[k].at # "off" => act'[k].at = "done"
    BY <1>6, <1>7 DEF IInv, Conns
  <2>4. live # 0 => act'[live].at = "done"
    BY <1>1, <1>6, <1>7, LinkFacts DEF IInv, Conns
  <2>5. open.at # "idle" => open.link \in 1..links /\ act'[open.link].at = "done"
    BY <1>1, <1>6, <1>7, LinkFacts DEF IInv, Conns
  <2> QED  BY <1>2, <1>5, <1>6, <1>7, <2>1, <2>2, <2>3, <2>4, <2>5 DEF IInv, Conns
<1>13. Hosts'
  <2>1. host.next <= made + 1
    BY DEF IInv, Hosts
  <2>2. ~host.gone /\ ~host.mixed => host.next - 1 <= base + host'.cur /\ base + host'.cur <= made
    BY <1>1, <1>5, <2>1 DEF HostParts, Scalars
  <2> QED  BY <1>2, <1>5, <2>2 DEF IInv, Hosts
<1>14. Sent'
  BY <1>2, <1>5, <1>7, RunEmpty DEF Sent
<1>15. Stream' = Stream
  BY <1>2, <1>5 DEF Stream
<1>16. Stream /\ Coming => Coming'
  <2> SUFFICES ASSUME Stream, Coming PROVE Coming'
    OBVIOUS
  <2>1. base + after < made
    BY <1>2, <1>3, <1>7 DEF Coming, Brings
  <2>2. got # <<>> /\ Brings(got, made)
    BY <1>1, <1>3, <1>5, <2>1 DEF Stream, Scalars
  <2> QED  BY <1>2, <1>6, <2>2 DEF Coming
<1>17. Resubscribing' => Resubscribing
  BY <1>2, <1>6 DEF Resubscribing
<1>18. Served' /\ CandServed' /\ Unserved'
  BY <1>2, <1>5, <1>15, <1>16, <1>17 DEF IInv, Served, CandServed, Cand, Unserved
<1>19. CandLacks'
  BY <1>2, <1>7 DEF IInv, CandLacks, Cand
<1> QED  BY <1>8, <1>9, <1>10, <1>11, <1>12, <1>13, <1>14, <1>18, <1>19 DEF IInv

\* Of a run that brings the last event something is left: it is noted, or it is there.
LEMMA RunTold ==
  ASSUME Types, NEW s \in SubType, s # NoSub, Thread(s, made, base), NEW p \in Run, RunOK(p, made, base)
  PROVE  LET t == After(s, p)
         IN  /\ t \in SubType /\ t # NoSub /\ Thread(t, made, base) /\ t.late = s.late
             /\ t.lacks = s.lacks /\ s.has \subseteq t.has
             /\ Fair(t, base) => Fair(s, base)
             /\ Fair(s, base) /\ Covers(s, made) /\ Fair(t, base) => Covers(t, made)
             /\ Brings(p, made) /\ base < made =>
                  \/ made \in Vain(s, p) \cup Refused(s, p)
                  \/ made \in t.has \cup t.lacks /\ Covers(t, made)
<1> DEFINE t == After(s, p)
<1>1. /\ t \in SubType /\ t.base = s.base /\ t.lacks = s.lacks /\ t.late = s.late
      /\ s.cur <= t.cur /\ s.has \subseteq t.has /\ (s.mixed => t.mixed)
  BY AfterFacts
<1>2. Thread(t, made, base) /\ t # NoSub
  BY AfterThread, RealThread
<1>3. Brings(p, made) /\ base < made =>
        \/ made \in Vain(s, p) \cup Refused(s, p)
        \/ made \in t.has \cup t.lacks /\ Covers(t, made)
  BY FoldBrings
<1> HIDE DEF t
<1>4. Fair(t, base) => Fair(s, base)
  BY <1>1 DEF Fair
<1>5. ASSUME Fair(s, base), Covers(s, made), Fair(t, base) PROVE Covers(t, made)
  <2>1. t.base = base /\ base + s.cur = made /\ base + t.cur <= made
    BY <1>1, <1>2, <1>5, CoversHas DEF Fair, Covers
  <2> QED  BY <1>1, <2>1, TypeFacts DEF Covers, Scalars, SubType
<1> QED  BY <1>1, <1>2, <1>3, <1>4, <1>5 DEF t

\* What is noted is a set of events.
LEMMA VainNat ==
  ASSUME NEW s, NEW p \in Run
  PROVE  Vain(s, p) \subseteq Nat /\ Refused(s, p) \subseteq Nat
<1>1. p \in Seq(FrameType) /\ DOMAIN p = 1..Len(p) /\ Len(p) \in Nat
  BY DEF Run
<1>2. \A i \in 1..Len(p) : p[i] \in FrameType
  BY <1>1
<1>3. \A f \in ToSet(p) : f.n \in Nat
  <2>1. \A f \in ToSet(p) : f \in FrameType
    BY <1>1, <1>2 DEF ToSet
  <2> QED  BY <2>1 DEF FrameType
<1>4. Gaps(s, p) => Last(p).n \in Nat
  <2>1. p # <<>> => p[Len(p)] \in FrameType
    BY <1>1
  <2> QED  BY <2>1 DEF Gaps, FrameType, Last
<1> QED  BY <1>3, <1>4 DEF Vain, Refused

\* The phone folds the answer: the last event is there, or noted as refused or in vain.
LEMMA ResubscribedInv == ASSUME NEW l \in Links PROVE IInv /\ Resubscribed(l) => IInv'
<1> SUFFICES ASSUME IInv, Resubscribed(l) PROVE IInv'
  OBVIOUS
<1>1. Scalars /\ HostParts /\ LinkParts /\ SubParts(sub) /\ OpenParts /\ Types /\ sub \in SubType
  BY TypeFacts DEF IInv, Types
<1> DEFINE got == act[l].got
           t == After(sub, got)
<1>2. /\ act[l].at = "told" /\ l # 0 /\ sub # NoSub /\ got \in Run /\ RunOK(got, made, base)
      /\ UNCHANGED <<host, links, up, live, disp, wire, open, opens>>
      /\ UNCHANGED <<made, base, reg, binds, relay, snap, due>>
  <2>1. act[l].at = "told"
    BY DEF Resubscribed
  <2> QED  BY <1>1, <2>1, LinkFacts DEF Resubscribed, hostVars, linkVars, IInv, Threads, Runs, LinkParts
<1>3. Thread(sub, made, base)
  BY <1>2 DEF IInv, Threads
<1>4. /\ sub' = [t EXCEPT !.late = FALSE] /\ missed' = missed \cup Vain(sub, got) \cup Refused(sub, got)
      /\ act' = [act EXCEPT ![l] = Step("wired")]
  BY DEF Resubscribed
<1>5. /\ t \in SubType /\ Thread(t, made, base) /\ t.lacks = sub.lacks /\ sub.has \subseteq t.has
      /\ Fair(t, base) => Fair(sub, base)
      /\ Fair(sub, base) /\ Covers(sub, made) /\ Fair(t, base) => Covers(t, made)
      /\ Brings(got, made) /\ base < made =>
           \/ made \in Vain(sub, got) \cup Refused(sub, got)
           \/ made \in t.has \cup t.lacks /\ Covers(t, made)
  BY <1>1, <1>2, <1>3, RunTold
<1>6. Vain(sub, got) \cup Refused(sub, got) \subseteq Nat
  BY <1>1, <1>2, VainNat
<1> HIDE DEF t, got
<1>7. /\ sub' \in SubType /\ sub'.cur = t.cur /\ sub'.base = t.base /\ sub'.has = t.has
      /\ sub'.lacks = t.lacks /\ sub'.mixed = t.mixed /\ ~sub'.late
  BY <1>4, <1>5 DEF SubType
<1>8. Thread(sub', made, base) /\ sub' # NoSub
  <2>1. Thread(sub', made, base)
    BY <1>5, <1>7 DEF Thread
  <2> QED  BY <2>1, RealThread
<1>9. /\ act' \in [Links -> ActType] /\ act'[l].at = "wired" /\ act'[l].got = <<>>
      /\ \A k \in Links : k # l => act'[k] = act[k]
  <2>1. Step("wired") \in ActType
    BY RunEmpty DEF Step, ActType
  <2> QED  BY <1>1, <1>4, <2>1, Updated DEF Types, Step
<1>10. Types'
  BY <1>1, <1>2, <1>4, <1>6, <1>7, <1>9 DEF Types
<1>11. Runs'
  BY <1>2, <1>9, RunEmpty DEF IInv, Runs
<1>12. Snaps'
  BY <1>2 DEF IInv, Snaps
<1>13. Threads'
  BY <1>2, <1>8 DEF IInv, Threads
<1>14. disp[l].at = "off" /\ (open.at # "idle" => open.link # l) /\ live # l /\ (up = l => host.known)
       /\ (up = l => host.st \in {"waiting", "live"})
  <2>1. disp[l].at = "off" /\ live # l /\ (up = l => host.known)
    BY <1>2 DEF IInv, Conns
  <2>2. open.at # "idle" => open.link # l
    BY <1>2 DEF IInv, Conns
  <2> QED  BY <2>1, <2>2 DEF IInv, Hosts
<1>15. Conns'
  <2>1. \A k \in Links : (act'[k].at = "off" <=> k > links)
    BY <1>2, <1>9 DEF IInv, Conns
  <2>2. \A k \in Links : act'[k].at = "off" => wire[k] = <<>>
    BY <1>2, <1>9 DEF IInv, Conns
  <2>3. \A k \in Links : disp[k].at # "off" => act'[k].at = "done"
    BY <1>9, <1>14 DEF IInv, Conns
  <2>4. live # 0 => act'[live].at = "done"
    BY <1>1, <1>9, <1>14, LinkFacts DEF IInv, Conns
  <2>5. open.at # "idle" => open.link \in 1..links /\ act'[open.link].at = "done"
    BY <1>1, <1>9, <1>14, LinkFacts DEF IInv, Conns
  <2>6. up = 0 => host = NoConn
    BY DEF IInv, Conns
  <2>7. up # 0 => /\ act'[up].at = "start" => host = NoConn
                  /\ act'[up].at = "taken" => host.st = "taken"
                  /\ act'[up].at = "told" => host.known
    BY <1>1, <1>9, LinkFacts DEF IInv, Conns
  <2>8. host.st = "taken" => act'[up].at = "taken" \/ (open.at = "taken" /\ open.link = up)
    BY <1>1, <1>9, <1>14, <2>6, LinkFacts DEF IInv, Conns, NoConn
  <2> QED  BY <1>2, <2>1, <2>2, <2>3, <2>4, <2>5, <2>6, <2>7, <2>8 DEF IInv, Conns
<1>16. host.st = "taken" => Asked' = Asked /\ up # 0
  BY <1>1, <1>2, <1>9, <1>14, LinkFacts DEF IInv, Conns, NoConn, Asked
<1>17. Hosts'
  BY <1>2, <1>16 DEF IInv, Hosts
<1>18. Sent'
  BY <1>2 DEF IInv, Sent
<1>19. Stream' = Stream
  BY <1>2 DEF Stream
<1>20. Stream /\ Coming => Coming' \/ (up = l /\ Brings(got, made))
  BY <1>1, <1>2, <1>9, <1>16, LinkFacts DEF Coming, Stream, got
<1>21. (Types /\ Runs /\ Threads /\ Settled)' => (Served /\ CandServed /\ CandLacks)'
  BY NothingOwed, PTL
<1>22. ~Settled' => base < made
  BY <1>1, <1>2 DEF Settled, Scalars
<1>23. Served'
  <2> SUFFICES ASSUME Stream, Fair(sub', base), base < made, ~Coming'
               PROVE  Covers(sub', made) \/ made \in missed'
    BY <1>2, <1>10, <1>11, <1>13, <1>19, <1>21, <1>22 DEF Served
  <2>1. Fair(t, base) /\ Fair(sub, base) /\ (Covers(t, made) => Covers(sub', made))
    BY <1>5, <1>7 DEF Fair, Covers
  <2>2. Resubscribing
    BY <1>2 DEF Resubscribing
  <2>3. Covers(sub, made) \/ made \in missed \/ Brings(got, made)
    BY <1>2, <1>20, <2>1, <2>2 DEF IInv, Served
  <2> QED  BY <1>4, <1>5, <2>1, <2>3
<1>24. CandLacks'
  BY <1>2, <1>5, <1>7 DEF IInv, CandLacks, Cand
<1>25. CandServed'
  <2> SUFFICES ASSUME Stream, open.at = "told", Fair(Cand, base), base < made, ~Coming'
               PROVE  Covers(Cand, made) \/ made \in Refused(open.sub, open.got) \/ made \in missed'
                      \/ made \in sub'.has
    BY <1>2, <1>10, <1>11, <1>13, <1>19, <1>21, <1>22 DEF CandServed, Cand
  <2>1. CASE Coming
    <3>1. made \in Vain(sub, got) \cup Refused(sub, got) \/ made \in t.has \cup sub.lacks
      BY <1>5, <1>20, <2>1
    <3> QED  BY <1>4, <1>7, <3>1 DEF IInv, CandLacks
  <2>2. CASE ~Coming
    BY <1>4, <1>5, <1>7, <2>2 DEF IInv, CandServed
  <2> QED  BY <2>1, <2>2
<1>26. Unserved'
  <2> SUFFICES ASSUME up # 0, host.st \in {"none", "taken"}, act'[up].at \notin {"start", "taken"} PROVE FALSE
    BY <1>2 DEF Unserved
  <2>1. Resubscribing
    BY <1>2 DEF Resubscribing
  <2>2. up # l /\ up \in Links
    BY <1>1, <1>14, <2>1, LinkFacts
  <2> QED  BY <1>9, <2>1, <2>2 DEF IInv, Unserved
<1> QED  BY <1>10, <1>11, <1>12, <1>13, <1>15, <1>17, <1>18, <1>23, <1>24, <1>25, <1>26 DEF IInv

\* What the frames of a lost reply leave noted.
LEMMA LostFacts ==
  ASSUME NEW p \in Run, NEW l
  PROVE  Lost(l, p) \subseteq Nat /\ (up = l /\ Brings(p, made) => made \in Lost(l, p))
<1>1. p \in Seq(FrameType) /\ DOMAIN p = 1..Len(p) /\ Len(p) \in Nat
  BY DEF Run
<1>2. \A i \in 1..Len(p) : p[i] \in FrameType /\ p[i] \in ToSet(p)
  BY <1>1 DEF ToSet
<1>3. \A f \in ToSet(p) : f.n \in Nat
  <2>1. \A f \in ToSet(p) : f \in FrameType
    BY <1>1, <1>2 DEF ToSet
  <2> QED  BY <2>1 DEF FrameType
<1>4. Brings(p, made) => Len(p) \in 1..Len(p)
  BY <1>1 DEF Brings
<1> QED  BY <1>3, <1>4, <1>2 DEF Lost, Brings

\* The answer did not arrive: its events are noted.
LEMMA UnsubscribedInv == ASSUME NEW l \in Links PROVE IInv /\ Unsubscribed(l) => IInv'
<1> SUFFICES ASSUME IInv, Unsubscribed(l) PROVE IInv'
  OBVIOUS
<1>1. Scalars /\ HostParts /\ LinkParts /\ SubParts(sub) /\ OpenParts /\ Types
  BY TypeFacts DEF IInv, Types
<1> DEFINE got == act[l].got
<1>2. /\ act[l].at \in {"start", "taken", "told"} /\ l # 0 /\ got \in Run
      /\ UNCHANGED <<host, links, up, live, disp, wire, sub, open, opens>>
      /\ UNCHANGED <<made, base, reg, binds, relay, snap, due>>
      /\ act' = [act EXCEPT ![l] = Step("wired")] /\ missed' = missed \cup Lost(l, got)
  BY <1>1, LinkFacts DEF Unsubscribed, hostVars, linkVars, LinkParts
<1>3. \/ up # l
      \/ up = l /\ act[l].at = "start" /\ sub = NoSub /\ host = NoConn
      \/ up = l /\ act[l].at = "told" /\ host.known /\ host.st \in {"waiting", "live"}
  <2>1. act[l].at # "told" => got = <<>>
    BY DEF IInv, Runs
  <2>2. up # l \/ (act[l].at = "start" /\ sub = NoSub) \/ act[l].at = "told"
    BY <2>1 DEF Unsubscribed, Unanswered
  <2>3. up = l /\ act[l].at = "start" => host = NoConn
    BY <1>2 DEF IInv, Conns
  <2>4. up = l /\ act[l].at = "told" => host.known /\ host.st \in {"waiting", "live"}
    BY <1>2 DEF IInv, Conns, Hosts
  <2> QED  BY <2>2, <2>3, <2>4
<1>4. Lost(l, got) \subseteq Nat /\ (up = l /\ Brings(got, made) => made \in missed')
  BY <1>2, LostFacts
<1> HIDE DEF got
<1>5. /\ act' \in [Links -> ActType] /\ act'[l].at = "wired" /\ act'[l].got = <<>>
      /\ \A k \in Links : k # l => act'[k] = act[k]
  <2>1. Step("wired") \in ActType
    BY RunEmpty DEF Step, ActType
  <2> QED  BY <1>1, <1>2, <2>1, Updated DEF Types, Step
<1>6. Types'
  BY <1>1, <1>2, <1>4, <1>5 DEF Types
<1>7. Runs'
  BY <1>2, <1>5, RunEmpty DEF IInv, Runs
<1>8. Snaps'
  BY <1>2 DEF IInv, Snaps
<1>9. Threads'
  BY <1>2, <1>5 DEF IInv, Threads
<1>10. disp[l].at = "off" /\ (open.at # "idle" => open.link # l) /\ live # l
  <2>1. disp[l].at = "off" /\ live # l
    BY <1>2 DEF IInv, Conns
  <2>2. open.at # "idle" => open.link # l
    BY <1>2 DEF IInv, Conns
  <2> QED  BY <2>1, <2>2
<1>11. Conns'
  <2>1. \A k \in Links : (act'[k].at = "off" <=> k > links)
    BY <1>2, <1>5 DEF IInv, Conns
  <2>2. \A k \in Links : act'[k].at = "off" => wire[k] = <<>>
    BY <1>2, <1>5 DEF IInv, Conns
  <2>3. \A k \in Links : disp[k].at # "off" => act'[k].at = "done"
    BY <1>5, <1>10 DEF IInv, Conns
  <2>4. live # 0 => act'[live].at = "done"
    BY <1>1, <1>5, <1>10, LinkFacts DEF IInv, Conns
  <2>5. open.at # "idle" => open.link \in 1..links /\ act'[open.link].at = "done"
    BY <1>1, <1>5, <1>10, LinkFacts DEF IInv, Conns
  <2>6. up = 0 => host = NoConn
    BY DEF IInv, Conns
  <2>7. up # 0 => /\ act'[up].at = "start" => host = NoConn
                  /\ act'[up].at = "taken" => host.st = "taken"
                  /\ act'[up].at = "told" => host.known
    BY <1>1, <1>5, LinkFacts DEF IInv, Conns
  <2>8. host.st = "taken" => act'[up].at = "taken" \/ (open.at = "taken" /\ open.link = up)
    BY <1>1, <1>3, <1>5, <2>6, LinkFacts DEF IInv, Conns, NoConn
  <2> QED  BY <1>2, <2>1, <2>2, <2>3, <2>4, <2>5, <2>6, <2>7, <2>8 DEF IInv, Conns
<1>12. host.st = "taken" => Asked' = Asked /\ up # 0
  BY <1>1, <1>2, <1>3, <1>5, LinkFacts DEF IInv, Conns, NoConn, Asked
<1>13. Hosts'
  BY <1>2, <1>12 DEF IInv, Hosts
<1>14. Sent'
  BY <1>2 DEF IInv, Sent
<1>15. Stream' = Stream
  BY <1>2 DEF Stream
<1>16. Stream /\ Coming => Coming' \/ made \in missed'
  BY <1>1, <1>2, <1>4, <1>5, <1>12, LinkFacts DEF Coming, Stream, got
<1>17. Resubscribing' => Resubscribing
  BY <1>2, <1>5 DEF Resubscribing
<1>18. Served'
  BY <1>2, <1>15, <1>16, <1>17 DEF IInv, Served
<1>19. CandServed'
  BY <1>2, <1>15, <1>16 DEF IInv, CandServed, Cand
<1>20. CandLacks'
  BY <1>2 DEF IInv, CandLacks, Cand
<1>21. Unserved'
  <2> SUFFICES ASSUME up # 0, host.st \in {"none", "taken"}, act'[up].at \notin {"start", "taken"}
               PROVE  (sub = NoSub \/ sub.late) /\ ~Resubscribing'
    BY <1>2 DEF Unserved
  <2>1. CASE up = l
    <3>1. sub = NoSub
      BY <1>3, <2>1
    <3>2. ~Resubscribing
      BY <3>1 DEF IInv, Threads, Resubscribing
    <3> QED  BY <1>17, <3>1, <3>2
  <2>2. CASE up # l
    BY <1>1, <1>2, <1>5, <1>17, <2>2, LinkFacts DEF IInv, Unserved
  <2> QED  BY <2>1, <2>2
<1> QED  BY <1>6, <1>7, <1>8, <1>9, <1>11, <1>13, <1>14, <1>18, <1>19, <1>20, <1>21 DEF IInv

\* The connection is published and its frames are drained, or it was overtaken.
LEMMA ActivateInv == ASSUME NEW l \in Links PROVE IInv /\ Activate(l) => IInv'
<1> SUFFICES ASSUME IInv, Activate(l) PROVE IInv'
  OBVIOUS
<1>1. Scalars /\ HostParts /\ LinkParts /\ SubParts(sub) /\ OpenParts /\ Types
  BY TypeFacts DEF IInv, Types
<1>2. /\ act[l].at = "wired" /\ l # 0
      /\ UNCHANGED <<host, links, up, sub, open, opens, missed>>
      /\ UNCHANGED <<made, base, reg, binds, relay, snap, due>>
      /\ act' = [act EXCEPT ![l] = Step("done")]
  BY <1>1, LinkFacts DEF Activate, hostVars, linkVars
<1>3. \/ l = links /\ live' = l /\ disp' = [disp EXCEPT ![l] = Idle] /\ wire' = wire
      \/ l # links /\ live' = live /\ disp' = disp /\ wire' = [wire EXCEPT ![l] = <<>>]
  BY DEF Activate
<1>4. disp[l].at = "off" /\ (open.at # "idle" => open.link # l) /\ live # l
  <2>1. disp[l].at = "off" /\ live # l
    BY <1>2 DEF IInv, Conns
  <2>2. open.at # "idle" => open.link # l
    BY <1>2 DEF IInv, Conns
  <2> QED  BY <2>1, <2>2
<1>5. /\ act' \in [Links -> ActType] /\ act'[l].at = "done" /\ act'[l].got = <<>>
      /\ \A k \in Links : k # l => act'[k] = act[k]
  <2>1. Step("done") \in ActType
    BY RunEmpty DEF Step, ActType
  <2> QED  BY <1>1, <1>2, <2>1, Updated DEF Types, Step
<1>6. /\ disp' \in [Links -> DispType] /\ \A k \in Links : k # l => disp'[k] = disp[k]
      /\ disp'[l].at \in {"off", "idle"} /\ disp'[l].got = <<>>
      /\ (disp'[l].at # "off" => l = links /\ live' = l)
  <2>1. Idle \in DispType /\ Idle.at = "idle" /\ Idle.got = <<>>
    BY RunEmpty DEF Idle, DispType
  <2>2. disp \in [Links -> DispType] /\ disp[l].got = <<>>
    BY <1>1, <1>4 DEF Types, IInv, Runs
  <2> QED  BY <1>3, <1>4, <2>1, <2>2, Updated
<1>7. /\ wire' \in [Links -> Run] /\ \A k \in Links : k # l => wire'[k] = wire[k]
      /\ wire'[l] = wire[l] \/ wire'[l] = <<>>
      /\ up = l => wire'[l] = wire[l]
  <2>1. wire \in [Links -> Run] /\ (up = l => l = links)
    BY <1>1, <1>2 DEF Types, Scalars
  <2> QED  BY <1>3, <2>1, RunEmpty, Updated
<1>8. live' = live \/ (live' = l /\ l = links)
  BY <1>3
<1>9. Types'
  <2>1. live' \in 0..links
    BY <1>1, <1>8 DEF Scalars
  <2> QED  BY <1>1, <1>2, <1>5, <1>6, <1>7, <2>1 DEF Types
<1>10. Runs'
  BY <1>2, <1>5, <1>6, <1>7, RunEmpty DEF IInv, Runs
<1>11. Snaps'
  BY <1>2 DEF IInv, Snaps
<1>12. Threads'
  BY <1>2, <1>5, <1>6 DEF IInv, Threads
<1>13. Conns'
  <2>1. \A k \in Links : (act'[k].at = "off" <=> k > links)
    BY <1>2, <1>5 DEF IInv, Conns
  <2>2. \A k \in Links : act'[k].at = "off" => wire'[k] = <<>>
    BY <1>2, <1>5, <1>7 DEF IInv, Conns
  <2>3. \A k \in Links : disp'[k].at # "off" => act'[k].at = "done"
    BY <1>4, <1>5, <1>6 DEF IInv, Conns
  <2>4. live' # 0 => act'[live'].at = "done"
    BY <1>1, <1>4, <1>5, <1>8, LinkFacts DEF IInv, Conns
  <2>5. open.at # "idle" => open.link \in 1..links /\ act'[open.link].at = "done"
    BY <1>1, <1>4, <1>5, LinkFacts DEF IInv, Conns
  <2>6. up # 0 => /\ act'[up].at = "start" => host = NoConn
                  /\ act'[up].at = "taken" => host.st = "taken"
                  /\ act'[up].at = "told" => host.known
    BY <1>1, <1>5, LinkFacts DEF IInv, Conns
  <2>7. host.st = "taken" => act'[up].at = "taken" \/ (open.at = "taken" /\ open.link = up)
    BY <1>1, <1>2, <1>5, LinkFacts DEF IInv, Conns, NoConn
  <2>8. up # 0 /\ disp'[up].at # "off" => live' = up
    BY <1>1, <1>6, <1>8, LinkFacts DEF IInv, Conns, Scalars
  <2>9. \A k \in Links : disp'[k].at = "told" /\ k = up => disp'[k].link = up
    BY <1>6 DEF IInv, Conns
  <2> QED  BY <1>2, <2>1, <2>2, <2>3, <2>4, <2>5, <2>6, <2>7, <2>8, <2>9 DEF IInv, Conns
<1>14. up # 0 => Asked' = Asked
  BY <1>1, <1>2, <1>5, LinkFacts DEF Asked
<1>15. Hosts'
  BY <1>2, <1>14 DEF IInv, Hosts, Conns, NoConn
<1>16. Sent'
  BY <1>1, <1>2, <1>7, LinkFacts DEF IInv, Sent
<1>17. Stream' = Stream
  BY <1>2 DEF Stream
<1>18. Stream /\ Coming => Coming'
  <2> SUFFICES ASSUME Stream, Coming PROVE Coming'
    OBVIOUS
  <2>1. up \in Links /\ Asked' = Asked
    BY <1>1, <1>14, LinkFacts DEF Stream
  <2>2. wire'[up] = wire[up]
    BY <1>7, <2>1
  <2> QED  BY <1>2, <1>4, <1>5, <1>6, <2>1, <2>2 DEF Coming
<1>19. Resubscribing' => Resubscribing
  BY <1>2, <1>5 DEF Resubscribing
<1>20. Served' /\ CandServed'
  BY <1>2, <1>17, <1>18, <1>19 DEF IInv, Served, CandServed, Cand
<1>21. CandLacks'
  BY <1>2 DEF IInv, CandLacks, Cand
<1>22. Unserved'
  BY <1>1, <1>2, <1>5, <1>19, LinkFacts DEF IInv, Unserved
<1> QED  BY <1>9, <1>10, <1>11, <1>12, <1>13, <1>15, <1>16, <1>20, <1>21, <1>22 DEF IInv

-----------------------------------------------------------------------------
(* The dispatcher.                                                         *)

\* A batch and what it leaves.
LEMMA RunCut ==
  ASSUME NEW p \in Run, NEW m, NEW b, RunOK(p, m, b), NEW k \in 1..Len(p), NEW e
  PROVE  LET batch == SubSeq(p, 1, k)
             rest == SubSeq(p, k + 1, Len(p))
         IN  /\ batch \in Run /\ RunOK(batch, m, b) /\ rest \in Run /\ RunOK(rest, m, b)
             /\ Len(rest) = Len(p) - k /\ \A i \in 1..Len(rest) : rest[i] = p[i + k]
             /\ Brings(p, e) => Brings(batch, e) \/ Brings(rest, e)
<1> DEFINE batch == SubSeq(p, 1, k)
           rest == SubSeq(p, k + 1, Len(p))
<1>1. p \in Seq(FrameType) /\ Len(p) \in Nat /\ k \in Nat /\ k >= 1 /\ k <= Len(p)
  BY DEF Run
<1>2. batch \in Seq(FrameType) /\ Len(batch) = k /\ \A i \in 1..k : batch[i] = p[i]
  BY <1>1
<1>3. rest \in Seq(FrameType) /\ Len(rest) = Len(p) - k /\ \A i \in 1..(Len(p) - k) : rest[i] = p[i + k]
  BY <1>1
<1> HIDE DEF batch, rest
<1>4. RunOK(batch, m, b)
  <2>1. \A i \in 1..k : i \in 1..Len(p) /\ 1 \in 1..k
    BY <1>1
  <2> QED  BY <1>2, <2>1 DEF RunOK
<1>5. RunOK(rest, m, b)
  <2>1. \A i \in 1..(Len(p) - k) : i + k \in 1..Len(p) /\ 1 \in 1..(Len(p) - k) /\ 1 + k \in 1..Len(p)
    BY <1>1
  <2> QED  BY <1>3, <2>1 DEF RunOK
<1>6. Brings(p, e) => Brings(batch, e) \/ Brings(rest, e)
  <2>1. CASE k = Len(p)
    <3>1. batch # <<>> /\ k \in 1..k
      BY <1>1, <1>2
    <3> QED  BY <1>2, <2>1, <3>1 DEF Brings
  <2>2. CASE k # Len(p)
    <3>1. rest # <<>> /\ Len(p) - k \in 1..(Len(p) - k) /\ (Len(p) - k) + k = Len(p)
      BY <1>1, <1>3, <2>2
    <3> QED  BY <1>3, <3>1 DEF Brings
  <2> QED  BY <2>1, <2>2
<1> QED  BY <1>2, <1>3, <1>4, <1>5, <1>6 DEF batch, rest, Run

\* A batch is folded: a last event that leaves a gap has the dispatcher ask for it.
LEMMA FoldInv == ASSUME NEW l \in Links PROVE IInv /\ Fold(l) => IInv'
<1> SUFFICES ASSUME IInv, Fold(l) PROVE IInv'
  OBVIOUS
<1>1. Scalars /\ HostParts /\ LinkParts /\ SubParts(sub) /\ OpenParts /\ Types /\ sub \in SubType
  BY TypeFacts DEF IInv, Types
<1>2. PICK k \in 1..Len(wire[l]) :
        LET batch == SubSeq(wire[l], 1, k)
            known == sub # NoSub
        IN  /\ wire' = [wire EXCEPT ![l] = SubSeq(wire[l], k + 1, Len(wire[l]))]
            /\ sub' = IF known THEN After(sub, batch) ELSE sub
            /\ disp' = IF known /\ Gaps(sub, batch)
                       THEN [disp EXCEPT ![l].at = "gap", ![l].from = sub'.cur] ELSE disp
            /\ missed' = missed \cup Vain(sub, batch)
  BY DEF Fold
<1>3. /\ disp[l].at \in {"idle", "refused"} /\ l # 0 /\ act[l].at = "done"
      /\ UNCHANGED <<host, links, up, live, act, open, opens>>
      /\ UNCHANGED <<made, base, reg, binds, relay, snap, due>>
  <2>1. disp[l].at \in {"idle", "refused"}
    BY DEF Fold
  <2>2. act[l].at = "done"
    BY <2>1 DEF IInv, Conns
  <2> QED  BY <1>1, <2>1, <2>2, LinkFacts DEF Fold, hostVars, linkVars
<1> DEFINE batch == SubSeq(wire[l], 1, k)
           rest == SubSeq(wire[l], k + 1, Len(wire[l]))
           t == After(sub, batch)
<1>4. /\ batch \in Run /\ RunOK(batch, made, base) /\ rest \in Run /\ RunOK(rest, made, base)
      /\ Len(rest) = Len(wire[l]) - k /\ \A i \in 1..Len(rest) : rest[i] = wire[l][i + k]
      /\ Brings(wire[l], made) => Brings(batch, made) \/ Brings(rest, made)
  <2>1. wire[l] \in Run /\ RunOK(wire[l], made, base)
    BY <1>1 DEF LinkParts, IInv, Runs
  <2> QED  BY <2>1, RunCut
<1>5. sub # NoSub => Thread(sub, made, base)
  BY DEF IInv, Threads
<1>6. /\ sub' = IF sub # NoSub THEN t ELSE sub
      /\ wire' = [wire EXCEPT ![l] = rest] /\ missed' = missed \cup Vain(sub, batch)
      /\ disp' = IF sub # NoSub /\ Gaps(sub, batch)
                 THEN [disp EXCEPT ![l] = [disp[l] EXCEPT !.at = "gap", !.from = sub'.cur]] ELSE disp
  BY <1>2
<1> HIDE DEF batch, rest
<1>7. sub # NoSub => /\ t \in SubType /\ t # NoSub /\ Thread(t, made, base) /\ t.late = sub.late
                     /\ t.lacks = sub.lacks /\ sub.has \subseteq t.has
                     /\ Fair(t, base) => Fair(sub, base)
                     /\ Fair(sub, base) /\ Covers(sub, made) /\ Fair(t, base) => Covers(t, made)
  BY <1>1, <1>4, <1>5, RunTold
<1>8. Brings(batch, made) /\ base < made =>
        \/ made \in Vain(sub, batch)
        \/ sub # NoSub /\ Gaps(sub, batch) /\ base + t.cur < made
        \/ sub # NoSub /\ Covers(t, made) /\ made \in t.has \cup t.lacks
  BY <1>1, <1>4, <1>5, FoldBrings
<1>9. Vain(sub, batch) \subseteq Nat
  BY <1>4, VainNat
<1> HIDE DEF t
<1>10. /\ sub' \in SubType /\ (sub' # NoSub => Thread(sub', made, base)) /\ (sub = NoSub <=> sub' = NoSub)
       /\ sub'.late = sub.late /\ sub'.lacks = sub.lacks /\ sub.has \subseteq sub'.has
       /\ Fair(sub', base) => Fair(sub, base)
       /\ Fair(sub, base) /\ Covers(sub, made) /\ Fair(sub', base) => Covers(sub', made)
  <2>1. CASE sub = NoSub
    BY <1>1, <1>6, <2>1
  <2>2. CASE sub # NoSub
    BY <1>6, <1>7, <2>2
  <2> QED  BY <2>1, <2>2
<1>11. /\ wire' \in [Links -> Run] /\ wire'[l] = rest /\ \A m \in Links : m # l => wire'[m] = wire[m]
  BY <1>1, <1>4, <1>6, Updated DEF Types
<1>12. /\ disp' \in [Links -> DispType] /\ \A m \in Links : m # l => disp'[m] = disp[m]
       /\ disp'[l].got = disp[l].got /\ (disp'[l].at = disp[l].at \/ disp'[l].at = "gap")
       /\ disp'[l].at # "off" /\ disp'[l].at # "told"
       /\ (disp'[l].at = "gap" => sub # NoSub)
       /\ sub # NoSub /\ Gaps(sub, batch) => disp'[l].at = "gap" /\ disp'[l].from = t.cur
  <2>1. disp \in [Links -> DispType] /\ disp[l] \in DispType
    BY <1>1 DEF Types
  <2>2. CASE sub # NoSub /\ Gaps(sub, batch)
    <3> DEFINE d == [disp[l] EXCEPT !.at = "gap", !.from = sub'.cur]
    <3>1. sub'.cur \in Nat /\ sub'.cur = t.cur
      BY <1>1, <1>6, <1>7, <2>2 DEF Thread, Scalars
    <3>2. d \in DispType /\ d.got = disp[l].got /\ d.at = "gap" /\ d.from = t.cur
      BY <2>1, <3>1 DEF DispType
    <3>3. disp' = [disp EXCEPT ![l] = d]
      BY <1>6, <2>2
    <3> HIDE DEF d
    <3> QED  BY <2>1, <2>2, <3>2, <3>3, Updated
  <2>3. CASE ~(sub # NoSub /\ Gaps(sub, batch))
    BY <1>3, <1>6, <2>1, <2>3
  <2> QED  BY <2>2, <2>3
<1>13. Types'
  BY <1>1, <1>3, <1>6, <1>9, <1>10, <1>11, <1>12 DEF Types
<1>14. Runs'
  BY <1>3, <1>4, <1>11, <1>12 DEF IInv, Runs
<1>15. Snaps'
  BY <1>3 DEF IInv, Snaps
<1>16. Threads'
  BY <1>3, <1>10, <1>12 DEF IInv, Threads
<1>17. Conns'
  <2>1. \A m \in Links : act[m].at = "off" => wire'[m] = <<>>
    BY <1>3, <1>11 DEF IInv, Conns
  <2>2. \A m \in Links : disp'[m].at # "off" => act[m].at = "done"
    BY <1>3, <1>12 DEF IInv, Conns
  <2>3. \A m \in Links : disp'[m].at = "told" /\ m = up => disp'[m].link = up
    BY <1>12 DEF IInv, Conns
  <2>4. up # 0 /\ disp'[up].at # "off" => live = up
    BY <1>1, <1>3, <1>12, LinkFacts DEF IInv, Conns
  <2> QED  BY <1>3, <2>1, <2>2, <2>3, <2>4 DEF IInv, Conns
<1>18. Hosts'
  BY <1>3 DEF IInv, Hosts, Asked
<1>19. Sent'
  <2> SUFFICES ASSUME up = l
               PROVE  /\ host.st # "live" => rest = <<>>
                      /\ \A i \in 1..Len(rest) : rest[i].base = host.base /\ rest[i].n <= host.base + host.cur
                      /\ \A i, j \in 1..Len(rest) : i < j => rest[i].n < rest[j].n
    BY <1>1, <1>3, <1>11, LinkFacts DEF IInv, Sent
  <2>1. Len(wire[l]) \in Nat /\ k \in Nat /\ k >= 1 /\ k <= Len(wire[l]) /\ wire[l] # <<>>
    BY <1>1 DEF LinkParts, Run
  <2>2. host.st = "live"
    BY <1>3, <2>1 DEF IInv, Sent
  <2>3. \A i \in 1..Len(rest) : i + k \in 1..Len(wire[l])
    BY <1>4, <2>1
  <2>4. \A i \in 1..Len(rest) : rest[i].base = host.base /\ rest[i].n <= host.base + host.cur
    BY <1>3, <1>4, <2>3 DEF IInv, Sent
  <2>5. \A i, j \in 1..Len(rest) : i < j => i + k < j + k
    BY <2>1
  <2>6. \A i, j \in 1..Len(rest) : i < j => rest[i].n < rest[j].n
    BY <1>3, <1>4, <2>3, <2>5 DEF IInv, Sent
  <2> QED  BY <2>2, <2>4, <2>6
<1>20. Stream' = Stream
  BY <1>3 DEF Stream
<1>21. Stream /\ Coming => Coming' \/ (up = l /\ Brings(batch, made))
  <2> SUFFICES ASSUME Stream, Coming, ~Coming' PROVE up = l /\ Brings(batch, made)
    OBVIOUS
  <2>1. Asked' = Asked /\ up \in Links
    BY <1>1, <1>3, LinkFacts DEF Asked, Stream
  <2>2. CASE up # l
    <3>1. wire'[up] = wire[up] /\ disp'[up] = disp[up]
      BY <1>11, <1>12, <2>1, <2>2
    <3> QED  BY <1>3, <2>1, <3>1 DEF Coming
  <2>3. CASE up = l
    BY <1>3, <1>4, <1>11, <2>1, <2>3 DEF Coming
  <2> QED  BY <2>2, <2>3
<1>22. (Types /\ Runs /\ Threads /\ Settled)' => (Served /\ CandServed /\ CandLacks)'
  BY NothingOwed, PTL
<1>23. ~Settled' => base < made
  BY <1>1, <1>3 DEF Settled, Scalars
<1>24. ASSUME Stream, Coming, ~Coming', base < made
       PROVE  \/ made \in missed'
              \/ sub' # NoSub /\ Covers(sub', made) /\ made \in sub'.has \cup sub.lacks
  <2>1. up = l /\ Brings(batch, made)
    BY <1>21, <1>24
  <2>2. CASE made \in Vain(sub, batch)
    BY <1>6, <2>2
  <2>3. CASE sub # NoSub /\ Gaps(sub, batch) /\ base + t.cur < made
    BY <1>3, <1>12, <1>24, <2>1, <2>3 DEF Coming
  <2>4. CASE sub # NoSub /\ Covers(t, made) /\ made \in t.has \cup t.lacks
    BY <1>6, <1>7, <1>10, <2>4
  <2> QED  BY <1>8, <1>24, <2>1, <2>2, <2>3, <2>4
<1>25. Served'
  <2> SUFFICES ASSUME Stream, sub' # NoSub, Fair(sub', base), ~sub'.late \/ Resubscribing, base < made, ~Coming'
               PROVE  Covers(sub', made) \/ made \in missed'
    BY <1>3, <1>13, <1>14, <1>16, <1>20, <1>22, <1>23 DEF Served, Resubscribing
  <2>1. Covers(sub, made) \/ made \in missed \/ Coming
    BY <1>10 DEF IInv, Served
  <2> QED  BY <1>6, <1>10, <1>24, <2>1
<1>26. CandLacks'
  BY <1>3, <1>10 DEF IInv, CandLacks, Cand
<1>27. CandServed'
  <2> SUFFICES ASSUME Stream, open.at = "told", Fair(Cand, base), base < made, ~Coming'
               PROVE  Covers(Cand, made) \/ made \in Refused(open.sub, open.got) \/ made \in missed'
                      \/ made \in sub'.has
    BY <1>3, <1>13, <1>14, <1>16, <1>20, <1>22, <1>23 DEF CandServed, Cand
  <2>1. CASE Coming
    BY <1>24, <2>1 DEF IInv, CandLacks
  <2>2. CASE ~Coming
    BY <1>6, <1>10, <2>2 DEF IInv, CandServed
  <2> QED  BY <2>1, <2>2
<1>28. Unserved'
  BY <1>3, <1>10 DEF IInv, Unserved, Resubscribing
<1> QED  BY <1>13, <1>14, <1>15, <1>16, <1>17, <1>18, <1>19, <1>25, <1>26, <1>27, <1>28 DEF IInv

\* The dispatcher of one connection takes a step that changes what the others are told of
\* by no more than that.
LEMMA DispatchKeeps ==
  ASSUME IInv, NEW l \in Links, disp[l].at \in {"gap", "told"},
         NEW x \in DispType, x.at # "off", x.at = "told" /\ l = up => x.link = up,
         x.at \in {"gap", "told"} => sub # NoSub,
         RunOK(x.got, made, base), x.at # "told" => x.got = <<>>,
         disp' = [disp EXCEPT ![l] = x],
         sub' \in SubType, sub' = NoSub <=> sub = NoSub, sub' # NoSub => Thread(sub', made, base),
         missed' \subseteq Nat,
         UNCHANGED <<hostVars, linkVars, live, act, wire, open, opens>>
  PROVE  /\ disp'[l] = x /\ \A m \in Links : m # l => disp'[m] = disp[m]
         /\ Types' /\ Runs' /\ Snaps' /\ Threads' /\ Conns' /\ Hosts' /\ Sent' /\ Stream' = Stream
         /\ Stream /\ Coming => Coming' \/ (up = l /\ disp[l].at = "gap" /\ base + disp[l].from < made)
                                        \/ (up = l /\ disp[l].at = "told" /\ Brings(disp[l].got, made))
<1>1. Scalars /\ LinkParts /\ Types
  BY TypeFacts DEF IInv
<1>2. /\ UNCHANGED <<host, links, up, live, act, wire, open, opens>>
      /\ UNCHANGED <<made, base, reg, binds, relay, snap, due>>
  BY DEF hostVars, linkVars
<1>3. disp' \in [Links -> DispType] /\ disp'[l] = x /\ \A m \in Links : m # l => disp'[m] = disp[m]
  BY <1>1, Updated DEF Types
<1>4. Types'
  BY <1>1, <1>2, <1>3 DEF Types
<1>5. Runs'
  BY <1>2, <1>3 DEF IInv, Runs
<1>6. Snaps'
  BY <1>2 DEF IInv, Snaps
<1>7. Threads'
  BY <1>2, <1>3 DEF IInv, Threads
<1>8. act[l].at = "done"
  BY DEF IInv, Conns
<1>9. Conns'
  <2>1. \A m \in Links : disp'[m].at # "off" => act[m].at = "done"
    BY <1>3, <1>8 DEF IInv, Conns
  <2>2. \A m \in Links : disp'[m].at = "told" /\ m = up => disp'[m].link = up
    BY <1>3 DEF IInv, Conns
  <2>3. up # 0 /\ disp'[up].at # "off" => live = up
    BY <1>1, <1>3, LinkFacts DEF IInv, Conns
  <2> QED  BY <1>2, <2>1, <2>2, <2>3 DEF IInv, Conns
<1>10. Hosts'
  BY <1>2 DEF IInv, Hosts, Asked
<1>11. Sent'
  BY <1>2 DEF IInv, Sent
<1>12. Stream' = Stream
  BY <1>2 DEF Stream
<1>13. ASSUME Stream, Coming, ~Coming'
       PROVE  up = l /\ \/ disp[l].at = "gap" /\ base + disp[l].from < made
                        \/ disp[l].at = "told" /\ Brings(disp[l].got, made)
  <2>1. Asked' = Asked /\ up \in Links
    BY <1>1, <1>2, <1>13, LinkFacts DEF Asked, Stream
  <2>2. CASE up # l
    BY <1>2, <1>3, <1>13, <2>1, <2>2 DEF Coming
  <2>3. CASE up = l
    BY <1>2, <1>3, <1>13, <2>1, <2>3 DEF Coming
  <2> QED  BY <2>2, <2>3
<1> QED  BY <1>3, <1>4, <1>5, <1>6, <1>7, <1>9, <1>10, <1>11, <1>12, <1>13

\* The host returns what is behind the gap.
LEMMA BackfillInv == ASSUME NEW l \in Links PROVE IInv /\ Backfill(l) => IInv'
<1> SUFFICES ASSUME IInv, Backfill(l) PROVE IInv'
  OBVIOUS
<1>1. Scalars /\ LinkParts /\ Types /\ sub \in SubType /\ disp[l] \in DispType /\ disp[l].from \in Nat
  BY TypeFacts DEF IInv, Types, LinkParts
<1>2. /\ disp[l].at = "gap" /\ up # 0 /\ up \in Nat
      /\ UNCHANGED <<hostVars, linkVars, live, act, wire, sub, open, opens, missed>>
  BY <1>1 DEF Backfill, Scalars
<1> DEFINE got == Retained(base, made, disp[l].from)
           x == [disp[l] EXCEPT !.at = "told", !.link = up, !.got = got]
<1>3. disp' = [disp EXCEPT ![l] = x]
  BY DEF Backfill
<1>4. RunOK(got, made, base) /\ Backlog(got, base, made, disp[l].from)
  BY <1>1, RetainedRun
<1> HIDE DEF got
<1>5. got \in Run
  BY <1>4 DEF Backlog
<1>6. x \in DispType /\ x.at = "told" /\ x.link = up /\ x.got = got
  BY <1>1, <1>2, <1>5 DEF DispType
<1> HIDE DEF x
<1>7. sub # NoSub /\ Thread(sub, made, base)
  BY <1>2 DEF IInv, Threads
<1>8. missed' \subseteq Nat
  BY <1>1, <1>2 DEF Scalars
<1>9. /\ disp'[l] = x /\ Types' /\ Runs' /\ Snaps' /\ Threads' /\ Conns' /\ Hosts' /\ Sent'
      /\ Stream' = Stream
      /\ Stream /\ Coming => Coming' \/ (up = l /\ base + disp[l].from < made)
  BY <1>1, <1>2, <1>3, <1>4, <1>6, <1>7, <1>8, DispatchKeeps
<1>10. base + disp[l].from < made => Brings(got, made)
  <2>1. base + disp[l].from < made => got # <<>>
    BY <1>1, <1>4 DEF Backlog, Scalars
  <2> QED  BY <1>4, <2>1 DEF Backlog, Brings
<1>11. Stream /\ Coming => Coming'
  BY <1>2, <1>6, <1>9, <1>10 DEF Coming, hostVars, linkVars
<1>12. Served' /\ CandServed' /\ CandLacks' /\ Unserved'
  BY <1>2, <1>9, <1>11
     DEF IInv, Served, CandServed, CandLacks, Cand, Unserved, Resubscribing, hostVars, linkVars
<1> QED  BY <1>9, <1>12 DEF IInv

\* The call failed: if its events were lost, they are noted.
LEMMA BackfillFailsInv == ASSUME NEW l \in Links PROVE IInv /\ BackfillFails(l) => IInv'
<1> SUFFICES ASSUME IInv, BackfillFails(l) PROVE IInv'
  OBVIOUS
<1>1. Scalars /\ LinkParts /\ Types /\ sub \in SubType /\ disp[l].got \in Run
  BY TypeFacts DEF IInv, Types, LinkParts
<1>2. /\ disp[l].at \in {"gap", "told"}
      /\ UNCHANGED <<hostVars, linkVars, live, act, wire, sub, open, opens>>
      /\ disp' = [disp EXCEPT ![l] = Idle] /\ missed' = missed \cup Lost(disp[l].link, disp[l].got)
  BY DEF BackfillFails
<1>3. /\ Idle \in DispType /\ Idle.at \notin {"off", "gap", "told"} /\ Idle.got = <<>>
      /\ RunOK(Idle.got, made, base)
  BY RunEmpty DEF Idle, DispType
<1>4. Lost(disp[l].link, disp[l].got) \subseteq Nat
  BY <1>1, LostFacts
<1>5. sub # NoSub => Thread(sub, made, base)
  BY DEF IInv, Threads
<1>6. missed' \subseteq Nat
  BY <1>1, <1>2, <1>4 DEF Scalars
<1>7. /\ Types' /\ Runs' /\ Snaps' /\ Threads' /\ Conns' /\ Hosts' /\ Sent' /\ Stream' = Stream
      /\ Stream /\ Coming => Coming' \/ (up = l /\ disp[l].at = "gap")
                                     \/ (up = l /\ disp[l].at = "told" /\ Brings(disp[l].got, made))
  BY <1>1, <1>2, <1>3, <1>5, <1>6, DispatchKeeps
<1>8. up = l /\ disp[l].at = "gap" /\ Stream => ~reg
  <2>1. up = l /\ disp[l].at = "gap" /\ Stream => live = up /\ live # 0
    BY DEF IInv, Conns, Stream
  <2> QED  BY <2>1 DEF BackfillFails
<1>9. up = l /\ disp[l].at = "told" => disp[l].link = up
  BY DEF IInv, Conns
<1>10. Stream /\ Coming => Coming' \/ base = made \/ made \in missed'
  <2>1. ~reg => base = made
    BY DEF IInv, Snaps
  <2>2. up = l /\ disp[l].at = "told" /\ Brings(disp[l].got, made) => made \in missed'
    BY <1>1, <1>2, <1>9, LostFacts
  <2> QED  BY <1>7, <1>8, <2>1, <2>2
<1>11. (Types /\ Runs /\ Threads /\ Settled)' => (Served /\ CandServed /\ CandLacks)'
  BY NothingOwed, PTL
<1>12. base = made => Settled'
  BY <1>2 DEF Settled, hostVars
<1>13. Served' /\ CandServed'
  BY <1>2, <1>7, <1>10, <1>11, <1>12 DEF IInv, Served, CandServed, Cand, Resubscribing, hostVars, linkVars
<1>14. CandLacks' /\ Unserved'
  BY <1>2 DEF IInv, CandLacks, Cand, Unserved, Resubscribing, hostVars, linkVars
<1> QED  BY <1>7, <1>13, <1>14 DEF IInv

\* What it returned is folded: the last event is there, or refused.
LEMMA BackfilledInv == ASSUME NEW l \in Links PROVE IInv /\ Backfilled(l) => IInv'
<1> SUFFICES ASSUME IInv, Backfilled(l) PROVE IInv'
  OBVIOUS
<1> DEFINE got == disp[l].got
           x == IF Gaps(sub, got) THEN [Idle EXCEPT !.at = "refused"] ELSE Idle
<1>1. Scalars /\ LinkParts /\ Types /\ sub \in SubType /\ got \in Run
  BY TypeFacts DEF IInv, Types, LinkParts
<1>2. /\ disp[l].at = "told" /\ sub' = After(sub, got) /\ disp' = [disp EXCEPT ![l] = x]
      /\ missed' = missed \cup Vain(sub, got) \cup Refused(sub, got)
      /\ UNCHANGED <<hostVars, linkVars, live, act, wire, open, opens>>
  BY DEF Backfilled
<1>3. x \in DispType /\ x.at \notin {"off", "gap", "told"} /\ x.got = <<>> /\ RunOK(x.got, made, base)
  BY RunEmpty DEF Idle, DispType
<1>4. RunOK(got, made, base) /\ sub # NoSub /\ Thread(sub, made, base)
  BY <1>2 DEF IInv, Runs, Threads
<1>5. /\ sub' \in SubType /\ sub' # NoSub /\ Thread(sub', made, base) /\ sub'.late = sub.late
      /\ sub'.lacks = sub.lacks /\ sub.has \subseteq sub'.has
      /\ Fair(sub', base) => Fair(sub, base)
      /\ Fair(sub, base) /\ Covers(sub, made) /\ Fair(sub', base) => Covers(sub', made)
      /\ Brings(got, made) /\ base < made =>
           \/ made \in missed'
           \/ made \in sub'.has \cup sub'.lacks /\ Covers(sub', made)
  BY <1>1, <1>2, <1>4, RunTold
<1>6. missed' \subseteq Nat
  BY <1>1, <1>2, VainNat DEF Scalars
<1> HIDE DEF x
<1>7. /\ Types' /\ Runs' /\ Snaps' /\ Threads' /\ Conns' /\ Hosts' /\ Sent' /\ Stream' = Stream
      /\ Stream /\ Coming => Coming' \/ Brings(got, made)
  BY <1>1, <1>2, <1>3, <1>4, <1>5, <1>6, DispatchKeeps
<1> HIDE DEF got
<1>8. (Types /\ Runs /\ Threads /\ Settled)' => (Served /\ CandServed /\ CandLacks)'
  BY NothingOwed, PTL
<1>9. /\ UNCHANGED <<host, links, up, live, act, wire, open, opens>>
      /\ UNCHANGED <<made, base, reg, binds, relay, snap, due>>
  BY <1>2 DEF hostVars, linkVars
<1>10. ~Settled' => base < made
  BY <1>1, <1>9 DEF Settled, Scalars
<1>11. Served'
  <2> SUFFICES ASSUME Stream, Fair(sub', base), ~sub'.late \/ Resubscribing, base < made, ~Coming'
               PROVE  Covers(sub', made) \/ made \in missed'
    BY <1>7, <1>8, <1>9, <1>10 DEF Served, Resubscribing
  <2>1. Covers(sub, made) \/ made \in missed \/ Coming
    BY <1>4, <1>5 DEF IInv, Served
  <2> QED  BY <1>2, <1>5, <1>7, <2>1
<1>12. CandLacks'
  BY <1>5, <1>9 DEF IInv, CandLacks, Cand
<1>13. CandServed'
  <2> SUFFICES ASSUME Stream, open.at = "told", Fair(Cand, base), base < made, ~Coming'
               PROVE  Covers(Cand, made) \/ made \in Refused(open.sub, open.got) \/ made \in missed'
                      \/ made \in sub'.has
    BY <1>7, <1>8, <1>9, <1>10 DEF CandServed, Cand
  <2>1. CASE Coming
    BY <1>5, <1>7, <2>1 DEF IInv, CandLacks
  <2>2. CASE ~Coming
    BY <1>2, <1>5, <2>2 DEF IInv, CandServed
  <2> QED  BY <2>1, <2>2
<1>14. Unserved'
  BY <1>4, <1>5, <1>9 DEF IInv, Unserved, Resubscribing
<1> QED  BY <1>7, <1>11, <1>12, <1>13, <1>14 DEF IInv

-----------------------------------------------------------------------------
(* MobileClient::subscribe.                                                *)

\* The snapshot, an empty history and the stored one are threads of the present handle.
LEMMA FetchedThreads ==
  ASSUME IInv, NEW s \in Fetched
  PROVE  s \in SubType /\ Thread(s, made, base) /\ ~s.mixed
<1>1. Scalars /\ relay \subseteq 1..made
  BY TypeFacts DEF IInv, Types
<1>2. ASSUME NEW cur \in Nat, NEW has \in SUBSET Nat, NEW lacks \in SUBSET Nat, base + cur <= made,
             lacks \subseteq 1..(base + cur), has = (1..(base + cur)) \ lacks
      PROVE  LET t == SubAt(cur, has, lacks)
             IN  t \in SubType /\ Thread(t, made, base) /\ ~t.mixed
  <2> DEFINE t == SubAt(cur, has, lacks)
  <2>1. t.cur = cur /\ t.base = base /\ t.has = has /\ t.lacks = lacks /\ t.mixed = FALSE
    BY DEF SubAt, NoSub
  <2>2. t \in SubType
    <3>1. cur \in Int /\ base \in Nat
      BY <1>1 DEF Scalars
    <3>2. NoSub \in SubType
      BY DEF NoSub, SubType
    <3>3. \A z \in SubType :
            /\ [z EXCEPT !.cur = cur] \in SubType /\ [z EXCEPT !.base = base] \in SubType
            /\ [z EXCEPT !.has = has] \in SubType /\ [z EXCEPT !.lacks = lacks] \in SubType
      BY <3>1 DEF SubType
    <3>4. [NoSub EXCEPT !.cur = cur] \in SubType
      BY <3>2, <3>3
    <3>5. [NoSub EXCEPT !.cur = cur, !.base = base] \in SubType
      BY <3>3, <3>4
    <3>6. [NoSub EXCEPT !.cur = cur, !.base = base, !.has = has] \in SubType
      BY <3>3, <3>5
    <3> QED  BY <3>3, <3>6 DEF SubAt
  <2> HIDE DEF t
  <2>3. cur \in 0..made /\ 1..(base + cur) \subseteq 1..made
    BY <1>1, <1>2 DEF Scalars
  <2>4. Thread(t, made, base)
    BY <1>1, <1>2, <2>1, <2>3 DEF Thread, Scalars
  <2> QED  BY <2>1, <2>4, <2>2 DEF t
<1>3. 1..(base + 0) = 1..base /\ 1..base \subseteq Nat /\ (1..base) \ (1..base) = {} /\ base + 0 <= made
  BY <1>1 DEF Scalars
<1>4. CASE s = SubAt(0, {}, 1..base)
  BY <1>2, <1>3, <1>4
<1>5. CASE reg /\ s = SubAt(snap.seq, (1..(base + snap.seq)) \ snap.lacks, snap.lacks)
  <2>1. /\ snap.seq \in Nat /\ base + snap.seq <= made /\ snap.lacks \subseteq 1..(base + snap.seq)
        /\ 1..(base + snap.seq) \subseteq Nat
    BY <1>1 DEF IInv, Snaps, Scalars
  <2> QED  BY <1>2, <1>5, <2>1
<1>6. CASE ~reg /\ s = SubAt(0, (1..base) \ relay, relay)
  <2>1. relay \subseteq 1..base
    BY <1>1, <1>6 DEF IInv, Snaps
  <2> QED  BY <1>2, <1>3, <1>6, <2>1
<1> QED  BY <1>4, <1>5, <1>6 DEF Fetched

\* An opening begins with a thread of the present handle.
LEMMA OpenFetchInv == IInv /\ OpenFetch => IInv'
<1> SUFFICES ASSUME IInv, OpenFetch PROVE IInv'
  OBVIOUS
<1>1. Scalars /\ LinkParts /\ OpenParts /\ Types
  BY TypeFacts DEF IInv, Types
<1>2. /\ open.at = "idle" /\ opens < MaxOpens /\ up # 0 /\ live = up /\ opens' = opens + 1
      /\ UNCHANGED <<host, links, up, live, act, disp, wire, sub, missed>>
      /\ UNCHANGED <<made, base, reg, binds, relay, snap, due>>
  BY DEF OpenFetch, hostVars, linkVars
<1>3. PICK s \in Fetched : open' = [at |-> "fetched", link |-> up, sub |-> s, got |-> <<>>]
  BY DEF OpenFetch
<1>4. s \in SubType /\ Thread(s, made, base) /\ ~s.mixed
  BY FetchedThreads
<1>5. open'.at = "fetched" /\ open'.link = up /\ open'.sub = s /\ open'.got = <<>>
  BY <1>3
<1>6. act[up].at = "done" /\ up \in 1..links
  BY <1>1, <1>2 DEF IInv, Conns, Scalars
<1>7. host.st # "taken"
  BY <1>2, <1>6 DEF IInv, Conns
<1>8. Types'
  <2>1. open' \in OpenType
    <3>1. up \in Nat /\ <<>> \in Run
      BY <1>1, RunEmpty DEF Scalars
    <3> QED  BY <1>3, <1>4, <3>1 DEF OpenType
  <2>2. opens' \in 0..MaxOpens
    BY RemoteAssumption, <1>1, <1>2 DEF Scalars
  <2> QED  BY <1>1, <1>2, <2>1, <2>2 DEF Types
<1>9. Runs'
  BY <1>2, <1>5, RunEmpty DEF IInv, Runs
<1>10. Snaps'
  BY <1>2 DEF IInv, Snaps
<1>11. Threads'
  BY <1>2, <1>4, <1>5 DEF IInv, Threads
<1>12. Conns'
  BY <1>2, <1>5, <1>6, <1>7 DEF IInv, Conns
<1>13. Hosts'
  BY <1>2, <1>7 DEF IInv, Hosts
<1>14. Sent'
  BY <1>2 DEF IInv, Sent
<1>15. Stream' = Stream /\ (Coming => Coming')
  BY <1>2, <1>7 DEF Stream, Coming
<1>16. Served' /\ Unserved'
  BY <1>2, <1>15 DEF IInv, Served, Unserved, Resubscribing
<1>17. CandServed' /\ CandLacks'
  BY <1>5 DEF CandServed, CandLacks
<1> QED  BY <1>8, <1>9, <1>10, <1>11, <1>12, <1>13, <1>14, <1>16, <1>17 DEF IInv

\* A thread of the present handle and the handle's answer to it.
LEMMA AnsweredThread ==
  ASSUME Types, NEW s \in SubType, Thread(s, made, base), NEW got \in Run, RunOK(got, made, base),
         \A i \in 1..Len(got) : got[i].base = base,
         IF got = <<>> THEN made <= base + s.cur ELSE Brings(got, made),
         Fair(After(s, got), base), base < made
  PROVE  Covers(After(s, got), made) \/ made \in Refused(s, got)
<1>1. Fair(s, base) /\ s # NoSub /\ s.base = base /\ ~s.mixed
  BY AfterFacts, RealThread DEF Fair
<1>2. CASE got = <<>>
  <2>1. base + s.cur <= made /\ s.cur \in Nat
    BY <1>1, CoversHas
  <2>2. Covers(s, made)
    BY <1>1, <1>2, <2>1, TypeFacts DEF Covers, Scalars
  <2> QED  BY <1>2, <2>2, AfterNothing
<1>3. CASE got # <<>>
  <2>1. DOMAIN got = 1..Len(got)
    BY DEF Run
  <2>2. Vain(s, got) = {}
    BY <1>1, <2>1 DEF Vain, ToSet
  <2> QED  BY <1>1, <1>3, <2>2, FoldBrings
<1> QED  BY <1>2, <1>3

\* The call is under way, and changes what there is of it.
LEMMA OpenKeeps ==
  ASSUME IInv, open.at # "idle", NEW at \in {"taken", "told"}, NEW got \in Run, RunOK(got, made, base),
         at = "taken" => got = <<>>,
         open' = [open EXCEPT !.at = at, !.got = got],
         UNCHANGED <<hostVars, links, up, live, act, disp, wire, sub, opens, missed>>,
         host' \in ConnType
  PROVE  /\ open'.at = at /\ open'.got = got /\ open'.sub = open.sub /\ open'.link = open.link
         /\ Types' /\ Runs' /\ Snaps' /\ Threads'
<1>1. Types /\ open \in OpenType
  BY DEF IInv, Types
<1>2. /\ open' \in OpenType /\ open'.at = at /\ open'.got = got /\ open'.sub = open.sub
      /\ open'.link = open.link
  BY <1>1 DEF OpenType
<1>3. UNCHANGED <<made, base, reg, binds, relay, snap, due>>
  BY DEF hostVars
<1>4. Types'
  BY <1>1, <1>2, <1>3 DEF Types
<1>5. Runs'
  BY <1>2, <1>3 DEF IInv, Runs
<1>6. Snaps'
  BY <1>3 DEF IInv, Snaps
<1>7. Threads'
  BY <1>2, <1>3 DEF IInv, Threads
<1> QED  BY <1>2, <1>4, <1>5, <1>6, <1>7

\* The host is asked for the opening, as for a connection that resubscribes.
LEMMA OpenSubscribeInv == IInv /\ OpenSubscribe => IInv'
<1> SUFFICES ASSUME IInv, OpenSubscribe PROVE IInv'
  OBVIOUS
<1>1. Scalars /\ HostParts /\ LinkParts /\ OpenParts /\ Types /\ open \in OpenType
  BY TypeFacts DEF IInv, Types
<1>2. /\ open.at = "fetched" /\ up = open.link /\ up # 0 /\ act[up].at = "done" /\ up \in Links
      /\ UNCHANGED <<hostVars, links, up, live, act, disp, wire, sub, opens, missed>>
      /\ UNCHANGED <<made, base, reg, binds, relay, snap, due>>
  BY <1>1, LinkFacts DEF OpenSubscribe, hostVars, IInv, Conns, Scalars
<1> DEFINE s == open.sub
           m == s.base # base \/ s.mixed
<1>3. s \in SubType /\ Thread(s, made, base) /\ ~s.mixed /\ s.cur \in Nat /\ open.got = <<>>
  BY <1>1, <1>2 DEF IInv, Threads, Runs, OpenParts, Thread, Scalars
<1>4. m \in BOOLEAN /\ (~m <=> Fair(s, base))
  BY <1>1 DEF OpenParts, SubParts, Fair
<1>5. ~m => base + s.cur <= made /\ (~reg => s.cur = 0)
  BY <1>1, <1>3, <1>4, CoversHas DEF IInv, Snaps, Scalars
<1>6. host.st # "taken"
  BY <1>2 DEF IInv, Conns
<1>7. CASE TakeReceiver(s) /\ open' = [open EXCEPT !.at = "taken"]
  <2>1. reg /\ host.st = "none" /\ ~host.known
        /\ host' = [host EXCEPT !.st = "taken", !.base = base, !.next = made + 1, !.mixed = m]
    BY <1>7 DEF TakeReceiver
  <2>2. /\ host' \in ConnType /\ host'.st = "taken" /\ ~host'.known /\ host'.base = base
        /\ host'.next = made + 1 /\ host'.mixed = m /\ host'.gone = host.gone /\ host'.last = host.last
    <3>1. host \in ConnType /\ base \in Nat /\ made + 1 \in Nat
      BY <1>1 DEF Types, Scalars
    <3> HIDE DEF m
    <3> QED  BY <1>4, <2>1, <3>1 DEF ConnType
  <2>3. open' = [open EXCEPT !.at = "taken", !.got = <<>>]
    BY <1>1, <1>3, <1>7 DEF OpenType
  <2>4. /\ open'.at = "taken" /\ open'.got = <<>> /\ open'.sub = s /\ open'.link = up
        /\ Types' /\ Runs' /\ Snaps' /\ Threads'
    BY <1>2, <2>2, <2>3, RunEmpty, OpenKeeps
  <2> HIDE DEF m
  <2>5. Conns'
    BY <1>2, <2>2, <2>4 DEF IInv, Conns
  <2>6. ~host.gone
    BY <2>1 DEF IInv, Hosts
  <2>7. Asked' = s.cur
    BY <1>2, <2>4 DEF Asked
  <2>8. Hosts'
    BY <1>1, <1>2, <1>5, <2>1, <2>2, <2>6, <2>7 DEF IInv, Hosts, Scalars
  <2>9. Sent'
    BY <1>2, <2>1, RunEmpty DEF IInv, Sent
  <2>10. (sub = NoSub \/ sub.late) /\ ~Resubscribing
    BY <1>2, <2>1 DEF IInv, Unserved
  <2>11. Served' /\ Unserved'
    BY <1>2, <2>10 DEF Served, Unserved, Resubscribing
  <2>12. CandServed' /\ CandLacks'
    BY <2>2, <2>4, <2>6 DEF CandServed, CandLacks
  <2> QED  BY <2>4, <2>5, <2>8, <2>9, <2>11, <2>12 DEF IInv
<1>8. ASSUME NEW got, got = IF reg THEN Retained(base, made, s.cur) ELSE <<>>, AnswerAtOnce(s, got),
             open' = [open EXCEPT !.at = "told", !.got = got]
      PROVE  IInv'
  <2>1. reg => RunOK(got, made, base) /\ Backlog(got, base, made, s.cur)
    BY <1>1, <1>3, <1>8, RetainedRun
  <2>2. ~reg => got = <<>>
    BY <1>8
  <2>3. got \in Run /\ RunOK(got, made, base)
    BY <2>1, <2>2, RunEmpty DEF Backlog
  <2> HIDE DEF m
  <2>4. /\ host' \in ConnType
        /\ \/ host.known /\ host' = host
           \/ /\ ~reg /\ host.st = "none" /\ host'.st = "waiting" /\ host'.known
              /\ host'.cur = s.cur /\ host'.mixed = m
              /\ host'.next = host.next /\ host'.gone = host.gone /\ host'.last = host.last
    <3>1. host \in ConnType
      BY <1>1 DEF Types
    <3>2. CASE host.known /\ host' = host
      BY <3>1, <3>2
    <3>3. CASE ~reg /\ host.st = "none"
               /\ host' = [host EXCEPT !.st = "waiting", !.known = TRUE, !.cur = s.cur, !.mixed = m]
      BY <1>3, <1>4, <3>1, <3>3 DEF ConnType
    <3> QED  BY <1>8, <3>2, <3>3 DEF AnswerAtOnce, m
  <2>5. /\ open'.at = "told" /\ open'.got = got /\ open'.sub = s /\ open'.link = up
        /\ Types' /\ Runs' /\ Snaps' /\ Threads'
    BY <1>2, <1>8, <2>3, <2>4, OpenKeeps
  <2>6. Conns'
    <3>1. host'.known /\ host'.st # "taken"
      BY <1>6, <2>4
    <3> QED  BY <1>2, <2>5, <3>1 DEF IInv, Conns
  <2>7. Hosts'
    <3>1. CASE host.known /\ host' = host
      BY <1>2, <1>6, <3>1 DEF IInv, Hosts
    <3>2. CASE ~reg /\ host.st = "none" /\ host'.st = "waiting"
      BY <1>1, <1>2, <1>5, <2>4, <3>2 DEF IInv, Hosts, HostParts
    <3> QED  BY <2>4, <3>1, <3>2
  <2>8. Sent'
    BY <1>2, <2>4 DEF IInv, Sent
  <2>9. (Types /\ Runs /\ Threads /\ Settled)' => (Served /\ CandServed /\ CandLacks)'
    BY NothingOwed, PTL
  <2>10. ~Settled' => base < made /\ reg /\ host.known /\ host' = host
    BY <1>1, <1>2, <2>4 DEF IInv, Snaps, Settled, Scalars
  <2>11. Served'
    <3> SUFFICES ASSUME ~Settled' PROVE Served'
      BY <2>5, <2>9
    <3>1. Stream' = Stream /\ (Coming => Coming')
      BY <1>2, <1>6, <2>10 DEF Stream, Coming
    <3> QED  BY <1>2, <3>1 DEF IInv, Served, Resubscribing
  <2>12. ~Settled' /\ Fair(Cand', base) => Covers(Cand', made) \/ made \in Refused(s, got)
    <3> SUFFICES ASSUME ~Settled', Fair(Cand', base) PROVE Covers(Cand', made) \/ made \in Refused(s, got)
      OBVIOUS
    <3>1. Cand' = After(s, got)
      BY <2>5 DEF Cand
    <3>2. /\ \A i \in 1..Len(got) : got[i].base = base
          /\ IF got = <<>> THEN made <= base + s.cur ELSE Brings(got, made)
      BY <1>1, <2>1, <2>10 DEF Backlog, Brings, Scalars
    <3> QED  BY <1>1, <1>3, <2>3, <2>10, <3>1, <3>2, AnsweredThread
  <2>13. CandServed' /\ CandLacks'
    BY <1>2, <2>5, <2>9, <2>12 DEF CandServed, CandLacks
  <2>14. Unserved'
    BY <1>2, <1>6, <2>4 DEF Unserved, IInv, Hosts
  <2> QED  BY <2>5, <2>6, <2>7, <2>8, <2>11, <2>13, <2>14 DEF IInv
<1> QED  BY <1>7, <1>8 DEF OpenSubscribe

\* The answer brings all that the snapshot lacks.
LEMMA OpenAnswerInv == IInv /\ OpenAnswer => IInv'
<1> SUFFICES ASSUME IInv, OpenAnswer PROVE IInv'
  OBVIOUS
<1>1. Scalars /\ HostParts /\ LinkParts /\ OpenParts /\ Types /\ open \in OpenType
  BY TypeFacts DEF IInv, Types
<1> DEFINE s == open.sub
           got == Retained(host.base, End(host), s.cur)
<1>2. /\ open.at = "taken" /\ up = open.link /\ up # 0 /\ act[up].at = "done" /\ up \in Links
      /\ host.st = "taken" /\ Answer(s.cur, got) /\ open' = [open EXCEPT !.at = "told", !.got = got]
      /\ UNCHANGED <<hostVars, links, up, live, act, disp, wire, sub, opens, missed>>
      /\ UNCHANGED <<made, base, reg, binds, relay, snap, due>>
  BY <1>1, LinkFacts DEF OpenAnswer, hostVars, IInv, Conns, Scalars
<1>3. s \in SubType /\ Thread(s, made, base) /\ ~s.mixed /\ s.cur \in Nat
  BY <1>1, <1>2 DEF IInv, Threads, OpenParts, Thread, Scalars
<1>4. s.cur = Asked
  BY <1>2 DEF Asked
<1>5. /\ RunOK(got, made, base) /\ Backlog(got, host.base, End(host), s.cur)
      /\ (~host.gone => End(host) = made /\ host.base = base)
  BY <1>2, <1>3, HostRetained
<1> HIDE DEF got
<1>6. /\ got \in Run
      /\ host' \in ConnType /\ host'.st = "live" /\ host'.known /\ host'.base = host.base
      /\ host'.next = host.next /\ host'.gone = host.gone /\ host'.last = host.last
      /\ host'.mixed = host.mixed
      /\ ~host.gone /\ ~host.mixed => base + host'.cur = made
  BY <1>2, <1>3, <1>4, AnswerFacts
<1>7. /\ open'.at = "told" /\ open'.got = got /\ open'.sub = s /\ open'.link = up
      /\ Types' /\ Runs' /\ Snaps' /\ Threads'
  BY <1>2, <1>5, <1>6, OpenKeeps
<1>8. Conns'
  BY <1>2, <1>6, <1>7 DEF IInv, Conns
<1>9. Hosts'
  <2>1. host.next <= made + 1
    BY DEF IInv, Hosts
  <2>2. ~host.gone /\ ~host.mixed => host.next - 1 <= base + host'.cur /\ base + host'.cur <= made
    BY <1>1, <1>6, <2>1 DEF HostParts, Scalars
  <2> QED  BY <1>2, <1>6, <2>2 DEF IInv, Hosts
<1>10. Sent'
  BY <1>2, <1>6, RunEmpty DEF IInv, Sent
<1>11. Served'
  <2>1. (sub = NoSub \/ sub.late) /\ ~Resubscribing
    BY <1>2 DEF IInv, Unserved
  <2> QED  BY <1>2, <2>1 DEF Served, Resubscribing
<1>12. (Types /\ Runs /\ Threads /\ Settled)' => (Served /\ CandServed /\ CandLacks)'
  BY NothingOwed, PTL
<1>13. ~Settled' => base < made
  BY <1>1, <1>2 DEF Settled, Scalars
<1>14. Cand' = After(s, got)
  BY <1>7 DEF Cand
<1>15. ASSUME ~Settled', Fair(Cand', base), ~host.gone
       PROVE  Covers(Cand', made) \/ made \in Refused(s, got)
  <2>1. /\ \A i \in 1..Len(got) : got[i].base = base
        /\ IF got = <<>> THEN made <= base + s.cur ELSE Brings(got, made)
    BY <1>1, <1>3, <1>5, <1>13, <1>15 DEF Backlog, Brings, Scalars
  <2> QED  BY <1>1, <1>3, <1>5, <1>6, <1>13, <1>14, <1>15, <2>1, AnsweredThread
<1>16. ASSUME Fair(Cand', base), host.gone, made \in sub.lacks PROVE Covers(Cand', made)
  <2>1. Fair(s, base)
    BY <1>3, <1>6, <1>14, <1>16, AfterFacts DEF Fair
  <2>2. Covers(s, made)
    BY <1>2, <1>16, <2>1 DEF IInv, CandLacks
  <2> QED  BY <1>1, <1>3, <1>5, <1>6, <1>14, <1>16, <2>1, <2>2, RunTold, RealThread
<1>17. CandServed'
  BY <1>2, <1>6, <1>7, <1>12, <1>15 DEF CandServed, Stream
<1>18. CandLacks'
  BY <1>2, <1>7, <1>12, <1>15, <1>16 DEF CandLacks
<1>19. Unserved'
  BY <1>6 DEF Unserved
<1> QED  BY <1>7, <1>8, <1>9, <1>10, <1>11, <1>17, <1>18, <1>19 DEF IInv

\* The new thread takes the place of the old one: what only that had is noted.
LEMMA OpenInsertInv == IInv /\ OpenInsert => IInv'
<1> SUFFICES ASSUME IInv, OpenInsert PROVE IInv'
  OBVIOUS
<1>1. Scalars /\ HostParts /\ LinkParts /\ SubParts(sub) /\ OpenParts /\ Types
  BY TypeFacts DEF IInv, Types
<1> DEFINE late == \E l \in Links : l > open.link /\ act[l].at \notin {"off", "start"}
           s == Cand
<1>2. /\ open.at = "told" /\ open' = Unopened /\ open.link \in 1..links
      /\ sub' = [s EXCEPT !.late = late]
      /\ missed' = missed \cup (sub.has \ s.has) \cup Refused(open.sub, open.got)
      /\ UNCHANGED <<host, links, up, live, act, disp, wire, opens>>
      /\ UNCHANGED <<made, base, reg, binds, relay, snap, due>>
  BY DEF OpenInsert, hostVars, linkVars, IInv, Conns, Cand
<1>3. s \in SubType /\ Thread(s, made, base)
  BY <1>2, CandThread DEF IInv
<1>4. late \in BOOLEAN
  OBVIOUS
<1> HIDE DEF late, s
<1>5. /\ sub' \in SubType /\ sub'.cur = s.cur /\ sub'.base = s.base /\ sub'.has = s.has
      /\ sub'.lacks = s.lacks /\ sub'.mixed = s.mixed /\ sub'.late = late
  BY <1>2, <1>3, <1>4 DEF SubType
<1>6. Thread(sub', made, base) /\ sub' # NoSub
  <2>1. Thread(sub', made, base)
    BY <1>3, <1>5 DEF Thread
  <2> QED  BY <2>1, RealThread
<1>7. open'.at = "idle" /\ open'.got = <<>>
  BY <1>2 DEF Unopened
<1>8. Types'
  <2>1. missed' \subseteq Nat
    BY <1>1, <1>2, VainNat DEF Scalars, SubParts, OpenParts
  <2>2. open' \in OpenType
    BY <1>2, RunEmpty DEF OpenType, Unopened, SubType, NoSub
  <2> QED  BY <1>1, <1>2, <1>5, <2>1, <2>2 DEF Types
<1>9. Runs'
  BY <1>2, <1>7, RunEmpty DEF IInv, Runs
<1>10. Snaps'
  BY <1>2 DEF IInv, Snaps
<1>11. Threads'
  BY <1>2, <1>6, <1>7 DEF IInv, Threads
<1>12. Conns'
  BY <1>2, <1>7 DEF IInv, Conns
<1>13. host.st = "taken" => Asked' = Asked
  BY <1>2 DEF IInv, Conns, Asked
<1>14. Hosts'
  BY <1>2, <1>13 DEF IInv, Hosts
<1>15. Sent'
  BY <1>2 DEF IInv, Sent
<1>16. Stream' = Stream /\ (Coming => Coming')
  BY <1>2, <1>13 DEF Stream, Coming
<1>17. (Types /\ Runs /\ Threads /\ Settled)' => (Served /\ CandServed /\ CandLacks)'
  BY NothingOwed, PTL
<1>18. Served'
  <2> SUFFICES ASSUME Stream, Fair(sub', base), ~Settled', ~Coming'
               PROVE  Covers(sub', made) \/ made \in missed'
    BY <1>2, <1>8, <1>9, <1>11, <1>16, <1>17 DEF Served
  <2>1. Fair(s, base) /\ (Covers(s, made) => Covers(sub', made))
    BY <1>5 DEF Fair, Covers
  <2>2. Covers(s, made) \/ made \in Refused(open.sub, open.got) \/ made \in missed \/ made \in sub.has
    BY <1>2, <1>16, <2>1 DEF IInv, CandServed, s
  <2>3. made \in s.has => Covers(s, made)
    <3>1. s.has = (1..(s.base + s.cur)) \ s.lacks /\ s.base + s.cur <= made
      BY <1>3, <2>1 DEF Thread, Fair
    <3> QED  BY <1>1, <1>3, <3>1 DEF Covers, Scalars, SubType
  <2> QED  BY <1>2, <2>1, <2>2, <2>3
<1>19. CandServed' /\ CandLacks'
  BY <1>7 DEF CandServed, CandLacks
<1>20. Unserved'
  <2> SUFFICES ASSUME up # 0, host.st \in {"none", "taken"}, act[up].at \notin {"start", "taken"}
               PROVE  late /\ ~Resubscribing
    BY <1>2, <1>5 DEF Unserved, Resubscribing
  <2>1. ~Resubscribing
    BY DEF IInv, Unserved
  <2>2. open.link # up
    BY <1>2 DEF IInv, Conns, Hosts
  <2>3. up \in Links /\ up > open.link /\ act[up].at # "off"
    BY <1>1, <1>2, <2>2, LinkFacts DEF Scalars, IInv, Conns
  <2> QED  BY <2>1, <2>3 DEF late
<1> QED  BY <1>8, <1>9, <1>10, <1>11, <1>12, <1>14, <1>15, <1>18, <1>19, <1>20 DEF IInv

\* The thread stays, and the events of the reply are noted.
LEMMA OpenFailsInv == IInv /\ OpenFails => IInv'
<1> SUFFICES ASSUME IInv, OpenFails PROVE IInv'
  OBVIOUS
<1>1. Scalars /\ HostParts /\ LinkParts /\ OpenParts /\ Types
  BY TypeFacts DEF IInv, Types
<1>2. /\ open.at # "idle" /\ Unanswered(open.link, open.got) /\ open' = Unopened
      /\ missed' = missed \cup Lost(open.link, open.got)
      /\ UNCHANGED <<host, links, up, live, act, disp, wire, sub, opens>>
      /\ UNCHANGED <<made, base, reg, binds, relay, snap, due>>
  BY DEF OpenFails, hostVars, linkVars
<1>3. open'.at = "idle" /\ open'.got = <<>>
  BY <1>2 DEF Unopened
<1>4. open.at = "taken" => open.link # up
  BY <1>2 DEF IInv, Runs, Unanswered
<1>5. host.st = "taken" => Asked' = Asked /\ act[up].at = "taken"
  BY <1>2, <1>4 DEF IInv, Conns, Asked
<1>6. Types'
  <2>1. missed' \subseteq Nat
    BY <1>1, <1>2, LostFacts DEF Scalars, OpenParts
  <2>2. open' \in OpenType
    BY <1>2, RunEmpty DEF OpenType, Unopened, SubType, NoSub
  <2> QED  BY <1>1, <1>2, <2>1, <2>2 DEF Types
<1>7. Runs'
  BY <1>2, <1>3, RunEmpty DEF IInv, Runs
<1>8. Snaps'
  BY <1>2 DEF IInv, Snaps
<1>9. Threads'
  BY <1>2, <1>3 DEF IInv, Threads
<1>10. Conns'
  BY <1>2, <1>3, <1>5 DEF IInv, Conns
<1>11. Hosts'
  BY <1>2, <1>5 DEF IInv, Hosts
<1>12. Sent'
  BY <1>2 DEF IInv, Sent
<1>13. Stream' = Stream /\ (Coming => Coming')
  BY <1>2, <1>5 DEF Stream, Coming
<1>14. Served' /\ Unserved'
  BY <1>2, <1>13 DEF IInv, Served, Unserved, Resubscribing
<1>15. CandServed' /\ CandLacks'
  BY <1>3 DEF CandServed, CandLacks
<1> QED  BY <1>6, <1>7, <1>8, <1>9, <1>10, <1>11, <1>12, <1>14, <1>15 DEF IInv

-----------------------------------------------------------------------------
(* The theorems.                                                           *)

\* The invariant holds at first ...
LEMMA InitInv == Init => IInv
<1> SUFFICES ASSUME Init PROVE IInv
  OBVIOUS
<1>1. Types
  BY InitTypes
<1>2. Runs
  BY DEF Init, Runs, RunOK, Step, Idle, Unopened
<1>3. Snaps
  BY DEF Init, Snaps, NoSnap
<1>4. Threads
  BY DEF Init, Threads, Unopened, Step, Idle
<1>5. Conns
  <2>1. Links \subseteq Nat \ {0}
    BY RemoteAssumption DEF Links
  <2>2. host = NoConn /\ up = 0 /\ live = 0 /\ open.at = "idle" /\ links = 0
    BY DEF Init, Unopened
  <2>3. host.st = "none"
    BY <2>2 DEF NoConn
  <2>4. ASSUME NEW l \in Links PROVE act[l].at = "off" /\ disp[l].at = "off" /\ wire[l] = <<>> /\ l > links
    BY <2>1, <2>2 DEF Init, Step, Idle
  <2> QED  BY <2>2, <2>3, <2>4 DEF Conns
<1>6. Hosts
  BY DEF Init, Hosts, NoConn
<1>7. Sent /\ Unserved
  BY DEF Init, Sent, Unserved
<1>8. Settled
  BY DEF Init, Settled
<1> QED  BY <1>1, <1>2, <1>3, <1>4, <1>5, <1>6, <1>7, <1>8, NothingOwed DEF IInv

\* ... is about no other variable ...
LEMMA StutterInv == IInv /\ UNCHANGED vars => IInv'
<1> SUFFICES ASSUME IInv, UNCHANGED vars PROVE IInv'
  OBVIOUS
<1> USE DEF vars, hostVars, linkVars, phoneVars
<1>1. Types' /\ Runs' /\ Snaps'
  BY DEF IInv, Types, Runs, Snaps
<1>2. Threads' /\ Conns' /\ Hosts' /\ Sent'
  BY DEF IInv, Threads, Conns, Hosts, Sent, Asked
<1>3. Coming' = Coming /\ Stream' = Stream /\ Cand' = Cand
  BY DEF Coming, Stream, Cand, Asked
<1>4. Served' /\ Unserved'
  BY <1>3 DEF IInv, Served, Unserved, Resubscribing
<1>5. CandServed' /\ CandLacks'
  BY <1>3 DEF IInv, CandServed, CandLacks
<1> QED  BY <1>1, <1>2, <1>4, <1>5 DEF IInv

\* ... and is kept by every step.
LEMMA StepInv == IInv /\ [Next]_vars => IInv'
<1> SUFFICES ASSUME IInv, [Next]_vars PROVE IInv'
  OBVIOUS
<1>1. Types /\ Scalars
  BY TypeFacts DEF IInv
<1>2. CASE ViewIngests
  <2>1. relay' \subseteq 1..made'
    <3>1. made' = made + 1 /\ made \in Nat /\ relay \subseteq 1..made
      BY <1>1, <1>2 DEF ViewIngests, Ingest, Types, Scalars
    <3>2. relay' = relay
      BY <1>2 DEF ViewIngests
    <3> QED  BY <3>1, <3>2
  <2>2. due' \in BOOLEAN
    BY <1>1, <1>2 DEF ViewIngests, Types
  <2> QED  BY <1>2, <2>1, <2>2, IngestInv DEF ViewIngests
<1>3. CASE HostIngests
  <2>1. relay' \subseteq 1..made'
    <3>1. made' = made + 1 /\ made \in Nat /\ relay \subseteq 1..made
      BY <1>1, <1>3 DEF HostIngests, Ingest, Types, Scalars
    <3>2. relay' = relay \cup {made'}
      BY <1>3 DEF HostIngests
    <3> QED  BY <3>1, <3>2
  <2>2. due' \in BOOLEAN
    BY <1>1, <1>3 DEF HostIngests, Types
  <2> QED  BY <1>3, <2>1, <2>2, IngestInv DEF HostIngests
<1>4. CASE ViewFolds \/ Publish \/ Bind
  BY <1>4, ViewInv
<1>5. CASE Unbind
  BY <1>5, UnbindInv
<1>6. CASE Connection
  BY <1>6, MaterializeInv, ForwardInv, ConnectInv, LoseInv DEF Connection
<1>7. CASE Opening
  BY <1>7, OpenFetchInv, OpenSubscribeInv, OpenAnswerInv, OpenInsertInv, OpenFailsInv DEF Opening
<1>8. ASSUME NEW l \in Links, Activation(l) PROVE IInv'
  BY <1>8, ResubscribeInv, ResubscribeAnswerInv, ResubscribedInv, UnsubscribedInv, ActivateInv
     DEF Activation
<1>9. ASSUME NEW l \in Links, Dispatch(l) PROVE IInv'
  BY <1>9, FoldInv, BackfillInv, BackfillFailsInv, BackfilledInv DEF Dispatch
<1>10. CASE UNCHANGED vars
  BY <1>10, StutterInv
<1> QED  BY <1>2, <1>3, <1>4, <1>5, <1>6, <1>7, <1>8, <1>9, <1>10 DEF Next, Desktop

\* Every behaviour keeps the inductive invariant, whatever the bounds.
THEOREM Invariance == Spec => []IInv
<1>1. Init => IInv
  BY InitInv
<1>2. IInv /\ [Next]_vars => IInv'
  BY StepInv
<1> QED  BY <1>1, <1>2, PTL DEF Spec

\* Every variable keeps its type: in particular no seq is below one, a snapshot never
\* claims events that its handle did not have, and the ring's next is never past the end
\* (session_registry.rs ingest, begin_subscribe; publish_transcript).
THEOREM TypesHold == Spec => []TypeOK
<1>1. IInv => TypeOK
  <2> SUFFICES ASSUME IInv PROVE TypeOK
    OBVIOUS
  <2>1. Scalars /\ HostParts /\ LinkParts /\ SubParts(sub) /\ OpenParts /\ Types
    BY TypeFacts DEF IInv
  <2>2. snap.seq \in 0..(made - base) /\ snap.lacks \subseteq 1..made
    BY <2>1 DEF IInv, Snaps, Scalars
  <2>3. host.next \in 0..(made + 1)
    BY <2>1 DEF IInv, Hosts, HostParts, Scalars
  <2>4. ASSUME NEW l \in Links, NEW f \in ToSet(wire[l]) PROVE f.n \in 1..made /\ f.base < f.n
    <3>1. RunOK(wire[l], made, base) /\ wire[l] \in Run
      BY <2>1 DEF IInv, Runs, LinkParts
    <3>2. PICK i \in 1..Len(wire[l]) : f = wire[l][i]
      BY <3>1 DEF ToSet, Run
    <3> QED  BY <3>1, <3>2 DEF RunOK
  <2>5. sub.cur \in -1..MaxMade /\ sub.has \subseteq 1..made
    <3>1. CASE sub = NoSub
      BY <3>1, RemoteAssumption DEF NoSub
    <3>2. CASE sub # NoSub
      <4>1. sub.cur \in 0..made /\ sub.has \subseteq 1..made
        BY <3>2 DEF IInv, Threads, Thread
      <4>2. made <= MaxMade /\ made \in Nat /\ MaxMade \in Nat
        BY <2>1, RemoteAssumption DEF Scalars
      <4>3. sub.cur \in -1..MaxMade
        BY <4>1, <4>2
      <4> QED  BY <4>1, <4>3
    <3> QED  BY <3>1, <3>2
  <2>6. opens \in 0..MaxOpens
    BY <2>1 DEF Types
  <2> QED  BY <2>1, <2>2, <2>3, <2>4, <2>5, <2>6 DEF TypeOK, Types, HostParts, LinkParts, OpenParts
<1> QED  BY <1>1, Invariance, PTL

\* The phone's thread is what its cursor says (SessionSubscription::apply with
\* resubscribe_all, backfill_gap and MobileClient::subscribe): no event up to the cursor
\* is missing and none was folded twice, as long as it met frames of one handle only.
THEOREM ThreadsMatch == Spec => []ThreadMatchesCursor
<1>1. IInv => ThreadMatchesCursor
  BY DEF IInv, Threads, Thread, ThreadMatchesCursor
<1> QED  BY <1>1, Invariance, PTL

\* When nothing is under way between host and phone, a thread of the present handle has
\* every event of the session, or the last one fell into a window that the history
\* names: nothing else loses the end of a session (resubscribe_all, run_dispatcher,
\* backfill_gap, begin_subscribe, forward_live).
THEOREM QuietThreads == Spec => []QuietMeansCurrent
<1>1. IInv => QuietMeansCurrent
  <2> SUFFICES ASSUME IInv, Quiet, sub # NoSub, ~Replaced, ~sub.late, made \notin missed
               PROVE  Current
    BY DEF QuietMeansCurrent, Excused
  <2>1. Scalars /\ HostParts /\ LinkParts /\ Types
    BY TypeFacts DEF IInv
  <2>2. up # 0 /\ up \in Links /\ act[up].at = "done" /\ open.at = "idle"
    BY <2>1, LinkFacts DEF Quiet
  <2>3. Fair(sub, base) /\ ~host.gone /\ ~host.mixed
    BY DEF Replaced, Fair
  <2>4. host.st # "waiting" /\ host.st # "taken"
    BY <2>2 DEF Quiet, IInv, Conns
  <2>5. host.st # "none"
    BY <2>2, <2>4 DEF IInv, Unserved
  <2>6. host.st = "live" /\ host.next > made
    BY <2>1, <2>3, <2>4, <2>5 DEF HostParts, Quiet, End
  <2>7. ~(base + host.cur < made)
    BY <2>1, <2>3, <2>6 DEF IInv, Hosts, HostParts, Scalars
  <2>8. wire[up] = <<>> /\ disp[up].at \in {"off", "idle", "refused"}
    BY <2>2 DEF Quiet, Asleep
  <2>9. ~Coming
    BY <2>2, <2>4, <2>6, <2>7, <2>8 DEF Coming, Brings
  <2>10. Stream
    BY <2>2, <2>3, <2>6 DEF Stream
  <2>11. Covers(sub, made)
    BY <2>3, <2>9, <2>10 DEF IInv, Served
  <2> QED  BY <2>11 DEF Covers, Current
<1> QED  BY <1>1, Invariance, PTL
=============================================================================
