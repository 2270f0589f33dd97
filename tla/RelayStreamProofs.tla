------------------------- MODULE RelayStreamProofs -------------------------
(***************************************************************************)
(* The safety properties of RelayStream hold for any number of watchers    *)
(* and connections, any queue size and any amount of output.               *)
(*                                                                         *)
(* The argument follows one watcher and its queue.  Base is the last chunk *)
(* of the screen it shows or is about to show.  Ahead of the first gap     *)
(* notice in the queue every chunk after Base is there (Bridge, Whole);    *)
(* while a fence is awaited, what comes before the fence is covered by     *)
(* Base, and if nothing was dropped the fence is in the queue (Covered,    *)
(* WillEnd); and a fence that could be taken for the awaited one is on     *)
(* record as astray (AfterFence, Fresh).                                   *)
(***************************************************************************)
EXTENDS RelayStream, TLAPS

-----------------------------------------------------------------------------
(* Facts about one queue p, a screen that shows chunks up to u, and a log  *)
(* that ends at chunk o.                                                   *)

Queue == Seq(Notification)

\* No gap notice ahead of position j.
NoGap(p, j) == \A i \in 1..(j - 1) : p[i].k # "gap"

\* Every chunk after u and before n is ahead of position j.
Spans(p, j, u, n) ==
  \A m \in Nat : u < m /\ m < n => \E i \in 1..(j - 1) : p[i] = Output(m)

\* Whatever the client reaches before a gap notice, it is ready for.
Bridge(p, u, o) ==
  \A j \in 1..Len(p) : NoGap(p, j) =>
    /\ p[j].k = "out" => Spans(p, j, u, p[j].n)
    /\ p[j].k = "exit" => Spans(p, j, u, o + 1)

\* Unless a notice is on its way, the rest of the log is.
Whole(p, u, o) == NoGap(p, Len(p) + 1) => Spans(p, Len(p) + 1, u, o + 1)

\* Output ahead of every fence and notice is on the screen.
Covered(p, u) ==
  \A j \in 1..Len(p) :
    /\ NoGap(p, j) /\ p[j].k = "out"
    /\ \A i \in 1..(j - 1) : p[i].k # "fence"
    => p[j].n <= u

\* Unless a notice is on its way, a fence is.
WillEnd(p) == NoGap(p, Len(p) + 1) => \E i \in 1..Len(p) : p[i].k = "fence"

Bounded(p, o) == \A j \in 1..Len(p) : p[j].k = "out" => p[j].n <= o

Increasing(p) ==
  \A i, j \in 1..Len(p) :
    i < j /\ p[i].k = "out" /\ p[j].k = "out" => p[i].n < p[j].n

\* Behind the only fence, all output is new to the screen.
AfterFence(p, u) ==
  \A i, j \in 1..Len(p) : p[i].k = "fence" /\ i < j =>
    /\ p[j].k # "fence"
    /\ p[j].k = "out" => p[j].n > u

\* No fence, and all output is new to the screen.
Fresh(p, u) ==
  \A j \in 1..Len(p) : p[j].k # "fence" /\ (p[j].k = "out" => p[j].n > u)

Has(p, kind) == \E i \in 1..Len(p) : p[i].k = kind

-----------------------------------------------------------------------------
(* The inductive invariant.                                                *)

Watchers == Attachments \ Spawners

Watching(a) == pump[a] \in {"granted", "live", "resync", "answered"}

\* The last chunk of the screen the client shows, or of the snapshot on its way.
Base(a) == IF pump[a] \in {"granted", "answered"} THEN answer[a] ELSE shown[a]

\* The screen is, or is about to be, exact up to Base.
Exact(a) == pump[a] \in {"granted", "answered"} \/ (pump[a] = "live" /\ ~stale[a])

Awaiting(a) == pump[a] = "answered" \/ fence[a] = "wait"

\* The inbox is a prefix of the queue.
Inbox == \A a \in Attachments : taken[a] <= Len(pipe[a])

\* Nothing is queued, shown or answered that was not published.
Published(a) ==
  /\ shown[a] <= out /\ answer[a] <= out
  /\ pump[a] = "answered" => shown[a] <= answer[a]
  /\ Watching(a) =>
       /\ Bounded(pipe[a], out) /\ Increasing(pipe[a])
       /\ Has(pipe[a], "exit") => exit # "no"

\* How the phases of a client go with its subscription and its marks.
Phases(a) ==
  /\ pump[a] \notin {"spawning", "spawned"}
  /\ Watching(a) => a \in subs
  /\ pump[a] \in {"off", "asking", "gaveup"} => a \notin subs /\ pipe[a] = <<>>
  /\ pump[a] \in {"off", "asking", "gaveup", "granted"} =>
       fence[a] = "none" /\ ~twice[a] /\ ~hole[a]
  /\ hole[a] => stale[a]
  /\ pump[a] = "exited" => exit # "no" /\ (~stale[a] => shown[a] = out)

\* An exact screen can go on from what is queued.
Follows(a) ==
  Exact(a) =>
    /\ Bridge(pipe[a], Base(a), out)
    /\ a \notin gapped => Whole(pipe[a], Base(a), out)
    /\ Awaiting(a) => /\ Covered(pipe[a], Base(a))
                      /\ a \notin gapped => WillEnd(pipe[a])

\* With no fence astray, output is applied once.
Unmixed(a) ==
  Watching(a) /\ astray[a] = "no" =>
    /\ pump[a] \in {"live", "resync"} => ~twice[a]
    /\ fence[a] = "late" => pump[a] = "answered"
    /\ Awaiting(a) => AfterFence(pipe[a], Base(a))
    /\ ~Awaiting(a) => Fresh(pipe[a], Base(a))

WatcherInv(a) == Published(a) /\ Phases(a) /\ Follows(a) /\ Unmixed(a)

Inv == TypeOK /\ Inbox /\ \A a \in Watchers : WatcherInv(a)

-----------------------------------------------------------------------------
(* How the facts about a queue survive one more notification.              *)

\* The shape of a queue with one more element.
LEMMA AppendShape ==
  ASSUME NEW p \in Queue, NEW e \in Notification
  PROVE  /\ Append(p, e) \in Queue
         /\ Len(Append(p, e)) = Len(p) + 1
         /\ \A i \in 1..Len(p) : Append(p, e)[i] = p[i]
         /\ Append(p, e)[Len(p) + 1] = e
         /\ Len(p) \in Nat
         /\ \A i \in 1..Len(p) : p[i] \in Notification
BY DEF Queue

\* The shape of a queue without its first element.
LEMMA TailShape ==
  ASSUME NEW p \in Queue, p # <<>>
  PROVE  /\ Tail(p) \in Queue
         /\ Len(Tail(p)) = Len(p) - 1
         /\ \A i \in 1..(Len(p) - 1) : Tail(p)[i] = p[i + 1]
         /\ Len(p) \in Nat /\ Len(p) >= 1
         /\ Head(p) = p[1]
         /\ \A i \in 1..Len(p) : p[i] \in Notification
BY DEF Queue

LEMMA AppendHas ==
  ASSUME NEW p \in Queue, NEW e \in Notification, NEW kind
  PROVE  Has(Append(p, e), kind) <=> Has(p, kind) \/ e.k = kind
BY AppendShape DEF Has

LEMMA AppendBounded ==
  ASSUME NEW p \in Queue, NEW e \in Notification, NEW o \in Nat,
         Bounded(p, o), e.k = "out" => e.n <= o
  PROVE  Bounded(Append(p, e), o)
BY AppendShape DEF Bounded

LEMMA AppendIncreasing ==
  ASSUME NEW p \in Queue, NEW e \in Notification, NEW o \in Nat,
         Increasing(p), Bounded(p, o), e.k = "out" => e.n > o
  PROVE  Increasing(Append(p, e))
<1> DEFINE q == Append(p, e)
<1>1. /\ Len(q) = Len(p) + 1 /\ Len(p) \in Nat /\ q[Len(p) + 1] = e
      /\ \A i \in 1..Len(p) : q[i] = p[i] /\ p[i].n \in Nat
  BY AppendShape DEF Notification
<1>2. e.n \in Nat
  BY DEF Notification
<1> HIDE DEF q
<1>3. ASSUME NEW i \in 1..Len(q), NEW j \in 1..Len(q), i < j, q[i].k = "out", q[j].k = "out"
      PROVE  q[i].n < q[j].n
  <2>1. i \in 1..Len(p) /\ q[i] = p[i] /\ p[i].n \in Nat
    BY <1>1, <1>3
  <2>2. CASE j \in 1..Len(p)
    BY <1>1, <1>3, <2>1, <2>2 DEF Increasing
  <2>3. CASE j = Len(p) + 1
    BY <1>1, <1>2, <1>3, <2>1, <2>3 DEF Bounded
  <2> QED  BY <1>1, <2>2, <2>3
<1>4. Increasing(q)
  BY <1>3 DEF Increasing
<1> QED  BY <1>4 DEF q

\* A prefix keeps its notices and its chunks.
LEMMA AppendPrefix ==
  ASSUME NEW p \in Queue, NEW e \in Notification, NEW j \in 1..(Len(p) + 1)
  PROVE  /\ NoGap(Append(p, e), j) <=> NoGap(p, j)
         /\ \A u, n : Spans(Append(p, e), j, u, n) <=> Spans(p, j, u, n)
<1>1. \A i \in 1..(j - 1) : Append(p, e)[i] = p[i]
  BY AppendShape
<1> QED  BY <1>1 DEF NoGap, Spans

LEMMA AppendNoGap ==
  ASSUME NEW p \in Queue, NEW e \in Notification
  PROVE  NoGap(Append(p, e), Len(Append(p, e)) + 1)
           <=> NoGap(p, Len(p) + 1) /\ e.k # "gap"
<1> DEFINE q == Append(p, e)
<1>0. Len(q) = Len(p) + 1 /\ Len(p) \in Nat
  BY AppendShape
<1>1. 1..(Len(q) + 1 - 1) = 1..Len(p) \cup {Len(p) + 1} /\ 1..(Len(p) + 1 - 1) = 1..Len(p)
  <2> HIDE DEF q
  <2> QED  BY <1>0
<1>2. \A i \in 1..Len(p) : q[i] = p[i]
  BY AppendShape
<1>3. q[Len(p) + 1] = e
  BY AppendShape
<1> HIDE DEF q
<1> QED  BY <1>1, <1>2, <1>3 DEF NoGap

LEMMA AppendBridge ==
  ASSUME NEW p \in Queue, NEW e \in Notification, NEW u \in Nat, NEW o \in Nat,
         Bridge(p, u, o),
         NoGap(p, Len(p) + 1) /\ e.k = "out" => Spans(p, Len(p) + 1, u, e.n),
         NoGap(p, Len(p) + 1) /\ e.k = "exit" => Spans(p, Len(p) + 1, u, o + 1)
  PROVE  Bridge(Append(p, e), u, o)
<1> DEFINE q == Append(p, e)
<1>1. Len(q) = Len(p) + 1 /\ q[Len(p) + 1] = e /\ Len(p) \in Nat
  BY AppendShape
<1>2. ASSUME NEW j \in 1..Len(q), NoGap(q, j)
      PROVE  /\ q[j].k = "out" => Spans(q, j, u, q[j].n)
             /\ q[j].k = "exit" => Spans(q, j, u, o + 1)
  <2>1. NoGap(p, j)
    BY <1>1, <1>2, AppendPrefix
  <2>2. CASE j <= Len(p)
    <3>1. q[j] = p[j] /\ j \in 1..Len(p)
      BY <2>2, <1>1, AppendShape
    <3> QED  BY <2>1, <3>1, <1>1, AppendPrefix DEF Bridge
  <2>3. CASE j = Len(p) + 1
    BY <2>1, <2>3, <1>1, AppendPrefix
  <2> QED  BY <2>2, <2>3, <1>1
<1> QED  BY <1>2 DEF Bridge

\* A notice relieves the queue of being whole; nothing but output undoes it.
LEMMA AppendWhole ==
  ASSUME NEW p \in Queue, NEW e \in Notification, NEW u \in Nat, NEW o \in Nat,
         NEW n \in Nat,
         \/ e.k = "gap"
         \/ e.k # "out" /\ n = o /\ Whole(p, u, o)
         \/ e = Output(o + 1) /\ n = o + 1 /\ Whole(p, u, o)
  PROVE  Whole(Append(p, e), u, n)
<1> DEFINE q == Append(p, e)
<1> USE AppendShape
<1>1. SUFFICES ASSUME NoGap(q, Len(q) + 1)
               PROVE  Spans(q, Len(q) + 1, u, n + 1)
  BY DEF Whole
<1>2. NoGap(p, Len(p) + 1) /\ e.k # "gap"
  BY <1>1, AppendNoGap
<1>3. Spans(p, Len(p) + 1, u, o + 1)
  BY <1>2 DEF Whole
<1>4. ASSUME NEW m \in Nat, u < m, m < n + 1
      PROVE  \E i \in 1..Len(q) : q[i] = Output(m)
  <2>1. CASE m < o + 1
    BY <2>1, <1>3, <1>4 DEF Spans
  <2>2. CASE m = o + 1
    BY <2>2, <1>2, <1>4
  <2> QED  BY <2>1, <2>2, <1>2, <1>4
<1> QED  BY <1>4 DEF Spans

LEMMA AppendCovered ==
  ASSUME NEW p \in Queue, NEW e \in Notification, NEW u \in Nat, Covered(p, u),
         NoGap(p, Len(p) + 1) /\ ~Has(p, "fence") /\ e.k = "out" => e.n <= u
  PROVE  Covered(Append(p, e), u)
<1> DEFINE q == Append(p, e)
<1> USE AppendShape
<1> SUFFICES ASSUME NEW j \in 1..Len(q), NoGap(q, j), q[j].k = "out",
                    \A i \in 1..(j - 1) : q[i].k # "fence"
             PROVE  q[j].n <= u
  BY DEF Covered
<1>1. NoGap(p, j)
  BY AppendPrefix
<1>2. \A i \in 1..(j - 1) : p[i].k # "fence"
  BY Z3
<1>3. CASE j <= Len(p)
  BY <1>1, <1>2, <1>3 DEF Covered
<1>4. CASE j = Len(p) + 1
  BY <1>1, <1>2, <1>4 DEF Has
<1> QED  BY <1>3, <1>4

LEMMA AppendWillEnd ==
  ASSUME NEW p \in Queue, NEW e \in Notification,
         WillEnd(p) \/ e.k = "gap" \/ e.k = "fence"
  PROVE  WillEnd(Append(p, e))
<1> DEFINE q == Append(p, e)
<1>1. Len(q) = Len(p) + 1 /\ Len(p) \in Nat /\ q[Len(p) + 1] = e
      /\ \A i \in 1..Len(p) : q[i] = p[i]
  BY AppendShape
<1>2. CASE e.k = "fence"
  BY <1>1, <1>2 DEF WillEnd
<1>3. CASE e.k = "gap"
  BY <1>3, AppendNoGap DEF WillEnd
<1>4. CASE WillEnd(p)
  <2>1. SUFFICES ASSUME NoGap(p, Len(p) + 1) PROVE \E i \in 1..Len(q) : q[i].k = "fence"
    BY AppendNoGap DEF WillEnd
  <2>2. PICK i \in 1..Len(p) : p[i].k = "fence"
    BY <1>4, <2>1 DEF WillEnd
  <2>3. i \in 1..Len(q) /\ q[i].k = "fence"
    BY <1>1, <2>2
  <2> QED  BY <2>3
<1> QED  BY <1>2, <1>3, <1>4

LEMMA AppendAfterFence ==
  ASSUME NEW p \in Queue, NEW e \in Notification, NEW u \in Nat, AfterFence(p, u),
         e.k = "out" => e.n > u, e.k = "fence" => ~Has(p, "fence")
  PROVE  AfterFence(Append(p, e), u)
<1> DEFINE q == Append(p, e)
<1>1. Len(q) = Len(p) + 1 /\ Len(p) \in Nat /\ q[Len(p) + 1] = e
      /\ \A i \in 1..Len(p) : q[i] = p[i]
  BY AppendShape
<1> HIDE DEF q
<1>2. ASSUME NEW i \in 1..Len(q), NEW j \in 1..Len(q), q[i].k = "fence", i < j
      PROVE  q[j].k # "fence" /\ (q[j].k = "out" => q[j].n > u)
  <2>1. i \in 1..Len(p) /\ q[i] = p[i]
    BY <1>1, <1>2
  <2>2. CASE j \in 1..Len(p)
    BY <1>1, <1>2, <2>1, <2>2 DEF AfterFence
  <2>3. CASE j = Len(p) + 1
    BY <1>1, <1>2, <2>1, <2>3 DEF Has
  <2> QED  BY <1>1, <2>2, <2>3
<1>3. AfterFence(q, u)
  BY <1>2 DEF AfterFence
<1> QED  BY <1>3 DEF q

LEMMA AppendFresh ==
  ASSUME NEW p \in Queue, NEW e \in Notification, NEW u \in Nat, Fresh(p, u),
         e.k # "fence", e.k = "out" => e.n > u
  PROVE  Fresh(Append(p, e), u)
BY AppendShape DEF Fresh

-----------------------------------------------------------------------------
(* How they survive the removal of the first notification.                 *)

LEMMA TailSimple ==
  ASSUME NEW p \in Queue, p # <<>>, NEW o \in Nat, NEW u \in Nat, NEW kind
  PROVE  /\ Bounded(p, o) => Bounded(Tail(p), o)
         /\ Increasing(p) => Increasing(Tail(p))
         /\ Has(Tail(p), kind) => Has(p, kind)
         /\ AfterFence(p, u) => AfterFence(Tail(p), u)
         /\ Fresh(p, u) => Fresh(Tail(p), u)
<1> DEFINE q == Tail(p)
<1>1. Len(q) = Len(p) - 1 /\ Len(p) \in Nat /\ Len(p) >= 1
      /\ \A i \in 1..Len(q) : q[i] = p[i + 1] /\ i + 1 \in 1..Len(p)
  BY TailShape
<1> HIDE DEF q
<1>2. Bounded(p, o) => Bounded(q, o)
  BY <1>1 DEF Bounded
<1>3. Increasing(p) => Increasing(q)
  BY <1>1 DEF Increasing
<1>4. Has(q, kind) => Has(p, kind)
  BY <1>1 DEF Has
<1>5. ASSUME AfterFence(p, u) PROVE AfterFence(q, u)
  <2> SUFFICES ASSUME NEW i \in 1..Len(q), NEW j \in 1..Len(q), q[i].k = "fence", i < j
               PROVE  q[j].k # "fence" /\ (q[j].k = "out" => q[j].n > u)
    BY DEF AfterFence
  <2>1. i + 1 \in 1..Len(p) /\ j + 1 \in 1..Len(p) /\ i + 1 < j + 1
        /\ p[i + 1].k = "fence" /\ q[j] = p[j + 1]
    BY <1>1
  <2> QED  BY <2>1, <1>5 DEF AfterFence
<1>6. Fresh(p, u) => Fresh(q, u)
  BY <1>1 DEF Fresh
<1> QED  BY <1>2, <1>3, <1>4, <1>5, <1>6 DEF q

\* The fence goes: what is left is new.
LEMMA TailFence ==
  ASSUME NEW p \in Queue, p # <<>>, NEW u \in Nat, AfterFence(p, u), Head(p).k = "fence"
  PROVE  Fresh(Tail(p), u)
<1>1. \A i \in 1..Len(Tail(p)) : Tail(p)[i] = p[i + 1] /\ i + 1 \in 1..Len(p) /\ 1 < i + 1
  BY TailShape
<1>2. 1 \in 1..Len(p) /\ p[1].k = "fence"
  BY TailShape
<1> QED  BY <1>1, <1>2 DEF Fresh, AfterFence

\* A chunk goes on the screen: what is left is newer.
LEMMA TailNewer ==
  ASSUME NEW p \in Queue, p # <<>>, NEW u \in Nat, Increasing(p), Fresh(p, u),
         Head(p).k = "out"
  PROVE  Fresh(Tail(p), Head(p).n)
<1>1. \A i \in 1..Len(Tail(p)) : Tail(p)[i] = p[i + 1] /\ i + 1 \in 1..Len(p) /\ 1 < i + 1
  BY TailShape
<1>2. 1 \in 1..Len(p) /\ Head(p) = p[1] /\ p[1] \in Notification
  BY TailShape
<1>3. \A i \in 1..Len(Tail(p)) : Tail(p)[i].k = "out" => Tail(p)[i].n > Head(p).n
  <2> SUFFICES ASSUME NEW i \in 1..Len(Tail(p)), Tail(p)[i].k = "out"
               PROVE  Tail(p)[i].n > Head(p).n
    OBVIOUS
  <2>1. p[i + 1] \in Notification /\ p[1].n < p[i + 1].n
    BY <1>1, <1>2, TailShape DEF Increasing
  <2> QED  BY <2>1, <1>1, <1>2 DEF Notification
<1>4. \A i \in 1..Len(Tail(p)) : Tail(p)[i].k # "fence"
  BY <1>1 DEF Fresh
<1> QED  BY <1>3, <1>4 DEF Fresh

LEMMA TailNoGap ==
  ASSUME NEW p \in Queue, p # <<>>, Head(p).k # "gap", NEW j \in 1..Len(p),
         NoGap(Tail(p), j)
  PROVE  NoGap(p, j + 1)
<1>1. \A i \in 1..(j - 1) : Tail(p)[i] = p[i + 1]
  BY TailShape
<1>2. ASSUME NEW i \in 1..j PROVE p[i].k # "gap"
  <2>1. CASE i = 1
    BY <2>1, TailShape
  <2>2. CASE i > 1
    <3>1. i - 1 \in 1..(j - 1) /\ (i - 1) + 1 = i
      BY <2>2
    <3> QED  BY <3>1, <1>1 DEF NoGap
  <2> QED  BY <2>1, <2>2
<1> QED  BY <1>2 DEF NoGap

\* The screen moves from u to v, past the chunk that goes.
LEMMA TailSpans ==
  ASSUME NEW p \in Queue, p # <<>>, NEW u \in Nat, NEW v \in Nat, u <= v,
         \A m \in Nat : Head(p) = Output(m) => m <= v,
         NEW j \in 1..Len(p), NEW n \in Nat, Spans(p, j + 1, u, n)
  PROVE  Spans(Tail(p), j, v, n)
<1> SUFFICES ASSUME NEW m \in Nat, v < m, m < n
             PROVE  \E i \in 1..(j - 1) : Tail(p)[i] = Output(m)
  BY DEF Spans
<1>1. PICK i \in 1..j : p[i] = Output(m)
  BY DEF Spans
<1>2. i # 1
  BY <1>1, TailShape
<1>3. i - 1 \in 1..(j - 1) /\ i - 1 \in 1..(Len(p) - 1) /\ (i - 1) + 1 = i
  BY <1>2
<1>4. Tail(p)[i - 1] = Output(m)
  BY <1>1, <1>3, TailShape
<1> QED  BY <1>3, <1>4

LEMMA TailBridge ==
  ASSUME NEW p \in Queue, p # <<>>, NEW o \in Nat, NEW u \in Nat, NEW v \in Nat,
         u <= v, \A m \in Nat : Head(p) = Output(m) => m <= v, Head(p).k # "gap"
  PROVE  /\ Bridge(p, u, o) => Bridge(Tail(p), v, o)
         /\ Whole(p, u, o) => Whole(Tail(p), v, o)
<1> DEFINE q == Tail(p)
<1>1. Len(q) = Len(p) - 1 /\ Len(p) \in Nat /\ Len(p) >= 1
      /\ \A i \in 1..Len(q) : q[i] = p[i + 1] /\ i + 1 \in 1..Len(p) /\ p[i + 1].n \in Nat
  BY TailShape DEF Notification
<1>2. Bridge(p, u, o) => Bridge(q, v, o)
  <2> SUFFICES ASSUME Bridge(p, u, o), NEW j \in 1..Len(q), NoGap(q, j)
               PROVE  /\ q[j].k = "out" => Spans(q, j, v, q[j].n)
                      /\ q[j].k = "exit" => Spans(q, j, v, o + 1)
    BY DEF Bridge
  <2>1. NoGap(p, j + 1)
    BY <1>1, TailNoGap
  <2>2. /\ q[j].k = "out" => Spans(p, j + 1, u, q[j].n)
        /\ q[j].k = "exit" => Spans(p, j + 1, u, o + 1)
    BY <1>1, <2>1 DEF Bridge
  <2>3. j \in 1..Len(p) /\ q[j].n \in Nat /\ o + 1 \in Nat
    BY <1>1
  <2>4. \A n \in Nat : Spans(p, j + 1, u, n) => Spans(q, j, v, n)
    BY <2>3, TailSpans
  <2> QED  BY <2>2, <2>3, <2>4
<1>3. Whole(p, u, o) => Whole(q, v, o)
  <2> SUFFICES ASSUME Whole(p, u, o), NoGap(q, Len(q) + 1)
               PROVE  Spans(q, Len(q) + 1, v, o + 1)
    BY DEF Whole
  <2>1. NoGap(p, Len(p) + 1)
    BY <1>1, TailNoGap
  <2>2. Spans(p, Len(p) + 1, u, o + 1)
    BY <2>1 DEF Whole
  <2> QED  BY <2>2, <1>1, TailSpans
<1> QED  BY <1>2, <1>3

LEMMA TailCovered ==
  ASSUME NEW p \in Queue, p # <<>>, NEW u \in Nat,
         Head(p).k # "gap", Head(p).k # "fence"
  PROVE  /\ Covered(p, u) => Covered(Tail(p), u)
         /\ WillEnd(p) => WillEnd(Tail(p))
<1> DEFINE q == Tail(p)
<1>1. Len(q) = Len(p) - 1 /\ Len(p) \in Nat /\ Len(p) >= 1
      /\ \A i \in 1..Len(q) : q[i] = p[i + 1] /\ i + 1 \in 1..Len(p)
  BY TailShape
<1>2. p[1].k # "fence" /\ p[1].k # "gap"
  BY TailShape
<1>3. ASSUME Covered(p, u), NEW j \in 1..Len(q), NoGap(q, j), q[j].k = "out",
             \A i \in 1..(j - 1) : q[i].k # "fence"
      PROVE  q[j].n <= u
  <2>1. NoGap(p, j + 1)
    BY <1>1, <1>3, TailNoGap
  <2>2. ASSUME NEW i \in 1..j PROVE p[i].k # "fence"
    <3>1. CASE i = 1
      BY <3>1, <1>2
    <3>2. CASE i > 1
      <4>1. i - 1 \in 1..(j - 1) /\ i - 1 \in 1..Len(q) /\ (i - 1) + 1 = i
        BY <3>2, <1>1
      <4> QED  BY <4>1, <1>1, <1>3
    <3> QED  BY <3>1, <3>2
  <2> QED  BY <2>1, <2>2, <1>1, <1>3 DEF Covered
<1>4. ASSUME WillEnd(p), NoGap(q, Len(q) + 1)
      PROVE  \E i \in 1..Len(q) : q[i].k = "fence"
  <2>1. NoGap(p, Len(p) + 1)
    BY <1>1, <1>4, TailNoGap
  <2>2. PICK i \in 1..Len(p) : p[i].k = "fence"
    BY <2>1, <1>4 DEF WillEnd
  <2>3. i - 1 \in 1..Len(q) /\ (i - 1) + 1 = i
    BY <2>2, <1>1, <1>2
  <2> QED  BY <2>2, <2>3, <1>1
<1> QED  BY <1>3, <1>4 DEF Covered, WillEnd

-----------------------------------------------------------------------------
(* What the actions do to one queue.                                       *)

\* A fan-out leaves a queue alone, or adds the notice that was due, the
\* notification, or the two in this order; who is short is on record.
Fanned(a, note) ==
  \/ a \notin subs /\ a \notin gapped' /\ pipe'[a] = pipe[a]
  \/ a \in subs /\ a \in gapped' /\ pipe'[a] = pipe[a]
  \/ a \in gapped /\ a \in gapped' /\ pipe'[a] = Append(pipe[a], Note("gap"))
  \/ a \in subs /\ a \notin gapped /\ a \notin gapped' /\ pipe'[a] = Append(pipe[a], note)
  \/ /\ a \in gapped /\ a \notin gapped'
     /\ pipe'[a] = Append(Append(pipe[a], Note("gap")), note)

LEMMA NoteType ==
  /\ \A kind \in Kinds : Note(kind) \in Notification
  /\ \A n \in Nat : Output(n) \in Notification
BY DEF Notification, Note, Output, Kinds

LEMMA QueuedType ==
  ASSUME NEW q \in Queue, NEW x \in Notification, NEW y \in Notification
  PROVE  /\ q \o <<>> = q
         /\ q \o <<x>> = Append(q, x)
         /\ q \o <<x, y>> = Append(Append(q, x), y)
BY DEF Queue

LEMMA FanShape ==
  ASSUME TypeOK, NEW note \in Notification, FanOut(note)
  PROVE  /\ pipe' \in [Attachments -> Queue] /\ gapped' \in SUBSET subs
         /\ \A a \in Attachments : Fanned(a, note) /\ Len(pipe'[a]) >= Len(pipe[a])
<1>1. PICK fit \in [subs -> 0..2] :
        /\ \A a \in subs : fit[a] <= Wanted(a)
        /\ pipe' = [a \in Attachments |->
                     IF a \in subs THEN pipe[a] \o Queued(a, fit[a], note) ELSE pipe[a]]
        /\ gapped' = {a \in subs : fit[a] < Wanted(a)}
  BY DEF FanOut
<1>2. gapped' \in SUBSET subs
  BY <1>1
<1>3. ASSUME NEW a \in Attachments
      PROVE  Fanned(a, note) /\ pipe'[a] \in Queue /\ Len(pipe'[a]) >= Len(pipe[a])
  <2>1. pipe[a] \in Queue /\ subs \subseteq Attachments /\ gapped \subseteq subs
    BY DEF TypeOK, Queue
  <2>2. Note("gap") \in Notification
    BY NoteType DEF Kinds
  <2>3. CASE a \notin subs
    <3>1. pipe'[a] = pipe[a] /\ a \notin gapped'
      BY <1>1, <2>3
    <3> QED  BY <3>1, <2>1, <2>3 DEF Fanned, Queue
  <2>4. CASE a \in subs /\ fit[a] = 0
    <3>0. Queued(a, 0, note) = <<>> /\ 0 < Wanted(a)
      BY DEF Queued, Wanted
    <3>1. pipe'[a] = pipe[a] \o <<>> /\ a \in gapped'
      BY <1>1, <2>4, <3>0
    <3> QED  BY <3>1, <2>1, <2>2, <2>4, QueuedType DEF Fanned, Queue
  <2>5. CASE a \in subs /\ fit[a] = 1 /\ a \notin gapped
    <3>1. pipe'[a] = pipe[a] \o <<note>> /\ a \notin gapped'
      BY <1>1, <2>5 DEF Queued, Wanted
    <3>2. pipe'[a] = Append(pipe[a], note)
      BY <3>1, <2>1, QueuedType
    <3>9. /\ Append(pipe[a], note) \in Queue
          /\ Len(Append(pipe[a], note)) = Len(pipe[a]) + 1 /\ Len(pipe[a]) \in Nat
      BY <2>1, AppendShape
    <3>3. pipe'[a] \in Queue /\ Len(pipe'[a]) >= Len(pipe[a])
      BY <3>2, <3>9
    <3> QED  BY <3>1, <3>2, <3>3, <2>5 DEF Fanned
  <2>6. CASE a \in subs /\ fit[a] = 1 /\ a \in gapped
    <3>1. pipe'[a] = pipe[a] \o <<Note("gap")>> /\ a \in gapped'
      BY <1>1, <2>6 DEF Queued, Wanted
    <3>2. pipe'[a] = Append(pipe[a], Note("gap"))
      BY <3>1, <2>1, <2>2, QueuedType
    <3>3. /\ Append(pipe[a], Note("gap")) \in Queue
          /\ Len(Append(pipe[a], Note("gap"))) = Len(pipe[a]) + 1 /\ Len(pipe[a]) \in Nat
      BY <2>1, <2>2, AppendShape
    <3>4. pipe'[a] \in Queue /\ Len(pipe'[a]) >= Len(pipe[a])
      BY <3>2, <3>3
    <3> QED  BY <3>1, <3>2, <3>4, <2>6 DEF Fanned
  <2>7. CASE a \in subs /\ fit[a] = 2
    <3>9. fit[a] <= Wanted(a) /\ fit[a] = 2
      BY <1>1, <2>7
    <3>0. a \in gapped
      BY <3>9 DEF Wanted
    <3>1. pipe'[a] = pipe[a] \o <<Note("gap"), note>> /\ a \notin gapped'
      BY <1>1, <2>7, <3>0 DEF Queued, Wanted
    <3>2. pipe'[a] = Append(Append(pipe[a], Note("gap")), note)
      BY <3>1, <2>1, <2>2, QueuedType
    <3> DEFINE q == Append(pipe[a], Note("gap"))
    <3>3. q \in Queue /\ Len(q) = Len(pipe[a]) + 1 /\ Len(pipe[a]) \in Nat
      BY <2>1, <2>2, AppendShape
    <3> HIDE DEF q
    <3>4. Append(q, note) \in Queue /\ Len(Append(q, note)) = Len(q) + 1
      BY <3>3, AppendShape
    <3>5. pipe'[a] = Append(q, note)
      BY <3>2 DEF q
    <3>6. Len(pipe'[a]) >= Len(pipe[a])
      BY <3>3, <3>4, <3>5
    <3> QED  BY <3>0, <3>1, <3>2, <3>4, <3>5, <3>6 DEF Fanned
  <2> QED  BY <2>3, <2>4, <2>5, <2>6, <2>7, <1>1
<1>4. pipe' \in [Attachments -> Queue]
  BY <1>1, <1>3
<1> QED  BY <1>2, <1>3, <1>4

\* A fence is added to the queue of a peer, or the peer is gapped.
FencedPeer(b, peers) ==
  \/ b \notin peers /\ (b \in gapped' <=> b \in gapped) /\ pipe'[b] = pipe[b]
  \/ b \in peers /\ b \in gapped' /\ pipe'[b] = pipe[b]
  \/ /\ b \in peers /\ (b \in gapped' <=> b \in gapped)
     /\ pipe'[b] = Append(pipe[b], Note("fence"))

LEMMA FenceShape ==
  ASSUME TypeOK, NEW peers \in SUBSET subs, FencePeers(peers)
  PROVE  /\ pipe' \in [Attachments -> Queue] /\ gapped' \in SUBSET subs
         /\ \A b \in Attachments : FencedPeer(b, peers) /\ Len(pipe'[b]) >= Len(pipe[b])
<1>1. PICK fit \in SUBSET peers :
        /\ pipe' = [a \in Attachments |->
                     IF a \in fit THEN Append(pipe[a], Note("fence")) ELSE pipe[a]]
        /\ gapped' = gapped \cup (peers \ fit)
  BY DEF FencePeers
<1>2. Note("fence") \in Notification
  BY NoteType DEF Kinds
<1>3. ASSUME NEW b \in Attachments
      PROVE  FencedPeer(b, peers) /\ pipe'[b] \in Queue /\ Len(pipe'[b]) >= Len(pipe[b])
  <2>1. pipe[b] \in Queue /\ Len(pipe[b]) \in Nat
    BY DEF TypeOK, Queue
  <2>2. CASE b \in fit
    <3>1. pipe'[b] = Append(pipe[b], Note("fence")) /\ (b \in gapped' <=> b \in gapped)
      BY <1>1, <2>2
    <3> QED  BY <3>1, <2>1, <2>2, <1>2, AppendShape DEF FencedPeer
  <2>3. CASE b \notin fit
    BY <1>1, <2>1, <2>3 DEF FencedPeer
  <2> QED  BY <2>2, <2>3
<1> QED  BY <1>1, <1>3 DEF TypeOK

\* The pump's step removes the first element, and it was in the inbox.
LEMMA TakeShape ==
  ASSUME TypeOK, Inbox, NEW a \in Attachments, NEW kinds, Take(a, kinds)
  PROVE  /\ pipe' \in [Attachments -> Queue] /\ taken' \in [Attachments -> Nat]
         /\ Inbox' /\ pipe[a] # <<>> /\ Head(pipe[a]) \in Notification
         /\ pipe'[a] = Tail(pipe[a])
         /\ \A b \in Attachments : b # a => pipe'[b] = pipe[b]
<1>1. pipe[a] \in Queue /\ Len(pipe[a]) >= 1 /\ pipe[a] # <<>>
  BY DEF TypeOK, Inbox, Take, Queue
<1>2. /\ Tail(pipe[a]) \in Queue /\ Len(Tail(pipe[a])) = Len(pipe[a]) - 1
      /\ Head(pipe[a]) \in Notification
  BY <1>1, TailShape
<1>3. /\ pipe' = [pipe EXCEPT ![a] = Tail(pipe[a])]
      /\ taken' = [taken EXCEPT ![a] = taken[a] - 1] /\ taken[a] > 0
  BY DEF Take
<1>4. pipe \in [Attachments -> Queue] /\ taken \in [Attachments -> Nat]
  BY DEF TypeOK, Queue
<1>5. pipe' \in [Attachments -> Queue] /\ taken' \in [Attachments -> Nat]
  BY <1>2, <1>3, <1>4
<1>6. ASSUME NEW b \in Attachments PROVE taken'[b] <= Len(pipe'[b])
  BY <1>1, <1>2, <1>3, <1>4 DEF Inbox, Queue
<1>7. Inbox'
  BY <1>6 DEF Inbox
<1> QED  BY <1>1, <1>2, <1>3, <1>4, <1>5, <1>7

\* A subscription that ends leaves the daemon's part of the queue.
LEMMA ForgetShape ==
  ASSUME TypeOK, Inbox, NEW a \in Attachments, Forget(a)
  PROVE  /\ pipe' \in [Attachments -> Queue] /\ taken' \in [Attachments -> Nat]
         /\ Inbox'
         /\ \A b \in Attachments : b # a => pipe'[b] = pipe[b]
<1> DEFINE rest == SubSeq(pipe[a], taken[a] + 1, Len(pipe[a]))
<1>1. pipe[a] \in Queue /\ taken[a] \in Nat /\ Len(pipe[a]) \in Nat
  BY DEF TypeOK, Queue
<1>2. rest \in Queue /\ Len(rest) >= 0
  BY <1>1 DEF Queue
<1>3. /\ pipe' = [pipe EXCEPT ![a] = rest] /\ taken' = [taken EXCEPT ![a] = 0]
      /\ pipe \in [Attachments -> Queue] /\ taken \in [Attachments -> Nat]
  BY DEF Forget, TypeOK, Queue
<1> HIDE DEF rest
<1>4. ASSUME NEW b \in Attachments PROVE taken'[b] <= Len(pipe'[b])
  BY <1>2, <1>3 DEF Inbox
<1> QED  BY <1>2, <1>3, <1>4 DEF Inbox

\* Every step keeps the types, and the inbox a part of the queue.
LEMMA TypeStep ==
  ASSUME TypeOK, Inbox, [Next]_vars
  PROVE  TypeOK' /\ Inbox'
<1> DEFINE Keep == UNCHANGED <<pipe, taken>>
<1>0. /\ pipe \in [Attachments -> Queue] /\ taken \in [Attachments -> Nat]
      /\ \A a \in Attachments : Len(pipe[a]) \in Nat
  BY DEF TypeOK, Queue
<1>a. ASSUME NEW note \in Notification, FanOut(note), UNCHANGED taken
      PROVE  Inbox' /\ pipe' \in [Attachments -> Queue] /\ gapped' \in SUBSET subs
  <2>1. /\ pipe' \in [Attachments -> Queue] /\ gapped' \in SUBSET subs
        /\ \A a \in Attachments : Len(pipe'[a]) >= Len(pipe[a])
    BY <1>a, FanShape
  <2>2. \A a \in Attachments : Len(pipe'[a]) \in Nat
    BY <2>1 DEF Queue
  <2>3. Inbox'
    BY <2>1, <2>2, <1>0, <1>a DEF Inbox
  <2> QED  BY <2>1, <2>3
<1>1. CASE Publish
  <2>1. Output(out + 1) \in Notification /\ FanOut(Output(out + 1)) /\ UNCHANGED taken
    BY <1>1, NoteType DEF Publish, TypeOK
  <2> QED  BY <2>1, <1>a, <1>1 DEF Publish, TypeOK, clientVars, historyVars, Queue
<1>2. CASE AgentStatus
  <2>1. Note("status") \in Notification /\ FanOut(Note("status")) /\ UNCHANGED taken
    BY <1>2, NoteType DEF AgentStatus, Kinds
  <2> QED  BY <2>1, <1>a, <1>2 DEF AgentStatus, TypeOK, clientVars, historyVars, Queue
<1>3. CASE FlagExit
  BY <1>3 DEF FlagExit, TypeOK, Inbox, wireVars, clientVars, historyVars
<1>4. CASE FanExit
  <2>1. Note("exit") \in Notification /\ FanOut(Note("exit")) /\ UNCHANGED taken
    BY <1>4, NoteType DEF FanExit, Kinds
  <2> QED  BY <2>1, <1>a, <1>4 DEF FanExit, TypeOK, clientVars, historyVars, Queue
<1>b. ASSUME NEW a \in Attachments, Subscribe(a)
      PROVE  /\ Inbox' /\ pipe' \in [Attachments -> Queue] /\ subs' \in SUBSET Attachments
             /\ gapped' \in SUBSET subs' /\ UNCHANGED <<out, status, exit, taken>>
  <2>1. Note("exit") \in Notification
    BY NoteType DEF Kinds
  <2>2. /\ Append(pipe[a], Note("exit")) \in Queue
        /\ Len(Append(pipe[a], Note("exit"))) = Len(pipe[a]) + 1
    BY <1>0, <2>1, AppendShape
  <2>3. \/ UNCHANGED pipe
        \/ pipe' = [pipe EXCEPT ![a] = Append(pipe[a], Note("exit"))]
    BY <1>b, <1>0 DEF Subscribe
  <2>4. Inbox' /\ pipe' \in [Attachments -> Queue]
    BY <1>b, <1>0, <2>2, <2>3 DEF Inbox, Subscribe
  <2> QED  BY <2>4, <1>b DEF Subscribe, TypeOK
<1>5. ASSUME NEW a \in Attachments, HandleAttach(a) PROVE TypeOK' /\ Inbox'
  BY <1>5, <1>b DEF HandleAttach, TypeOK, historyVars, PumpStates, Queue
<1>6. ASSUME NEW a \in Attachments, HandleSpawn(a) PROVE TypeOK' /\ Inbox'
  BY <1>6, <1>b DEF HandleSpawn, TypeOK, historyVars, PumpStates, Queue
<1>7. ASSUME NEW a \in Attachments, SendAttach(a) \/ AttachOk(a) \/ SpawnOk(a)
      PROVE  TypeOK' /\ Inbox'
  BY <1>7 DEF SendAttach, AttachOk, SpawnOk, TypeOK, Inbox, wireVars, daemonVars,
              historyVars, PumpStates
<1>8. ASSUME NEW a \in Attachments, AttachFails(a) \/ Leave(a) \/ PumpExit(a)
      PROVE  TypeOK' /\ Inbox'
  <2>1. Forget(a)
    BY <1>8 DEF AttachFails, Leave, PumpExit
  <2> QED  BY <2>1, <1>8, ForgetShape
             DEF AttachFails, Leave, PumpExit, TypeOK, daemonVars, historyVars, PumpStates, Queue
<1>9. ASSUME NEW a \in Attachments, Deliver(a) PROVE TypeOK' /\ Inbox'
  <2>1. pipe[a] # <<>> /\ pipe[a] \in Queue
    BY <1>9, <1>0 DEF Deliver
  <2>2. Tail(pipe[a]) \in Queue /\ Len(Tail(pipe[a])) = Len(pipe[a]) - 1
    BY <2>1, TailShape
  <2>5. \/ pipe' = pipe /\ taken' = [taken EXCEPT ![a] = taken[a] + 1]
        \/ pipe' = [pipe EXCEPT ![a] = Tail(pipe[a])] /\ taken' = taken
    BY <1>9 DEF Deliver
  <2>3. /\ pipe' \in [Attachments -> Queue] /\ taken' \in [Attachments -> Nat]
    <3>1. CASE pipe' = pipe /\ taken' = [taken EXCEPT ![a] = taken[a] + 1]
      BY <3>1, <1>0
    <3>2. CASE pipe' = [pipe EXCEPT ![a] = Tail(pipe[a])] /\ taken' = taken
      BY <3>2, <1>0, <2>2
    <3> QED  BY <2>5, <3>1, <3>2
  <2>4. ASSUME NEW b \in Attachments PROVE taken'[b] <= Len(pipe'[b])
    BY <1>9, <1>0, <2>2 DEF Deliver, Inbox
  <2> QED  BY <2>3, <2>4, <1>9
             DEF Deliver, TypeOK, Inbox, daemonVars, clientVars, historyVars, Queue
<1>10. ASSUME NEW a \in Attachments, PumpOutput(a) \/ PumpFence(a) \/ PumpGap(a)
       PROVE  TypeOK' /\ Inbox'
  <2>1. PICK kinds : Take(a, kinds)
    BY <1>10 DEF PumpOutput, PumpFence, PumpGap
  <2>2. /\ pipe' \in [Attachments -> Queue] /\ taken' \in [Attachments -> Nat] /\ Inbox'
        /\ Head(pipe[a]).n \in Nat /\ UNCHANGED daemonVars
    BY <2>1, TakeShape DEF Take, Notification
  <2>3. CASE PumpOutput(a)
    <3>1. fence' \in [Attachments -> {"none", "wait", "late"}]
      BY <2>3 DEF PumpOutput, TypeOK
    <3>2. shown' \in [Attachments -> Nat]
      BY <2>2, <2>3 DEF PumpOutput, TypeOK
    <3>3. hole' \in [Attachments -> BOOLEAN]
      BY <2>3 DEF PumpOutput, TypeOK
    <3>4. twice' \in [Attachments -> BOOLEAN]
      BY <2>3 DEF PumpOutput, TypeOK
    <3> QED  BY <3>1, <3>2, <3>3, <3>4, <2>2, <2>3 DEF PumpOutput, TypeOK, daemonVars, Queue
  <2>4. CASE PumpFence(a)
    BY <2>2, <2>4 DEF PumpFence, TypeOK, daemonVars, historyVars, Queue
  <2>5. CASE PumpGap(a)
    <3>1. pump' \in [Attachments -> PumpStates]
      BY <2>5 DEF PumpGap, TypeOK, PumpStates
    <3>2. asks' \in [Attachments -> Nat]
      BY <2>5 DEF PumpGap, TypeOK
    <3> QED  BY <3>1, <3>2, <2>2, <2>5 DEF PumpGap, TypeOK, daemonVars, historyVars, Queue
  <2> QED  BY <1>10, <2>3, <2>4, <2>5
<1>11. ASSUME NEW a \in Attachments, HandleReplay(a) PROVE TypeOK' /\ Inbox'
  <2> DEFINE peers == {b \in subs : ConnOf[b] = ConnOf[a]}
  <2>1. FencePeers(peers) /\ peers \in SUBSET subs
    BY <1>11 DEF HandleReplay
  <2>2. /\ pipe' \in [Attachments -> Queue] /\ gapped' \in SUBSET subs
        /\ \A b \in Attachments : Len(pipe'[b]) >= Len(pipe[b])
    BY <2>1, FenceShape
  <2>3. \A b \in Attachments : Len(pipe'[b]) \in Nat
    BY <2>2 DEF Queue
  <2>4. Inbox'
    BY <2>2, <2>3, <1>0, <1>11 DEF Inbox, HandleReplay
  <2>5. astray' \in [Attachments -> {"no", "mixed", "late"}]
    BY <1>11 DEF HandleReplay, TypeOK, Stray
  <2>7. asks' \in [Attachments -> Nat]
    BY <1>11 DEF HandleReplay, TypeOK
  <2>6. answer' \in [Attachments -> Nat] /\ pump' \in [Attachments -> PumpStates]
    <3>1. \/ answer' = [answer EXCEPT ![a] = out] /\ pump' = [pump EXCEPT ![a] = "answered"]
          \/ UNCHANGED <<answer, pump>>
      BY <1>11 DEF HandleReplay
    <3>2. answer \in [Attachments -> Nat] /\ out \in Nat
          /\ pump \in [Attachments -> PumpStates] /\ "answered" \in PumpStates
      BY DEF TypeOK, PumpStates
    <3>3. CASE answer' = [answer EXCEPT ![a] = out] /\ pump' = [pump EXCEPT ![a] = "answered"]
      BY <3>2, <3>3
    <3>4. CASE UNCHANGED <<answer, pump>>
      BY <3>2, <3>4
    <3> QED  BY <3>1, <3>3, <3>4
  <2> QED  BY <2>2, <2>4, <2>5, <2>6, <2>7, <1>11 DEF HandleReplay, TypeOK, Queue
<1>12. ASSUME NEW a \in Attachments, ReplayOk(a) PROVE TypeOK' /\ Inbox'
  BY <1>12 DEF ReplayOk, TypeOK, Inbox, wireVars, daemonVars, PumpStates
<1>13. ASSUME NEW a \in Attachments, ReplayFails(a) PROVE TypeOK' /\ Inbox'
  BY <1>13 DEF ReplayFails, TypeOK, Inbox, wireVars, daemonVars, PumpStates, Stray
<1>14. ASSUME NEW a \in Attachments, FenceExpires(a) PROVE TypeOK' /\ Inbox'
  BY <1>14 DEF FenceExpires, TypeOK, Inbox, wireVars, daemonVars
<1>15. ASSUME NEW a \in Attachments, Detach(a) PROVE TypeOK' /\ Inbox'
  BY <1>15 DEF Detach, TypeOK, Inbox, wireVars, clientVars, historyVars
<1>16. CASE UNCHANGED vars
  BY <1>16 DEF vars, TypeOK, Inbox, wireVars, daemonVars, clientVars, historyVars
<1> QED  BY <1>1, <1>2, <1>3, <1>4, <1>5, <1>6, <1>7, <1>8, <1>9, <1>10, <1>11, <1>12,
            <1>13, <1>14, <1>15, <1>16 DEF Next

\* Types are kept, whatever the constants.
THEOREM TypeCorrect == Spec => []TypeOK
<1>1. Init => TypeOK /\ Inbox
  BY ConstantsAssumption DEF Init, TypeOK, Inbox, PumpStates, Notification
<1>2. TypeOK /\ Inbox /\ [Next]_vars => TypeOK' /\ Inbox'
  BY TypeStep
<1> QED  BY <1>1, <1>2, PTL DEF Spec

-----------------------------------------------------------------------------
(* What a step is to one watcher.                                          *)

\* The client's side of a stays as it is.
Still(a) ==
  /\ pump'[a] = pump[a] /\ fence'[a] = fence[a]
  /\ shown'[a] = shown[a] /\ answer'[a] = answer[a]
  /\ stale'[a] = stale[a] /\ hole'[a] = hole[a] /\ twice'[a] = twice[a]

SameMark(a) == astray'[a] = astray[a]
SameQueue(a) == pipe'[a] = pipe[a] /\ (a \in gapped' <=> a \in gapped)
SameSub(a) == a \in subs' <=> a \in subs
EndStays == exit # "no" => exit' # "no"

\* Nothing that a sees.
Idle(a) ==
  Still(a) /\ SameMark(a) /\ SameQueue(a) /\ SameSub(a) /\ out' = out /\ EndStays

\* The child wrote a chunk.
Wrote(a) ==
  /\ Still(a) /\ SameMark(a) /\ SameSub(a)
  /\ out' = out + 1 /\ exit = "no" /\ exit' = "no"
  /\ Fanned(a, Output(out + 1))

\* A status packet or the end of the child was fanned out.
Injected(a) ==
  /\ Still(a) /\ SameMark(a) /\ SameSub(a) /\ out' = out /\ EndStays
  /\ \E kind \in {"status", "exit"} :
       /\ Fanned(a, Note(kind))
       /\ kind = "exit" => exit # "no"

\* A fence was queued for a, or for others, that a's client does not await.
Strayed(a) ==
  /\ Still(a) /\ SameSub(a) /\ out' = out /\ exit' = exit
  /\ \E peers \in SUBSET subs :
       /\ FencedPeer(a, peers)
       /\ astray'[a] = IF a \in peers THEN Stray(a) ELSE astray[a]

\* The snapshot a's client waits for was taken.
Answered(a) ==
  /\ pump[a] = "resync" /\ pump'[a] = "answered" /\ answer'[a] = out
  /\ fence'[a] = fence[a] /\ shown'[a] = shown[a] /\ stale'[a] = stale[a]
  /\ hole'[a] = hole[a] /\ twice'[a] = twice[a]
  /\ SameSub(a) /\ out' = out /\ exit' = exit
  /\ \E peers \in SUBSET subs : FencedPeer(a, peers) /\ (a \in subs => a \in peers)
  /\ astray'[a] = IF Has(pipe[a], "fence") THEN "mixed" ELSE "no"

\* The client is gone: the rest happens without it.
Left(a) ==
  /\ pump[a] \in {"ended", "exited"} /\ Still(a) /\ SameMark(a)
  /\ out' = out /\ exit' = exit

\* A step of a's own.
Own(a) ==
  \/ SendAttach(a) \/ HandleAttach(a) \/ AttachOk(a) \/ AttachFails(a)
  \/ PumpOutput(a) \/ PumpFence(a) \/ PumpGap(a) \/ PumpExit(a)
  \/ ReplayOk(a) \/ ReplayFails(a) \/ FenceExpires(a) \/ Leave(a)

StepOf(a) ==
  Idle(a) \/ Wrote(a) \/ Injected(a) \/ Strayed(a) \/ Answered(a) \/ Left(a) \/ Own(a)

\* A step of another attachment leaves a alone.
LEMMA OtherStep ==
  ASSUME TypeOK, Inbox, NEW a \in Watchers, NEW b \in Attachments, b # a,
         Own(b) \/ HandleSpawn(b) \/ SpawnOk(b) \/ Deliver(b) \/ Detach(b)
  PROVE  Idle(a)
<1> USE DEF Idle, Still, SameMark, SameQueue, SameSub, EndStays, Watchers
<1>1. ASSUME Subscribe(b)
      PROVE  SameQueue(a) /\ SameSub(a) /\ out' = out /\ exit' = exit
  BY <1>1 DEF Subscribe, TypeOK
<1>2. ASSUME Forget(b), UNCHANGED daemonVars
      PROVE  SameQueue(a) /\ SameSub(a) /\ out' = out /\ exit' = exit
  BY <1>2 DEF Forget, TypeOK, daemonVars
<1>3. ASSUME NEW kinds, Take(b, kinds)
      PROVE  SameQueue(a) /\ SameSub(a) /\ out' = out /\ exit' = exit
  BY <1>3 DEF Take, TypeOK, daemonVars
<1>4. CASE SendAttach(b) \/ AttachOk(b) \/ SpawnOk(b) \/ ReplayOk(b) \/ ReplayFails(b)
           \/ FenceExpires(b)
  BY <1>4 DEF SendAttach, AttachOk, SpawnOk, ReplayOk, ReplayFails, FenceExpires, TypeOK,
              daemonVars, wireVars, historyVars
<1>5. CASE HandleAttach(b) \/ HandleSpawn(b)
  BY <1>1, <1>5 DEF HandleAttach, HandleSpawn, TypeOK, historyVars
<1>6. CASE AttachFails(b) \/ Leave(b) \/ PumpExit(b)
  BY <1>2, <1>6 DEF AttachFails, Leave, PumpExit, TypeOK, historyVars, daemonVars
<1>7. CASE PumpOutput(b) \/ PumpFence(b) \/ PumpGap(b)
  <2>1. PICK kinds : Take(b, kinds)
    BY <1>7 DEF PumpOutput, PumpFence, PumpGap
  <2> QED  BY <2>1, <1>3, <1>7 DEF PumpOutput, PumpFence, PumpGap, TypeOK, historyVars
<1>8. CASE Deliver(b)
  BY <1>8 DEF Deliver, TypeOK, daemonVars, clientVars, historyVars
<1>9. CASE Detach(b)
  BY <1>9 DEF Detach, TypeOK, wireVars, clientVars, historyVars
<1> QED  BY <1>4, <1>5, <1>6, <1>7, <1>8, <1>9 DEF Own

\* Every step is one of these to every watcher.
LEMMA Steps ==
  ASSUME TypeOK, Inbox, [Next]_vars, NEW a \in Watchers, Phases(a)
  PROVE  StepOf(a)
<1> USE DEF Still, SameMark, SameQueue, SameSub, EndStays
<1>0. a \in Attachments /\ pump[a] \in PumpStates
  BY DEF Watchers, TypeOK
<1>1. CASE Publish
  <2>1. Fanned(a, Output(out + 1))
    BY <1>0, <1>1, FanShape, NoteType DEF Publish, TypeOK
  <2>2. Wrote(a)
    BY <2>1, <1>1 DEF Publish, Wrote, clientVars, historyVars
  <2> QED  BY <2>2 DEF StepOf
<1>2. CASE AgentStatus
  <2>1. Fanned(a, Note("status"))
    BY <1>0, <1>2, FanShape, NoteType DEF AgentStatus, Kinds
  <2>2. Injected(a)
    BY <2>1, <1>2 DEF AgentStatus, Injected, clientVars, historyVars
  <2> QED  BY <2>2 DEF StepOf
<1>3. CASE FlagExit
  BY <1>3 DEF FlagExit, StepOf, Idle, wireVars, clientVars, historyVars
<1>4. CASE FanExit
  <2>1. Fanned(a, Note("exit"))
    BY <1>0, <1>4, FanShape, NoteType DEF FanExit, Kinds
  <2>2. Injected(a)
    BY <2>1, <1>4 DEF FanExit, Injected, clientVars, historyVars
  <2> QED  BY <2>2 DEF StepOf
<1>5. ASSUME NEW b \in Attachments, HandleReplay(b) PROVE StepOf(a)
  <2> DEFINE peers == {c \in subs : ConnOf[c] = ConnOf[b]}
             awaited == pump[b] = "resync" /\ asks[b] = 1
  <2>1. FencedPeer(a, peers) /\ peers \in SUBSET subs
    BY <1>0, <1>5, FenceShape DEF HandleReplay
  <2>2. /\ SameSub(a) /\ out' = out /\ exit' = exit /\ fence'[a] = fence[a]
        /\ shown'[a] = shown[a] /\ stale'[a] = stale[a]
        /\ hole'[a] = hole[a] /\ twice'[a] = twice[a]
    BY <1>5 DEF HandleReplay
  <2>3. CASE a # b \/ ~awaited
    <3>1. pump'[a] = pump[a] /\ answer'[a] = answer[a]
      BY <2>3, <1>0, <1>5 DEF HandleReplay, TypeOK
    <3>2. astray'[a] = IF a \in peers THEN Stray(a) ELSE astray[a]
      BY <2>3, <1>0, <1>5 DEF HandleReplay
    <3> QED  BY <2>1, <2>2, <3>1, <3>2 DEF StepOf, Strayed
  <2>4. CASE a = b /\ awaited
    <3>1. pump[a] = "resync" /\ pump'[a] = "answered" /\ answer'[a] = out
      BY <2>4, <1>0, <1>5 DEF HandleReplay, TypeOK
    <3>2. DOMAIN pipe[a] = 1..Len(pipe[a])
      BY <1>0 DEF TypeOK
    <3>3. astray'[a] = IF Has(pipe[a], "fence") THEN "mixed" ELSE "no"
      BY <2>4, <1>0, <1>5, <3>2 DEF HandleReplay, Has
    <3>4. a \in subs => a \in peers
      BY <2>4
    <3> QED  BY <2>1, <2>2, <3>1, <3>3, <3>4 DEF StepOf, Answered
  <2> QED  BY <2>3, <2>4
<1>6. ASSUME NEW b \in Attachments,
             Own(b) \/ HandleSpawn(b) \/ SpawnOk(b) \/ Deliver(b) \/ Detach(b)
      PROVE  StepOf(a)
  <2>1. CASE b # a
    BY <2>1, <1>6, OtherStep DEF StepOf
  <2>2. CASE b = a /\ (Own(b) \/ HandleSpawn(b) \/ SpawnOk(b))
    BY <2>2 DEF Phases, StepOf, HandleSpawn, SpawnOk
  <2>3. CASE b = a /\ Deliver(b)
    <3>1. CASE Subscribed(a)
      BY <2>3, <3>1 DEF Deliver, StepOf, Idle, daemonVars, clientVars, historyVars
    <3>2. CASE ~Subscribed(a)
      <4>1. taken[a] < Len(pipe[a]) /\ taken[a] \in Nat /\ pipe[a] # <<>>
        BY <2>3, <1>0 DEF Deliver, TypeOK
      <4>2. pump[a] \in {"ended", "exited"}
        BY <4>1, <3>2, <1>0 DEF Phases, Subscribed, PumpStates
      <4> QED  BY <4>2, <2>3 DEF Deliver, StepOf, Left, daemonVars, clientVars, historyVars
    <3> QED  BY <3>1, <3>2
  <2>4. CASE b = a /\ Detach(b)
    BY <2>4 DEF Detach, StepOf, Left, clientVars, historyVars
  <2> QED  BY <1>6, <2>1, <2>2, <2>3, <2>4
<1>7. CASE UNCHANGED vars
  BY <1>7 DEF vars, StepOf, Idle, wireVars, daemonVars, clientVars, historyVars
<1> QED  BY <1>1, <1>2, <1>3, <1>4, <1>5, <1>6, <1>7 DEF Next, Own

-----------------------------------------------------------------------------
(* A queue and the notifications the daemon adds to it.                    *)

\* A notice makes every promise about what follows it void.
LEMMA NoticeKeeps ==
  ASSUME NEW p \in Queue, NEW u \in Nat, NEW o \in Nat, NEW g, g = Append(p, Note("gap"))
  PROVE  /\ g \in Queue /\ ~NoGap(g, Len(g) + 1)
         /\ Bounded(p, o) => Bounded(g, o)
         /\ Bounded(p, o) /\ Increasing(p) => Increasing(g)
         /\ Has(g, "exit") => Has(p, "exit")
         /\ Bridge(p, u, o) => Bridge(g, u, o)
         /\ Whole(g, u, o) /\ WillEnd(g)
         /\ Covered(p, u) => Covered(g, u)
         /\ AfterFence(p, u) => AfterFence(g, u)
         /\ Fresh(p, u) => Fresh(g, u)
<1> DEFINE e == Note("gap")
<1>1. e \in Notification /\ e.k = "gap"
  BY NoteType DEF Kinds, Note
<1> HIDE DEF e
<1>2. g = Append(p, e)
  BY DEF e
<1>3. g \in Queue /\ ~NoGap(g, Len(g) + 1)
  BY <1>1, <1>2, AppendShape, AppendNoGap
<1>4. /\ Bounded(p, o) => Bounded(g, o)
      /\ Bounded(p, o) /\ Increasing(p) => Increasing(g)
      /\ Has(g, "exit") => Has(p, "exit")
  BY <1>1, <1>2, AppendBounded, AppendIncreasing, AppendHas
<1>5. Bridge(p, u, o) => Bridge(g, u, o)
  BY <1>1, <1>2, AppendBridge
<1>6. Whole(g, u, o) /\ WillEnd(g)
  BY <1>3 DEF Whole, WillEnd
<1>7. Covered(p, u) => Covered(g, u)
  BY <1>1, <1>2, AppendCovered
<1>8. /\ AfterFence(p, u) => AfterFence(g, u)
      /\ Fresh(p, u) => Fresh(g, u)
  BY <1>1, <1>2, AppendAfterFence, AppendFresh
<1> QED  BY <1>3, <1>4, <1>5, <1>6, <1>7, <1>8

\* Until the end is queued, more output changes nothing about what is queued.
LEMMA BridgeGrows ==
  ASSUME NEW p, NEW u, NEW o, NEW n, Bridge(p, u, o), ~Has(p, "exit")
  PROVE  Bridge(p, u, n)
BY DEF Bridge, Has

\* e is the next chunk of a log that grows with it from o to n, or no output.
Joins(e, p, o, n) ==
  \/ e = Output(o + 1) /\ n = o + 1 /\ ~Has(p, "exit")
  \/ e.k \in {"status", "exit"} /\ n = o

\* It joins a queue that lacks nothing.
LEMMA NoteKeeps ==
  ASSUME NEW p \in Queue, NEW u \in Nat, NEW o \in Nat, NEW n \in Nat, u <= o,
         NEW e \in Notification, Joins(e, p, o, n), NEW q, q = Append(p, e)
  PROVE  /\ Bounded(p, o) => Bounded(q, n)
         /\ Bounded(p, o) /\ Increasing(p) => Increasing(q)
         /\ Has(q, "exit") => Has(p, "exit") \/ e.k = "exit"
         /\ Whole(p, u, o) /\ Bridge(p, u, o) => Bridge(q, u, n)
         /\ Whole(p, u, o) => Whole(q, u, n)
         /\ Covered(p, u) /\ WillEnd(p) => Covered(q, u)
         /\ WillEnd(p) => WillEnd(q)
         /\ AfterFence(p, u) => AfterFence(q, u)
         /\ Fresh(p, u) => Fresh(q, u)
<1>1. /\ e.k # "gap" /\ e.k # "fence" /\ n >= o
      /\ e.k = "out" => e = Output(o + 1) /\ e.n = o + 1 /\ n = o + 1
      /\ e.k = "exit" => n = o
  BY DEF Output, Joins
<1>2. Bounded(p, o) => Bounded(q, n)
  <2>1. Bounded(p, o) => Bounded(p, n)
    <3>1. \A j \in 1..Len(p) : p[j].n \in Nat
      BY AppendShape DEF Notification
    <3> QED  BY <1>1, <3>1 DEF Bounded
  <2> QED  BY <1>1, <2>1, AppendBounded
<1>3. Bounded(p, o) /\ Increasing(p) => Increasing(q)
  BY <1>1, AppendIncreasing
<1>4. Has(q, "exit") => Has(p, "exit") \/ e.k = "exit"
  BY AppendHas
<1>5. ASSUME Whole(p, u, o), Bridge(p, u, o) PROVE Bridge(q, u, n)
  <2>1. Bridge(p, u, n)
    BY <1>5, BridgeGrows DEF Joins
  <2>2. NoGap(p, Len(p) + 1) => Spans(p, Len(p) + 1, u, o + 1)
    BY <1>5 DEF Whole
  <2> QED  BY <1>1, <2>1, <2>2, AppendBridge
<1>6. Whole(p, u, o) => Whole(q, u, n)
  <2>1. (e.k # "out" /\ n = o) \/ (e = Output(o + 1) /\ n = o + 1)
    BY <1>1 DEF Joins
  <2> QED  BY <2>1, AppendWhole
<1>7. Covered(p, u) /\ WillEnd(p) => Covered(q, u)
  BY AppendCovered DEF WillEnd, Has
<1>8. WillEnd(p) => WillEnd(q)
  BY AppendWillEnd
<1>9. /\ AfterFence(p, u) => AfterFence(q, u)
      /\ Fresh(p, u) => Fresh(q, u)
  BY <1>1, AppendAfterFence, AppendFresh
<1> QED  BY <1>2, <1>3, <1>4, <1>5, <1>6, <1>7, <1>8, <1>9

\* A fence joins a queue.
LEMMA FenceKeeps ==
  ASSUME NEW p \in Queue, NEW u \in Nat, NEW o \in Nat, NEW q, q = Append(p, Note("fence"))
  PROVE  /\ Bounded(p, o) => Bounded(q, o)
         /\ Bounded(p, o) /\ Increasing(p) => Increasing(q)
         /\ Has(q, "exit") => Has(p, "exit")
         /\ Bridge(p, u, o) => Bridge(q, u, o)
         /\ Whole(p, u, o) => Whole(q, u, o)
         /\ Covered(p, u) => Covered(q, u)
         /\ WillEnd(q)
         /\ AfterFence(p, u) /\ ~Has(p, "fence") => AfterFence(q, u)
<1> DEFINE e == Note("fence")
<1>1. e \in Notification /\ e.k = "fence"
  BY NoteType DEF Kinds, Note
<1> HIDE DEF e
<1>2. q = Append(p, e)
  BY DEF e
<1>4. /\ Bounded(p, o) => Bounded(q, o)
      /\ Bounded(p, o) /\ Increasing(p) => Increasing(q)
      /\ Has(q, "exit") => Has(p, "exit")
  BY <1>1, <1>2, AppendBounded, AppendIncreasing, AppendHas
<1>5. Bridge(p, u, o) => Bridge(q, u, o)
  BY <1>1, <1>2, AppendBridge
<1>6. Whole(p, u, o) => Whole(q, u, o)
  BY <1>1, <1>2, AppendWhole
<1>7. Covered(p, u) => Covered(q, u)
  BY <1>1, <1>2, AppendCovered
<1>8. WillEnd(q)
  BY <1>1, <1>2, AppendWillEnd
<1>9. AfterFence(p, u) /\ ~Has(p, "fence") => AfterFence(q, u)
  BY <1>1, <1>2, AppendAfterFence
<1> QED  BY <1>4, <1>5, <1>6, <1>7, <1>8, <1>9

-----------------------------------------------------------------------------
(* Each kind of step keeps the invariant of one watcher.                   *)

\* What the types say about one watcher.
LEMMA WatcherTypes ==
  ASSUME TypeOK, NEW a \in Watchers
  PROVE  /\ a \in Attachments /\ pipe[a] \in Queue
         /\ out \in Nat /\ shown[a] \in Nat /\ answer[a] \in Nat /\ Base(a) \in Nat
         /\ gapped \subseteq subs /\ pump[a] \in PumpStates
         /\ fence[a] \in {"none", "wait", "late"} /\ astray[a] \in {"no", "mixed", "late"}
         /\ hole[a] \in BOOLEAN /\ twice[a] \in BOOLEAN /\ stale[a] \in BOOLEAN
BY DEF TypeOK, Watchers, Queue, Base

LEMMA BasePublished ==
  ASSUME TypeOK, NEW a \in Watchers, Published(a)
  PROVE  Base(a) <= out
BY DEF Published, Base

\* The client's side decides these.
LEMMA StillMeans ==
  ASSUME NEW a \in Watchers, Still(a)
  PROVE  /\ Base(a)' = Base(a) /\ (Exact(a)' <=> Exact(a))
         /\ (Awaiting(a)' <=> Awaiting(a)) /\ (Watching(a)' <=> Watching(a))
BY DEF Still, Base, Exact, Awaiting, Watching

LEMMA IdleKeeps ==
  ASSUME NEW a \in Watchers, WatcherInv(a), Idle(a)
  PROVE  WatcherInv(a)'
<1> USE DEF Idle, SameMark, SameQueue, SameSub, EndStays
<1>1. Still(a) /\ Base(a)' = Base(a)
  BY StillMeans
<1>2. Published(a)'
  BY StillMeans DEF WatcherInv, Published, Still
<1>3. Phases(a)'
  BY StillMeans DEF WatcherInv, Phases, Still
<1>4. Follows(a)'
  BY StillMeans DEF WatcherInv, Follows
<1>5. Unmixed(a)'
  BY StillMeans DEF WatcherInv, Unmixed, Still
<1> QED  BY <1>2, <1>3, <1>4, <1>5 DEF WatcherInv

\* A fan-out: output when the log grows by it, or something else when it does not.
LEMMA FanKeeps ==
  ASSUME TypeOK, TypeOK', NEW a \in Watchers, WatcherInv(a),
         Still(a), SameMark(a), SameSub(a), NEW e \in Notification, Fanned(a, e),
         \/ e = Output(out + 1) /\ out' = out + 1 /\ exit = "no" /\ exit' = "no"
         \/ /\ e.k \in {"status", "exit"} /\ out' = out /\ EndStays
            /\ e.k = "exit" => exit # "no"
  PROVE  WatcherInv(a)'
<1> DEFINE p == pipe[a]
           q == pipe'[a]
           u == Base(a)
           g == Append(p, Note("gap"))
<1>1. /\ p \in Queue /\ u \in Nat /\ u <= out /\ out \in Nat /\ out' \in Nat /\ out <= out'
      /\ shown[a] \in Nat /\ answer[a] \in Nat /\ gapped \subseteq subs
  BY WatcherTypes, BasePublished DEF WatcherInv
<1>2. /\ u' = u /\ (Exact(a)' <=> Exact(a))
      /\ (Awaiting(a)' <=> Awaiting(a)) /\ (Watching(a)' <=> Watching(a))
  BY StillMeans
<1>3. Watching(a) => a \in subs /\ Bounded(p, out) /\ Increasing(p)
                     /\ (Has(p, "exit") => exit # "no")
  BY DEF WatcherInv, Phases, Published
<1>4. Exact(a) => Watching(a)
  BY DEF Exact, Watching
<1>e. (e = Output(out + 1) /\ out' = out + 1) \/ (e.k \in {"status", "exit"} /\ out' = out)
  OBVIOUS
<1>5. /\ g \in Queue
      /\ Bounded(p, out) => Bounded(g, out)
      /\ Bounded(p, out) /\ Increasing(p) => Increasing(g)
      /\ Has(g, "exit") => Has(p, "exit")
      /\ Bridge(p, u, out) => Bridge(g, u, out)
      /\ Whole(g, u, out) /\ WillEnd(g)
      /\ Covered(p, u) => Covered(g, u)
      /\ AfterFence(p, u) => AfterFence(g, u)
      /\ Fresh(p, u) => Fresh(g, u)
  <2>1. g = Append(p, Note("gap"))
    OBVIOUS
  <2> HIDE DEF g, p, u
  <2> QED  BY <1>1, <2>1, NoticeKeeps
<1> HIDE DEF g
<1>6. ASSUME NEW r \in Queue, NEW r2, r2 = Append(r, e), Has(r, "exit") => Has(p, "exit"),
             Watching(a)
      PROVE  /\ Bounded(r, out) => Bounded(r2, out')
             /\ Bounded(r, out) /\ Increasing(r) => Increasing(r2)
             /\ Has(r2, "exit") => Has(r, "exit") \/ e.k = "exit"
             /\ Whole(r, u, out) /\ Bridge(r, u, out) => Bridge(r2, u, out')
             /\ Whole(r, u, out) => Whole(r2, u, out')
             /\ Covered(r, u) /\ WillEnd(r) => Covered(r2, u)
             /\ WillEnd(r) => WillEnd(r2)
             /\ AfterFence(r, u) => AfterFence(r2, u)
             /\ Fresh(r, u) => Fresh(r2, u)
  <2>1. Joins(e, r, out, out')
    BY <1>3, <1>6 DEF Joins
  <2> HIDE DEF u, p
  <2> QED  BY <1>1, <1>6, <2>1, NoteKeeps
<1>7. ASSUME NEW r \in Queue, Has(r, "exit") => Has(p, "exit"), Watching(a)
      PROVE  /\ Bounded(r, out) => Bounded(r, out')
             /\ Bridge(r, u, out) => Bridge(r, u, out')
  <2>1. \A j \in 1..Len(r) : r[j].n \in Nat
    BY AppendShape, <1>7 DEF Notification, Queue
  <2>2. out' = out \/ ~Has(r, "exit")
    BY <1>3, <1>7
  <2> QED  BY <1>1, <2>1, <2>2, BridgeGrows DEF Bounded
<1>8. Watching(a) =>
        \/ a \in gapped' /\ q = p
        \/ a \in gapped /\ a \in gapped' /\ q = g
        \/ a \notin gapped /\ a \notin gapped' /\ q = Append(p, e)
        \/ a \in gapped /\ a \notin gapped' /\ q = Append(g, e)
  BY <1>3 DEF Fanned, g
<1>9. Watching(a) => /\ Bounded(q, out') /\ Increasing(q)
                     /\ Has(q, "exit") => Has(p, "exit") \/ e.k = "exit"
  BY <1>1, <1>3, <1>5, <1>6, <1>7, <1>8
<1>10. Published(a)'
  <2>1. e.k = "exit" => exit # "no"
    BY DEF Output
  <2> QED  BY <1>1, <1>2, <1>3, <1>9, <2>1 DEF WatcherInv, Published, Still, EndStays
<1>11. Phases(a)'
  <2>1. a \notin subs => q = p
    BY <1>1 DEF Fanned
  <2> QED  BY <1>1, <1>2, <2>1 DEF WatcherInv, Phases, Still, SameSub, EndStays
<1>12. Follows(a)'
  <2> SUFFICES ASSUME Exact(a)
               PROVE  /\ Bridge(q, u, out')
                      /\ a \notin gapped' => Whole(q, u, out')
                      /\ Awaiting(a) => /\ Covered(q, u)
                                        /\ a \notin gapped' => WillEnd(q)
    BY <1>2 DEF Follows
  <2>1. /\ Bridge(p, u, out)
        /\ a \notin gapped => Whole(p, u, out)
        /\ Awaiting(a) => /\ Covered(p, u)
                          /\ a \notin gapped => WillEnd(p)
    BY DEF WatcherInv, Follows
  <2> QED  BY <1>1, <1>4, <1>5, <1>6, <1>7, <1>8, <2>1
<1>13. Unmixed(a)'
  <2> SUFFICES ASSUME Watching(a), astray[a] = "no"
               PROVE  /\ pump[a] \in {"live", "resync"} => ~twice[a]
                      /\ fence[a] = "late" => pump[a] = "answered"
                      /\ Awaiting(a) => AfterFence(q, u)
                      /\ ~Awaiting(a) => Fresh(q, u)
    BY <1>2 DEF Unmixed, Still, SameMark
  <2> QED  BY <1>1, <1>5, <1>6, <1>8 DEF WatcherInv, Unmixed
<1> QED  BY <1>10, <1>11, <1>12, <1>13 DEF WatcherInv

\* A fence for somebody else, or one whose answer nobody waits for.
LEMMA StrayedKeeps ==
  ASSUME TypeOK, TypeOK', NEW a \in Watchers, WatcherInv(a), Strayed(a)
  PROVE  WatcherInv(a)'
<1> DEFINE p == pipe[a]
           q == pipe'[a]
           u == Base(a)
           f == Append(p, Note("fence"))
<1> USE DEF SameSub
<1>1. PICK peers \in SUBSET subs :
        FencedPeer(a, peers) /\ astray'[a] = IF a \in peers THEN Stray(a) ELSE astray[a]
  BY DEF Strayed
<1>2. Still(a) /\ (a \in subs' <=> a \in subs) /\ out' = out /\ exit' = exit
  BY DEF Strayed
<1>3. /\ p \in Queue /\ u \in Nat /\ out \in Nat /\ gapped \subseteq subs
      /\ astray[a] \in {"no", "mixed", "late"}
  BY WatcherTypes
<1>4. /\ u' = u /\ (Exact(a)' <=> Exact(a))
      /\ (Awaiting(a)' <=> Awaiting(a)) /\ (Watching(a)' <=> Watching(a))
  BY <1>2, StillMeans
<1>5. /\ Bounded(p, out) => Bounded(f, out)
      /\ Bounded(p, out) /\ Increasing(p) => Increasing(f)
      /\ Has(f, "exit") => Has(p, "exit")
      /\ Bridge(p, u, out) => Bridge(f, u, out)
      /\ Whole(p, u, out) => Whole(f, u, out)
      /\ Covered(p, u) => Covered(f, u)
      /\ WillEnd(f)
  BY <1>3, FenceKeeps
<1> HIDE DEF f
<1>6. \/ a \notin peers /\ q = p /\ (a \in gapped' <=> a \in gapped)
      \/ a \in peers /\ q = p /\ a \in gapped'
      \/ a \in peers /\ q = f /\ (a \in gapped' <=> a \in gapped)
  BY <1>1 DEF FencedPeer, f
<1>7. Published(a)'
  BY <1>2, <1>4, <1>5, <1>6 DEF WatcherInv, Published, Still
<1>8. Phases(a)'
  BY <1>1, <1>2, <1>4, <1>6 DEF WatcherInv, Phases, Still
<1>9. Follows(a)'
  <2> SUFFICES ASSUME Exact(a)
               PROVE  /\ Bridge(q, u, out)
                      /\ a \notin gapped' => Whole(q, u, out)
                      /\ Awaiting(a) => /\ Covered(q, u)
                                        /\ a \notin gapped' => WillEnd(q)
    BY <1>2, <1>4 DEF Follows
  <2> QED  BY <1>5, <1>6 DEF WatcherInv, Follows
<1>10. Unmixed(a)'
  <2>1. CASE a \in peers
    <3>1. astray'[a] # "no"
      BY <1>1, <2>1 DEF Stray
    <3> QED  BY <3>1 DEF Unmixed
  <2>2. CASE a \notin peers
    <3>1. q = p /\ astray'[a] = astray[a]
      BY <1>1, <1>6, <2>2
    <3> QED  BY <1>2, <1>4, <3>1 DEF WatcherInv, Unmixed, Still
  <2> QED  BY <2>1, <2>2
<1> QED  BY <1>7, <1>8, <1>9, <1>10 DEF WatcherInv

LEMMA QueueElements ==
  ASSUME NEW p \in Queue
  PROVE  Len(p) \in Nat /\ \A j \in 1..Len(p) : p[j] \in Notification /\ p[j].n \in Nat
<1>1. Len(p) \in Nat /\ \A j \in 1..Len(p) : p[j] \in Notification
  BY DEF Queue
<1> QED  BY <1>1 DEF Notification

\* A snapshot that ends with the log covers everything queued.
LEMMA SnapshotCovers ==
  ASSUME NEW p \in Queue, NEW o \in Nat, Bounded(p, o)
  PROVE  Bridge(p, o, o) /\ Whole(p, o, o) /\ Covered(p, o)
<1>1. \A j \in 1..Len(p) : p[j].k = "out" => p[j].n <= o /\ p[j].n \in Nat
  BY QueueElements DEF Bounded
<1>2. Bridge(p, o, o)
  BY <1>1 DEF Bridge, Spans
<1>3. Whole(p, o, o)
  BY DEF Whole, Spans
<1>4. Covered(p, o)
  BY <1>1 DEF Covered
<1> QED  BY <1>2, <1>3, <1>4

\* The snapshot the client waits for: its fence is the last thing queued, unless
\* there was no room, and everything ahead of the fence is in the snapshot.
LEMMA AnsweredKeeps ==
  ASSUME TypeOK, TypeOK', NEW a \in Watchers, WatcherInv(a), Answered(a)
  PROVE  WatcherInv(a)'
<1> DEFINE p == pipe[a]
           q == pipe'[a]
           f == Append(p, Note("fence"))
<1> USE DEF SameSub
<1>1. PICK peers \in SUBSET subs : FencedPeer(a, peers) /\ (a \in subs => a \in peers)
  BY DEF Answered
<1>2. /\ pump[a] = "resync" /\ pump'[a] = "answered" /\ answer'[a] = out
      /\ fence'[a] = fence[a] /\ shown'[a] = shown[a] /\ stale'[a] = stale[a]
      /\ hole'[a] = hole[a] /\ twice'[a] = twice[a]
      /\ (a \in subs' <=> a \in subs) /\ out' = out /\ exit' = exit
      /\ astray'[a] = IF Has(p, "fence") THEN "mixed" ELSE "no"
  BY DEF Answered
<1>3. p \in Queue /\ out \in Nat /\ a \in subs /\ a \in peers
  BY <1>1, <1>2, WatcherTypes DEF WatcherInv, Phases, Watching
<1>4. Bounded(p, out) /\ Increasing(p) /\ (Has(p, "exit") => exit # "no") /\ shown[a] <= out
  BY <1>2 DEF WatcherInv, Published, Watching
<1>5. /\ Bridge(p, out, out) /\ Whole(p, out, out) /\ Covered(p, out)
      /\ ~Has(p, "fence") => AfterFence(p, out)
  BY <1>3, <1>4, SnapshotCovers DEF AfterFence, Has
<1>6. /\ Bounded(f, out) /\ Increasing(f) /\ (Has(f, "exit") => Has(p, "exit"))
      /\ Bridge(f, out, out) /\ Whole(f, out, out) /\ Covered(f, out) /\ WillEnd(f)
      /\ ~Has(p, "fence") => AfterFence(f, out)
  BY <1>3, <1>4, <1>5, FenceKeeps
<1>7. (q = p /\ a \in gapped') \/ q = f
  BY <1>1, <1>3 DEF FencedPeer
<1> HIDE DEF f
<1>8. Base(a)' = out /\ Watching(a)' /\ Exact(a)' /\ Awaiting(a)'
  BY <1>2 DEF Base, Watching, Exact, Awaiting
<1>9. Published(a)'
  BY <1>2, <1>3, <1>4, <1>6, <1>7 DEF Published
<1>10. Phases(a)'
  BY <1>2, <1>3 DEF Phases, WatcherInv, Watching
<1>11. Follows(a)'
  BY <1>2, <1>5, <1>6, <1>7, <1>8 DEF Follows
<1>12. Unmixed(a)'
  BY <1>2, <1>5, <1>6, <1>7, <1>8 DEF Unmixed
<1> QED  BY <1>9, <1>10, <1>11, <1>12 DEF WatcherInv

\* A client that is gone is shown nothing more.
LEMMA LeftKeeps ==
  ASSUME NEW a \in Watchers, WatcherInv(a), Left(a)
  PROVE  WatcherInv(a)'
<1>1. /\ pump'[a] = pump[a] /\ pump[a] \in {"ended", "exited"}
      /\ ~Watching(a)' /\ ~Exact(a)' /\ ~Watching(a)
  BY DEF Left, Still, Watching, Exact
<1>2. Published(a)'
  BY <1>1 DEF WatcherInv, Published, Left, Still
<1>3. Phases(a)'
  BY <1>1 DEF WatcherInv, Phases, Left, Still
<1>4. Follows(a)' /\ Unmixed(a)'
  BY <1>1 DEF Follows, Unmixed
<1> QED  BY <1>2, <1>3, <1>4 DEF WatcherInv

-----------------------------------------------------------------------------
(* The steps of the watcher itself.                                        *)

LEMMA JoiningKeeps ==
  ASSUME TypeOK, TypeOK', NEW a \in Watchers, WatcherInv(a),
         SendAttach(a) \/ HandleAttach(a) \/ AttachOk(a)
  PROVE  WatcherInv(a)'
<1> USE DEF WatcherInv
<1>0. a \in Attachments /\ pump \in [Attachments -> PumpStates]
      /\ answer \in [Attachments -> Nat] /\ shown \in [Attachments -> Nat]
      /\ pipe \in [Attachments -> Queue] /\ out \in Nat /\ gapped \subseteq subs
  BY DEF TypeOK, Watchers, Queue
<1>1. CASE SendAttach(a)
  <2>1. /\ pump[a] = "off" /\ pump'[a] = "asking"
        /\ UNCHANGED <<daemonVars, wireVars, fence, answer, shown, historyVars>>
    BY <1>0, <1>1 DEF SendAttach
  <2>2. ~Watching(a)' /\ ~Exact(a)' /\ Phases(a)' /\ Published(a)'
    BY <2>1 DEF Watching, Exact, Phases, Published, daemonVars, wireVars, historyVars
  <2> QED  BY <2>2 DEF Follows, Unmixed
<1>2. CASE HandleAttach(a)
  <2> DEFINE q == pipe'[a]
  <2>1. /\ pump[a] \in {"asking", "gaveup"}
        /\ pump'[a] = IF pump[a] = "asking" THEN "granted" ELSE "ended"
        /\ answer'[a] = out /\ subs' = subs \cup {a} /\ gapped' = gapped
        /\ UNCHANGED <<out, exit, fence, shown, historyVars>>
        /\ q = IF exit # "no" /\ Room(ConnOf[a]) > 0
               THEN Append(pipe[a], Note("exit")) ELSE pipe[a]
    BY <1>0, <1>2 DEF HandleAttach, Subscribe
  <2>2. a \notin subs /\ pipe[a] = <<>> /\ fence[a] = "none" /\ ~twice[a] /\ ~hole[a]
        /\ shown[a] <= out
    BY <2>1 DEF Phases, Published
  <2>3. q \in Queue
    BY <1>0 DEF TypeOK, Queue
  <2>4. /\ \A j \in 1..Len(q) : j = 1 /\ q[j].k = "exit"
        /\ Len(q) # 0 => exit # "no"
    <3>1. CASE exit # "no" /\ Room(ConnOf[a]) > 0
      <4>1. q = <<Note("exit")>>
        BY <2>1, <2>2, <3>1
      <4> QED  BY <4>1, <3>1 DEF Note
    <3>2. CASE ~(exit # "no" /\ Room(ConnOf[a]) > 0)
      <4>1. q = <<>>
        BY <2>1, <2>2, <3>2
      <4> QED  BY <4>1
    <3> QED  BY <3>1, <3>2
  <2> HIDE DEF q
  <2>5. /\ Bounded(q, out) /\ Increasing(q) /\ Fresh(q, out)
        /\ Has(q, "exit") => exit # "no"
    BY <2>3, <2>4, QueueElements DEF Bounded, Increasing, Fresh, Has
  <2>6. Bridge(q, out, out) /\ Whole(q, out, out)
    BY <1>0, <2>3, <2>5, SnapshotCovers
  <2>7. Published(a)'
    BY <1>0, <2>1, <2>2, <2>5 DEF Published, q
  <2>8. Phases(a)'
    BY <2>1, <2>2 DEF Phases, Watching, historyVars
  <2>9. Base(a)' = out \/ pump'[a] = "ended"
    BY <2>1 DEF Base
  <2>10. Follows(a)'
    BY <2>1, <2>2, <2>6, <2>9 DEF Follows, Exact, Awaiting, q
  <2>11. Unmixed(a)'
    BY <2>1, <2>2, <2>5, <2>9 DEF Unmixed, Watching, Awaiting, q
  <2> QED  BY <2>7, <2>8, <2>10, <2>11
<1>3. CASE AttachOk(a)
  <2>1. /\ pump[a] = "granted" /\ pump'[a] = "live" /\ shown'[a] = answer[a]
        /\ answer' = answer /\ fence' = fence
        /\ UNCHANGED <<daemonVars, wireVars, historyVars>>
    BY <1>0, <1>3 DEF AttachOk
  <2>2. /\ Base(a)' = answer[a] /\ Base(a) = answer[a] /\ Exact(a) /\ Watching(a)
        /\ fence[a] = "none" /\ ~twice[a] /\ ~hole[a] /\ ~Awaiting(a) /\ ~Awaiting(a)'
    BY <2>1 DEF Base, Exact, Watching, Awaiting, Phases
  <2>3. Published(a)'
    BY <2>1, <2>2 DEF Published, Watching, wireVars, daemonVars
  <2>4. Phases(a)'
    BY <2>1, <2>2 DEF Phases, Watching, wireVars, daemonVars, historyVars
  <2>5. Follows(a)'
    BY <2>1, <2>2 DEF Follows, wireVars, daemonVars
  <2>6. Unmixed(a)'
    BY <2>1, <2>2 DEF Unmixed, wireVars, historyVars
  <2> QED  BY <2>3, <2>4, <2>5, <2>6
<1> QED  BY <1>1, <1>2, <1>3

LEMMA PartingKeeps ==
  ASSUME TypeOK, TypeOK', Inbox, NEW a \in Watchers, WatcherInv(a),
         AttachFails(a) \/ Leave(a) \/ PumpExit(a)
  PROVE  WatcherInv(a)'
<1> USE DEF WatcherInv
<1> DEFINE p == pipe[a]
<1>0. a \in Attachments /\ pump \in [Attachments -> PumpStates]
      /\ p \in Queue /\ out \in Nat /\ shown[a] \in Nat /\ taken[a] \in Nat
      /\ pipe \in [Attachments -> Queue]
  BY DEF TypeOK, Watchers, Queue
<1>1. /\ UNCHANGED <<out, exit, subs, gapped, fence, answer, shown, historyVars>>
      /\ pump'[a] \in {"gaveup", "ended", "exited"}
      /\ pump'[a] = "gaveup" => AttachFails(a) /\ pump[a] = "asking"
      /\ pump'[a] = "exited" => PumpExit(a) /\ pump[a] = "live" /\ taken[a] > 0
                                /\ Head(p).k = "exit"
      /\ pipe'[a] = SubSeq(p, taken[a] + 1, Len(p))
  BY <1>0 DEF AttachFails, Leave, PumpExit, Forget, daemonVars
<1>2. ~Watching(a)' /\ ~Exact(a)'
  BY <1>1 DEF Watching, Exact
<1>3. Published(a)'
  BY <1>1, <1>2 DEF Published
<1>4. ASSUME pump'[a] = "gaveup" PROVE a \notin subs /\ pipe'[a] = <<>>
  <2>1. a \notin subs /\ p = <<>>
    BY <1>1, <1>4 DEF Phases
  <2> QED  BY <2>1, <1>0, <1>1
<1>5. ASSUME pump'[a] = "exited" PROVE exit # "no" /\ (~stale[a] => shown[a] = out)
  <2>1. p # <<>> /\ pump[a] = "live" /\ Head(p) = p[1] /\ 1 \in 1..Len(p) /\ p[1].k = "exit"
    BY <1>0, <1>1, <1>5, TailShape DEF Inbox
  <2>2. exit # "no" /\ shown[a] <= out
    BY <2>1 DEF Published, Has, Watching
  <2>3. ASSUME ~stale[a] PROVE shown[a] = out
    <3>1. Bridge(p, shown[a], out)
      BY <2>1, <2>3 DEF Follows, Exact, Base
    <3>2. NoGap(p, 1)
      BY DEF NoGap
    <3>3. Spans(p, 1, shown[a], out + 1)
      BY <2>1, <3>1, <3>2 DEF Bridge
    <3>4. ~(shown[a] < out)
      BY <1>0, <3>3 DEF Spans
    <3> QED  BY <1>0, <2>2, <3>4
  <2> QED  BY <2>2, <2>3
<1>6. Phases(a)'
  BY <1>1, <1>2, <1>4, <1>5 DEF Phases, historyVars
<1> QED  BY <1>2, <1>3, <1>6 DEF Follows, Unmixed

LEMMA OutputKeeps ==
  ASSUME TypeOK, TypeOK', Inbox, NEW a \in Watchers, WatcherInv(a), PumpOutput(a)
  PROVE  WatcherInv(a)'
<1> USE DEF WatcherInv
<1> DEFINE p == pipe[a]
           q == Tail(p)
           u == shown[a]
           n == Head(p).n
           draws == Head(p).k = "out" /\ fence[a] # "wait"
           v == IF draws /\ n > u THEN n ELSE u
<1>0. /\ a \in Attachments /\ p \in Queue /\ out \in Nat /\ u \in Nat
      /\ hole[a] \in BOOLEAN /\ twice[a] \in BOOLEAN /\ stale[a] \in BOOLEAN
      /\ fence[a] \in {"none", "wait", "late"}
  BY WatcherTypes
<1>t. Take(a, {"out", "status"})
  BY DEF PumpOutput
<1>1. /\ p # <<>> /\ Head(p) = p[1] /\ 1 \in 1..Len(p) /\ n \in Nat /\ pipe'[a] = q
      /\ Head(p).k \in {"out", "status"} /\ pump[a] = "live"
      /\ UNCHANGED <<out, exit, subs, gapped>>
  <2>1. p # <<>> /\ pipe'[a] = q /\ Head(p) \in Notification
    BY <1>0, <1>t, TakeShape
  <2> QED  BY <1>0, <1>t, <2>1, TailShape DEF Take, Notification, daemonVars
<1>2. /\ shown'[a] = v /\ hole'[a] = (hole[a] \/ (draws /\ n > u + 1))
      /\ twice'[a] = (twice[a] \/ (draws /\ n <= u))
      /\ fence'[a] = IF fence[a] = "wait" THEN "wait" ELSE "none"
      /\ pump'[a] = pump[a] /\ answer'[a] = answer[a] /\ stale'[a] = stale[a]
      /\ astray'[a] = astray[a]
  BY <1>0 DEF PumpOutput, TypeOK
<1>3. /\ Base(a) = u /\ Base(a)' = v /\ Watching(a) /\ Watching(a)'
      /\ (Awaiting(a) <=> fence[a] = "wait") /\ (Awaiting(a)' <=> fence[a] = "wait")
      /\ (Exact(a) <=> ~stale[a]) /\ (Exact(a)' <=> ~stale[a])
  BY <1>1, <1>2 DEF Base, Watching, Awaiting, Exact
<1>4. /\ Bounded(p, out) /\ Increasing(p) /\ u <= out /\ answer[a] <= out
      /\ (Has(p, "exit") => exit # "no")
      /\ Head(p).k = "out" => n <= out
  <2>1. Bounded(p, out) /\ Increasing(p) /\ u <= out /\ answer[a] <= out
        /\ (Has(p, "exit") => exit # "no")
    BY <1>1, <1>3 DEF Published
  <2> QED  BY <1>1, <2>1 DEF Bounded
<1>5. v \in Nat /\ u <= v /\ v <= out
  BY <1>0, <1>1, <1>4
<1>6. Published(a)'
  BY <1>0, <1>1, <1>2, <1>4, <1>5, TailSimple DEF Published
<1>n. NoGap(p, 1) /\ Head(p).k # "gap" /\ Head(p).k # "fence"
  BY <1>1 DEF NoGap
<1>7. ASSUME ~stale[a], Head(p).k = "out"
      PROVE  /\ n <= u + 1
             /\ fence[a] = "wait" => n <= u
  <2>1. Bridge(p, u, out) /\ (fence[a] = "wait" => Covered(p, u))
    BY <1>3, <1>7 DEF Follows
  <2>2. Spans(p, 1, u, n)
    BY <1>1, <1>n, <1>7, <2>1 DEF Bridge
  <2>3. ~(u + 1 < n)
    BY <1>0, <1>1, <2>2 DEF Spans
  <2>4. fence[a] = "wait" => n <= u
    BY <1>1, <1>n, <1>7, <2>1 DEF Covered
  <2> QED  BY <1>0, <1>1, <2>3, <2>4
<1>8. Phases(a)'
  <2>1. hole'[a] => stale'[a]
    BY <1>0, <1>1, <1>2, <1>7 DEF Phases
  <2> QED  BY <1>1, <1>2, <1>3, <2>1 DEF Phases
<1>9. Follows(a)'
  <2> SUFFICES ASSUME ~stale[a]
               PROVE  /\ Bridge(q, v, out)
                      /\ a \notin gapped => Whole(q, v, out)
                      /\ fence[a] = "wait" => /\ Covered(q, v)
                                              /\ a \notin gapped => WillEnd(q)
    BY <1>1, <1>3 DEF Follows
  <2>1. /\ Bridge(p, u, out)
        /\ a \notin gapped => Whole(p, u, out)
        /\ fence[a] = "wait" => /\ Covered(p, u)
                                /\ a \notin gapped => WillEnd(p)
    BY <1>3 DEF Follows
  <2>2. \A m \in Nat : Head(p) = Output(m) => m <= v
    <3> SUFFICES ASSUME NEW m \in Nat, Head(p) = Output(m) PROVE m <= v
      OBVIOUS
    <3>1. Head(p).k = "out" /\ n = m
      BY DEF Output
    <3> QED  BY <1>0, <1>1, <1>7, <3>1
  <2>3. /\ Bridge(p, u, out) => Bridge(q, v, out)
        /\ Whole(p, u, out) => Whole(q, v, out)
    BY <1>0, <1>1, <1>5, <1>n, <2>2, TailBridge
  <2>4. /\ Covered(p, u) => Covered(q, u)
        /\ WillEnd(p) => WillEnd(q)
    BY <1>0, <1>1, <1>n, TailCovered
  <2>5. fence[a] = "wait" => v = u
    OBVIOUS
  <2> QED  BY <2>1, <2>3, <2>4, <2>5
<1>10. Unmixed(a)'
  <2> SUFFICES ASSUME astray[a] = "no"
               PROVE  /\ ~twice'[a] /\ fence'[a] # "late"
                      /\ fence[a] = "wait" => AfterFence(q, v)
                      /\ fence[a] # "wait" => Fresh(q, v)
    BY <1>1, <1>2, <1>3 DEF Unmixed
  <2>1. /\ ~twice[a]
        /\ fence[a] = "wait" => AfterFence(p, u)
        /\ fence[a] # "wait" => Fresh(p, u)
    BY <1>1, <1>3 DEF Unmixed
  <2>2. fence[a] = "wait" => v = u /\ AfterFence(q, u)
    BY <1>0, <1>1, <2>1, TailSimple
  <2>3. ASSUME fence[a] # "wait" PROVE Fresh(q, v) /\ ~twice'[a]
    <3>1. CASE Head(p).k = "out"
      <4>1. n > u
        BY <1>1, <2>1, <2>3, <3>1 DEF Fresh
      <4>2. v = n /\ Fresh(q, n)
        BY <1>0, <1>1, <1>4, <2>1, <2>3, <3>1, <4>1, TailNewer
      <4>3. ~(n <= u)
        BY <1>0, <1>1, <4>1
      <4> QED  BY <1>2, <2>1, <4>2, <4>3
    <3>2. CASE Head(p).k # "out"
      <4>1. v = u /\ Fresh(q, u)
        BY <1>0, <1>1, <2>1, <2>3, <3>2, TailSimple
      <4> QED  BY <1>2, <2>1, <3>2, <4>1
    <3> QED  BY <3>1, <3>2
  <2>4. ~twice'[a] /\ fence'[a] # "late"
    BY <1>2, <2>1, <2>3
  <2> QED  BY <2>2, <2>3, <2>4
<1> QED  BY <1>6, <1>8, <1>9, <1>10

LEMMA FenceTaken ==
  ASSUME TypeOK, TypeOK', Inbox, NEW a \in Watchers, WatcherInv(a),
         PumpFence(a) \/ PumpGap(a)
  PROVE  WatcherInv(a)'
<1> USE DEF WatcherInv
<1> DEFINE p == pipe[a]
           q == Tail(p)
           u == shown[a]
<1>0. a \in Attachments /\ p \in Queue /\ out \in Nat /\ u \in Nat
  BY WatcherTypes
<1>t. PICK kinds \in {{"fence"}, {"gap"}} : Take(a, kinds) /\ Head(p).k \in kinds
  BY DEF PumpFence, PumpGap, Take
<1>1. /\ p # <<>> /\ Head(p) = p[1] /\ 1 \in 1..Len(p) /\ pipe'[a] = q /\ pump[a] = "live"
      /\ UNCHANGED <<out, exit, subs, gapped>>
  <2>1. p # <<>> /\ pipe'[a] = q
    BY <1>0, <1>t, TakeShape
  <2> QED  BY <1>0, <1>t, <2>1, TailShape DEF Take, daemonVars
<1>2. /\ shown' = shown /\ answer' = answer /\ hole' = hole /\ twice' = twice
      /\ stale' = stale /\ astray' = astray
      /\ \/ Head(p).k = "fence" /\ fence'[a] = "none" /\ pump'[a] = "live"
         \/ Head(p).k = "gap" /\ fence'[a] = fence[a] /\ pump'[a] = "resync"
  <2>1. CASE PumpFence(a)
    BY <1>0, <1>1, <2>1 DEF PumpFence, Take, TypeOK, historyVars
  <2>2. CASE PumpGap(a)
    BY <1>0, <1>1, <2>2 DEF PumpGap, Take, TypeOK, historyVars
  <2> QED  BY <2>1, <2>2
<1>3. /\ Base(a) = u /\ Base(a)' = u /\ Watching(a) /\ Watching(a)'
      /\ (Awaiting(a) <=> fence[a] = "wait") /\ (Awaiting(a)' <=> fence'[a] = "wait")
      /\ (Exact(a) <=> ~stale[a])
  BY <1>1, <1>2 DEF Base, Watching, Awaiting, Exact
<1>4. /\ Bounded(p, out) => Bounded(q, out)
      /\ Increasing(p) => Increasing(q)
      /\ Has(q, "exit") => Has(p, "exit")
      /\ AfterFence(p, u) => AfterFence(q, u)
      /\ Fresh(p, u) => Fresh(q, u)
  BY <1>0, <1>1, TailSimple
<1>5. Published(a)'
  BY <1>1, <1>2, <1>3, <1>4 DEF Published
<1>6. Phases(a)'
  BY <1>1, <1>2, <1>3 DEF Phases
<1>7. Follows(a)'
  <2> SUFFICES ASSUME Exact(a)'
               PROVE  /\ Bridge(q, u, out) /\ ~Awaiting(a)'
                      /\ a \notin gapped => Whole(q, u, out)
    BY <1>1, <1>2, <1>3 DEF Follows
  <2>1. Head(p).k = "fence" /\ fence'[a] = "none" /\ Exact(a)
    BY <1>1, <1>2 DEF Exact
  <2>2. Bridge(p, u, out) /\ (a \notin gapped => Whole(p, u, out))
    BY <1>3, <2>1 DEF Follows
  <2>3. \A m \in Nat : Head(p) # Output(m)
    BY <2>1 DEF Output
  <2> QED  BY <1>0, <1>1, <1>3, <2>1, <2>2, <2>3, TailBridge
<1>8. Unmixed(a)'
  <2> SUFFICES ASSUME astray[a] = "no"
               PROVE  /\ ~twice[a] /\ fence'[a] # "late"
                      /\ fence'[a] = "wait" => AfterFence(q, u)
                      /\ fence'[a] # "wait" => Fresh(q, u)
    BY <1>1, <1>2, <1>3 DEF Unmixed
  <2>1. /\ ~twice[a] /\ fence[a] # "late"
        /\ fence[a] = "wait" => AfterFence(p, u)
        /\ fence[a] # "wait" => Fresh(p, u)
    BY <1>1, <1>3 DEF Unmixed
  <2>2. AfterFence(p, u) /\ Head(p).k = "fence" => Fresh(q, u)
    BY <1>0, <1>1, TailFence
  <2> QED  BY <1>2, <1>4, <2>1, <2>2
<1> QED  BY <1>5, <1>6, <1>7, <1>8

LEMMA ResyncKeeps ==
  ASSUME TypeOK, TypeOK', NEW a \in Watchers, WatcherInv(a),
         ReplayOk(a) \/ ReplayFails(a) \/ FenceExpires(a)
  PROVE  WatcherInv(a)'
<1> USE DEF WatcherInv
<1>0. /\ a \in Attachments /\ answer[a] \in Nat /\ shown[a] \in Nat /\ out \in Nat
      /\ astray[a] \in {"no", "mixed", "late"}
  BY WatcherTypes
<1>1. CASE ReplayOk(a)
  <2>1. /\ pump[a] = "answered" /\ pump'[a] = "live" /\ shown'[a] = answer[a]
        /\ fence'[a] = "wait" /\ ~hole'[a] /\ ~twice'[a] /\ ~stale'[a]
        /\ UNCHANGED <<out, exit, subs, gapped, pipe, answer, astray>>
    BY <1>0, <1>1 DEF ReplayOk, TypeOK, daemonVars, wireVars
  <2>2. /\ Base(a)' = Base(a) /\ Base(a) = answer[a] /\ Exact(a) /\ Watching(a)
        /\ Watching(a)' /\ Awaiting(a) /\ Awaiting(a)'
    BY <2>1 DEF Base, Exact, Watching, Awaiting
  <2>3. Published(a)'
    BY <2>1, <2>2 DEF Published
  <2>4. Phases(a)'
    BY <2>1, <2>2 DEF Phases
  <2>5. Follows(a)'
    BY <2>1, <2>2 DEF Follows
  <2>6. Unmixed(a)'
    BY <2>1, <2>2 DEF Unmixed
  <2> QED  BY <2>3, <2>4, <2>5, <2>6
<1>2. CASE ReplayFails(a)
  <2>1. /\ pump[a] \in {"resync", "answered"} /\ pump'[a] = "live" /\ stale'[a]
        /\ astray'[a] = IF pump[a] = "answered" THEN Stray(a) ELSE astray[a]
        /\ UNCHANGED <<out, exit, subs, gapped, pipe, fence, answer, shown, hole, twice>>
    BY <1>0, <1>2 DEF ReplayFails, TypeOK, daemonVars, wireVars
  <2>2. /\ Base(a)' = shown[a] /\ ~Exact(a)' /\ Watching(a) /\ Watching(a)'
        /\ (Awaiting(a)' <=> fence[a] = "wait")
    BY <2>1 DEF Base, Exact, Watching, Awaiting
  <2>3. Published(a)'
    BY <2>1, <2>2 DEF Published
  <2>4. Phases(a)'
    BY <2>1, <2>2 DEF Phases
  <2>5. Unmixed(a)'
    <3>1. CASE pump[a] = "answered"
      BY <1>0, <2>1, <3>1 DEF Unmixed, Stray
    <3>2. CASE pump[a] = "resync"
      <4>1. Base(a) = shown[a] /\ (Awaiting(a) <=> fence[a] = "wait") /\ astray'[a] = astray[a]
        BY <2>1, <3>2 DEF Base, Awaiting
      <4> QED  BY <2>1, <2>2, <3>2, <4>1 DEF Unmixed
    <3> QED  BY <2>1, <3>1, <3>2
  <2> QED  BY <2>2, <2>3, <2>4, <2>5 DEF Follows
<1>3. CASE FenceExpires(a)
  <2>1. /\ fence[a] = "wait" /\ fence'[a] = "late" /\ astray'[a] = "late"
        /\ UNCHANGED <<out, exit, subs, gapped, pipe, pump, answer, shown, hole, twice, stale>>
    BY <1>0, <1>3 DEF FenceExpires, TypeOK, daemonVars, wireVars
  <2>2. /\ Base(a)' = Base(a) /\ (Exact(a)' <=> Exact(a)) /\ (Watching(a)' <=> Watching(a))
        /\ Awaiting(a)
    BY <2>1 DEF Base, Exact, Watching, Awaiting
  <2>3. Published(a)'
    BY <2>1, <2>2 DEF Published
  <2>4. Phases(a)'
    BY <2>1, <2>2 DEF Phases
  <2>5. Follows(a)'
    BY <2>1, <2>2 DEF Follows
  <2>6. Unmixed(a)'
    BY <2>1 DEF Unmixed
  <2> QED  BY <2>3, <2>4, <2>5, <2>6
<1> QED  BY <1>1, <1>2, <1>3

-----------------------------------------------------------------------------
(* The theorems.                                                           *)

\* Nobody watches and nothing is queued at the start.
LEMMA InitInv == Init => Inv
<1> SUFFICES ASSUME Init PROVE Inv
  OBVIOUS
<1>1. TypeOK /\ Inbox
  BY ConstantsAssumption DEF Init, TypeOK, Inbox, PumpStates, Notification
<1>2. ASSUME NEW a \in Watchers PROVE WatcherInv(a)
  <2>1. /\ pump[a] = "off" /\ shown[a] = 0 /\ answer[a] = 0 /\ out = 0 /\ subs = {}
        /\ pipe[a] = <<>> /\ fence[a] = "none" /\ ~hole[a] /\ ~twice[a]
    BY <1>1 DEF Init, Watchers
  <2>2. ~Watching(a) /\ ~Exact(a)
    BY <2>1 DEF Watching, Exact
  <2> QED  BY <2>1, <2>2 DEF WatcherInv, Published, Phases, Follows, Unmixed
<1> QED  BY <1>1, <1>2 DEF Inv

LEMMA StepInv == Inv /\ [Next]_vars => Inv'
<1> SUFFICES ASSUME Inv, [Next]_vars PROVE Inv'
  OBVIOUS
<1>1. TypeOK /\ Inbox /\ TypeOK' /\ Inbox'
  BY TypeStep DEF Inv
<1>2. ASSUME NEW a \in Watchers PROVE WatcherInv(a)'
  <2>0. WatcherInv(a) /\ Phases(a)
    BY DEF Inv, WatcherInv
  <2>1. StepOf(a)
    BY <1>1, <2>0, Steps
  <2>2. CASE Idle(a)
    BY <2>0, <2>2, IdleKeeps
  <2>3. CASE Wrote(a)
    <3>1. Output(out + 1) \in Notification
      BY <1>1, NoteType DEF TypeOK
    <3> QED  BY <1>1, <2>0, <2>3, <3>1, FanKeeps DEF Wrote
  <2>4. CASE Injected(a)
    <3>1. PICK kind \in {"status", "exit"} : Fanned(a, Note(kind)) /\ (kind = "exit" => exit # "no")
      BY <2>4 DEF Injected
    <3>2. Note(kind) \in Notification /\ Note(kind).k = kind
      BY NoteType DEF Kinds, Note
    <3> QED  BY <1>1, <2>0, <2>4, <3>1, <3>2, FanKeeps DEF Injected
  <2>5. CASE Strayed(a)
    BY <1>1, <2>0, <2>5, StrayedKeeps
  <2>6. CASE Answered(a)
    BY <1>1, <2>0, <2>6, AnsweredKeeps
  <2>7. CASE Left(a)
    BY <2>0, <2>7, LeftKeeps
  <2>8. CASE Own(a)
    BY <1>1, <2>0, <2>8, JoiningKeeps, PartingKeeps, OutputKeeps, FenceTaken, ResyncKeeps
       DEF Own
  <2> QED  BY <2>1, <2>2, <2>3, <2>4, <2>5, <2>6, <2>7, <2>8 DEF StepOf
<1> QED  BY <1>1, <1>2 DEF Inv

\* The invariant holds for any number of watchers, any queue and any output.
THEOREM InvHolds == Spec => []Inv
BY InitInv, StepInv, PTL DEF Spec

\* Output is applied past a missing chunk only on a screen whose last resync
\* failed: the notice of a drop comes before the output that follows it.
THEOREM HolesAreKnown == Spec => []NoSilentHole
<1>1. Inv => NoSilentHole
  BY DEF Inv, Watchers, WatcherInv, Phases, NoSilentHole
<1> QED  BY <1>1, InvHolds, PTL

\* Output is applied again only when another fence than its own reached the
\* client first, or its own came too late.
THEOREM RepeatsAreAstray == Spec => []RepeatsOnlyAstray
<1>1. Inv => RepeatsOnlyAstray
  <2> SUFFICES ASSUME Inv, NEW a \in Attachments \ Spawners, pump[a] = "live", twice[a]
               PROVE  astray[a] # "no"
    BY DEF RepeatsOnlyAstray
  <2> QED  BY DEF Inv, Watchers, WatcherInv, Unmixed, Watching
<1> QED  BY <1>1, InvHolds, PTL

\* A live client with an empty queue and no gap on record shows the whole log.
THEOREM SettledIsCurrent == Spec => []SettledMeansCurrent
<1>1. Inv => SettledMeansCurrent
  <2> SUFFICES ASSUME Inv, NEW a \in subs \ Spawners,
                      pump[a] = "live", a \notin gapped, pipe[a] = <<>>, ~stale[a]
               PROVE  shown[a] = out
    BY DEF SettledMeansCurrent
  <2>1. a \in Watchers /\ WatcherInv(a) /\ shown[a] \in Nat /\ out \in Nat /\ shown[a] <= out
    BY WatcherTypes DEF Inv, Watchers, TypeOK, WatcherInv, Published
  <2>2. Whole(pipe[a], shown[a], out)
    BY <2>1 DEF WatcherInv, Follows, Exact, Base
  <2>3. NoGap(pipe[a], Len(pipe[a]) + 1) /\ Spans(pipe[a], Len(pipe[a]) + 1, shown[a], out + 1)
    BY <2>2 DEF Whole, NoGap
  <2>4. ~(shown[a] < out)
    BY <2>1, <2>3 DEF Spans
  <2> QED  BY <2>1, <2>4
<1> QED  BY <1>1, InvHolds, PTL

\* A pane that learnt of the child's end shows its last output.
THEOREM ExitIsLast == Spec => []ExitShowsEverything
<1>1. Inv => ExitShowsEverything
  BY DEF Inv, Watchers, WatcherInv, Phases, ExitShowsEverything
<1> QED  BY <1>1, InvHolds, PTL

=============================================================================
