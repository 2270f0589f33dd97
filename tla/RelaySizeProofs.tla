--------------------------- MODULE RelaySizeProofs ---------------------------
(***************************************************************************)
(* Theorems about RelaySize, for any attachments on any connections, any   *)
(* sizes, and any number of resends and requests.                          *)
(***************************************************************************)
EXTENDS RelaySize, WellFoundedInduction, TLAPS

Enrolling(a) == doing[ConnOf[a]].at = "enroll" /\ doing[ConnOf[a]].a = a
Early(a) == pane[a] = "off" \/ Ask("attach", a, 0, 0) \in sent \/ Enrolling(a)
Quiet == \A c \in Conns : doing[c] = Idle

-----------------------------------------------------------------------------
(* The parts of the invariant.                                             *)

\* A handler serves its own connection's panes, and no size it has is 0.
Handled ==
  /\ \A c \in Conns : doing[c] # Idle =>
       ConnOf[doing[c].a] = c /\ (doing[c].at # "measure" => doing[c].s # 0)
  /\ \A t \in tasks : t.size # 0
  /\ \A r \in sent : r.op = "attach" => r = Ask("attach", r.a, 0, 0)

\* Each attachment is asked for once, and until it is enrolled nothing speaks of it.
Fresh ==
  \A a \in Attachments :
    /\ ~ (Ask("attach", a, 0, 0) \in sent /\ Enrolling(a))
    /\ pane[a] = "off" => Ask("attach", a, 0, 0) \notin sent /\ ~Enrolling(a)
    /\ Early(a) => /\ pane[a] \notin {"on", "left"}
                   /\ a \notin DOMAIN votes /\ a \notin owned
                   /\ \A r \in sent : r.a = a => r.op = "attach"

\* What a pane that did not detach has at the daemon is on its connection's list.
Listed ==
  \A a \in Attachments :
    /\ pane[a] \in {"asking", "given", "on"} => ConnOf[a] \in up
    /\ pane[a] # "left" =>
         /\ \A r \in sent : r.a = a => r.op # "detach"
         /\ a \in DOMAIN votes \/ pane[a] = "on" \/ (\E r \in sent : r.a = a /\ r.op = "resize")
            => a \in owned

\* Between a change of the votes and the size it leads to: a handler is about to
\* measure, or one has the newest outcome in hand, or the size is right or was raced.
Newest ==
  /\ \A c \in latest : latest = {c} /\ doing[c].at = "apply"
  /\ \/ \E c \in Conns : doing[c].at = "measure"
     \/ latest = {} /\ (votes = NoVotes \/ raced \/ size = Smallest)
     \/ votes # NoVotes /\ \E c \in latest : doing[c].s = Smallest

\* Once nobody is about to arm, the resends that still count bring the size in
\* effect, and if the kernel has another, or an old one is about to be set, one of
\* them is still to come.
Armed ==
  /\ \A t, u \in tasks : t.checked /\ u.checked => t = u
  /\ \A t \in tasks : t.seq <= seq
  /\ (\A c \in Conns : doing[c].at # "arm") /\ ~crossed =>
       /\ \A t \in tasks : t.seq = seq => t.size = size
       /\ kernel = size \/ \E t \in tasks : t.seq = seq
       /\ \A t \in tasks : t.checked /\ t.size # size => \E u \in tasks : u.seq = seq

\* All panes are on one connection: one handler, so nothing can be raced.
Alone == \A a, b \in Attachments : ConnOf[a] = ConnOf[b]
Unraced ==
  /\ ~raced /\ ~crossed
  /\ \A c \in Conns :
       /\ doing[c].at \in {"enroll", "arm"} => doing[c].s = size
       /\ doing[c].at = "apply" => latest = {c}

\* What holds then between requests.
Exact == Quiet => (votes # NoVotes => size = Smallest) /\ (tasks = {} => kernel = size)

Inv == TypeOK /\ Handled /\ Fresh /\ Listed /\ Newest /\ Armed /\ (Alone => Unraced)
-----------------------------------------------------------------------------
(* The smallest vote.                                                      *)

\* A set of naturals that is not empty has a least element.
LEMMA Least ==
  ASSUME NEW S, S \subseteq Nat, S # {}
  PROVE  Min(S) \in S /\ \A y \in S : Min(S) <= y
<1>1. \E x \in S : \A y \in S : ~ (<<y, x>> \in OpToRel(<, Nat))
  BY NatLessThanWellFounded, WFMin
<1>2. \A x, y \in S : <<y, x>> \in OpToRel(<, Nat) <=> y < x
  BY DEF OpToRel
<1>3. PICK x \in S : \A y \in S : ~ (y < x)
  BY <1>1, <1>2
<1>4. \A y \in S : x =< y
  BY <1>3
<1> QED
  BY <1>4 DEF Min

\* The smallest of some votes is a size, and at most every vote or 1.
LEMMA LeastVote ==
  ASSUME NEW f, f \in [DOMAIN f -> Nat], DOMAIN f # {}
  PROVE  LET m == Max({1, Min(Range(f))}) IN
           /\ m \in Nat \ {0}
           /\ \A a \in DOMAIN f : m <= f[a] \/ m = 1
           /\ \E a \in DOMAIN f : f[a] <= m
<1> DEFINE k == Min(Range(f))
           m == Max({1, k})
<1>1. Range(f) \subseteq Nat /\ Range(f) # {}
  BY DEF Range
<1>2. k \in Range(f) /\ \A y \in Range(f) : k <= y
  BY <1>1, Least
<1> HIDE DEF k
<1>3. k \in Nat
  BY <1>1, <1>2
<1>4. m = IF k >= 1 THEN k ELSE 1
  BY <1>3 DEF Max
<1> HIDE DEF m
<1>5. /\ m \in Nat \ {0}
      /\ \A a \in DOMAIN f : m <= f[a] \/ m = 1
      /\ \E a \in DOMAIN f : f[a] <= m
  BY <1>2, <1>3, <1>4 DEF Range
<1> QED
  BY <1>5 DEF m, k

\* So the smallest of all votes.
LEMMA SmallestIs ==
  ASSUME TypeOK, votes # NoVotes
  PROVE  /\ Smallest \in Nat \ {0}
         /\ \A a \in DOMAIN votes : Smallest <= votes[a] \/ Smallest = 1
         /\ \E a \in DOMAIN votes : votes[a] <= Smallest
<1>1. votes \in [DOMAIN votes -> Nat] /\ DOMAIN votes # {}
  BY DEF TypeOK, NoVotes
<1> QED
  BY <1>1, LeastVote DEF Smallest

\* The invariant holds at the start.
LEMMA InitInv == Init => Inv
<1> SUFFICES ASSUME Init PROVE Inv
  OBVIOUS
<1> USE SizeAssumption DEF Init
<1>1. TypeOK
  <2>1. votes \in [DOMAIN votes -> Nat] /\ DOMAIN votes = {}
    BY DEF NoVotes
  <2>2. doing \in [Conns -> Doing]
    BY DEF Doing
  <2> QED
    BY <2>1, <2>2 DEF TypeOK
<1>2. \A c \in Conns : doing[c] = Idle /\ doing[c].at = "idle"
  BY DEF Idle
<1>3. \A a \in Attachments : ConnOf[a] \in Conns
  BY DEF Conns
<1>4. Handled
  BY <1>2 DEF Handled
<1>5. Fresh
  BY <1>2, <1>3 DEF Fresh, Early, Enrolling, NoVotes
<1>6. Listed
  BY <1>3 DEF Listed, NoVotes
<1>7. Newest /\ Armed /\ Unraced
  BY <1>2 DEF Newest, Armed, Unraced
<1> QED
  BY <1>1, <1>4, <1>5, <1>6, <1>7 DEF Inv

-----------------------------------------------------------------------------
(* Steps.                                                                  *)

\* Every attachment has its connection.
LEMMA ConnIs ==
  ASSUME NEW a \in Attachments
  PROVE  ConnOf[a] \in Conns
BY SizeAssumption DEF Conns

\* What a handler that is not idle has in hand.
LEMMA InHand ==
  ASSUME TypeOK, NEW c \in Conns, doing[c].at # "idle"
  PROVE  /\ doing[c] # Idle
         /\ doing[c].at \in Steps /\ doing[c].a \in Attachments /\ doing[c].s \in Nat
BY DEF TypeOK, Doing, Idle

\* A resend task goes away, or goes on as the same task.
LEMMA TaskSteps ==
  ASSUME TypeOK, NEW t \in tasks, ResendCheck(t) \/ ResendApply(t)
  PROVE  \/ tasks' = tasks \ {t}
         \/ \E u : /\ u.seq = t.seq /\ u.size = t.size /\ u.checked = ~t.checked
                  /\ tasks' = (tasks \ {t}) \cup {u}
<1>1. t \in Task
  BY DEF TypeOK
<1>2. CASE ResendCheck(t)
  <2> DEFINE u == [t EXCEPT !.checked = TRUE]
  <2>1. u.seq = t.seq /\ u.size = t.size /\ u.checked = TRUE
    BY <1>1 DEF Task
  <2>2. t.checked = FALSE
    BY <1>1, <1>2 DEF ResendCheck, Task
  <2>3. tasks' = tasks \ {t} \/ tasks' = (tasks \ {t}) \cup {u}
    BY <1>2 DEF ResendCheck
  <2> HIDE DEF u
  <2> QED
    BY <2>1, <2>2, <2>3
<1>3. CASE ResendApply(t)
  <2> DEFINE u == [t EXCEPT !.checked = FALSE, !.left = @ - 1]
  <2>1. u.seq = t.seq /\ u.size = t.size /\ u.checked = FALSE
    BY <1>1 DEF Task
  <2>2. t.checked = TRUE
    BY <1>1, <1>3 DEF ResendApply, Task
  <2>3. tasks' = tasks \ {t} \/ tasks' = (tasks \ {t}) \cup {u}
    BY <1>3 DEF ResendApply
  <2> HIDE DEF u
  <2> QED
    BY <2>1, <2>2, <2>3
<1> QED
  BY <1>2, <1>3

\* The types survive every step.
LEMMA TypeKept ==
  ASSUME TypeOK, Handled, [Next]_vars
  PROVE  TypeOK'
<1> USE SizeAssumption
<1>1. ASSUME NEW a \in Attachments, SendAttach(a) \/ GiveUp(a) \/ PaneResize(a) \/ PaneDetach(a)
      PROVE  TypeOK'
  BY <1>1 DEF TypeOK, SendAttach, GiveUp, PaneResize, PaneDetach, Ask, Request, sizeVars, history, Doing
<1>2. ASSUME NEW c \in Conns, Disconnect(c) PROVE TypeOK'
  BY <1>2 DEF TypeOK, Disconnect, sizeVars, history
<1>3. ASSUME NEW c \in Conns, Enroll(c) PROVE TypeOK'
  <2>1. doing[c].a \in Attachments /\ doing[c].s \in Nat
    BY <1>3, InHand DEF Enroll
  <2>2. votes' \in [DOMAIN votes' -> Nat] /\ DOMAIN votes' \subseteq Attachments
    BY <1>3, <2>1 DEF TypeOK, Enroll, Vote
  <2>3. doing' \in [Conns -> Doing]
    BY <1>3 DEF TypeOK, Enroll, Doing
  <2> QED
    BY <1>3, <2>1, <2>2, <2>3 DEF TypeOK, Enroll
<1>4. ASSUME NEW c \in Conns, Teardown(c) PROVE TypeOK'
  <2>1. PICK a \in owned : owned' = owned \ {a} /\ DropVote(a, c)
    BY <1>4 DEF Teardown
  <2>2. votes' \in [DOMAIN votes' -> Nat] /\ DOMAIN votes' \subseteq Attachments
    BY <2>1 DEF TypeOK, DropVote, Restrict
  <2>3. doing' \in [Conns -> Doing]
    BY <2>1 DEF TypeOK, DropVote, Doing, At, Steps
  <2> QED
    BY <1>4, <2>1, <2>2, <2>3 DEF TypeOK, Teardown, clientVars, history
<1>5. ASSUME NEW c \in Conns, Measure(c) PROVE TypeOK'
  <2>1. doing[c].a \in Attachments
    BY <1>5, InHand DEF Measure
  <2>2. votes # NoVotes => Smallest \in Nat
    BY SmallestIs
  <2>3. doing' \in [Conns -> Doing]
    BY <1>5, <2>1, <2>2 DEF TypeOK, Measure, Doing, At, Steps
  <2>4. latest' \subseteq Conns
    BY <1>5 DEF Measure
  <2>5. UNCHANGED <<pane, asked, up, sent, owned, votes, size, kernel, seq, tasks, raced, crossed>>
    BY <1>5 DEF Measure, sizeVars, clientVars
  <2> QED
    BY <2>3, <2>4, <2>5 DEF TypeOK
<1>6. ASSUME NEW c \in Conns, Apply(c) PROVE TypeOK'
  <2>1. doing[c].a \in Attachments /\ doing[c].s \in Nat \ {0}
    BY <1>6, InHand DEF Apply, Handled
  <2>2. doing' \in [Conns -> Doing]
    BY <1>6, <2>1 DEF TypeOK, Apply, Doing, At, Steps
  <2> QED
    BY <1>6, <2>1, <2>2 DEF TypeOK, Apply, clientVars
<1>7. ASSUME NEW c \in Conns, Arm(c) PROVE TypeOK'
  <2>1. doing[c].s \in Nat
    BY <1>7, InHand DEF Arm
  <2>2. doing' \in [Conns -> Doing]
    BY <1>7 DEF TypeOK, Arm, Doing
  <2>3. [seq |-> seq + 1, size |-> doing[c].s, left |-> Resends, checked |-> FALSE] \in Task
    BY <2>1 DEF TypeOK, Task
  <2>4. tasks' \subseteq Task
    BY <1>7, <2>3 DEF TypeOK, Arm
  <2> QED
    BY <1>7, <2>2, <2>4 DEF TypeOK, Arm, clientVars
<1>8. ASSUME NEW r \in sent, Lose(r) PROVE TypeOK'
  BY <1>8 DEF TypeOK, Lose, clientVars, sizeVars, history
<1>9. ASSUME NEW r \in sent, ServeAttach(r) \/ ServeResize(r) PROVE TypeOK'
  <2>1. r.a \in Attachments /\ r.s \in Nat /\ size \in Nat
    BY DEF TypeOK, Request
  <2>2. doing' \in [Conns -> Doing]
    BY <1>9, <2>1 DEF TypeOK, ServeAttach, ServeResize, Serve, Doing, At, Steps
  <2>3. votes' \in [DOMAIN votes' -> Nat] /\ DOMAIN votes' \subseteq Attachments
    BY <1>9, <2>1 DEF TypeOK, ServeAttach, ServeResize, Vote, sizeVars
  <2> QED
    BY <1>9, <2>2, <2>3 DEF TypeOK, ServeAttach, ServeResize, Serve, clientVars, sizeVars, history
<1>10. ASSUME NEW r \in sent, ServeDetach(r) PROVE TypeOK'
  <2>1. r.a \in Attachments
    BY DEF TypeOK, Request
  <2>2. doing' \in [Conns -> Doing]
    BY <1>10, <2>1 DEF TypeOK, ServeDetach, DropVote, Doing, At, Steps
  <2>3. votes' \in [DOMAIN votes' -> Nat] /\ DOMAIN votes' \subseteq Attachments
    BY <1>10 DEF TypeOK, ServeDetach, DropVote, Restrict
  <2> QED
    BY <1>10, <2>2, <2>3 DEF TypeOK, ServeDetach, clientVars, history
<1>11. ASSUME NEW t \in tasks, ResendCheck(t) \/ ResendApply(t) PROVE TypeOK'
  <2>1. t \in Task /\ t.size \in Nat \ {0}
    BY DEF TypeOK, Handled, Task
  <2>2. ASSUME t.left - 1 > 0 PROVE [t EXCEPT !.checked = FALSE, !.left = @ - 1] \in Task
    <3>1. [t EXCEPT !.checked = FALSE] \in Task /\ [t EXCEPT !.checked = FALSE].left = t.left
      BY <2>1 DEF Task
    <3>2. t.left - 1 \in Nat \ {0}
      BY <2>1, <2>2 DEF Task
    <3>3. [[t EXCEPT !.checked = FALSE] EXCEPT !.left = t.left - 1] \in Task
      BY <3>1, <3>2 DEF Task
    <3> QED
      BY <3>1, <3>3
  <2>3. [t EXCEPT !.checked = TRUE] \in Task
    BY <2>1 DEF Task
  <2>4. [t EXCEPT !.checked = FALSE, !.left = @ - 1].left = t.left - 1
    BY <2>1 DEF Task
  <2>5. tasks' \subseteq Task
    BY <1>11, <2>2, <2>3, <2>4 DEF TypeOK, ResendCheck, ResendApply
  <2> QED
    BY <1>11, <2>1, <2>5 DEF TypeOK, ResendCheck, ResendApply, clientVars, history
<1>12. CASE UNCHANGED vars
  BY <1>12 DEF TypeOK, vars, clientVars, sizeVars, history
<1> QED
  BY <1>1, <1>2, <1>3, <1>4, <1>5, <1>6, <1>7, <1>8, <1>9, <1>10, <1>11, <1>12 DEF Next

\* What handlers, tasks and requests hold survives every step.
LEMMA HandledKept ==
  ASSUME TypeOK, Handled, [Next]_vars
  PROVE  Handled'
<1> DEFINE Hands == \A c \in Conns : doing[c] # Idle =>
                      ConnOf[doing[c].a] = c /\ (doing[c].at # "measure" => doing[c].s # 0)
           Tasks == \A t \in tasks : t.size # 0
           Sent == \A r \in sent : r.op = "attach" => r = Ask("attach", r.a, 0, 0)
<1>0. Hands /\ Tasks /\ Sent
  BY DEF Handled
<1>a. doing \in [Conns -> Doing]
  BY DEF TypeOK
<1>1. ASSUME NEW a \in Attachments, SendAttach(a) \/ GiveUp(a) \/ PaneResize(a) \/ PaneDetach(a)
      PROVE  Handled'
  <2>1. Sent'
    BY <1>0, <1>1 DEF SendAttach, GiveUp, PaneResize, PaneDetach, Ask
  <2>2. UNCHANGED <<doing, tasks>>
    BY <1>1 DEF SendAttach, GiveUp, PaneResize, PaneDetach, sizeVars
  <2> QED
    BY <1>0, <2>1, <2>2 DEF Handled
<1>2. ASSUME NEW c \in Conns, Disconnect(c) PROVE Handled'
  BY <1>0, <1>2 DEF Handled, Disconnect, sizeVars
<1>3. ASSUME NEW c \in Conns, Enroll(c) PROVE Handled'
  <2>1. Hands'
    BY <1>0, <1>a, <1>3 DEF Enroll
  <2> QED
    BY <1>0, <1>3, <2>1 DEF Handled, Enroll
<1>4. ASSUME NEW c \in Conns, Teardown(c) PROVE Handled'
  <2>1. PICK a \in owned : ConnOf[a] = c /\ DropVote(a, c)
    BY <1>4 DEF Teardown
  <2>2. Hands'
    BY <1>0, <1>a, <2>1 DEF DropVote, At
  <2> QED
    BY <1>0, <1>4, <2>2 DEF Handled, Teardown
<1>5. ASSUME NEW c \in Conns, Measure(c) PROVE Handled'
  <2>1. ConnOf[doing[c].a] = c
    BY <1>0, <1>5, InHand DEF Measure
  <2>2. votes # NoVotes => Smallest # 0
    BY SmallestIs
  <2>3. Hands'
    BY <1>0, <1>a, <1>5, <2>1, <2>2 DEF Measure, At
  <2> QED
    BY <1>0, <1>5, <2>3 DEF Handled, Measure, sizeVars
<1>6. ASSUME NEW c \in Conns, Apply(c) PROVE Handled'
  <2>1. ConnOf[doing[c].a] = c /\ doing[c].s # 0
    BY <1>0, <1>6, InHand DEF Apply
  <2>2. Hands'
    BY <1>0, <1>a, <1>6, <2>1 DEF Apply, At
  <2> QED
    BY <1>0, <1>6, <2>2 DEF Handled, Apply
<1>7. ASSUME NEW c \in Conns, Arm(c) PROVE Handled'
  <2>1. doing[c].s # 0
    BY <1>0, <1>7, InHand DEF Arm
  <2>2. Hands' /\ Tasks'
    BY <1>0, <1>a, <1>7, <2>1 DEF Arm
  <2> QED
    BY <1>0, <1>7, <2>2 DEF Handled, Arm
<1>8. ASSUME NEW r \in sent, Lose(r) PROVE Handled'
  BY <1>0, <1>8 DEF Handled, Lose, sizeVars
<1>9. ASSUME NEW r \in sent, ServeAttach(r) \/ ServeResize(r) \/ ServeDetach(r) PROVE Handled'
  <2>1. size # 0
    BY DEF TypeOK
  <2>2. Hands'
    BY <1>0, <1>a, <1>9, <2>1 DEF ServeAttach, ServeResize, ServeDetach, Serve, DropVote, At
  <2>3. tasks' = tasks /\ sent' \subseteq sent
    BY <1>9 DEF ServeAttach, ServeResize, ServeDetach, Serve, sizeVars
  <2> QED
    BY <1>0, <2>2, <2>3 DEF Handled
<1>10. ASSUME NEW t \in tasks, ResendCheck(t) \/ ResendApply(t) PROVE Handled'
  <2>1. \A u \in tasks' : u \in tasks \/ u.size = t.size
    BY <1>10, TaskSteps
  <2>2. UNCHANGED <<sent, doing>>
    BY <1>10 DEF ResendCheck, ResendApply
  <2> QED
    BY <1>0, <2>1, <2>2 DEF Handled
<1>11. CASE UNCHANGED vars
  BY <1>0, <1>11 DEF Handled, vars, sizeVars
<1> QED
  BY <1>1, <1>2, <1>3, <1>4, <1>5, <1>6, <1>7, <1>8, <1>9, <1>10, <1>11 DEF Next

\* Requests and who is spoken of in them.
LEMMA Requests ==
  ASSUME TypeOK, NEW r \in sent
  PROVE  r.a \in Attachments /\ ConnOf[r.a] \in Conns
BY ConnIs DEF TypeOK, Request

\* Every step but two leaves an attachment no earlier than it was and adds nothing
\* about it, or finds it past that: only SendAttach and ServeAttach are about an
\* attachment that is early.
LEMMA EarlySteps ==
  ASSUME TypeOK, Handled, Fresh, [Next]_vars, NEW b \in Attachments
  PROVE  LET asks == Ask("attach", b, 0, 0) IN
           \/ /\ pane'[b] = "off" => pane[b] = "off"
              /\ pane'[b] \in {"on", "left"} => pane[b] \in {"on", "left"}
              /\ asks \in sent' => asks \in sent
              /\ Enrolling(b)' => Enrolling(b)
              /\ b \in DOMAIN votes' => b \in DOMAIN votes
              /\ b \in owned' => b \in owned
              /\ \A r \in sent' : r.a = b => r \in sent
           \/ ~Early(b)'
           \/ SendAttach(b)
           \/ ServeAttach(asks)
<1> DEFINE asks == Ask("attach", b, 0, 0)
           Less == /\ pane'[b] = "off" => pane[b] = "off"
                   /\ pane'[b] \in {"on", "left"} => pane[b] \in {"on", "left"}
                   /\ asks \in sent' => asks \in sent
                   /\ Enrolling(b)' => Enrolling(b)
                   /\ b \in DOMAIN votes' => b \in DOMAIN votes
                   /\ b \in owned' => b \in owned
                   /\ \A r \in sent' : r.a = b => r \in sent
           Goal == Less \/ ~Early(b)' \/ SendAttach(b) \/ ServeAttach(asks)
<1> SUFFICES Goal
  OBVIOUS
<1>0. /\ ~ (asks \in sent /\ Enrolling(b))
      /\ pane[b] = "off" => asks \notin sent /\ ~Enrolling(b)
      /\ Early(b) => /\ pane[b] \notin {"on", "left"} /\ b \notin DOMAIN votes /\ b \notin owned
                     /\ \A r \in sent : r.a = b => r.op = "attach"
  BY DEF Fresh
<1>a. doing \in [Conns -> Doing] /\ pane \in [Attachments -> {"off", "asking", "given", "on", "left", "lost"}]
  BY DEF TypeOK
<1>b. ConnOf[b] \in Conns
  BY ConnIs
<1>1. ASSUME NEW a \in Attachments, SendAttach(a) PROVE Goal
  <2>1. CASE a = b
    BY <1>1, <2>1
  <2>2. CASE a # b
    BY <1>a, <1>1, <2>2 DEF SendAttach, Ask, Enrolling, sizeVars
  <2> QED
    BY <2>1, <2>2
<1>2. ASSUME NEW a \in Attachments, GiveUp(a) PROVE Goal
  BY <1>a, <1>2 DEF GiveUp, Enrolling, sizeVars
<1>3. ASSUME NEW a \in Attachments, PaneResize(a) \/ PaneDetach(a) PROVE Goal
  <2>1. CASE a = b
    <3>1. ~Early(b)
      BY <1>0, <1>3, <2>1 DEF PaneResize, PaneDetach
    <3> QED
      BY <1>a, <1>3, <2>1, <3>1 DEF PaneResize, PaneDetach, Early, Enrolling, Ask
  <2>2. CASE a # b
    BY <1>a, <1>3, <2>2 DEF PaneResize, PaneDetach, Ask, Enrolling, sizeVars
  <2> QED
    BY <2>1, <2>2
<1>4. ASSUME NEW c \in Conns, Disconnect(c) PROVE Goal
  BY <1>a, <1>4 DEF Disconnect, Enrolling, sizeVars
<1>5. ASSUME NEW r \in sent, Lose(r) PROVE Goal
  BY <1>5 DEF Lose, Enrolling, clientVars, sizeVars
<1>6. ASSUME NEW r \in sent, ServeAttach(r) PROVE Goal
  <2>1. r = Ask("attach", r.a, 0, 0)
    BY <1>6 DEF Handled, ServeAttach
  <2>2. CASE r.a = b
    BY <1>6, <2>1, <2>2
  <2>3. CASE r.a # b
    BY <1>a, <1>b, <1>6, <2>3 DEF ServeAttach, Serve, At, Enrolling, clientVars, sizeVars
  <2> QED
    BY <2>2, <2>3
<1>7. ASSUME NEW r \in sent, ServeResize(r) \/ ServeDetach(r) PROVE Goal
  <2>1. UNCHANGED pane /\ sent' = sent \ {r} /\ owned' \subseteq owned
    BY <1>7 DEF ServeResize, ServeDetach, Serve, clientVars
  <2>2. Enrolling(b)' => Enrolling(b)
    BY <1>a, <1>b, <1>7 DEF ServeResize, ServeDetach, Serve, DropVote, At, Idle, Enrolling
  <2>3. CASE r.a = b
    <3>1. ~Early(b)
      BY <1>0, <1>7, <2>3 DEF ServeResize, ServeDetach
    <3> QED
      BY <2>1, <2>2, <3>1 DEF Early
  <2>4. CASE r.a # b
    BY <1>7, <2>1, <2>2, <2>4 DEF ServeResize, ServeDetach, DropVote, Vote, Restrict
  <2> QED
    BY <2>3, <2>4
<1>8. ASSUME NEW c \in Conns, Enroll(c) PROVE Goal
  <2>1. ConnOf[doing[c].a] = c /\ doing[c].a \in Attachments
    BY <1>8, InHand DEF Enroll, Handled
  <2>2. CASE doing[c].a = b
    <3>1. Enrolling(b)
      BY <1>8, <2>1, <2>2 DEF Enroll, Enrolling
    <3>2. pane'[b] # "off" /\ asks \notin sent'
      BY <1>0, <1>a, <1>8, <2>2, <3>1 DEF Enroll
    <3>3. ~Enrolling(b)'
      BY <1>a, <1>8, <2>1, <2>2 DEF Enroll, Enrolling, Idle
    <3> QED
      BY <3>2, <3>3 DEF Early
  <2>3. CASE doing[c].a # b
    <3>1. Enrolling(b)' => Enrolling(b)
      BY <1>a, <1>b, <1>8 DEF Enroll, Enrolling, Idle
    <3>2. pane'[b] = pane[b] /\ sent' = sent
      BY <1>a, <1>8, <2>3 DEF Enroll
    <3>3. (b \in DOMAIN votes' => b \in DOMAIN votes) /\ (b \in owned' => b \in owned)
      BY <1>8, <2>3 DEF Enroll, Vote
    <3> QED
      BY <3>1, <3>2, <3>3
  <2> QED
    BY <2>2, <2>3
<1>9. ASSUME NEW c \in Conns, Teardown(c) PROVE Goal
  <2>1. PICK a \in owned : owned' = owned \ {a} /\ DropVote(a, c)
    BY <1>9 DEF Teardown
  <2>2. Enrolling(b)' => Enrolling(b)
    BY <1>a, <1>b, <2>1 DEF DropVote, At, Idle, Enrolling
  <2> QED
    BY <1>9, <2>1, <2>2 DEF Teardown, DropVote, Restrict, clientVars
<1>10. ASSUME NEW c \in Conns, Measure(c) \/ Apply(c) \/ Arm(c) PROVE Goal
  <2>1. UNCHANGED <<pane, sent, owned, votes>>
    BY <1>10 DEF Measure, Apply, Arm, clientVars, sizeVars
  <2>2. Enrolling(b)' => Enrolling(b)
    BY <1>a, <1>b, <1>10 DEF Measure, Apply, Arm, At, Idle, Enrolling
  <2> QED
    BY <2>1, <2>2
<1>11. ASSUME NEW t \in tasks, ResendCheck(t) \/ ResendApply(t) PROVE Goal
  BY <1>11 DEF ResendCheck, ResendApply, Enrolling, clientVars
<1>12. CASE UNCHANGED vars
  BY <1>12 DEF vars, Enrolling, clientVars, sizeVars
<1> QED
  BY <1>1, <1>2, <1>3, <1>4, <1>5, <1>6, <1>7, <1>8, <1>9, <1>10, <1>11, <1>12 DEF Next

\* Nothing comes to be known of an attachment before it is enrolled.
LEMMA FreshKept ==
  ASSUME TypeOK, Handled, Fresh, [Next]_vars
  PROVE  Fresh'
<1> SUFFICES ASSUME NEW b \in Attachments
             PROVE  /\ ~ (Ask("attach", b, 0, 0) \in sent' /\ Enrolling(b)')
                    /\ pane'[b] = "off" => Ask("attach", b, 0, 0) \notin sent' /\ ~Enrolling(b)'
                    /\ Early(b)' => /\ pane'[b] \notin {"on", "left"}
                                    /\ b \notin DOMAIN votes' /\ b \notin owned'
                                    /\ \A r \in sent' : r.a = b => r.op = "attach"
  BY DEF Fresh
<1> DEFINE asks == Ask("attach", b, 0, 0)
<1>0. /\ ~ (asks \in sent /\ Enrolling(b))
      /\ pane[b] = "off" => asks \notin sent /\ ~Enrolling(b)
      /\ Early(b) => /\ pane[b] \notin {"on", "left"} /\ b \notin DOMAIN votes /\ b \notin owned
                     /\ \A r \in sent : r.a = b => r.op = "attach"
  BY DEF Fresh
<1>a. doing \in [Conns -> Doing] /\ pane \in [Attachments -> {"off", "asking", "given", "on", "left", "lost"}]
  BY DEF TypeOK
<1>1. CASE SendAttach(b)
  <2>1. Early(b)
    BY <1>1 DEF SendAttach, Early
  <2>2. ~Enrolling(b)'
    BY <1>0, <1>1 DEF SendAttach, Enrolling
  <2>3. pane'[b] = "asking"
    BY <1>a, <1>1 DEF SendAttach
  <2>4. UNCHANGED <<owned, votes>> /\ \A r \in sent' : r \in sent \/ r.op = "attach"
    BY <1>1 DEF SendAttach, Ask, sizeVars
  <2> QED
    BY <1>0, <2>1, <2>2, <2>3, <2>4
<1>2. CASE ServeAttach(asks)
  <2>1. asks \in sent /\ Early(b) /\ sent' = sent \ {asks} /\ UNCHANGED <<pane, votes, owned>>
    BY <1>2 DEF ServeAttach, Serve, Early, clientVars, sizeVars
  <2> QED
    BY <1>0, <2>1 DEF Early
<1>3. CASE ~Early(b)'
  BY <1>3 DEF Early
<1> QED
  BY <1>0, <1>1, <1>2, <1>3, EarlySteps DEF Early

\* What a pane has at the daemon stays on the list of its connection.
LEMMA ListedKept ==
  ASSUME TypeOK, Handled, Fresh, Listed, [Next]_vars
  PROVE  Listed'
<1> SUFFICES ASSUME NEW b \in Attachments
             PROVE  /\ pane'[b] \in {"asking", "given", "on"} => ConnOf[b] \in up'
                    /\ pane'[b] # "left" =>
                         /\ \A r \in sent' : r.a = b => r.op # "detach"
                         /\ b \in DOMAIN votes' \/ pane'[b] = "on"
                              \/ (\E r \in sent' : r.a = b /\ r.op = "resize")
                            => b \in owned'
  BY DEF Listed
<1> DEFINE Up == pane[b] \in {"asking", "given", "on"} => ConnOf[b] \in up
           Known == b \in DOMAIN votes \/ pane[b] = "on" \/ (\E r \in sent : r.a = b /\ r.op = "resize")
           Goal == /\ Up'
                   /\ pane'[b] # "left" =>
                        /\ \A r \in sent' : r.a = b => r.op # "detach"
                        /\ Known' => b \in owned'
<1> SUFFICES Goal
  OBVIOUS
<1>0. /\ Up
      /\ pane[b] # "left" =>
           (\A r \in sent : r.a = b => r.op # "detach") /\ (Known => b \in owned)
  BY DEF Listed
<1>a. doing \in [Conns -> Doing] /\ pane \in [Attachments -> {"off", "asking", "given", "on", "left", "lost"}]
  BY DEF TypeOK
\* A step that takes nothing off the list, tells nothing new and leaves the pane, or
\* makes it one that waits no longer.
<1>b. ASSUME \/ pane'[b] = pane[b]
             \/ pane'[b] \in {"left", "lost"} /\ pane[b] # "left"
             \/ pane'[b] = "given" /\ pane[b] = "asking",
             up' = up \/ pane'[b] \notin {"asking", "given", "on"}, b \in owned => b \in owned',
             b \in DOMAIN votes' => b \in DOMAIN votes,
             pane'[b] # "left" => \A r \in sent' : r.a = b => r \in sent
      PROVE  Goal
  BY <1>0, <1>b
<1>1. ASSUME NEW a \in Attachments, SendAttach(a) PROVE Goal
  <2>1. UNCHANGED <<up, owned, votes>> /\ \A r \in sent' : r.a = b => r \in sent \/ (a = b /\ r.op = "attach")
    BY <1>1 DEF SendAttach, Ask, sizeVars
  <2>2. CASE a = b
    <3>1. pane[b] = "off" /\ pane'[b] = "asking" /\ ConnOf[b] \in up
      BY <1>a, <1>1, <2>2 DEF SendAttach
    <3> QED
      BY <1>0, <2>1, <3>1
  <2>3. CASE a # b
    <3>1. pane'[b] = pane[b]
      BY <1>a, <1>1, <2>3 DEF SendAttach
    <3> QED
      BY <1>b, <2>1, <2>3, <3>1
  <2> QED
    BY <2>2, <2>3
<1>2. ASSUME NEW a \in Attachments, GiveUp(a) PROVE Goal
  BY <1>a, <1>b, <1>2 DEF GiveUp, sizeVars
<1>3. ASSUME NEW a \in Attachments, PaneResize(a) PROVE Goal
  <2>1. UNCHANGED <<pane, up, owned, votes>>
    BY <1>3 DEF PaneResize, sizeVars
  <2>2. \A r \in sent' : r.a = b => r \in sent \/ (a = b /\ r.op = "resize")
    BY <1>3 DEF PaneResize, Ask
  <2>3. a = b => pane[b] = "on"
    BY <1>3 DEF PaneResize
  <2> QED
    BY <1>0, <2>1, <2>2, <2>3
<1>4. ASSUME NEW a \in Attachments, PaneDetach(a) PROVE Goal
  <2>1. UNCHANGED <<up, owned, votes>> /\ \A r \in sent' : r.a = b => r \in sent \/ a = b
    BY <1>4 DEF PaneDetach, Ask, sizeVars
  <2>2. pane'[b] = IF a = b THEN "left" ELSE pane[b]
    BY <1>a, <1>4 DEF PaneDetach
  <2> QED
    BY <1>0, <2>1, <2>2
<1>5. ASSUME NEW c \in Conns, Disconnect(c) PROVE Goal
  <2>1. pane'[b] = IF ConnOf[b] = c /\ pane[b] \in {"asking", "given", "on"} THEN "lost" ELSE pane[b]
    BY <1>5 DEF Disconnect
  <2>2. up' = up \ {c} /\ UNCHANGED <<sent, owned, votes>>
    BY <1>5 DEF Disconnect, sizeVars
  <2> QED
    BY <1>0, <2>1, <2>2
<1>6. ASSUME NEW r \in sent, Lose(r) PROVE Goal
  BY <1>b, <1>6 DEF Lose, clientVars, sizeVars
<1>7. ASSUME NEW r \in sent, ServeAttach(r) PROVE Goal
  BY <1>b, <1>7 DEF ServeAttach, Serve, clientVars, sizeVars
<1>8. ASSUME NEW r \in sent, ServeResize(r) PROVE Goal
  <2>1. UNCHANGED <<pane, up, owned>> /\ sent' \subseteq sent
    BY <1>8 DEF ServeResize, Serve, clientVars
  <2>2. b \in DOMAIN votes' => b \in DOMAIN votes \/ (r.a = b /\ r.op = "resize")
    BY <1>8 DEF ServeResize, Vote
  <2> QED
    BY <1>0, <2>1, <2>2
<1>9. ASSUME NEW r \in sent, ServeDetach(r) PROVE Goal
  <2>1. UNCHANGED <<pane, up>> /\ sent' \subseteq sent /\ owned' = owned \ {r.a} /\ r.op = "detach"
    BY <1>9 DEF ServeDetach, clientVars
  <2>2. b \in DOMAIN votes' => b \in DOMAIN votes
    BY <1>9 DEF ServeDetach, DropVote, Restrict
  <2> QED
    BY <1>0, <2>1, <2>2
<1>10. ASSUME NEW c \in Conns, Enroll(c) PROVE Goal
  <2>1. UNCHANGED <<up, sent>> /\ owned' = owned \cup {doing[c].a}
    BY <1>10 DEF Enroll
  <2>2. pane'[b] = pane[b] \/ (b = doing[c].a /\ pane[b] = "asking" /\ pane'[b] = "on")
    BY <1>a, <1>10 DEF Enroll
  <2>3. b \in DOMAIN votes' => b \in DOMAIN votes \/ b = doing[c].a
    BY <1>10 DEF Enroll, Vote
  <2> QED
    BY <1>0, <2>1, <2>2, <2>3
<1>11. ASSUME NEW c \in Conns, Teardown(c) PROVE Goal
  <2>1. PICK a \in owned : ConnOf[a] = c /\ owned' = owned \ {a} /\ DropVote(a, c)
    BY <1>11 DEF Teardown
  <2>2. UNCHANGED <<pane, up, sent>> /\ c \notin up /\ \A r \in sent : ConnOf[r.a] # c
    BY <1>11 DEF Teardown, clientVars
  <2>3. DOMAIN votes' = DOMAIN votes \ {a}
    BY <2>1 DEF DropVote, Restrict
  <2> QED
    BY <1>0, <2>1, <2>2, <2>3
<1>12. ASSUME NEW c \in Conns, Measure(c) \/ Apply(c) \/ Arm(c) PROVE Goal
  BY <1>b, <1>12 DEF Measure, Apply, Arm, clientVars, sizeVars
<1>13. ASSUME NEW t \in tasks, ResendCheck(t) \/ ResendApply(t) PROVE Goal
  BY <1>b, <1>13 DEF ResendCheck, ResendApply, clientVars
<1>14. CASE UNCHANGED vars
  BY <1>b, <1>14 DEF vars, clientVars, sizeVars
<1> QED
  BY <1>1, <1>2, <1>3, <1>4, <1>5, <1>6, <1>7, <1>8, <1>9, <1>10, <1>11, <1>12, <1>13, <1>14 DEF Next

-----------------------------------------------------------------------------
(* The size in effect.                                                     *)

\* Dropping a vote that is not there changes nothing.
LEMMA DropNone ==
  ASSUME TypeOK, NEW a, NEW c \in Conns, DropVote(a, c)
  PROVE  \/ doing' = [doing EXCEPT ![c] = At("measure", a, 0)]
         \/ doing' = [doing EXCEPT ![c] = Idle] /\ votes' = votes
BY DEF TypeOK, DropVote, Restrict

\* A newcomer's vote against the smallest one.
LEMMA NewVote ==
  ASSUME TypeOK, NEW a \in Attachments \ DOMAIN votes, NEW s \in Nat \ {0}, Vote(a, s)
  PROVE  /\ votes' # NoVotes
         /\ votes = NoVotes => Smallest' = s
         /\ votes # NoVotes => Smallest' = IF Smallest <= s THEN Smallest ELSE s
<1>0. votes \in [DOMAIN votes -> Nat]
  BY DEF TypeOK
<1>1. votes' \in [DOMAIN votes \cup {a} -> Nat]
  BY <1>0 DEF Vote
<1>2. votes' # NoVotes /\ DOMAIN votes' = DOMAIN votes \cup {a}
  BY <1>1 DEF NoVotes
<1>3. votes'[a] = s /\ \A b \in DOMAIN votes : votes'[b] = votes[b]
  BY DEF Vote
<1>4. /\ Smallest' \in Nat \ {0}
      /\ \A b \in DOMAIN votes' : Smallest' <= votes'[b] \/ Smallest' = 1
      /\ \E b \in DOMAIN votes' : votes'[b] <= Smallest'
  <2>1. votes' \in [DOMAIN votes' -> Nat] /\ DOMAIN votes' # {}
    BY <1>1, <1>2
  <2> HIDE DEF Vote
  <2> QED
    BY <2>1, LeastVote DEF Smallest
<1>5. ASSUME votes = NoVotes PROVE Smallest' = s
  <2>1. DOMAIN votes = {}
    BY <1>5 DEF NoVotes
  <2> QED
    BY <1>2, <1>3, <1>4, <2>1
<1>6. ASSUME votes # NoVotes PROVE Smallest' = IF Smallest <= s THEN Smallest ELSE s
  <2>1. /\ Smallest \in Nat \ {0}
        /\ \A b \in DOMAIN votes : Smallest <= votes[b] \/ Smallest = 1
        /\ \E b \in DOMAIN votes : votes[b] <= Smallest
    BY <1>6, SmallestIs
  <2>2. \A b \in DOMAIN votes : votes[b] \in Nat
    BY <1>0
  <2>3. PICK b \in DOMAIN votes : votes[b] <= Smallest
    BY <2>1
  <2>4. Smallest' <= Smallest /\ Smallest' <= s
    BY <1>2, <1>3, <1>4, <2>1, <2>2, <2>3
  <2>5. Smallest <= Smallest' \/ s <= Smallest'
    BY <1>2, <1>3, <1>4, <2>1, <2>2
  <2> QED
    BY <1>4, <2>1, <2>4, <2>5
<1> QED
  BY <1>2, <1>5, <1>6

\* The newest outcome is never lost but in a race.
LEMMA NewestKept ==
  ASSUME TypeOK, Handled, Fresh, Newest, [Next]_vars
  PROVE  Newest'
<1> DEFINE Holds == \A c \in latest : latest = {c} /\ doing[c].at = "apply"
           Known == \/ \E c \in Conns : doing[c].at = "measure"
                    \/ latest = {} /\ (votes = NoVotes \/ raced \/ size = Smallest)
                    \/ votes # NoVotes /\ \E c \in latest : doing[c].s = Smallest
<1> SUFFICES Holds' /\ Known'
  BY DEF Newest
<1>0. Holds /\ Known
  BY DEF Newest
<1>a. doing \in [Conns -> Doing] /\ latest \subseteq Conns
  BY DEF TypeOK
<1>b. ASSUME votes' = votes PROVE Smallest' = Smallest
  BY <1>b DEF Smallest
\* Steps that touch neither handlers nor votes.
<1>1. ASSUME UNCHANGED <<doing, votes, size, latest, raced>> PROVE Holds' /\ Known'
  BY <1>0, <1>1, <1>b
\* A handler that neither had an outcome nor was to measure goes on, and not to apply.
<1>2. ASSUME UNCHANGED <<votes, size, latest, raced>>, NEW c \in Conns,
             doing[c].at \notin {"measure", "apply"},
             \A d \in Conns \ {c} : doing'[d] = doing[d]
      PROVE  Holds' /\ Known'
  BY <1>0, <1>2, <1>a, <1>b
\* A handler is about to measure.
<1>3. ASSUME UNCHANGED <<latest>>, NEW c \in Conns, doing[c] = Idle,
             NEW a, doing' = [doing EXCEPT ![c] = At("measure", a, 0)]
      PROVE  Holds' /\ Known'
  <2>1. doing'[c].at = "measure" /\ \A d \in Conns \ {c} : doing'[d] = doing[d]
    BY <1>3, <1>a DEF At
  <2>2. c \notin latest
    BY <1>0, <1>3 DEF Idle
  <2> QED
    BY <1>0, <1>3, <1>a, <2>1, <2>2
<1>4. ASSUME NEW a \in Attachments, SendAttach(a) \/ GiveUp(a) \/ PaneResize(a) \/ PaneDetach(a)
      PROVE  Holds' /\ Known'
  BY <1>1, <1>4 DEF SendAttach, GiveUp, PaneResize, PaneDetach, sizeVars, history
<1>5. ASSUME NEW c \in Conns, Disconnect(c) PROVE Holds' /\ Known'
  BY <1>1, <1>5 DEF Disconnect, sizeVars, history
<1>6. ASSUME NEW r \in sent, Lose(r) PROVE Holds' /\ Known'
  BY <1>1, <1>6 DEF Lose, sizeVars, history
<1>7. ASSUME NEW r \in sent, ServeAttach(r) PROVE Holds' /\ Known'
  <2>1. ConnOf[r.a] \in Conns
    BY Requests
  <2>2. doing[ConnOf[r.a]].at = "idle" /\ \A d \in Conns \ {ConnOf[r.a]} : doing'[d] = doing[d]
    BY <1>a, <1>7, <2>1 DEF ServeAttach, Serve, Idle
  <2>3. UNCHANGED <<votes, size, latest, raced>>
    BY <1>7 DEF ServeAttach, sizeVars, history
  <2> QED
    BY <1>2, <2>1, <2>2, <2>3
<1>8. ASSUME NEW r \in sent, ServeResize(r) PROVE Holds' /\ Known'
  <2>1. ConnOf[r.a] \in Conns
    BY Requests
  <2> QED
    BY <1>3, <1>8, <2>1 DEF ServeResize, Serve, history
<1>9. ASSUME NEW c \in Conns, doing[c] = Idle, NEW a, DropVote(a, c), UNCHANGED <<size, latest, raced>>
      PROVE  Holds' /\ Known'
  <2>1. CASE doing' = [doing EXCEPT ![c] = At("measure", a, 0)]
    BY <1>3, <1>9, <2>1
  <2>2. CASE doing' = [doing EXCEPT ![c] = Idle] /\ votes' = votes
    <3>1. doing' = doing
      BY <1>9, <1>a, <2>2
    <3> QED
      BY <1>1, <1>9, <2>2, <3>1
  <2> QED
    BY <1>9, <2>1, <2>2, DropNone
<1>10. ASSUME NEW r \in sent, ServeDetach(r) PROVE Holds' /\ Known'
  <2>1. ConnOf[r.a] \in Conns
    BY Requests
  <2> QED
    BY <1>9, <1>10, <2>1 DEF ServeDetach, history
<1>11. ASSUME NEW c \in Conns, Teardown(c) PROVE Holds' /\ Known'
  BY <1>9, <1>11 DEF Teardown, history
<1>12. ASSUME NEW c \in Conns, Arm(c) PROVE Holds' /\ Known'
  <2>1. \A d \in Conns \ {c} : doing'[d] = doing[d]
    BY <1>a, <1>12 DEF Arm
  <2> QED
    BY <1>2, <1>12, <2>1 DEF Arm
<1>13. ASSUME NEW c \in Conns, Enroll(c) PROVE Holds' /\ Known'
  <2> DEFINE a == doing[c].a
             s == doing[c].s
             holds == \E d \in latest : doing[d].s <= s
  <2>1. a \in Attachments /\ s \in Nat \ {0} /\ ConnOf[a] = c
    BY <1>13, InHand DEF Enroll, Handled
  <2>2. a \notin DOMAIN votes
    BY <1>13, <2>1 DEF Enroll, Fresh, Early, Enrolling
  <2>3. /\ votes' # NoVotes
        /\ votes = NoVotes => Smallest' = s
        /\ votes # NoVotes => Smallest' = IF Smallest <= s THEN Smallest ELSE s
    BY <1>13, <2>1, <2>2, NewVote DEF Enroll
  <2>4. c \notin latest /\ \A d \in Conns \ {c} : doing'[d] = doing[d]
    BY <1>0, <1>a, <1>13 DEF Enroll
  <2>5. /\ size' = size
        /\ latest' = IF holds THEN latest ELSE {}
        /\ raced' = (raced \/ (~holds /\ s # size))
    BY <1>13 DEF Enroll
  <2>6. Holds'
    BY <1>0, <1>a, <2>4, <2>5
  <2>7. CASE \E d \in Conns : doing[d].at = "measure"
    <3>1. PICK d \in Conns : doing[d].at = "measure"
      BY <2>7
    <3>2. doing'[d].at = "measure"
      BY <1>13, <2>4, <3>1 DEF Enroll
    <3> QED
      BY <2>6, <3>2
  <2>8. CASE latest = {} /\ (votes = NoVotes \/ raced \/ size = Smallest)
    <3>1. latest' = {} /\ (raced' <=> raced \/ s # size)
      BY <2>5, <2>8
    <3>2. raced' \/ size' = Smallest'
      BY <2>1, <2>3, <2>5, <2>8, <3>1, SmallestIs
    <3> QED
      BY <2>6, <3>1, <3>2
  <2>9. CASE votes # NoVotes /\ \E d \in latest : doing[d].s = Smallest
    <3>1. PICK d \in latest : doing[d].s = Smallest
      BY <2>9
    <3>2. latest = {d} /\ Smallest \in Nat
      BY <1>0, <2>9, SmallestIs
    <3>3. CASE Smallest <= s
      <4>1. holds
        BY <3>1, <3>3
      <4>2. d \in latest' /\ doing'[d].s = Smallest'
        BY <1>a, <2>3, <2>4, <2>5, <2>9, <3>1, <3>3, <4>1
      <4> QED
        BY <2>3, <2>6, <4>2
    <3>4. CASE ~(Smallest <= s)
      <4>1. ~holds
        BY <3>1, <3>2, <3>4
      <4>2. latest' = {} /\ (raced' \/ size' = Smallest')
        BY <2>3, <2>5, <2>9, <3>4, <4>1
      <4> QED
        BY <2>6, <4>2
    <3> QED
      BY <3>3, <3>4
  <2> QED
    BY <1>0, <2>7, <2>8, <2>9
<1>14. ASSUME NEW c \in Conns, Measure(c) PROVE Holds' /\ Known'
  <2>1. votes' = votes
    BY <1>14 DEF Measure, sizeVars
  <2>2. CASE votes = NoVotes
    BY <1>14, <2>1, <2>2 DEF Measure
  <2>3. CASE votes # NoVotes
    <3>1. latest' = {c} /\ doing'[c] = At("apply", doing[c].a, Smallest)
      BY <1>a, <1>14, <2>3 DEF Measure
    <3> QED
      BY <1>b, <2>1, <2>3, <3>1 DEF At
  <2> QED
    BY <2>2, <2>3
<1>15. ASSUME NEW c \in Conns, Apply(c) PROVE Holds' /\ Known'
  <2>1. /\ votes' = votes /\ latest' = latest \ {c} /\ size' = doing[c].s
        /\ raced' = (latest # {c} /\ (raced \/ latest # {} \/ doing[c].s # size))
    BY <1>15 DEF Apply
  <2>2. \A d \in Conns \ {c} : doing'[d] = doing[d]
    BY <1>a, <1>15 DEF Apply
  <2>3. Holds'
    BY <1>0, <1>a, <2>1, <2>2
  <2>4. CASE \E d \in Conns : doing[d].at = "measure"
    <3>1. PICK d \in Conns : doing[d].at = "measure"
      BY <2>4
    <3>2. doing'[d].at = "measure"
      BY <1>15, <2>2, <3>1 DEF Apply
    <3> QED
      BY <2>3, <3>2
  <2>5. CASE latest = {} /\ (votes = NoVotes \/ raced \/ size = Smallest)
    BY <1>b, <2>1, <2>3, <2>5
  <2>6. CASE votes # NoVotes /\ \E d \in latest : doing[d].s = Smallest
    <3>1. PICK d \in latest : doing[d].s = Smallest
      BY <2>6
    <3>2. latest = {d}
      BY <1>0
    <3>3. CASE d = c
      BY <1>b, <2>1, <2>3, <3>1, <3>2, <3>3
    <3>4. CASE d # c
      BY <1>a, <1>b, <2>1, <2>2, <2>3, <2>6, <3>1, <3>2, <3>4
    <3> QED
      BY <3>3, <3>4
  <2> QED
    BY <1>0, <2>4, <2>5, <2>6
<1>16. ASSUME NEW t \in tasks, ResendCheck(t) \/ ResendApply(t) PROVE Holds' /\ Known'
  BY <1>1, <1>16 DEF ResendCheck, ResendApply, history
<1>17. CASE UNCHANGED vars
  BY <1>1, <1>17 DEF vars, sizeVars, history
<1> QED
  BY <1>4, <1>5, <1>6, <1>7, <1>8, <1>10, <1>11, <1>12, <1>13, <1>14, <1>15, <1>16, <1>17 DEF Next

-----------------------------------------------------------------------------
(* The resends.                                                            *)

\* The resends that count lead to the size in effect.
LEMMA ArmedKept ==
  ASSUME TypeOK, Armed, [Next]_vars
  PROVE  Armed'
<1> DEFINE OneChecked == \A t, u \in tasks : t.checked /\ u.checked => t = u
           Past == \A t \in tasks : t.seq <= seq
           Done == (\A c \in Conns : doing[c].at # "arm") /\ ~crossed
           Right == /\ \A t \in tasks : t.seq = seq => t.size = size
                    /\ kernel = size \/ \E t \in tasks : t.seq = seq
                    /\ \A t \in tasks : t.checked /\ t.size # size => \E u \in tasks : u.seq = seq
<1> SUFFICES OneChecked' /\ Past' /\ (Done' => Right')
  BY DEF Armed
<1>0. OneChecked /\ Past /\ (Done => Right)
  BY DEF Armed
<1>a. doing \in [Conns -> Doing] /\ tasks \subseteq Task /\ seq \in Nat
  BY DEF TypeOK
<1>1. ASSUME UNCHANGED <<size, kernel, seq, tasks, crossed>>,
             \A d \in Conns : doing[d].at = "arm" => doing'[d] = doing[d]
      PROVE  OneChecked' /\ Past' /\ (Done' => Right')
  BY <1>0, <1>1
<1>2. ASSUME NEW a \in Attachments, SendAttach(a) \/ GiveUp(a) \/ PaneResize(a) \/ PaneDetach(a)
      PROVE  OneChecked' /\ Past' /\ (Done' => Right')
  BY <1>1, <1>2 DEF SendAttach, GiveUp, PaneResize, PaneDetach, sizeVars, history
<1>3. ASSUME NEW c \in Conns, Disconnect(c) PROVE OneChecked' /\ Past' /\ (Done' => Right')
  BY <1>1, <1>3 DEF Disconnect, sizeVars, history
<1>4. ASSUME NEW r \in sent, Lose(r) PROVE OneChecked' /\ Past' /\ (Done' => Right')
  BY <1>1, <1>4 DEF Lose, sizeVars, history
<1>5. ASSUME NEW r \in sent, ServeAttach(r) \/ ServeResize(r) \/ ServeDetach(r)
      PROVE  OneChecked' /\ Past' /\ (Done' => Right')
  <2>1. doing[ConnOf[r.a]].at = "idle"
    BY <1>5 DEF ServeAttach, ServeResize, ServeDetach, Serve, Idle
  <2>2. \A d \in Conns : d # ConnOf[r.a] => doing'[d] = doing[d]
    BY <1>a, <1>5 DEF ServeAttach, ServeResize, ServeDetach, Serve, DropVote
  <2>3. UNCHANGED <<size, kernel, seq, tasks, crossed>>
    BY <1>5 DEF ServeAttach, ServeResize, ServeDetach, sizeVars, history
  <2> QED
    BY <1>1, <2>1, <2>2, <2>3
<1>6. ASSUME NEW c \in Conns, Enroll(c) \/ Teardown(c) \/ Measure(c)
      PROVE  OneChecked' /\ Past' /\ (Done' => Right')
  <2>1. doing[c].at # "arm"
    BY <1>6 DEF Enroll, Teardown, Measure, Idle
  <2>2. \A d \in Conns : d # c => doing'[d] = doing[d]
    BY <1>a, <1>6 DEF Enroll, Teardown, Measure, DropVote
  <2>3. UNCHANGED <<size, kernel, seq, tasks, crossed>>
    BY <1>6 DEF Enroll, Teardown, Measure, sizeVars, history
  <2> QED
    BY <1>1, <2>1, <2>2, <2>3
<1>7. ASSUME NEW c \in Conns, Apply(c) PROVE OneChecked' /\ Past' /\ (Done' => Right')
  <2>1. UNCHANGED <<seq, tasks, crossed>> /\ \A d \in Conns \ {c} : doing'[d] = doing[d]
    BY <1>a, <1>7 DEF Apply
  <2>2. CASE doing[c].s = size
    BY <1>1, <1>7, <2>1, <2>2 DEF Apply
  <2>3. CASE doing[c].s # size
    <3>1. doing'[c].at = "arm"
      BY <1>a, <1>7, <2>3 DEF Apply, At
    <3> QED
      BY <1>0, <2>1, <3>1
  <2> QED
    BY <2>2, <2>3
<1>8. ASSUME NEW c \in Conns, Arm(c) PROVE OneChecked' /\ Past' /\ (Done' => Right')
  <2> DEFINE n == [seq |-> seq + 1, size |-> doing[c].s, left |-> Resends, checked |-> FALSE]
  <2>1. /\ tasks' = tasks \cup {n} /\ seq' = seq + 1 /\ UNCHANGED <<size, kernel>>
        /\ crossed' = (doing[c].s # size)
    BY <1>8 DEF Arm
  <2>2. n.seq = seq + 1 /\ n.size = doing[c].s /\ n.checked = FALSE
    OBVIOUS
  <2> HIDE DEF n
  <2>3. \A t \in tasks : t.seq \in Nat /\ t.seq # seq + 1 /\ t.seq <= seq + 1
    BY <1>0, <1>a DEF Task
  <2>4. OneChecked' /\ Past'
    BY <1>0, <1>a, <2>1, <2>2, <2>3
  <2>5. ASSUME Done' PROVE Right'
    BY <2>1, <2>2, <2>3, <2>5
  <2> QED
    BY <2>4, <2>5
<1>9. ASSUME NEW t \in tasks, ResendCheck(t) PROVE OneChecked' /\ Past' /\ (Done' => Right')
  <2>1. UNCHANGED <<doing, size, kernel, seq, crossed>> /\ \A u \in tasks : ~u.checked
    BY <1>9 DEF ResendCheck, history
  <2>2. CASE t.seq # seq
    <3>1. tasks' = tasks \ {t}
      BY <1>9, <2>2 DEF ResendCheck
    <3> QED
      BY <1>0, <2>1, <2>2, <3>1
  <2>3. CASE t.seq = seq
    <3> DEFINE n == [t EXCEPT !.checked = TRUE]
    <3>1. tasks' = (tasks \ {t}) \cup {n}
      BY <1>9, <2>3 DEF ResendCheck
    <3>2. n.seq = t.seq /\ n.size = t.size
      BY <1>a DEF Task
    <3> HIDE DEF n
    <3>3. OneChecked' /\ Past'
      BY <1>0, <2>1, <3>1, <3>2
    <3>4. ASSUME Done' PROVE Right'
      <4>1. Right
        BY <1>0, <2>1, <3>4
      <4> QED
        BY <2>1, <2>3, <3>1, <3>2, <4>1
    <3> QED
      BY <3>3, <3>4
  <2> QED
    BY <2>2, <2>3
<1>10. ASSUME NEW t \in tasks, ResendApply(t) PROVE OneChecked' /\ Past' /\ (Done' => Right')
  <2>1. UNCHANGED <<doing, size, seq, crossed>> /\ kernel' = t.size /\ t.checked
    BY <1>10 DEF ResendApply, history
  <2>2. \A u \in tasks \ {t} : ~u.checked
    BY <1>0, <2>1
  <2>3. /\ tasks \ {t} \subseteq tasks'
        /\ \A u \in tasks' : u \in tasks \ {t} \/ (u.seq = t.seq /\ u.size = t.size /\ ~u.checked)
    <3>1. \/ tasks' = tasks \ {t}
          \/ \E u : /\ u.seq = t.seq /\ u.size = t.size /\ u.checked = ~t.checked
                   /\ tasks' = (tasks \ {t}) \cup {u}
      BY <1>10, TaskSteps
    <3> QED
      BY <2>1, <3>1
  <2>4. OneChecked' /\ Past'
    BY <1>0, <2>1, <2>2, <2>3
  <2>5. ASSUME Done' PROVE Right'
    <3>1. Right
      BY <1>0, <2>1, <2>5
    <3>2. \A u \in tasks' : u.seq = seq => u.size = size
      BY <2>3, <3>1
    <3>3. \A u \in tasks' : ~u.checked
      BY <2>2, <2>3
    <3>4. t.size = size \/ \E u \in tasks' : u.seq = seq
      BY <2>1, <2>3, <3>1
    <3> QED
      BY <2>1, <3>2, <3>3, <3>4
  <2> QED
    BY <2>4, <2>5
<1>11. CASE UNCHANGED vars
  BY <1>1, <1>11 DEF vars, sizeVars, history
<1> QED
  BY <1>2, <1>3, <1>4, <1>5, <1>6, <1>7, <1>8, <1>9, <1>10, <1>11 DEF Next

-----------------------------------------------------------------------------
(* One connection.                                                         *)

\* A single handler meets no race.
LEMMA UnracedKept ==
  ASSUME TypeOK, Alone, Unraced, [Next]_vars
  PROVE  Unraced'
<1> DEFINE Hands == \A c \in Conns :
                      /\ doing[c].at \in {"enroll", "arm"} => doing[c].s = size
                      /\ doing[c].at = "apply" => latest = {c}
<1> SUFFICES ~raced' /\ ~crossed' /\ Hands'
  BY DEF Unraced
<1>0. ~raced /\ ~crossed /\ Hands
  BY DEF Unraced
<1>a. doing \in [Conns -> Doing]
  BY DEF TypeOK
<1>b. \A c, d \in Conns : c = d
  BY SizeAssumption DEF Alone, Conns, Range
<1>1. ASSUME UNCHANGED <<doing, size, history>> PROVE ~raced' /\ ~crossed' /\ Hands'
  BY <1>0, <1>1 DEF history
<1>2. ASSUME NEW a \in Attachments, SendAttach(a) \/ GiveUp(a) \/ PaneResize(a) \/ PaneDetach(a)
      PROVE  ~raced' /\ ~crossed' /\ Hands'
  BY <1>1, <1>2 DEF SendAttach, GiveUp, PaneResize, PaneDetach, sizeVars
<1>3. ASSUME NEW c \in Conns, Disconnect(c) PROVE ~raced' /\ ~crossed' /\ Hands'
  BY <1>1, <1>3 DEF Disconnect, sizeVars
<1>4. ASSUME NEW r \in sent, Lose(r) PROVE ~raced' /\ ~crossed' /\ Hands'
  BY <1>1, <1>4 DEF Lose, sizeVars
<1>5. ASSUME NEW r \in sent, ServeAttach(r) \/ ServeResize(r) \/ ServeDetach(r)
      PROVE  ~raced' /\ ~crossed' /\ Hands'
  <2>1. ConnOf[r.a] \in Conns
    BY Requests
  <2>2. LET d == doing'[ConnOf[r.a]] IN
          d.at \in {"idle", "measure"} \/ (d.at = "enroll" /\ d.s = size)
    BY <1>a, <1>5, <2>1 DEF ServeAttach, ServeResize, ServeDetach, Serve, DropVote, At, Idle
  <2>3. UNCHANGED <<size, raced, crossed>>
    BY <1>5 DEF ServeAttach, ServeResize, ServeDetach, sizeVars, history
  <2> QED
    BY <1>0, <1>b, <2>1, <2>2, <2>3
<1>6. ASSUME NEW c \in Conns, Teardown(c) PROVE ~raced' /\ ~crossed' /\ Hands'
  <2>1. doing'[c].at \in {"idle", "measure"}
    BY <1>a, <1>6 DEF Teardown, DropVote, At, Idle
  <2> QED
    BY <1>0, <1>b, <1>6, <2>1 DEF Teardown, history
<1>7. ASSUME NEW c \in Conns, Enroll(c) PROVE ~raced' /\ ~crossed' /\ Hands'
  <2>1. doing'[c].at = "idle"
    BY <1>a, <1>7 DEF Enroll, Idle
  <2>2. doing[c].s = size
    BY <1>0, <1>7 DEF Enroll
  <2>3. ~raced' /\ ~crossed'
    BY <1>0, <1>7, <2>2 DEF Enroll
  <2> QED
    BY <1>b, <2>1, <2>3
<1>8. ASSUME NEW c \in Conns, Measure(c) PROVE ~raced' /\ ~crossed' /\ Hands'
  <2>1. doing'[c].at = "idle" \/ (doing'[c].at = "apply" /\ latest' = {c})
    BY <1>a, <1>8 DEF Measure, At, Idle
  <2> QED
    BY <1>0, <1>b, <1>8, <2>1 DEF Measure
<1>9. ASSUME NEW c \in Conns, Apply(c) PROVE ~raced' /\ ~crossed' /\ Hands'
  <2>1. doing'[c].at = "idle" \/ (doing'[c].at = "arm" /\ doing'[c].s = size')
    BY <1>a, <1>9 DEF Apply, At, Idle
  <2>2. latest = {c}
    BY <1>0, <1>9 DEF Apply
  <2>3. ~raced' /\ ~crossed'
    BY <1>0, <1>9, <2>2 DEF Apply
  <2> QED
    BY <1>b, <2>1, <2>3
<1>10. ASSUME NEW c \in Conns, Arm(c) PROVE ~raced' /\ ~crossed' /\ Hands'
  <2>1. doing'[c].at = "idle"
    BY <1>a, <1>10 DEF Arm, Idle
  <2>2. doing[c].s = size
    BY <1>0, <1>10 DEF Arm
  <2> QED
    BY <1>0, <1>b, <1>10, <2>1, <2>2 DEF Arm
<1>11. ASSUME NEW t \in tasks, ResendCheck(t) \/ ResendApply(t) PROVE ~raced' /\ ~crossed' /\ Hands'
  BY <1>1, <1>11 DEF ResendCheck, ResendApply
<1>12. CASE UNCHANGED vars
  BY <1>1, <1>12 DEF vars, sizeVars
<1> QED
  BY <1>2, <1>3, <1>4, <1>5, <1>6, <1>7, <1>8, <1>9, <1>10, <1>11, <1>12 DEF Next

-----------------------------------------------------------------------------
(* The theorems.                                                           *)

\* Every step keeps the invariant.
LEMMA InvNext == Inv /\ [Next]_vars => Inv'
<1> SUFFICES ASSUME Inv, [Next]_vars PROVE Inv'
  OBVIOUS
<1>1. TypeOK /\ Handled /\ Fresh /\ Listed /\ Newest /\ Armed /\ (Alone => Unraced)
  BY DEF Inv
<1>2. TypeOK' /\ Handled' /\ Fresh' /\ Listed'
  BY <1>1, TypeKept, HandledKept, FreshKept, ListedKept
<1>3. Newest' /\ Armed'
  BY <1>1, NewestKept, ArmedKept
<1>4. (Alone => Unraced)'
  BY <1>1, UnracedKept DEF Alone
<1> QED
  BY <1>2, <1>3, <1>4 DEF Inv

\* The inductive invariant holds.
THEOREM Invariance == Spec => []Inv
BY InitInv, InvNext, PTL DEF Spec

\* Every variable has its type; no size is ever 0: apply_effective_size.
THEOREM TypeCorrect == Spec => []TypeOK
<1>1. Inv => TypeOK
  BY DEF Inv
<1> QED
  BY <1>1, Invariance, PTL

\* What the invariant gives at rest.
LEMMA InvImplies == Inv => SettledSize /\ KernelSettles
<1> SUFFICES ASSUME Inv PROVE SettledSize /\ KernelSettles
  OBVIOUS
<1>1. Quiet => \A c \in Conns : doing[c].at = "idle"
  BY DEF Quiet, Idle
<1>2. Quiet /\ votes # NoVotes => size = Smallest \/ raced
  <2>1. \A c \in latest : c \in Conns
    BY DEF Inv, TypeOK
  <2> QED
    BY <1>1, <2>1 DEF Inv, Newest
<1>3. Quiet /\ tasks = {} => kernel = size \/ crossed
  BY <1>1 DEF Inv, Armed
<1> QED
  BY <1>2, <1>3 DEF SettledSize, KernelSettles, Quiet

\* Between two requests the size in effect is the smallest vote, however many
\* panes of however many connections come and go, save after a race of two
\* connections: apply_effective_size, attach, detach.
THEOREM SizeSettles == Spec => []SettledSize
BY InvImplies, Invariance, PTL

\* When no resend is left and no request under way the kernel has the size in
\* effect, save after resends armed in the wrong order: arm_resize_resend.
THEOREM KernelAgrees == Spec => []KernelSettles
BY InvImplies, Invariance, PTL

\* Every vote of a pane that did not detach is one the end of its connection
\* withdraws: the attachments dispatch_loop keeps.
THEOREM VotesAreWithdrawn == Spec => []LostPanesDoNotVote
<1>1. Inv => LostPanesDoNotVote
  BY DEF Inv, Listed, LostPanesDoNotVote
<1> QED
  BY <1>1, Invariance, PTL

\* With one connection there is no race: between two requests the size in effect
\* is the smallest vote, and the kernel has it once no resend is left.
THEOREM OneClientNeverRaces == Alone => (Spec => []Exact)
<1>1. Inv /\ Alone => Exact
  <2> SUFFICES ASSUME Inv, Alone, Quiet PROVE (votes # NoVotes => size = Smallest) /\ (tasks = {} => kernel = size)
    BY DEF Exact
  <2>1. ~raced /\ ~crossed
    BY DEF Inv, Unraced
  <2>2. SettledSize /\ KernelSettles
    BY InvImplies
  <2> QED
    BY <2>1, <2>2 DEF SettledSize, KernelSettles, Quiet
<1>2. SUFFICES ASSUME Alone PROVE Spec => []Exact
  OBVIOUS
<1>3. Inv => Exact
  BY <1>1, <1>2
<1> QED
  BY <1>3, Invariance, PTL
=============================================================================
