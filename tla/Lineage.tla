-------------------------------- MODULE Lineage --------------------------------
(***************************************************************************)
(* Which agent started which, under which caps: the lineage table, the     *)
(* launches that reserve a row and settle it, the sessions they open, and  *)
(* the cancels, renames, parkings and restarts that meet them half-way.    *)
(*                                                                         *)
(* crates/agents/src/lineage.rs; crates/remote-host/src/dispatcher/        *)
(* spawn.rs, host_core.rs; apps/desktop/src/shell/agent_chat/              *)
(* remote_link.rs; crates/storage/migrations/V032__agent_lineage.sql.      *)
(*                                                                         *)
(* Sessions are numbered: 0 is the root, i the one launched for row i.  A  *)
(* session's id is <<i, "temp">> (the placeholder) until its provider      *)
(* names it <<i, "own">>, if it does.  Every transaction of the table is one action; a *)
(* refused spawn changes nothing and is none.  The root spawns at any time *)
(* and how long a row has been in its state is left open: the timeouts and *)
(* graces of a sweep have passed or not as it likes.                       *)
(***************************************************************************)
EXTENDS Naturals, FiniteSets

CONSTANTS
  Asks,          \* bound: which sessions ask for children, by which request ids
                 \* and as what SpawnOrigin
  Depth,         \* SpawnCaps, as clamped
  ActivePerParent, ActivePerRoot, OpenPerRoot, LifetimePerRoot,
  FailLimit,     \* START_FAILURE_LIMIT
  MaxRows,       \* bound: rows ever inserted
  MaxSpent       \* bound: failed launches, cancels, restarts, closes; turns after the first

ASSUME LineageAssumption ==
  /\ \A ask \in Asks : ask.from \in 0..MaxRows /\ ask.origin \in {"agent", "user"}
  /\ {Depth, ActivePerParent, ActivePerRoot, OpenPerRoot, LifetimePerRoot} \subseteq Nat
  /\ FailLimit \in Nat \ {0} /\ MaxRows \in Nat /\ MaxSpent \in Nat

Ids == 1..MaxRows
Sessions == 0..MaxRows
Names == Sessions \X {"temp", "own"}

VARIABLES
  row,       \* agent_lineage, by row id
  next,      \* the next row id (AUTOINCREMENT)
  fails,     \* agent_spawn_failures, by parent id: [n, cooling]
  job,       \* the LaunchJob of a row
  got,       \* the id create_child answered with, until the job is over
  name,      \* the id a session goes by now; none before it is launched
  open,      \* sessions in the registry
  work,      \* "idle", "queued" (a prompt waits in its gate), "running"
  again,     \* sessions whose second rekey is still queued (HostWriter)
  stopping,  \* ids a cancel still has to stop
  spent,     \* how much of MaxSpent is used
  asked,     \* history: by whom and as what a row was asked for
  prompted,  \* history: sessions that were given their prompt
  revived,   \* history: rows that went back to active
  orphaned,  \* history: rows finalized under an id their session no longer has
  unknown    \* history: children that spawned while no row named them

sessionVars == <<name, open, work>>
history == <<asked, prompted, revived, orphaned, unknown>>
vars == <<row, next, fails, job, got, sessionVars, again, stopping, spent, history>>

NoName == <<>>
NoRow == [st |-> "none", ses |-> NoName, parent |-> NoName, root |-> NoName, depth |-> 0,
          req |-> "none", origin |-> "none"]
NoFails == [n |-> 0, cooling |-> FALSE]
NoAsk == <<>>

Spend == spent < MaxSpent /\ spent' = spent + 1

Init ==
  /\ row = [i \in Ids |-> NoRow] /\ next = 1
  /\ fails = [n \in Names |-> NoFails]
  /\ job = [i \in Ids |-> "none"] /\ got = [i \in Ids |-> NoName]
  /\ name = [s \in Sessions |-> IF s = 0 THEN <<0, "own">> ELSE NoName] /\ open = {0}
  /\ work = [s \in Sessions |-> "idle"]
  /\ again = {} /\ stopping = {} /\ spent = 0
  /\ asked = [i \in Ids |-> NoAsk] /\ prompted = {} /\ revived = {} /\ orphaned = {}
  /\ unknown = {}

-----------------------------------------------------------------------------
(* The table.                                                              *)

In(t, states) == {i \in Ids : t[i].st \in states}

Rows(t) == {i \in Ids : t[i].st # "none"}

\* UNIQUE (session_id): at most one.
RowsOf(t, n) == {i \in Rows(t) : t[i].ses = n}

Delete(t, is) == [i \in Ids |-> IF i \in is THEN NoRow ELSE t[i]]

Move(t, is, to) == [i \in Ids |-> IF i \in is THEN [t[i] EXCEPT !.st = to] ELSE t[i]]

\* RegistryWorking
Working(n) == \E s \in open : name[s] = n /\ work[s] # "idle"

\* The active rows of a tree that may park.  Whether ACTIVE_GRACE_S has passed
\* is for the caller to choose.
Resting(t, root) == {i \in In(t, {"active"}) : t[i].root = root /\ ~Working(t[i].ses)}

\* reconcile_tree: the late reservations go, in any tree, and the graceless
\* active rows of this one park.
ReconcileTree(t, late, graceless) == Move(Delete(t, late), graceless, "parked")

\* boot_reconcile
\* (Mutants: it parks every row; it leaves the reservations.)
BootParks(t) == Move(t, In(t, {"reserved", "active"}), "parked")
BootKeeps(t) == Move(t, In(t, {"active"}), "parked")
BootReconcile(t) == Move(Delete(t, In(t, {"reserved"})), In(t, {"active"}), "parked")

\* Mutant: every parent is the root of its children.
PlaceFlat(n) ==
  [depth |-> IF RowsOf(row, n) = {} THEN 1 ELSE row[CHOOSE i \in RowsOf(row, n) : TRUE].depth + 1,
   root |-> n]

\* Where a child of n sits.  A session no row names is a root.
Place(n) ==
  IF RowsOf(row, n) = {}
    THEN [depth |-> 1, root |-> n]
    ELSE LET i == CHOOSE i \in RowsOf(row, n) : TRUE
         IN  [depth |-> row[i].depth + 1, root |-> row[i].root]

Ended(n) == \E i \in RowsOf(row, n) : row[i].st = "ended"

Tripped(n) == fails[n].n >= FailLimit /\ fails[n].cooling

\* The caps on a child of n in the tree of root, counted on table t.
Room(t, n, root) ==
  LET mine == {i \in Rows(t) : t[i].origin = "agent" /\ t[i].root = root}
      busy == {i \in mine : t[i].st \in {"reserved", "active"}}
  IN  /\ Cardinality({i \in In(t, {"reserved", "active"}) :
                        t[i].origin = "agent" /\ t[i].parent = n}) < ActivePerParent
      /\ Cardinality(busy) < ActivePerRoot
      /\ Cardinality({i \in mine : t[i].st # "ended"}) < OpenPerRoot
      /\ Cardinality(mine) < LifetimePerRoot

-----------------------------------------------------------------------------
(* A spawn: reserve, launch, finalize or roll back, give the prompt.       *)

\* spawn_agent up to the task it starts, and reserve.  A child spawns in a turn
\* of its own; RESERVATION_TIMEOUT_S has passed for the late reservations.
Reserve(p, q, o) ==
  /\ next \in Ids /\ p \in open /\ (o = "agent" /\ p # 0 => work[p] = "running")
  /\ \E late \in SUBSET In(row, {"reserved"}) :
     \E graceless \in SUBSET Resting(row, Place(name[p]).root) :
     LET n == name[p]
         t == ReconcileTree(row, late, graceless)
     IN  /\ ~Ended(n)
         /\ {i \in Rows(row) : row[i].parent = n /\ row[i].req = q} \subseteq late
         /\ Place(n).depth <= Depth
         /\ o = "agent" => ~Tripped(n) /\ Room(t, n, Place(n).root)
         /\ row' = [t EXCEPT ![next] = [st |-> "reserved", ses |-> NoName, parent |-> n,
                      root |-> Place(n).root, depth |-> Place(n).depth, req |-> q,
                      origin |-> o]]
  /\ next' = next + 1
  /\ job' = [job EXCEPT ![next] = "launching"]
  /\ asked' = [asked EXCEPT ![next] = <<p, q>>]
  /\ unknown' = IF p # 0 /\ RowsOf(row, name[p]) = {} THEN unknown \cup {p} ELSE unknown
  /\ UNCHANGED <<fails, got, sessionVars, again, stopping, spent, prompted, revived, orphaned>>

\* create_child: the tab is open and its session registered.
Launch(i) ==
  /\ job[i] = "launching"
  /\ job' = [job EXCEPT ![i] = "launched"]
  /\ name' = [name EXCEPT ![i] = <<i, "temp">>]
  /\ got' = [got EXCEPT ![i] = <<i, "temp">>]
  /\ open' = open \cup {i}
  /\ UNCHANGED <<row, next, fails, work, again, stopping, spent, history>>

\* WHERE id = i AND state = 'reserved'
\* (Mutant: without the state.)
HeldAnyway(i) == TRUE
Held(i) == row[i].st = "reserved"

\* rollback
LaunchFails(i) ==
  /\ job[i] = "launching" /\ Spend
  /\ job' = [job EXCEPT ![i] = "over"]
  /\ IF Held(i)
       THEN /\ row' = Delete(row, {i})
            /\ fails' = IF row[i].origin = "user" THEN fails
                        ELSE [fails EXCEPT ![row[i].parent] = [n |-> IF @.n < FailLimit THEN @.n + 1 ELSE @.n,
                                                               cooling |-> TRUE]]
       ELSE UNCHANGED <<row, fails>>
  /\ UNCHANGED <<next, got, sessionVars, again, stopping, history>>

\* finalize.  A reservation that is gone leaves the session open, idle and
\* without a prompt.
Finalize(i) ==
  /\ job[i] = "launched"
  /\ IF Held(i)
       THEN /\ row' = [row EXCEPT ![i].st = "active", ![i].ses = got[i]]
            /\ fails' = [fails EXCEPT ![row[i].parent] = NoFails]
            /\ job' = [job EXCEPT ![i] = "recorded"] /\ UNCHANGED got
            /\ orphaned' = IF got[i] = name[i] THEN orphaned ELSE orphaned \cup {i}
       ELSE /\ job' = [job EXCEPT ![i] = "over"] /\ got' = [got EXCEPT ![i] = NoName]
            /\ UNCHANGED <<row, fails, orphaned>>
  /\ UNCHANGED <<next, sessionVars, again, stopping, spent, asked, prompted, revived, unknown>>

\* The prompt goes to the session that has the launched id, if one has.
Deliver(i) ==
  /\ job[i] = "recorded"
  /\ job' = [job EXCEPT ![i] = "over"] /\ got' = [got EXCEPT ![i] = NoName]
  /\ IF i \in open /\ name[i] = got[i]
       THEN /\ work' = [work EXCEPT ![i] = IF @ = "idle" THEN "queued" ELSE @]
            /\ prompted' = prompted \cup {i}
       ELSE UNCHANGED <<work, prompted>>
  /\ UNCHANGED <<row, next, fails, name, open, again, stopping, spent,
                 asked, revived, orphaned, unknown>>

-----------------------------------------------------------------------------
(* The sessions.                                                           *)

\* Mutant: the session's own row keeps the old id.
RenamedBeneath(old, new) ==
  LET to(n) == IF n = old THEN new ELSE n
  IN  /\ row' = [i \in Ids |-> [row[i] EXCEPT !.parent = to(@), !.root = to(@)]]
      /\ fails' = IF fails[old] = NoFails THEN fails
                  ELSE [fails EXCEPT ![new] = fails[old], ![old] = NoFails]

\* LineageStore::rekey
Renamed(old, new) ==
  LET to(n) == IF n = old THEN new ELSE n
  IN  /\ row' = [i \in Ids |-> [row[i] EXCEPT !.ses = to(@), !.parent = to(@), !.root = to(@)]]
      /\ fails' = IF fails[old] = NoFails THEN fails
                  ELSE [fails EXCEPT ![new] = fails[old], ![old] = NoFails]

\* The provider names its session: rekey_remote_session_if_needed renames at
\* once and once more behind the writes queued under the old id.
Rekey(i) ==
  /\ i \in open /\ name[i] = <<i, "temp">>
  /\ name' = [name EXCEPT ![i] = <<i, "own">>]
  /\ Renamed(<<i, "temp">>, <<i, "own">>)
  /\ again' = again \cup {i}
  /\ UNCHANGED <<next, job, got, open, work, stopping, spent, history>>

RekeyAgain(i) ==
  /\ i \in again
  /\ again' = again \ {i}
  /\ Renamed(<<i, "temp">>, <<i, "own">>)
  /\ orphaned' = orphaned \ {i}
  /\ UNCHANGED <<next, job, got, sessionVars, stopping, spent, asked, prompted, revived, unknown>>

\* The view sends what waits in its gate.
StartTurn(s) ==
  /\ work[s] = "queued"
  /\ work' = [work EXCEPT ![s] = "running"]
  /\ UNCHANGED <<row, next, fails, job, got, name, open, again, stopping, spent, history>>

EndTurn(s) ==
  /\ work[s] = "running"
  /\ work' = [work EXCEPT ![s] = "idle"]
  /\ UNCHANGED <<row, next, fails, job, got, name, open, again, stopping, spent, history>>

\* The user types into it: an ended child too.
UserTurn(s) ==
  /\ s \in open \ {0} /\ work[s] = "idle" /\ Spend
  /\ work' = [work EXCEPT ![s] = "running"]
  /\ UNCHANGED <<row, next, fails, job, got, name, open, again, stopping, history>>

\* An agent's message: refuse_ended_helper lets none through to an ended one.
Message(s) ==
  /\ s \in open \ {0} /\ work[s] = "idle" /\ ~Ended(name[s]) /\ Spend
  /\ work' = [work EXCEPT ![s] = "queued"]
  /\ UNCHANGED <<row, next, fails, job, got, name, open, again, stopping, history>>

Close(s) ==
  /\ s \in open \ {0} /\ Spend
  /\ open' = open \ {s} /\ work' = [work EXCEPT ![s] = "idle"]
  /\ UNCHANGED <<row, next, fails, job, got, name, again, stopping, history>>

Reopen(s) ==
  /\ s \in Ids \ open /\ name[s] # NoName
  /\ open' = open \cup {s}
  /\ UNCHANGED <<row, next, fails, job, got, name, work, again, stopping, spent, history>>

-----------------------------------------------------------------------------
(* Cancel, park, revive, restart.                                          *)

\* Every session id in the table beneath n, n included, ended ones too.
Beneath(n) ==
  LET reach[k \in 0..MaxRows] ==
        IF k = 0 THEN {n}
        ELSE reach[k - 1] \cup
             {row[i].ses : i \in {j \in Rows(row) : row[j].ses # NoName /\ row[j].parent \in reach[k - 1]}}
  IN  reach[MaxRows]

\* The reservations a cancel gives up: their launches find no slot.
\* (Mutant: none.)
VoidNone(frontier) == {}
Void(frontier) == {i \in In(row, {"reserved"}) : row[i].parent \in frontier}

\* cancel_agent: mark_ended, and the sessions to stop
Cancel(s, cascade) ==
  /\ name[s] # NoName /\ Spend
  /\ LET frontier == IF cascade THEN Beneath(name[s]) ELSE {name[s]}
         ends == {i \in Rows(row) : row[i].ses \in frontier \ {NoName} /\ row[i].st # "ended"}
     IN  /\ row' = Delete(Move(row, ends, "ended"), Void(frontier))
         /\ stopping' = stopping \cup {row[i].ses : i \in ends}
  /\ UNCHANGED <<next, fails, job, got, sessionVars, again, history>>

\* SessionHandle::cancel through the gate: a Stop of a chat that runs no turn
\* does nothing, and what waits in the gate waits on.
StopTurn(n) ==
  /\ n \in stopping
  /\ stopping' = stopping \ {n}
  /\ work' = [s \in Sessions |-> IF s \in open /\ name[s] = n /\ work[s] = "running" THEN "idle" ELSE work[s]]
  /\ UNCHANGED <<row, next, fails, job, got, name, open, again, spent, history>>

\* sync_lineage_states, for one row: a parked child that works is active, an
\* active one that rests parks past its grace.  The look and the write are one
\* step: what a late write gets wrong the session's next change puts right.
Sync(i) ==
  /\ \/ /\ row[i].st = "parked" /\ Working(row[i].ses)
        /\ row' = Move(row, {i}, "active") /\ revived' = revived \cup {i}
     \/ /\ row[i].st = "active" /\ ~Working(row[i].ses)
        /\ row' = Move(row, {i}, "parked") /\ UNCHANGED revived
  /\ UNCHANGED <<next, fails, job, got, sessionVars, again, stopping, spent,
                 asked, prompted, orphaned, unknown>>

\* START_FAILURE_COOLDOWN_S has passed.
Cools(n) ==
  /\ fails[n].cooling
  /\ fails' = [fails EXCEPT ![n].cooling = FALSE]
  /\ UNCHANGED <<row, next, job, got, sessionVars, again, stopping, spent, history>>

\* The host dies and its next instance starts.
Restart ==
  /\ Spend
  /\ row' = BootReconcile(row)
  /\ job' = [i \in Ids |-> IF job[i] = "none" THEN "none" ELSE "over"]
  /\ got' = [i \in Ids |-> NoName]
  /\ open' = {0} /\ work' = [s \in Sessions |-> "idle"]
  /\ again' = {} /\ stopping' = {}
  /\ UNCHANGED <<next, fails, name, history>>

Next ==
  \/ \E ask \in Asks : Reserve(ask.from, ask.req, ask.origin)
  \/ \E i \in Ids : \/ Launch(i) \/ LaunchFails(i) \/ Finalize(i) \/ Deliver(i)
                    \/ Rekey(i) \/ RekeyAgain(i) \/ Sync(i)
  \/ \E s \in Sessions : \/ StartTurn(s) \/ EndTurn(s) \/ UserTurn(s) \/ Message(s)
                         \/ Close(s) \/ Reopen(s)
                         \/ \E cascade \in BOOLEAN : Cancel(s, cascade)
  \/ \E n \in stopping : StopTurn(n)
  \/ \E n \in Names : Cools(n)
  \/ Restart

Spec == Init /\ [][Next]_vars

-----------------------------------------------------------------------------
(* What the lineage promises.                                              *)

Requests == {ask.req : ask \in Asks}

\* Every variable has its type; a row has a session's id from the moment its
\* launch is recorded, and as long as it exists.
TypeOK ==
  /\ row \in [Ids -> [st : {"none", "reserved", "active", "parked", "ended"},
                      ses : Names \cup {NoName}, parent : Names \cup {NoName},
                      root : Names \cup {NoName}, depth : 0..Depth,
                      req : Requests \cup {"none"}, origin : {"none", "agent", "user"}]]
  /\ \A i \in Ids : row[i].ses # NoName <=> row[i].st \in {"active", "parked", "ended"}
  /\ next \in 1..MaxRows + 1
  /\ fails \in [Names -> [n : 0..FailLimit, cooling : BOOLEAN]]
  /\ job \in [Ids -> {"none", "launching", "launched", "recorded", "over"}]
  /\ got \in [Ids -> Names \cup {NoName}] /\ name \in [Sessions -> Names \cup {NoName}]
  /\ open \subseteq Sessions /\ work \in [Sessions -> {"idle", "queued", "running"}]
  /\ again \subseteq Ids /\ stopping \subseteq Names /\ spent \in 0..MaxSpent
  /\ asked \in [Ids -> (Sessions \X Requests) \cup {NoAsk}]
  /\ prompted \subseteq Ids /\ revived \subseteq Ids /\ orphaned \subseteq Ids
  /\ unknown \subseteq Sessions

\* A slot is held by a launch in flight and by nothing else: not by one that
\* failed, was given up, or died with its host.
ReservedIsLaunching == \A i \in In(row, {"reserved"}) : job[i] \in {"launching", "launched"}

\* One request, one child: of all the launches a request ever led to, retried,
\* timed out or replayed, at most one was given the prompt.
OneChildPerRequest ==
  \A i, j \in prompted : asked[i] = asked[j] => i = j

\* A row names the session that was launched for it, by the id it has now.
RowNamesItsChild ==
  \A i \in In(row, {"active", "parked", "ended"}) \ orphaned : row[i].ses = name[i]

\* The caps bound the tree as it is, not only what the table calls a tree,
\* unless a child spawned that no row names: it passes for a root of its own.
TreeWithinCaps ==
  unknown = {} =>
    LET mine == {i \in Rows(row) : row[i].origin = "agent"}
        busy == {i \in mine \ revived : row[i].st \in {"reserved", "active"}}
    IN  /\ Cardinality(mine) <= LifetimePerRoot
        /\ Cardinality({i \in mine : row[i].st # "ended"}) <= OpenPerRoot
        /\ Cardinality(busy) <= ActivePerRoot
        /\ \A p \in Sessions : Cardinality({i \in busy : asked[i][1] = p}) <= ActivePerParent
        /\ \A i \in Rows(row) : asked[i][1] # 0 => row[i].depth = row[asked[i][1]].depth + 1

\* A launch that was under way when its parent was cancelled is not recorded,
\* but for a parent no row named when it spawned.
CancelledGetNoChild ==
  [][\A i \in Ids : (row[i].st = "reserved" /\ row'[i].st = "active"
                     /\ asked[i][1] \notin {0} \cup unknown)
       => row[asked[i][1]].st # "ended"]_vars

\* spawn.rs:300-302: "Ended is terminal: letting it resume would put working
\* agents outside the watcher and the working-helper caps."  A child whose
\* cancel is carried out to the end starts no turn on what was sent before.
CancelledRests ==
  [][\A i \in Ids : work[i] = "queued" /\ work'[i] = "running" /\ row[i].st = "ended"
       => \E n \in stopping : n[1] = i]_vars
=============================================================================
