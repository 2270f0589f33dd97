---------------------------- MODULE LineageProofs ----------------------------
(***************************************************************************)
(* Theorems about Lineage, for any caps, any requests and any number of    *)
(* rows.                                                                   *)
(***************************************************************************)
EXTENDS Lineage, FiniteSetTheorems, TLAPS

States == {"none", "reserved", "active", "parked", "ended"}
Kept == {"active", "parked", "ended"}
Ids0 == Names \cup {NoName}
Row == [st : States, ses : Ids0, parent : Ids0, root : Ids0, depth : 0..Depth,
        req : Requests \cup {"none"}, origin : {"none", "agent", "user"}]

LEMMA NoNameIsNone == NoName \notin Names
BY DEF NoName, Names, Sessions

LEMMA NoRowIsRow == NoRow \in Row
BY LineageAssumption DEF NoRow, Row, States, Ids0

LEMMA DeleteRow ==
  ASSUME NEW t \in [Ids -> Row], NEW is
  PROVE  /\ Delete(t, is) \in [Ids -> Row]
         /\ \A i \in Ids : Delete(t, is)[i] = IF i \in is THEN NoRow ELSE t[i]
BY NoRowIsRow DEF Delete

LEMMA MoveRow ==
  ASSUME NEW t \in [Ids -> Row], NEW is, NEW to \in States
  PROVE  /\ Move(t, is, to) \in [Ids -> Row]
         /\ \A i \in Ids : /\ i \notin is => Move(t, is, to)[i] = t[i]
                           /\ i \in is => Move(t, is, to)[i] = [t[i] EXCEPT !.st = to]
BY DEF Move, Row


-----------------------------------------------------------------------------
(* The parts of the invariant.                                             *)

RowsTyped == /\ row \in [Ids -> Row]
             /\ \A i \in Ids : row[i].ses # NoName <=> row[i].st \in Kept

OthersTyped ==
  /\ next \in 1..MaxRows + 1
  /\ fails \in [Names -> [n : 0..FailLimit, cooling : BOOLEAN]]
  /\ job \in [Ids -> {"none", "launching", "launched", "recorded", "over"}]
  /\ got \in [Ids -> Ids0] /\ name \in [Sessions -> Ids0]
  /\ open \subseteq Sessions /\ work \in [Sessions -> {"idle", "queued", "running"}]
  /\ again \subseteq Ids /\ stopping \subseteq Names /\ spent \in 0..MaxSpent
  /\ asked \in [Ids -> (Sessions \X Requests) \cup {NoAsk}]
  /\ prompted \subseteq Ids /\ revived \subseteq Ids /\ orphaned \subseteq Ids
  /\ unknown \subseteq Sessions

LEMMA TypeParts == TypeOK <=> RowsTyped /\ OthersTyped
BY DEF TypeOK, RowsTyped, OthersTyped, Row, States, Kept, Ids0

\* Where a launch is, and what its row and its session are then.
LaunchOf(i) ==
  /\ job[i] = "none" <=> i >= next
  /\ row[i].st # "none" => i < next
  /\ row[i].st = "reserved" => job[i] \in {"launching", "launched"}
  /\ job[i] \in {"none", "launching"} => name[i] = NoName
  /\ job[i] \in {"launched", "recorded"} => got[i] = <<i, "temp">> /\ name[i] # NoName
  /\ job[i] = "recorded" \/ i \in prompted => row[i].st \in Kept
  /\ row[i].st \in Kept => name[i] # NoName
Launches == \A i \in Ids : LaunchOf(i)

\* By which names a session and its row go.
Named ==
  /\ name[0] = <<0, "own">>
  /\ \A i \in Ids : {name[i], row[i].ses} \subseteq {NoName, <<i, "temp">>, <<i, "own">>}
  /\ \A s \in open : name[s] # NoName
  /\ \A i \in again : name[i] = <<i, "own">>
  /\ RowNamesItsChild

\* A row names its parent as the parent goes by now.
Kin ==
  \A i \in Rows(row) : /\ asked[i] # NoAsk
                       /\ name[asked[i][1]] # NoName
                       /\ row[i].parent = name[asked[i][1]]
                       /\ row[i].req = asked[i][2]

\* UNIQUE (parent_id, request_id)
Unique == \A i, j \in Rows(row) : row[i].parent = row[j].parent /\ row[i].req = row[j].req => i = j

\* A row hangs on its parent's, unless none named the parent when it spawned.
Placed ==
  \A i \in Rows(row) : \A p \in Ids \ unknown :
    asked[i][1] = p =>
      /\ row[p].st \in Kept /\ row[p].ses = name[p]
      /\ row[i].st = "reserved" => row[p].st # "ended"
      /\ row[i].depth = row[p].depth + 1

OneTree == unknown = {} => \A i \in Rows(row) : row[i].root = name[0]

-----------------------------------------------------------------------------
(* What a step does to the table.                                          *)

Busy == {"reserved", "active"}

Same(i) == row'[i] = row[i]
Gone(i) == row[i].st = "reserved" /\ row'[i] = NoRow
Moved(i) == /\ row[i].st \in Kept
            /\ \E st \in Kept : (row[i].st = "ended" => st = "ended") /\ row'[i] = [row[i] EXCEPT !.st = st]

\* Rows stay, move on or go; none is new.
Tidy ==
  /\ row' \in [Ids -> Row]
  /\ \A i \in Ids : Same(i) \/ Gone(i) \/ Moved(i)
  /\ \A i, p \in Ids : row'[i].st = "reserved" /\ row'[p].st = "ended" /\ row[p].st # "ended"
                         => row[i].parent # row[p].ses
  /\ \A i \in Ids : row[i].st \notin Busy /\ row'[i].st \in Busy => i \in revived'
  /\ UNCHANGED <<next, asked, orphaned, unknown>> /\ revived \subseteq revived'

LEMMA StillTidy ==
  ASSUME RowsTyped, row' = row, UNCHANGED <<next, asked, orphaned, unknown>>, revived' = revived
  PROVE  Tidy
BY DEF RowsTyped, Tidy, Same

LEMMA CancelTidy == ASSUME RowsTyped, NEW s \in Sessions, NEW c \in BOOLEAN, Cancel(s, c) PROVE Tidy
<1> DEFINE frontier == IF c THEN Beneath(name[s]) ELSE {name[s]}
           ends == {i \in Rows(row) : row[i].ses \in frontier \ {NoName} /\ row[i].st # "ended"}
           t == Move(row, ends, "ended")
           voided == {i \in In(row, {"reserved"}) : row[i].parent \in frontier}
<1>1. row' = Delete(t, voided) /\ UNCHANGED <<next, asked, orphaned, unknown, revived>>
  BY DEF Cancel, Void, history
<1>2. row \in [Ids -> Row] /\ "ended" \in States
  BY DEF RowsTyped, States
<1> HIDE DEF frontier
<1>3. \A i \in ends : i \in Ids /\ row[i].st \in Kept
  BY DEF RowsTyped, Rows
<1>4. /\ t \in [Ids -> Row]
      /\ \A i \in Ids : (i \notin ends => t[i] = row[i]) /\ (i \in ends => t[i] = [row[i] EXCEPT !.st = "ended"])
  BY <1>2, MoveRow
<1>5. voided \subseteq Ids /\ \A i \in voided : row[i].st = "reserved" /\ row[i].parent \in frontier
  BY DEF In
<1> HIDE DEF t
<1>6. row' \in [Ids -> Row] /\ \A i \in Ids : row'[i] = IF i \in voided THEN NoRow ELSE t[i]
  BY <1>1, <1>4, DeleteRow
<1>7. \A i \in Ids : /\ i \in voided => Gone(i)
                     /\ i \notin voided /\ i \notin ends => Same(i)
                     /\ i \notin voided /\ i \in ends => Moved(i) /\ row'[i].st = "ended"
  BY <1>2, <1>3, <1>4, <1>5, <1>6 DEF Gone, Same, Moved, Kept, Row
<1>8. ASSUME NEW i \in Ids, NEW p \in Ids, row'[i].st = "reserved", row'[p].st = "ended", row[p].st # "ended"
      PROVE  row[i].parent # row[p].ses
  <2>1. row'[p] # NoRow /\ row'[i] # NoRow
    BY <1>8 DEF NoRow
  <2>2. p \in ends /\ p \notin voided
    BY <2>1, <1>7, <1>8 DEF Gone, Same
  <2>3. i \notin voided /\ row[i].st = "reserved"
    BY <2>1, <1>7, <1>8 DEF Gone, Same
  <2>4. row[i].parent \notin frontier
    BY <2>3 DEF In
  <2> QED BY <2>2, <2>4
<1>9. \A i \in Ids : row[i].st \notin Busy /\ row'[i].st \in Busy => i \in revived'
  BY <1>7 DEF Gone, Same, Moved, NoRow, Busy
<1> QED BY <1>1, <1>6, <1>7, <1>8, <1>9 DEF Tidy

LEMMA SyncTidy == ASSUME RowsTyped, NEW i \in Ids, Sync(i) PROVE Tidy
<1>1. PICK to \in {"active", "parked"} :
        /\ row' = Move(row, {i}, to) /\ row[i].st \in {"active", "parked"}
        /\ to = "active" => revived' = revived \cup {i}
        /\ to = "parked" => revived' = revived
  BY DEF Sync
<1>2. UNCHANGED <<next, asked, orphaned, unknown>>
  BY DEF Sync
<1>3. /\ row' \in [Ids -> Row]
      /\ \A j \in Ids : (j # i => row'[j] = row[j]) /\ (j = i => row'[j] = [row[j] EXCEPT !.st = to])
  BY <1>1, MoveRow DEF RowsTyped, States
<1>4. row'[i].st = to /\ Moved(i) /\ \A j \in Ids \ {i} : Same(j)
  BY <1>1, <1>3 DEF Moved, Same, Kept, RowsTyped, Row
<1> QED BY <1>1, <1>2, <1>3, <1>4 DEF Tidy, Same, Busy

LEMMA RestartTidy == ASSUME RowsTyped, Restart PROVE Tidy
<1> DEFINE t == Delete(row, In(row, {"reserved"}))
<1>1. row' = Move(t, In(row, {"active"}), "parked") /\ UNCHANGED <<next, asked, orphaned, unknown, revived>>
  BY DEF Restart, BootReconcile, history
<1>2. t \in [Ids -> Row] /\ \A i \in Ids : t[i] = IF row[i].st = "reserved" THEN NoRow ELSE row[i]
  BY DeleteRow DEF RowsTyped, In
<1> HIDE DEF t
<1>3. /\ row' \in [Ids -> Row]
      /\ \A i \in Ids : /\ row[i].st # "active" => row'[i] = t[i]
                        /\ row[i].st = "active" => row'[i] = [t[i] EXCEPT !.st = "parked"]
  BY <1>1, <1>2, MoveRow DEF In, States
<1>4. \A i \in Ids : /\ row[i].st = "reserved" => Gone(i)
                     /\ row[i].st = "active" => Moved(i) /\ row'[i].st = "parked"
                     /\ row[i].st \notin {"reserved", "active"} => Same(i)
  BY <1>2, <1>3 DEF Gone, Moved, Same, Kept, RowsTyped, Row
<1>5. \A i \in Ids : row'[i].st # "reserved" /\ (row'[i].st \in Busy => FALSE)
  BY <1>4 DEF Gone, Moved, Same, NoRow, Busy
<1> QED BY <1>1, <1>3, <1>4, <1>5 DEF Tidy

LEMMA FailTidy == ASSUME RowsTyped, NEW i \in Ids, LaunchFails(i) PROVE Tidy
<1>1. UNCHANGED <<next, asked, orphaned, unknown, revived>>
  BY DEF LaunchFails, history
<1>2. CASE Held(i)
  <2>1. row' = Delete(row, {i}) /\ row[i].st = "reserved"
    BY <1>2 DEF LaunchFails, Held
  <2>2. row' \in [Ids -> Row] /\ \A j \in Ids : row'[j] = IF j = i THEN NoRow ELSE row[j]
    BY <2>1, DeleteRow DEF RowsTyped
  <2>3. Gone(i) /\ \A j \in Ids \ {i} : Same(j)
    BY <2>1, <2>2 DEF Gone, Same
  <2> QED BY <1>1, <2>2, <2>3 DEF Tidy, Same, Gone, NoRow, Busy
<1>3. CASE ~Held(i)
  BY <1>1, <1>3, StillTidy DEF LaunchFails
<1> QED BY <1>2, <1>3

\* The id n after session i was named by its provider.
To(i, n) == IF n = <<i, "temp">> THEN <<i, "own">> ELSE n

LEMMA RenamedRows ==
  ASSUME RowsTyped, NEW i \in Ids, Renamed(<<i, "temp">>, <<i, "own">>)
  PROVE  /\ row' \in [Ids -> Row]
         /\ \A j \in Ids : /\ row'[j].st = row[j].st /\ row'[j].depth = row[j].depth
                           /\ row'[j].req = row[j].req /\ row'[j].origin = row[j].origin
                           /\ row'[j].ses = To(i, row[j].ses) /\ row'[j].parent = To(i, row[j].parent)
                           /\ row'[j].root = To(i, row[j].root)
<1>1. <<i, "temp">> \in Names /\ <<i, "own">> \in Names
  BY LineageAssumption DEF Names, Ids, Sessions
<1> DEFINE to(n) == IF n = <<i, "temp">> THEN <<i, "own">> ELSE n
           s(j) == [row[j] EXCEPT !.ses = to(@), !.parent = to(@), !.root = to(@)]
<1>2. row' = [j \in Ids |-> s(j)]
  BY DEF Renamed
<1>3. ASSUME NEW j \in Ids
      PROVE  /\ s(j) \in Row
             /\ s(j).st = row[j].st /\ s(j).depth = row[j].depth /\ s(j).req = row[j].req
             /\ s(j).origin = row[j].origin
             /\ s(j).ses = to(row[j].ses) /\ s(j).parent = to(row[j].parent)
             /\ s(j).root = to(row[j].root)
  BY <1>1 DEF RowsTyped, Row, Ids0
<1> HIDE DEF s
<1>4. row' \in [Ids -> Row] /\ \A j \in Ids : row'[j] = s(j)
  BY <1>2, <1>3
<1> QED BY <1>3, <1>4 DEF To

LEMMA RenamedFails ==
  ASSUME OthersTyped, NEW i \in Ids, Renamed(<<i, "temp">>, <<i, "own">>)
  PROVE  fails' \in [Names -> [n : 0..FailLimit, cooling : BOOLEAN]]
<1>1. <<i, "temp">> \in Names /\ <<i, "own">> \in Names
  BY LineageAssumption DEF Names, Ids, Sessions
<1>2. NoFails \in [n : 0..FailLimit, cooling : BOOLEAN]
  BY LineageAssumption DEF NoFails
<1>3. \/ fails' = fails
      \/ fails' = [fails EXCEPT ![<<i, "own">>] = fails[<<i, "temp">>], ![<<i, "temp">>] = NoFails]
  BY DEF Renamed
<1> QED BY <1>1, <1>2, <1>3 DEF OthersTyped

LEMMA PlaceIs ==
  ASSUME RowsTyped, NEW n \in Ids0
  PROVE  /\ Place(n).depth \in Nat /\ Place(n).root \in Ids0
         /\ RowsOf(row, n) = {} => Place(n).depth = 1 /\ Place(n).root = n
         /\ \A i : RowsOf(row, n) = {i} => Place(n).depth = row[i].depth + 1 /\ Place(n).root = row[i].root
<1>1. CASE RowsOf(row, n) = {}
  BY <1>1 DEF Place
<1>2. CASE RowsOf(row, n) # {}
  <2> DEFINE i == CHOOSE i \in RowsOf(row, n) : TRUE
  <2>1. i \in RowsOf(row, n)
    BY <1>2
  <2>2. i \in Ids
    BY <2>1 DEF RowsOf, Rows
  <2>3. Place(n).depth = row[i].depth + 1 /\ Place(n).root = row[i].root
    BY <1>2 DEF Place
  <2>4. row[i].depth \in Nat /\ row[i].root \in Ids0
    BY <2>2, LineageAssumption DEF RowsTyped, Row
  <2> HIDE DEF i
  <2> QED BY <1>2, <2>1, <2>3, <2>4
<1> QED BY <1>1, <1>2

LEMMA ReserveRows ==
  ASSUME RowsTyped, OthersTyped, NEW ask \in Asks, Reserve(ask.from, ask.req, ask.origin)
  PROVE  LET n == name[ask.from] IN
         /\ next \in Ids /\ next' = next + 1 /\ ask.from \in open /\ n \in Ids0
         /\ row' \in [Ids -> Row]
         /\ row'[next] = [st |-> "reserved", ses |-> NoName, parent |-> n, root |-> Place(n).root,
                          depth |-> Place(n).depth, req |-> ask.req, origin |-> ask.origin]
         /\ ~Ended(n)
         /\ \A i \in Ids \ {next} : Same(i) \/ Gone(i) \/ (Moved(i) /\ row'[i].st = "parked")
         /\ \A i \in Rows(row) \ {next} : row[i].parent = n /\ row[i].req = ask.req => Gone(i)
         /\ ask.origin = "agent" =>
              \E t \in [Ids -> Row] : /\ Room(t, n, Place(n).root)
                                      /\ \A i \in Ids \ {next} : t[i] = row'[i]
<1> DEFINE n == name[ask.from]
<1>1. next \in Ids /\ next' = next + 1 /\ ask.from \in open /\ n \in Ids0
  BY DEF Reserve, OthersTyped
<1>2. PICK late \in SUBSET In(row, {"reserved"}), graceless \in SUBSET Resting(row, Place(n).root) :
        LET t == ReconcileTree(row, late, graceless)
        IN  /\ ~Ended(n)
            /\ {i \in Rows(row) : row[i].parent = n /\ row[i].req = ask.req} \subseteq late
            /\ Place(n).depth <= Depth
            /\ ask.origin = "agent" => ~Tripped(n) /\ Room(t, n, Place(n).root)
            /\ row' = [t EXCEPT ![next] = [st |-> "reserved", ses |-> NoName, parent |-> n,
                         root |-> Place(n).root, depth |-> Place(n).depth, req |-> ask.req,
                         origin |-> ask.origin]]
  BY DEF Reserve
<1> DEFINE d == Delete(row, late)
           t == Move(d, graceless, "parked")
           new == [st |-> "reserved", ses |-> NoName, parent |-> n, root |-> Place(n).root,
                   depth |-> Place(n).depth, req |-> ask.req, origin |-> ask.origin]
<1>3. row' = [t EXCEPT ![next] = new] /\ (ask.origin = "agent" => Room(t, n, Place(n).root))
  BY <1>2 DEF ReconcileTree
<1>4. new \in Row
  <2>1. Place(n).depth \in 0..Depth /\ Place(n).root \in Ids0
    BY <1>1, <1>2, PlaceIs, LineageAssumption
  <2>2. ask.req \in Requests /\ ask.origin \in {"agent", "user"}
    BY LineageAssumption DEF Requests
  <2> QED BY <1>1, <2>1, <2>2 DEF Row, States, Ids0
<1>5. d \in [Ids -> Row] /\ \A i \in Ids : d[i] = IF i \in late THEN NoRow ELSE row[i]
  BY DeleteRow DEF RowsTyped
<1> HIDE DEF d
<1>6. /\ t \in [Ids -> Row]
      /\ \A i \in Ids : (i \notin graceless => t[i] = d[i]) /\ (i \in graceless => t[i] = [d[i] EXCEPT !.st = "parked"])
  BY <1>5, MoveRow DEF States
<1> HIDE DEF t, new
<1>7. row' \in [Ids -> Row] /\ row'[next] = new /\ \A i \in Ids \ {next} : row'[i] = t[i]
  BY <1>1, <1>3, <1>4, <1>6
<1>8. /\ \A i \in late : i \in Ids /\ row[i].st = "reserved"
      /\ \A i \in graceless : i \in Ids /\ row[i].st = "active"
  BY DEF In, Resting
<1>9. \A i \in Ids \ {next} : /\ i \in late => Gone(i)
                              /\ i \in graceless => Moved(i) /\ row'[i].st = "parked"
                              /\ i \notin late \cup graceless => Same(i)
  BY <1>5, <1>6, <1>7, <1>8 DEF Gone, Moved, Same, Kept, RowsTyped, Row
<1>10. \A i \in Rows(row) \ {next} : row[i].parent = n /\ row[i].req = ask.req => Gone(i)
  BY <1>2, <1>9 DEF Rows
<1>11. ask.origin = "agent" => \E u \in [Ids -> Row] : /\ Room(u, n, Place(n).root)
                                                       /\ \A i \in Ids \ {next} : u[i] = row'[i]
  BY <1>3, <1>6, <1>7
<1>12. ~Ended(n) /\ \A i \in Ids \ {next} : Same(i) \/ Gone(i) \/ (Moved(i) /\ row'[i].st = "parked")
  BY <1>2, <1>9
<1> QED BY <1>1, <1>7, <1>10, <1>11, <1>12 DEF new

-----------------------------------------------------------------------------
(* Types.                                                                  *)

LEMMA FinalizeRows ==
  ASSUME RowsTyped, Launches, NEW i \in Ids, Finalize(i), Held(i)
  PROVE  /\ row' \in [Ids -> Row]
         /\ row'[i] = [row[i] EXCEPT !.st = "active", !.ses = <<i, "temp">>]
         /\ \A j \in Ids \ {i} : Same(j)
<1>1. got[i] = <<i, "temp">> /\ row' = [row EXCEPT ![i].st = "active", ![i].ses = got[i]]
  BY DEF Finalize, Launches, LaunchOf
<1>2. <<i, "temp">> \in Names
  BY LineageAssumption DEF Names, Ids, Sessions
<1>3. row' = [row EXCEPT ![i] = [row[i] EXCEPT !.st = "active", !.ses = <<i, "temp">>]]
  BY <1>1 DEF RowsTyped, Row
<1>4. [row[i] EXCEPT !.st = "active", !.ses = <<i, "temp">>] \in Row
  BY <1>2 DEF RowsTyped, Row, States, Ids0
<1> QED BY <1>3, <1>4 DEF RowsTyped, Same

\* Every step tidies the table, reserves, records or renames.
LEMMA Steps ==
  ASSUME RowsTyped, [Next]_vars
  PROVE  \/ Tidy
         \/ \E ask \in Asks : Reserve(ask.from, ask.req, ask.origin)
         \/ \E i \in Ids : Finalize(i) /\ Held(i)
         \/ \E i \in Ids : Rekey(i) \/ RekeyAgain(i)
<1>1. CASE UNCHANGED vars
  BY <1>1, StillTidy DEF vars, history
<1>2. CASE \E i \in Ids : Launch(i) \/ Deliver(i) \/ (Finalize(i) /\ ~Held(i))
  <2>1. row' = row /\ UNCHANGED <<next, asked, orphaned, unknown, revived>>
    BY <1>2 DEF Launch, Deliver, Finalize, history
  <2> QED BY <2>1, StillTidy
<1>3. CASE \E s \in Sessions : StartTurn(s) \/ EndTurn(s) \/ UserTurn(s) \/ Message(s) \/ Close(s) \/ Reopen(s)
  <2>1. row' = row /\ UNCHANGED <<next, asked, orphaned, unknown, revived>>
    BY <1>3 DEF StartTurn, EndTurn, UserTurn, Message, Close, Reopen, history
  <2> QED BY <2>1, StillTidy
<1>4. CASE (\E n \in stopping : StopTurn(n)) \/ \E n \in Names : Cools(n)
  <2>1. row' = row /\ UNCHANGED <<next, asked, orphaned, unknown, revived>>
    BY <1>4 DEF StopTurn, Cools, history
  <2> QED BY <2>1, StillTidy
<1>5. CASE \E i \in Ids : LaunchFails(i)
  BY <1>5, FailTidy
<1>6. CASE \E i \in Ids : Sync(i)
  BY <1>6, SyncTidy
<1>7. CASE \E s \in Sessions : \E cascade \in BOOLEAN : Cancel(s, cascade)
  BY <1>7, CancelTidy
<1>8. CASE Restart
  BY <1>8, RestartTidy
<1> QED BY <1>1, <1>2, <1>3, <1>4, <1>5, <1>6, <1>7, <1>8 DEF Next

LEMMA TidyStates ==
  ASSUME RowsTyped, Tidy, NEW i \in Ids
  PROVE  /\ row'[i].st \in Kept <=> row[i].st \in Kept
         /\ row'[i].st = "reserved" => row[i].st = "reserved"
         /\ row'[i].st # "none" =>
              /\ row[i].st # "none" /\ row'[i].ses = row[i].ses /\ row'[i].parent = row[i].parent
              /\ row'[i].root = row[i].root /\ row'[i].depth = row[i].depth
              /\ row'[i].req = row[i].req /\ row'[i].origin = row[i].origin
         /\ row'[i].ses \in {row[i].ses, NoName}
<1>1. row[i] \in Row /\ (Same(i) \/ Gone(i) \/ Moved(i))
  BY DEF RowsTyped, Tidy
<1> QED BY <1>1 DEF Same, Gone, Moved, Kept, NoRow, Row

LEMMA RowsStayTyped == ASSUME RowsTyped, OthersTyped, Launches, [Next]_vars PROVE RowsTyped'
<1>1. CASE Tidy
  <2>1. ASSUME NEW i \in Ids PROVE row'[i].ses # NoName <=> row'[i].st \in Kept
    <3>1. row[i] \in Row /\ (row[i].ses # NoName <=> row[i].st \in Kept) /\ (Same(i) \/ Gone(i) \/ Moved(i))
      BY <1>1 DEF RowsTyped, Tidy
    <3> QED BY <3>1 DEF Same, Gone, Moved, Kept, NoRow, Row
  <2> QED BY <1>1, <2>1 DEF RowsTyped, Tidy
<1>2. CASE \E ask \in Asks : Reserve(ask.from, ask.req, ask.origin)
  <2>1. PICK ask \in Asks : Reserve(ask.from, ask.req, ask.origin)
    BY <1>2
  <2> DEFINE n == name[ask.from]
  <2>0. /\ next \in Ids /\ row' \in [Ids -> Row]
        /\ row'[next] = [st |-> "reserved", ses |-> NoName, parent |-> n, root |-> Place(n).root,
                         depth |-> Place(n).depth, req |-> ask.req, origin |-> ask.origin]
        /\ \A i \in Ids \ {next} : Same(i) \/ Gone(i) \/ Moved(i)
    BY <2>1, ReserveRows
  <2>2. /\ next \in Ids /\ row' \in [Ids -> Row]
        /\ row'[next].st = "reserved" /\ row'[next].ses = NoName
        /\ \A i \in Ids \ {next} : Same(i) \/ Gone(i) \/ Moved(i)
    BY <2>0
  <2>3. ASSUME NEW i \in Ids PROVE row'[i].ses # NoName <=> row'[i].st \in Kept
    <3>1. i # next => row[i] \in Row /\ (row[i].ses # NoName <=> row[i].st \in Kept) /\ (Same(i) \/ Gone(i) \/ Moved(i))
      BY <2>2 DEF RowsTyped
    <3> QED BY <2>2, <3>1 DEF Same, Gone, Moved, Kept, NoRow, Row
  <2> QED BY <2>2, <2>3 DEF RowsTyped
<1>3. CASE \E i \in Ids : Finalize(i) /\ Held(i)
  <2>1. PICK i \in Ids : Finalize(i) /\ Held(i)
    BY <1>3
  <2>2. /\ row' \in [Ids -> Row]
        /\ row'[i] = [row[i] EXCEPT !.st = "active", !.ses = <<i, "temp">>]
        /\ \A j \in Ids \ {i} : Same(j)
    BY <2>1, FinalizeRows
  <2>3. row'[i].st = "active" /\ row'[i].ses # NoName
    BY <2>2, NoNameIsNone DEF RowsTyped, Row, NoName
  <2> QED BY <2>2, <2>3 DEF RowsTyped, Same, Kept
<1>4. CASE \E i \in Ids : Rekey(i) \/ RekeyAgain(i)
  <2>1. PICK i \in Ids : Renamed(<<i, "temp">>, <<i, "own">>)
    BY <1>4 DEF Rekey, RekeyAgain
  <2>2. row' \in [Ids -> Row] /\ \A j \in Ids : row'[j].st = row[j].st /\ row'[j].ses = To(i, row[j].ses)
    BY <2>1, RenamedRows
  <2>3. \A n : To(i, n) = NoName <=> n = NoName
    BY DEF To, NoName
  <2> QED BY <2>2, <2>3 DEF RowsTyped
<1> QED BY <1>1, <1>2, <1>3, <1>4, Steps

LEMMA OthersStayTyped == ASSUME RowsTyped, OthersTyped, Launches, [Next]_vars PROVE OthersTyped'
<1>0. \A i \in Ids : <<i, "temp">> \in Ids0 /\ <<i, "own">> \in Ids0
  BY LineageAssumption DEF Ids0, Names, Ids, Sessions
<1> USE DEF OthersTyped
<1>1. CASE UNCHANGED vars
  BY <1>1 DEF vars, history, sessionVars
<1>2. ASSUME NEW ask \in Asks, Reserve(ask.from, ask.req, ask.origin) PROVE OthersTyped'
  <2>1. ask.from \in Sessions /\ ask.req \in Requests
    BY LineageAssumption DEF Sessions, Requests
  <2>2. /\ next \in Ids /\ next' = next + 1 /\ job' = [job EXCEPT ![next] = "launching"]
        /\ asked' = [asked EXCEPT ![next] = <<ask.from, ask.req>>]
        /\ unknown' \in {unknown, unknown \cup {ask.from}}
        /\ UNCHANGED <<fails, got, name, open, work, again, stopping, spent, prompted, revived, orphaned>>
    BY <1>2 DEF Reserve, sessionVars
  <2> QED BY <2>1, <2>2, LineageAssumption DEF Ids
<1>3. ASSUME NEW i \in Ids, Launch(i) PROVE OthersTyped'
  <2>1. i \in Sessions
    BY LineageAssumption DEF Ids, Sessions
  <2> QED BY <1>0, <1>3, <2>1 DEF Launch, history
<1>4. ASSUME NEW i \in Ids, LaunchFails(i) PROVE OthersTyped'
  <2>1. /\ job' = [job EXCEPT ![i] = "over"] /\ spent < MaxSpent /\ spent' = spent + 1
        /\ UNCHANGED <<next, got, name, open, work, again, stopping, asked, prompted, revived, orphaned, unknown>>
    BY <1>4 DEF LaunchFails, Spend, history, sessionVars
  <2>2. CASE Held(i) /\ row[i].origin # "user"
    <3> DEFINE n == row[i].parent
    <3>1. fails' = [fails EXCEPT ![n] = [n |-> IF @.n < FailLimit THEN @.n + 1 ELSE @.n, cooling |-> TRUE]]
      BY <1>4, <2>2 DEF LaunchFails
    <3>2. n \in Names =>
            [n |-> IF fails[n].n < FailLimit THEN fails[n].n + 1 ELSE fails[n].n, cooling |-> TRUE]
              \in [n : 0..FailLimit, cooling : BOOLEAN]
      BY LineageAssumption
    <3>3. fails' \in [Names -> [n : 0..FailLimit, cooling : BOOLEAN]]
      BY <3>1, <3>2
    <3> QED BY <2>1, <3>3, LineageAssumption
  <2>3. CASE ~(Held(i) /\ row[i].origin # "user")
    <3>1. fails' = fails
      BY <1>4, <2>3 DEF LaunchFails
    <3> QED BY <2>1, <3>1, LineageAssumption
  <2> QED BY <2>2, <2>3
<1>5. ASSUME NEW i \in Ids, Finalize(i) PROVE OthersTyped'
  <2>1. NoFails \in [n : 0..FailLimit, cooling : BOOLEAN]
    BY LineageAssumption DEF NoFails
  <2>2. /\ UNCHANGED <<next, name, open, work, again, stopping, spent, asked, prompted, revived, unknown>>
        /\ orphaned' \in {orphaned, orphaned \cup {i}}
        /\ fails' \in {fails, [fails EXCEPT ![row[i].parent] = NoFails]}
        /\ got' \in {got, [got EXCEPT ![i] = NoName]}
        /\ job' \in {[job EXCEPT ![i] = "recorded"], [job EXCEPT ![i] = "over"]}
    BY <1>5 DEF Finalize, sessionVars
  <2>3. fails' \in [Names -> [n : 0..FailLimit, cooling : BOOLEAN]]
    BY <2>1, <2>2
  <2>4. got' \in [Ids -> Ids0] /\ job' \in [Ids -> {"none", "launching", "launched", "recorded", "over"}]
    BY <2>2 DEF Ids0
  <2> QED BY <2>2, <2>3, <2>4
<1>6. ASSUME NEW i \in Ids, Deliver(i) PROVE OthersTyped'
  <2>1. /\ UNCHANGED <<next, fails, name, open, again, stopping, spent, asked, revived, orphaned, unknown>>
        /\ job' = [job EXCEPT ![i] = "over"] /\ got' = [got EXCEPT ![i] = NoName]
        /\ prompted' \in {prompted, prompted \cup {i}}
        /\ work' \in {work, [work EXCEPT ![i] = IF @ = "idle" THEN "queued" ELSE @]}
    BY <1>6 DEF Deliver
  <2> QED BY <2>1 DEF Ids0
<1>7. ASSUME NEW i \in Ids, Rekey(i) PROVE OthersTyped'
  <2>1. fails' \in [Names -> [n : 0..FailLimit, cooling : BOOLEAN]]
    BY <1>7, RenamedFails DEF Rekey
  <2> QED BY <1>0, <1>7, <2>1 DEF Rekey, history
<1>8. ASSUME NEW i \in Ids, RekeyAgain(i) PROVE OthersTyped'
  <2>1. fails' \in [Names -> [n : 0..FailLimit, cooling : BOOLEAN]]
    BY <1>8, RenamedFails DEF RekeyAgain
  <2> QED BY <1>8, <2>1 DEF RekeyAgain, sessionVars
<1>9. ASSUME NEW i \in Ids, Sync(i) PROVE OthersTyped'
  BY <1>9 DEF Sync, sessionVars
<1>10. ASSUME NEW s \in Sessions, StartTurn(s) \/ EndTurn(s) PROVE OthersTyped'
  BY <1>10 DEF StartTurn, EndTurn, history
<1>11. ASSUME NEW s \in Sessions, UserTurn(s) \/ Message(s) \/ Close(s) PROVE OthersTyped'
  BY <1>11, LineageAssumption DEF UserTurn, Message, Close, Spend, history
<1>12. ASSUME NEW s \in Sessions, Reopen(s) PROVE OthersTyped'
  BY <1>12 DEF Reopen, history
<1>13. ASSUME NEW s \in Sessions, NEW c \in BOOLEAN, Cancel(s, c) PROVE OthersTyped'
  <2> DEFINE frontier == IF c THEN Beneath(name[s]) ELSE {name[s]}
             ends == {i \in Rows(row) : row[i].ses \in frontier \ {NoName} /\ row[i].st # "ended"}
  <2>1. /\ stopping' = stopping \cup {row[i].ses : i \in ends}
        /\ spent < MaxSpent /\ spent' = spent + 1
        /\ UNCHANGED <<next, fails, job, got, name, open, work, again, asked, prompted, revived, orphaned, unknown>>
    BY <1>13 DEF Cancel, Spend, sessionVars, history
  <2>2. \A i \in ends : i \in Ids /\ row[i].ses # NoName
    BY DEF Rows
  <2> HIDE DEF ends
  <2>3. \A i \in ends : row[i].ses \in Names
    BY <2>2 DEF RowsTyped, Row, Ids0
  <2> QED BY <2>1, <2>3, LineageAssumption
<1>14. ASSUME NEW n \in stopping, StopTurn(n) PROVE OthersTyped'
  BY <1>14 DEF StopTurn, history
<1>15. ASSUME NEW n \in Names, Cools(n) PROVE OthersTyped'
  BY <1>15 DEF Cools, sessionVars, history
<1>16. CASE Restart
  <2>1. 0 \in Sessions
    BY LineageAssumption DEF Sessions
  <2> QED BY <1>16, <2>1, LineageAssumption DEF Restart, Spend, history, Ids0
<1> QED BY <1>1, <1>2, <1>3, <1>4, <1>5, <1>6, <1>7, <1>8, <1>9, <1>10, <1>11, <1>12, <1>13, <1>14, <1>15,
           <1>16 DEF Next

-----------------------------------------------------------------------------
(* Launches, names, kinship.                                               *)

LEMMA NewRow ==
  ASSUME RowsTyped, OthersTyped, NEW ask \in Asks, Reserve(ask.from, ask.req, ask.origin)
  PROVE  /\ next \in Ids /\ next' = next + 1 /\ ask.from \in open /\ ask.from \in Sessions
         /\ row'[next].st = "reserved" /\ row'[next].ses = NoName /\ row'[next].parent = name[ask.from]
         /\ row'[next].req = ask.req /\ row'[next].origin = ask.origin
         /\ row'[next].root = Place(name[ask.from]).root /\ row'[next].depth = Place(name[ask.from]).depth
         /\ asked' = [asked EXCEPT ![next] = <<ask.from, ask.req>>]
         /\ \A i \in Ids \ {next} : Same(i) \/ Gone(i) \/ (Moved(i) /\ row'[i].st = "parked")
         /\ \A i \in Rows(row) \ {next} :
              row[i].parent = name[ask.from] /\ row[i].req = ask.req => Gone(i)
         /\ UNCHANGED <<name, open, again, prompted, got, revived, orphaned>>
<1> DEFINE n == name[ask.from]
<1>1. /\ next \in Ids /\ next' = next + 1 /\ ask.from \in open
      /\ row'[next] = [st |-> "reserved", ses |-> NoName, parent |-> n, root |-> Place(n).root,
                       depth |-> Place(n).depth, req |-> ask.req, origin |-> ask.origin]
      /\ \A i \in Ids \ {next} : Same(i) \/ Gone(i) \/ (Moved(i) /\ row'[i].st = "parked")
      /\ \A i \in Rows(row) \ {next} : row[i].parent = n /\ row[i].req = ask.req => Gone(i)
  BY ReserveRows
<1>2. asked' = [asked EXCEPT ![next] = <<ask.from, ask.req>>]
      /\ UNCHANGED <<name, open, again, prompted, got, revived, orphaned>>
  BY DEF Reserve, sessionVars
<1>3. ask.from \in Sessions
  BY LineageAssumption DEF Sessions
<1> QED BY <1>1, <1>2, <1>3

\* The rows that a Reserve finds there.
LEMMA OldRow ==
  ASSUME RowsTyped, NEW i \in Ids, Same(i) \/ Gone(i) \/ Moved(i)
  PROVE  /\ row'[i].st \in Kept <=> row[i].st \in Kept
         /\ row'[i].st = "reserved" => row[i].st = "reserved"
         /\ row'[i].st # "none" =>
              /\ row[i].st # "none" /\ row'[i].ses = row[i].ses /\ row'[i].parent = row[i].parent
              /\ row'[i].root = row[i].root /\ row'[i].depth = row[i].depth
              /\ row'[i].req = row[i].req /\ row'[i].origin = row[i].origin
         /\ row'[i].ses \in {row[i].ses, NoName}
<1>1. row[i] \in Row
  BY DEF RowsTyped
<1> QED BY <1>1 DEF Same, Gone, Moved, Kept, NoRow, Row

LEMMA LaunchesStay ==
  ASSUME RowsTyped, OthersTyped, Launches, Named, [Next]_vars
  PROVE  Launches'
<1> USE DEF OthersTyped
<1>1. ASSUME Tidy, NEW i \in Ids
      PROVE  /\ row'[i].st \in Kept <=> row[i].st \in Kept
             /\ row'[i].st = "reserved" => row[i].st = "reserved"
             /\ row'[i].st # "none" => row[i].st # "none"
             /\ next' = next
  BY <1>1, TidyStates DEF Tidy
<1>2. CASE Tidy /\ UNCHANGED <<job, got, name, prompted>>
  BY <1>1, <1>2 DEF Launches, LaunchOf
<1>3. ASSUME NEW ask \in Asks, Reserve(ask.from, ask.req, ask.origin) PROVE Launches'
  <2>1. job' = [job EXCEPT ![next] = "launching"]
    BY <1>3 DEF Reserve
  <2>2. ASSUME NEW i \in Ids \ {next} PROVE LaunchOf(i)'
    <3>1. Same(i) \/ Gone(i) \/ Moved(i)
      BY <1>3, NewRow
    <3>2. /\ row'[i].st \in Kept <=> row[i].st \in Kept
          /\ row'[i].st = "reserved" => row[i].st = "reserved"
          /\ row'[i].st # "none" => row[i].st # "none"
      BY <3>1, OldRow
    <3>3. next \in Ids /\ next' = next + 1 /\ UNCHANGED <<name, prompted, got>>
      BY <1>3, NewRow
    <3>4. job'[i] = job[i]
      BY <2>1
    <3>5. i \in Nat /\ next \in Nat /\ i # next
      BY <3>3 DEF Ids
    <3>7. (i >= next' <=> i >= next) /\ (i < next => i < next')
      BY <3>3, <3>5
    <3>8. LaunchOf(i)
      BY DEF Launches
    <3>9. name'[i] = name[i] /\ got'[i] = got[i] /\ prompted' = prompted
      BY <3>3
    <3> HIDE DEF OthersTyped
    <3>10. (job'[i] = "none" <=> i >= next') /\ (row'[i].st # "none" => i < next')
      BY <3>2, <3>4, <3>7, <3>8 DEF LaunchOf
    <3> QED BY <3>2, <3>4, <3>8, <3>9, <3>10 DEF LaunchOf, Kept
  <2>3. ASSUME NEW i \in Ids, i = next PROVE LaunchOf(i)'
    <3>1. /\ next' = next + 1 /\ UNCHANGED <<name, prompted, got>>
          /\ row'[i].st = "reserved" /\ job'[i] = "launching" /\ i \in Nat
      BY <1>3, <2>1, <2>3, NewRow DEF Ids
    <3>2. job[i] = "none" /\ name[i] = NoName /\ i \notin prompted
      <4>1. LaunchOf(i) /\ i >= next
        BY <2>3, <3>1 DEF Launches
      <4> QED BY <4>1 DEF LaunchOf, Kept
    <3>3. i < next' /\ ~(i >= next')
      BY <2>3, <3>1
    <3> QED BY <3>1, <3>2, <3>3 DEF LaunchOf, Kept
  <2> QED BY <2>2, <2>3 DEF Launches
<1>4. ASSUME NEW i \in Ids, Launch(i) PROVE Launches'
  <2>1. i \in Sessions /\ <<i, "temp">> # NoName
    BY LineageAssumption DEF Ids, Sessions, NoName
  <2>2. /\ job[i] = "launching" /\ job' = [job EXCEPT ![i] = "launched"]
        /\ name' = [name EXCEPT ![i] = <<i, "temp">>] /\ got' = [got EXCEPT ![i] = <<i, "temp">>]
        /\ UNCHANGED <<row, next, prompted>>
    BY <1>4 DEF Launch, history
  <2>3. LaunchOf(i)'
    BY <2>1, <2>2 DEF Launches, LaunchOf
  <2>4. ASSUME NEW j \in Ids \ {i} PROVE LaunchOf(j)'
    <3>1. name'[j] = name[j] /\ job'[j] = job[j] /\ got'[j] = got[j] /\ j \in Sessions
      BY <2>2 DEF Ids, Sessions
    <3> QED BY <2>2, <3>1 DEF Launches, LaunchOf
  <2> QED BY <2>3, <2>4 DEF Launches
<1>5. ASSUME NEW i \in Ids, LaunchFails(i) PROVE Launches'
  <2>1. /\ job[i] = "launching" /\ job' = [job EXCEPT ![i] = "over"] /\ UNCHANGED <<got, name, prompted, next>>
    BY <1>5 DEF LaunchFails, sessionVars, history
  <2>2. Tidy
    BY <1>5, FailTidy
  <2>3. row'[i].st # "reserved"
    <3>1. row[i].st = "reserved" => row' = Delete(row, {i})
      BY <1>5 DEF LaunchFails, Held
    <3>2. row[i].st = "reserved" => row'[i] = NoRow
      BY <3>1, DeleteRow DEF RowsTyped
    <3> QED BY <1>1, <2>2, <3>2 DEF NoRow
  <2>4. LaunchOf(i)'
    BY <1>1, <2>1, <2>2, <2>3 DEF Launches, LaunchOf, Kept
  <2>5. ASSUME NEW j \in Ids \ {i} PROVE LaunchOf(j)'
    BY <1>1, <2>1, <2>2 DEF Launches, LaunchOf
  <2> QED BY <2>4, <2>5 DEF Launches
<1>6. ASSUME NEW i \in Ids, Finalize(i), Held(i) PROVE Launches'
  <2>1. row'[i].st = "active" /\ \A j \in Ids \ {i} : row'[j] = row[j]
    <3>1. row'[i] = [row[i] EXCEPT !.st = "active", !.ses = <<i, "temp">>] /\ \A j \in Ids \ {i} : Same(j)
      BY <1>6, FinalizeRows
    <3> QED BY <3>1 DEF Same, RowsTyped, Row
  <2>2. /\ job[i] = "launched" /\ job' = [job EXCEPT ![i] = "recorded"] /\ UNCHANGED <<got, name, prompted, next>>
    BY <1>6 DEF Finalize, sessionVars
  <2>3. LaunchOf(i)'
    BY <1>6, <2>1, <2>2 DEF Launches, LaunchOf, Kept, Held
  <2>4. ASSUME NEW j \in Ids \ {i} PROVE LaunchOf(j)'
    BY <2>1, <2>2 DEF Launches, LaunchOf
  <2> QED BY <2>3, <2>4 DEF Launches
<1>7. ASSUME NEW i \in Ids, Finalize(i), ~Held(i) PROVE Launches'
  <2>1. /\ job[i] = "launched" /\ job' = [job EXCEPT ![i] = "over"] /\ got' = [got EXCEPT ![i] = NoName]
        /\ row[i].st # "reserved" /\ UNCHANGED <<row, name, prompted, next>>
    BY <1>7 DEF Finalize, sessionVars, Held
  <2>2. LaunchOf(i)'
    BY <2>1 DEF Launches, LaunchOf
  <2>3. ASSUME NEW j \in Ids \ {i} PROVE LaunchOf(j)'
    BY <2>1 DEF Launches, LaunchOf
  <2> QED BY <2>2, <2>3 DEF Launches
<1>8. ASSUME NEW i \in Ids, Deliver(i) PROVE Launches'
  <2>1. /\ job[i] = "recorded" /\ job' = [job EXCEPT ![i] = "over"] /\ got' = [got EXCEPT ![i] = NoName]
        /\ prompted' \in {prompted, prompted \cup {i}} /\ UNCHANGED <<row, name, next>>
    BY <1>8 DEF Deliver
  <2>2. LaunchOf(i)'
    BY <2>1 DEF Launches, LaunchOf, Kept
  <2>3. ASSUME NEW j \in Ids \ {i} PROVE LaunchOf(j)'
    BY <2>1 DEF Launches, LaunchOf
  <2> QED BY <2>2, <2>3 DEF Launches
<1>9. ASSUME NEW i \in Ids, Rekey(i) PROVE Launches'
  <2>1. /\ name[i] = <<i, "temp">> /\ name' = [name EXCEPT ![i] = <<i, "own">>]
        /\ UNCHANGED <<job, got, prompted, next>> /\ Renamed(<<i, "temp">>, <<i, "own">>)
    BY <1>9 DEF Rekey, history
  <2>2. \A j \in Ids : row'[j].st = row[j].st
    BY <2>1, RenamedRows
  <2>3. i \in Sessions /\ <<i, "own">> # NoName /\ <<i, "temp">> # NoName
    BY LineageAssumption DEF Ids, Sessions, NoName
  <2>4. LaunchOf(i)'
    BY <2>1, <2>2, <2>3 DEF Launches, LaunchOf
  <2>5. ASSUME NEW j \in Ids \ {i} PROVE LaunchOf(j)'
    <3>1. name'[j] = name[j] /\ j \in Sessions
      BY <2>1 DEF Ids, Sessions
    <3> QED BY <2>1, <2>2, <3>1 DEF Launches, LaunchOf
  <2> QED BY <2>4, <2>5 DEF Launches
<1>10. ASSUME NEW i \in Ids, RekeyAgain(i) PROVE Launches'
  <2>1. UNCHANGED <<job, got, name, prompted, next>> /\ Renamed(<<i, "temp">>, <<i, "own">>)
    BY <1>10 DEF RekeyAgain, sessionVars
  <2>2. \A j \in Ids : row'[j].st = row[j].st
    BY <2>1, RenamedRows
  <2> QED BY <2>1, <2>2 DEF Launches, LaunchOf
<1>11. CASE Restart
  <2>1. /\ job' = [i \in Ids |-> IF job[i] = "none" THEN "none" ELSE "over"] /\ got' = [i \in Ids |-> NoName]
        /\ UNCHANGED <<name, prompted, next>>
    BY <1>11 DEF Restart, history
  <2>2. \A i \in Ids : row'[i].st # "reserved"
    <3> DEFINE t == Delete(row, In(row, {"reserved"}))
    <3>1. row' = Move(t, In(row, {"active"}), "parked")
      BY <1>11 DEF Restart, BootReconcile
    <3>2. t \in [Ids -> Row] /\ \A i \in Ids : t[i] = IF row[i].st = "reserved" THEN NoRow ELSE row[i]
      BY DeleteRow DEF RowsTyped, In
    <3> HIDE DEF t
    <3>3. \A i \in Ids : /\ i \notin In(row, {"active"}) => row'[i] = t[i]
                         /\ i \in In(row, {"active"}) => row'[i] = [t[i] EXCEPT !.st = "parked"]
      BY <3>1, <3>2, MoveRow DEF States
    <3>4. ASSUME NEW i \in Ids PROVE row'[i].st # "reserved"
      <4>1. t[i] \in Row /\ (row[i].st = "active" => row'[i] = [t[i] EXCEPT !.st = "parked"])
            /\ (row[i].st # "active" => row'[i] = t[i])
        BY <3>2, <3>3 DEF In
      <4>2. row[i].st = "active" => row'[i].st = "parked"
        BY <4>1 DEF Row
      <4>3. row[i].st # "active" => row'[i].st # "reserved"
        BY <3>2, <4>1 DEF NoRow
      <4> QED BY <4>2, <4>3
    <3> QED BY <3>4
  <2>3. Tidy
    BY <1>11, RestartTidy
  <2>4. ASSUME NEW i \in Ids PROVE LaunchOf(i)'
    <3>1. job'[i] = IF job[i] = "none" THEN "none" ELSE "over"
      BY <2>1
    <3>2. LaunchOf(i)
      BY DEF Launches
    <3> QED BY <1>1, <2>1, <2>2, <2>3, <3>1, <3>2 DEF LaunchOf, Kept
  <2> QED BY <2>4 DEF Launches
<1>12. ASSUME NEW i \in Ids, Sync(i) PROVE Launches'
  BY <1>2, <1>12, SyncTidy DEF Sync, sessionVars
<1>13. ASSUME NEW s \in Sessions, NEW c \in BOOLEAN, Cancel(s, c) PROVE Launches'
  <2>1. UNCHANGED <<job, got, name, prompted>>
    BY <1>13 DEF Cancel, sessionVars, history
  <2> QED BY <1>2, <1>13, <2>1, CancelTidy
<1>14. CASE \/ UNCHANGED vars
            \/ \E s \in Sessions : StartTurn(s) \/ EndTurn(s) \/ UserTurn(s) \/ Message(s) \/ Close(s) \/ Reopen(s)
            \/ \E n \in stopping : StopTurn(n)
            \/ \E n \in Names : Cools(n)
  <2>1. UNCHANGED <<row, next, job, got, name, asked, prompted, orphaned, unknown, revived>>
    BY <1>14 DEF vars, sessionVars, history, StartTurn, EndTurn, UserTurn, Message, Close, Reopen, StopTurn, Cools
  <2> QED BY <1>2, <2>1, StillTidy
<1> QED BY <1>3, <1>4, <1>5, <1>6, <1>7, <1>8, <1>9, <1>10, <1>11, <1>12, <1>13, <1>14 DEF Next

-----------------------------------------------------------------------------
(* Names.                                                                  *)

LEMMA NamesApart ==
  ASSUME Named, NEW s \in Sessions, name[s] # NoName
  PROVE  name[s] \in {<<s, "temp">>, <<s, "own">>}
<1>1. s = 0 \/ s \in Ids
  BY LineageAssumption DEF Sessions, Ids
<1> QED BY <1>1 DEF Named

\* A session that has a name keeps it, until its provider gives it its own.
NamesKept == \A s \in Sessions : name[s] # NoName => name'[s] = name[s]

Opens == /\ name' = name /\ again' \subseteq again
         /\ \A s \in open' : s \in open \/ name[s] # NoName \/ s = 0

LEMMA NameSteps ==
  ASSUME OthersTyped, [Next]_vars
  PROVE  Opens \/ (\E i \in Ids : Launch(i)) \/ (\E i \in Ids : Rekey(i))
<1>1. CASE UNCHANGED vars \/ (\E ask \in Asks : Reserve(ask.from, ask.req, ask.origin))
  BY <1>1 DEF vars, sessionVars, Reserve, Opens
<1>2. CASE \E i \in Ids : LaunchFails(i) \/ Finalize(i) \/ Deliver(i) \/ RekeyAgain(i) \/ Sync(i)
  BY <1>2 DEF LaunchFails, Finalize, Deliver, RekeyAgain, Sync, sessionVars, Opens
<1>3. CASE \E s \in Sessions : \/ StartTurn(s) \/ EndTurn(s) \/ UserTurn(s) \/ Message(s) \/ Close(s) \/ Reopen(s)
                               \/ \E cascade \in BOOLEAN : Cancel(s, cascade)
  BY <1>3 DEF StartTurn, EndTurn, UserTurn, Message, Close, Reopen, Cancel, sessionVars, Opens
<1>4. CASE (\E n \in stopping : StopTurn(n)) \/ (\E n \in Names : Cools(n)) \/ Restart
  BY <1>4 DEF StopTurn, Cools, Restart, sessionVars, Opens
<1> QED BY <1>1, <1>2, <1>3, <1>4 DEF Next

LEMMA LaunchNames ==
  ASSUME OthersTyped, Launches, NEW i \in Ids, Launch(i)
  PROVE  /\ name[i] = NoName /\ name'[i] = <<i, "temp">> /\ i \in Sessions
         /\ \A s \in Sessions \ {i} : name'[s] = name[s]
         /\ open' = open \cup {i}
         /\ UNCHANGED <<row, again, orphaned, asked, unknown, revived>>
<1>1. i \in Sessions
  BY DEF Ids, Sessions
<1> QED BY <1>1 DEF Launch, Launches, LaunchOf, OthersTyped, history

\* Every step is of one of five kinds.
LEMMA Kinds ==
  ASSUME RowsTyped, OthersTyped, Launches, [Next]_vars
  PROVE  \/ Tidy /\ NamesKept
         \/ \E ask \in Asks : Reserve(ask.from, ask.req, ask.origin)
         \/ \E i \in Ids : Finalize(i) /\ Held(i)
         \/ \E i \in Ids : Rekey(i) \/ RekeyAgain(i)
<1>1. NamesKept \/ \E i \in Ids : Rekey(i)
  BY NameSteps, LaunchNames DEF NamesKept, Opens
<1> QED BY <1>1, Steps

LEMMA RekeyNames ==
  ASSUME OthersTyped, Named, NEW i \in Ids, Rekey(i) \/ RekeyAgain(i)
  PROVE  /\ \A s \in Sessions : name'[s] = To(i, name[s])
         /\ name'[i] = <<i, "own">> /\ open' = open /\ again' \subseteq again \cup {i}
         /\ orphaned' \in {orphaned, orphaned \ {i}} /\ (RekeyAgain(i) => i \notin orphaned')
         /\ (Rekey(i) => name[i] = <<i, "temp">> /\ orphaned' = orphaned)
         /\ Renamed(<<i, "temp">>, <<i, "own">>)
         /\ UNCHANGED <<asked, unknown, revived, next>>
<1>0. i \in Sessions
  BY DEF Ids, Sessions
<1>1. \A s \in Sessions \ {i} : To(i, name[s]) = name[s]
  BY NamesApart DEF To, NoName
<1>2. CASE Rekey(i)
  <2>1. /\ name[i] = <<i, "temp">> /\ name' = [name EXCEPT ![i] = <<i, "own">>]
        /\ again' = again \cup {i} /\ Renamed(<<i, "temp">>, <<i, "own">>)
        /\ UNCHANGED <<open, orphaned, asked, unknown, revived, next>>
    BY <1>2 DEF Rekey, history
  <2>2. name'[i] = <<i, "own">> /\ \A s \in Sessions \ {i} : name'[s] = name[s]
    BY <1>0, <2>1 DEF OthersTyped
  <2>3. name'[i] = To(i, name[i])
    BY <2>1, <2>2 DEF To
  <2>4. ~RekeyAgain(i) \/ i \notin orphaned'
    BY <2>1 DEF RekeyAgain
  <2>5. \A s \in Sessions : name'[s] = To(i, name[s])
    BY <1>1, <2>2, <2>3
  <2> QED BY <2>1, <2>2, <2>4, <2>5
<1>3. CASE RekeyAgain(i)
  <2>1. name[i] = <<i, "own">>
    BY <1>3 DEF RekeyAgain, Named
  <2>2. /\ again' = again \ {i} /\ Renamed(<<i, "temp">>, <<i, "own">>) /\ orphaned' = orphaned \ {i}
        /\ UNCHANGED <<name, open, asked, unknown, revived, next>>
    BY <1>3 DEF RekeyAgain, sessionVars
  <2>3. To(i, name[i]) = name[i]
    BY <2>1 DEF To
  <2>4. \A s \in Sessions : name'[s] = To(i, name[s])
    BY <1>1, <2>2, <2>3
  <2>5. ~Rekey(i)
    BY <2>1 DEF Rekey
  <2> QED BY <2>1, <2>2, <2>4, <2>5
<1> QED BY <1>2, <1>3

LEMMA NamedStay ==
  ASSUME RowsTyped, OthersTyped, Launches, Named, [Next]_vars
  PROVE  Named'
<1> DEFINE Mine(i) == {NoName, <<i, "temp">>, <<i, "own">>}
<1>0. Ids \subseteq Sessions /\ 0 \in Sessions /\ 0 \notin Ids
  BY LineageAssumption DEF Ids, Sessions
<1>1. name[0] = <<0, "own">> /\ name[0] # NoName
  BY DEF Named, NoName
<1>2. /\ \A i \in Ids : name[i] \in Mine(i) /\ row[i].ses \in Mine(i)
      /\ \A s \in open : name[s] # NoName
      /\ \A i \in again : name[i] = <<i, "own">>
      /\ \A i \in Ids \ orphaned : row[i].st \in Kept => row[i].ses = name[i]
  BY DEF Named, RowNamesItsChild, In, Kept
<1> DEFINE Goal == /\ name'[0] = <<0, "own">>
                   /\ \A i \in Ids : name'[i] \in Mine(i) /\ row'[i].ses \in Mine(i)
                   /\ \A s \in open' : name'[s] # NoName
                   /\ \A i \in again' : name'[i] = <<i, "own">>
                   /\ \A i \in Ids \ orphaned' : row'[i].st \in Kept => row'[i].ses = name'[i]
<1>3. SUFFICES Goal
  BY DEF Named, RowNamesItsChild, In, Kept
<1>4. ASSUME NEW i \in Ids, Rekey(i) \/ RekeyAgain(i) PROVE Goal
  <2>1. /\ \A s \in Sessions : name'[s] = To(i, name[s])
        /\ name'[i] = <<i, "own">> /\ open' = open /\ again' \subseteq again \cup {i}
        /\ orphaned' \in {orphaned, orphaned \ {i}} /\ (RekeyAgain(i) => i \notin orphaned')
        /\ (Rekey(i) => name[i] = <<i, "temp">> /\ orphaned' = orphaned)
        /\ Renamed(<<i, "temp">>, <<i, "own">>)
    BY <1>4, RekeyNames
  <2>2. \A j \in Ids : row'[j].st = row[j].st /\ row'[j].ses = To(i, row[j].ses)
    BY <2>1, RenamedRows
  <2>3. \A j \in Ids : \A n \in Mine(j) : To(i, n) \in Mine(j) /\ (j # i => To(i, n) = n)
    BY DEF To, NoName
  <2>4. \A n \in Mine(i) : n # NoName => To(i, n) = <<i, "own">>
    BY DEF To
  <2>5. \A n : n # NoName => To(i, n) # NoName
    BY DEF To, NoName
  <2>6. name'[0] = <<0, "own">>
    BY <1>0, <1>1, <2>1 DEF To
  <2>7. \A j \in Ids : name'[j] \in Mine(j) /\ row'[j].ses \in Mine(j)
    BY <1>0, <1>2, <2>1, <2>2, <2>3
  <2>8. \A s \in open' : name'[s] # NoName
    BY <1>2, <2>1, <2>5 DEF OthersTyped
  <2>9. \A j \in again' : name'[j] = <<j, "own">>
    <3>1. ASSUME NEW j \in again, j # i PROVE name'[j] = <<j, "own">>
      BY <1>0, <1>2, <2>1, <3>1 DEF OthersTyped, To
    <3> QED BY <2>1, <3>1
  <2>10. ASSUME NEW j \in Ids \ orphaned', row'[j].st \in Kept PROVE row'[j].ses = name'[j]
    <3>1. row[j].st \in Kept /\ row[j].ses # NoName
      BY <2>2, <2>10 DEF RowsTyped
    <3>2. CASE j = i
      BY <1>2, <2>1, <2>2, <2>4, <3>1, <3>2
    <3>3. CASE j # i
      BY <1>0, <1>2, <2>1, <2>2, <2>3, <2>10, <3>1, <3>3
    <3> QED BY <3>2, <3>3
  <2> QED BY <2>6, <2>7, <2>8, <2>9, <2>10
<1>5. ASSUME NEW i \in Ids, Launch(i) PROVE Goal
  <2>1. /\ name[i] = NoName /\ name'[i] = <<i, "temp">> /\ i \in Sessions
        /\ \A s \in Sessions \ {i} : name'[s] = name[s]
        /\ open' = open \cup {i}
        /\ UNCHANGED <<row, again, orphaned>>
    BY <1>5, LaunchNames
  <2>2. row[i].st \notin Kept /\ <<i, "temp">> # NoName /\ <<i, "own">> # NoName
    BY <2>1 DEF Launches, LaunchOf, NoName
  <2>3. i \notin again
    BY <1>2, <2>1, <2>2
  <2> QED BY <1>0, <1>1, <1>2, <2>1, <2>2, <2>3 DEF OthersTyped
<1>6. CASE Opens
  <2>1. /\ name' = name /\ \A s \in open' : name'[s] # NoName
        /\ \A i \in again' : name'[i] = <<i, "own">>
    BY <1>1, <1>2, <1>6 DEF Opens
  <2> DEFINE Sessioned == /\ \A i \in Ids : row'[i].ses \in {row[i].ses, <<i, "temp">>, NoName}
                          /\ \A i \in Ids \ orphaned' : row'[i].st \in Kept => row'[i].ses = name[i]
  <2>2. Sessioned => Goal
    BY <1>1, <1>2, <2>1
  <2>3. ASSUME Tidy PROVE Sessioned
    <3>1. \A i \in Ids : /\ row'[i].ses \in {row[i].ses, NoName}
                         /\ row'[i].st \in Kept => row[i].st \in Kept /\ row'[i].ses = row[i].ses
      BY <2>3, TidyStates DEF Kept
    <3> QED BY <1>2, <2>3, <3>1 DEF Tidy
  <2>4. ASSUME \E ask \in Asks : Reserve(ask.from, ask.req, ask.origin) PROVE Sessioned
    <3>1. PICK ask \in Asks : Reserve(ask.from, ask.req, ask.origin)
      BY <2>4
    <3>2. /\ row'[next].st = "reserved" /\ row'[next].ses = NoName /\ orphaned' = orphaned
          /\ \A i \in Ids \ {next} : Same(i) \/ Gone(i) \/ Moved(i)
      BY <3>1, NewRow
    <3>3. \A i \in Ids \ {next} : /\ row'[i].ses \in {row[i].ses, NoName}
                                  /\ row'[i].st \in Kept => row[i].st \in Kept /\ row'[i].ses = row[i].ses
      BY <3>2, OldRow DEF Kept
    <3> QED BY <1>2, <3>2, <3>3 DEF Kept
  <2>5. ASSUME \E i \in Ids : Finalize(i) /\ Held(i) PROVE Sessioned
    <3>1. PICK i \in Ids : Finalize(i) /\ Held(i)
      BY <2>5
    <3>2. row'[i] = [row[i] EXCEPT !.st = "active", !.ses = <<i, "temp">>] /\ \A j \in Ids \ {i} : row'[j] = row[j]
      BY <3>1, FinalizeRows DEF Same
    <3>3. row'[i].ses = <<i, "temp">>
      BY <3>2 DEF RowsTyped, Row
    <3>4. got[i] = <<i, "temp">> /\ orphaned' = IF got[i] = name[i] THEN orphaned ELSE orphaned \cup {i}
      BY <3>1 DEF Finalize, Launches, LaunchOf
    <3> QED BY <1>2, <3>2, <3>3, <3>4
  <2> QED BY <1>4, <2>2, <2>3, <2>4, <2>5, Steps
<1> QED BY <1>4, <1>5, <1>6, NameSteps

-----------------------------------------------------------------------------
(* Kinship: rows name their parents, and no parent asked twice for one.    *)

KinOf(i) == /\ asked[i] # NoAsk
            /\ name[asked[i][1]] # NoName
            /\ row[i].parent = name[asked[i][1]]
            /\ row[i].req = asked[i][2]

LEMMA Asked ==
  ASSUME OthersTyped, NEW i \in Ids, asked[i] # NoAsk
  PROVE  asked[i][1] \in Sessions /\ asked[i] = <<asked[i][1], asked[i][2]>>
BY DEF OthersTyped

LEMMA FinalRows ==
  ASSUME RowsTyped, Launches, NEW i \in Ids, Finalize(i), Held(i)
  PROVE  /\ row[i].st = "reserved" /\ row'[i].st = "active" /\ row'[i].ses = <<i, "temp">>
         /\ \A j \in Ids : /\ row'[j].parent = row[j].parent /\ row'[j].root = row[j].root
                           /\ row'[j].depth = row[j].depth /\ row'[j].req = row[j].req
                           /\ row'[j].origin = row[j].origin
         /\ \A j \in Ids \ {i} : row'[j] = row[j]
         /\ UNCHANGED <<name, asked, unknown, revived, next>>
<1>1. row'[i] = [row[i] EXCEPT !.st = "active", !.ses = <<i, "temp">>] /\ \A j \in Ids \ {i} : row'[j] = row[j]
  BY FinalizeRows DEF Same
<1>2. row[i] \in Row /\ row[i].st = "reserved"
  BY DEF RowsTyped, Held
<1>3. /\ row'[i].st = "active" /\ row'[i].ses = <<i, "temp">>
      /\ row'[i].parent = row[i].parent /\ row'[i].root = row[i].root
      /\ row'[i].depth = row[i].depth /\ row'[i].req = row[i].req /\ row'[i].origin = row[i].origin
  BY <1>1, <1>2 DEF Row
<1>4. UNCHANGED <<name, asked, unknown, revived, next>>
  BY DEF Finalize, sessionVars
<1> QED BY <1>1, <1>2, <1>3, <1>4

LEMMA KinStay ==
  ASSUME RowsTyped, OthersTyped, Launches, Named, Kin, [Next]_vars
  PROVE  Kin'
<1>0. \A i \in Rows(row) : KinOf(i)
  BY DEF Kin, KinOf
<1>1. SUFFICES ASSUME NEW i \in Ids, row'[i].st # "none" PROVE KinOf(i)'
  BY DEF Kin, KinOf, Rows
<1>2. row[i].st # "none" => KinOf(i) /\ asked[i][1] \in Sessions
  BY <1>0, Asked DEF Rows, KinOf
<1>3. CASE Tidy /\ NamesKept
  <2>1. row[i].st # "none" /\ row'[i].parent = row[i].parent /\ row'[i].req = row[i].req /\ asked' = asked
    BY <1>1, <1>3, TidyStates DEF Tidy
  <2>2. name'[asked[i][1]] = name[asked[i][1]]
    BY <1>2, <1>3, <2>1 DEF NamesKept, KinOf
  <2> QED BY <1>2, <2>1, <2>2 DEF KinOf
<1>4. CASE \E ask \in Asks : Reserve(ask.from, ask.req, ask.origin)
  <2>1. PICK ask \in Asks : Reserve(ask.from, ask.req, ask.origin)
    BY <1>4
  <2>2. /\ next \in Ids /\ ask.from \in open /\ name' = name
        /\ row'[next].parent = name[ask.from] /\ row'[next].req = ask.req
        /\ asked' = [asked EXCEPT ![next] = <<ask.from, ask.req>>]
        /\ \A j \in Ids \ {next} : Same(j) \/ Gone(j) \/ Moved(j)
    BY <2>1, NewRow
  <2>3. CASE i = next
    <3>1. asked'[i] = <<ask.from, ask.req>>
      BY <2>2, <2>3 DEF OthersTyped
    <3>2. name[ask.from] # NoName
      BY <2>2 DEF Named
    <3> QED BY <2>2, <2>3, <3>1, <3>2 DEF KinOf, NoAsk
  <2>4. CASE i # next
    <3>1. row[i].st # "none" /\ row'[i].parent = row[i].parent /\ row'[i].req = row[i].req
      BY <1>1, <2>2, <2>4, OldRow
    <3>2. asked'[i] = asked[i]
      BY <2>2, <2>4 DEF OthersTyped
    <3> QED BY <1>2, <2>2, <3>1, <3>2 DEF KinOf
  <2> QED BY <2>3, <2>4
<1>5. CASE \E j \in Ids : Finalize(j) /\ Held(j)
  <2>1. /\ row[i].st # "none" /\ row'[i].parent = row[i].parent /\ row'[i].req = row[i].req
        /\ asked' = asked /\ name' = name
    BY <1>1, <1>5, FinalRows
  <2> QED BY <1>2, <2>1 DEF KinOf
<1>6. CASE \E j \in Ids : Rekey(j) \/ RekeyAgain(j)
  <2>1. PICK j \in Ids : Rekey(j) \/ RekeyAgain(j)
    BY <1>6
  <2>2. /\ \A s \in Sessions : name'[s] = To(j, name[s])
        /\ Renamed(<<j, "temp">>, <<j, "own">>) /\ asked' = asked
    BY <2>1, RekeyNames
  <2>3. row'[i].st = row[i].st /\ row'[i].parent = To(j, row[i].parent) /\ row'[i].req = row[i].req
    BY <2>2, RenamedRows
  <2>4. \A n : n # NoName => To(j, n) # NoName
    BY DEF To, NoName
  <2> QED BY <1>1, <1>2, <2>2, <2>3, <2>4 DEF KinOf
<1> QED BY <1>3, <1>4, <1>5, <1>6, Kinds

\* Two rows of one parent are rows of one session.
LEMMA OneParent ==
  ASSUME OthersTyped, Named, Kin, NEW i \in Rows(row), NEW j \in Rows(row), row[i].parent = row[j].parent
  PROVE  asked[i][1] = asked[j][1]
<1>1. /\ asked[i][1] \in Sessions /\ name[asked[i][1]] # NoName /\ row[i].parent = name[asked[i][1]]
      /\ asked[j][1] \in Sessions /\ name[asked[j][1]] # NoName /\ row[j].parent = name[asked[j][1]]
  BY Asked DEF Kin, Rows
<1> DEFINE s == asked[i][1]
           u == asked[j][1]
<1>2. name[s] \in {<<s, "temp">>, <<s, "own">>} /\ name[u] \in {<<u, "temp">>, <<u, "own">>} /\ name[s] = name[u]
  BY <1>1, NamesApart
<1>3. s = u
  BY <1>2
<1> QED BY <1>3

LEMMA UniqueStay ==
  ASSUME RowsTyped, OthersTyped, Launches, Named, Kin, Unique, OthersTyped', Named', Kin', [Next]_vars
  PROVE  Unique'
<1>1. SUFFICES ASSUME NEW i \in Ids, NEW j \in Ids, row'[i].st # "none", row'[j].st # "none",
                      row'[i].parent = row'[j].parent, row'[i].req = row'[j].req
               PROVE  i = j
  BY DEF Unique, Rows
<1>2. ASSUME row[i].st # "none", row[j].st # "none", row[i].parent = row[j].parent, row[i].req = row[j].req
      PROVE  i = j
  BY <1>2 DEF Unique, Rows
<1>3. CASE Tidy /\ NamesKept
  <2>1. \A k \in {i, j} : row'[k].st # "none" =>
          row[k].st # "none" /\ row'[k].parent = row[k].parent /\ row'[k].req = row[k].req
    BY <1>3, TidyStates
  <2> QED BY <1>1, <1>2, <2>1
<1>4. CASE \E ask \in Asks : Reserve(ask.from, ask.req, ask.origin)
  <2>1. PICK ask \in Asks : Reserve(ask.from, ask.req, ask.origin)
    BY <1>4
  <2>2. /\ next \in Ids /\ row'[next].parent = name[ask.from] /\ row'[next].req = ask.req
        /\ \A k \in Ids \ {next} : Same(k) \/ Gone(k) \/ Moved(k)
        /\ \A k \in Rows(row) \ {next} : row[k].parent = name[ask.from] /\ row[k].req = ask.req => Gone(k)
    BY <2>1, NewRow
  <2>3. ASSUME NEW k \in Ids \ {next}, row'[k].st # "none"
        PROVE  /\ row[k].st # "none" /\ row'[k].parent = row[k].parent /\ row'[k].req = row[k].req
               /\ ~(row'[k].parent = row'[next].parent /\ row'[k].req = row'[next].req)
    <3>1. row[k].st # "none" /\ row'[k].parent = row[k].parent /\ row'[k].req = row[k].req
      BY <2>2, <2>3, OldRow
    <3>2. ~Gone(k)
      BY <2>3 DEF Gone, NoRow
    <3> QED BY <2>2, <3>1, <3>2 DEF Rows
  <2>4. CASE i # next /\ j # next
    BY <1>1, <1>2, <2>3, <2>4
  <2>5. CASE i = next \/ j = next
    BY <1>1, <2>3, <2>5
  <2> QED BY <2>4, <2>5
<1>5. CASE \E k \in Ids : Finalize(k) /\ Held(k)
  <2>1. \A l \in {i, j} : row'[l].st # "none" =>
          row[l].st # "none" /\ row'[l].parent = row[l].parent /\ row'[l].req = row[l].req
    BY <1>5, FinalRows
  <2> QED BY <1>1, <1>2, <2>1
<1>6. CASE \E k \in Ids : Rekey(k) \/ RekeyAgain(k)
  <2>1. PICK k \in Ids : Rekey(k) \/ RekeyAgain(k)
    BY <1>6
  <2>2. Renamed(<<k, "temp">>, <<k, "own">>) /\ asked' = asked
    BY <2>1, RekeyNames
  <2>3. \A l \in {i, j} : row'[l].st = row[l].st /\ row'[l].req = row[l].req
    BY <2>2, RenamedRows
  <2>4. row[i].st # "none" /\ row[j].st # "none" /\ row[i].req = row[j].req
    BY <1>1, <2>3
  <2>5. asked'[i][1] = asked'[j][1]
    <3>1. i \in Rows(row)' /\ j \in Rows(row)'
      BY <1>1 DEF Rows
    <3>2. /\ asked'[i][1] \in Sessions /\ name'[asked'[i][1]] # NoName /\ row'[i].parent = name'[asked'[i][1]]
          /\ asked'[j][1] \in Sessions /\ name'[asked'[j][1]] # NoName /\ row'[j].parent = name'[asked'[j][1]]
      BY <1>1, <2>2, <2>4, Asked DEF Kin, Rows
    <3> DEFINE s == asked'[i][1]
               u == asked'[j][1]
    <3>3. \A v \in Sessions : name'[v] # NoName => name'[v] \in {<<v, "temp">>, <<v, "own">>}
      <4>1. /\ name'[0] = <<0, "own">>
            /\ \A v \in Ids : name'[v] \in {NoName, <<v, "temp">>, <<v, "own">>}
        BY DEF Named
      <4>2. \A v \in Sessions : v = 0 \/ v \in Ids
        BY LineageAssumption DEF Sessions, Ids
      <4> QED BY <4>1, <4>2
    <3>4. name'[s] \in {<<s, "temp">>, <<s, "own">>} /\ name'[u] \in {<<u, "temp">>, <<u, "own">>} /\ name'[s] = name'[u]
      BY <1>1, <3>2, <3>3
    <3>5. s = u
      BY <3>4
    <3> QED BY <3>5
  <2>6. row[i].parent = row[j].parent
    BY <2>2, <2>4, <2>5 DEF Kin, Rows
  <2> QED BY <1>2, <2>4, <2>6
<1> QED BY <1>3, <1>4, <1>5, <1>6, Kinds

-----------------------------------------------------------------------------
(* Placement: a row hangs on its parent's.                                 *)

PlacedAt(i, p) ==
  /\ row[p].st \in Kept /\ row[p].ses = name[p]
  /\ row[i].st = "reserved" => row[p].st # "ended"
  /\ row[i].depth = row[p].depth + 1

\* What Place finds for a parent: nothing above the root, and the one row of a child.
LEMMA ParentRow ==
  ASSUME RowsTyped, OthersTyped, Named, NEW ask \in Asks, Reserve(ask.from, ask.req, ask.origin)
  PROVE  /\ unknown \subseteq unknown'
         /\ ask.from = 0 => Place(name[0]).depth = 1 /\ Place(name[0]).root = name[0]
         /\ ask.from \in Ids \ unknown' =>
              /\ row[ask.from].st \in Kept \ {"ended"} /\ row[ask.from].ses = name[ask.from]
              /\ Place(name[ask.from]).depth = row[ask.from].depth + 1
              /\ Place(name[ask.from]).root = row[ask.from].root
<1>1. /\ unknown' = IF ask.from # 0 /\ RowsOf(row, name[ask.from]) = {} THEN unknown \cup {ask.from} ELSE unknown
      /\ ask.from \in open /\ ~Ended(name[ask.from])
  BY DEF Reserve
<1>2. name[ask.from] # NoName /\ ask.from \in Sessions
  BY <1>1 DEF Named, OthersTyped
<1>3. name[ask.from] \in {<<ask.from, "temp">>, <<ask.from, "own">>} /\ name[ask.from] \in Ids0
  BY <1>2, NamesApart DEF OthersTyped
<1>4. \A j \in RowsOf(row, name[ask.from]) : j \in Ids /\ j = ask.from
  BY <1>3 DEF RowsOf, Rows, Named, NoName
<1>5. ask.from = 0 => RowsOf(row, name[0]) = {}
  BY <1>4 DEF Ids
<1>6. ASSUME ask.from \in Ids \ unknown'
      PROVE  /\ row[ask.from].st \in Kept \ {"ended"} /\ row[ask.from].ses = name[ask.from]
             /\ Place(name[ask.from]).depth = row[ask.from].depth + 1
             /\ Place(name[ask.from]).root = row[ask.from].root
  <2>1. ask.from # 0
    BY <1>6 DEF Ids
  <2>2. RowsOf(row, name[ask.from]) # {}
    BY <1>1, <1>6, <2>1
  <2>3. RowsOf(row, name[ask.from]) = {ask.from}
    BY <1>4, <2>2
  <2>4. row[ask.from].ses = name[ask.from] /\ row[ask.from].st # "ended"
    BY <1>1, <2>3 DEF RowsOf, Ended
  <2>5. row[ask.from].st \in Kept
    BY <1>2, <1>6, <2>4 DEF RowsTyped
  <2> QED BY <1>3, <2>3, <2>4, <2>5, PlaceIs
<1> QED BY <1>1, <1>3, <1>5, <1>6, PlaceIs

LEMMA PlacedStay ==
  ASSUME RowsTyped, OthersTyped, Launches, Named, Kin, Placed, [Next]_vars
  PROVE  Placed'
<1>1. SUFFICES ASSUME NEW i \in Ids, row'[i].st # "none", NEW p \in Ids, p \notin unknown', asked'[i][1] = p
               PROVE  PlacedAt(i, p)'
  BY DEF Placed, PlacedAt, Rows
<1>2. ASSUME row[i].st # "none", p \notin unknown, asked[i][1] = p
      PROVE  /\ PlacedAt(i, p) /\ row[i].parent = name[p]
             /\ row[p].st \in Kept /\ row[p].ses = name[p] /\ name[p] # NoName
  <2>1. PlacedAt(i, p)
    BY <1>2 DEF Placed, PlacedAt, Rows
  <2>2. row[i].parent = name[p] /\ name[p] # NoName
    BY <1>2 DEF Kin, Rows
  <2> QED BY <2>1, <2>2 DEF PlacedAt
<1>3. p \in Sessions
  BY DEF Ids, Sessions
<1>4. CASE Tidy /\ NamesKept
  <2>1. /\ row[i].st # "none" /\ row'[i].depth = row[i].depth
        /\ row'[i].st = "reserved" => row[i].st = "reserved"
    BY <1>1, <1>4, TidyStates
  <2>2. p \notin unknown /\ asked[i][1] = p
    BY <1>1, <1>4 DEF Tidy
  <2>3. PlacedAt(i, p) /\ row[i].parent = name[p] /\ row[p].st \in Kept /\ row[p].ses = name[p] /\ name[p] # NoName
    BY <1>2, <2>1, <2>2
  <2>4. row'[p].st \in Kept
    BY <1>4, <2>3, TidyStates
  <2>5. row'[p].st # "none"
    BY <2>4 DEF Kept
  <2>6. row'[p].ses = row[p].ses /\ row'[p].depth = row[p].depth
    BY <1>4, <2>5, TidyStates
  <2>7. name'[p] = name[p]
    BY <1>3, <1>4, <2>3 DEF NamesKept
  <2>8. row'[i].st = "reserved" => row'[p].st # "ended"
    BY <1>4, <2>1, <2>3 DEF Tidy, PlacedAt
  <2> QED BY <2>1, <2>3, <2>4, <2>6, <2>7, <2>8 DEF PlacedAt
<1>5. CASE \E ask \in Asks : Reserve(ask.from, ask.req, ask.origin)
  <2>1. PICK ask \in Asks : Reserve(ask.from, ask.req, ask.origin)
    BY <1>5
  <2>2. /\ next \in Ids /\ ask.from \in open /\ name' = name /\ row'[next].st = "reserved"
        /\ row'[next].depth = Place(name[ask.from]).depth
        /\ asked' = [asked EXCEPT ![next] = <<ask.from, ask.req>>]
        /\ \A j \in Ids \ {next} : Same(j) \/ Gone(j) \/ (Moved(j) /\ row'[j].st = "parked")
    BY <2>1, NewRow
  <2>3. row[next].st = "none"
    BY <2>2 DEF Launches, LaunchOf, OthersTyped
  <2>4. ASSUME row[p].st \in Kept
        PROVE  /\ row'[p].st \in Kept /\ row'[p].ses = row[p].ses /\ row'[p].depth = row[p].depth
               /\ row[p].st # "ended" => row'[p].st # "ended"
    <3>1. p # next
      BY <2>3, <2>4 DEF Kept
    <3>2. ~Gone(p)
      BY <2>4 DEF Gone, Kept
    <3>3. Same(p) \/ (Moved(p) /\ row'[p].st = "parked")
      BY <2>2, <3>1, <3>2
    <3>4. row'[p].st \in Kept /\ (row[p].st # "ended" => row'[p].st # "ended")
      BY <2>4, <3>3 DEF Same, Kept
    <3>5. row'[p].st # "none" /\ p \in Ids
      BY <3>4 DEF Kept
    <3> QED BY <3>3, <3>4, <3>5, OldRow
  <2>5. CASE i = next
    <3>1. ask.from = p
      BY <1>1, <2>2, <2>5 DEF OthersTyped
    <3>2. /\ row[p].st \in Kept \ {"ended"} /\ row[p].ses = name[p]
          /\ Place(name[p]).depth = row[p].depth + 1
      BY <1>1, <2>1, <3>1, ParentRow
    <3> QED BY <2>2, <2>4, <2>5, <3>1, <3>2 DEF PlacedAt
  <2>6. CASE i # next
    <3>1. row[i].st # "none" /\ row'[i].depth = row[i].depth /\ (row'[i].st = "reserved" => row[i].st = "reserved")
      BY <1>1, <2>2, <2>6, OldRow
    <3>2. asked[i][1] = p /\ p \notin unknown
      <4>1. asked'[i] = asked[i]
        BY <2>2, <2>6 DEF OthersTyped
      <4>2. unknown \subseteq unknown'
        BY <2>1, ParentRow
      <4> QED BY <1>1, <4>1, <4>2
    <3>3. PlacedAt(i, p)
      BY <1>2, <3>1, <3>2
    <3> QED BY <2>2, <2>4, <3>1, <3>3 DEF PlacedAt
  <2> QED BY <2>5, <2>6
<1>6. CASE \E j \in Ids : Finalize(j) /\ Held(j)
  <2>1. PICK j \in Ids : Finalize(j) /\ Held(j)
    BY <1>6
  <2>2. /\ row[j].st = "reserved" /\ row'[j].st = "active"
        /\ row'[i].depth = row[i].depth /\ (i # j => row'[i] = row[i]) /\ (p # j => row'[p] = row[p])
        /\ name' = name /\ asked' = asked /\ unknown' = unknown
    BY <2>1, FinalRows
  <2>3. row[i].st # "none" /\ (row'[i].st = "reserved" => row[i].st = "reserved")
    BY <1>1, <2>2
  <2>4. PlacedAt(i, p) /\ row[p].st \in Kept
    BY <1>1, <1>2, <2>2, <2>3
  <2>5. p # j
    BY <2>2, <2>4 DEF Kept
  <2> QED BY <2>2, <2>3, <2>4, <2>5 DEF PlacedAt
<1>7. CASE \E j \in Ids : Rekey(j) \/ RekeyAgain(j)
  <2>1. PICK j \in Ids : Rekey(j) \/ RekeyAgain(j)
    BY <1>7
  <2>2. /\ name'[p] = To(j, name[p]) /\ Renamed(<<j, "temp">>, <<j, "own">>)
        /\ asked' = asked /\ unknown' = unknown
    BY <1>3, <2>1, RekeyNames
  <2>3. /\ row'[i].st = row[i].st /\ row'[i].depth = row[i].depth
        /\ row'[p].st = row[p].st /\ row'[p].depth = row[p].depth /\ row'[p].ses = To(j, row[p].ses)
    BY <2>2, RenamedRows
  <2>4. PlacedAt(i, p)
    BY <1>1, <1>2, <2>2, <2>3
  <2> QED BY <2>2, <2>3, <2>4 DEF PlacedAt
<1> QED BY <1>4, <1>5, <1>6, <1>7, Kinds

LEMMA OneTreeStay ==
  ASSUME RowsTyped, OthersTyped, Launches, Named, Kin, Placed, OneTree, [Next]_vars
  PROVE  OneTree'
<1>1. SUFFICES ASSUME unknown' = {}, NEW i \in Ids, row'[i].st # "none" PROVE row'[i].root = name'[0]
  BY DEF OneTree, Rows
<1>2. unknown = {} /\ row[i].st # "none" => row[i].root = name[0]
  BY DEF OneTree, Rows
<1>3. name[0] = <<0, "own">> /\ name[0] # NoName /\ 0 \in Sessions
  BY LineageAssumption DEF Named, NoName, Sessions
<1>4. CASE Tidy /\ NamesKept
  <2>1. row[i].st # "none" /\ row'[i].root = row[i].root
    BY <1>1, <1>4, TidyStates
  <2>2. unknown = {} /\ name'[0] = name[0]
    BY <1>1, <1>3, <1>4 DEF Tidy, NamesKept
  <2> QED BY <1>2, <2>1, <2>2
<1>5. CASE \E ask \in Asks : Reserve(ask.from, ask.req, ask.origin)
  <2>1. PICK ask \in Asks : Reserve(ask.from, ask.req, ask.origin)
    BY <1>5
  <2>2. /\ ask.from \in Sessions /\ name' = name /\ row'[next].root = Place(name[ask.from]).root
        /\ \A j \in Ids \ {next} : Same(j) \/ Gone(j) \/ Moved(j)
    BY <2>1, NewRow
  <2>3. unknown = {}
    BY <1>1, <2>1, ParentRow
  <2>4. CASE i # next
    BY <1>1, <1>2, <2>2, <2>3, <2>4, OldRow
  <2>5. CASE i = next /\ ask.from = 0
    BY <2>1, <2>2, <2>5, ParentRow
  <2>6. CASE i = next /\ ask.from # 0
    <3>1. ask.from \in Ids \ unknown'
      BY <1>1, <2>2, <2>6, LineageAssumption DEF Sessions, Ids
    <3>2. row[ask.from].st \in Kept /\ Place(name[ask.from]).root = row[ask.from].root
      BY <2>1, <3>1, ParentRow
    <3>3. row[ask.from].root = name[0]
      BY <2>3, <3>1, <3>2 DEF OneTree, Rows, Kept
    <3> QED BY <2>2, <2>6, <3>2, <3>3
  <2> QED BY <2>4, <2>5, <2>6
<1>6. CASE \E j \in Ids : Finalize(j) /\ Held(j)
  <2>1. row[i].st # "none" /\ row'[i].root = row[i].root /\ name' = name /\ unknown' = unknown
    BY <1>1, <1>6, FinalRows
  <2> QED BY <1>1, <1>2, <2>1
<1>7. CASE \E j \in Ids : Rekey(j) \/ RekeyAgain(j)
  <2>1. PICK j \in Ids : Rekey(j) \/ RekeyAgain(j)
    BY <1>7
  <2>2. name'[0] = To(j, name[0]) /\ Renamed(<<j, "temp">>, <<j, "own">>) /\ unknown' = unknown
    BY <1>3, <2>1, RekeyNames
  <2>3. row'[i].st = row[i].st /\ row'[i].root = To(j, row[i].root)
    BY <2>2, RenamedRows
  <2> QED BY <1>1, <1>2, <2>2, <2>3
<1> QED BY <1>4, <1>5, <1>6, <1>7, Kinds

-----------------------------------------------------------------------------
(* The caps.                                                               *)

Mine == {i \in Rows(row) : row[i].origin = "agent"}
OpenMine == {i \in Mine : row[i].st # "ended"}
BusyMine == {i \in Mine \ revived : row[i].st \in Busy}
BusyOf(p) == {i \in BusyMine : asked[i][1] = p}

Caps ==
  unknown = {} =>
    /\ Cardinality(Mine) <= LifetimePerRoot
    /\ Cardinality(OpenMine) <= OpenPerRoot
    /\ Cardinality(BusyMine) <= ActivePerRoot
    /\ \A p \in Sessions : Cardinality(BusyOf(p)) <= ActivePerParent

LEMMA IdsFinite == ASSUME NEW S, S \subseteq Ids PROVE IsFiniteSet(S) /\ Cardinality(S) \in Nat
<1>1. IsFiniteSet(1..MaxRows)
  <2>1. MaxRows \in Int /\ 1 \in Int
    BY LineageAssumption
  <2> QED BY <2>1, FS_Interval
<1>2. IsFiniteSet(S)
  BY <1>1, FS_Subset DEF Ids
<1> QED BY <1>2, FS_CardinalityType

LEMMA Shrinks ==
  ASSUME NEW T, T \subseteq Ids, NEW S, S \subseteq T, NEW cap \in Nat, Cardinality(T) <= cap
  PROVE  Cardinality(S) <= cap
<1>1. Cardinality(S) <= Cardinality(T) /\ Cardinality(S) \in Nat /\ Cardinality(T) \in Nat
  BY IdsFinite, FS_Subset
<1> QED BY <1>1

LEMMA FitsOneMore ==
  ASSUME NEW T, T \subseteq Ids, NEW x \in Ids, NEW S, S \subseteq T \cup {x},
         NEW cap \in Nat, Cardinality(T) < cap
  PROVE  Cardinality(S) <= cap
<1>1. IsFiniteSet(T) /\ Cardinality(T) \in Nat
  BY IdsFinite
<1>2. Cardinality(T \cup {x}) \in {Cardinality(T), Cardinality(T) + 1}
  BY <1>1, FS_AddElement
<1>3. Cardinality(T \cup {x}) <= cap
  BY <1>1, <1>2
<1> QED BY <1>3, Shrinks

\* What a table of t counts against the caps on a child of n in the tree of root.
MineIn(t, root) == {i \in Rows(t) : t[i].origin = "agent" /\ t[i].root = root}

LEMMA RoomIs ==
  ASSUME NEW t, NEW n, NEW root, Room(t, n, root)
  PROVE  /\ Cardinality({i \in In(t, Busy) : t[i].origin = "agent" /\ t[i].parent = n}) < ActivePerParent
         /\ Cardinality({i \in MineIn(t, root) : t[i].st \in Busy}) < ActivePerRoot
         /\ Cardinality({i \in MineIn(t, root) : t[i].st # "ended"}) < OpenPerRoot
         /\ Cardinality(MineIn(t, root)) < LifetimePerRoot
BY DEF Room, MineIn, Busy

\* A step that adds no row adds nothing to what the caps bound.
LEMMA CapsShrink ==
  ASSUME Caps, asked' = asked, unknown' = {} => unknown = {},
         \A i \in Ids : row'[i].st # "none" =>
           /\ row[i].st # "none" /\ row'[i].origin = row[i].origin
           /\ row'[i].st # "ended" => row[i].st # "ended"
           /\ row'[i].st \in Busy /\ i \notin revived' => row[i].st \in Busy /\ i \notin revived
  PROVE  Caps'
<1>1. Mine' \subseteq Mine /\ Mine \subseteq Ids
  BY DEF Mine, Rows
<1>2. OpenMine' \subseteq OpenMine /\ OpenMine \subseteq Ids
  BY <1>1 DEF OpenMine, Mine, Rows
<1>3. BusyMine' \subseteq BusyMine /\ BusyMine \subseteq Ids
  BY <1>1 DEF BusyMine, Mine, Rows
<1>4. \A p \in Sessions : BusyOf(p)' \subseteq BusyOf(p) /\ BusyOf(p) \subseteq Ids
  BY <1>3 DEF BusyOf
<1>5. {ActivePerParent, ActivePerRoot, OpenPerRoot, LifetimePerRoot} \subseteq Nat
  BY LineageAssumption
<1>6. ASSUME unknown' = {}
      PROVE  /\ Cardinality(Mine') <= LifetimePerRoot /\ Cardinality(OpenMine') <= OpenPerRoot
             /\ Cardinality(BusyMine') <= ActivePerRoot
  <2>1. /\ Cardinality(Mine) <= LifetimePerRoot /\ Cardinality(OpenMine) <= OpenPerRoot
        /\ Cardinality(BusyMine) <= ActivePerRoot
    BY <1>6 DEF Caps
  <2>2. Cardinality(Mine') <= LifetimePerRoot
    BY <1>1, <1>5, <2>1, Shrinks
  <2>3. Cardinality(OpenMine') <= OpenPerRoot
    BY <1>2, <1>5, <2>1, Shrinks
  <2>4. Cardinality(BusyMine') <= ActivePerRoot
    BY <1>3, <1>5, <2>1, Shrinks
  <2> QED BY <2>2, <2>3, <2>4
<1>7. ASSUME unknown' = {}, NEW p \in Sessions PROVE Cardinality(BusyOf(p)') <= ActivePerParent
  <2>1. Cardinality(BusyOf(p)) <= ActivePerParent
    BY <1>7 DEF Caps
  <2> QED BY <1>4, <1>5, <2>1, Shrinks
<1> QED BY <1>6, <1>7 DEF Caps

LEMMA CapsStay ==
  ASSUME RowsTyped, OthersTyped, Launches, Named, Kin, OneTree, Caps, Kin', OneTree', [Next]_vars
  PROVE  Caps'
<1>1. CASE Tidy /\ NamesKept
  <2>1. ASSUME NEW i \in Ids, row'[i].st # "none"
        PROVE  /\ row[i].st # "none" /\ row'[i].origin = row[i].origin
               /\ row'[i].st # "ended" => row[i].st # "ended"
               /\ row'[i].st \in Busy /\ i \notin revived' => row[i].st \in Busy /\ i \notin revived
    <3>1. row[i].st # "none" /\ row'[i].origin = row[i].origin
      BY <1>1, <2>1, TidyStates
    <3>2. row[i] \in Row /\ (Same(i) \/ Gone(i) \/ Moved(i))
      BY <1>1 DEF RowsTyped, Tidy
    <3>3. row'[i].st # "ended" => row[i].st # "ended"
      BY <3>2 DEF Same, Gone, Moved, Kept, NoRow, Row
    <3>4. row'[i].st \in Busy /\ i \notin revived' => row[i].st \in Busy /\ i \notin revived
      BY <1>1 DEF Tidy
    <3> QED BY <3>1, <3>3, <3>4
  <2> QED BY <1>1, <2>1, CapsShrink DEF Tidy
<1>2. CASE \E ask \in Asks : Reserve(ask.from, ask.req, ask.origin)
  <2>1. PICK ask \in Asks : Reserve(ask.from, ask.req, ask.origin)
    BY <1>2
  <2> DEFINE n == name[ask.from]
             root == Place(n).root
  <2>2. /\ next \in Ids /\ name' = name /\ revived' = revived /\ ask.from \in Sessions
        /\ row'[next].st = "reserved" /\ row'[next].origin = ask.origin /\ row'[next].root = root
        /\ asked' = [asked EXCEPT ![next] = <<ask.from, ask.req>>]
        /\ \A i \in Ids \ {next} : Same(i) \/ Gone(i) \/ (Moved(i) /\ row'[i].st = "parked")
    BY <2>1, NewRow
  <2>3. unknown \subseteq unknown' /\ \A i \in Ids \ {next} : asked'[i] = asked[i]
    BY <2>1, <2>2, ParentRow DEF OthersTyped
  <2>4. ASSUME NEW i \in Ids \ {next}, row'[i].st # "none"
        PROVE  /\ row[i].st # "none" /\ row'[i].origin = row[i].origin
               /\ row'[i].st # "ended" => row[i].st # "ended"
               /\ row'[i].st \in Busy => row[i].st \in Busy
    <3>1. Same(i) \/ (Moved(i) /\ row'[i].st = "parked")
      BY <2>2, <2>4 DEF Gone, NoRow
    <3>2. row[i].st # "none" /\ row'[i].origin = row[i].origin
      BY <2>4, <3>1, OldRow
    <3>3. row[i] \in Row
      BY DEF RowsTyped
    <3>4. row'[i].st # "ended" => row[i].st # "ended"
      BY <3>1, <3>3 DEF Same, Moved, Kept, Row
    <3> QED BY <3>1, <3>2, <3>4 DEF Same, Busy
  <2>5. asked'[next][1] = ask.from
    BY <2>2 DEF OthersTyped
  <2>6. {ActivePerParent, ActivePerRoot, OpenPerRoot, LifetimePerRoot} \subseteq Nat
    BY LineageAssumption
  <2>7. SUFFICES ASSUME unknown' = {}
                 PROVE  /\ Cardinality(Mine') <= LifetimePerRoot /\ Cardinality(OpenMine') <= OpenPerRoot
                        /\ Cardinality(BusyMine') <= ActivePerRoot
                        /\ \A p \in Sessions : Cardinality(BusyOf(p)') <= ActivePerParent
    BY DEF Caps
  <2>8. /\ Cardinality(Mine) <= LifetimePerRoot /\ Cardinality(OpenMine) <= OpenPerRoot
        /\ Cardinality(BusyMine) <= ActivePerRoot
        /\ \A p \in Sessions : Cardinality(BusyOf(p)) <= ActivePerParent
    BY <2>3, <2>7 DEF Caps
  <2>9. /\ Mine' \subseteq Mine \cup {next} /\ OpenMine' \subseteq OpenMine \cup {next}
        /\ BusyMine' \subseteq BusyMine \cup {next}
        /\ Mine \subseteq Ids /\ OpenMine \subseteq Ids /\ BusyMine \subseteq Ids
    BY <2>2, <2>4 DEF Mine, OpenMine, BusyMine, Rows
  <2>10. \A p \in Sessions : /\ BusyOf(p) \subseteq Ids
                             /\ BusyOf(p)' \subseteq BusyOf(p) \cup {next}
                             /\ p # ask.from => next \notin BusyOf(p)'
    BY <2>3, <2>5, <2>9 DEF BusyOf
  <2>11. \A p \in Sessions : p # ask.from => Cardinality(BusyOf(p)') <= ActivePerParent
    <3>1. SUFFICES ASSUME NEW p \in Sessions, p # ask.from PROVE Cardinality(BusyOf(p)') <= ActivePerParent
      OBVIOUS
    <3>2. BusyOf(p)' \subseteq BusyOf(p) /\ BusyOf(p) \subseteq Ids
      BY <2>10, <3>1
    <3> QED BY <2>6, <2>8, <3>2, Shrinks
  <2>12. CASE ask.origin # "agent"
    <3>1. next \notin Mine'
      BY <2>2, <2>12 DEF Mine
    <3>2. /\ Mine' \subseteq Mine /\ OpenMine' \subseteq OpenMine /\ BusyMine' \subseteq BusyMine
          /\ \A p \in Sessions : BusyOf(p)' \subseteq BusyOf(p)
      BY <2>9, <2>10, <3>1 DEF OpenMine, BusyMine, BusyOf
    <3>3. Cardinality(Mine') <= LifetimePerRoot
      BY <2>6, <2>8, <2>9, <3>2, Shrinks
    <3>4. Cardinality(OpenMine') <= OpenPerRoot
      BY <2>6, <2>8, <2>9, <3>2, Shrinks
    <3>5. Cardinality(BusyMine') <= ActivePerRoot
      BY <2>6, <2>8, <2>9, <3>2, Shrinks
    <3>6. Cardinality(BusyOf(ask.from)') <= ActivePerParent
      BY <2>2, <2>6, <2>8, <2>10, <3>2, Shrinks
    <3> QED BY <2>11, <3>3, <3>4, <3>5, <3>6
  <2>13. CASE ask.origin = "agent"
    <3>1. PICK t \in [Ids -> Row] : Room(t, n, root) /\ \A i \in Ids \ {next} : t[i] = row'[i]
      <4>1. \E t \in [Ids -> Row] : Room(t, n, root) /\ \A i \in Ids \ {next} : t[i] = row'[i]
        BY <2>1, <2>13, ReserveRows
      <4> QED BY <4>1
    <3> DEFINE mine == MineIn(t, root)
               busy == {i \in mine : t[i].st \in Busy}
               live == {i \in mine : t[i].st # "ended"}
               kids == {i \in In(t, Busy) : t[i].origin = "agent" /\ t[i].parent = n}
    <3>2. /\ Cardinality(kids) < ActivePerParent /\ Cardinality(busy) < ActivePerRoot
          /\ Cardinality(live) < OpenPerRoot /\ Cardinality(mine) < LifetimePerRoot
      BY <3>1, RoomIs
    <3>3. mine \subseteq Ids /\ busy \subseteq Ids /\ live \subseteq Ids /\ kids \subseteq Ids
      BY DEF MineIn, Rows, In
    <3>4. \A i \in Ids \ {next} : row'[i].st # "none" => row'[i].root = root
      BY <2>2, <2>7 DEF OneTree, Rows
    <3>5. Mine' \subseteq mine \cup {next}
      BY <3>1, <3>4 DEF Mine, MineIn, Rows
    <3>6. OpenMine' \subseteq live \cup {next}
      BY <3>1, <3>5 DEF OpenMine, Mine, Rows
    <3>7. BusyMine' \subseteq busy \cup {next}
      BY <3>1, <3>5 DEF BusyMine, Mine, Rows
    <3>8. BusyOf(ask.from)' \subseteq kids \cup {next}
      <4>1. ASSUME NEW i \in BusyOf(ask.from)', i # next PROVE i \in kids
        <5>1. i \in Ids /\ row'[i].st # "none" /\ row'[i].st \in Busy /\ row'[i].origin = "agent" /\ asked'[i][1] = ask.from
          BY <4>1 DEF BusyOf, BusyMine, Mine, Rows
        <5>2. row'[i].parent = n
          BY <2>2, <5>1 DEF Kin, Rows
        <5> QED BY <3>1, <4>1, <5>1, <5>2 DEF In
      <4> QED BY <4>1
    <3> HIDE DEF mine, busy, live, kids
    <3>9. Cardinality(Mine') <= LifetimePerRoot
      BY <2>2, <2>6, <3>2, <3>3, <3>5, FitsOneMore
    <3>10. Cardinality(OpenMine') <= OpenPerRoot
      BY <2>2, <2>6, <3>2, <3>3, <3>6, FitsOneMore
    <3>11. Cardinality(BusyMine') <= ActivePerRoot
      BY <2>2, <2>6, <3>2, <3>3, <3>7, FitsOneMore
    <3>12. Cardinality(BusyOf(ask.from)') <= ActivePerParent
      BY <2>2, <2>6, <3>2, <3>3, <3>8, FitsOneMore
    <3> QED BY <2>11, <3>9, <3>10, <3>11, <3>12
  <2> QED BY <2>12, <2>13
<1>3. CASE \E j \in Ids : Finalize(j) /\ Held(j)
  <2>1. PICK j \in Ids : Finalize(j) /\ Held(j)
    BY <1>3
  <2>2. /\ row[j].st = "reserved" /\ row'[j].st = "active"
        /\ \A i \in Ids : row'[i].origin = row[i].origin
        /\ \A i \in Ids \ {j} : row'[i] = row[i]
        /\ asked' = asked /\ unknown' = unknown /\ revived' = revived
    BY <2>1, FinalRows
  <2> QED BY <2>2, CapsShrink DEF Busy
<1>4. CASE \E j \in Ids : Rekey(j) \/ RekeyAgain(j)
  <2>1. PICK j \in Ids : Rekey(j) \/ RekeyAgain(j)
    BY <1>4
  <2>2. Renamed(<<j, "temp">>, <<j, "own">>) /\ asked' = asked /\ unknown' = unknown /\ revived' = revived
    BY <2>1, RekeyNames
  <2>3. \A i \in Ids : row'[i].st = row[i].st /\ row'[i].origin = row[i].origin
    BY <2>2, RenamedRows
  <2> QED BY <2>2, <2>3, CapsShrink
<1> QED BY <1>1, <1>2, <1>3, <1>4, Kinds

-----------------------------------------------------------------------------
(* The invariant and the theorems.                                         *)

Inv == RowsTyped /\ OthersTyped /\ Launches /\ Named /\ Kin /\ Unique /\ Placed /\ OneTree /\ Caps

LEMMA InitInv == Init => Inv
<1> SUFFICES ASSUME Init PROVE Inv
  OBVIOUS
<1>0. 0 \in Sessions /\ Ids \subseteq Sessions /\ 0 \notin Ids /\ 1 \in 1..MaxRows + 1
  BY LineageAssumption DEF Sessions, Ids
<1>1. RowsTyped
  BY NoRowIsRow DEF Init, RowsTyped, NoRow, Kept
<1>2. OthersTyped
  <2>1. NoFails \in [n : 0..FailLimit, cooling : BOOLEAN]
    BY LineageAssumption DEF NoFails
  <2>2. <<0, "own">> \in Ids0 /\ NoName \in Ids0
    BY <1>0 DEF Ids0, Names
  <2> QED BY <1>0, <2>1, <2>2, LineageAssumption DEF Init, OthersTyped
<1>3. \A i \in Ids : row[i].st = "none" /\ row[i].ses = NoName
  BY DEF Init, NoRow
<1>4. Launches
  <2>1. ASSUME NEW i \in Ids PROVE LaunchOf(i)
    <3>1. i >= 1 /\ next = 1 /\ job[i] = "none" /\ name[i] = NoName /\ prompted = {}
      BY <1>0 DEF Init, Ids
    <3> QED BY <1>3, <3>1 DEF LaunchOf, Kept
  <2> QED BY <2>1 DEF Launches
<1>5. Named
  <2>1. name[0] = <<0, "own">> /\ (\A i \in Ids : name[i] = NoName) /\ open = {0} /\ again = {}
    BY <1>0 DEF Init
  <2>2. name[0] # NoName
    BY <2>1 DEF NoName
  <2>3. RowNamesItsChild
    BY <1>3 DEF RowNamesItsChild, In
  <2> QED BY <1>3, <2>1, <2>2, <2>3 DEF Named
<1>6. Rows(row) = {}
  BY <1>3 DEF Rows
<1>7. Kin /\ Unique /\ Placed /\ OneTree
  BY <1>6 DEF Kin, Unique, Placed, OneTree
<1>8. Caps
  <2>1. Mine = {} /\ OpenMine = {} /\ BusyMine = {} /\ \A p : BusyOf(p) = {}
    BY <1>6 DEF Mine, OpenMine, BusyMine, BusyOf
  <2>2. Cardinality({}) = 0
    BY FS_EmptySet
  <2> QED BY <2>1, <2>2, LineageAssumption DEF Caps
<1> QED BY <1>1, <1>2, <1>4, <1>5, <1>7, <1>8 DEF Inv

LEMMA NextInv == Inv /\ [Next]_vars => Inv'
<1> SUFFICES ASSUME Inv, [Next]_vars PROVE Inv'
  OBVIOUS
<1>1. RowsTyped' /\ OthersTyped' /\ Launches' /\ Named'
  BY RowsStayTyped, OthersStayTyped, LaunchesStay, NamedStay DEF Inv
<1>2. Kin' /\ Placed' /\ OneTree'
  BY KinStay, PlacedStay, OneTreeStay DEF Inv
<1>3. Unique' /\ Caps'
  BY <1>1, <1>2, UniqueStay, CapsStay DEF Inv
<1> QED BY <1>1, <1>2, <1>3 DEF Inv

THEOREM Invariance == Spec => []Inv
BY InitInv, NextInv, PTL DEF Spec

\* Every variable has its type, and a row has a session's id exactly when its
\* launch was recorded.
THEOREM TypeCorrect == Spec => []TypeOK
<1>1. Inv => TypeOK
  BY TypeParts DEF Inv
<1> QED BY <1>1, Invariance, PTL

\* A slot is held by a launch in flight and by nothing else.
THEOREM SlotsAreLaunches == Spec => []ReservedIsLaunching
<1>1. Inv => ReservedIsLaunching
  BY DEF Inv, Launches, LaunchOf, ReservedIsLaunching, In
<1> QED BY <1>1, Invariance, PTL

\* A request gives at most one child its prompt, however often it is asked.
THEOREM RequestsGetOneChild == Spec => []OneChildPerRequest
<1>1. ASSUME Inv PROVE OneChildPerRequest
  <2>1. SUFFICES ASSUME NEW i \in prompted, NEW j \in prompted, asked[i] = asked[j] PROVE i = j
    BY DEF OneChildPerRequest
  <2>2. i \in Ids /\ j \in Ids
    BY <1>1 DEF Inv, OthersTyped
  <2>3. i \in Rows(row) /\ j \in Rows(row)
    BY <1>1, <2>2 DEF Inv, Launches, LaunchOf, Kept, Rows
  <2>4. row[i].parent = row[j].parent /\ row[i].req = row[j].req
    BY <1>1, <2>1, <2>3 DEF Inv, Kin
  <2> QED BY <1>1, <2>3, <2>4 DEF Inv, Unique
<1> QED BY <1>1, Invariance, PTL

\* A row names the session that was launched for it, through every rename.
THEOREM RowsFollowTheirChildren == Spec => []RowNamesItsChild
<1>1. Inv => RowNamesItsChild
  BY DEF Inv, Named
<1> QED BY <1>1, Invariance, PTL

\* The caps bound the whole tree beneath the root, and a child's depth is its
\* parent's and one, as long as every child that spawned had a row.
THEOREM CapsHold == Spec => []TreeWithinCaps
<1>1. ASSUME Inv PROVE TreeWithinCaps
  <2>1. ASSUME unknown = {}, NEW i \in Rows(row), asked[i][1] # 0
        PROVE  row[i].depth = row[asked[i][1]].depth + 1
    <3>1. asked[i][1] \in Sessions
      BY <1>1, Asked DEF Inv, Kin, Rows
    <3>2. asked[i][1] \in Ids \ unknown
      BY <2>1, <3>1, LineageAssumption DEF Sessions, Ids
    <3> QED BY <1>1, <3>2 DEF Inv, Placed
  <2>2. Caps
    BY <1>1 DEF Inv
  <2> QED BY <2>1, <2>2 DEF TreeWithinCaps, Caps, Mine, OpenMine, BusyMine, BusyOf, Busy
<1> QED BY <1>1, Invariance, PTL

\* No launch is recorded beneath a parent that was cancelled meanwhile.
THEOREM CancelledStayChildless == Spec => CancelledGetNoChild
<1> DEFINE Refused == \A i \in Ids : (row[i].st = "reserved" /\ row'[i].st = "active"
                                      /\ asked[i][1] \notin {0} \cup unknown)
                        => row[asked[i][1]].st # "ended"
<1>1. ASSUME Inv PROVE Refused
  <2>1. SUFFICES ASSUME NEW i \in Ids, row[i].st = "reserved", asked[i][1] \notin {0} \cup unknown
                 PROVE  row[asked[i][1]].st # "ended"
    OBVIOUS
  <2>2. i \in Rows(row)
    BY <2>1 DEF Rows
  <2>3. asked[i][1] \in Sessions
    BY <1>1, <2>2, Asked DEF Inv, Kin
  <2>4. asked[i][1] \in Ids \ unknown
    BY <2>1, <2>3, LineageAssumption DEF Sessions, Ids
  <2> QED BY <1>1, <2>1, <2>2, <2>4 DEF Inv, Placed
<1>2. Spec => [][Refused]_vars
  BY <1>1, Invariance, PTL DEF Spec
<1> QED BY <1>2 DEF CancelledGetNoChild
=============================================================================
