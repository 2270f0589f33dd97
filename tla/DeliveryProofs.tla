---------------------------- MODULE DeliveryProofs ----------------------------
(***************************************************************************)
(* EventDelivery implements Delivery for any events and any number of      *)
(* mishaps: every step of table, drainer, gate, view and agent moves each  *)
(* event as the outbox promises, or leaves it.                             *)
(*                                                                         *)
(* The invariant of EventDeliveryProofs says that an event which may come  *)
(* back was not started on.  One addition is needed for the other half of  *)
(* the promise, that an event which passes for taken was: a receipt on its *)
(* way speaks of lines the agent did start on, and of no others.           *)
(***************************************************************************)
EXTENDS EventDeliveryProofs

-----------------------------------------------------------------------------
(* What the agent's receipts are worth.                                    *)

\* The agent started on every row of the line.
Started(k) == \A r \in Rows : (\E pair \in k : pair[1] = r) => k \in heard[r]

Vouched(keys) == \A k \in keys : Started(k)

TurnVouched == Vouched(turn)
EventsVouched == \A e \in ToSet(events) : e.m \in {"accepted", "ended"} => Vouched(e.keys)
ReportsVouched == \A x \in ToSet(inbox) : x.m \in {"accepted", "delivered"} => Vouched(x.keys)

\* What is marked taken was started on, and a line of doubtful fate can be told.
RowsVouched ==
  \A r \in Rows :
    /\ row[r].st \in {"accepted", "delivered"} => heard[r] # {}
    /\ row[r].st = "unconfirmed" => row[r].key # NoKey

Proven == TurnVouched /\ EventsVouched /\ ReportsVouched /\ RowsVouched

LEMMA HeardMoves ==
  ASSUME Typed, [Next]_vars
  PROVE  heard' = heard \/ \E k \in stdin : Begins(k)
BY StepKinds, DrainerKeeps DEF Quiet, Writes, HandOver, Restart, Sweep, Drain

\* What the agent started on it has started on.
LEMMA HeardGrows ==
  ASSUME Typed, [Next]_vars
  PROVE  /\ \A r \in Rows : heard[r] \subseteq heard'[r]
         /\ \A keys : Vouched(keys) => Vouched(keys)'
<1>1. ASSUME NEW r \in Rows PROVE heard[r] \subseteq heard'[r]
  BY HeardMoves DEF Begins
<1> QED BY <1>1 DEF Vouched, Started

\* The steps that make no receipt.
LEMMA StillVouched ==
  ASSUME Typed, [Next]_vars, TurnVouched, EventsVouched, ReportsVouched,
         turn' \subseteq turn, ToSet(events') \subseteq ToSet(events),
         \/ ToSet(inbox') \subseteq ToSet(inbox)
         \/ \E m \in {"written", "failed", "taken"}, keys \in SUBSET Keys : Post(m, keys)
  PROVE  TurnVouched' /\ EventsVouched' /\ ReportsVouched'
<1>1. \A keys : Vouched(keys) => Vouched(keys)'
  BY HeardGrows
<1>2. TurnVouched' /\ EventsVouched'
  <2>1. Vouched(turn)'
    <3>1. \A k \in turn : Started(k)'
      BY <1>1 DEF TurnVouched, Vouched
    <3> QED BY <3>1 DEF Vouched
  <2>2. ASSUME NEW e \in ToSet(events'), e.m \in {"accepted", "ended"} PROVE Vouched(e.keys)'
    BY <1>1, <2>2 DEF EventsVouched
  <2> QED BY <2>1, <2>2 DEF TurnVouched, EventsVouched
<1>3. ASSUME NEW x \in ToSet(inbox'), x.m \in {"accepted", "delivered"} PROVE x \in ToSet(inbox)
  <2>1. ASSUME NEW m \in {"written", "failed", "taken"}, NEW keys \in SUBSET Keys, Post(m, keys)
        PROVE  x \in ToSet(inbox)
    <3>1. inbox' = inbox \/ ToSet(inbox') = ToSet(inbox) \cup {Msg(m, keys)}
      BY <2>1, PostIs DEF Kinds
    <3>2. Msg(m, keys).m = m
      BY DEF Msg
    <3> HIDE DEF Msg
    <3> QED BY <1>3, <3>1, <3>2
  <2> QED BY <2>1
<1>4. ReportsVouched'
  BY <1>1, <1>3 DEF ReportsVouched
<1> QED BY <1>2, <1>4

\* The receipt the agent gives when it starts on a line.
LEMMA BeginVouches ==
  ASSUME Typed, [Next]_vars, TurnVouched, EventsVouched, ReportsVouched, NEW k \in stdin, Begin(k)
  PROVE  TurnVouched' /\ EventsVouched' /\ ReportsVouched'
<1>1. /\ turn' = turn \cup {k} /\ events' = Append(events, Msg("accepted", {k})) /\ inbox' = inbox
      /\ heard' = [r \in Rows |-> IF \E pair \in k : pair[1] = r THEN heard[r] \cup {k} ELSE heard[r]]
  BY DEF Begin
<1>2. Started(k)'
  BY <1>1 DEF Started
<1>3. Msg("accepted", {k}) \in Event /\ Msg("accepted", {k}).keys = {k}
  BY DEF Typed, Msg, Event
<1>4. ToSet(events') = ToSet(events) \cup {Msg("accepted", {k})}
  BY <1>1, <1>3, ToSetAppend DEF Typed
<1> HIDE DEF Msg
<1>5. \A keys : Vouched(keys) => Vouched(keys)'
  BY HeardGrows
<1>6. Vouched({k})'
  BY <1>2 DEF Vouched
<1>7. Vouched(turn)'
  BY <1>1, <1>2, <1>5 DEF TurnVouched, Vouched
<1>8. ASSUME NEW e \in ToSet(events'), e.m \in {"accepted", "ended"} PROVE Vouched(e.keys)'
  BY <1>3, <1>4, <1>5, <1>6, <1>8 DEF EventsVouched
<1>9. ASSUME NEW x \in ToSet(inbox'), x.m \in {"accepted", "delivered"} PROVE Vouched(x.keys)'
  BY <1>1, <1>5, <1>9 DEF ReportsVouched
<1> QED BY <1>7, <1>8, <1>9 DEF TurnVouched, EventsVouched, ReportsVouched

\* The end of a turn speaks of the lines the agent started on in it.
LEMMA FinishVouches ==
  ASSUME Typed, [Next]_vars, TurnVouched, EventsVouched, ReportsVouched, Finish
  PROVE  TurnVouched' /\ EventsVouched' /\ ReportsVouched'
<1>1. turn' = {} /\ events' = Append(events, Msg("ended", turn)) /\ inbox' = inbox
  BY DEF Finish
<1>2. Msg("ended", turn) \in Event /\ Msg("ended", turn).keys = turn
  BY DEF Typed, Msg, Event
<1>3. ToSet(events') = ToSet(events) \cup {Msg("ended", turn)}
  BY <1>1, <1>2, ToSetAppend DEF Typed
<1> HIDE DEF Msg
<1>4. \A keys : Vouched(keys) => Vouched(keys)'
  BY HeardGrows
<1>5. Vouched(turn)'
  BY <1>1 DEF Vouched
<1>6. ASSUME NEW e \in ToSet(events'), e.m \in {"accepted", "ended"} PROVE Vouched(e.keys)'
  BY <1>2, <1>3, <1>4, <1>6 DEF EventsVouched, TurnVouched
<1>7. ASSUME NEW x \in ToSet(inbox'), x.m \in {"accepted", "delivered"} PROVE Vouched(x.keys)'
  BY <1>1, <1>4, <1>7 DEF ReportsVouched
<1> QED BY <1>1, <1>6, <1>7 DEF TurnVouched, EventsVouched, ReportsVouched, Vouched

LEMMA TakeBackSays ==
  ASSUME Typed, TakeBack
  PROVE  \E gone \in SUBSET Keys :
           ToSet(events') \subseteq ToSet(events) \cup {Msg("dropped", gone), Msg("ended", {})}
<1>1. PICK gone \in SUBSET (stopping.keys \cap stdin), said \in SUBSET Keys :
        /\ said \subseteq gone /\ stdin' = stdin \ gone
        /\ stopping' = [stopping EXCEPT !.at = "answered", !.taken = said]
        /\ ToSet(events') \subseteq ToSet(events) \cup {Msg("dropped", gone \ said), Msg("ended", {})}
  BY TakeBackIs, Zenon
<1>2. gone \ said \in SUBSET Keys
  BY DEF Typed
<1> QED BY <1>1, <1>2

\* An interrupted turn ends without a word on its lines.
LEMMA TakeBackVouches ==
  ASSUME Typed, [Next]_vars, TurnVouched, EventsVouched, ReportsVouched, TakeBack
  PROVE  TurnVouched' /\ EventsVouched' /\ ReportsVouched'
<1>1. PICK gone \in SUBSET Keys :
        ToSet(events') \subseteq ToSet(events) \cup {Msg("dropped", gone), Msg("ended", {})}
  BY TakeBackSays
<1>2. turn' = {} /\ inbox' = inbox
  BY DEF TakeBack
<1>3. Msg("dropped", gone).m = "dropped" /\ Msg("ended", {}).keys = {}
  BY DEF Msg
<1> HIDE DEF Msg
<1>4. \A keys : Vouched(keys) => Vouched(keys)'
  BY HeardGrows
<1>5. Vouched({})'
  BY DEF Vouched
<1>6. ASSUME NEW e \in ToSet(events'), e.m \in {"accepted", "ended"} PROVE Vouched(e.keys)'
  BY <1>1, <1>3, <1>4, <1>5, <1>6 DEF EventsVouched
<1>7. ASSUME NEW x \in ToSet(inbox'), x.m \in {"accepted", "delivered"} PROVE Vouched(x.keys)'
  BY <1>2, <1>4, <1>7 DEF ReportsVouched
<1> QED BY <1>2, <1>6, <1>7 DEF TurnVouched, EventsVouched, ReportsVouched, Vouched

\* The view hands the drainer the agent's receipt as it is.
LEMMA TakeEventVouches ==
  ASSUME Typed, [Next]_vars, TurnVouched, EventsVouched, ReportsVouched, TakeEvent
  PROVE  TurnVouched' /\ EventsVouched' /\ ReportsVouched'
<1> DEFINE e == Head(events)
<1>1. events # <<>> /\ events' = Tail(events) /\ turn' = turn
  BY DEF TakeEvent
<1>2. e \in Event /\ e \in ToSet(events) /\ ToSet(events') \subseteq ToSet(events)
  BY <1>1, ToSetTail DEF Typed
<1>3. e.keys \in SUBSET Keys
  BY <1>2 DEF Event
<1>4. PICK m \in {"accepted", "dropped", "delivered"} :
        Ingest(m, e.keys) /\ (m # "dropped" => e.m \in {"accepted", "ended"})
  BY DEF TakeEvent
<1> HIDE DEF e
<1>5. ToSet(inbox') \subseteq ToSet(inbox) \cup {Msg(m, e.keys)}
  BY <1>3, <1>4, IngestIs DEF Kinds
<1>6. Msg(m, e.keys).m = m /\ Msg(m, e.keys).keys = e.keys
  BY DEF Msg
<1> HIDE DEF Msg
<1>7. \A keys : Vouched(keys) => Vouched(keys)'
  BY HeardGrows
<1>8. m # "dropped" => Vouched(e.keys)
  BY <1>2, <1>4 DEF EventsVouched
<1>9. Vouched(turn)'
  BY <1>1, <1>7 DEF TurnVouched
<1>10. ASSUME NEW x \in ToSet(events'), x.m \in {"accepted", "ended"} PROVE Vouched(x.keys)'
  BY <1>2, <1>7, <1>10 DEF EventsVouched
<1>11. ASSUME NEW x \in ToSet(inbox'), x.m \in {"accepted", "delivered"} PROVE Vouched(x.keys)'
  BY <1>4, <1>5, <1>6, <1>7, <1>8, <1>11 DEF ReportsVouched
<1> QED BY <1>9, <1>10, <1>11 DEF TurnVouched, EventsVouched, ReportsVouched

LEMMA VouchSteps ==
  ASSUME Typed, [Next]_vars, TurnVouched, EventsVouched, ReportsVouched
  PROVE  TurnVouched' /\ EventsVouched' /\ ReportsVouched'
<1>1. CASE \/ UNCHANGED vars \/ End \/ Output \/ Bind \/ LinkInFlight \/ Drain \/ Settle \/ HandOver \/ Tick
           \/ Stop \/ Disconnect \/ (\E r \in Rows : Record(r) \/ BackoffOver(r))
           \/ \E k \in awaiting : Lapse(k)
  <2>1. UNCHANGED <<turn, events, inbox>>
    BY <1>1 DEF vars, End, Output, Bind, LinkInFlight, Drain, Settle, HandOver, Tick, Stop, Disconnect,
                Record, BackoffOver, Lapse, cliVars
  <2> QED BY <2>1, StillVouched
<1>2. CASE Flush \/ SteerLine
  <2>1. UNCHANGED <<turn, events>> /\ gate # <<>> /\ Written(Head(gate))
    BY <1>2 DEF Flush, SteerLine
  <2>2. {Head(gate)} \in SUBSET Keys
    BY <2>1, ToSetTail DEF Typed
  <2>3. Post("written", {Head(gate)}) \/ Post("failed", {Head(gate)})
    BY <2>1 DEF Written
  <2> QED BY <2>1, <2>2, <2>3, StillVouched
<1>3. CASE UserSend
  <2>1. turn' \subseteq turn /\ events' \in {events, <<>>}
    BY <1>3 DEF UserSend
  <2>2. \/ inbox' = inbox
        \/ gate # <<>> /\ (Post("written", {Head(gate)}) \/ Post("failed", {Head(gate)}))
    BY <1>3 DEF UserSend
  <2>3. gate # <<>> => {Head(gate)} \in SUBSET Keys
    BY ToSetTail DEF Typed
  <2> QED BY <2>1, <2>2, <2>3, ToSetSmall, StillVouched
<1>4. CASE TakeEvent
  BY <1>4, TakeEventVouches
<1>5. CASE GiveUp
  <2>1. UNCHANGED <<turn, events>> /\ (inbox' = inbox \/ Post("failed", unstarted))
    BY <1>5 DEF GiveUp, cliVars
  <2> QED BY <2>1, StillVouched DEF Typed
<1>6. CASE TakeBack
  BY <1>6, TakeBackVouches
<1>7. CASE StopReply
  <2>1. UNCHANGED <<turn, events>> /\ Post("taken", stopping.taken)
    BY <1>7 DEF StopReply, cliVars
  <2>2. stopping.taken \in SUBSET Keys
    BY DEF Typed
  <2> QED BY <2>1, <2>2, StillVouched
<1>8. ASSUME NEW k \in stdin, Begin(k) PROVE TurnVouched' /\ EventsVouched' /\ ReportsVouched'
  BY <1>8, BeginVouches
<1>9. CASE Finish
  BY <1>9, FinishVouches
<1>10. CASE Exit \/ TabClose \/ Respawn
  <2>1. turn' = {} /\ events' \in {events, <<>>} /\ inbox' = inbox
    BY <1>10 DEF Exit, TabClose, Respawn
  <2> QED BY <2>1, ToSetSmall, StillVouched
<1>11. CASE Restart
  <2>1. turn' = {} /\ events' = <<>> /\ inbox' = <<>>
    BY <1>11 DEF Restart
  <2> QED BY <2>1, ToSetSmall, StillVouched
<1>12. CASE Handle
  <2>1. UNCHANGED <<turn, events>> /\ inbox # <<>> /\ inbox' = Tail(inbox)
    BY <1>12 DEF Handle, cliVars
  <2>2. ToSet(inbox') \subseteq ToSet(inbox)
    BY <2>1, ToSetTail DEF Typed
  <2> QED BY <2>1, <2>2, StillVouched
<1> QED BY <1>1, <1>2, <1>3, <1>4, <1>5, <1>6, <1>7, <1>8, <1>9, <1>10, <1>11, <1>12 DEF Next, View, User, Drainer

-----------------------------------------------------------------------------
(* How a row moves.                                                        *)

Moving == {"claimed", "sent"}
Receipt == {"accepted", "delivered"}

\* A row moves from state a to state b; p says that there is proof, q that the
\* parent has ended.
MoveOf(a, b, p, q) ==
  \/ a = b
  \/ a = "none" /\ b = "pending"
  \/ a = "pending" /\ b = "claimed"
  \/ a \in Moving /\ b \in Moving \cup {"pending", "unconfirmed"}
  \/ a \in Moving \cup {"unconfirmed", "accepted"} /\ b \in Receipt /\ p
  \/ a \in {"pending", "claimed"} /\ b = "undeliverable" /\ q

\* The drainer handles a receipt for the row's line.
Receives(r) ==
  /\ Handle /\ inbox # <<>> /\ Head(inbox).m \in Receipt
  /\ row[r].key \in Head(inbox).keys

LEMMA SettledMoves ==
  ASSUME row \in Table, NEW m \in Kinds, NEW keys, NEW r \in Rows
  PROVE  MoveOf(row[r].st, Settled(m, keys)[r].st, m \in Receipt /\ row[r].key \in keys, FALSE)
<1> USE DEF MoveOf, Moving, Receipt
<1>1. CASE m = "written"
  <2>1. Settled(m, keys) = Set(row, Under(row, keys) \cap In(row, {"claimed"}), "sent")
    BY <1>1 DEF Settled, MarkSent
  <2> QED BY <2>1, SetRows DEF Under, In, RowStates
<1>2. CASE m = "accepted"
  <2>1. Settled(m, keys) = Set(row, Under(row, keys) \cap In(row, {"claimed", "sent", "unconfirmed"}), "accepted")
    BY <1>2 DEF Settled, MarkAccepted
  <2> QED BY <1>2, <2>1, SetRows DEF Under, In, RowStates
<1>3. CASE m = "delivered"
  <2>1. Settled(m, keys) =
          Set(row, Under(row, keys) \cap In(row, {"claimed", "sent", "accepted", "unconfirmed"}), "delivered")
    BY <1>3 DEF Settled, MarkDelivered
  <2> QED BY <1>3, <2>1, SetRows DEF Under, In, RowStates
<1>4. CASE m \in Returning
  <2>1. Stays(row, Settled(m, keys), r) \/ Returns(row, Settled(m, keys), r)
    BY SettledRows
  <2>2. CASE m = "dropped"
    <3>1. Settled(m, keys) = Unclaim(row, keys)
      BY <2>2 DEF Settled
    <3> QED BY <3>1, UnclaimRows DEF Returns
  <2>3. CASE m \in {"failed", "taken"}
    <3> DEFINE v == ReleaseWithBackoff(row, keys)
    <3>1. Settled(m, keys) = Unclaim(v, keys)
      BY <2>3 DEF Settled
    <3>2. v \in Table /\ (v[r] = row[r] \/ Returns(row, v, r))
      BY BackoffRows
    <3> HIDE DEF v
    <3>3. Unclaim(v, keys)[r] = v[r] \/ Returns(v, Unclaim(v, keys), r)
      BY <3>2, UnclaimRows
    <3> QED BY <3>1, <3>2, <3>3 DEF Returns
  <2> QED BY <1>4, <2>2, <2>3 DEF Returning
<1> QED BY <1>1, <1>2, <1>3, <1>4 DEF Kinds, Returning

LEMMA LetGoMoves ==
  ASSUME NEW t \in Table, LetGo(t), NEW r \in Rows
  PROVE  /\ \/ row'[r].st = t[r].st
            \/ t[r].st \in Moving /\ row'[r].st \in {"pending", "unconfirmed"}
         /\ r \in blind' \ blind => t[r].st = "claimed" /\ row'[r].st = "pending"
<1>1. CASE linked \in {0, inc}
  BY <1>1 DEF LetGo
<1>2. CASE linked \notin {0, inc}
  <2> DEFINE claimed == In(t, {"claimed"})
             sent == In(t, {"sent"})
             b == Back(t, claimed)
             u == Set(b, sent, "unconfirmed")
  <2>1. row' = u /\ blind' \subseteq blind \cup claimed
    BY <1>2 DEF LetGo, ReleaseParent
  <2>2. (r \in claimed <=> t[r].st = "claimed") /\ (r \in sent <=> t[r].st = "sent")
    BY DEF In
  <2> HIDE DEF claimed, sent
  <2>3. b \in Table /\ (r \notin claimed => b[r] = t[r]) /\ (r \in claimed => b[r].st = "pending")
    BY BackRows
  <2> HIDE DEF b
  <2>4. (r \notin sent => u[r] = b[r]) /\ (r \in sent => u[r].st = "unconfirmed")
    BY <2>3, SetRows DEF RowStates
  <2> HIDE DEF u
  <2> QED BY <2>1, <2>2, <2>3, <2>4 DEF Moving
<1> QED BY <1>1, <1>2

\* Every step of the system moves a row along the promise.
LEMMA RowSteps ==
  ASSUME Typed, [Next]_vars, NEW r \in Rows
  PROVE  MoveOf(row[r].st, row'[r].st, Receives(r), ended)
<1> USE DEF MoveOf, Moving
<1>0. row \in Table /\ row[r] \in Row
  BY DEF Typed, Table
<1>1. ASSUME NEW s \in Rows, Record(s) PROVE MoveOf(row[r].st, row'[r].st, Receives(r), ended)
  BY <1>0, <1>1 DEF Record, Push, Table, Row
<1>2. ASSUME NEW s \in Rows, BackoffOver(s) PROVE row'[r].st = row[r].st
  BY <1>0, <1>2 DEF BackoffOver, Table, Row
<1>3. CASE Restart
  BY <1>0, <1>3, TakeOverRows DEF Restart
<1>4. CASE Handle
  <2> DEFINE m == Head(inbox).m
             keys == Head(inbox).keys
             t == Settled(m, keys)
  <2>1. m \in Kinds /\ inbox # <<>> /\ LetGo(t)
    <3>1. Head(inbox) \in Report /\ inbox # <<>> /\ LetGo(t)
      BY <1>4, ToSetTail DEF Handle, Typed
    <3> QED BY <3>1 DEF Report
  <2>2. t \in Table
    BY <1>0, <2>1, SettledRows
  <2>3. MoveOf(row[r].st, t[r].st, m \in Receipt /\ row[r].key \in keys, FALSE)
    BY <1>0, <2>1, SettledMoves
  <2>4. m \in Receipt /\ row[r].key \in keys => Receives(r)
    BY <1>4, <2>1 DEF Receives
  <2>5. t[r].st \in Moving => row[r].st \in Moving
    BY <1>0, <2>1, SettledRows
  <2> HIDE DEF t, m, keys
  <2>6. \/ row'[r].st = t[r].st
        \/ t[r].st \in Moving /\ row'[r].st \in {"pending", "unconfirmed"}
    BY <2>1, <2>2, LetGoMoves
  <2>7. CASE row'[r].st = t[r].st
    BY <2>3, <2>4, <2>7
  <2>8. CASE t[r].st \in Moving /\ row'[r].st \in {"pending", "unconfirmed"}
    BY <2>5, <2>8
  <2> QED BY <2>6, <2>7, <2>8
<1>5. CASE Tick
  <2>1. LetGo(row)
    BY <1>5 DEF Tick
  <2> QED BY <1>0, <2>1, LetGoMoves
<1>6. ASSUME NEW k \in awaiting, Lapse(k) PROVE MoveOf(row[r].st, row'[r].st, Receives(r), ended)
  <2> DEFINE rows == Under(row, {k}) \cap In(row, {"sent"})
  <2>1. r \in rows => row[r].st = "sent"
    BY DEF In
  <2>2. row' = Set(row, rows, "unconfirmed")
    BY <1>6 DEF Lapse, MarkUnconfirmed
  <2> HIDE DEF rows
  <2> QED BY <1>0, <2>1, <2>2, SetRows DEF RowStates
<1>7. CASE Drain
  BY <1>0, <1>7, DrainRows DEF Claims, Returns
<1>8. CASE Settle
  <2> DEFINE rows == In(row, {"pending", "claimed"})
  <2>1. r \in rows => row[r].st \in {"pending", "claimed"}
    BY DEF In
  <2>2. row' = Set(row, rows, "undeliverable") /\ ended
    BY <1>8 DEF Settle, SettleUndeliverable
  <2> HIDE DEF rows
  <2> QED BY <1>0, <2>1, <2>2, SetRows DEF RowStates
<1>9. CASE UNCHANGED vars \/ End \/ Flush \/ SteerLine \/ UserSend \/ Output \/ TakeEvent \/ GiveUp \/ Stop
  <2>1. row' = row
    BY <1>9 DEF vars, End, Flush, SteerLine, UserSend, Output, TakeEvent, GiveUp, Stop
  <2> QED BY <2>1
<1>10. CASE TakeBack \/ StopReply \/ (\E k \in stdin : Begin(k)) \/ Finish \/ Exit
  <2>1. TakeBack => row' = row
    BY DEF TakeBack
  <2>2. row' = row
    BY <1>10, <2>1 DEF StopReply, Begin, Finish, Exit
  <2> QED BY <2>2
<1>11. CASE Disconnect \/ TabClose \/ Bind \/ Respawn \/ LinkInFlight \/ HandOver
  <2>1. row' = row
    BY <1>11 DEF Disconnect, TabClose, Bind, Respawn, LinkInFlight, HandOver
  <2> QED BY <2>1
<1> QED BY <1>1, <1>2, <1>3, <1>4, <1>5, <1>6, <1>7, <1>8, <1>9, <1>10, <1>11 DEF Next, View, User, Drainer

\* A row is doubted when it is given up on or put back, and was on its way.
LEMMA DoubtSteps ==
  ASSUME Typed, [Next]_vars, NEW r \in blind' \ blind
  PROVE  row[r].st \in Moving /\ row'[r].st \in Moving \cup {"pending"} /\ heard' = heard
<1> USE DEF Moving
<1>0. row \in Table
  BY DEF Typed
<1>1. CASE GiveUp
  <2>1. row' = row /\ heard' = heard /\ blind' \subseteq blind \cup In(row, {"claimed", "sent"})
    BY <1>1 DEF GiveUp
  <2> QED BY <2>1 DEF In
<1>2. CASE Restart
  <2>1. row' = TakeOver(row) /\ heard' = heard /\ r \in In(row, {"claimed"})
    BY <1>2 DEF Restart
  <2>2. r \in Rows /\ row[r].st = "claimed"
    BY <2>1 DEF In
  <2> QED BY <1>0, <2>1, <2>2, TakeOverRows
<1>3. CASE Tick
  <2>1. LetGo(row) /\ heard' = heard
    BY <1>3 DEF Tick
  <2>2. r \in Rows
    BY <1>0, <2>1, LetGoRows DEF Typed
  <2> QED BY <1>0, <2>1, <2>2, LetGoMoves
<1>4. CASE Handle
  <2> DEFINE m == Head(inbox).m
             keys == Head(inbox).keys
             t == Settled(m, keys)
  <2>1. m \in Kinds /\ LetGo(t) /\ heard' = heard
    <3>1. Head(inbox) \in Report /\ LetGo(t) /\ heard' = heard
      BY <1>4, ToSetTail DEF Handle, Typed
    <3> QED BY <3>1 DEF Report
  <2>2. t \in Table
    BY <1>0, <2>1, SettledRows
  <2>3. \A s \in Rows : t[s].st = "claimed" => row[s].st = "claimed"
    BY <1>0, <2>1, SettledRows
  <2> HIDE DEF t, m, keys
  <2>4. r \in Rows
    BY <2>1, <2>2, LetGoRows DEF Typed
  <2>5. t[r].st = "claimed" /\ row'[r].st = "pending"
    BY <2>1, <2>2, <2>4, LetGoMoves
  <2> QED BY <2>1, <2>3, <2>4, <2>5
<1>5. CASE UNCHANGED vars \/ End \/ Flush \/ SteerLine \/ UserSend \/ Output \/ TakeEvent \/ Stop \/ TakeBack
  <2>1. TakeBack => blind' = blind
    BY DEF TakeBack, history
  <2>2. blind' = blind
    BY <1>5, <2>1 DEF vars, history, End, Flush, SteerLine, UserSend, Output, TakeEvent, Stop
  <2> QED BY <2>2
<1>6. CASE StopReply \/ (\E k \in stdin : Begin(k)) \/ Finish \/ Exit \/ Disconnect \/ TabClose
  <2>1. blind' = blind
    BY <1>6 DEF StopReply, Begin, Finish, Exit, Disconnect, TabClose, history
  <2> QED BY <2>1
<1>7. CASE Bind \/ Respawn \/ LinkInFlight \/ HandOver \/ Drain \/ Settle \/ (\E k \in awaiting : Lapse(k))
  <2>1. blind' = blind
    BY <1>7 DEF Bind, Respawn, LinkInFlight, HandOver, Drain, Settle, Lapse, history
  <2> QED BY <2>1
<1>8. CASE \E s \in Rows : Record(s) \/ BackoffOver(s)
  <2>1. blind' = blind
    BY <1>8 DEF Record, BackoffOver, history
  <2> QED BY <2>1
<1> QED BY <1>1, <1>2, <1>3, <1>4, <1>5, <1>6, <1>7, <1>8 DEF Next, View, User, Drainer

LEMMA RowsVouchedSteps ==
  ASSUME Inv, Proven, [Next]_vars
  PROVE  RowsVouched'
<1>0. Typed /\ inbox \in Seq(Report) /\ \A r \in Rows : heard[r] \subseteq heard'[r]
  BY HeardGrows DEF Inv, Typed
<1> SUFFICES ASSUME NEW r \in Rows
             PROVE  /\ row'[r].st \in Receipt => heard'[r] # {}
                    /\ row'[r].st = "unconfirmed" => row'[r].key # NoKey
  BY DEF RowsVouched, Receipt
<1>1. MoveOf(row[r].st, row'[r].st, Receives(r), ended)
  BY <1>0, RowSteps
<1>2. row[r].st \in {"claimed", "sent", "unconfirmed"} => row[r].key # NoKey
  BY DEF Inv, Keyed, Proven, RowsVouched
<1>3. row[r].st \in Receipt => heard[r] # {}
  BY DEF Proven, RowsVouched, Receipt
<1>4. ASSUME row'[r].st \in Receipt PROVE heard'[r] # {}
  <2>1. row[r].st \in Receipt \/ (row[r].st \in Moving \cup {"unconfirmed"} /\ Receives(r))
    BY <1>1, <1>4 DEF MoveOf, Receipt, Moving
  <2>2. ASSUME row[r].key # NoKey, Receives(r) PROVE heard[r] # {}
    <3> DEFINE k == row[r].key
    <3>1. <<r, row[r].tries>> \in k
      BY <2>2 DEF Inv, Keyed
    <3>2. Head(inbox) \in ToSet(inbox) /\ Head(inbox).m \in Receipt /\ k \in Head(inbox).keys
      BY <1>0, <2>2, ToSetTail DEF Receives
    <3>3. Started(k)
      BY <3>2 DEF Proven, ReportsVouched, Vouched, Receipt
    <3>4. k \in heard[r]
      <4>1. <<r, row[r].tries>>[1] = r
        OBVIOUS
      <4> HIDE DEF k
      <4> QED BY <3>1, <3>3, <4>1 DEF Started
    <3> QED BY <3>4
  <2>3. heard[r] # {}
    BY <1>2, <1>3, <2>1, <2>2 DEF Moving
  <2> QED BY <1>0, <2>3
<1>5. ASSUME row'[r].st = "unconfirmed" PROVE row'[r].key # NoKey
  <2>1. row[r].st \in {"claimed", "sent", "unconfirmed"}
    BY <1>1, <1>5 DEF MoveOf, Moving, Receipt
  <2>2. row'[r].key = row[r].key
    BY <1>0, <1>5, RowMoves DEF Stays, Returns, Claims, Rejoins
  <2> QED BY <1>2, <2>1, <2>2
<1> QED BY <1>4, <1>5

\* The other half of the invariant: what passes for taken was started on.
THEOREM TakenWasStarted == Spec => []Proven
<1>1. Init => Proven
  <2> SUFFICES ASSUME Init PROVE Proven
    OBVIOUS
  <2>1. turn = {} /\ ToSet(events) = {} /\ ToSet(inbox) = {} /\ \A r \in Rows : row[r].st = "none"
    BY ToSetSmall DEF Init, NoRow
  <2> QED BY <2>1 DEF Proven, TurnVouched, EventsVouched, ReportsVouched, RowsVouched, Vouched
<1>2. Inv /\ Proven /\ [Next]_vars => Proven'
  <2> SUFFICES ASSUME Inv, Proven, [Next]_vars PROVE Proven'
    OBVIOUS
  <2>1. TurnVouched' /\ EventsVouched' /\ ReportsVouched'
    BY VouchSteps DEF Inv, Proven
  <2> QED BY <2>1, RowsVouchedSteps DEF Proven
<1> QED BY Invariance, <1>1, <1>2, PTL DEF Spec

-----------------------------------------------------------------------------
(* The refinement.                                                         *)

LEMMA FateIs ==
  /\ FateOf("none") = "none" /\ FateOf("pending") = "owed"
  /\ FateOf("claimed") = "offered" /\ FateOf("sent") = "offered"
  /\ FateOf("unconfirmed") = "unsure"
  /\ FateOf("accepted") = "taken" /\ FateOf("delivered") = "taken"
  /\ FateOf("undeliverable") = "failed"
  /\ \A st \in RowStates : FateOf(st) \in Promise!Fates
<1>1. /\ FateOf("none") = "none" /\ FateOf("pending") = "owed"
      /\ FateOf("claimed") = "offered" /\ FateOf("sent") = "offered"
      /\ FateOf("unconfirmed") = "unsure"
      /\ FateOf("accepted") = "taken" /\ FateOf("delivered") = "taken"
      /\ FateOf("undeliverable") = "failed"
  BY DEF FateOf
<1> QED BY <1>1 DEF RowStates, Promise!Fates

\* An event that is owed, or may come back, was not started on, or is doubted.
LEMMA OwedIsFresh ==
  ASSUME Inv, NEW r \in Rows, row[r].st \in {"none", "pending"}
  PROVE  heard[r] = {} \/ r \in blind
BY DEF Inv, HeardOnce, Keyed

\* The agent starts on a line: its rows were offered, and not started on.
LEMMA BeginDelivers ==
  ASSUME Inv, Proven, NEW k \in stdin, Begins(k), NEW r \in Rows, heard'[r] # heard[r], r \notin blind
  PROVE  heard[r] = {} /\ FateOf(row[r].st) \in {"offered", "unsure", "failed"}
<1>1. k \in Keys /\ heard \in [Rows -> SUBSET Keys] /\ row[r] \in Row
  BY DEF Inv, Typed, Table
<1>2. \E pair \in k : pair[1] = r
  BY <1>1 DEF Begins
<1>3. PICK n \in Nat : <<r, n>> \in k
  BY <1>1, <1>2, PairOf
<1>4. row[r].key = k /\ k \notin heard[r] /\ k # NoKey
  BY <1>1, <1>3 DEF Inv, Lines, Waiting, NoKey
<1>5. heard[r] = {}
  BY <1>4 DEF Inv, HeardOnce
<1>6. row[r].st \in RowStates \ {"none", "pending", "accepted", "delivered"}
  BY <1>1, <1>4, <1>5 DEF Inv, Keyed, Proven, RowsVouched, Row
<1> QED BY <1>5, <1>6, FateIs DEF RowStates

\* Every event moves as the outbox promises.
LEMMA EventDelivers ==
  ASSUME Inv, Inv', Proven, Proven', [Next]_vars, NEW r \in Rows
  PROVE  \/ Promise!Owe(r) \/ Promise!Offer(r) \/ Promise!Return(r) \/ Promise!Lose(r)
         \/ Promise!Miss(r) \/ Promise!Take(r) \/ Promise!Fail(r) \/ Promise!Start(r)
         \/ Promise!Same(r)
<1>0. Typed /\ Typed' /\ row[r].st \in RowStates /\ row'[r].st \in RowStates
  BY DEF Inv, Typed, Table, Row
<1>1. MoveOf(row[r].st, row'[r].st, Receives(r), ended)
  BY <1>0, RowSteps
<1>2. r \in blind => r \in blind'
  BY <1>0, BlindGrows
<1> DEFINE a == row[r].st
           b == row'[r].st
<1>3. ASSUME NEW from, NEW to, FateOf(a) \in from, FateOf(b) = to, heard'[r] = heard[r], r \in blind' <=> r \in blind
      PROVE  Promise!Becomes(r, from, to)
  BY <1>3 DEF Promise!Becomes
<1>4. CASE r \in blind' \ blind
  <2>1. a \in Moving /\ b \in Moving \cup {"pending"} /\ heard' = heard
    BY <1>0, <1>4, DoubtSteps
  <2>2. FateOf(a) = "offered" /\ FateOf(b) \in {"offered", "owed"}
    BY <2>1, FateIs DEF Moving
  <2> QED BY <1>4, <2>1, <2>2 DEF Promise!Lose
<1>5. CASE (r \in blind' <=> r \in blind) /\ heard'[r] # heard[r]
  <2>1. PICK k \in stdin : Begins(k)
    BY <1>0, <1>5, HeardMoves
  <2>2. row' = row
    BY <2>1 DEF Begins
  <2>3. heard'[r] = heard[r] \cup {k}
    BY <1>0, <1>5, <2>1 DEF Begins, Typed
  <2>4. r \notin blind => heard[r] = {} /\ FateOf(a) \in {"offered", "unsure", "failed"}
    BY <1>5, <2>1, BeginDelivers
  <2> QED BY <1>5, <2>2, <2>3, <2>4 DEF Promise!Start, Promise!Fresh
<1>6. CASE (r \in blind' <=> r \in blind) /\ heard'[r] = heard[r]
  <2>1. CASE a = b
    <3>1. FateOf(a) \in Promise!Fates
      BY <1>0, FateIs
    <3>2. Promise!Becomes(r, Promise!Fates, FateOf(a))
      BY <1>3, <1>6, <2>1, <3>1
    <3> QED BY <3>2 DEF Promise!Same
  <2>2. CASE a = "none" /\ b = "pending"
    <3>1. Promise!Becomes(r, {"none"}, "owed")
      BY <1>3, <1>6, <2>2, FateIs
    <3> QED BY <3>1 DEF Promise!Owe
  <2>3. CASE a = "pending" /\ b = "claimed"
    <3>1. Promise!Becomes(r, {"owed"}, "offered")
      BY <1>3, <1>6, <2>3, FateIs
    <3>2. heard[r] = {} \/ r \in blind
      BY <2>3, OwedIsFresh
    <3> QED BY <3>1, <3>2 DEF Promise!Offer, Promise!Fresh
  <2>4. CASE a \in Moving /\ b \in Moving
    <3>1. FateOf(a) = "offered" /\ FateOf(b) = "offered"
      BY <2>4, FateIs DEF Moving
    <3>2. Promise!Becomes(r, Promise!Fates, FateOf(a))
      BY <1>3, <1>6, <3>1 DEF Promise!Fates
    <3> QED BY <3>2 DEF Promise!Same
  <2>5. CASE a \in Moving /\ b = "pending"
    <3>1. Promise!Becomes(r, {"offered"}, "owed")
      BY <1>3, <1>6, <2>5, FateIs DEF Moving
    <3>2. heard'[r] = {} \/ r \in blind'
      BY <2>5 DEF Inv, HeardOnce, Keyed
    <3> QED BY <1>6, <3>1, <3>2 DEF Promise!Return, Promise!Fresh
  <2>6. CASE a \in Moving /\ b = "unconfirmed"
    <3>1. Promise!Becomes(r, {"offered"}, "unsure")
      BY <1>3, <1>6, <2>6, FateIs DEF Moving
    <3> QED BY <3>1 DEF Promise!Miss
  <2>7. CASE a \in Moving \cup {"unconfirmed"} /\ b \in Receipt
    <3>1. Promise!Becomes(r, {"offered", "unsure"}, "taken")
      BY <1>3, <1>6, <2>7, FateIs DEF Moving, Receipt
    <3>2. heard'[r] # {}
      BY <2>7 DEF Proven, RowsVouched, Receipt
    <3> QED BY <1>6, <3>1, <3>2 DEF Promise!Take
  <2>8. CASE a = "accepted" /\ b \in Receipt
    <3>1. FateOf(a) = "taken" /\ FateOf(b) = "taken"
      BY <2>8, FateIs DEF Receipt
    <3>2. Promise!Becomes(r, Promise!Fates, FateOf(a))
      BY <1>3, <1>6, <3>1 DEF Promise!Fates
    <3> QED BY <3>2 DEF Promise!Same
  <2>9. CASE a \in {"pending", "claimed"} /\ b = "undeliverable" /\ ended
    <3>1. Promise!Becomes(r, {"owed", "offered"}, "failed")
      BY <1>3, <1>6, <2>9, FateIs
    <3> QED BY <2>9, <3>1 DEF Promise!Fail
  <2> HIDE DEF a, b
  <2> QED BY <1>1, <2>1, <2>2, <2>3, <2>4, <2>5, <2>6, <2>7, <2>8, <2>9 DEF MoveOf, a, b
<1> QED BY <1>2, <1>4, <1>5, <1>6

\* An ended parent stays ended.
LEMMA EndStays ==
  ASSUME Flagged, [Next]_vars
  PROVE  ended' \in BOOLEAN /\ (ended => ended')
<1>1. CASE End
  BY <1>1 DEF End
<1>2. CASE UNCHANGED vars \/ Output \/ Bind \/ LinkInFlight \/ Drain \/ Settle \/ HandOver \/ Tick \/ Stop \/ Disconnect
  <2>1. ended' = ended
    BY <1>2 DEF vars, Output, Bind, LinkInFlight, Drain, Settle, HandOver, Tick, Stop, Disconnect
  <2> QED BY <2>1 DEF Flagged
<1>3. ASSUME NEW r \in Rows, Record(r) \/ BackoffOver(r) PROVE ended' = ended
  BY <1>3 DEF Record, BackoffOver
<1>4. ASSUME NEW k \in awaiting, Lapse(k) PROVE ended' = ended
  BY <1>4 DEF Lapse
<1>5. ASSUME NEW k \in stdin, Begin(k) PROVE ended' = ended
  BY <1>5 DEF Begin
<1>6. CASE Flush \/ SteerLine \/ UserSend \/ TakeEvent \/ GiveUp \/ StopReply
  <2>1. ended' = ended
    BY <1>6 DEF Flush, SteerLine, UserSend, TakeEvent, GiveUp, StopReply
  <2> QED BY <2>1 DEF Flagged
<1>7. CASE TakeBack
  <2>1. ended' = ended
    BY <1>7 DEF TakeBack
  <2> QED BY <2>1 DEF Flagged
<1>8. CASE Finish \/ Exit \/ TabClose \/ Respawn \/ Restart \/ Handle
  <2>1. ended' = ended
    BY <1>8 DEF Finish, Exit, TabClose, Respawn, Restart, Handle
  <2> QED BY <2>1 DEF Flagged
<1>9. ended' = ended => ended' \in BOOLEAN /\ (ended => ended')
  BY DEF Flagged
<1> QED BY <1>1, <1>2, <1>3, <1>4, <1>5, <1>6, <1>7, <1>8, <1>9 DEF Next, View, User, Drainer

LEMMA StepDelivers ==
  ASSUME Inv, Inv', Proven, Proven', Flagged, [Next]_vars
  PROVE  Promise!Next
<1>1. Typed /\ Typed'
  BY DEF Inv
<1>2. [r \in Rows |-> FateOf(row'[r].st)] \in [Rows -> Promise!Fates]
  <2>1. \A r \in Rows : row'[r].st \in RowStates
    BY <1>1 DEF Typed, Table, Row
  <2> QED BY <2>1, FateIs
<1>3. heard' = [r \in Rows |-> heard'[r]] /\ blind' \subseteq Rows
  BY <1>1 DEF Typed
<1>4. ended' \in BOOLEAN /\ (ended => ended')
  BY EndStays
<1>5. \A r \in Rows :
        \/ Promise!Owe(r) \/ Promise!Offer(r) \/ Promise!Return(r) \/ Promise!Lose(r)
        \/ Promise!Miss(r) \/ Promise!Take(r) \/ Promise!Fail(r) \/ Promise!Start(r)
        \/ Promise!Same(r)
  BY EventDelivers
<1> QED BY <1>2, <1>3, <1>4, <1>5 DEF Promise!Next

\* Table, drainer, gate, view and agent deliver as the outbox promises, for any
\* events and however many Stops, exits, lost receipts and restarts: no event
\* comes back once it was started on, passes for taken unless it was, or is
\* shown as undeliverable to a parent that still runs.
THEOREM OutboxDelivers == Spec => IsDelivery
<1>1. Init => Promise!Init
  <2> SUFFICES ASSUME Init PROVE Promise!Init
    OBVIOUS
  <2>1. ASSUME NEW r \in Rows PROVE FateOf(row[r].st) = "none"
    <3>1. row[r] = NoRow
      BY DEF Init
    <3>2. row[r].st = "none"
      BY <3>1 DEF NoRow
    <3> QED BY <3>2, FateIs
  <2>2. heard = [r \in Rows |-> {}] /\ blind = {} /\ ended = FALSE
    BY DEF Init
  <2> QED BY <2>1, <2>2 DEF Promise!Init
<1>2. Inv /\ Inv' /\ Proven /\ Proven' /\ Flagged /\ [Next]_vars => [Promise!Next]_(Promise!deliveryVars)
  BY StepDelivers
<1>3. Spec => []Flagged
  BY AlwaysTyped, PTL
<1> QED BY Invariance, TakenWasStarted, <1>1, <1>2, <1>3, PTL DEF Spec, IsDelivery, Promise!Spec

\* What the promise is worth: an event is started on at most once unless it is
\* in doubt, is not owed once started on, passes for taken only if it was, and
\* for undeliverable only if the parent ended.
THEOREM PromiseIsKept == IsDelivery => []Promise!Kept
<1> DEFINE Now(r) == FateOf(row[r].st)
           Here(r) == /\ r \notin blind => \A m, n \in heard[r] : m = n
                      /\ Now(r) \in {"none", "owed"} => heard[r] = {} \/ r \in blind
                      /\ Now(r) = "taken" => heard[r] # {}
                      /\ Now(r) = "failed" => ended
<1>0. Promise!Kept <=> \A r \in Rows : Here(r)
  BY DEF Promise!Kept, Promise!Fresh
<1>0a. Promise!Kept' <=> \A r \in Rows : Here(r)'
  BY DEF Promise!Kept, Promise!Fresh
<1>1. Promise!Init => Promise!Kept
  <2> SUFFICES ASSUME Promise!Init, NEW r \in Rows PROVE Here(r)
    BY <1>0
  <2>1. [e \in Rows |-> Now(e)][r] = "none" /\ heard[r] = {} /\ blind = {}
    BY DEF Promise!Init
  <2> QED BY <2>1
<1>2. Promise!Kept /\ [Promise!Next]_(Promise!deliveryVars) => Promise!Kept'
  <2> SUFFICES ASSUME Promise!Kept, Promise!Next, NEW r \in Rows PROVE Here(r)'
    <3>1. CASE Promise!Next
      BY <1>0a, <3>1
    <3>2. CASE UNCHANGED Promise!deliveryVars
      BY <3>2 DEF Promise!Kept, Promise!Fresh, Promise!deliveryVars
    <3> QED BY <3>1, <3>2
  <2>1. Here(r)
    BY <1>0
  <2>2. ended => ended'
    BY DEF Promise!Next
  <2>3. ASSUME NEW from, NEW to, Promise!Becomes(r, from, to)
        PROVE  /\ Now(r) \in from /\ Now(r)' = to
               /\ heard'[r] = heard[r] /\ (r \in blind' <=> r \in blind)
    BY <2>3 DEF Promise!Becomes
  <2>4. CASE Promise!Owe(r) \/ Promise!Offer(r) \/ Promise!Miss(r) \/ Promise!Same(r)
    <3>1. CASE Promise!Same(r)
      BY <2>1, <2>2, <2>3, <3>1 DEF Promise!Same
    <3>2. CASE Promise!Owe(r)
      BY <2>1, <2>2, <2>3, <3>2 DEF Promise!Owe
    <3>3. CASE Promise!Offer(r)
      BY <2>1, <2>2, <2>3, <3>3 DEF Promise!Offer
    <3>4. CASE Promise!Miss(r)
      BY <2>1, <2>2, <2>3, <3>4 DEF Promise!Miss
    <3> QED BY <2>4, <3>1, <3>2, <3>3, <3>4
  <2>5. CASE Promise!Return(r)
    BY <2>1, <2>2, <2>3, <2>5 DEF Promise!Return, Promise!Fresh
  <2>6. CASE Promise!Lose(r)
    BY <2>1, <2>2, <2>6 DEF Promise!Lose
  <2>7. CASE Promise!Take(r)
    BY <2>1, <2>2, <2>3, <2>7 DEF Promise!Take
  <2>8. CASE Promise!Fail(r)
    BY <2>1, <2>2, <2>3, <2>8 DEF Promise!Fail
  <2>9. CASE Promise!Start(r)
    BY <2>1, <2>2, <2>9 DEF Promise!Start, Promise!Fresh
  <2> QED BY <2>4, <2>5, <2>6, <2>7, <2>8, <2>9 DEF Promise!Next
<1> QED BY <1>1, <1>2, PTL DEF IsDelivery, Promise!Spec
=============================================================================
