---------------------------- MODULE EventDelivery ----------------------------
(***************************************************************************)
(* How a child's events reach their parent: the outbox table on disk, the  *)
(* drainer task that claims rows and settles them, the send gate between   *)
(* it and the parent's chat view, the view that writes the lines, and the  *)
(* agent's CLI that starts on them, or not.                                *)
(*                                                                         *)
(* crates/agents/src/outbox.rs, send_gate.rs; crates/remote-host/src/      *)
(* outbox_drainer.rs, host_core.rs; apps/desktop/src/shell/agent_chat/     *)
(* send_gate_link.rs, remote_link.rs, lifecycle.rs.                        *)
(*                                                                         *)
(* One parent, whose agent reports receipts.  A line is named by the key   *)
(* of its batch.  The holds that only delay a send (an armed retry, an     *)
(* open prompt, a failed turn) are left to the time an action may take.    *)
(* One action of the view is one callback of the UI thread; a write and    *)
(* its report are one action, since nobody else moves the view meanwhile.  *)
(***************************************************************************)
EXTENDS Outbox, Sequences, FiniteSets, SequencesExt

CONSTANTS
  Steer,      \* HostConfig::steer_events: events may go into a running turn
  MaxSpent    \* bound: what befalls the chat: messages and Stops of the user, tab
              \* closes, respawns, exits, restarts, failed writes, lags, late give-ups

ASSUME DeliveryAssumption ==
  IsFiniteSet(Rows) /\ Steer \in BOOLEAN /\ MaxSpent \in Nat

VARIABLES
  row,        \* the table
  ended,      \* the parent's lineage row is Ended
  incs,       \* incarnations of the parent's session so far
  inc,        \* the one registered now; 0: none (the gate has no waker then)
  gate,       \* SendGate::queue: the keys of the ParentEvent items
  active,     \* ChatThread::turn_active
  output,     \* turn_has_output: the agent spoke since the last user entry
  hold,       \* "none", "stopped" (stopped_by_user), "interrupted" (that, and interrupted)
  unstarted,  \* SendGate::unstarted: steered lines not known to be started
  backstop,   \* a give_up_on_steers timer runs
  stopping,   \* the stop_turn under way off the UI thread
  alive,      \* the agent's process runs
  stdin,      \* external: lines the process has not started on
  turn,       \* external: the lines of the turn it runs
  busy,       \* external: it runs a turn
  events,     \* decoded events on their way to the view
  at,         \* the drainer: "wait", "link", "push"
  linked,     \* the incarnation its Link is for; 0: none
  awaiting,   \* keys whose acceptance window runs
  inbox,      \* DrainMsg queue
  hand,       \* the batch between claim and push
  spent,      \* how much of MaxSpent is used
  heard,      \* history: keys under which the agent started on a row
  written,    \* history: keys written since the host started
  again,      \* history: keys written twice since then
  blind,      \* history: rows put back although their line was out, or could still go out
  strayed     \* history: claimed rows whose link was replaced rather than let go

gateVars == <<gate, unstarted, backstop, stopping>>
viewVars == <<active, output, hold>>
cliVars == <<alive, stdin, turn, busy, events>>
drainVars == <<at, linked, awaiting, hand>>
history == <<heard, written, again, blind, strayed>>
vars == <<row, ended, incs, inc, gateVars, viewVars, cliVars, drainVars, inbox, spent, history>>

NoHand == [key |-> NoKey, gone |-> FALSE]
NoStop == [at |-> "idle", keys |-> {}, taken |-> {}]

Msg(m, keys) == [m |-> m, keys |-> keys]
Post(m, keys) == inbox' = IF keys = {} THEN inbox ELSE Append(inbox, Msg(m, keys))

\* The process a stop_turn was sent to is gone: it gets no reply.
Reaped == IF stopping.at = "asked" THEN [stopping EXCEPT !.at = "answered"] ELSE stopping

Spend == spent < MaxSpent /\ spent' = spent + 1

Init ==
  /\ row = [r \in Rows |-> NoRow] /\ ended = FALSE
  /\ incs = 1 /\ inc = 1
  /\ gate = <<>> /\ unstarted = {} /\ backstop = FALSE /\ stopping = NoStop
  /\ active = FALSE /\ output = FALSE /\ hold = "none"
  /\ alive = TRUE /\ stdin = {} /\ turn = {} /\ busy = FALSE /\ events = <<>>
  /\ at = "wait" /\ linked = 0 /\ awaiting = {} /\ hand = NoHand
  /\ inbox = <<>>
  /\ spent = 0
  /\ heard = [r \in Rows |-> {}] /\ written = {} /\ again = {} /\ blind = {} /\ strayed = {}

-----------------------------------------------------------------------------
(* The children and the parent's lineage.                                  *)

Record(r) ==
  /\ row[r].st = "none"
  /\ row' = Push(row, r)
  /\ UNCHANGED <<ended, incs, inc, gateVars, viewVars, cliVars, drainVars, inbox, spent, history>>

BackoffOver(r) ==
  /\ row[r].rests
  /\ row' = [row EXCEPT ![r].rests = FALSE]
  /\ UNCHANGED <<ended, incs, inc, gateVars, viewVars, cliVars, drainVars, inbox, spent, history>>

\* The parent is cancelled; its process may run on.
End ==
  /\ ~ended /\ Spend
  /\ ended' = TRUE
  /\ UNCHANGED <<row, incs, inc, gateVars, viewVars, cliVars, drainVars, inbox, history>>

-----------------------------------------------------------------------------
(* The view writes lines.                                                  *)

Bound == inc # 0

\* sync_gate_holds: a steered line not started yet keeps the turn open.
GateBusy == active \/ unstarted # {}

SteerAvailable == Steer /\ Bound /\ GateBusy /\ output /\ hold = "none"

\* The line under key k is written and the write reported.  A write fails
\* when the process is gone and the view has not seen it yet.
Written(k) ==
  \/ /\ alive
     /\ stdin' = stdin \cup {k}
     /\ Post("written", {k})
     /\ written' = written \cup {k}
     /\ again' = again \cup ({k} \cap written)
     /\ UNCHANGED spent
  \/ /\ ~alive /\ Spend
     /\ Post("failed", {k})
     /\ UNCHANGED <<stdin, written, again>>

\* flush_send_gate, take_next_if_open, send_text, write_prompt
Flush ==
  /\ Bound /\ ~GateBusy /\ hold = "none" /\ gate # <<>>
  /\ Written(Head(gate))
  /\ gate' = Tail(gate)
  /\ active' = TRUE /\ output' = FALSE
  /\ UNCHANGED <<row, ended, incs, inc, unstarted, backstop, stopping, hold, alive, turn, busy, events,
                 drainVars, heard, blind, strayed>>

\* steer_from_gate
SteerLine ==
  /\ SteerAvailable /\ gate # <<>>
  /\ Written(Head(gate))
  /\ gate' = Tail(gate)
  /\ unstarted' = IF alive THEN unstarted \cup {Head(gate)} ELSE unstarted
  /\ active' = (active \/ alive) /\ output' = (output /\ ~alive)
  /\ UNCHANGED <<row, ended, incs, inc, backstop, stopping, hold, alive, turn, busy, events,
                 drainVars, heard, blind, strayed>>

\* A message of the user that starts a turn.  After a Stop it respawns the
\* process, and the first batch the gate held goes in the same line, ahead.
UserSend ==
  /\ ~active /\ Spend
  /\ Bound \/ hold = "interrupted"
  /\ hold' = "none" /\ active' = TRUE /\ output' = FALSE
  /\ LET fresh == hold = "interrupted"
         held == hold # "none" /\ gate # <<>>
         k == Head(gate)
     IN  /\ alive' = (alive \/ fresh)
         /\ stdin' = (IF fresh THEN {} ELSE stdin) \cup (IF held /\ alive' THEN {k} ELSE {})
         /\ busy' = (IF held \/ ~alive' THEN busy /\ ~fresh ELSE TRUE)
         /\ turn' = IF fresh THEN {} ELSE turn
         /\ events' = IF fresh THEN <<>> ELSE events
         /\ stopping' = IF fresh THEN Reaped ELSE stopping
         /\ inc' = IF Bound THEN inc ELSE incs + 1
         /\ incs' = IF Bound THEN incs ELSE incs + 1
         /\ gate' = IF held THEN Tail(gate) ELSE gate
         /\ IF held
              THEN /\ Post(IF alive' THEN "written" ELSE "failed", {k})
                   /\ written' = IF alive' THEN written \cup {k} ELSE written
                   /\ again' = IF alive' THEN again \cup ({k} \cap written) ELSE again
              ELSE UNCHANGED <<inbox, written, again>>
  /\ UNCHANGED <<row, ended, unstarted, backstop, drainVars, heard, blind, strayed>>

-----------------------------------------------------------------------------
(* What the view makes of the agent's events.                              *)

Output ==
  /\ active /\ busy /\ ~output
  /\ output' = TRUE
  /\ UNCHANGED <<row, ended, incs, inc, gateVars, active, hold, cliVars, drainVars, inbox, spent, history>>

\* A receipt reaches the drainer if its Link is for the handle it is
\* ingested by, unless the broadcast lagged.
Ingest(m, keys) ==
  IF linked = inc
    THEN \/ Post(m, keys) /\ UNCHANGED spent
         \/ keys # {} /\ Spend /\ UNCHANGED inbox
    ELSE UNCHANGED <<inbox, spent>>

\* note_receipt for one event, then the fold
TakeEvent ==
  /\ Bound /\ events # <<>>
  /\ events' = Tail(events)
  /\ LET e == Head(events)
     IN  /\ unstarted' = unstarted \ e.keys
         /\ \/ /\ e.m = "accepted"
               /\ Ingest("accepted", e.keys)
               /\ active' = (active \/ e.keys \cap unstarted # {})
               /\ UNCHANGED backstop
            \/ /\ e.m = "dropped"
               /\ Ingest("dropped", e.keys)
               /\ UNCHANGED <<active, backstop>>
            \/ /\ e.m = "ended"
               /\ Ingest("delivered", e.keys)
               /\ active' = FALSE
               /\ backstop' = (backstop \/ unstarted' # {})
  /\ UNCHANGED <<row, ended, incs, inc, gate, stopping, output, hold, alive, stdin, turn, busy,
                 drainVars, history>>

\* The line may be with the agent, or taken by it already.
Out(k) == k \in written

Reported(k) == \E m \in ToSet(inbox) : k \in m.keys

\* give_up_on_steers, 30 s after a turn ended with a steered line not started.
\* What was on its way before is through by then; that the CLI neither starts
\* nor drops a line it has for so long is a fault.
GiveUp ==
  /\ backstop /\ events = <<>> /\ ~ \E k \in unstarted : Reported(k)
  /\ backstop' = FALSE
  /\ IF active
       THEN UNCHANGED <<unstarted, inbox, spent, blind>>
       ELSE /\ IF unstarted \cap stdin # {} THEN Spend ELSE UNCHANGED spent
            /\ Post("failed", unstarted)
            /\ unstarted' = {}
            /\ blind' = blind \cup (Under(row, unstarted) \cap In(row, {"claimed", "sent"}))
  /\ UNCHANGED <<row, ended, incs, inc, gate, stopping, viewVars, cliVars, drainVars,
                 heard, written, again, strayed>>

\* stop_turn of the view and interrupt_turn
Stop ==
  /\ active /\ Bound /\ stopping.at = "idle" /\ Spend
  /\ hold' = "interrupted" /\ active' = FALSE
  /\ stopping' = [at |-> "asked", keys |-> unstarted, taken |-> {}]
  /\ unstarted' = {}
  /\ UNCHANGED <<row, ended, incs, inc, gate, backstop, output, cliVars, drainVars, inbox,
                 history>>

\* stop_turn of the connection: the CLI is asked to take the lines back, then
\* to interrupt.  It can take back what it has not started on; a reply may
\* come too late, and the line is then reported dropped.
TakeBack ==
  /\ stopping.at = "asked" /\ alive
  /\ \E gone \in SUBSET (stopping.keys \cap stdin) : \E said \in SUBSET gone :
       /\ stdin' = stdin \ gone
       /\ stopping' = [stopping EXCEPT !.at = "answered", !.taken = said]
       /\ events' = events \o (IF gone = said THEN <<>> ELSE <<Msg("dropped", gone \ said)>>)
                           \o (IF busy THEN <<Msg("ended", {})>> ELSE <<>>)
  /\ busy' = FALSE /\ turn' = {}
  /\ UNCHANGED <<row, ended, incs, inc, gate, unstarted, backstop, viewVars, alive, drainVars, inbox,
                 spent, history>>

\* (Mutant: every line the Stop asked back is reported taken back.)
StopReplyAll ==
  /\ stopping.at = "answered"
  /\ stopping' = NoStop
  /\ Post("taken", stopping.keys)
  /\ UNCHANGED <<row, ended, incs, inc, gate, unstarted, backstop, viewVars, cliVars, drainVars, spent,
                 history>>

\* Lines not confirmed taken back are steered lines again.
StopReply ==
  /\ stopping.at = "answered"
  /\ stopping' = NoStop
  /\ unstarted' = unstarted \cup (stopping.keys \ stopping.taken)
  /\ Post("taken", stopping.taken)
  /\ UNCHANGED <<row, ended, incs, inc, gate, backstop, viewVars, cliVars, drainVars, spent, history>>

-----------------------------------------------------------------------------
(* The agent's process (external) and the session's binding.               *)

Begin(k) ==
  /\ alive /\ k \in stdin
  /\ stdin' = stdin \ {k} /\ turn' = turn \cup {k} /\ busy' = TRUE
  /\ events' = Append(events, Msg("accepted", {k}))
  /\ heard' = [r \in Rows |-> IF \E pair \in k : pair[1] = r THEN heard[r] \cup {k} ELSE heard[r]]
  /\ UNCHANGED <<row, ended, incs, inc, gateVars, viewVars, alive, drainVars, inbox, spent,
                 written, again, blind, strayed>>

Finish ==
  /\ alive /\ busy
  /\ busy' = FALSE /\ turn' = {}
  /\ events' = Append(events, Msg("ended", turn))
  /\ UNCHANGED <<row, ended, incs, inc, gateVars, viewVars, alive, stdin, drainVars, inbox, spent, history>>

Exit ==
  /\ alive /\ Spend
  /\ alive' = FALSE /\ stdin' = {} /\ turn' = {} /\ busy' = FALSE
  /\ stopping' = Reaped
  /\ UNCHANGED <<row, ended, incs, inc, gate, unstarted, backstop, viewVars, events, drainVars, inbox,
                 history>>

\* (Mutant: the turn stays open.)
UnbindBusy == inc' = 0 /\ gate' = <<>> /\ unstarted' = {} /\ active' = active

\* unbind_remote: child events leave the gate without a word
Unbind == inc' = 0 /\ gate' = <<>> /\ unstarted' = {} /\ active' = FALSE

\* on_disconnect, once every event of the dead process is applied
Disconnect ==
  /\ Bound /\ ~alive /\ events = <<>>
  /\ Unbind
  /\ UNCHANGED <<row, ended, incs, backstop, stopping, output, hold, cliVars, drainVars, inbox, spent, history>>

\* The view is dropped, and the process with it.
TabClose ==
  /\ Bound /\ Spend
  /\ Unbind
  /\ backstop' = FALSE /\ stopping' = NoStop /\ output' = FALSE /\ hold' = "none"
  /\ alive' = FALSE /\ stdin' = {} /\ turn' = {} /\ busy' = FALSE /\ events' = <<>>
  /\ hand' = IF hand = NoHand THEN hand ELSE [hand EXCEPT !.gone = TRUE]
  /\ UNCHANGED <<row, ended, incs, at, linked, awaiting, inbox, history>>

\* (Mutant: the incarnation is not counted.)
BindUncounted ==
  /\ ~Bound
  /\ inc' = incs + 1
  /\ alive' = TRUE
  /\ hold' = IF hold = "interrupted" THEN "stopped" ELSE hold
  /\ UNCHANGED <<row, ended, incs, gateVars, active, output, stdin, turn, busy, events, drainVars, inbox,
                 spent, history>>

\* A new process for the chat: its tab reopened, its dead agent resumed.
Bind ==
  /\ ~Bound
  /\ inc' = incs + 1 /\ incs' = incs + 1
  /\ alive' = TRUE
  /\ hold' = IF hold = "interrupted" THEN "stopped" ELSE hold
  /\ UNCHANGED <<row, ended, gateVars, active, output, stdin, turn, busy, events, drainVars, inbox,
                 spent, history>>

\* The same between two turns of a chat that is bound: its handle is kept.
Respawn ==
  /\ Bound /\ ~active /\ Spend
  /\ alive' = TRUE /\ stdin' = {} /\ turn' = {} /\ busy' = FALSE /\ events' = <<>>
  /\ stopping' = Reaped
  /\ hold' = IF hold = "interrupted" THEN "stopped" ELSE hold
  /\ UNCHANGED <<row, ended, incs, inc, gate, unstarted, backstop, active, output, drainVars, inbox,
                 history>>

\* The host quits or dies and its next instance takes the table over.
Restart ==
  /\ Spend
  /\ row' = TakeOver(row)
  /\ blind' = blind \cup {r \in In(row, {"claimed"}) : Out(row[r].key)}
  /\ inc' = 0 /\ gate' = <<>> /\ unstarted' = {} /\ backstop' = FALSE /\ stopping' = NoStop
  /\ active' = FALSE /\ output' = FALSE /\ hold' = "none"
  /\ alive' = FALSE /\ stdin' = {} /\ turn' = {} /\ busy' = FALSE /\ events' = <<>>
  /\ at' = "wait" /\ linked' = 0 /\ awaiting' = {} /\ hand' = NoHand
  /\ inbox' = <<>>
  /\ written' = {}
  /\ UNCHANGED <<ended, incs, heard, again, strayed>>

-----------------------------------------------------------------------------
(* The drainer: one task.  A round takes one message, or the timer, or a   *)
(* change of the registry; then it lets go of sessions that went away,     *)
(* links to those with a batch in flight, and may drain.                   *)

\* (Mutant: the events are consumed when their line is written.)
SettledOnWrite(m, keys) ==
  CASE m = "written" -> MarkAccepted(row, keys)
    [] m \in {"failed", "taken"} -> Unclaim(ReleaseWithBackoff(row, keys), keys)
    [] m = "accepted" -> MarkAccepted(row, keys)
    [] m = "delivered" -> MarkDelivered(row, keys)
    [] m = "dropped" -> Unclaim(row, keys)

Settled(m, keys) ==
  CASE m = "written" -> MarkSent(row, keys)
    [] m \in {"failed", "taken"} -> Unclaim(ReleaseWithBackoff(row, keys), keys)
    [] m = "accepted" -> MarkAccepted(row, keys)
    [] m = "delivered" -> MarkDelivered(row, keys)
    [] m = "dropped" -> Unclaim(row, keys)

\* Once sent, a line's window starts; every other report closes it.
Watched(m, keys) ==
  IF m = "written" THEN awaiting \cup {row[r].key : r \in Under(row, keys) \cap In(row, {"claimed"})}
                   ELSE awaiting \ keys

GateKeys == ToSet(gate)

\* (Mutant: the Link goes, the rows are left as they are.)
LetGoOnly(t) == row' = t /\ linked' = (IF linked = inc THEN linked ELSE 0) /\ UNCHANGED blind

\* unlink_gone, on the table t the round has come to
LetGo(t) ==
  IF linked \in {0, inc}
    THEN row' = t /\ UNCHANGED <<linked, blind>>
    ELSE /\ row' = ReleaseParent(t)
         /\ linked' = 0
         /\ blind' = blind \cup {r \in In(t, {"claimed"}) : Out(t[r].key) \/ t[r].key \in GateKeys}

Handle ==
  /\ at = "wait" /\ inbox # <<>>
  /\ LetGo(Settled(Head(inbox).m, Head(inbox).keys))
  /\ awaiting' = Watched(Head(inbox).m, Head(inbox).keys)
  /\ inbox' = Tail(inbox)
  /\ at' = "link"
  /\ UNCHANGED <<ended, incs, inc, gateVars, viewVars, cliVars, hand, spent,
                 heard, written, again, strayed>>

Tick ==
  /\ at = "wait"
  /\ LetGo(row)
  /\ at' = "link"
  /\ UNCHANGED <<ended, incs, inc, gateVars, viewVars, cliVars, awaiting, hand, inbox,
                 spent, heard, written, again, strayed>>

\* ACCEPT_WITHIN of the write has passed.
Lapse(k) ==
  /\ at = "wait" /\ k \in awaiting
  /\ row' = MarkUnconfirmed(row, {k})
  /\ awaiting' = awaiting \ {k}
  /\ UNCHANGED <<ended, incs, inc, gateVars, viewVars, cliVars, at, linked, hand, inbox,
                 spent, history>>

\* link: an older Link is replaced, whatever its rows are.
Link ==
  /\ linked' = inc
  /\ strayed' = IF linked \in {0, inc} THEN strayed ELSE strayed \cup In(row, {"claimed"})

\* link_in_flight, in a round that has nothing to drain or is not to
LinkInFlight ==
  /\ at = "link" /\ at' = "wait"
  /\ IF Bound /\ ParentsInFlight(row) THEN Link ELSE UNCHANGED <<linked, strayed>>
  /\ UNCHANGED <<row, ended, incs, inc, gateVars, viewVars, cliVars, awaiting, hand, inbox, spent,
                 heard, written, again, blind>>

\* drain, up to the push: held batches are taken out of the gate and their
\* rows claimed anew together with the new ones.
Drain ==
  /\ at = "link" /\ Due(row) # {} /\ ~ended /\ Bound
  /\ LET back == Unclaim(row, GateKeys)
     IN  /\ row' = Claim(back)
         /\ hand' = [key |-> BatchKey(back, Due(back)), gone |-> FALSE]
  /\ gate' = <<>>
  /\ Link
  /\ at' = "push"
  /\ UNCHANGED <<ended, incs, inc, unstarted, backstop, stopping, viewVars, cliVars, awaiting,
                 inbox, spent, heard, written, again, blind>>

\* drain for a parent that has ended
Settle ==
  /\ at = "link" /\ Due(row) # {} /\ ended
  /\ row' = SettleUndeliverable(row)
  /\ at' = "wait"
  /\ UNCHANGED <<ended, incs, inc, gateVars, viewVars, cliVars, linked, awaiting, hand, inbox, spent,
                 history>>

\* The gate was looked up before the claim: it may be that of a tab that is
\* closed by now, or of a chat that is unbound.
HandOver ==
  /\ at = "push"
  /\ gate' = IF hand.gone THEN gate ELSE Append(gate, hand.key)
  /\ hand' = NoHand /\ at' = "wait"
  /\ UNCHANGED <<row, ended, incs, inc, unstarted, backstop, stopping, viewVars, cliVars,
                 linked, awaiting, inbox, spent, history>>

Drainer == Tick \/ LinkInFlight \/ Drain \/ Settle \/ HandOver

View == Flush \/ SteerLine \/ Output \/ TakeEvent \/ GiveUp \/ StopReply \/ Disconnect

User == UserSend \/ Stop \/ TabClose \/ Bind \/ Respawn

Next ==
  \/ \E r \in Rows : Record(r) \/ BackoffOver(r)
  \/ End \/ View \/ User \/ TakeBack \/ Finish \/ Exit \/ Restart
  \/ \E k \in stdin : Begin(k)
  \/ Handle \/ Drainer \/ \E k \in awaiting : Lapse(k)

Spec == Init /\ [][Next]_vars

\* The user, the faults and the children owe nothing.  The view wakes when
\* something is ready; the agent starts on its lines and ends its turns; the
\* drainer's select! is fair to its messages, and a round the timer starts
\* drains what is due.  A steered line need not go out ahead of the turn's end,
\* nor an asked Stop take lines back or be answered.
Fairness ==
  /\ WF_vars(Flush) /\ WF_vars(TakeEvent) /\ WF_vars(GiveUp)
  /\ WF_vars(Disconnect) /\ WF_vars(Finish)
  /\ WF_vars(\E k \in stdin : Begin(k))
  /\ WF_vars(\E r \in Rows : BackoffOver(r))
  /\ WF_vars(Drainer) /\ SF_vars(Drain) /\ SF_vars(Settle) /\ SF_vars(Handle)
  /\ SF_vars(\E k \in awaiting : Lapse(k))

FairSpec == Spec /\ Fairness

-----------------------------------------------------------------------------
(* What delivery promises.                                                 *)

Keys == SUBSET (Rows \X Nat)
Kinds == {"written", "failed", "taken", "accepted", "delivered", "dropped"}

\* Every variable has its type.
TypeOK ==
  /\ \A r \in Rows : /\ row[r].st \in RowStates /\ row[r].key \in Keys
                     /\ row[r].tries \in Nat /\ row[r].rests \in BOOLEAN
  /\ ended \in BOOLEAN /\ incs \in Nat /\ inc \in 0..incs /\ linked \in 0..incs
  /\ GateKeys \subseteq Keys /\ unstarted \subseteq Keys /\ backstop \in BOOLEAN
  /\ stopping.at \in {"idle", "asked", "answered"} /\ stopping.taken \subseteq stopping.keys
  /\ active \in BOOLEAN /\ output \in BOOLEAN /\ hold \in {"none", "stopped", "interrupted"}
  /\ alive \in BOOLEAN /\ busy \in BOOLEAN /\ stdin \subseteq Keys /\ turn \subseteq Keys
  /\ \A i \in DOMAIN events : events[i].m \in {"accepted", "dropped", "ended"}
  /\ \A i \in DOMAIN inbox : inbox[i].m \in Kinds /\ inbox[i].keys # {}
  /\ at \in {"wait", "link", "push"}
  /\ awaiting \subseteq Keys /\ hand.key \in Keys
  /\ spent \in 0..MaxSpent

\* An event the agent has started on is not started on again under another
\* key, unless its row was put back while its line was out or could still go
\* out: the exceptions are those the code cannot tell, and only those.
AtMostOnce == \A r \in Rows \ blind : Cardinality(heard[r]) <= 1

\* A row the drainer may still hand out is one the agent has not started on:
\* no order of reports, receipts, Stops and sweeps gives back what was taken.
NothingTakenIsOwed ==
  \A r \in Rows \ blind :
    /\ row[r].st = "pending" => heard[r] = {}
    /\ row[r].st = "claimed" => heard[r] \subseteq {row[r].key}

\* A claimed row is somewhere: in the gate, in the drainer's hand, in a
\* report on its way, or with a session the drainer will find gone.
ClaimIsHeld ==
  \A r \in Rows \ strayed :
    row[r].st = "claimed" =>
      \/ row[r].key \in GateKeys \/ row[r].key = hand.key
      \/ Reported(row[r].key)
      \/ linked \notin {0, inc}

\* A line that was written is settled by somebody: a row stays sent only
\* while its window runs, and then becomes unconfirmed at the latest.
SentIsWatched == \A r \in Rows : row[r].st = "sent" => row[r].key \in awaiting

\* The agent never sees a key twice, but for one a restart of the host gave
\* to the same rows again.
NoKeyTwice == again = {}

\* Once a row's fate is known it stays known: what the agent took is never owed
\* again, and a line of doubtful fate is only ever settled by proof.
Fate == [accepted |-> {"accepted", "delivered"}, delivered |-> {"delivered"},
         unconfirmed |-> {"unconfirmed", "accepted", "delivered"},
         undeliverable |-> {"undeliverable"}]
FateIsFinal ==
  [][\A r \in Rows : row[r].st \in DOMAIN Fate => row'[r].st \in Fate[row[r].st]]_vars

\* Once the parent stays open and is not stopped, every event it was owed comes
\* to an end: taken, or shown as unconfirmed or undeliverable.  Excepted is a
\* gate that is closed for good: the reply to a Stop may note a line as steered
\* again when its receipt is already in and no turn is left to end, so that no
\* timer gives the line up (send_gate_link.rs:243-246 after 154-161).
Ended == {"none", "accepted", "delivered", "unconfirmed", "undeliverable"}
Forgotten == unstarted # {} /\ ~active /\ ~backstop
EveryEventEnds ==
  <>[](Bound /\ hold = "none") =>
    \A r \in Rows : <>[](row[r].st \in Ended \/ r \in strayed \/ Forgotten)

\* What an event has come to, in the words of Delivery.
FateOf(st) ==
  CASE st = "none"                        -> "none"
    [] st = "pending"                     -> "owed"
    [] st \in {"claimed", "sent"}         -> "offered"
    [] st = "unconfirmed"                 -> "unsure"
    [] st \in {"accepted", "delivered"}   -> "taken"
    [] st = "undeliverable"               -> "failed"

Promise ==
  INSTANCE Delivery WITH
    Events <- Rows,
    fate <- [r \in Rows |-> FateOf(row[r].st)],
    starts <- heard,
    doubt <- blind

\* Table, drainer, gate, view and agent together deliver: no order of their
\* steps, and no mishap, moves an event in a way the outbox does not promise.
IsDelivery == Promise!Spec
=============================================================================
