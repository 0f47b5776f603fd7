---------------------------- MODULE BrokerGateway ----------------------------
(***************************************************************************)
(* The outbox of services/broker_gateway.py: orders of one user wait in a  *)
(* table, and the instance of broker/emt_bridge.py that holds the lease of *)
(* the binding sends them to the broker.  The broker's answer may be lost; *)
(* such an order is uncertain and never sent again, and reconcile looks    *)
(* for it in a snapshot of the broker's own order book.                    *)
(*                                                                         *)
(* Each transaction and each call to the broker is an action.  An instance *)
(* has one thread.  The claim token of an order is the name of the         *)
(* instance: an instance handles one order at a time, and takes no order   *)
(* twice.  A remote order has the name of the order it was sent for, which *)
(* the gateway cannot see: it compares code, side, quantity and time,      *)
(* which all agree for orders that are Alike.                              *)
(*                                                                         *)
(* Ages are one bit: lease expiry (leased) and the thirty seconds after    *)
(* which a send is uncertain (fresh).  Events, the rate window, next       *)
(* attempt, the mismatch report, cash, positions and executions are left   *)
(* out.  The release of a blocked order is the step that waits for an      *)
(* adapter that can verify the account type; the repository's tests take   *)
(* it by hand.                                                             *)
(*                                                                         *)
(* QueuedOnly, RevokesSent, TakesStale and SweepsAcked are faulty variants *)
(* of the definition after each; the specification does not use them.      *)
(***************************************************************************)
EXTENDS Naturals, FiniteSets, SequencesExt

CONSTANTS
  Orders,     \* idempotency keys of the user's orders
  Bridges,    \* instances of the bridge
  Alike,      \* pairs of orders with the same code, side, quantity and time
  MaxFaults   \* bound: crashes, lost answers, outlived leases, withdrawals

VARIABLES
  kill,           \* the kill switch of the user
  filing,         \* the filing behind the binding is valid
  order,          \* table broker_orders
  holder, leased, \* bridge_instance_id; its lease has not expired
  bridge,         \* the local state of each instance
  remote,         \* the broker's order book
  sends,          \* how often each order reached the broker
  faults

vars == <<kill, filing, order, holder, leased, bridge, remote, sends, faults>>

None  == "none"
Final == {"filled", "rejected"}
Known == {"acked", "filled", "rejected"}

NoOrder == [status |-> None, token |-> None, fresh |-> FALSE, id |-> None]
Idle    == [pc |-> "idle", order |-> None, answer |-> None, seen |-> [o \in Orders |-> None]]

Holds(b) == holder = b /\ leased
Fault    == faults < MaxFaults /\ faults' = faults + 1
SetOrder(o, row) == order' = [order EXCEPT ![o] = row]
Goto(b, pc) == bridge' = [bridge EXCEPT ![b].pc = pc]
Stop(b)     == bridge' = [bridge EXCEPT ![b] = Idle]
-----------------------------------------------------------------------------
Init ==
  /\ kill = FALSE /\ filing = TRUE /\ faults = 0
  /\ order = [o \in Orders |-> NoOrder]
  /\ holder = None /\ leased = FALSE
  /\ bridge = [b \in Bridges |-> Idle]
  /\ remote = [o \in Orders |-> None]
  /\ sends = [o \in Orders |-> 0]

(* enqueue_rehearsal_order: a known key returns the stored order. *)
Enqueue(o) ==
  /\ order[o] = NoOrder /\ ~kill /\ filing /\ leased
  /\ SetOrder(o, [NoOrder EXCEPT !.status = "blocked_account_type"])
  /\ UNCHANGED <<kill, filing, holder, leased, bridge, remote, sends, faults>>

Release(o) ==
  /\ order[o].status = "blocked_account_type"
  /\ SetOrder(o, [order[o] EXCEPT !.status = "queued"])
  /\ UNCHANGED <<kill, filing, holder, leased, bridge, remote, sends, faults>>

(* register_filing puts another filing in the place of the bound one. *)
ReplaceFiling ==
  /\ filing /\ Fault /\ filing' = FALSE
  /\ UNCHANGED <<kill, order, holder, leased, bridge, remote, sends>>

QueuedOnly(o) == order[o].status = "queued"
Revocable(o) == order[o].status \in {"queued", "sending"}

RevokesSent(o) == "revoked_by_kill_switch"
Revocation(o) == IF order[o].status = "queued" THEN "revoked_by_kill_switch" ELSE "uncertain"

(* revoke_for_kill_switch, called when the kill switch is active already.  *)
Revoke ==
  /\ order' = [o \in Orders |->
       IF Revocable(o)
       THEN [order[o] EXCEPT !.status = Revocation(o), !.token = None, !.fresh = FALSE]
       ELSE order[o]]
  /\ UNCHANGED <<kill, filing, holder, leased, bridge, remote, sends, faults>>
-----------------------------------------------------------------------------
(* The poll of a bridge: claim_bridge, process_one, reconcile. *)
ClaimBridge(b) ==
  /\ bridge[b].pc = "idle" /\ (leased => holder = b)
  /\ holder' = b /\ leased' = TRUE
  /\ UNCHANGED <<kill, filing, order, bridge, remote, sends, faults>>

LeaseRunsOut ==
  /\ leased /\ Fault /\ leased' = FALSE
  /\ UNCHANGED <<kill, filing, order, holder, bridge, remote, sends>>

(* _claim_next_order without the permission to send. *)
Authorised == ~kill /\ filing
Refusal == IF kill THEN "revoked_by_kill_switch" ELSE "blocked_filing"

RefuseQueued(b) ==
  /\ bridge[b].pc = "idle" /\ ~Authorised
  /\ order' = [o \in Orders |-> IF order[o].status = "queued"
                                THEN [order[o] EXCEPT !.status = Refusal] ELSE order[o]]
  /\ UNCHANGED <<kill, filing, holder, leased, bridge, remote, sends, faults>>

(* ... and with it: sends that take too long become uncertain, and the     *)
(* next queued order, if there is one, is claimed.                         *)
TakesStale(o) == order[o].status \in {"queued", "uncertain"}
MayTake(o) == order[o].status = "queued"
SweepsAcked(o) == order[o].status = "acked" /\ ~order[o].fresh
Stale(o) == order[o].status = "sending" /\ ~order[o].fresh

ClaimNext(b) ==
  /\ bridge[b].pc = "idle" /\ Authorised /\ Holds(b)
  /\ LET swept == [o \in Orders |->
           IF Stale(o) THEN [order[o] EXCEPT !.status = "uncertain", !.token = None] ELSE order[o]]
     IN  \/ /\ \A o \in Orders : ~MayTake(o)
            /\ order' = swept /\ UNCHANGED bridge
         \/ \E o \in Orders :
              /\ MayTake(o)
              /\ order' = [swept EXCEPT ![o] = [@ EXCEPT !.status = "sending",
                                                !.token = b, !.fresh = TRUE]]
              /\ bridge' = [bridge EXCEPT ![b] = [Idle EXCEPT !.pc = "recheck", !.order = o]]
  /\ UNCHANGED <<kill, filing, holder, leased, remote, sends, faults>>

(* process_one asks again right before it sends. *)
Sending(b) == order[bridge[b].order].status = "sending" /\ order[bridge[b].order].token = b

Recheck(b) ==
  /\ bridge[b].pc = "recheck"
  /\ \/ ~Sending(b) /\ Stop(b) /\ UNCHANGED order
     \/ /\ Sending(b) /\ ~Authorised
        /\ SetOrder(bridge[b].order, [order[bridge[b].order] EXCEPT
             !.status = Refusal, !.token = None, !.fresh = FALSE])
        /\ Stop(b)
     \/ Sending(b) /\ Authorised /\ Goto(b, "submit") /\ UNCHANGED order
  /\ UNCHANGED <<kill, filing, holder, leased, remote, sends, faults>>

(* The order reaches the broker, or it does not; the answer names it and   *)
(* its status, or is lost, or names nothing.                               *)
Submit(b, status) ==
  LET o == bridge[b].order IN
  /\ bridge[b].pc = "submit"
  /\ \/ /\ remote' = [remote EXCEPT ![o] = status]
        /\ sends' = [sends EXCEPT ![o] = @ + 1]
        /\ \/ bridge' = [bridge EXCEPT ![b].pc = "publish", ![b].answer = status] /\ UNCHANGED faults
           \/ bridge' = [bridge EXCEPT ![b].pc = "publish", ![b].answer = None] /\ Fault
     \/ /\ bridge' = [bridge EXCEPT ![b].pc = "publish", ![b].answer = None] /\ Fault
        /\ UNCHANGED <<remote, sends>>
  /\ UNCHANGED <<kill, filing, order, holder, leased>>

Publish(b) ==
  LET o == bridge[b].order  answer == bridge[b].answer IN
  /\ bridge[b].pc = "publish"
  /\ IF Sending(b)
     THEN SetOrder(o, [NoOrder EXCEPT !.status = IF answer = None THEN "uncertain" ELSE answer,
                                      !.id = IF answer = None THEN None ELSE o])
     ELSE UNCHANGED order
  /\ Stop(b)
  /\ UNCHANGED <<kill, filing, holder, leased, remote, sends, faults>>
-----------------------------------------------------------------------------
(* reconcile reads the broker's order book first ... *)
Snapshot(b) ==
  /\ bridge[b].pc = "idle" /\ Holds(b)
  /\ bridge' = [bridge EXCEPT ![b] = [Idle EXCEPT !.pc = "reconcile", !.seen = remote]]
  /\ UNCHANGED <<kill, filing, order, holder, leased, remote, sends, faults>>

(* ... then compares it with the table.  Uncertain orders are matched one  *)
(* after the other, in any order, with the only remote order like them     *)
(* that is still untracked.                                                *)
Tracked == {order[o].id : o \in Orders} \ {None}
Like(o, r) == o = r \/ <<o, r>> \in Alike

(* The untracked remote orders like o, when found maps some orders already *)
Candidates(o, found, seen) ==
  {r \in Orders : seen[r] # None /\ Like(o, r)} \ (Tracked \cup Range(found))

Matched(line, seen) ==
  FoldLeft(LAMBDA found, o : IF Cardinality(Candidates(o, found, seen)) = 1
                             THEN found @@ [x \in {o} |-> CHOOSE r \in Candidates(o, found, seen) : TRUE]
                             ELSE found,
           [x \in {} |-> None], line)

Unmatched == {o \in Orders : order[o].status = "uncertain" /\ order[o].id = None}

WithIds(found) == [o \in Orders |->
  IF o \in Unmatched \cap DOMAIN found THEN [order[o] EXCEPT !.id = found[o]] ELSE order[o]]
Updated(rows, seen) == [o \in Orders |->
  IF rows[o].id # None /\ seen[rows[o].id] \in Known
  THEN [rows[o] EXCEPT !.status = seen[rows[o].id]] ELSE rows[o]]

Reconcile(b) ==
  LET seen == bridge[b].seen IN
  /\ bridge[b].pc = "reconcile"
  /\ \/ ~Holds(b) /\ UNCHANGED order
     \/ /\ Holds(b)
        /\ \E line \in SetToSeqs(Unmatched) :
             order' = Updated(WithIds(Matched(line, seen)), seen)
  /\ Stop(b)
  /\ UNCHANGED <<kill, filing, holder, leased, remote, sends, faults>>
-----------------------------------------------------------------------------
(* The broker executes an order. *)
Execute(o) ==
  /\ remote[o] = "acked" /\ remote' = [remote EXCEPT ![o] = "filled"]
  /\ UNCHANGED <<kill, filing, order, holder, leased, bridge, sends, faults>>

(* Thirty seconds pass since an order was claimed. *)
SendAges(o) ==
  /\ order[o].status = "sending" /\ order[o].fresh
  /\ SetOrder(o, [order[o] EXCEPT !.fresh = FALSE])
  /\ IF \E b \in Bridges : bridge[b].order = o THEN Fault ELSE UNCHANGED faults
  /\ UNCHANGED <<kill, filing, holder, leased, bridge, remote, sends>>

Crash(b) ==
  /\ bridge[b].pc # "idle" /\ Fault /\ Stop(b)
  /\ UNCHANGED <<kill, filing, order, holder, leased, remote, sends>>

Polls(b) ==
  \/ ClaimBridge(b) \/ RefuseQueued(b) \/ ClaimNext(b) \/ Recheck(b)
  \/ \E status \in {"acked", "rejected"} : Submit(b, status)
  \/ Publish(b) \/ Snapshot(b) \/ Reconcile(b)

Next ==
  \/ ReplaceFiling \/ LeaseRunsOut
  \/ \E o \in Orders : Release(o) \/ Execute(o) \/ SendAges(o)
  \/ \E b \in Bridges : Polls(b) \/ Crash(b)
=============================================================================
