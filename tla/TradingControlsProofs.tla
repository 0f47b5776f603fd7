------------------------ MODULE TradingControlsProofs ------------------------
(***************************************************************************)
(* The safety of orders for any number of orders, bridges, grants, faults  *)
(* and activations of the kill switch.                                     *)
(*                                                                         *)
(* An order is claimed once in its life, so one bridge at most has it in   *)
(* hand, and until that bridge submits it the broker has never seen it.    *)
(* How reconciliation attributes remote orders does not matter here: it    *)
(* moves orders to states the broker reported and touches no other.        *)
(***************************************************************************)
EXTENDS TradingControls, FiniteSetTheorems, TLAPS

Unclaimed == {"none", "blocked_account_type", "queued"}
Unsent    == Unclaimed \cup {"revoked_by_kill_switch", "blocked_filing"}
Statuses  == Unsent \cup {"sending", "uncertain"} \cup {"acked", "filled", "rejected"}
InHand    == {"recheck", "submit", "publish"}
Pcs       == InHand \cup {"idle", "reconcile"}

Row(r) == r = [status |-> r.status, token |-> r.token, fresh |-> r.fresh, id |-> r.id]

Shapes ==
  /\ order = [o \in Orders |-> order[o]] /\ \A o \in Orders : Row(order[o])
  /\ \A o \in Orders : order[o].status \in Statuses
  /\ sends \in [Orders -> Nat]
  /\ bridge = [b \in Bridges |-> bridge[b]]
  /\ \A b \in Bridges :
       /\ bridge[b] = [pc |-> bridge[b].pc, order |-> bridge[b].order,
                       answer |-> bridge[b].answer, seen |-> bridge[b].seen]
       /\ bridge[b].pc \in Pcs
       /\ bridge[b].pc \in InHand => bridge[b].order \in Orders
       /\ bridge[b].answer \in {"none", "acked", "rejected"}

Has(b, o) == bridge[b].pc \in InHand /\ bridge[b].order = o

(* Who has an order in hand, and whether it was sent *)
HandsInv ==
  /\ \A o \in Orders : order[o].status \in Unclaimed => \A b \in Bridges : ~Has(b, o)
  /\ \A o \in Orders : order[o].status \in Unsent => sends[o] = 0
  /\ \A b, c \in Bridges, o \in Orders : Has(b, o) /\ Has(c, o) => b = c
  /\ \A b \in Bridges : bridge[b].pc \in {"recheck", "submit"} => sends[bridge[b].order] = 0
  /\ \A b \in Bridges : bridge[b].pc = "submit" => order[bridge[b].order].status \notin Unsent

(* After the activation has revoked the queue nothing is sending. *)
SwitchInv == kill /\ activation = "revoked" => \A o \in Orders : order[o].status # "sending"

IInv == Shapes /\ HandsInv /\ AtMostOnce
-----------------------------------------------------------------------------
LEMMA InitIInv == Init => IInv /\ SwitchInv
<1> SUFFICES ASSUME Init PROVE IInv /\ SwitchInv
  OBVIOUS
<1>1. /\ order = [o \in Orders |-> Gateway!NoOrder] /\ bridge = [b \in Bridges |-> Gateway!Idle]
      /\ sends = [o \in Orders |-> 0] /\ ~kill
  BY DEF Init, Gateway!Init
<1>2. \A o \in Orders : order[o].status = "none" /\ Row(order[o])
  BY <1>1 DEF Gateway!NoOrder, Gateway!None, Row
<1>3. \A b \in Bridges : bridge[b] = [pc |-> "idle", order |-> "none", answer |-> "none",
                                      seen |-> [o \in Orders |-> "none"]]
  BY <1>1 DEF Gateway!Idle, Gateway!None
<1>4. Shapes
  BY <1>1, <1>2, <1>3 DEF Shapes, Statuses, Unsent, Unclaimed, Pcs, InHand
<1>5. HandsInv /\ AtMostOnce /\ SwitchInv
  BY <1>1, <1>2, <1>3 DEF HandsInv, Has, InHand, AtMostOnce, SwitchInv
<1> QED  BY <1>4, <1>5 DEF IInv

(* Steps that move no bridge and send nothing: an order stays what it is,   *)
(* or is not claimed yet and stays so, or moves among the claimed ones.     *)
Moves(o) ==
  \/ order'[o].status = order[o].status
  \/ order[o].status \in Unclaimed /\ order'[o].status \in Unclaimed
  \/ order[o].status = "queued" /\ order'[o].status \in Unsent
  \/ order'[o].status \notin Unsent

OrderMap == order' = [o \in Orders |-> order'[o]]
Rows     == \A o \in Orders : Row(order'[o]) /\ order'[o].status \in Statuses

LEMMA OrdersStep ==
  ASSUME IInv, UNCHANGED <<bridge, sends>>, OrderMap, Rows, \A o \in Orders : Moves(o)
  PROVE  IInv'
<1>1. Shapes'
  BY DEF IInv, Shapes, Row, OrderMap, Rows
<1>2. \A b \in Bridges, o \in Orders : Has(b, o)' <=> Has(b, o)
  BY DEF Has
<1>3. \A o \in Orders : order[o].status = "queued" => order[o].status \in Unclaimed
  BY DEF Unclaimed
<1>4. \A o \in Orders : order'[o].status \in Unsent =>
        \/ order'[o].status = order[o].status
        \/ order[o].status \in Unclaimed
  BY <1>3 DEF Moves
<1>5. \A b \in Bridges : bridge[b].pc = "submit" =>
        bridge[b].order \in Orders /\ Has(b, bridge[b].order)
  BY DEF IInv, Shapes, Has, InHand
<1>6. Unclaimed \subseteq Unsent
  BY DEF Unsent
<1>7. \A o \in Orders : order'[o].status \in Unclaimed => \A b \in Bridges : ~Has(b, o)
  BY <1>4, <1>6 DEF IInv, HandsInv
<1>8. HandsInv'
  BY <1>2, <1>4, <1>5, <1>6, <1>7 DEF IInv, HandsInv
<1> QED  BY <1>1, <1>8 DEF IInv, AtMostOnce

(* A column of a row is replaced. *)
LEMMA Columns ==
  ASSUME NEW r, Row(r), NEW v
  PROVE  /\ Row([r EXCEPT !.status = v]) /\ [r EXCEPT !.status = v].status = v
         /\ Row([r EXCEPT !.id = v]) /\ [r EXCEPT !.id = v].status = r.status
         /\ Row([r EXCEPT !.fresh = v]) /\ [r EXCEPT !.fresh = v].status = r.status
BY DEF Row

LEMMA TwoColumns ==
  ASSUME NEW r, Row(r), NEW v, NEW w
  PROVE  /\ Row([r EXCEPT !.status = v, !.id = w])
         /\ [r EXCEPT !.status = v, !.id = w].status = v
<1> DEFINE s == [r EXCEPT !.status = v]
<1>1. [r EXCEPT !.status = v, !.id = w] = [s EXCEPT !.id = w]
  BY DEF Row
<1>2. Row(s) /\ s.status = v
  BY Columns
<1> HIDE DEF s
<1>3. Row([s EXCEPT !.id = w]) /\ [s EXCEPT !.id = w].status = v
  BY <1>2, Columns
<1> QED  BY <1>1, <1>3

LEMMA NoOrderRow == Row(Gateway!NoOrder)
<1> DEFINE R(x) == [status |-> Gateway!None, token |-> Gateway!None, fresh |-> x, id |-> Gateway!None]
<1>1. \A x : Row(R(x))
  BY DEF Row
<1>2. Gateway!NoOrder = R(FALSE)
  BY DEF Gateway!NoOrder
<1> HIDE DEF R
<1> QED  BY <1>1, <1>2

(* A row of the table is replaced. *)
LEMMA OneRow ==
  ASSUME IInv, NEW o \in Orders, NEW row, Row(row), row.status \in Statuses,
         Gateway!SetOrder(o, row)
  PROVE  /\ OrderMap /\ Rows /\ order'[o] = row
         /\ \A p \in Orders \ {o} : order'[p] = order[p]
BY DEF IInv, Shapes, Gateway!SetOrder, OrderMap, Rows, Row

LEMMA EnqueueStep ==
  ASSUME IInv, NEW o \in Orders, Gateway!Enqueue(o)
  PROVE  IInv'
<1> DEFINE row == [Gateway!NoOrder EXCEPT !.status = "blocked_account_type"]
<1>1. order[o].status = "none" /\ Gateway!SetOrder(o, row) /\ UNCHANGED <<bridge, sends>>
  BY DEF Gateway!Enqueue, Gateway!NoOrder, Gateway!None
<1>9. Row(row) /\ row.status = "blocked_account_type"
  BY NoOrderRow, Columns
<1>3. row.status \in Statuses
  BY <1>9 DEF Statuses, Unsent, Unclaimed
<1> HIDE DEF row
<1>4. OrderMap /\ Rows /\ order'[o] = row /\ \A p \in Orders \ {o} : order'[p] = order[p]
  BY <1>1, <1>9, <1>3, OneRow
<1>5. \A p \in Orders : Moves(p)
  BY <1>1, <1>9, <1>4 DEF Moves, Unclaimed
<1> QED  BY <1>1, <1>4, <1>5, OrdersStep

LEMMA ReleaseStep ==
  ASSUME IInv, NEW o \in Orders, Gateway!Release(o)
  PROVE  IInv'
<1> DEFINE row == [order[o] EXCEPT !.status = "queued"]
<1>1. /\ order[o].status = "blocked_account_type" /\ Gateway!SetOrder(o, row)
      /\ UNCHANGED <<bridge, sends>>
  BY DEF Gateway!Release
<1>2. Row(row) /\ row.status = "queued"
  BY DEF Row, IInv, Shapes
<1>3. row.status \in Statuses
  BY <1>2 DEF Statuses, Unsent, Unclaimed
<1> HIDE DEF row
<1>4. OrderMap /\ Rows /\ order'[o] = row /\ \A p \in Orders \ {o} : order'[p] = order[p]
  BY <1>1, <1>2, <1>3, OneRow
<1>5. \A p \in Orders : Moves(p)
  BY <1>1, <1>2, <1>4 DEF Moves, Unclaimed
<1> QED  BY <1>1, <1>4, <1>5, OrdersStep

LEMMA SendAgesStep ==
  ASSUME IInv, NEW o \in Orders, Gateway!SendAges(o)
  PROVE  IInv' /\ \A p \in Orders : order'[p].status = order[p].status
<1> DEFINE row == [order[o] EXCEPT !.fresh = FALSE]
<1>1. Gateway!SetOrder(o, row) /\ UNCHANGED <<bridge, sends>>
  BY DEF Gateway!SendAges
<1>9. Row(row) /\ row.status = order[o].status
  BY Columns DEF IInv, Shapes
<1>3. row.status \in Statuses
  BY <1>9 DEF IInv, Shapes
<1> HIDE DEF row
<1>4. OrderMap /\ Rows /\ order'[o] = row /\ \A p \in Orders \ {o} : order'[p] = order[p]
  BY <1>1, <1>9, <1>3, OneRow
<1>5. \A p \in Orders : order'[p].status = order[p].status
  BY <1>9, <1>4
<1> QED  BY <1>1, <1>4, <1>5, OrdersStep DEF Moves

LEMMA RevokeStep ==
  ASSUME IInv, Gateway!Revoke
  PROVE  IInv' /\ \A o \in Orders : order'[o].status # "sending"
<1>1. UNCHANGED <<bridge, sends>> /\ OrderMap
  BY DEF Gateway!Revoke, OrderMap
<1>2. \A o \in Orders : order'[o] =
        IF Gateway!Revocable(o)
        THEN [order[o] EXCEPT !.status = Gateway!Revocation(o), !.token = Gateway!None, !.fresh = FALSE]
        ELSE order[o]
  BY DEF Gateway!Revoke
<1>3. \A o \in Orders : Row(order'[o])
  BY <1>2 DEF IInv, Shapes, Row
<1>4. \A o \in Orders :
        \/ order'[o].status = order[o].status /\ order[o].status # "sending"
        \/ order[o].status = "queued" /\ order'[o].status = "revoked_by_kill_switch"
        \/ order'[o].status = "uncertain"
  BY <1>2 DEF IInv, Shapes, Row, Gateway!Revocable, Gateway!Revocation
<1>5. Rows /\ \A o \in Orders : Moves(o)
  BY <1>3, <1>4 DEF IInv, Shapes, Rows, Moves, Statuses, Unsent, Unclaimed
<1> QED  BY <1>1, <1>4, <1>5, OrdersStep

LEMMA RefuseQueuedStep ==
  ASSUME IInv, NEW b \in Bridges, Gateway!RefuseQueued(b)
  PROVE  IInv' /\ \A o \in Orders : order'[o].status = "sending" => order[o].status = "sending"
<1>1. UNCHANGED <<bridge, sends>> /\ OrderMap
  BY DEF Gateway!RefuseQueued, OrderMap
<1>2. \A o \in Orders : order'[o] =
        IF order[o].status = "queued" THEN [order[o] EXCEPT !.status = Gateway!Refusal]
        ELSE order[o]
  BY DEF Gateway!RefuseQueued
<1>3. \A o \in Orders : Row(order'[o])
  BY <1>2 DEF IInv, Shapes, Row
<1>4. \A o \in Orders :
        \/ order'[o].status = order[o].status
        \/ /\ order[o].status = "queued"
           /\ order'[o].status \in {"revoked_by_kill_switch", "blocked_filing"}
  BY <1>2 DEF IInv, Shapes, Row, Gateway!Refusal
<1>5. Rows /\ \A o \in Orders : Moves(o)
  BY <1>3, <1>4 DEF IInv, Shapes, Rows, Moves, Statuses, Unsent, Unclaimed
<1> QED  BY <1>1, <1>4, <1>5, OrdersStep

-----------------------------------------------------------------------------
(* Steps of a bridge. *)
BridgeRow(r) ==
  /\ r = [pc |-> r.pc, order |-> r.order, answer |-> r.answer, seen |-> r.seen]
  /\ r.pc \in Pcs /\ (r.pc \in InHand => r.order \in Orders)
  /\ r.answer \in {"none", "acked", "rejected"}

LEMMA OneBridge ==
  ASSUME Shapes, NEW b \in Bridges, NEW row, BridgeRow(row),
         bridge' = [bridge EXCEPT ![b] = row]
  PROVE  /\ bridge' = [c \in Bridges |-> bridge'[c]] /\ bridge'[b] = row
         /\ \A c \in Bridges \ {b} : bridge'[c] = bridge[c]
         /\ \A c \in Bridges : BridgeRow(bridge'[c])
BY DEF Shapes, BridgeRow

LEMMA ShapesStep ==
  ASSUME Shapes, OrderMap, Rows, sends' \in [Orders -> Nat],
         bridge' = [c \in Bridges |-> bridge'[c]], \A c \in Bridges : BridgeRow(bridge'[c])
  PROVE  Shapes'
BY DEF Shapes, OrderMap, Rows, BridgeRow, Row

LEMMA BridgeColumns ==
  ASSUME NEW r, BridgeRow(r), r.pc \notin InHand, NEW v
  PROVE  LET s == [r EXCEPT !.pc = "reconcile", !.seen = v]
         IN  BridgeRow(s) /\ s.pc \notin InHand
<1> DEFINE t == [r EXCEPT !.pc = "reconcile"]
<1>1. [r EXCEPT !.pc = "reconcile", !.seen = v] = [t EXCEPT !.seen = v]
  BY DEF BridgeRow
<1>2. BridgeRow(t) /\ t.pc \notin InHand
  BY DEF BridgeRow, Pcs, InHand
<1> HIDE DEF t
<1>3. BridgeRow([t EXCEPT !.seen = v]) /\ [t EXCEPT !.seen = v].pc = t.pc
  BY <1>2 DEF BridgeRow
<1> QED  BY <1>1, <1>2, <1>3

LEMMA IdleRow == BridgeRow(Gateway!Idle) /\ Gateway!Idle.pc \notin InHand
BY DEF BridgeRow, Gateway!Idle, Gateway!None, Pcs, InHand

LEMMA SameOrders == ASSUME Shapes, UNCHANGED order
                    PROVE  OrderMap /\ Rows /\ \A o \in Orders : Moves(o)
BY DEF Shapes, OrderMap, Rows, Row, Moves

(* A bridge lets go of its order; before it sent it, it may refuse it.      *)
LEMMA LetsGo ==
  ASSUME IInv, UNCHANGED sends, OrderMap, Rows,
         NEW b \in Bridges, NEW row, BridgeRow(row), row.pc \notin InHand,
         bridge' = [bridge EXCEPT ![b] = row],
         \A o \in Orders : Moves(o) \/ (bridge[b].pc = "recheck" /\ bridge[b].order = o)
  PROVE  IInv'
<1>1. /\ bridge' = [c \in Bridges |-> bridge'[c]] /\ bridge'[b] = row
      /\ \A c \in Bridges \ {b} : bridge'[c] = bridge[c]
      /\ \A c \in Bridges : BridgeRow(bridge'[c])
  BY OneBridge DEF IInv
<1>2. Shapes'
  BY <1>1, ShapesStep DEF IInv, Shapes
<1>3. \A c \in Bridges, o \in Orders : Has(c, o)' <=> c # b /\ Has(c, o)
  BY <1>1 DEF Has
<1>4. bridge[b].pc = "recheck" => Has(b, bridge[b].order) /\ sends[bridge[b].order] = 0
  BY DEF Has, InHand, IInv, HandsInv
<1>5. \A o \in Orders : Moves(o) =>
        \/ order'[o].status = order[o].status \/ order[o].status \in Unclaimed
        \/ order'[o].status \notin Unsent
  BY DEF Moves, Unclaimed
<1>6. \A o \in Orders : order'[o].status \in Unclaimed => \A c \in Bridges : ~Has(c, o)'
  BY <1>3, <1>4, <1>5 DEF IInv, HandsInv, Unsent
<1>7. \A o \in Orders : order'[o].status \in Unsent => sends'[o] = 0
  BY <1>4, <1>5 DEF IInv, HandsInv, Unsent
<1>8. \A c \in Bridges : bridge'[c].pc \in InHand =>
        /\ c # b /\ bridge'[c] = bridge[c] /\ bridge[c].order \in Orders
        /\ Has(c, bridge[c].order)
  BY <1>1 DEF IInv, Shapes, Has
<1>9. \A c \in Bridges : bridge'[c].pc \in {"recheck", "submit"} => sends'[bridge'[c].order] = 0
  BY <1>8 DEF IInv, HandsInv, InHand
<1>10. \A c \in Bridges : bridge'[c].pc = "submit" => order'[bridge'[c].order].status \notin Unsent
  <2> SUFFICES ASSUME NEW c \in Bridges, bridge'[c].pc = "submit"
               PROVE  order'[bridge[c].order].status \notin Unsent
    BY <1>8 DEF InHand
  <2>1. /\ c # b /\ bridge[c].pc = "submit" /\ bridge[c].order \in Orders
        /\ Has(c, bridge[c].order)
    BY <1>8 DEF InHand
  <2>2. order[bridge[c].order].status \notin Unsent
    BY <2>1 DEF IInv, HandsInv
  <2>3. ~(bridge[b].pc = "recheck" /\ bridge[b].order = bridge[c].order)
    BY <2>1, <1>4 DEF IInv, HandsInv
  <2> QED  BY <2>1, <2>2, <2>3, <1>5 DEF Unsent
<1>11. \A c, d \in Bridges, o \in Orders : Has(c, o)' /\ Has(d, o)' => c = d
  BY <1>3 DEF IInv, HandsInv
<1>12. HandsInv'
  BY <1>6, <1>7, <1>9, <1>10, <1>11 DEF HandsInv
<1> QED  BY <1>2, <1>12 DEF IInv, AtMostOnce

(* Nothing new is on its way. *)
Quiet == \A o \in Orders : order'[o].status = "sending" => order[o].status = "sending"

LEMMA LetsGoOfNothingNew ==
  ASSUME IInv, UNCHANGED <<order, sends>>,
         NEW b \in Bridges, NEW row, BridgeRow(row), row.pc \notin InHand,
         bridge' = [bridge EXCEPT ![b] = row]
  PROVE  IInv' /\ Quiet
BY SameOrders, LetsGo DEF IInv, Quiet

LEMMA CrashStep == ASSUME IInv, NEW b \in Bridges, Gateway!Crash(b) PROVE IInv' /\ Quiet
<1>1. bridge' = [bridge EXCEPT ![b] = Gateway!Idle] /\ UNCHANGED <<order, sends>>
  BY DEF Gateway!Crash, Gateway!Stop
<1> QED  BY <1>1, IdleRow, LetsGoOfNothingNew

LEMMA SnapshotStep == ASSUME IInv, NEW b \in Bridges, Gateway!Snapshot(b) PROVE IInv' /\ Quiet
<1> DEFINE row == [Gateway!Idle EXCEPT !.pc = "reconcile", !.seen = remote]
<1>1. bridge' = [bridge EXCEPT ![b] = row] /\ UNCHANGED <<order, sends>>
  BY DEF Gateway!Snapshot
<1>2. BridgeRow(row) /\ row.pc \notin InHand
  BY IdleRow, BridgeColumns
<1> HIDE DEF row
<1> QED  BY <1>1, <1>2, LetsGoOfNothingNew

LEMMA ReconcileStep == ASSUME IInv, NEW b \in Bridges, Gateway!Reconcile(b) PROVE IInv' /\ Quiet
<1>1. bridge' = [bridge EXCEPT ![b] = Gateway!Idle] /\ UNCHANGED sends
  BY DEF Gateway!Reconcile, Gateway!Stop
<1>2. CASE UNCHANGED order
  BY <1>1, <1>2, IdleRow, LetsGoOfNothingNew
<1>3. CASE ~UNCHANGED order
  <2> DEFINE seen == bridge[b].seen
  <2>1. PICK found : order' = Gateway!Updated(Gateway!WithIds(found), seen)
    BY <1>3 DEF Gateway!Reconcile
  <2> DEFINE rows == Gateway!WithIds(found)
  <2>2. \A o \in Orders : Row(rows[o]) /\ rows[o].status = order[o].status
    BY DEF Gateway!WithIds, IInv, Shapes, Row
  <2>3. OrderMap
    BY <2>1 DEF Gateway!Updated, OrderMap
  <2>4. \A o \in Orders :
          order'[o] = IF rows[o].id # Gateway!None /\ seen[rows[o].id] \in Gateway!Known
                      THEN [rows[o] EXCEPT !.status = seen[rows[o].id]] ELSE rows[o]
    BY <2>1 DEF Gateway!Updated
  <2> HIDE DEF rows, seen
  <2>5. \A o \in Orders :
          /\ Row(order'[o])
          /\ \/ order'[o].status = order[o].status
             \/ order'[o].status \in Gateway!Known
    <3> SUFFICES ASSUME NEW o \in Orders
                 PROVE  /\ Row(order'[o])
                        /\ \/ order'[o].status = order[o].status
                           \/ order'[o].status \in Gateway!Known
      OBVIOUS
    <3> DEFINE new == seen[rows[o].id]
    <3>1. CASE order'[o] = rows[o]
      BY <2>2, <3>1
    <3>2. CASE new \in Gateway!Known /\ order'[o] = [rows[o] EXCEPT !.status = new]
      <4>1. Row(rows[o])
        BY <2>2
      <4> HIDE DEF new
      <4>2. Row([rows[o] EXCEPT !.status = new]) /\ [rows[o] EXCEPT !.status = new].status = new
        BY <4>1, Columns
      <4> QED  BY <3>2, <4>2
    <3> QED  BY <2>4, <3>1, <3>2
  <2>6. Rows /\ Quiet /\ \A o \in Orders : Moves(o)
    BY <2>5 DEF IInv, Shapes, Rows, Quiet, Moves, Statuses, Unsent, Unclaimed, Gateway!Known
  <2> QED  BY <1>1, <2>3, <2>6, IdleRow, LetsGo
<1> QED  BY <1>2, <1>3

LEMMA PublishStep == ASSUME IInv, NEW b \in Bridges, Gateway!Publish(b) PROVE IInv' /\ Quiet
<1> DEFINE o == bridge[b].order
           answer == bridge[b].answer
           status == IF answer = Gateway!None THEN "uncertain" ELSE answer
           id == IF answer = Gateway!None THEN Gateway!None ELSE o
           row == [Gateway!NoOrder EXCEPT !.status = status, !.id = id]
<1>1. bridge' = [bridge EXCEPT ![b] = Gateway!Idle] /\ UNCHANGED sends
  BY DEF Gateway!Publish, Gateway!Stop
<1>2. CASE UNCHANGED order
  BY <1>1, <1>2, IdleRow, LetsGoOfNothingNew
<1>3. CASE ~UNCHANGED order
  <2>1. Gateway!SetOrder(o, row)
    BY <1>3 DEF Gateway!Publish
  <2>2. o \in Orders /\ answer \in {"none", "acked", "rejected"}
    BY DEF Gateway!Publish, IInv, Shapes, InHand
  <2>3. status \in {"uncertain", "acked", "rejected"}
    BY <2>2 DEF Gateway!None
  <2>4. Row(row) /\ row.status = status
    <3> HIDE DEF status, id
    <3> QED  BY NoOrderRow, TwoColumns
  <2> HIDE DEF row, status, o
  <2>5. OrderMap /\ Rows /\ order'[o] = row /\ \A p \in Orders \ {o} : order'[p] = order[p]
    BY <2>1, <2>2, <2>3, <2>4, OneRow DEF Statuses
  <2>6. Quiet /\ \A p \in Orders : Moves(p)
    BY <2>3, <2>4, <2>5 DEF Quiet, Moves, Unsent, Unclaimed
  <2> QED  BY <1>1, <2>5, <2>6, IdleRow, LetsGo
<1> QED  BY <1>2, <1>3

LEMMA RecheckStep == ASSUME IInv, NEW b \in Bridges, Gateway!Recheck(b) PROVE IInv' /\ Quiet
<1> DEFINE o == bridge[b].order
<1>1. /\ bridge[b].pc = "recheck" /\ UNCHANGED sends /\ o \in Orders
      /\ BridgeRow(bridge[b]) /\ Has(b, o) /\ sends[o] = 0
  BY DEF Gateway!Recheck, IInv, HandsInv, Shapes, InHand, BridgeRow, Has
<1>2. CASE UNCHANGED order /\ Gateway!Stop(b)
  BY <1>1, <1>2, IdleRow, LetsGoOfNothingNew DEF Gateway!Stop
<1>3. ASSUME Gateway!Stop(b),
             Gateway!SetOrder(o, [order[o] EXCEPT !.status = Gateway!Refusal,
                                                  !.token = Gateway!None, !.fresh = FALSE])
      PROVE  IInv' /\ Quiet
  <2> DEFINE half == [order[o] EXCEPT !.status = Gateway!Refusal]
             most == [half EXCEPT !.token = Gateway!None]
             row  == [most EXCEPT !.fresh = FALSE]
  <2>1. Row(half) /\ half.status \in {"revoked_by_kill_switch", "blocked_filing"}
    BY <1>1 DEF IInv, Shapes, Row, Gateway!Refusal
  <2>2. [order[o] EXCEPT !.status = Gateway!Refusal, !.token = Gateway!None, !.fresh = FALSE] = row
    BY <1>1 DEF IInv, Shapes, Row
  <2> HIDE DEF half
  <2>3. Row(most) /\ most.status = half.status
    BY <2>1 DEF Row
  <2> HIDE DEF most
  <2>4. Row(row) /\ row.status = half.status
    BY <2>3, Columns
  <2> HIDE DEF row
  <2>5. OrderMap /\ Rows /\ order'[o] = row /\ \A p \in Orders \ {o} : order'[p] = order[p]
    BY <1>1, <1>3, <2>1, <2>2, <2>4, OneRow DEF Statuses, Unsent
  <2>6. Quiet /\ \A p \in Orders : Moves(p) \/ (bridge[b].pc = "recheck" /\ o = p)
    BY <1>1, <2>1, <2>4, <2>5 DEF Quiet, Moves
  <2>7. bridge' = [bridge EXCEPT ![b] = Gateway!Idle]
    BY <1>3 DEF Gateway!Stop
  <2> QED  BY <1>1, <2>5, <2>6, <2>7, IdleRow, LetsGo
<1>4. ASSUME Gateway!Sending(b), Gateway!Goto(b, "submit"), UNCHANGED order
      PROVE  IInv' /\ Quiet
  <2> DEFINE row == [bridge[b] EXCEPT !.pc = "submit"]
  <2>1. BridgeRow(row) /\ row.pc = "submit" /\ row.order = o
    BY <1>1 DEF BridgeRow, Pcs, InHand
  <2>2. bridge' = [bridge EXCEPT ![b] = row]
    BY <1>1, <1>4 DEF Gateway!Goto, IInv, Shapes
  <2> HIDE DEF row
  <2>3. /\ bridge' = [c \in Bridges |-> bridge'[c]] /\ bridge'[b] = row
        /\ \A c \in Bridges \ {b} : bridge'[c] = bridge[c]
        /\ \A c \in Bridges : BridgeRow(bridge'[c])
    BY <2>1, <2>2, OneBridge DEF IInv
  <2>4. Shapes'
    BY <1>1, <1>4, <2>3, SameOrders, ShapesStep DEF IInv, Shapes
  <2>5. \A c \in Bridges, p \in Orders : Has(c, p)' <=> Has(c, p)
    BY <1>1, <2>1, <2>3 DEF Has, InHand
  <2>6. order[o].status \notin Unsent
    BY <1>4 DEF Gateway!Sending, Unsent, Unclaimed
  <2>7. \A c \in Bridges : bridge'[c].pc \in {"recheck", "submit"} => sends[bridge'[c].order] = 0
    BY <1>1, <2>1, <2>3 DEF IInv, HandsInv
  <2>8. \A c \in Bridges : bridge'[c].pc = "submit" => order[bridge'[c].order].status \notin Unsent
    BY <2>1, <2>3, <2>6 DEF IInv, HandsInv
  <2>9. HandsInv'
    BY <1>1, <1>4, <2>5, <2>7, <2>8 DEF IInv, HandsInv
  <2> QED  BY <1>1, <1>4, <2>4, <2>9 DEF IInv, AtMostOnce, Quiet
<1> QED  BY <1>2, <1>3, <1>4 DEF Gateway!Recheck

LEMMA ClaimNextStep == ASSUME IInv, NEW b \in Bridges, Gateway!ClaimNext(b) PROVE IInv'
<1> DEFINE swept == [o \in Orders |->
             IF Gateway!Stale(o)
             THEN [order[o] EXCEPT !.status = "uncertain", !.token = Gateway!None] ELSE order[o]]
<1>1. \A o \in Orders :
        /\ Row(swept[o])
        /\ \/ swept[o].status = order[o].status \/ swept[o].status = "uncertain"
  <2> SUFFICES ASSUME NEW o \in Orders
               PROVE  /\ Row(swept[o])
                      /\ \/ swept[o].status = order[o].status \/ swept[o].status = "uncertain"
    OBVIOUS
  <2> DEFINE half == [order[o] EXCEPT !.status = "uncertain"]
  <2>1. Row(half) /\ half.status = "uncertain"
    BY Columns DEF IInv, Shapes
  <2>2. [order[o] EXCEPT !.status = "uncertain", !.token = Gateway!None]
          = [half EXCEPT !.token = Gateway!None]
    BY DEF IInv, Shapes, Row
  <2> HIDE DEF half
  <2>3. /\ Row([half EXCEPT !.token = Gateway!None])
        /\ [half EXCEPT !.token = Gateway!None].status = "uncertain"
    BY <2>1 DEF Row
  <2>4. CASE Gateway!Stale(o)
    BY <2>2, <2>3, <2>4
  <2>5. CASE ~Gateway!Stale(o)
    BY <2>5 DEF IInv, Shapes
  <2> QED  BY <2>4, <2>5
<1>2. CASE order' = swept /\ UNCHANGED bridge
  <2>1. OrderMap /\ \A o \in Orders : order'[o] = swept[o]
    BY <1>2 DEF OrderMap
  <2> HIDE DEF swept
  <2>2. Rows /\ \A o \in Orders : Moves(o)
    BY <1>1, <2>1 DEF IInv, Shapes, Rows, Moves, Statuses, Unsent, Unclaimed
  <2>3. UNCHANGED sends
    BY DEF Gateway!ClaimNext
  <2> QED  BY <1>2, <2>1, <2>2, <2>3, OrdersStep
<1>3. ASSUME NEW o \in Orders, Gateway!MayTake(o), UNCHANGED sends,
             order' = [swept EXCEPT ![o] = [@ EXCEPT !.status = "sending",
                                                     !.token = b, !.fresh = TRUE]],
             bridge' = [bridge EXCEPT ![b] = [Gateway!Idle EXCEPT !.pc = "recheck", !.order = o]]
      PROVE  IInv'
  <2> DEFINE half == [swept[o] EXCEPT !.status = "sending"]
             most == [half EXCEPT !.token = b]
             taken == [most EXCEPT !.fresh = TRUE]
             row == [Gateway!Idle EXCEPT !.pc = "recheck", !.order = o]
  <2>1. order[o].status = "queued"
    BY <1>3 DEF Gateway!MayTake
  <2>2. /\ \A p \in Orders \ {o} : order'[p] = swept[p]
        /\ order'[o] = [swept[o] EXCEPT !.status = "sending", !.token = b, !.fresh = TRUE]
        /\ OrderMap
    BY <1>3 DEF OrderMap
  <2> HIDE DEF swept
  <2>3. Row(half) /\ half.status = "sending"
    BY <1>1, Columns
  <2>4. [swept[o] EXCEPT !.status = "sending", !.token = b, !.fresh = TRUE] = taken
    BY <1>1 DEF Row
  <2> HIDE DEF half
  <2>5. Row(most) /\ most.status = "sending"
    BY <2>3 DEF Row
  <2> HIDE DEF most
  <2>6. Row(taken) /\ taken.status = "sending"
    <3>1. \A v : Row([most EXCEPT !.fresh = v]) /\ [most EXCEPT !.fresh = v].status = "sending"
      BY <2>5, Columns
    <3> QED  BY <3>1
  <2> HIDE DEF taken
  <2>7. Rows /\ order'[o].status = "sending"
    BY <1>1, <2>2, <2>4, <2>6 DEF IInv, Shapes, Rows, Statuses
  <2>8. BridgeRow(row) /\ row.pc = "recheck" /\ row.order = o
    <3> DEFINE r == [Gateway!Idle EXCEPT !.pc = "recheck"]
    <3>1. /\ Gateway!Idle = [pc |-> Gateway!Idle.pc, order |-> Gateway!Idle.order,
                             answer |-> Gateway!Idle.answer, seen |-> Gateway!Idle.seen]
          /\ Gateway!Idle.answer = "none"
      BY DEF Gateway!Idle, Gateway!None
    <3>2. row = [r EXCEPT !.order = o]
      BY <3>1
    <3>3. /\ r = [pc |-> "recheck", order |-> r.order, answer |-> r.answer, seen |-> r.seen]
          /\ r.pc = "recheck" /\ r.answer = "none"
      BY <3>1
    <3> HIDE DEF r, row
    <3> QED  BY <3>2, <3>3 DEF BridgeRow, Pcs, InHand
  <2>21. bridge' = [bridge EXCEPT ![b] = row]
    BY <1>3
  <2> HIDE DEF row
  <2>9. /\ bridge' = [c \in Bridges |-> bridge'[c]] /\ bridge'[b] = row
        /\ \A c \in Bridges \ {b} : bridge'[c] = bridge[c]
        /\ \A c \in Bridges : BridgeRow(bridge'[c])
    BY <2>8, <2>21, OneBridge DEF IInv
  <2>10. Shapes'
    BY <1>3, <2>2, <2>7, <2>9, ShapesStep DEF IInv, Shapes
  <2>11. sends[o] = 0 /\ \A c \in Bridges : ~Has(c, o)
    BY <2>1 DEF IInv, HandsInv, Unsent, Unclaimed
  <2>12. bridge[b].pc = "idle"
    BY DEF Gateway!ClaimNext
  <2>13. \A c \in Bridges, p \in Orders : Has(c, p)' <=> Has(c, p) \/ (c = b /\ p = o)
    BY <2>8, <2>9, <2>12 DEF Has, InHand
  <2>14. \A p \in Orders : order'[p].status \in Unsent =>
           p # o /\ order'[p].status = order[p].status
    BY <1>1, <2>2, <2>7 DEF Unsent, Unclaimed
  <2>15. \A p \in Orders : order'[p].status \in Unclaimed => \A c \in Bridges : ~Has(c, p)'
    BY <2>13, <2>14 DEF IInv, HandsInv, Unsent
  <2>16. \A p \in Orders : order'[p].status \in Unsent => sends'[p] = 0
    BY <1>3, <2>14 DEF IInv, HandsInv
  <2>17. \A c, d \in Bridges, p \in Orders : Has(c, p)' /\ Has(d, p)' => c = d
    BY <2>11, <2>13 DEF IInv, HandsInv
  <2>18. \A c \in Bridges : bridge'[c].pc \in {"recheck", "submit"} => sends'[bridge'[c].order] = 0
    BY <1>3, <2>8, <2>9, <2>11 DEF IInv, HandsInv
  <2>19. \A c \in Bridges : bridge'[c].pc = "submit" => order'[bridge'[c].order].status \notin Unsent
    BY <2>8, <2>9, <2>14 DEF IInv, HandsInv, Shapes, InHand
  <2>20. HandsInv'
    BY <2>15, <2>16, <2>17, <2>18, <2>19 DEF HandsInv
  <2> QED  BY <1>3, <2>10, <2>20 DEF IInv, AtMostOnce
<1> QED  BY <1>2, <1>3 DEF Gateway!ClaimNext

LEMMA SubmitStep ==
  ASSUME IInv, NEW b \in Bridges, NEW status \in {"acked", "rejected"}, Gateway!Submit(b, status)
  PROVE  IInv' /\ Quiet
<1> DEFINE o == bridge[b].order
<1>1. /\ bridge[b].pc = "submit" /\ UNCHANGED order /\ o \in Orders
      /\ BridgeRow(bridge[b]) /\ Has(b, o) /\ sends[o] = 0 /\ order[o].status \notin Unsent
  BY DEF Gateway!Submit, IInv, HandsInv, Shapes, InHand, BridgeRow, Has
<1>2. PICK answer \in {"none", "acked", "rejected"} :
        bridge' = [bridge EXCEPT ![b].pc = "publish", ![b].answer = answer]
  BY DEF Gateway!Submit, Gateway!None
<1>3. sends' = sends \/ sends' = [sends EXCEPT ![o] = @ + 1]
  BY DEF Gateway!Submit
<1>4. /\ sends' \in [Orders -> Nat] /\ sends'[o] <= 1
      /\ \A p \in Orders \ {o} : sends'[p] = sends[p]
  BY <1>1, <1>3 DEF IInv, Shapes
<1> DEFINE half == [bridge[b] EXCEPT !.pc = "publish"]
           row == [half EXCEPT !.answer = answer]
<1>5. bridge' = [bridge EXCEPT ![b] = row]
  BY <1>1, <1>2 DEF IInv, Shapes
<1>6. BridgeRow(half) /\ half.pc = "publish" /\ half.order = o
  BY <1>1 DEF BridgeRow, Pcs, InHand
<1> HIDE DEF half
<1>7. BridgeRow(row) /\ row.pc = "publish" /\ row.order = o
  BY <1>6 DEF BridgeRow
<1> HIDE DEF row
<1>8. /\ bridge' = [c \in Bridges |-> bridge'[c]] /\ bridge'[b] = row
      /\ \A c \in Bridges \ {b} : bridge'[c] = bridge[c]
      /\ \A c \in Bridges : BridgeRow(bridge'[c])
  BY <1>5, <1>7, OneBridge DEF IInv
<1>9. Shapes'
  BY <1>1, <1>4, <1>8, SameOrders, ShapesStep DEF IInv, Shapes
<1>10. \A c \in Bridges, p \in Orders : Has(c, p)' <=> Has(c, p)
  BY <1>1, <1>7, <1>8 DEF Has, InHand
<1>11. \A c \in Bridges : bridge'[c].pc \in {"recheck", "submit"} =>
         /\ bridge'[c] = bridge[c] /\ bridge[c].order \in Orders \ {o}
  BY <1>1, <1>7, <1>8 DEF IInv, HandsInv, Shapes, Has, InHand
<1>12. HandsInv'
  BY <1>1, <1>4, <1>10, <1>11 DEF IInv, HandsInv
<1>13. AtMostOnce'
  BY <1>4 DEF IInv, AtMostOnce
<1> QED  BY <1>1, <1>9, <1>12, <1>13 DEF IInv, Quiet

-----------------------------------------------------------------------------
(* The steps of the specification: of the gateway alone, of the room alone, *)
(* and those that join them.                                                *)
LEMMA GatewayStep ==
  ASSUME IInv, SwitchInv, GatewayMoves
  PROVE  IInv' /\ SwitchInv'
<1>1. UNCHANGED <<kill, activation>>
  BY DEF GatewayMoves, room
<1>2. Quiet => SwitchInv'
  BY <1>1 DEF SwitchInv, Quiet
<1>3. ASSUME UNCHANGED <<order, bridge, sends>> PROVE IInv' /\ Quiet
  BY <1>3, SameOrders, OrdersStep DEF IInv, Quiet
<1>4. CASE Gateway!ReplaceFiling \/ Gateway!LeaseRunsOut
  BY <1>2, <1>3, <1>4 DEF Gateway!ReplaceFiling, Gateway!LeaseRunsOut
<1>5. ASSUME NEW o \in Orders, Gateway!Release(o) \/ Gateway!Execute(o) \/ Gateway!SendAges(o)
      PROVE  IInv' /\ SwitchInv'
  <2>1. CASE Gateway!Release(o)
    <3>1. order'[o].status = "queued" /\ \A p \in Orders \ {o} : order'[p] = order[p]
      BY <2>1 DEF Gateway!Release, Gateway!SetOrder, IInv, Shapes, Row
    <3> QED  BY <2>1, <3>1, <1>2, ReleaseStep DEF Quiet
  <2>2. CASE Gateway!Execute(o)
    BY <2>2, <1>2, <1>3 DEF Gateway!Execute
  <2>3. CASE Gateway!SendAges(o)
    BY <2>3, <1>2, SendAgesStep DEF Quiet
  <2> QED  BY <1>5, <2>1, <2>2, <2>3
<1>6. ASSUME NEW b \in Bridges, Gateway!Polls(b) \/ Gateway!Crash(b)
      PROVE  IInv' /\ SwitchInv'
  <2>1. CASE Gateway!ClaimBridge(b)
    BY <2>1, <1>2, <1>3 DEF Gateway!ClaimBridge
  <2>2. CASE Gateway!RefuseQueued(b)
    BY <2>2, <1>2, RefuseQueuedStep DEF Quiet
  <2>3. CASE Gateway!ClaimNext(b)
    <3>1. ~kill
      BY <2>3 DEF Gateway!ClaimNext, Gateway!Authorised
    <3>2. ~kill'
      BY <3>1, <1>1, Zenon
    <3>3. SwitchInv'
      BY <3>2 DEF SwitchInv
    <3> QED  BY <2>3, <3>3, ClaimNextStep
  <2>4. CASE Gateway!Recheck(b)
    BY <2>4, <1>2, RecheckStep
  <2>5. ASSUME NEW status \in {"acked", "rejected"}, Gateway!Submit(b, status)
        PROVE  IInv' /\ SwitchInv'
    BY <2>5, <1>2, SubmitStep
  <2>6. CASE Gateway!Publish(b)
    BY <2>6, <1>2, PublishStep
  <2>7. CASE Gateway!Snapshot(b)
    BY <2>7, <1>2, SnapshotStep
  <2>8. CASE Gateway!Reconcile(b)
    BY <2>8, <1>2, ReconcileStep
  <2>9. CASE Gateway!Crash(b)
    BY <2>9, <1>2, CrashStep
  <2> QED  BY <1>6, <2>1, <2>2, <2>3, <2>4, <2>5, <2>6, <2>7, <2>8, <2>9 DEF Gateway!Polls
<1> QED  BY <1>4, <1>5, <1>6 DEF GatewayMoves, Gateway!Next

LEMMA RoomStep ==
  ASSUME IInv, SwitchInv, RoomMoves
  PROVE  IInv' /\ SwitchInv'
<1>1. UNCHANGED <<order, bridge, sends>>
  BY DEF RoomMoves, gateway
<1>2. IInv'
  BY <1>1, SameOrders, OrdersStep DEF IInv
<1>3. kill' /\ activation' = "revoked" => kill /\ activation = "revoked"
  <2>1. CASE Room!Activate
    BY <2>1 DEF Room!Activate
  <2>2. CASE Room!GrantsMove
    BY <2>2 DEF Room!GrantsMove
  <2>3. ASSUME NEW g \in Grants, NEW to \in Room!Modes, Room!ChangeMode(g, to)
        PROVE  UNCHANGED <<kill, activation>>
    BY <2>3 DEF Room!ChangeMode
  <2>4. ASSUME NEW g \in Grants, Room!ReleaseSwitch(g) PROVE kill' = FALSE
    BY <2>4 DEF Room!ReleaseSwitch
  <2>5. ASSUME NEW g \in Grants, NEW action \in {"accept", "reject", "modify"},
               Room!Override(g, action)
        PROVE  UNCHANGED <<kill, activation>>
    BY <2>5 DEF Room!Override
  <2> QED  BY <2>1, <2>2, <2>3, <2>4, <2>5, Zenon DEF RoomMoves, Room!Next
<1>4. SwitchInv'
  BY <1>1, <1>3 DEF SwitchInv
<1> QED  BY <1>2, <1>4

LEMMA NextIInv == IInv /\ SwitchInv /\ [Next]_vars => (IInv /\ SwitchInv)'
<1> SUFFICES ASSUME IInv, SwitchInv, [Next]_vars PROVE IInv' /\ SwitchInv'
  OBVIOUS
<1>1. ASSUME UNCHANGED <<kill, activation, order, bridge, sends>> PROVE IInv' /\ SwitchInv'
  BY <1>1, SameOrders, OrdersStep DEF IInv, SwitchInv
<1>2. CASE RevokeQueue
  BY <1>2, RevokeStep DEF RevokeQueue, SwitchInv
<1>3. CASE RevokeLost
  <2>1. UNCHANGED <<order, bridge, sends>> /\ activation' = "failed"
    BY <1>3 DEF RevokeLost, Room!RevokeFails
  <2> QED  BY <2>1, SameOrders, OrdersStep DEF IInv, SwitchInv
<1>4. ASSUME NEW g \in Grants, NEW o \in Orders, EnqueueOrder(g, o) PROVE IInv' /\ SwitchInv'
  <2>1. Gateway!Enqueue(o) /\ UNCHANGED <<kill, activation>>
    BY <1>4 DEF EnqueueOrder
  <2>2. order'[o].status = "blocked_account_type" /\ \A p \in Orders \ {o} : order'[p] = order[p]
    BY <2>1 DEF Gateway!Enqueue, Gateway!SetOrder, Gateway!NoOrder, IInv, Shapes
  <2> QED  BY <2>1, <2>2, EnqueueStep DEF SwitchInv
<1>5. CASE UNCHANGED vars
  BY <1>1, <1>5 DEF vars, room, gateway
<1> QED  BY <1>2, <1>3, <1>4, <1>5, GatewayStep, RoomStep DEF Next

LEMMA Invariance == Spec => [](IInv /\ SwitchInv)
BY InitIInv, NextIInv, PTL DEF Spec

-----------------------------------------------------------------------------
(* What grants are spent on.  Every step that spends one spends a grant     *)
(* that was not spent, and enters one order, or overrides once, or leaves   *)
(* one audit of the kind that costs.                                        *)
Consumed == {g \in Grants : grant[g].state = "consumed"}
Entered  == {o \in Orders : order[o].status # "none"}
Costs(r) == r.what = "mode" \/ ~r.after
Charged  == {i \in DOMAIN audits : Costs(audits[i])}

AuditRows == [what : {"mode", "kill"}, before : Room!Modes \cup BOOLEAN,
              after : Room!Modes \cup BOOLEAN]

PaidInv ==
  /\ grant = [g \in Grants |-> grant[g]]
  /\ kill \in BOOLEAN /\ mode \in Room!Modes
  /\ audits \in Seq(AuditRows) /\ overrides \in Nat
  /\ \A o \in Orders : order[o].status = "none" => order[o].id = "none"
  /\ IsFiniteSet(Consumed) /\ IsFiniteSet(Entered) /\ IsFiniteSet(Charged)
  /\ Cardinality(Consumed) = Cardinality(Entered) + overrides + Cardinality(Charged)

(* An order that was not entered is left alone, one that was stays so.      *)
NoneKept == \A o \in Orders :
  IF order[o].status = "none" THEN order'[o] = order[o] ELSE order'[o].status # "none"

LEMMA ReconcileKeeps ==
  ASSUME IInv, PaidInv, NEW b \in Bridges, Gateway!Reconcile(b)
  PROVE  NoneKept
<1>1. CASE UNCHANGED order
  BY <1>1 DEF NoneKept
<1>2. CASE ~UNCHANGED order
  <2> DEFINE seen == bridge[b].seen
  <2>1. PICK found : order' = Gateway!Updated(Gateway!WithIds(found), seen)
    BY <1>2 DEF Gateway!Reconcile
  <2> DEFINE rows == Gateway!WithIds(found)
  <2>2. ASSUME NEW o \in Orders
        PROVE  IF order[o].status = "none" THEN rows[o] = order[o] /\ rows[o].id = "none"
               ELSE rows[o].status # "none" /\ Row(rows[o])
    BY DEF Gateway!WithIds, Gateway!Unmatched, IInv, Shapes, Row, PaidInv
  <2>3. ASSUME NEW o \in Orders
        PROVE  \/ order'[o] = rows[o]
               \/ /\ rows[o].id # "none"
                  /\ \E s \in {"acked", "filled", "rejected"} : order'[o] = [rows[o] EXCEPT !.status = s]
    BY <2>1 DEF Gateway!Updated, Gateway!None, Gateway!Known
  <2> HIDE DEF rows
  <2>4. ASSUME NEW o \in Orders
        PROVE  IF order[o].status = "none" THEN order'[o] = order[o] ELSE order'[o].status # "none"
    <3>1. CASE order[o].status = "none"
      BY <2>2, <2>3, <3>1
    <3>2. CASE order[o].status # "none"
      <4>1. rows[o].status # "none" /\ Row(rows[o])
        BY <2>2, <3>2
      <4>2. \A s \in {"acked", "filled", "rejected"} : [rows[o] EXCEPT !.status = s].status = s
        BY <4>1, Columns
      <4>3. order'[o].status # "none"
        BY <2>3, <4>1, <4>2
      <4> QED  BY <3>2, <4>3
    <3> QED  BY <3>1, <3>2
  <2> QED  BY <2>4 DEF NoneKept
<1> QED  BY <1>1, <1>2

LEMMA GatewayKeeps ==
  ASSUME IInv, PaidInv, Gateway!Next \/ Gateway!Revoke
  PROVE  NoneKept
<1> USE DEF NoneKept
<1>1. ASSUME UNCHANGED order PROVE NoneKept
  BY <1>1
<1>2. ASSUME NEW o \in Orders, NEW row, Gateway!SetOrder(o, row),
             order[o].status # "none", row.status # "none"
      PROVE  NoneKept
  BY <1>2 DEF Gateway!SetOrder, IInv, Shapes
<1>3. ASSUME NEW o \in Orders, Gateway!Release(o) PROVE NoneKept
  <2>1. [order[o] EXCEPT !.status = "queued"].status = "queued"
    BY Columns DEF IInv, Shapes
  <2> QED  BY <1>2, <1>3, <2>1 DEF Gateway!Release
<1>4. ASSUME NEW o \in Orders, Gateway!SendAges(o) PROVE NoneKept
  <2>1. [order[o] EXCEPT !.fresh = FALSE].status = order[o].status
    BY Columns DEF IInv, Shapes
  <2> QED  BY <1>2, <1>4, <2>1 DEF Gateway!SendAges
<1>5. ASSUME Gateway!Revoke PROVE NoneKept
  <2>1. \A o \in Orders : order'[o] =
          IF Gateway!Revocable(o)
          THEN [order[o] EXCEPT !.status = Gateway!Revocation(o), !.token = Gateway!None, !.fresh = FALSE]
          ELSE order[o]
    BY <1>5 DEF Gateway!Revoke
  <2>2. \A o \in Orders :
          \/ order'[o] = order[o]
          \/ /\ order[o].status \in {"queued", "sending"}
             /\ order'[o].status \in {"revoked_by_kill_switch", "uncertain"}
    BY <2>1 DEF IInv, Shapes, Row, Gateway!Revocable, Gateway!Revocation
  <2> QED  BY <2>2
<1>6. ASSUME NEW b \in Bridges, Gateway!RefuseQueued(b) PROVE NoneKept
  BY <1>6 DEF Gateway!RefuseQueued, Gateway!Refusal, IInv, Shapes, Row
<1>7. ASSUME NEW b \in Bridges, Gateway!ClaimNext(b) PROVE NoneKept
  <2> DEFINE swept == [o \in Orders |->
               IF Gateway!Stale(o)
               THEN [order[o] EXCEPT !.status = "uncertain", !.token = Gateway!None] ELSE order[o]]
  <2>1. ASSUME NEW o \in Orders
        PROVE  IF order[o].status = "none" THEN swept[o] = order[o]
               ELSE swept[o].status # "none" /\ Row(swept[o])
    <3> DEFINE half == [order[o] EXCEPT !.status = "uncertain"]
    <3>1. Row(order[o]) /\ Row(half) /\ half.status = "uncertain"
      BY Columns DEF IInv, Shapes
    <3>2. [order[o] EXCEPT !.status = "uncertain", !.token = Gateway!None]
            = [half EXCEPT !.token = Gateway!None]
      BY <3>1 DEF Row
    <3> HIDE DEF half
    <3>3. /\ Row([half EXCEPT !.token = Gateway!None])
          /\ [half EXCEPT !.token = Gateway!None].status = "uncertain"
      BY <3>1 DEF Row
    <3>4. CASE Gateway!Stale(o)
      BY <3>2, <3>3, <3>4 DEF Gateway!Stale
    <3>5. CASE ~Gateway!Stale(o)
      BY <3>1, <3>5
    <3> QED  BY <3>4, <3>5
  <2>2. \/ order' = swept
        \/ \E o \in Orders : /\ Gateway!MayTake(o)
                             /\ order' = [swept EXCEPT ![o] = [@ EXCEPT !.status = "sending",
                                                               !.token = b, !.fresh = TRUE]]
    BY <1>7 DEF Gateway!ClaimNext
  <2>3. CASE order' = swept
    BY <2>1, <2>3
  <2>4. ASSUME NEW o \in Orders, order[o].status = "queued",
               order' = [swept EXCEPT ![o] = [@ EXCEPT !.status = "sending",
                                              !.token = b, !.fresh = TRUE]]
        PROVE  NoneKept
    <3>1. DOMAIN swept = Orders
      OBVIOUS
    <3> HIDE DEF swept
    <3>2. order'[o] = [swept[o] EXCEPT !.status = "sending", !.token = b, !.fresh = TRUE]
      BY <2>4, <3>1
    <3>3. order'[o].status = "sending"
      BY <2>1, <2>4, <3>2 DEF Row
    <3>4. \A p \in Orders \ {o} : order'[p] = swept[p]
      BY <2>4, <3>1
    <3> QED  BY <2>1, <2>4, <3>3, <3>4
  <2> QED  BY <2>2, <2>3, <2>4 DEF Gateway!MayTake
<1>8. ASSUME NEW b \in Bridges, Gateway!Recheck(b) PROVE NoneKept
  <2> DEFINE o == bridge[b].order
             row == [order[o] EXCEPT !.status = Gateway!Refusal, !.token = Gateway!None, !.fresh = FALSE]
  <2>1. o \in Orders /\ Row(order[o])
    BY <1>8 DEF Gateway!Recheck, IInv, Shapes, InHand
  <2>2. row.status # "none"
    BY <2>1 DEF Row, Gateway!Refusal
  <2>3. UNCHANGED order \/ (order[o].status = "sending" /\ Gateway!SetOrder(o, row))
    BY <1>8 DEF Gateway!Recheck, Gateway!Sending
  <2> HIDE DEF o, row
  <2> QED  BY <1>2, <2>1, <2>2, <2>3
<1>9. ASSUME NEW b \in Bridges, Gateway!Publish(b) PROVE NoneKept
  <2> DEFINE o == bridge[b].order
             status == IF bridge[b].answer = Gateway!None THEN "uncertain" ELSE bridge[b].answer
             id == IF bridge[b].answer = Gateway!None THEN Gateway!None ELSE o
             row == [Gateway!NoOrder EXCEPT !.status = status, !.id = id]
  <2>1. o \in Orders /\ status # "none"
    BY <1>9 DEF Gateway!Publish, Gateway!None, IInv, Shapes, InHand
  <2>2. row.status # "none"
    <3>1. row.status = status
      <4> HIDE DEF status, id
      <4> QED  BY NoOrderRow, TwoColumns
    <3> QED  BY <2>1, <3>1
  <2>3. UNCHANGED order \/ (order[o].status = "sending" /\ Gateway!SetOrder(o, row))
    BY <1>9 DEF Gateway!Publish, Gateway!Sending
  <2> HIDE DEF o, row, status
  <2> QED  BY <1>2, <2>1, <2>2, <2>3
<1> HIDE DEF NoneKept
<1>10. ASSUME NEW b \in Bridges, Gateway!Polls(b) \/ Gateway!Crash(b) PROVE NoneKept
  <2>1. ASSUME NEW status \in {"acked", "rejected"}, Gateway!Submit(b, status) PROVE NoneKept
    BY <1>1, <2>1 DEF Gateway!Submit
  <2>2. ASSUME \/ Gateway!ClaimBridge(b) \/ Gateway!Snapshot(b) \/ Gateway!Crash(b) PROVE NoneKept
    BY <1>1, <2>2 DEF Gateway!ClaimBridge, Gateway!Snapshot, Gateway!Crash
  <2> QED  BY <1>6, <1>7, <1>8, <1>9, <1>10, <2>1, <2>2, ReconcileKeeps DEF Gateway!Polls
<1>11. ASSUME NEW o \in Orders, Gateway!Execute(o) PROVE NoneKept
  BY <1>1, <1>11 DEF Gateway!Execute
<1>12. ASSUME Gateway!ReplaceFiling \/ Gateway!LeaseRunsOut PROVE NoneKept
  BY <1>1, <1>12 DEF Gateway!ReplaceFiling, Gateway!LeaseRunsOut
<1> QED  BY <1>3, <1>4, <1>5, <1>10, <1>11, <1>12 DEF Gateway!Next

LEMMA PayAdds ==
  ASSUME PaidInv, NEW g \in Grants, NEW p, Room!Pay(g, p)
  PROVE  /\ grant' = [h \in Grants |-> grant'[h]]
         /\ g \notin Consumed /\ Consumed' = Consumed \cup {g}
<1>1. /\ grant[g] = [state |-> "issued", purpose |-> p]
      /\ grant' = [[h \in Grants |-> IF h \in {} THEN Room!Contract!Spent("lapsed") ELSE grant[h]]
                    EXCEPT ![g] = [state |-> "consumed", purpose |-> "none"]]
  BY DEF Room!Pay, Room!Contract!Consume, Room!Contract!Use, Room!Contract!Usable,
         Room!Contract!Lapsed, Room!Contract!Spent
<1>2. /\ grant' = [h \in Grants |-> grant'[h]] /\ grant'[g].state = "consumed"
      /\ \A h \in Grants \ {g} : grant'[h] = grant[h]
  BY <1>1
<1>3. grant[g].state = "issued"
  BY <1>1
<1> QED  BY <1>2, <1>3 DEF Consumed

LEMMA AuditAdds ==
  ASSUME PaidInv, NEW what \in {"mode", "kill"}, NEW before \in Room!Modes \cup BOOLEAN,
         NEW after \in Room!Modes \cup BOOLEAN, Room!Audit(what, before, after)
  PROVE  /\ audits' \in Seq(AuditRows) /\ Len(audits) + 1 \notin Charged
         /\ Charged' = IF what = "mode" \/ ~after THEN Charged \cup {Len(audits) + 1} ELSE Charged
<1> DEFINE row == [what |-> what, before |-> before, after |-> after]
<1>1. /\ audits' = Append(audits, row) /\ audits \in Seq(AuditRows) /\ row \in AuditRows
      /\ Costs(row) <=> what = "mode" \/ ~after
  BY DEF Room!Audit, PaidInv, AuditRows, Costs
<1> HIDE DEF row
<1>2. /\ audits' \in Seq(AuditRows) /\ Len(audits) \in Nat
      /\ DOMAIN audits = 1 .. Len(audits) /\ DOMAIN audits' = 1 .. Len(audits) + 1
      /\ audits'[Len(audits) + 1] = row
      /\ \A i \in 1 .. Len(audits) : audits'[i] = audits[i]
  BY <1>1
<1>3. \A i \in 1 .. Len(audits) + 1 :
        i \in Charged' <=> IF i = Len(audits) + 1 THEN Costs(row) ELSE i \in Charged
  BY <1>2 DEF Charged
<1>4. Charged \subseteq 1 .. Len(audits) /\ Charged' \subseteq 1 .. Len(audits) + 1
  BY <1>2 DEF Charged
<1>5. Len(audits) + 1 \notin 1 .. Len(audits) /\ 1 .. Len(audits) \subseteq 1 .. Len(audits) + 1
  BY <1>2
<1>6. Charged' = IF Costs(row) THEN Charged \cup {Len(audits) + 1} ELSE Charged
  <2> DEFINE n == Len(audits) + 1
  <2>1. n \in 1 .. Len(audits) + 1 /\ \A i \in 1 .. Len(audits) + 1 : i = n \/ i \in 1 .. Len(audits)
    BY <1>2
  <2> HIDE DEF n
  <2>2. \A i : i \in Charged' <=> (i = n /\ Costs(row)) \/ i \in Charged
    BY <1>3, <1>4, <1>5, <2>1 DEF n
  <2> QED  BY <2>2, Zenon DEF n
<1> QED  BY <1>1, <1>2, <1>4, <1>5, <1>6

(* One more of each, or none *)
Grown(S, T) == \E x : x \notin S /\ T = S \cup {x}

LEMMA GrownSize ==
  ASSUME NEW S, IsFiniteSet(S), NEW T, Grown(S, T)
  PROVE  IsFiniteSet(T) /\ Cardinality(T) = Cardinality(S) + 1 /\ Cardinality(S) \in Nat
BY FS_AddElement, FS_CardinalityType DEF Grown

LEMMA FreeStep ==
  ASSUME PaidInv, grant' = [g \in Grants |-> grant'[g]], kill' \in BOOLEAN, mode' \in Room!Modes,
         audits' \in Seq(AuditRows), NoneKept,
         UNCHANGED overrides, Consumed' = Consumed, Charged' = Charged
  PROVE  PaidInv'
<1>1. Entered' = Entered /\ \A o \in Orders : order'[o].status = "none" => order'[o].id = "none"
  BY DEF NoneKept, Entered, PaidInv
<1> QED  BY <1>1 DEF PaidInv

(* A grant is spent on one effect. *)
LEMMA PaidStep ==
  ASSUME PaidInv, grant' = [g \in Grants |-> grant'[g]], kill' \in BOOLEAN, mode' \in Room!Modes,
         audits' \in Seq(AuditRows),
         \A o \in Orders : order'[o].status = "none" => order'[o].id = "none",
         Grown(Consumed, Consumed'),
         \/ Grown(Entered, Entered') /\ overrides' = overrides /\ Charged' = Charged
         \/ Entered' = Entered /\ overrides' = overrides + 1 /\ Charged' = Charged
         \/ Entered' = Entered /\ overrides' = overrides /\ Grown(Charged, Charged')
  PROVE  PaidInv'
<1>1. /\ IsFiniteSet(Consumed) /\ IsFiniteSet(Entered) /\ IsFiniteSet(Charged) /\ overrides \in Nat
      /\ Cardinality(Consumed) = Cardinality(Entered) + overrides + Cardinality(Charged)
  BY DEF PaidInv
<1>2. Cardinality(Consumed) \in Nat /\ Cardinality(Entered) \in Nat /\ Cardinality(Charged) \in Nat
  BY <1>1, FS_CardinalityType
<1>3. IsFiniteSet(Consumed') /\ Cardinality(Consumed') = Cardinality(Consumed) + 1
  BY <1>1, GrownSize
<1>4. /\ IsFiniteSet(Entered') /\ IsFiniteSet(Charged') /\ overrides' \in Nat
      /\ Cardinality(Consumed') = Cardinality(Entered') + overrides' + Cardinality(Charged')
  <2>1. CASE Grown(Entered, Entered') /\ overrides' = overrides /\ Charged' = Charged
    <3>1. IsFiniteSet(Entered') /\ Cardinality(Entered') = Cardinality(Entered) + 1
      BY <1>1, <2>1, GrownSize
    <3> QED  BY <1>1, <1>2, <1>3, <2>1, <3>1
  <2>2. CASE Entered' = Entered /\ overrides' = overrides + 1 /\ Charged' = Charged
    BY <1>1, <1>2, <1>3, <2>2
  <2>3. CASE Entered' = Entered /\ overrides' = overrides /\ Grown(Charged, Charged')
    <3>1. IsFiniteSet(Charged') /\ Cardinality(Charged') = Cardinality(Charged) + 1
      BY <1>1, <2>3, GrownSize
    <3> QED  BY <1>1, <1>2, <1>3, <2>3, <3>1
  <2> QED  BY <2>1, <2>2, <2>3
<1> QED  BY <1>3, <1>4 DEF PaidInv

LEMMA SameOrdersPaid ==
  ASSUME PaidInv, UNCHANGED order
  PROVE  /\ NoneKept /\ Entered' = Entered
         /\ \A o \in Orders : order'[o].status = "none" => order'[o].id = "none"
BY DEF NoneKept, Entered, PaidInv

LEMMA RoomPays ==
  ASSUME PaidInv, Room!Next, UNCHANGED order
  PROVE  PaidInv'
<1>1. /\ NoneKept /\ Entered' = Entered /\ grant = [g \in Grants |-> grant[g]]
      /\ \A o \in Orders : order'[o].status = "none" => order'[o].id = "none"
      /\ kill \in BOOLEAN /\ mode \in Room!Modes /\ audits \in Seq(AuditRows)
  BY SameOrdersPaid DEF PaidInv
<1>2. ASSUME UNCHANGED audits PROVE Charged' = Charged
  BY <1>2 DEF Charged
<1>3. ASSUME UNCHANGED grant PROVE Consumed' = Consumed
  BY <1>3 DEF Consumed
<1>4. ASSUME Room!Activate PROVE PaidInv'
  <2>1. Room!Audit("kill", kill, TRUE) /\ UNCHANGED <<grant, overrides, mode>> /\ kill' = TRUE
    BY <1>4 DEF Room!Activate, Room!AuditKill
  <2>2. audits' \in Seq(AuditRows) /\ Charged' = Charged
    BY <1>1, <2>1, AuditAdds
  <2> QED  BY <1>1, <1>3, <2>1, <2>2, FreeStep
<1>5. ASSUME Room!GrantsMove PROVE PaidInv'
  <2>1. UNCHANGED <<kill, mode, audits, overrides>>
    BY <1>5 DEF Room!GrantsMove
  <2>2. ASSUME NEW g \in Grants, NEW p \in Room!Purposes, Room!Contract!Issue(g, p)
        PROVE  Consumed' = Consumed /\ grant' = [h \in Grants |-> grant'[h]]
    BY <1>1, <2>2 DEF Room!Contract!Issue, Room!Contract!NoGrant, Room!Contract!Spent, Consumed
  <2>3. ASSUME NEW g \in Room!Contract!Issued, Room!Contract!Lapse({g})
        PROVE  Consumed' = Consumed /\ grant' = [h \in Grants |-> grant'[h]]
    BY <1>1, <2>3 DEF Room!Contract!Lapse, Room!Contract!Lapsed, Room!Contract!Issued,
                      Room!Contract!Spent, Consumed
  <2>4. Consumed' = Consumed /\ grant' = [h \in Grants |-> grant'[h]]
    BY <1>5, <2>2, <2>3 DEF Room!GrantsMove
  <2> QED  BY <1>1, <1>2, <2>1, <2>4, FreeStep
<1>6. ASSUME NEW g \in Grants, NEW p, Room!Pay(g, p)
      PROVE  Grown(Consumed, Consumed') /\ grant' = [h \in Grants |-> grant'[h]]
  BY <1>6, PayAdds DEF Grown
<1>7. ASSUME NEW g \in Grants, NEW to \in Room!Modes, Room!ChangeMode(g, to) PROVE PaidInv'
  <2>1. /\ Room!Pay(g, "change_decision_mode") /\ Room!Audit("mode", mode, to)
        /\ mode' = to /\ UNCHANGED <<kill, overrides>>
    BY <1>7 DEF Room!ChangeMode
  <2>2. audits' \in Seq(AuditRows) /\ Grown(Charged, Charged')
    BY <1>1, <2>1, AuditAdds DEF Grown
  <2> QED  BY <1>1, <1>6, <2>1, <2>2, PaidStep
<1>8. ASSUME NEW g \in Grants, Room!ReleaseSwitch(g) PROVE PaidInv'
  <2>1. /\ Room!Pay(g, "release_kill_switch") /\ Room!Audit("kill", kill, FALSE)
        /\ kill' = FALSE /\ UNCHANGED <<mode, overrides>>
    BY <1>8 DEF Room!ReleaseSwitch, Room!AuditKill
  <2>2. audits' \in Seq(AuditRows) /\ Grown(Charged, Charged')
    BY <1>1, <2>1, AuditAdds DEF Grown
  <2> QED  BY <1>1, <1>6, <2>1, <2>2, PaidStep
<1>9. ASSUME NEW g \in Grants, NEW action \in {"accept", "reject", "modify"}, Room!Override(g, action)
      PROVE  PaidInv'
  <2>1. /\ Room!Pay(g, "override_decision") /\ overrides' = overrides + 1
        /\ UNCHANGED <<kill, mode, audits>>
    BY <1>9 DEF Room!Override
  <2> QED  BY <1>1, <1>2, <1>6, <2>1, PaidStep
<1> QED  BY <1>4, <1>5, <1>7, <1>8, <1>9 DEF Room!Next

LEMMA EnqueuePays ==
  ASSUME IInv, PaidInv, NEW g \in Grants, NEW o \in Orders, EnqueueOrder(g, o)
  PROVE  PaidInv'
<1>1. /\ Room!Pay(g, "submit_broker_simulation") /\ order[o] = Gateway!NoOrder
      /\ Gateway!SetOrder(o, [Gateway!NoOrder EXCEPT !.status = "blocked_account_type"])
      /\ UNCHANGED <<kill, mode, audits, overrides>>
  BY DEF EnqueueOrder, Gateway!Enqueue
<1>2. order[o].status = "none"
  BY <1>1 DEF Gateway!NoOrder, Gateway!None
<1>3. [Gateway!NoOrder EXCEPT !.status = "blocked_account_type"].status = "blocked_account_type"
  BY NoOrderRow, Columns
<1>4. order'[o].status = "blocked_account_type" /\ \A p \in Orders \ {o} : order'[p] = order[p]
  BY <1>1, <1>3 DEF Gateway!SetOrder, IInv, Shapes
<1>5. o \notin Entered /\ Entered' = Entered \cup {o}
  BY <1>2, <1>4 DEF Entered
<1>6. \A p \in Orders : order'[p].status = "none" => order'[p].id = "none"
  BY <1>4 DEF PaidInv
<1>7. Grown(Consumed, Consumed') /\ grant' = [h \in Grants |-> grant'[h]]
  BY <1>1, PayAdds DEF Grown
<1>8. Charged' = Charged /\ Grown(Entered, Entered')
  BY <1>1, <1>5 DEF Charged, Grown
<1>9. kill' \in BOOLEAN /\ mode' \in Room!Modes /\ audits' \in Seq(AuditRows)
  BY <1>1 DEF PaidInv
<1> QED  BY <1>1, <1>6, <1>7, <1>8, <1>9, PaidStep

LEMMA InitPaid == Init => PaidInv
<1> SUFFICES ASSUME Init PROVE PaidInv
  OBVIOUS
<1>1. /\ order = [o \in Orders |-> Gateway!NoOrder] /\ Room!Init
  BY DEF Init, Gateway!Init
<1>2. \A o \in Orders : order[o].status = "none" /\ order[o].id = "none"
  BY <1>1 DEF Gateway!NoOrder, Gateway!None
<1>3. grant = [g \in Grants |-> [state |-> "none", purpose |-> "none"]]
  BY <1>1 DEF Room!Init, Room!Contract!Init, Room!Contract!NoGrant, Room!Contract!Spent
<1>4. audits = <<>> /\ overrides = 0 /\ kill = FALSE /\ mode = "research_only"
  BY <1>1 DEF Room!Init
<1>5. Consumed = {} /\ Entered = {} /\ Charged = {}
  BY <1>2, <1>3, <1>4 DEF Consumed, Entered, Charged
<1>6. audits \in Seq(AuditRows) /\ mode \in Room!Modes
  BY <1>4 DEF Room!Modes
<1>7. /\ IsFiniteSet(Consumed) /\ IsFiniteSet(Entered) /\ IsFiniteSet(Charged)
      /\ Cardinality(Consumed) = Cardinality(Entered) + overrides + Cardinality(Charged)
  <2>1. IsFiniteSet({}) /\ Cardinality({}) = 0
    BY FS_EmptySet
  <2> QED  BY <1>4, <1>5, <2>1
<1> QED  BY <1>2, <1>3, <1>4, <1>6, <1>7 DEF PaidInv

LEMMA NextPaid == IInv /\ PaidInv /\ [Next]_vars => PaidInv'
<1> SUFFICES ASSUME IInv, PaidInv, [Next]_vars PROVE PaidInv'
  OBVIOUS
<1>1. ASSUME UNCHANGED <<kill, mode, grant, audits, overrides>>, NoneKept PROVE PaidInv'
  BY <1>1, FreeStep DEF PaidInv, Consumed, Charged
<1>2. CASE GatewayMoves
  BY <1>1, <1>2, GatewayKeeps DEF GatewayMoves, room
<1>3. CASE RevokeQueue
  BY <1>1, <1>3, GatewayKeeps DEF RevokeQueue, Room!Revoked
<1>4. CASE RoomMoves
  BY <1>4, RoomPays DEF RoomMoves, gateway
<1>5. CASE RevokeLost
  BY <1>1, <1>5, SameOrdersPaid DEF RevokeLost, Room!RevokeFails
<1>6. CASE UNCHANGED vars
  BY <1>1, <1>6, SameOrdersPaid DEF vars, room, gateway
<1> QED  BY <1>2, <1>3, <1>4, <1>5, <1>6, EnqueuePays DEF Next

(* No order reaches the broker twice, for any number of instances of the   *)
(* bridge, crashes, lost answers, outlived leases and withdrawals.         *)
THEOREM AtMostOnceCorrect == Spec => []AtMostOnce
<1>1. IInv => AtMostOnce
  BY DEF IInv
<1> QED  BY <1>1, Invariance, PTL

(* An order the user sees as waiting, blocked or revoked never reached the *)
(* broker.                                                                 *)
THEOREM RevokedNeverSentCorrect == Spec => []RevokedNeverSent
<1>1. IInv => RevokedNeverSent
  BY DEF IInv, HandsInv, RevokedNeverSent, Unsent, Unclaimed
<1> QED  BY <1>1, Invariance, PTL

(* Once the activation of the kill switch has revoked the queue, and until *)
(* the switch is released, no bridge holds an order that is being sent.    *)
THEOREM KillSwitchClearsCorrect == Spec => []KillSwitchClears
<1>1. IInv /\ SwitchInv => KillSwitchClears
  BY DEF IInv, Shapes, InHand, SwitchInv, KillSwitchClears, Gateway!Sending
<1> QED  BY <1>1, Invariance, PTL

(* What was stopped never reached the broker. *)
THEOREM StoppedNeverSentCorrect == Spec => []StoppedNeverSent
<1>1. RevokedNeverSent /\ KillSwitchClears => StoppedNeverSent
  BY DEF StoppedNeverSent
<1> QED  BY <1>1, RevokedNeverSentCorrect, KillSwitchClearsCorrect, PTL

(* Every order, override, release of the kill switch and change of mode     *)
(* used up a grant of its own, and no grant was used up for less.           *)
THEOREM EffectsPaidOnceCorrect == Spec => []EffectsPaidOnce
<1>1. PaidInv => EffectsPaidOnce
  BY DEF PaidInv, EffectsPaidOnce, Consumed, Entered, Charged, Costs
<1>2. Init => IInv /\ PaidInv
  BY InitIInv, InitPaid
<1>3. IInv /\ SwitchInv /\ PaidInv /\ [Next]_vars => PaidInv'
  BY NextPaid
<1> QED  BY <1>1, <1>2, <1>3, InitIInv, NextIInv, PTL DEF Spec
=============================================================================
