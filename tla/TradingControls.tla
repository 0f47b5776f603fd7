--------------------------- MODULE TradingControls ---------------------------
(***************************************************************************)
(* The decision room, the broker gateway and the grants of one user        *)
(* together.  The kill switch of the room stops the gateway: its           *)
(* activation revokes what is queued, after the transaction that sets it;  *)
(* an order costs a grant.                                                 *)
(***************************************************************************)
EXTENDS Naturals, Sequences, FiniteSets

CONSTANTS Grants, MaxActivations, Orders, Bridges, Alike, MaxFaults

ASSUME AlikeAssumption  == Alike \subseteq Orders \X Orders
ASSUME BoundsAssumption == MaxFaults \in Nat /\ MaxActivations \in Nat
ASSUME NoneAssumption   == "none" \notin Orders \cup Bridges

VARIABLES
  kill, mode, grant, audits, overrides, activation,
  filing, order, holder, leased, bridge, remote, sends, faults

Room    == INSTANCE DecisionRoom
Gateway == INSTANCE BrokerGateway

room    == <<mode, grant, audits, overrides, activation>>
gateway == <<filing, order, holder, leased, bridge, remote, sends, faults>>
vars    == <<kill, room, gateway>>
-----------------------------------------------------------------------------
Init == Room!Init /\ Gateway!Init

(* enqueue_rehearsal_order consumes its grant in the same transaction. *)
EnqueueOrder(g, o) ==
  /\ Room!Pay(g, "submit_broker_simulation") /\ Gateway!Enqueue(o)
  /\ UNCHANGED <<kill, mode, audits, overrides, activation>>

(* activate_kill_switch calls revoke_for_kill_switch, and logs its failure *)
(* without failing itself.                                                 *)
RevokeQueue == Room!Revoked /\ Gateway!Revoke
RevokeLost  == Gateway!Fault /\ Room!RevokeFails
               /\ UNCHANGED <<filing, order, holder, leased, bridge, remote, sends>>

RoomMoves    == Room!Next /\ UNCHANGED gateway
GatewayMoves == Gateway!Next /\ UNCHANGED <<kill, room>>

Next ==
  \/ RoomMoves \/ GatewayMoves \/ RevokeQueue \/ RevokeLost
  \/ \E g \in Grants, o \in Orders : EnqueueOrder(g, o)

Spec == Init /\ [][Next]_vars

(* Some terminal polls every second, each finishes what it began, and a    *)
(* send grows old.                                                         *)
Quietly(A) == A /\ UNCHANGED <<kill, room>>
Finishes(b) == Gateway!Recheck(b) \/ Gateway!Publish(b) \/ Gateway!Reconcile(b)
                 \/ \E s \in {"acked", "rejected"} : Gateway!Submit(b, s)

FairSpec ==
  /\ Spec
  /\ WF_vars(\E b \in Bridges : Quietly(Gateway!ClaimBridge(b)))
  /\ SF_vars(\E b \in Bridges : Quietly(Gateway!ClaimNext(b)))
  /\ SF_vars(\E b \in Bridges : Quietly(Gateway!Snapshot(b)))
  /\ \A b \in Bridges : WF_vars(Quietly(Finishes(b)))
  /\ WF_vars(\E o \in Orders : Quietly(Gateway!SendAges(o)))
-----------------------------------------------------------------------------
(* Types and table constraints: an order names the instance that sends it  *)
(* exactly while it is sending, and an activation leaves its audit.        *)
TypeOK ==
  /\ kill \in BOOLEAN /\ mode \in Room!Modes /\ filing \in BOOLEAN /\ leased \in BOOLEAN
  /\ holder \in Bridges \cup {"none"} /\ faults \in 0 .. MaxFaults
  /\ \A o \in Orders : /\ (order[o].status = "sending") = (order[o].token \in Bridges)
                       /\ order[o].fresh => order[o].status = "sending"
                       /\ order[o].id \in Orders \cup {"none"}

(* No order reaches the broker twice, whatever is lost, crashes or is      *)
(* taken over (process_one, publish_submit_result).                        *)
AtMostOnce == \A o \in Orders : sends[o] <= 1

(* An order the user sees as waiting, blocked or revoked never reached the *)
(* broker: one that may have is sending or uncertain (revoke_for_kill_     *)
(* switch, _claim_next_order).                                             *)
RevokedNeverSent ==
  \A o \in Orders : order[o].status \in {"blocked_account_type", "queued",
                      "revoked_by_kill_switch", "blocked_filing"} => sends[o] = 0

(* Once the activation of the kill switch has revoked the queue, no order  *)
(* is on its way any more: not before the last check, and one that has     *)
(* passed it is uncertain, not sending.                                    *)
KillSwitchClears ==
  kill /\ activation = "revoked" =>
    \A b \in Bridges : bridge[b].pc \in {"recheck", "submit", "publish"} => ~Gateway!Sending(b)

(* What was stopped never reached the broker, and what is on its way when   *)
(* the switch is thrown is known to be.                                    *)
StoppedNeverSent == RevokedNeverSent /\ KillSwitchClears

(* Every order, override, release and change of mode used up a grant of    *)
(* its own.                                                                *)
EffectsPaidOnce ==
  Cardinality({g \in Grants : grant[g].state = "consumed"}) =
    Cardinality({o \in Orders : order[o].status # "none"}) + overrides
      + Cardinality({i \in DOMAIN audits : audits[i].what = "mode" \/ ~audits[i].after})

(* An order that reached the broker is found again, by its answer or by    *)
(* reconciliation, unless its permission is withdrawn for good or another  *)
(* order just like it was claimed as well (reconcile).                     *)
SentOrdersFound ==
  \A o \in Orders : sends[o] > 0 ~>
    \/ order[o].id # "none" \/ kill \/ ~filing
    \/ \E r \in Orders \ {o} : /\ Gateway!Like(o, r)
                              /\ order[r].status \notin {"none", "blocked_account_type", "queued"}
=============================================================================
