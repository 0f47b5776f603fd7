---------------------------- MODULE DecisionRoom ----------------------------
(***************************************************************************)
(* The controls of one user, services/decision_room.py: the mode of the    *)
(* decision room, the kill switch, and the user's overrides of decisions.  *)
(* Everything but the activation of the kill switch uses up a grant of     *)
(* services/step_up.py (GrantContract) in the transaction of its effect;   *)
(* changes of the mode and of the switch leave an audit row.               *)
(*                                                                         *)
(* Requests take the lock of the user's row first, so each transaction is  *)
(* one action; a refused request changes nothing.  After its transaction   *)
(* the activation revokes the broker's queue and raises an alarm, each of  *)
(* which may fail without failing the activation; the alarm is left out,   *)
(* and so are reasons, weights and hashes.                                 *)
(*                                                                         *)
(* FreeOfCharge is a faulty variant of the definition after it; the        *)
(* specification does not use it.                                          *)
(***************************************************************************)
EXTENDS Naturals, Sequences, FiniteSets

CONSTANTS
  Grants,          \* grants the user asks for
  MaxActivations   \* bound: activations of the kill switch

VARIABLES
  kill, mode,
  grant,       \* see GrantContract
  audits,      \* table decision_room_audits
  overrides,   \* the number of rows in table decision_overrides
  activation   \* what became of the last activation's revocation

room == <<kill, mode, grant, audits, overrides, activation>>

Modes    == {"research_only", "manual_review"}
Purposes == {"change_decision_mode", "release_kill_switch", "override_decision",
             "submit_broker_simulation"}
Contract == INSTANCE GrantContract

Audit(what, before, after) ==
  audits' = Append(audits, [what |-> what, before |-> before, after |-> after])
-----------------------------------------------------------------------------
Init ==
  /\ kill = FALSE /\ mode = "research_only"
  /\ Contract!Init
  /\ audits = <<>> /\ overrides = 0
  /\ activation = "none"

FreeOfCharge(g, p) == Contract!Usable(g, p) /\ UNCHANGED grant
Pay(g, p) == Contract!Consume(g, p)

ChangeMode(g, to) ==
  /\ Pay(g, "change_decision_mode")
  /\ mode' = to /\ Audit("mode", mode, to)
  /\ UNCHANGED <<kill, overrides, activation>>

Activations == {i \in DOMAIN audits : audits[i].what = "kill" /\ audits[i].after}

(* The audit records what the row said, not what the request asked for:    *)
(* the switch may be active already.                                       *)
AuditKill(to) == Audit("kill", kill, to)

Activate ==
  /\ activation # "revoking" /\ Cardinality(Activations) < MaxActivations
  /\ kill' = TRUE /\ AuditKill(TRUE)
  /\ activation' = "revoking"
  /\ UNCHANGED <<mode, grant, overrides>>

Revoked ==
  /\ activation = "revoking" /\ activation' = "revoked"
  /\ UNCHANGED <<kill, mode, grant, audits, overrides>>

RevokeFails ==
  /\ activation = "revoking" /\ activation' = "failed"
  /\ UNCHANGED <<kill, mode, grant, audits, overrides>>

ReleaseSwitch(g) ==
  /\ kill /\ Pay(g, "release_kill_switch")
  /\ kill' = FALSE /\ AuditKill(FALSE)
  /\ UNCHANGED <<mode, overrides, activation>>

(* An override of a decision the risk officer approved. *)
Override(g, action) ==
  /\ action # "reject" => mode # "research_only" /\ ~kill
  /\ Pay(g, "override_decision")
  /\ overrides' = overrides + 1
  /\ UNCHANGED <<kill, mode, audits, activation>>

(* create_grant, and the five minutes of a grant: GrantContract. *)
GrantsMove ==
  /\ \/ \E g \in Grants, p \in Purposes : Contract!Issue(g, p)
     \/ \E g \in Contract!Issued : Contract!Lapse({g})
  /\ UNCHANGED <<kill, mode, audits, overrides, activation>>

Next ==
  \/ Activate \/ GrantsMove
  \/ \E g \in Grants :
       \/ \E to \in Modes : ChangeMode(g, to)
       \/ ReleaseSwitch(g)
       \/ \E action \in {"accept", "reject", "modify"} : Override(g, action)
=============================================================================
