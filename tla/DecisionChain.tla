---------------------------- MODULE DecisionChain ----------------------------
(***************************************************************************)
(* The decision runs of services/decision_chain.py.                        *)
(*                                                                         *)
(* A run belongs to a key: user, session and requested codes, unique in    *)
(* the table.  A request reserves the run of its key with a claim token,   *)
(* or finds it taken; it then binds one immutable allocation decision to   *)
(* the run as evidence and derives six audit events and a verdict from it. *)
(* Each transaction is one action.  The claim is a lease of five minutes:  *)
(* a request may take over a run that failed, or whose claim is old,       *)
(* whether its first request died or is only slow.                         *)
(*                                                                         *)
(* updated_at is one bit of a running run (fresh: newer than RUN_LEASE), a *)
(* uuid is a number that was not used before, and the six events of one    *)
(* transaction are one entry of events: the evidence they derive from.  The*)
(* actors of decision/protocol.py are functions of the evidence, so a row  *)
(* of evidence holds what they make of it.                                 *)
(* Deleting an account only clears a column that nothing here reads.       *)
(*                                                                         *)
(* FailedOnly and DecidesAnyClaim are faulty variants of the definition    *)
(* after each; the specification does not use them.                        *)
(***************************************************************************)
EXTENDS Naturals, Sequences, FiniteSets

CONSTANTS
  Keys,         \* (user, session, request hash)
  Callers,      \* request threads of the API processes
  MaxEvidence,  \* bound: allocation decisions ever made
  MaxClaims,    \* bound: tokens ever generated
  MaxStalls,    \* bound: how often a live request outlives its claim
  MaxCrashes    \* bound: how often a request dies

ASSUME BoundsAssumption ==
  /\ MaxEvidence \in Nat /\ MaxClaims \in Nat
  /\ MaxStalls \in Nat /\ MaxCrashes \in Nat
ASSUME NoneAssumption == "none" \notin Keys

VARIABLES
  runs,       \* table decision_runs
  events,     \* table decision_events, by run
  evidence,   \* table portfolio_allocation_decisions
  notified,   \* the alarms stored in table decision_notifications
  caller,     \* the local state of each request
  claims, stalls, crashes

vars == <<runs, events, evidence, notified, caller, claims, stalls, crashes>>

None     == "none"
Verdicts == {"vetoed", "approved_candidate"}
Statuses == {"none", "running", "failed"} \cup Verdicts
Kinds    == {"severe_disagreement", "risk_veto"}
Findings == [severe : BOOLEAN, veto : BOOLEAN]

NoRun == [status |-> "none", token |-> 0, fresh |-> FALSE, alloc |-> 0, severe |-> FALSE]
Idle  == [pc |-> "idle", key |-> None, token |-> 0, alloc |-> 0, alarms |-> {}]

Run(c) == runs[caller[c].key]
SetRun(k, run) == runs' = [runs EXCEPT ![k] = run]
Goes(c, pc) == caller' = [caller EXCEPT ![c].pc = pc]

(* WHERE id = run_id AND claim_token = claim_token *)
HoldsClaim(c) == Run(c).token = caller[c].token

Decided(k) == runs[k].status \in Verdicts

(* The alarms that _emit_notifications raises for a run. *)
Alarms(k) ==
  (IF runs[k].severe THEN {"severe_disagreement"} ELSE {})
    \cup (IF runs[k].status = "vetoed" THEN {"risk_veto"} ELSE {})
-----------------------------------------------------------------------------
Init ==
  /\ runs = [k \in Keys |-> NoRun]
  /\ events = [k \in Keys |-> <<>>]
  /\ evidence = <<>> /\ notified = {}
  /\ caller = [c \in Callers |-> Idle]
  /\ claims = 0 /\ stalls = 0 /\ crashes = 0

(* _reserve inserts the run of the key, or takes over a failed or old one, *)
(* keeping the evidence that it is bound to.                               *)
FailedOnly(k) == runs[k].status \in {"none", "failed"}
MayReserve(k) ==
  \/ runs[k].status \in {"none", "failed"}
  \/ runs[k].status = "running" /\ ~runs[k].fresh

Reserve(c, k) ==
  /\ caller[c].pc = "idle"
  /\ IF MayReserve(k)
     THEN /\ claims < MaxClaims
          /\ claims' = claims + 1
          /\ SetRun(k, [runs[k] EXCEPT !.status = "running", !.token = claims + 1,
                                       !.fresh = TRUE])
          /\ caller' = [caller EXCEPT ![c] =
                          [Idle EXCEPT !.pc = "claimed", !.key = k, !.token = claims + 1]]
     ELSE /\ caller' = [caller EXCEPT ![c] = [Idle EXCEPT !.pc = "read", !.key = k]]
          /\ UNCHANGED <<runs, claims>>
  /\ UNCHANGED <<events, evidence, notified, stalls, crashes>>

(* The evidence of an earlier attempt is used again. *)
ReadClaim(c) ==
  /\ caller[c].pc = "claimed"
  /\ Goes(c, IF ~HoldsClaim(c) THEN "failing"
             ELSE IF Run(c).alloc = 0 THEN "preview" ELSE "decide")
  /\ UNCHANGED <<runs, events, evidence, notified, claims, stalls, crashes>>

(* authoritative_allocation.preview stores a new allocation decision. *)
Preview(c) ==
  /\ caller[c].pc = "preview" /\ Len(evidence) < MaxEvidence
  /\ \E findings \in Findings : evidence' = Append(evidence, findings)
  /\ caller' = [caller EXCEPT ![c].pc = "bind", ![c].alloc = Len(evidence) + 1]
  /\ UNCHANGED <<runs, events, notified, claims, stalls, crashes>>

MayBind(c) == HoldsClaim(c)

Bind(c) ==
  /\ caller[c].pc = "bind"
  /\ IF MayBind(c)
     THEN /\ SetRun(caller[c].key,
                    [Run(c) EXCEPT !.alloc = caller[c].alloc, !.fresh = TRUE])
          /\ Goes(c, "decide")
     ELSE Goes(c, "failing") /\ UNCHANGED runs
  /\ UNCHANGED <<events, evidence, notified, claims, stalls, crashes>>

(* The last transaction appends the events and the verdict.  lost: it was  *)
(* committed, but the request sees an error.                               *)
DecidesAnyClaim(c) == Run(c).alloc # 0
MayDecide(c) == HoldsClaim(c) /\ Run(c).status = "running"

WithVerdict(run, found) ==
  [run EXCEPT !.severe = found.severe, !.token = 0, !.fresh = FALSE,
              !.status = IF found.veto THEN "vetoed" ELSE "approved_candidate"]

Decide(c, lost) ==
  /\ caller[c].pc = "decide"
  /\ IF MayDecide(c)
     THEN /\ events' = [events EXCEPT ![caller[c].key] = Append(@, Run(c).alloc)]
          /\ SetRun(caller[c].key, WithVerdict(Run(c), evidence[Run(c).alloc]))
          /\ Goes(c, IF lost THEN "failing" ELSE "read")
     ELSE Goes(c, "failing") /\ UNCHANGED <<runs, events>>
  /\ UNCHANGED <<evidence, notified, claims, stalls, crashes>>

(* get, of its own run or of the one it found taken; a running one is a    *)
(* conflict for the client.                                                *)
Read(c) ==
  /\ caller[c].pc = "read"
  /\ caller' = [caller EXCEPT ![c] =
                  IF Run(c).status = "running" THEN Idle
                  ELSE [@ EXCEPT !.pc = "notify", !.alarms = Alarms(caller[c].key)]]
  /\ UNCHANGED <<runs, events, evidence, notified, claims, stalls, crashes>>

(* _emit_notifications, one alarm after the other; an error ends it.       *)
Notify(c) ==
  /\ caller[c].pc = "notify" /\ caller[c].alarms # {}
  /\ LET kind == IF "severe_disagreement" \in caller[c].alarms
                 THEN "severe_disagreement" ELSE "risk_veto"
     IN  /\ notified' = notified \cup {<<caller[c].key, kind>>}
         /\ caller' = [caller EXCEPT ![c].alarms = @ \ {kind}]
  /\ UNCHANGED <<runs, events, evidence, claims, stalls, crashes>>

Return(c) ==
  /\ caller[c].pc = "notify" /\ caller[c].alarms = {}
  /\ caller' = [caller EXCEPT ![c] = Idle]
  /\ UNCHANGED <<runs, events, evidence, notified, claims, stalls, crashes>>

(* _mark_failed. *)
MayMark(c) == HoldsClaim(c) /\ Run(c).status = "running"

MarkFailed(c) ==
  /\ caller[c].pc = "failing"
  /\ IF MayMark(c)
     THEN SetRun(caller[c].key, [Run(c) EXCEPT !.status = "failed", !.token = 0,
                                               !.fresh = FALSE])
     ELSE UNCHANGED runs
  /\ caller' = [caller EXCEPT ![c] = Idle]
  /\ UNCHANGED <<events, evidence, notified, claims, stalls, crashes>>

(* A step raises: its transaction is rolled back.  Outside the try block   *)
(* (no claim of its own) and in _emit_notifications nothing is marked.     *)
Raises(c) ==
  /\ caller[c].pc \in {"claimed", "preview", "bind", "decide", "read", "notify"}
  /\ caller' = [caller EXCEPT ![c] =
                  IF @.pc = "notify" \/ @.token = 0 THEN Idle
                  ELSE [@ EXCEPT !.pc = "failing"]]
  /\ UNCHANGED <<runs, events, evidence, notified, claims, stalls, crashes>>
-----------------------------------------------------------------------------
Busy(c) == caller[c].pc # "idle"

(* The process dies, or _mark_failed itself cannot reach the database. *)
Crash(c) ==
  /\ Busy(c) /\ crashes < MaxCrashes
  /\ caller' = [caller EXCEPT ![c] = Idle]
  /\ crashes' = crashes + 1
  /\ UNCHANGED <<runs, events, evidence, notified, claims, stalls>>

Claimed(k) == \E c \in Callers : Busy(c) /\ caller[c].key = k /\ HoldsClaim(c)

(* Five minutes pass: over a dead request always, over a live one seldom.  *)
LeaseRunsOut(k) ==
  /\ runs[k].status = "running" /\ runs[k].fresh
  /\ IF Claimed(k) THEN stalls < MaxStalls /\ stalls' = stalls + 1 ELSE UNCHANGED stalls
  /\ SetRun(k, [runs[k] EXCEPT !.fresh = FALSE])
  /\ UNCHANGED <<events, evidence, notified, caller, claims, crashes>>

(* What a request does by itself once it was made. *)
Continues(c) ==
  \/ ReadClaim(c) \/ Preview(c) \/ Bind(c) \/ \E lost \in BOOLEAN : Decide(c, lost)
  \/ Read(c) \/ Notify(c) \/ Return(c) \/ MarkFailed(c) \/ Raises(c)

Next ==
  \/ \E c \in Callers : Continues(c) \/ Crash(c) \/ \E k \in Keys : Reserve(c, k)
  \/ \E k \in Keys : LeaseRunsOut(k)

Spec == Init /\ [][Next]_vars

(* Requests that were made continue, and time passes; that a client makes  *)
(* a request, or repeats one, is not assumed.                              *)
FairSpec ==
  /\ Spec
  /\ \A c \in Callers : WF_vars(Continues(c))
  /\ \A k \in Keys : WF_vars(LeaseRunsOut(k) /\ ~Claimed(k))
-----------------------------------------------------------------------------
RunRows == [status : Statuses, token : 0 .. MaxClaims, fresh : BOOLEAN,
            alloc : 0 .. MaxEvidence, severe : BOOLEAN]
LocalStates == [pc : {"idle", "claimed", "preview", "bind", "decide", "read", "notify",
                      "failing"},
                key : Keys \cup {None}, token : 0 .. MaxClaims,
                alloc : 0 .. MaxEvidence, alarms : SUBSET Kinds]

(* Types; a run has a claim token exactly while it is running, and nothing *)
(* refers to evidence that does not exist.                                 *)
TypeOK ==
  /\ runs \in [Keys -> RunRows]
  /\ \A k \in Keys : runs[k].token # 0 <=> runs[k].status = "running"
  /\ \A k \in Keys : runs[k].alloc <= Len(evidence)
  /\ events \in [Keys -> Seq(1 .. MaxEvidence)]
  /\ evidence \in Seq(Findings) /\ Len(evidence) <= MaxEvidence
  /\ notified \subseteq Keys \X Kinds
  /\ caller \in [Callers -> LocalStates]
  /\ \A c \in Callers : Busy(c) => caller[c].key \in Keys
  /\ claims \in 0 .. MaxClaims /\ stalls \in 0 .. MaxStalls /\ crashes \in 0 .. MaxCrashes

(* A run has its audit events exactly when it has a verdict: one chain,    *)
(* derived from the evidence the run is bound to, which is what the        *)
(* verdict says; retries never leave a second or a foreign chain, and a run*)
(* without verdict has neither events nor a disagreement to its name.      *)
OneAuditChain ==
  \A k \in Keys :
    IF Decided(k)
    THEN /\ events[k] = <<runs[k].alloc>>
         /\ runs[k].severe = evidence[runs[k].alloc].severe
         /\ runs[k].status = "vetoed" <=> evidence[runs[k].alloc].veto
    ELSE events[k] = <<>> /\ ~runs[k].severe

(* An alarm is stored only for a run with a verdict and the evidence that  *)
(* calls for it.                                                           *)
AlarmsJustified ==
  \A k \in Keys :
    /\ <<k, "severe_disagreement">> \in notified =>
         Decided(k) /\ evidence[runs[k].alloc].severe
    /\ <<k, "risk_veto">> \in notified =>
         Decided(k) /\ evidence[runs[k].alloc].veto

(* A run that is bound to evidence keeps it, whoever retries or comes late.*)
EvidenceStable ==
  [][\A k \in Keys : runs[k].alloc # 0 => runs'[k].alloc = runs[k].alloc]_vars

(* A verdict is final, also for a request that saw its own commit fail:    *)
(* the trigger that protects completed runs never has to refuse a change.  *)
VerdictFinal ==
  [][\A k \in Keys : Decided(k) => runs'[k] = runs[k] /\ events'[k] = events[k]]_vars

(* If clients keep repeating a request, its run does not stay running for  *)
(* ever: neither a dead nor a slow request blocks it.                      *)
RepeatedRequestsEndRun ==
  \A k \in Keys :
    []<><<\E c \in Callers : Reserve(c, k)>>_vars => []<>(runs[k].status # "running")

(* SPEC.md:265: a severe disagreement triggers its notification. *)
SevereDisagreementNotified ==
  \A k \in Keys :
    (Decided(k) /\ runs[k].severe) ~> <<k, "severe_disagreement">> \in notified
=============================================================================
