--------------------------- MODULE EvolutionProofs ---------------------------
(***************************************************************************)
(* The order of commitments and settlements of a program, for any number   *)
(* of schedulers, administrators, days, crashes and outlived leases.       *)
(*                                                                         *)
(* The claim is the heart of the argument: whoever still holds it when it  *)
(* writes finds the commitments and observations as it read them, since a  *)
(* write gives the claim back.  A caller that lost its claim may have read *)
(* anything; it writes nothing.                                            *)
(***************************************************************************)
EXTENDS MCResearch, FiniteSetTheorems, WellFoundedInduction, TLAPS

Pcs == {"idle", "commit", "claim commit", "evaluate", "claim evaluate", "listed", "reread",
        "degrade", "pause"} \cup Working
Stages == Active \cup Ended \cup {None}
LocalStates == [pc : Pcs, day : Days, seen : Days, stage : Stages, at : Days, book : Nat]

(* What the holder of the claim has checked still holds. *)
Prepared(s) ==
  /\ s.pc \in {"sign", "write commit"} => s.day = last /\ Committed \subseteq Settled
  /\ s.pc \in {"check label", "write evaluate"} => s.day \in Committed \ Settled
  /\ s.pc = "write evaluate" => committed[s.day].at <= s.day

ActorsOK == actor \in [Actors -> LocalStates]
ClaimInv == \A a \in Actors : claim = a => Prepared(actor[a])

IInv == TypeOK /\ ActorsOK /\ ClaimInv /\ SettledInOrder /\ NoHindsight

rows == <<last, committed, observed>>
-----------------------------------------------------------------------------
LEMMA DaysStart == 0 \in Days
  BY DaysAssumption DEF Days

LEMMA DayIsNat == \A d \in Days : d \in Nat
  BY DaysAssumption DEF Days

LEMMA LastIsNat == ASSUME TypeOK PROVE last \in Nat
<1>1. last \in 0 .. LastDay + 1
  BY DEF TypeOK
<1> QED  BY <1>1, DaysAssumption

LEMMA IdleState == Idle \in LocalStates /\ Idle.pc = "idle"
  BY DaysStart DEF Idle, LocalStates, Pcs, Stages

LEMMA NoneNobody == None \notin Actors
  BY ActorsAssumption DEF None, Actors

(* The settled days are finitely many. *)
LEMMA BookIsNat == Book \in Nat /\ IsFiniteSet(Settled)
<1>1. IsFiniteSet(Days)
  BY FS_Interval, DaysAssumption DEF Days
<1>2. Settled \in SUBSET Days
  BY DEF Settled
<1> QED  BY <1>1, <1>2, FS_Subset, FS_CardinalityType DEF Book

LEMMA InitIInv == Init => IInv
<1> SUFFICES ASSUME Init PROVE IInv
  OBVIOUS
<1>1. /\ stage = "simulation" /\ last = 0 /\ claim = None /\ fresh = FALSE
      /\ committed = [d \in Days |-> NoCommitment] /\ observed = [d \in Days |-> None]
      /\ latest = 0 /\ promoted = FALSE /\ faults = 0 /\ actor = [a \in Actors |-> Idle]
  BY DEF Init
<1>2. Committed = {} /\ Settled = {}
  BY <1>1 DEF Committed, Settled, None
<1>3. TypeOK
  <2>1. committed \in [Days -> [stage : Active \cup Ended \cup {None}, at : Days, book : Nat]]
    BY <1>1, DaysStart DEF NoCommitment
  <2>2. observed \in [Days -> {None, "good", "bad"}]
    BY <1>1
  <2>3. last \in 0 .. LastDay + 1 /\ latest \in Days /\ faults \in 0 .. MaxFaults
    BY <1>1, DaysAssumption, DaysStart
  <2> QED  BY <1>1, <2>1, <2>2, <2>3, Zenon DEF TypeOK, Active
<1>4. ActorsOK
  BY <1>1, IdleState DEF ActorsOK
<1>5. ClaimInv
  BY <1>1, NoneNobody DEF ClaimInv
<1>6. SettledInOrder
  BY <1>1, <1>2 DEF SettledInOrder
<1>7. NoHindsight
  BY <1>2 DEF NoHindsight
<1> QED  BY <1>3, <1>4, <1>5, <1>6, <1>7 DEF IInv

(* A step that leaves the rows alone and moves one caller to a state that   *)
(* is prepared if the caller has the claim.                                 *)
LEMMA LocalStep ==
  ASSUME IInv, TypeOK', UNCHANGED rows,
         NEW a \in Actors, NEW s \in LocalStates,
         actor' = [actor EXCEPT ![a] = s],
         claim' \in {claim, a, None}, claim' = a => Prepared(s)
  PROVE  IInv'
<1>1. Committed' = Committed /\ Settled' = Settled /\ last' = last
      /\ committed' = committed
  BY DEF rows, Committed, Settled
<1>2. ActorsOK'
  BY DEF IInv, ActorsOK
<1>3. \A x \in LocalStates : Prepared(x)' <=> Prepared(x)
  BY <1>1 DEF Prepared
<1>4. ASSUME NEW b \in Actors, claim' = b
      PROVE  Prepared(actor[b])'
  <2>1. actor'[b] = IF b = a THEN s ELSE actor[b]
    BY DEF IInv, ActorsOK
  <2>2. Prepared(actor'[b])
    BY <1>4, <2>1, NoneNobody DEF IInv, ClaimInv
  <2> QED  BY <2>2, <1>1 DEF Prepared
<1>5. SettledInOrder' /\ NoHindsight'
  BY <1>1 DEF IInv, SettledInOrder, NoHindsight
<1> QED  BY <1>2, <1>4, <1>5 DEF IInv, ClaimInv

(* The same, for a step that only moves the program counter. *)
LEMMA GotoStep ==
  ASSUME IInv, TypeOK', UNCHANGED rows,
         NEW a \in Actors, NEW pc \in Pcs, Goto(a, pc),
         claim' \in {claim, a, None},
         claim' = a => Prepared([actor[a] EXCEPT !.pc = pc])
  PROVE  IInv'
<1>1. [actor[a] EXCEPT !.pc = pc] \in LocalStates
  BY DEF IInv, ActorsOK, LocalStates
<1>2. actor' = [actor EXCEPT ![a] = [actor[a] EXCEPT !.pc = pc]]
  BY DEF Goto
<1> QED  BY <1>1, <1>2, LocalStep

LEMMA StopStep ==
  ASSUME IInv, TypeOK', UNCHANGED rows,
         NEW a \in Actors, Stop(a), claim' \in {claim, a, None}
  PROVE  IInv'
<1>1. actor' = [actor EXCEPT ![a] = Idle] /\ Prepared(Idle)
  BY IdleState DEF Stop, Prepared
<1> QED  BY <1>1, IdleState, LocalStep

(* Where nothing is prepared, a caller may go with the claim or without. *)
Loose == Pcs \ {"sign", "write commit", "check label", "write evaluate"}

LEMMA LooseStep ==
  ASSUME IInv, TypeOK', UNCHANGED rows,
         NEW a \in Actors, NEW pc \in Loose, Goto(a, pc), claim' \in {claim, a, None}
  PROVE  IInv'
<1>1. Prepared([actor[a] EXCEPT !.pc = pc]) /\ pc \in Pcs
  <2>1. [actor[a] EXCEPT !.pc = pc].pc = pc
    BY DEF IInv, ActorsOK, LocalStates
  <2> QED  BY <2>1 DEF Loose, Prepared
<1> QED  BY <1>1, GotoStep

LEMMA LooseRaise ==
  ASSUME IInv, TypeOK', UNCHANGED rows,
         NEW a \in Actors, NEW e \in {"value", "conflict", "other"}, Raise(a, e),
         claim' \in {claim, a, None}
  PROVE  IInv'
<1>1. "pause" \in Loose
  BY DEF Loose, Pcs, Working
<1> QED  BY <1>1, LooseStep, StopStep DEF Raise

LEMMA LooseAfter ==
  ASSUME IInv, TypeOK', UNCHANGED rows,
         NEW a \in Actors, AfterEvaluate(a), claim' \in {claim, a, None}
  PROVE  IInv'
<1>1. "reread" \in Loose
  BY DEF Loose, Pcs, Working
<1> QED  BY <1>1, LooseStep, StopStep DEF AfterEvaluate
-----------------------------------------------------------------------------
(* Types *)
LEMMA SameTypes ==
  ASSUME TypeOK, UNCHANGED <<stage, last, claim, fresh, committed, observed, latest, promoted>>,
         faults' = faults \/ Fault
  PROVE  TypeOK'
<1>1. faults' \in 0 .. MaxFaults
  BY DaysAssumption DEF TypeOK, Fault
<1> QED  BY <1>1 DEF TypeOK

LEMMA ClaimTypes ==
  ASSUME TypeOK, UNCHANGED <<stage, last, committed, observed, latest, promoted, faults>>,
         \/ Released
         \/ UNCHANGED <<claim, fresh>>
         \/ \E a \in Actors : claim' = a /\ fresh' = TRUE
  PROVE  TypeOK'
<1>1. claim' \in Actors \cup {None} /\ fresh' \in BOOLEAN
  BY DEF TypeOK, Released
<1>2. claim' = None => ~fresh'
  BY NoneNobody DEF TypeOK, Released
<1> QED  BY <1>1, <1>2, Zenon DEF TypeOK

LEMMA StageTypes ==
  ASSUME TypeOK, NEW to \in Stages \ {None}, Transition(to),
         UNCHANGED <<last, claim, fresh, committed, observed, latest, promoted, faults>>
  PROVE  TypeOK'
<1>1. stage' \in Active \cup Ended
  BY DEF Transition, Stages
<1> QED  BY <1>1 DEF TypeOK
-----------------------------------------------------------------------------
(* The steps that write none of the rows. *)
LEMMA ClaimInvStep ==
  ASSUME IInv, NEW a \in Actors, NEW from \in Pcs, NEW pc \in {"read commit", "read evaluate"},
         Claim(a, from, pc)
  PROVE  IInv'
<1>1. UNCHANGED rows /\ TypeOK
  BY DEF Claim, rows, IInv
<1>2. CASE stage \in Active /\ claim' = a /\ fresh' = TRUE
           /\ actor' = [actor EXCEPT ![a].pc = pc, ![a].stage = stage, ![a].book = Book]
  <2>1. TypeOK'
    BY <1>1, <1>2, ClaimTypes DEF Claim
  <2> DEFINE s == [actor[a] EXCEPT !.pc = pc, !.stage = stage, !.book = Book]
  <2>2. s \in LocalStates /\ s.pc = pc
    BY <1>1, BookIsNat DEF IInv, ActorsOK, LocalStates, TypeOK, Stages, Pcs, Working
  <2>3. actor' = [actor EXCEPT ![a] = s]
    BY <1>2
  <2>4. Prepared(s)
    BY <2>2 DEF Prepared
  <2> HIDE DEF s
  <2> QED  BY <1>1, <1>2, <2>1, <2>2, <2>3, <2>4, LocalStep
<1>3. CASE Raise(a, "value") /\ UNCHANGED <<claim, fresh>>
  <2>1. TypeOK'
    BY <1>1, <1>3, ClaimTypes DEF Claim
  <2> QED  BY <1>1, <1>3, <2>1, LooseRaise
<1>4. CASE Raise(a, "conflict") /\ UNCHANGED <<claim, fresh>>
  <2>1. TypeOK'
    BY <1>1, <1>4, ClaimTypes DEF Claim
  <2> QED  BY <1>1, <1>4, <2>1, LooseRaise
<1> QED  BY <1>2, <1>3, <1>4 DEF Claim

LEMMA AbandonStep == ASSUME IInv, NEW a \in Actors, Abandon(a) PROVE IInv'
<1>1. UNCHANGED rows /\ claim' \in {claim, a, None}
  BY DEF Abandon, rows, Released
<1>2. TypeOK'
  BY ClaimTypes DEF Abandon, IInv
<1> QED  BY <1>1, <1>2, LooseRaise DEF Abandon

LEMMA EvidenceStep == ASSUME IInv, NEW a \in Actors, EvidenceUnusable(a) PROVE IInv'
<1>1. UNCHANGED rows /\ claim' = claim /\ "failed value" \in Loose
  BY DEF EvidenceUnusable, rows, program, Loose, Pcs, Working
<1>2. TypeOK'
  BY SameTypes DEF EvidenceUnusable, program, IInv
<1> QED  BY <1>1, <1>2, LooseStep DEF EvidenceUnusable

LEMMA CommitCallStep == ASSUME IInv, NEW a \in Actors, CommitCall(a) PROVE IInv'
<1>1. UNCHANGED rows /\ claim' = claim /\ "claim commit" \in Loose
  BY DEF CommitCall, rows, program, Loose, Pcs, Working
<1>2. TypeOK'
  BY SameTypes DEF CommitCall, program, IInv
<1> QED  BY <1>1, <1>2, LooseStep, StopStep DEF CommitCall

LEMMA CommitReadStep == ASSUME IInv, NEW a \in Actors, CommitRead(a) PROVE IInv'
<1>1. UNCHANGED rows /\ claim' = claim /\ "failed value" \in Loose /\ "sign" \in Pcs
  BY DEF CommitRead, rows, program, Loose, Pcs, Working
<1>2. TypeOK'
  BY SameTypes DEF CommitRead, program, IInv
<1>3. CASE MayCommit(actor[a].day) /\ Goto(a, "sign")
  <2>1. Prepared([actor[a] EXCEPT !.pc = "sign"])
    BY <1>3 DEF MayCommit, Prepared, IInv, ActorsOK, LocalStates
  <2> QED  BY <1>1, <1>2, <1>3, <2>1, GotoStep
<1>4. CASE Goto(a, "failed value")
  BY <1>1, <1>2, <1>4, LooseStep
<1> QED  BY <1>3, <1>4 DEF CommitRead

LEMMA CommitSignStep == ASSUME IInv, NEW a \in Actors, CommitSign(a) PROVE IInv'
<1>1. UNCHANGED rows /\ claim' = claim
  BY DEF CommitSign, rows, program
<1>2. TypeOK'
  BY SameTypes DEF CommitSign, program, IInv
<1> DEFINE s == [actor[a] EXCEPT !.pc = "write commit", !.at = latest]
<1>3. s \in LocalStates /\ s.pc = "write commit" /\ s.day = actor[a].day
  BY DEF IInv, ActorsOK, LocalStates, TypeOK, Pcs, Working
<1>4. actor' = [actor EXCEPT ![a] = s]
  BY DEF CommitSign
<1>5. claim' = a => Prepared(s)
  BY <1>1, <1>3 DEF IInv, ClaimInv, Prepared, CommitSign
<1> HIDE DEF s
<1> QED  BY <1>1, <1>2, <1>3, <1>4, <1>5, LocalStep

LEMMA EvaluateCallStep == ASSUME IInv, NEW a \in Actors, EvaluateCall(a) PROVE IInv'
<1>1. UNCHANGED rows /\ claim' = claim /\ "claim evaluate" \in Loose
  BY DEF EvaluateCall, rows, program, Loose, Pcs, Working
<1>2. TypeOK'
  BY SameTypes DEF EvaluateCall, program, IInv
<1> QED  BY <1>1, <1>2, LooseStep, LooseAfter DEF EvaluateCall

LEMMA EvaluateReadStep == ASSUME IInv, NEW a \in Actors, EvaluateRead(a) PROVE IInv'
<1>1. UNCHANGED rows /\ claim' = claim /\ {"failed value", "settled"} \subseteq Loose
      /\ "check label" \in Pcs
  BY DEF EvaluateRead, rows, program, Loose, Pcs, Working
<1>2. TypeOK'
  BY SameTypes DEF EvaluateRead, program, IInv
<1>3. CASE /\ actor[a].day \in Committed /\ observed[actor[a].day] = None
           /\ Goto(a, "check label")
  <2>1. Prepared([actor[a] EXCEPT !.pc = "check label"])
    BY <1>3 DEF Prepared, Settled, IInv, ActorsOK, LocalStates
  <2> QED  BY <1>1, <1>2, <1>3, <2>1, GotoStep
<1>4. CASE Goto(a, "failed value") \/ Goto(a, "settled")
  BY <1>1, <1>2, <1>4, LooseStep
<1> QED  BY <1>3, <1>4 DEF EvaluateRead

LEMMA AlreadySettledStep == ASSUME IInv, NEW a \in Actors, AlreadySettled(a) PROVE IInv'
<1>1. UNCHANGED rows /\ claim' \in {claim, a, None} /\ "failed other" \in Loose
  BY DEF AlreadySettled, rows, Released, Loose, Pcs, Working
<1>2. TypeOK'
  BY ClaimTypes DEF AlreadySettled, IInv
<1> QED  BY <1>1, <1>2, LooseStep, LooseAfter DEF AlreadySettled

LEMMA EvaluateCheckStep == ASSUME IInv, NEW a \in Actors, EvaluateCheck(a) PROVE IInv'
<1>1. UNCHANGED rows /\ claim' = claim /\ "failed value" \in Loose /\ "write evaluate" \in Pcs
  BY DEF EvaluateCheck, rows, program, Loose, Pcs, Working
<1>2. TypeOK'
  BY SameTypes DEF EvaluateCheck, program, IInv
<1>3. CASE MaySettle(actor[a].day) /\ Goto(a, "write evaluate")
  <2>1. claim' = a => Prepared([actor[a] EXCEPT !.pc = "write evaluate"])
    BY <1>1, <1>3 DEF MaySettle, Prepared, IInv, ActorsOK, LocalStates, ClaimInv, EvaluateCheck
  <2> QED  BY <1>1, <1>2, <1>3, <2>1, GotoStep
<1>4. CASE Goto(a, "failed value")
  BY <1>1, <1>2, <1>4, LooseStep
<1> QED  BY <1>3, <1>4 DEF EvaluateCheck

LEMMA ListStep == ASSUME IInv, NEW a \in Actors, List(a) PROVE IInv'
<1>1. UNCHANGED rows /\ claim' = claim
  BY DEF List, rows, program
<1>2. TypeOK'
  BY SameTypes DEF List, program, IInv
<1> DEFINE s == [actor[a] EXCEPT !.pc = "listed", !.seen = latest]
<1>3. s \in LocalStates /\ s.pc = "listed"
  BY DEF IInv, ActorsOK, LocalStates, TypeOK, Pcs
<1>4. actor' = [actor EXCEPT ![a] = s] /\ Prepared(s)
  BY <1>3 DEF List, Prepared
<1> HIDE DEF s
<1> QED  BY <1>1, <1>2, <1>3, <1>4, LocalStep

LEMMA FindStep == ASSUME IInv, NEW a \in Actors, FindUnsettled(a) PROVE IInv'
<1>1. UNCHANGED rows /\ claim' = claim /\ "reread" \in Loose
  BY DEF FindUnsettled, rows, program, Loose, Pcs, Working
<1>2. TypeOK'
  BY SameTypes DEF FindUnsettled, program, IInv
<1>3. ASSUME NEW d \in Days, actor' = [actor EXCEPT ![a].pc = "evaluate", ![a].day = d]
      PROVE  IInv'
  <2> DEFINE s == [actor[a] EXCEPT !.pc = "evaluate", !.day = d]
  <2>1. s \in LocalStates /\ s.pc = "evaluate"
    BY DEF IInv, ActorsOK, LocalStates, Pcs
  <2>2. actor' = [actor EXCEPT ![a] = s] /\ Prepared(s)
    BY <1>3, <2>1 DEF Prepared
  <2> HIDE DEF s
  <2> QED  BY <1>1, <1>2, <2>1, <2>2, LocalStep
<1> QED  BY <1>1, <1>2, <1>3, LooseStep DEF FindUnsettled, Committed

LEMMA RereadStep == ASSUME IInv, NEW a \in Actors, Reread(a) PROVE IInv'
<1>1. UNCHANGED rows /\ claim' = claim /\ "degrade" \in Loose
  BY DEF Reread, rows, program, Loose, Pcs, Working
<1>2. TypeOK'
  BY SameTypes DEF Reread, program, IInv
<1>3. ASSUME actor' = [actor EXCEPT ![a].pc = "commit", ![a].day = actor[a].seen]
      PROVE  IInv'
  <2> DEFINE s == [actor[a] EXCEPT !.pc = "commit", !.day = actor[a].seen]
  <2>1. s \in LocalStates /\ s.pc = "commit"
    BY DEF IInv, ActorsOK, LocalStates, Pcs
  <2>2. actor' = [actor EXCEPT ![a] = s] /\ Prepared(s)
    BY <1>3, <2>1 DEF Prepared
  <2> HIDE DEF s
  <2> QED  BY <1>1, <1>2, <2>1, <2>2, LocalStep
<1> QED  BY <1>1, <1>2, <1>3, LooseStep, StopStep DEF Reread

LEMMA DegradeStep == ASSUME IInv, NEW a \in Actors, Degrade(a) PROVE IInv'
<1>1. UNCHANGED rows /\ claim' = claim /\ "degraded" \in Stages \ {None}
  BY DEF Degrade, rows, Stages, Ended, None
<1>2. TypeOK'
  BY <1>1, StageTypes DEF Degrade, IInv
<1> QED  BY <1>1, <1>2, StopStep DEF Degrade

LEMMA PauseStep == ASSUME IInv, NEW a \in Actors, Pause(a) PROVE IInv'
<1>1. UNCHANGED rows /\ claim' = claim /\ "paused" \in Stages \ {None}
  BY DEF Pause, rows, Stages, Ended, None
<1>2. TypeOK'
  BY <1>1, StageTypes, SameTypes DEF Pause, IInv
<1> QED  BY <1>1, <1>2, StopStep DEF Pause

LEMMA RequestStep == ASSUME IInv, NEW a \in Actors, NEW d \in Days, Request(a, d) PROVE IInv'
<1>1. UNCHANGED rows /\ claim' = claim
  BY DEF Request, rows, program
<1>2. TypeOK'
  BY SameTypes DEF Request, program, IInv
<1>3. PICK call \in {"commit", "evaluate"} :
        actor' = [actor EXCEPT ![a].pc = call, ![a].day = d]
  BY DEF Request
<1> DEFINE s == [actor[a] EXCEPT !.pc = call, !.day = d]
<1>4. s \in LocalStates /\ s.pc = call
  BY DEF IInv, ActorsOK, LocalStates, Pcs
<1>5. actor' = [actor EXCEPT ![a] = s] /\ Prepared(s)
  BY <1>3, <1>4 DEF Prepared
<1> HIDE DEF s
<1> QED  BY <1>1, <1>2, <1>4, <1>5, LocalStep

LEMMA CrashStep == ASSUME IInv, NEW a \in Actors, Crash(a) PROVE IInv'
<1>1. UNCHANGED rows /\ claim' = claim
  BY DEF Crash, rows, program
<1>2. TypeOK'
  BY SameTypes DEF Crash, program, IInv
<1> QED  BY <1>1, <1>2, StopStep DEF Crash

(* No caller moves: the day, the promotion, a lease that runs out. *)
LEMMA WorldStep ==
  ASSUME IInv, NextDay \/ Promote \/ LeaseRunsOut \/ UNCHANGED vars
  PROVE  IInv'
<1>1. UNCHANGED rows /\ claim' = claim /\ actor' = actor
  BY DEF NextDay, Promote, LeaseRunsOut, vars, rows, program
<1>2. TypeOK'
  <2>1. CASE NextDay
    <3>1. latest' \in Days
      BY <2>1, DaysAssumption DEF NextDay, Days, IInv, TypeOK
    <3> QED  BY <2>1, <3>1 DEF NextDay, program, IInv, TypeOK
  <2>2. CASE Promote
    BY <2>2, Zenon DEF Promote, program, IInv, TypeOK
  <2>3. CASE LeaseRunsOut
    <3>1. faults' \in 0 .. MaxFaults
      BY <2>3, DaysAssumption DEF LeaseRunsOut, Fault, IInv, TypeOK
    <3> QED  BY <2>3, <3>1, Zenon DEF LeaseRunsOut, IInv, TypeOK
  <2>4. CASE UNCHANGED vars
    BY <2>4, SameTypes DEF vars, IInv
  <2> QED  BY <2>1, <2>2, <2>3, <2>4
<1>3. Committed' = Committed /\ Settled' = Settled
  BY <1>1 DEF rows, Committed, Settled
<1> QED  BY <1>1, <1>2, <1>3
         DEF IInv, ActorsOK, ClaimInv, Prepared, SettledInOrder, NoHindsight, rows
-----------------------------------------------------------------------------
(* The two writes *)

(* The days before d are as many as d. *)
LEMMA DaysBefore == ASSUME NEW d \in Days PROVE Cardinality(0 .. d - 1) = d
<1>1. d \in Nat
  BY DaysAssumption DEF Days
<1> QED  BY <1>1, FS_Interval

(* A write gives the claim back, so nobody has anything to find unchanged. *)
LEMMA WriteEnds ==
  ASSUME IInv, NEW a \in Actors, NEW pc \in Pcs, Released, Stop(a) \/ Goto(a, pc)
  PROVE  ActorsOK' /\ ClaimInv'
<1>1. ActorsOK'
  <2>1. [actor[a] EXCEPT !.pc = pc] \in LocalStates
    BY DEF IInv, ActorsOK, LocalStates
  <2> QED  BY <2>1, IdleState DEF IInv, ActorsOK, Stop, Goto
<1>2. ClaimInv'
  BY NoneNobody DEF ClaimInv, Released
<1> QED  BY <1>1, <1>2

LEMMA CommitWriteStep == ASSUME IInv, NEW a \in Actors, CommitWrite(a) PROVE IInv'
<1> DEFINE d == actor[a].day
<1>1. CASE \/ ~Owns(a) /\ Goto(a, "failed other") /\ UNCHANGED program
           \/ Owns(a) /\ d < last /\ Goto(a, "failed value") /\ UNCHANGED program
  <2>1. UNCHANGED rows /\ claim' = claim /\ {"failed other", "failed value"} \subseteq Loose
    BY <1>1 DEF rows, program, Loose, Pcs, Working
  <2>2. TypeOK'
    BY <1>1, SameTypes DEF CommitWrite, program, IInv
  <2> QED  BY <1>1, <2>1, <2>2, LooseStep
<1>2. CASE /\ Owns(a) /\ last' = d + 1 /\ Released /\ Stop(a)
           /\ committed' = [committed EXCEPT ![d] =
                              [stage |-> stage, at |-> actor[a].at, book |-> actor[a].book]]
           /\ UNCHANGED <<stage, observed, chain>>
  <2>1. d = last /\ Committed \subseteq Settled /\ d \in Days /\ d \in Nat
    <3>1. Prepared(actor[a]) /\ actor[a].pc = "write commit"
      BY <1>2 DEF IInv, ClaimInv, Owns, CommitWrite
    <3>2. d \in Days
      BY DEF IInv, ActorsOK, LocalStates
    <3>3. d = last /\ Committed \subseteq Settled
      BY <3>1 DEF Prepared
    <3> QED  BY <3>2, <3>3, DayIsNat
  <2>2. /\ committed' \in [Days -> [stage : Active \cup Ended \cup {None}, at : Days, book : Nat]]
        /\ committed'[d] # NoCommitment
        /\ \A x \in Days : x # d => committed'[x] = committed[x]
    <3>1. stage # None
      BY DEF IInv, TypeOK, Active, Ended, None
    <3>2. [stage |-> stage, at |-> actor[a].at, book |-> actor[a].book]
            \in [stage : Active \cup Ended \cup {None}, at : Days, book : Nat]
      BY DEF IInv, ActorsOK, LocalStates, TypeOK
    <3>3. [stage |-> stage, at |-> actor[a].at, book |-> actor[a].book] # NoCommitment
      BY <3>1 DEF NoCommitment
    <3> QED  BY <1>2, <2>1, <3>2, <3>3 DEF IInv, TypeOK
  <2>3. Committed' = Committed \cup {d} /\ Settled' = Settled
    BY <1>2, <2>1, <2>2 DEF Committed, Settled
  <2>4. TypeOK'
    <3>1. last' \in 0 .. LastDay + 1
      BY <1>2, <2>1, DaysAssumption DEF Days
    <3>2. claim' = None /\ fresh' = FALSE
      BY <1>2 DEF Released
    <3> QED  BY <1>2, <2>2, <3>1, <3>2, Zenon DEF IInv, TypeOK, CommitWrite
  <2>5. SettledInOrder'
    <3>1. Committed = 0 .. d - 1
      BY <2>1 DEF IInv, SettledInOrder
    <3>2. Committed' = 0 .. last' - 1
      BY <1>2, <2>1, <2>3, <3>1
    <3>3. Settled' \subseteq Committed' /\ Committed' \ Settled' \subseteq {last' - 1}
      BY <1>2, <2>1, <2>3 DEF IInv, SettledInOrder
    <3> QED  BY <3>2, <3>3 DEF SettledInOrder
  <2>6. NoHindsight'
    <3>1. d \notin Settled
      BY <2>1 DEF IInv, SettledInOrder
    <3>2. \A x \in Settled : committed'[x] = committed[x]
      BY <2>2, <3>1 DEF Settled
    <3> QED  BY <2>3, <3>2 DEF IInv, NoHindsight
  <2>7. ActorsOK' /\ ClaimInv'
    BY <1>2, WriteEnds DEF Pcs
  <2> QED  BY <2>4, <2>5, <2>6, <2>7 DEF IInv
<1> QED  BY <1>1, <1>2 DEF CommitWrite

(* An open commitment is the last one. *)
LEMMA OpenIsLast ==
  ASSUME SettledInOrder, TypeOK, NEW d \in Nat, d \in Committed \ Settled
  PROVE  last = d + 1 /\ Settled = 0 .. d - 1
<1>1. last \in Nat
  BY LastIsNat
<1>2. /\ Committed = 0 .. last - 1 /\ Settled \subseteq Committed
      /\ Committed \ Settled \subseteq {last - 1}
  BY DEF SettledInOrder
<1>3. d = last - 1
  BY <1>2
<1>4. last = d + 1
  BY <1>1, <1>3
<1>5. Settled = (0 .. d) \ {d}
  BY <1>2, <1>3
<1> QED  BY <1>4, <1>5

LEMMA SettleStep ==
  ASSUME IInv, NEW a \in Actors, NEW result \in {"good", "bad"}, Owns(a),
         actor[a].pc = "write evaluate", committed[actor[a].day].book = Book,
         Settle(a, actor[a].day, result), AfterEvaluate(a),
         UNCHANGED <<latest, promoted, faults>>
  PROVE  IInv'
<1> DEFINE d == actor[a].day
<1>1. d \in Committed \ Settled /\ committed[d].at <= d /\ d \in Days /\ d \in Nat
  <2>1. Prepared(actor[a])
    BY DEF IInv, ClaimInv, Owns
  <2>2. d \in Committed \ Settled /\ committed[d].at <= d
    BY <2>1 DEF Prepared
  <2>3. d \in Days
    BY <2>2 DEF Committed
  <2> QED  BY <2>2, <2>3, DayIsNat
<1>2. last = d + 1 /\ Settled = 0 .. d - 1
  BY <1>1, OpenIsLast DEF IInv
<1>3. /\ observed' = [observed EXCEPT ![d] = result] /\ last' = d + 1
      /\ Released /\ committed' = committed
  BY DEF Settle
<1>4. Settled' = Settled \cup {d} /\ Committed' = Committed
  BY <1>1, <1>3 DEF Settled, Committed, IInv, TypeOK, None
<1>5. stage' \in Active \cup Ended
  <2>1. \A s : Promotion(s) \in Active \cup Ended
    BY DEF Promotion, Active, Ended
  <2> QED  BY <2>1 DEF Settle, Transition, IInv, TypeOK, Active, Ended
<1>6. TypeOK'
  <2>1. observed' \in [Days -> {None, "good", "bad"}]
    BY <1>1, <1>3 DEF IInv, TypeOK
  <2>2. claim' = None /\ fresh' = FALSE /\ last' = last
    BY <1>2, <1>3 DEF Released
  <2> QED  BY <1>3, <1>5, <2>1, <2>2, Zenon DEF IInv, TypeOK
<1>7. SettledInOrder'
  BY <1>1, <1>2, <1>3, <1>4 DEF IInv, SettledInOrder
<1>8. NoHindsight'
  <2>1. committed[d].book = d
    BY <1>1, <1>2, DaysBefore DEF Book
  <2> QED  BY <1>1, <1>3, <1>4, <2>1 DEF IInv, NoHindsight
<1>9. ActorsOK' /\ ClaimInv'
  BY <1>3, WriteEnds DEF AfterEvaluate, Pcs
<1> QED  BY <1>6, <1>7, <1>8, <1>9 DEF IInv

LEMMA EvaluateWriteStep ==
  ASSUME IInv, NEW a \in Actors, NEW result \in {"good", "bad"}, EvaluateWrite(a, result)
  PROVE  IInv'
<1>1. CASE Goto(a, "failed other") /\ UNCHANGED program
  <2>1. UNCHANGED rows /\ claim' = claim /\ "failed other" \in Loose
    BY <1>1 DEF rows, program, Loose, Pcs, Working
  <2>2. TypeOK'
    BY <1>1, SameTypes DEF EvaluateWrite, program, IInv
  <2> QED  BY <1>1, <2>1, <2>2, LooseStep
<1>2. CASE Goto(a, "failed value") /\ UNCHANGED program
  <2>1. UNCHANGED rows /\ claim' = claim /\ "failed value" \in Loose
    BY <1>2 DEF rows, program, Loose, Pcs, Working
  <2>2. TypeOK'
    BY <1>2, SameTypes DEF EvaluateWrite, program, IInv
  <2> QED  BY <1>2, <2>1, <2>2, LooseStep
<1>3. CASE /\ Owns(a) /\ committed[actor[a].day].book = Book
           /\ Settle(a, actor[a].day, result) /\ AfterEvaluate(a)
  BY <1>3, SettleStep DEF EvaluateWrite
<1> QED  BY <1>1, <1>2, <1>3 DEF EvaluateWrite
-----------------------------------------------------------------------------
LEMMA ContinuesStep == ASSUME IInv, NEW a \in Actors, Continues(a) PROVE IInv'
<1>1. {"claim commit", "claim evaluate"} \subseteq Pcs
  BY DEF Pcs
<1> QED  BY <1>1, ClaimInvStep, CommitCallStep, CommitReadStep, CommitSignStep, CommitWriteStep,
            EvaluateCallStep, EvaluateReadStep, AlreadySettledStep, EvaluateCheckStep,
            EvaluateWriteStep, AbandonStep, FindStep, RereadStep, DegradeStep, PauseStep
         DEF Continues

LEMMA NextIInv == IInv /\ [Next]_vars => IInv'
<1> SUFFICES ASSUME IInv, [Next]_vars PROVE IInv'
  OBVIOUS
<1> QED  BY WorldStep, ListStep, ContinuesStep, EvidenceStep, CrashStep, RequestStep DEF Next

(* The types of the tables hold for any number of callers and faults.      *)
THEOREM TypeCorrect == Spec => []TypeOK
<1>1. IInv => TypeOK
  BY DEF IInv
<1> QED  BY <1>1, InitIInv, NextIInv, PTL DEF Spec

(* Commitments are made day by day without a gap, each is settled before    *)
(* the next is made, and no observation rests on a commitment that was made *)
(* after its day, or on another portfolio than it was decided on.           *)
THEOREM PredictedBeforeKnownCorrect == Spec => []PredictedBeforeKnown
<1>1. IInv => PredictedBeforeKnown
  BY DEF IInv, PredictedBeforeKnown
<1> QED  BY <1>1, InitIInv, NextIInv, PTL DEF Spec
-----------------------------------------------------------------------------
(* A model is promoted only after its program served all of its days and    *)
(* was never stopped.                                                       *)
THEOREM PromotedByTheBookCorrect == Spec => PromotedByTheBook
<1>1. ASSUME IInv, Next \/ UNCHANGED vars, promoted' # promoted
      PROVE  /\ \A i \in DOMAIN chain : chain[i][2] \notin {"degraded", "paused"}
             /\ Settled = 0 .. SimDays + ShadowDays - 1
             /\ Cardinality(Of("simulation")) = SimDays
  <2>1. Verified
    BY <1>1
    DEF Next, NextDay, Promote, LeaseRunsOut, vars, List, Continues, EvidenceUnusable, Crash,
        Request, Claim, CommitCall, CommitRead, CommitSign, CommitWrite, EvaluateCall,
        EvaluateRead, AlreadySettled, EvaluateCheck, EvaluateWrite, Abandon, FindUnsettled,
        Reread, Degrade, Pause
  <2>2. \A i \in DOMAIN chain : chain[i][2] \notin {"degraded", "paused"}
    BY <2>1 DEF Verified, StraightPath
  <2> QED  BY <2>1, <2>2 DEF Verified
<1> QED  BY <1>1, InitIInv, NextIInv, PTL DEF Spec, PromotedByTheBook
-----------------------------------------------------------------------------
(* The jobs that train models (PredictionOps).  Who writes shows the token  *)
(* of the last claim, and tokens count the attempts: so two processes never *)
(* hold the same one, and the one that may write found no model when it     *)
(* looked, nor has anybody else made one since.                             *)
OpsPcs   == {"idle", "claimed", "succeeded", "failed"} \cup Ops!Executing
Trains  == {"registering", "evaluating", "publishing"}
JobRows  == [status : {"none", "queued", "running", "completed", "failed"},
             attempts : 0 .. MaxAttempts, token : 0 .. MaxAttempts,
             leased : BOOLEAN, due : BOOLEAN, result : Ops!Models]
ProcessStates == [pc : OpsPcs, job : Ops!Jobs \cup {0}, token : 0 .. MaxAttempts, model : Ops!Models]
ModelStates   == {"none", "registering", "evaluated", "failed"} \cup Ops!Published

OpsTypes ==
  /\ job \in [Ops!Jobs -> JobRows]
  /\ worker \in [Workers -> ProcessStates]
  /\ model \in [Ops!Models -> ModelStates]
  /\ champion \in Ops!Models

Attempted == \A j \in Ops!Jobs : job[j].status = "running" => job[j].token = job[j].attempts

(* A claim is of an attempt that was made, and of no other process. *)
ClaimOf(r)   == /\ r.job \in Ops!Jobs /\ r.token \in Nat \ {0} /\ r.token <= job[r.job].attempts
ClaimsDiffer ==
  \A w \in Workers : worker[w].pc # "idle" =>
    /\ ClaimOf(worker[w])
    /\ \A v \in Workers \ {w} :
         worker[v].pc # "idle" /\ worker[v].job = worker[w].job => worker[v].token # worker[w].token

(* What a process trains is an attempt at its job, its own if the claim is. *)
ModelsOwn ==
  \A w \in Workers : worker[w].pc \in Trains =>
    /\ worker[w].job \in Training
    /\ \E a \in worker[w].token .. job[worker[w].job].attempts : worker[w].model = <<worker[w].job, a>>

Judged(m) == model[m] \in Ops!Published
Holder(w) == /\ job[worker[w].job].status = "running"
             /\ job[worker[w].job].token = worker[w].token

JudgedAttempted ==
  \A j \in Training : \A a \in 1 .. MaxAttempts : Judged(<<j, a>>) => a <= job[j].attempts
NoneBefore ==
  \A w \in Workers : worker[w].pc \in Trains /\ Holder(w) =>
    \A a \in 1 .. MaxAttempts : ~Judged(<<worker[w].job, a>>)
OneJudged ==
  \A j \in Training : \A a, b \in 1 .. MaxAttempts : Judged(<<j, a>>) /\ Judged(<<j, b>>) => a = b

OpsIInv ==
  OpsTypes /\ Attempted /\ ClaimsDiffer /\ ModelsOwn /\ JudgedAttempted /\ NoneBefore /\ OneJudged
-----------------------------------------------------------------------------
LEMMA ModelsAre ==
  /\ \A j \in Training : \A a \in 1 .. MaxAttempts : <<j, a>> \in Ops!Models
  /\ \A m \in Ops!Models : \A j \in Training :
       m[1] = j => \E a \in 1 .. MaxAttempts : m = <<j, a>>
  /\ Ops!First \in Ops!Models
BY JobsAssumption DEF Ops!Models, Ops!First

LEMMA OpsInit == Ops!Init => OpsIInv
<1>1. \A j \in Training : \A a \in 1 .. MaxAttempts : <<j, a>> # Ops!First
  BY JobsAssumption DEF Ops!First
<1>2. Ops!Init => OpsTypes
  BY JobsAssumption, ModelsAre
  DEF Ops!Init, OpsTypes, Ops!NoJob, Ops!Idle, JobRows, ProcessStates, ModelStates, OpsPcs,
      Ops!Published
<1> QED  BY <1>1, <1>2, ModelsAre
         DEF Ops!Init, OpsIInv, Attempted, ClaimsDiffer, ModelsOwn, JudgedAttempted, NoneBefore,
             OneJudged, Judged, Ops!NoJob, Ops!Idle, Ops!Published, Trains

(* A process goes on with its claim, or gives it up, and trains what it     *)
(* trained before if it trains at all.                                      *)
Follows(r, s) ==
  \/ s.pc = "idle"
  \/ /\ r.pc # "idle" /\ s.job = r.job /\ s.token = r.token
     /\ s.pc \in Trains => r.pc \in Trains /\ s.model = r.model

LEMMA OpsQuiet ==
  ASSUME OpsIInv, OpsTypes',
         \A w \in Workers : Follows(worker[w], worker'[w]),
         \A j \in Ops!Jobs :
           /\ job'[j].attempts = job[j].attempts
           /\ job'[j].status = "running" => job[j].status = "running" /\ job'[j].token = job[j].token,
         \A m \in Ops!Models : model'[m] \in Ops!Published => model[m] \in Ops!Published
  PROVE  OpsIInv'
<1>1. Attempted'
  BY DEF OpsIInv, Attempted
<1>2. ClaimsDiffer'
  BY DEF OpsIInv, ClaimsDiffer, Follows, ClaimOf
<1>3. ModelsOwn'
  BY DEF OpsIInv, ModelsOwn, ClaimsDiffer, ClaimOf, Follows, Trains
<1>4. JudgedAttempted' /\ OneJudged'
  BY ModelsAre DEF OpsIInv, JudgedAttempted, OneJudged, Judged, Ops!Jobs
<1>5. NoneBefore'
  <2> SUFFICES ASSUME NEW w \in Workers, worker'[w].pc \in Trains, Holder(w)',
                      NEW a \in 1 .. MaxAttempts
               PROVE  ~Judged(<<worker[w].job, a>>)'
    BY DEF NoneBefore
  <2>1. worker[w].pc \in Trains /\ worker'[w].job = worker[w].job /\ worker[w].job \in Training
    BY DEF Follows, Trains, OpsIInv, ModelsOwn
  <2>2. Holder(w)
    BY <2>1 DEF Holder, Follows, Trains, Ops!Jobs
  <2> QED  BY <2>1, <2>2, ModelsAre DEF OpsIInv, NoneBefore, Judged
<1> QED  BY <1>1, <1>2, <1>3, <1>4, <1>5 DEF OpsIInv
(* The steps of one process that change no model. *)
LEMMA OpsGoes ==
  ASSUME OpsIInv, NEW w \in Workers, NEW s \in ProcessStates, Follows(worker[w], s),
         worker' = [worker EXCEPT ![w] = s], UNCHANGED <<job, model, champion>>
  PROVE  OpsIInv'
<1>1. OpsTypes' /\ \A v \in Workers : Follows(worker[v], worker'[v])
  BY DEF OpsIInv, OpsTypes, Follows
<1> QED  BY <1>1, OpsQuiet

LEMMA Outcomes ==
  ASSUME OpsIInv, NEW w \in Workers, NEW pc \in {"succeeded", "failed"}, NEW m \in Ops!Models,
         worker[w].pc # "idle"
  PROVE  LET s == [worker[w] EXCEPT !.pc = pc]
             t == [worker[w] EXCEPT !.pc = pc, !.model = m]
         IN  /\ s \in ProcessStates /\ Follows(worker[w], s)
             /\ t \in ProcessStates /\ Follows(worker[w], t)
<1>1. worker[w] \in ProcessStates
  BY DEF OpsIInv, OpsTypes
<1> QED  BY <1>1 DEF ProcessStates, OpsPcs, Follows, Trains

LEMMA OpsEnds ==
  ASSUME OpsIInv, NEW w \in Workers, worker[w].pc # "idle",
         NEW outcome \in {"succeeded", "failed"},
         Ops!Ends(w, outcome), UNCHANGED <<job, model, champion>>
  PROVE  OpsIInv'
<1>1. PICK pc \in {"succeeded", "failed"} : worker' = [worker EXCEPT ![w] = [worker[w] EXCEPT !.pc = pc]]
  BY DEF Ops!Ends, Ops!Goes
<1> QED  BY <1>1, Outcomes, OpsGoes, ModelsAre, Zenon

LEMMA OpsEndsWith ==
  ASSUME OpsIInv, NEW w \in Workers, worker[w].pc # "idle", NEW m \in Ops!Models,
         Ops!EndsWith(w, m), UNCHANGED <<job, model, champion>>
  PROVE  OpsIInv'
<1>1. PICK pc \in {"succeeded", "failed"} :
        worker' = [worker EXCEPT ![w] = [worker[w] EXCEPT !.pc = pc, !.model = m]]
  BY DEF Ops!EndsWith, Ops!Goes
<1> QED  BY <1>1, Outcomes, OpsGoes, Zenon

LEMMA TakeLockInv ==
  ASSUME OpsIInv, NEW w \in Workers, Ops!TakeLock(w) PROVE OpsIInv'
<1>1. worker[w] \in ProcessStates /\ worker[w].pc = "claimed" /\ UNCHANGED <<job, model, champion>>
  BY DEF OpsIInv, OpsTypes, Ops!TakeLock, Ops!At
<1>2. /\ [worker[w] EXCEPT !.pc = "starting"] \in ProcessStates
      /\ Follows(worker[w], [worker[w] EXCEPT !.pc = "starting"])
      /\ Ops!Idle \in ProcessStates /\ Follows(worker[w], Ops!Idle)
  BY <1>1, ModelsAre, JobsAssumption
  DEF ProcessStates, OpsPcs, Ops!Executing, Follows, Trains, Ops!Idle
<1> QED  BY <1>1, <1>2, OpsGoes DEF Ops!TakeLock, Ops!Goes

LEMMA ReadChampionInv ==
  ASSUME OpsIInv, NEW w \in Workers, Ops!ReadChampion(w) PROVE OpsIInv'
<1>1. /\ worker[w] \in ProcessStates /\ worker[w].pc = "starting" /\ champion \in Ops!Models
      /\ UNCHANGED <<job, model, champion>>
  BY DEF OpsIInv, OpsTypes, Ops!ReadChampion, Ops!At
<1>2. CASE Ops!EndsWith(w, champion)
  BY <1>1, <1>2, OpsEndsWith
<1>3. CASE Ops!Goes(w, [worker[w] EXCEPT !.pc = "inferring", !.model = champion])
  <2>1. /\ [worker[w] EXCEPT !.pc = "inferring", !.model = champion] \in ProcessStates
        /\ Follows(worker[w], [worker[w] EXCEPT !.pc = "inferring", !.model = champion])
    BY <1>1 DEF ProcessStates, OpsPcs, Ops!Executing, Follows, Trains
  <2> QED  BY <1>1, <1>3, <2>1, OpsGoes DEF Ops!Goes
<1> QED  BY <1>2, <1>3 DEF Ops!ReadChampion

LEMMA StoreInv ==
  ASSUME OpsIInv, NEW w \in Workers, Ops!Store(w) \/ Ops!Raises(w) PROVE OpsIInv'
<1>1. worker[w].pc # "idle" /\ UNCHANGED <<job, model, champion>>
  BY DEF Ops!Store, Ops!Raises, Ops!At, Ops!Executing
<1>2. Ops!Ends(w, "succeeded") \/ Ops!Ends(w, "failed")
  BY DEF Ops!Store, Ops!Raises
<1> QED  BY <1>1, <1>2, OpsEnds

LEMMA FinishInv ==
  ASSUME OpsIInv, NEW w \in Workers, Ops!Finish(w) \/ Ops!Crash(w) PROVE OpsIInv'
<1>1. worker' = [worker EXCEPT ![w] = Ops!Idle] /\ UNCHANGED <<model, champion>>
  BY DEF Ops!Finish, Ops!Crash, Ops!Goes
<1>2. Ops!Idle \in ProcessStates /\ \A v \in Workers : Follows(worker[v], worker'[v])
  BY <1>1, ModelsAre, JobsAssumption
  DEF OpsIInv, OpsTypes, Ops!Idle, ProcessStates, OpsPcs, Follows
<1>3. /\ job' \in [Ops!Jobs -> JobRows]
      /\ \A j \in Ops!Jobs :
           /\ job'[j].attempts = job[j].attempts
           /\ job'[j].status = "running" => job[j].status = "running" /\ job'[j].token = job[j].token
  <2>1. CASE Ops!Crash(w)
    BY <2>1 DEF Ops!Crash, OpsIInv, OpsTypes
  <2>2. CASE Ops!Finish(w)
    <3>. DEFINE j == worker[w].job
                f == Ops!Finished(job[j], w)
                r == [f EXCEPT !.token = 0, !.leased = FALSE]
    <3>1. worker[w].pc # "idle" /\ j \in Ops!Jobs /\ job[j] \in JobRows /\ worker[w].model \in Ops!Models
      BY <2>2 DEF Ops!Finish, OpsIInv, OpsTypes, ClaimsDiffer, ClaimOf, ProcessStates
    <3>3. job' = [job EXCEPT ![j] = r] \/ job' = job
      BY <2>2 DEF Ops!Finish
    <3>4. f \in JobRows /\ f.attempts = job[j].attempts /\ f.status # "running"
      <4>1. CASE Ops!At(w, "succeeded")
        BY <3>1, <4>1 DEF Ops!Finished, JobRows
      <4>2. CASE ~Ops!At(w, "succeeded") /\ job[j].attempts >= MaxAttempts
        BY <3>1, <4>2 DEF Ops!Finished, JobRows
      <4>3. CASE ~Ops!At(w, "succeeded") /\ ~(job[j].attempts >= MaxAttempts)
        BY <3>1, <4>3 DEF Ops!Finished, JobRows
      <4> QED  BY <4>1, <4>2, <4>3
    <3>. HIDE DEF f
    <3>2. r \in JobRows /\ r.attempts = job[j].attempts /\ r.status # "running"
      <4>. DEFINE g == [f EXCEPT !.token = 0]
      <4>1. g \in JobRows /\ g.attempts = f.attempts /\ g.status = f.status
        BY <3>4, JobsAssumption DEF JobRows
      <4>. HIDE DEF g
      <4>2. [g EXCEPT !.leased = FALSE] \in JobRows
        BY <4>1 DEF JobRows
      <4>3. /\ [g EXCEPT !.leased = FALSE].attempts = g.attempts
            /\ [g EXCEPT !.leased = FALSE].status = g.status
        BY <4>1 DEF JobRows
      <4>4. r = [g EXCEPT !.leased = FALSE]
        BY Zenon DEF g
      <4> QED  BY <3>4, <4>1, <4>2, <4>3, <4>4
    <3>. HIDE DEF r
    <3> QED  BY <3>1, <3>2, <3>3 DEF OpsIInv, OpsTypes
  <2> QED  BY <2>1, <2>2
<1>4. OpsTypes'
  BY <1>1, <1>2, <1>3 DEF OpsIInv, OpsTypes
<1> QED  BY <1>1, <1>2, <1>3, <1>4, OpsQuiet

(* Steps that change the times or the state of a job only, and promotions. *)
LEMMA OpsWorldInv ==
  ASSUME OpsIInv,
         \/ \E j \in Ops!Jobs : Ops!Enqueue(j) \/ Ops!Passes(j) \/ Ops!Late(j)
         \/ \E w \in Workers : Ops!Renew(w) \/ Ops!LoseLock(w)
         \/ \E m \in Ops!Models : Ops!Promote(m)
  PROVE  OpsIInv'
<1>1. UNCHANGED worker /\ \A w \in Workers : Follows(worker[w], worker'[w])
  BY DEF Ops!Enqueue, Ops!Passes, Ops!Late, Ops!Unrenewed, Ops!Waited, Ops!LeaseRunsOut, Ops!Renew,
         Ops!LoseLock, Ops!Promote, Follows
<1>2. CASE \E m \in Ops!Models : Ops!Promote(m)
  <2>1. OpsTypes' /\ UNCHANGED job
    BY <1>1, <1>2 DEF Ops!Promote, OpsIInv, OpsTypes, ModelStates, Ops!Published
  <2>2. \A m \in Ops!Models : model'[m] \in Ops!Published => model[m] \in Ops!Published
    BY <1>2 DEF Ops!Promote, OpsIInv, OpsTypes, Ops!Published
  <2> QED  BY <1>1, <2>1, <2>2, OpsQuiet
<1>3. ASSUME ~ \E m \in Ops!Models : Ops!Promote(m)
      PROVE  /\ UNCHANGED <<model, champion>> /\ job' \in [Ops!Jobs -> JobRows]
             /\ \A j \in Ops!Jobs :
                  /\ job'[j].attempts = job[j].attempts
                  /\ job'[j].status = "running" =>
                       job[j].status = "running" /\ job'[j].token = job[j].token
  <2>1. CASE \E j \in Ops!Jobs : Ops!Enqueue(j) \/ Ops!Passes(j) \/ Ops!Late(j)
    <3>1. PICK j \in Ops!Jobs : Ops!Enqueue(j) \/ Ops!LeaseRunsOut(j) \/ Ops!Waited(j)
      BY <2>1 DEF Ops!Passes, Ops!Late, Ops!Unrenewed
    <3>2. job[j] \in JobRows /\ UNCHANGED <<model, champion>>
      BY <3>1 DEF OpsIInv, OpsTypes, Ops!Enqueue, Ops!LeaseRunsOut, Ops!Waited
    <3>3. PICK r \in JobRows :
            /\ job' = [job EXCEPT ![j] = r]
            /\ r.attempts = job[j].attempts /\ r.token = job[j].token
            /\ r.status = "running" => job[j].status = "running"
      <4>1. CASE Ops!Enqueue(j)
        <5>. DEFINE r == [job[j] EXCEPT !.status = "queued", !.due = TRUE]
        <5>1. r \in JobRows /\ r.attempts = job[j].attempts /\ r.token = job[j].token /\ r.status = "queued"
          BY <3>2 DEF JobRows
        <5>2. job' = [job EXCEPT ![j] = r]
          BY <4>1 DEF Ops!Enqueue, OpsIInv, OpsTypes
        <5> QED  BY <5>1, <5>2
      <4>2. CASE Ops!LeaseRunsOut(j)
        <5>. DEFINE r == [job[j] EXCEPT !.leased = FALSE]
        <5>1. /\ r \in JobRows /\ r.attempts = job[j].attempts /\ r.token = job[j].token
              /\ r.status = job[j].status
          BY <3>2 DEF JobRows
        <5>2. job' = [job EXCEPT ![j] = r]
          BY <4>2 DEF Ops!LeaseRunsOut, OpsIInv, OpsTypes
        <5> QED  BY <5>1, <5>2
      <4>3. CASE Ops!Waited(j)
        <5>. DEFINE r == [job[j] EXCEPT !.due = TRUE]
        <5>1. /\ r \in JobRows /\ r.attempts = job[j].attempts /\ r.token = job[j].token
              /\ r.status = job[j].status
          BY <3>2 DEF JobRows
        <5>2. job' = [job EXCEPT ![j] = r]
          BY <4>3 DEF Ops!Waited, OpsIInv, OpsTypes
        <5> QED  BY <5>1, <5>2
      <4> QED  BY <3>1, <4>1, <4>2, <4>3
    <3>4. job \in [Ops!Jobs -> JobRows] /\ job'[j] = r /\ \A i \in Ops!Jobs : i # j => job'[i] = job[i]
      BY <3>3 DEF OpsIInv, OpsTypes
    <3>5. job' \in [Ops!Jobs -> JobRows]
      BY <3>3, <3>4
    <3> QED  BY <3>2, <3>3, <3>4, <3>5
  <2>2. CASE \E w \in Workers : Ops!Renew(w) \/ Ops!LoseLock(w)
    <3>1. PICK w \in Workers : Ops!Renew(w) \/ Ops!LoseLock(w)
      BY <2>2
    <3>2. CASE Ops!LoseLock(w)
      BY <3>2 DEF Ops!LoseLock, OpsIInv, OpsTypes
    <3>3. CASE Ops!Renew(w)
      <4>1. worker[w].job \in Ops!Jobs
        BY <3>3 DEF Ops!Renew, Ops!Beats, Ops!Executing, OpsIInv, ClaimsDiffer, ClaimOf
      <4> QED  BY <3>3, <4>1 DEF Ops!Renew, OpsIInv, OpsTypes, JobRows
    <3> QED  BY <3>1, <3>2, <3>3
  <2> QED  BY <1>3, <2>1, <2>2
<1>4. CASE ~ \E m \in Ops!Models : Ops!Promote(m)
  <2>1. OpsTypes'
    BY <1>1, <1>3, <1>4 DEF OpsIInv, OpsTypes
  <2>2. \A m \in Ops!Models : model'[m] \in Ops!Published => model[m] \in Ops!Published
    BY <1>3, <1>4
  <2>3. \A j \in Ops!Jobs :
          /\ job'[j].attempts = job[j].attempts
          /\ job'[j].status = "running" => job[j].status = "running" /\ job'[j].token = job[j].token
    BY <1>3, <1>4
  <2>4. \A w \in Workers : Follows(worker[w], worker'[w])
    BY <1>1
  <2> QED  BY <2>1, <2>2, <2>3, <2>4, OpsQuiet, Zenon
<1> QED  BY <1>2, <1>4
-----------------------------------------------------------------------------
(* A new claim has a token of its own. *)
LEMMA NewClaimInv ==
  ASSUME OpsIInv, NEW w \in Workers, Ops!Claim(w) PROVE OpsIInv'
<1>1. PICK j \in Ops!Oldest :
        /\ worker[w].pc = "idle"
        /\ job' = [job EXCEPT ![j] =
             [status |-> "running", attempts |-> job[j].attempts + 1, token |-> job[j].attempts + 1,
              leased |-> TRUE, due |-> job[j].due, result |-> job[j].result]]
        /\ worker' = [worker EXCEPT ![w] =
             [pc |-> "claimed", job |-> j, token |-> job[j].attempts + 1, model |-> Ops!First]]
        /\ UNCHANGED <<model, champion>>
  BY DEF Ops!Claim, Ops!At, Ops!Goes
<1>. DEFINE t == job[j].attempts + 1
            r == [status |-> "running", attempts |-> t, token |-> t, leased |-> TRUE,
                  due |-> job[j].due, result |-> job[j].result]
            s == [pc |-> "claimed", job |-> j, token |-> t, model |-> Ops!First]
<1>2. j \in Ops!Jobs /\ job[j] \in JobRows /\ job[j].attempts < MaxAttempts
  BY DEF Ops!Oldest, Ops!Claimable, OpsIInv, OpsTypes
<1>3. t \in 1 .. MaxAttempts /\ t > job[j].attempts
  BY <1>2, JobsAssumption DEF JobRows
<1>4. r \in JobRows /\ r.attempts = t /\ r.token = t
  BY <1>2, <1>3 DEF JobRows
<1>5. s \in ProcessStates /\ s.pc = "claimed" /\ s.job = j /\ s.token = t
  BY <1>2, <1>3, ModelsAre, JobsAssumption DEF ProcessStates, OpsPcs, Ops!Idle
<1>6. job' = [job EXCEPT ![j] = r] /\ worker' = [worker EXCEPT ![w] = s]
  BY <1>1
<1>. HIDE DEF r, s
<1>13. job'[j] = r /\ (\A i \in Ops!Jobs : i # j => job'[i] = job[i]) /\ job' \in [Ops!Jobs -> JobRows]
  BY <1>2, <1>4, <1>6 DEF OpsIInv, OpsTypes
<1>14. /\ worker'[w] = s /\ (\A v \in Workers : v # w => worker'[v] = worker[v])
       /\ worker' \in [Workers -> ProcessStates]
  BY <1>5, <1>6 DEF OpsIInv, OpsTypes
<1>15. OpsTypes'
  BY <1>1, <1>13, <1>14 DEF OpsIInv, OpsTypes
<1>16. Attempted'
  BY <1>4, <1>13 DEF OpsIInv, Attempted
<1>7. OpsTypes' /\ Attempted' /\ job'[j] = r /\ worker'[w] = s
      /\ (\A i \in Ops!Jobs : i # j => job'[i] = job[i])
      /\ (\A v \in Workers : v # w => worker'[v] = worker[v])
  BY <1>13, <1>14, <1>15, <1>16
<1>8. \A i \in Ops!Jobs : job[i].attempts \in Nat /\ job[i].attempts <= job'[i].attempts
  BY <1>2, <1>3, <1>4, <1>7 DEF OpsIInv, OpsTypes, JobRows
<1>9. ClaimsDiffer'
  <2>1. \A v \in Workers : v # w /\ worker[v].pc # "idle" => ClaimOf(worker[v])'
    <3> SUFFICES ASSUME NEW v \in Workers, v # w, worker[v].pc # "idle" PROVE ClaimOf(worker[v])'
      OBVIOUS
    <3>1. worker'[v] = worker[v] /\ ClaimOf(worker[v])
      BY <1>7 DEF OpsIInv, ClaimsDiffer
    <3>2. job[worker[v].job].attempts <= job'[worker[v].job].attempts
      BY <1>8, <3>1 DEF ClaimOf
    <3>3. job[worker[v].job].attempts \in Nat /\ job'[worker[v].job].attempts \in Nat
      BY <1>13, <3>1 DEF OpsIInv, OpsTypes, JobRows, ClaimOf
    <3> QED  BY <3>1, <3>2, <3>3 DEF ClaimOf
  <2>2. ClaimOf(worker[w])'
    BY <1>2, <1>3, <1>4, <1>5, <1>7 DEF ClaimOf
  <2>3. \A v \in Workers : v # w /\ worker[v].pc # "idle" /\ worker[v].job = j => worker[v].token # t
    <3>1. \A v \in Workers : worker[v].pc # "idle" /\ worker[v].job = j =>
            worker[v].token <= job[j].attempts /\ worker[v].token \in Nat
      BY DEF OpsIInv, ClaimsDiffer, ClaimOf
    <3>2. job[j].attempts \in Nat
      BY <1>8, <1>2
    <3> QED  BY <3>1, <3>2
  <2> QED  BY <1>5, <1>7, <2>1, <2>2, <2>3 DEF OpsIInv, ClaimsDiffer
<1>10. ModelsOwn'
  <2> SUFFICES ASSUME NEW v \in Workers, worker'[v].pc \in Trains
               PROVE  /\ worker'[v].job \in Training
                      /\ \E a \in worker'[v].token .. job'[worker'[v].job].attempts :
                           worker'[v].model = <<worker'[v].job, a>>
    BY DEF ModelsOwn
  <2>1. v # w /\ worker'[v] = worker[v]
    BY <1>5, <1>7 DEF Trains
  <2>2. PICK a \in worker[v].token .. job[worker[v].job].attempts :
          worker[v].model = <<worker[v].job, a>>
    BY <2>1 DEF OpsIInv, ModelsOwn
  <2>3. worker[v].job \in Training /\ worker[v].job \in Ops!Jobs
    BY <2>1 DEF OpsIInv, ModelsOwn, Ops!Jobs
  <2>4. worker[v].token \in Nat
    BY DEF OpsIInv, OpsTypes, ProcessStates
  <2>5. a \in worker[v].token .. job'[worker[v].job].attempts
    BY <1>8, <1>7, <2>2, <2>3, <2>4 DEF OpsTypes, JobRows
  <2> QED  BY <2>1, <2>2, <2>3, <2>5
<1>11. JudgedAttempted' /\ OneJudged'
  BY <1>1, <1>7, <1>8 DEF OpsIInv, JudgedAttempted, OneJudged, Judged, Ops!Jobs, OpsTypes, JobRows
<1>12. NoneBefore'
  <2> SUFFICES ASSUME NEW v \in Workers, worker'[v].pc \in Trains, Holder(v)'
               PROVE  \A a \in 1 .. MaxAttempts : ~Judged(<<worker[v].job, a>>)'
    BY DEF NoneBefore
  <2>1. v # w /\ worker'[v] = worker[v] /\ worker[v].pc \in Trains
    BY <1>5, <1>7 DEF Trains
  <2>2. worker[v].job # j
    <3>1. ClaimOf(worker[v])
      BY <2>1 DEF OpsIInv, ClaimsDiffer, Trains
    <3>2. worker[v].job = j => worker[v].token = t
      BY <1>4, <1>7, <2>1 DEF Holder
    <3>3. job[j].attempts \in Nat
      BY <1>8, <1>2
    <3> QED  BY <3>1, <3>2, <3>3 DEF ClaimOf
  <2>3. Holder(v) /\ worker[v].job \in Ops!Jobs
    BY <1>7, <2>1, <2>2 DEF Holder, OpsIInv, ClaimsDiffer, ClaimOf, Trains
  <2> QED  BY <1>1, <2>1, <2>3 DEF OpsIInv, NoneBefore, Judged
<1> QED  BY <1>7, <1>9, <1>10, <1>11, <1>12 DEF OpsIInv
LEMMA LeastNumber ==
  ASSUME NEW S \in SUBSET Nat, S # {}
  PROVE  \E m \in S : \A x \in S : m <= x
<1>1. PICK m \in S : \A x \in S : ~(<<x, m>> \in OpToRel(<, Nat))
  BY NatLessThanWellFounded, WFMin
<1>2. \A x \in S : m <= x
  <2> SUFFICES ASSUME NEW x \in S, x < m
               PROVE  FALSE
    OBVIOUS
  <2>1. <<x, m>> \in Nat \X Nat /\ <<x, m>>[1] < <<x, m>>[2]
    OBVIOUS
  <2>2. <<x, m>> \in OpToRel(<, Nat)
    BY <2>1, Zenon DEF OpToRel
  <2> QED  BY <1>1, <2>2
<1> QED  BY <1>2

(* Looking at the attempts so far changes no judged model, and who goes on  *)
(* to train has found none.                                                 *)
LEMMA ScanInv ==
  ASSUME OpsIInv, NEW w \in Workers, Ops!Scan(w) PROVE OpsIInv'
<1>. DEFINE j == worker[w].job
            n == job[j].attempts
            found == {m \in Ops!Attempts(j, n) : Ops!Reusable(m)}
<1>1. /\ worker[w].pc = "starting" /\ j \in Training /\ j \in Ops!Jobs
      /\ worker[w] \in ProcessStates /\ n \in 1 .. MaxAttempts
      /\ worker[w].token \in 1 .. n
  BY JobsAssumption
  DEF Ops!Scan, Ops!At, Ops!Jobs, OpsIInv, OpsTypes, ClaimsDiffer, ClaimOf, ProcessStates, JobRows
<1>2. UNCHANGED <<job, champion>> /\ model' \in [Ops!Models -> ModelStates]
      /\ \A m \in Ops!Models : model'[m] \in Ops!Published => model[m] \in Ops!Published
  BY DEF Ops!Scan, OpsIInv, OpsTypes, ModelStates, Ops!Published
<1>3. CASE found # {}
  <2>1. PICK m \in found : Ops!EndsWith(w, m)
    <3>. DEFINE first == CHOOSE m \in found : \A k \in found : m[2] <= k[2]
    <3>1. Ops!EndsWith(w, first)
      BY <1>3 DEF Ops!Scan
    <3>2. first \in found
      <4>. DEFINE numbers == {m[2] : m \in found}
      <4>1. numbers \subseteq Nat /\ numbers # {}
        BY <1>1, <1>3 DEF Ops!Attempts
      <4>2. PICK a \in numbers : \A b \in numbers : a <= b
        BY <4>1, LeastNumber
      <4>3. \E m \in found : \A k \in found : m[2] <= k[2]
        BY <4>2
      <4> QED  BY <4>3
    <3> QED  BY <3>1, <3>2
  <2>2. m \in Ops!Models
    BY <1>1, JobsAssumption DEF Ops!Attempts, Ops!Models
  <2>3. PICK pc \in {"succeeded", "failed"} :
          worker' = [worker EXCEPT ![w] = [worker[w] EXCEPT !.pc = pc, !.model = m]]
    BY <2>1 DEF Ops!EndsWith, Ops!Goes
  <2>. DEFINE t == [worker[w] EXCEPT !.pc = pc, !.model = m]
  <2>5. t \in ProcessStates /\ Follows(worker[w], t)
    BY <1>1, <2>2, Outcomes
  <2>6. worker' = [worker EXCEPT ![w] = t]
    BY <2>3
  <2>. HIDE DEF t
  <2>4. OpsTypes' /\ \A v \in Workers : Follows(worker[v], worker'[v])
    BY <1>2, <2>5, <2>6 DEF OpsIInv, OpsTypes, Follows
  <2> QED  BY <1>2, <2>4, OpsQuiet
<1>4. CASE found = {}
  <2>. DEFINE s == [worker[w] EXCEPT !.pc = "registering", !.model = <<j, n>>]
  <2>1. worker' = [worker EXCEPT ![w] = s]
    BY <1>4 DEF Ops!Scan, Ops!Goes
  <2>2. s \in ProcessStates /\ s.pc = "registering" /\ s.job = j /\ s.token = worker[w].token
        /\ s.model = <<j, n>>
    BY <1>1, ModelsAre DEF ProcessStates, OpsPcs, Ops!Executing
  <2>. HIDE DEF s
  <2>3. OpsTypes' /\ worker'[w] = s /\ \A v \in Workers : v # w => worker'[v] = worker[v]
    BY <1>2, <2>1, <2>2 DEF OpsIInv, OpsTypes
  <2>4. \A a \in 1 .. n : ~Judged(<<j, a>>)
    BY <1>4 DEF Ops!Attempts, Ops!Reusable, Judged
  <2>5. \A a \in 1 .. MaxAttempts : ~Judged(<<j, a>>)
    BY <1>1, <2>4 DEF OpsIInv, JudgedAttempted
  <2>6. \A i \in Training : \A a \in 1 .. MaxAttempts : Judged(<<i, a>>)' => Judged(<<i, a>>)
    BY <1>2, ModelsAre DEF Judged
  <2>7. Attempted' /\ JudgedAttempted' /\ OneJudged'
    BY <1>2, <2>6 DEF OpsIInv, Attempted, JudgedAttempted, OneJudged
  <2>8. ClaimsDiffer'
    BY <1>1, <1>2, <2>2, <2>3 DEF OpsIInv, ClaimsDiffer, ClaimOf
  <2>9. ModelsOwn'
    BY <1>1, <1>2, <2>2, <2>3 DEF OpsIInv, ModelsOwn
  <2>10. NoneBefore'
    BY <1>1, <1>2, <2>2, <2>3, <2>5, <2>6 DEF OpsIInv, ModelsOwn, NoneBefore, Holder
  <2> QED  BY <2>3, <2>7, <2>8, <2>9, <2>10 DEF OpsIInv
<1> QED  BY <1>3, <1>4

(* A model is judged by the one who holds the claim of its job. *)
LEMMA JudgeInv ==
  ASSUME OpsIInv, NEW w \in Workers, worker[w].pc \in Trains, Holder(w),
         NEW status \in Ops!Published, NEW pc \in {"succeeded", "failed"},
         worker' = [worker EXCEPT ![w] = [worker[w] EXCEPT !.pc = pc]],
         Ops!SetModel(w, status), UNCHANGED <<job, champion>>
  PROVE  OpsIInv'
<1>. DEFINE s == [worker[w] EXCEPT !.pc = pc]
            j == worker[w].job
            n == job[j].attempts
<1>1. worker[w] \in ProcessStates /\ j \in Training /\ j \in Ops!Jobs /\ worker[w].pc # "idle"
  BY DEF OpsIInv, OpsTypes, ModelsOwn, Trains, Ops!Jobs
<1>2. n \in 1 .. MaxAttempts /\ worker[w].token = n /\ worker[w].model = <<j, n>>
  <2>1. n \in Nat /\ n <= MaxAttempts /\ worker[w].token = n /\ n # 0
    BY <1>1, JobsAssumption
    DEF Holder, OpsIInv, OpsTypes, JobRows, Attempted, ClaimsDiffer, ClaimOf
  <2>2. PICK a \in n .. n : worker[w].model = <<j, a>>
    BY <2>1 DEF OpsIInv, ModelsOwn
  <2> QED  BY <2>1, <2>2, JobsAssumption
<1>3. s \in ProcessStates /\ s.pc = pc /\ s.job = j /\ s.token = n
  BY <1>1, <1>2 DEF ProcessStates, OpsPcs
<1>. HIDE DEF s
<1>4. OpsTypes' /\ worker'[w] = s /\ \A v \in Workers : v # w => worker'[v] = worker[v]
  BY <1>3 DEF OpsIInv, OpsTypes, Ops!SetModel, s, ModelStates
<1>5. \A i \in Training : \A a \in 1 .. MaxAttempts :
        Judged(<<i, a>>)' => Judged(<<i, a>>) \/ (i = j /\ a = n)
  BY <1>2, ModelsAre DEF Judged, Ops!SetModel, OpsIInv, OpsTypes
<1>6. \A a \in 1 .. MaxAttempts : ~Judged(<<j, a>>)
  BY DEF OpsIInv, NoneBefore
<1>7. Attempted' /\ JudgedAttempted' /\ OneJudged'
  BY <1>2, <1>5, <1>6 DEF OpsIInv, Attempted, JudgedAttempted, OneJudged
<1>8. ClaimsDiffer'
  BY <1>1, <1>2, <1>3, <1>4 DEF OpsIInv, ClaimsDiffer, ClaimOf
<1>9. ModelsOwn'
  BY <1>3, <1>4 DEF OpsIInv, ModelsOwn, Trains
<1>10. NoneBefore'
  <2> SUFFICES ASSUME NEW v \in Workers, worker'[v].pc \in Trains, Holder(v)',
                      NEW a \in 1 .. MaxAttempts
               PROVE  ~Judged(<<worker[v].job, a>>)'
    BY DEF NoneBefore
  <2>1. v # w /\ worker'[v] = worker[v] /\ worker[v].job \in Training /\ worker[v].pc \in Trains
    BY <1>3, <1>4 DEF Trains, OpsIInv, ModelsOwn
  <2>2. Holder(v)
    BY <2>1 DEF Holder
  <2>3. worker[v].job # j
    BY <1>1, <2>1, <2>2 DEF Holder, OpsIInv, ClaimsDiffer, Trains
  <2>4. ~Judged(<<worker[v].job, a>>)
    BY <2>1, <2>2 DEF OpsIInv, NoneBefore
  <2> QED  BY <1>5, <2>1, <2>3, <2>4
<1> QED  BY <1>4, <1>7, <1>8, <1>9, <1>10 DEF OpsIInv
LEMMA TrainsInv ==
  ASSUME OpsIInv, NEW w \in Workers, Ops!Register(w) \/ Ops!Evaluate(w) \/ Ops!Publish(w)
  PROVE  OpsIInv'
<1>1. worker[w] \in ProcessStates /\ worker[w].pc \in Trains /\ UNCHANGED <<job, champion>>
  BY DEF OpsIInv, OpsTypes, Ops!Register, Ops!Evaluate, Ops!Publish, Ops!At, Trains
<1>2. Ops!Guard(w) => Holder(w)
  BY DEF Ops!Guard, Holder
<1>3. CASE Ops!Ends(w, "failed") /\ UNCHANGED model
  BY <1>1, <1>3, OpsEnds DEF Trains
<1>4. ASSUME NEW status \in Ops!Published, Ops!Guard(w), Ops!SetModel(w, status),
             Ops!Ends(w, "succeeded")
      PROVE  OpsIInv'
  <2>1. PICK pc \in {"succeeded", "failed"} : worker' = [worker EXCEPT ![w] = [worker[w] EXCEPT !.pc = pc]]
    BY <1>4 DEF Ops!Ends, Ops!Goes
  <2> QED  BY <1>1, <1>2, <1>4, <2>1, JudgeInv
<1>5. ASSUME NEW status \in {"registering", "evaluated"}, NEW pc \in {"evaluating", "publishing"},
             Ops!SetModel(w, status), Ops!Goes(w, [worker[w] EXCEPT !.pc = pc])
      PROVE  OpsIInv'
  <2>. DEFINE s == [worker[w] EXCEPT !.pc = pc]
  <2>1. s \in ProcessStates /\ Follows(worker[w], s)
    BY <1>1 DEF ProcessStates, OpsPcs, Ops!Executing, Follows, Trains
  <2>2. worker' = [worker EXCEPT ![w] = s]
    BY <1>5 DEF Ops!Goes
  <2>. HIDE DEF s
  <2>3. /\ model' \in [Ops!Models -> ModelStates]
        /\ \A m \in Ops!Models : model'[m] \in Ops!Published => model[m] \in Ops!Published
    BY <1>5 DEF Ops!SetModel, OpsIInv, OpsTypes, ModelStates, Ops!Published
  <2>4. OpsTypes' /\ \A v \in Workers : Follows(worker[v], worker'[v])
    BY <1>1, <2>1, <2>2, <2>3 DEF OpsIInv, OpsTypes, Follows
  <2> QED  BY <1>1, <2>3, <2>4, OpsQuiet
<1>6. CASE Ops!Register(w)
  BY <1>3, <1>5, <1>6 DEF Ops!Register
<1>7. CASE Ops!Evaluate(w)
  BY <1>3, <1>4, <1>5, <1>7 DEF Ops!Evaluate, Ops!Published
<1>8. CASE Ops!Publish(w)
  BY <1>3, <1>4, <1>8 DEF Ops!Publish, Ops!Published
<1> QED  BY <1>6, <1>7, <1>8

LEMMA OpsNext == OpsIInv /\ [Ops!Next]_(Ops!opsVars) => OpsIInv'
<1> SUFFICES ASSUME OpsIInv, [Ops!Next]_(Ops!opsVars) PROVE OpsIInv'
  OBVIOUS
<1>1. CASE UNCHANGED Ops!opsVars
  BY <1>1, Zenon
  DEF Ops!opsVars, OpsIInv, OpsTypes, Attempted, ClaimsDiffer, ClaimOf, ModelsOwn, JudgedAttempted,
      NoneBefore, OneJudged, Judged, Holder
<1>2. CASE \E w \in Workers : Ops!Claim(w) \/ Ops!Works(w) \/ Ops!Raises(w) \/ Ops!Crash(w)
  BY <1>2, NewClaimInv, TakeLockInv, ScanInv, TrainsInv, ReadChampionInv, StoreInv, FinishInv
  DEF Ops!Works
<1> QED  BY <1>1, <1>2, OpsWorldInv DEF Ops!Next

LEMMA OpsSteps ==
  OpsIInv /\ [Ops!Next]_(Ops!opsVars) =>
    [/\ \A f \in forecasts' \ forecasts : f[1] = champion /\ job[f[2]].status = "running"
     /\ \A m \in Ops!Models : model'[m] \in Ops!Published \ {model[m], "champion"} =>
          job[m[1]].status = "running"]_(Ops!opsVars)
<1> SUFFICES ASSUME OpsIInv, Ops!Next
             PROVE  /\ \A f \in forecasts' \ forecasts : f[1] = champion /\ job[f[2]].status = "running"
                    /\ \A m \in Ops!Models : model'[m] \in Ops!Published \ {model[m], "champion"} =>
                         job[m[1]].status = "running"
  OBVIOUS
<1>1. CASE \E w \in Workers : Ops!Store(w)
  BY <1>1 DEF Ops!Store, Ops!Guard, Ops!Pinned
<1>2. CASE \E w \in Workers : Ops!Register(w) \/ Ops!Evaluate(w) \/ Ops!Publish(w)
  <2>1. PICK w \in Workers : Ops!Register(w) \/ Ops!Evaluate(w) \/ Ops!Publish(w)
    BY <1>2
  <2>2. UNCHANGED forecasts
    BY <2>1 DEF Ops!Register, Ops!Evaluate, Ops!Publish
  <2>3. worker[w].pc \in Trains
    BY <2>1 DEF Ops!Register, Ops!Evaluate, Ops!Publish, Ops!At, Trains
  <2>4. worker[w].model[1] = worker[w].job
    BY <2>3 DEF OpsIInv, ModelsOwn
  <2>5. \A m \in Ops!Models : model'[m] \in Ops!Published \ {model[m]} =>
          m = worker[w].model /\ Ops!Guard(w)
    BY <2>1 DEF Ops!Register, Ops!Evaluate, Ops!Publish, Ops!SetModel, OpsIInv, OpsTypes, Ops!Published
  <2> QED  BY <2>2, <2>4, <2>5 DEF Ops!Guard
<1>3. CASE \E m \in Ops!Models : Ops!Promote(m)
  BY <1>3 DEF Ops!Promote, OpsIInv, OpsTypes
<1>4. CASE \E w \in Workers : Ops!Scan(w)
  BY <1>4 DEF Ops!Scan, OpsIInv, OpsTypes, Ops!Published
<1>5. CASE UNCHANGED <<model, forecasts>>
  BY <1>5
<1>6. \/ \E w \in Workers : Ops!Store(w) \/ Ops!Register(w) \/ Ops!Evaluate(w) \/ Ops!Publish(w) \/ Ops!Scan(w)
      \/ \E m \in Ops!Models : Ops!Promote(m)
      \/ UNCHANGED <<model, forecasts>>
  BY DEF Ops!Next, Ops!Works, Ops!Enqueue, Ops!Passes, Ops!Late, Ops!Unrenewed, Ops!Waited,
         Ops!LeaseRunsOut, Ops!Claim, Ops!TakeLock, Ops!ReadChampion, Ops!Finish, Ops!Renew,
         Ops!Raises, Ops!Crash, Ops!LoseLock
<1> QED  BY <1>1, <1>2, <1>3, <1>4, <1>5, <1>6

(* One attempt of a training job at most becomes a model that was judged,   *)
(* and neither models nor forecasts appear for a job that is over, for any  *)
(* number of jobs, processes, attempts and faults.                          *)
THEOREM OneModelPerJobCorrect == Ops!Spec => OneModelPerJob
<1>. DEFINE One == \A j \in Training :
                     Ops!Cardinality({m \in Ops!Models : m[1] = j /\ model[m] \in Ops!Published}) <= 1
<1>3. \A S : Ops!Cardinality(S) = Cardinality(S)
  BY Zenon DEF Ops!Cardinality, Cardinality
<1>1. OpsIInv => One
  <2> SUFFICES ASSUME OpsIInv, NEW j \in Training
               PROVE  Cardinality({m \in Ops!Models : m[1] = j /\ model[m] \in Ops!Published}) <= 1
    BY <1>3
  <2>. DEFINE J == {m \in Ops!Models : m[1] = j /\ model[m] \in Ops!Published}
  <2>1. \A m, n \in J : m = n
    BY ModelsAre DEF OpsIInv, OneJudged, Judged
  <2>. HIDE DEF J
  <2>2. CASE J = {}
    BY <2>2, FS_EmptySet DEF J
  <2>3. CASE J # {}
    <3>1. PICK m \in J : J = {m}
      BY <2>1, <2>3
    <3>2. Cardinality(J) = 1
      BY <3>1, FS_Singleton
    <3> QED  BY <3>2 DEF J
  <2> QED  BY <2>2, <2>3
<1> QED  BY <1>1, OpsInit, OpsNext, OpsSteps, PTL
         DEF Ops!Spec, OneModelPerJob, Ops!OneModelPerJob
=============================================================================
