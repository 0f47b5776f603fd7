------------------------------ MODULE Evolution ------------------------------
(***************************************************************************)
(* One Challenger program of services/evolution.py.  At the close of every *)
(* session a signal commitment is made; when the next session has been     *)
(* materialised it is settled into an observation.  Enough good            *)
(* observations lead from simulation to shadow to eligible, and an         *)
(* eligible model may be promoted; a missed day or poor results degrade    *)
(* the program, a blocked day pauses it.                                   *)
(*                                                                         *)
(* The job of the scheduler (process_due_programs) and the two routes of   *)
(* an administrator call the same functions.  Each transaction, and each   *)
(* read made outside of one, is an action.  A commit or a settlement holds *)
(* the claim of the program, a lease of ten minutes, while it works.       *)
(*                                                                         *)
(* Days are counted from the enrolment.  The claim token is the caller's   *)
(* name, since a call compares it only after it has claimed; the age of    *)
(* claim_started_at is one bit (fresh); a portfolio is the number of the   *)
(* settlements behind it.  Prices, forecasts and statistics are reduced to *)
(* good and bad days; that evidence changed since, or cannot be read, is a *)
(* fault.                                                                  *)
(*                                                                         *)
(* AnyLabel, NothingMissed and AnyPath are faulty variants of the          *)
(* definition after each; the specification does not use them.             *)
(***************************************************************************)
EXTENDS Naturals, Sequences, FiniteSets

CONSTANTS
  Schedulers,  \* threads that run the daily job
  Admins,      \* administrators' requests
  SimDays,     \* SIMULATION_SESSIONS
  ShadowDays,  \* SHADOW_SESSIONS
  MinSample,   \* observations before poor results count
  LastDay,     \* bound: the last day that is materialised
  MaxFaults    \* bound: crashes, outlived leases and unusable evidence

ASSUME DaysAssumption ==
  /\ SimDays \in Nat \ {0} /\ ShadowDays \in Nat \ {0} /\ MinSample \in Nat \ {0}
  /\ LastDay \in Nat /\ MaxFaults \in Nat
ASSUME ActorsAssumption == Schedulers \cap Admins = {} /\ "none" \notin Schedulers \cup Admins

Actors == Schedulers \cup Admins
Days   == 0 .. LastDay
None   == "none"

VARIABLES
  stage,       \* of the program
  last,        \* last_signal_date, as the number of days committed to
  claim, fresh,
  committed,   \* signal date -> commitment
  observed,    \* signal date -> observation of its commitment
  chain,       \* the transitions of the program
  latest,      \* the last materialised day
  actor,       \* the local state of each actor
  promoted,    \* the model became Champion
  faults

program == <<stage, last, claim, fresh, committed, observed, chain>>
vars    == <<stage, last, claim, fresh, committed, observed, chain,
             latest, actor, promoted, faults>>

Active == {"simulation", "shadow"}
Ended  == {"degraded", "paused", "eligible"}

NoCommitment == [stage |-> None, at |-> 0, book |-> 0]
Idle == [pc |-> "idle", day |-> 0, seen |-> 0, stage |-> None, at |-> 0, book |-> 0]

Committed == {d \in Days : committed[d] # NoCommitment}
Settled   == {d \in Days : observed[d] # None}
Of(s)     == {d \in Settled : committed[d].stage = s}
Book      == Cardinality(Settled)

Fault == faults < MaxFaults /\ faults' = faults + 1
Goto(a, pc) == actor' = [actor EXCEPT ![a].pc = pc]
Stop(a)     == actor' = [actor EXCEPT ![a] = Idle]

(* A ValueError pauses the program when the job of the scheduler meets it; *)
(* EvolutionConflictError skips it; any other error ends the job, or the   *)
(* request.                                                                *)
Raise(a, error) ==
  IF a \in Schedulers /\ error = "value" THEN Goto(a, "pause") ELSE Stop(a)

Transition(to) == stage' = to /\ chain' = Append(chain, <<stage, to>>)
-----------------------------------------------------------------------------
(* The state enroll leaves behind. *)
Init ==
  /\ stage = "simulation" /\ last = 0 /\ claim = None /\ fresh = FALSE
  /\ committed = [d \in Days |-> NoCommitment]
  /\ observed = [d \in Days |-> None]
  /\ chain = <<<<"simulation", "simulation">>>>
  /\ latest = 0 /\ promoted = FALSE /\ faults = 0
  /\ actor = [a \in Actors |-> Idle]

NextDay ==
  /\ latest < LastDay /\ latest' = latest + 1
  /\ UNCHANGED <<program, actor, promoted, faults>>

(* _claim, for a call that goes on at pc. *)
Claim(a, from, pc) ==
  /\ actor[a].pc = from
  /\ \/ /\ stage \in Active /\ (claim = None \/ ~fresh)
        /\ claim' = a /\ fresh' = TRUE
        /\ actor' = [actor EXCEPT ![a].pc = pc, ![a].stage = stage, ![a].book = Book]
     \/ /\ stage \notin Active /\ Raise(a, "value") /\ UNCHANGED <<claim, fresh>>
     \/ /\ stage \in Active /\ claim # None /\ fresh
        /\ Raise(a, "conflict") /\ UNCHANGED <<claim, fresh>>
  /\ UNCHANGED <<stage, last, committed, observed, chain, latest, promoted, faults>>

Owns(a) == claim = a
Released == claim' = None /\ fresh' = FALSE

(* Work under the claim failed: give the claim back, unless it was lost,   *)
(* and raise.                                                              *)
Abandon(a) ==
  /\ actor[a].pc \in {"failed value", "failed other"}
  /\ IF Owns(a) THEN Released ELSE UNCHANGED <<claim, fresh>>
  /\ Raise(a, IF actor[a].pc = "failed value" THEN "value" ELSE "other")
  /\ UNCHANGED <<stage, last, committed, observed, chain, latest, promoted, faults>>

EvidenceUnusable(a) ==
  /\ actor[a].pc \in {"sign", "check label"} /\ Fault
  /\ Goto(a, "failed value")
  /\ UNCHANGED <<program, latest, promoted>>
-----------------------------------------------------------------------------
(* commit_signal *)
CommitCall(a) ==
  /\ actor[a].pc = "commit"
  /\ IF committed[actor[a].day] # NoCommitment THEN Stop(a) ELSE Goto(a, "claim commit")
  /\ UNCHANGED <<program, latest, promoted, faults>>

MayCommit(d) == d = last /\ d = latest /\ Committed \subseteq Settled

CommitRead(a) ==
  /\ actor[a].pc = "read commit"
  /\ Goto(a, IF MayCommit(actor[a].day) THEN "sign" ELSE "failed value")
  /\ UNCHANGED <<program, latest, promoted, faults>>

(* The evidence is read and the time of the commitment taken. *)
CommitSign(a) ==
  /\ actor[a].pc = "sign"
  /\ actor' = [actor EXCEPT ![a].pc = "write commit", ![a].at = latest]
  /\ UNCHANGED <<program, latest, promoted, faults>>

CommitWrite(a) ==
  LET d == actor[a].day IN
  /\ actor[a].pc = "write commit"
  /\ \/ /\ ~Owns(a) /\ Goto(a, "failed other") /\ UNCHANGED program
     \/ /\ Owns(a) /\ d < last /\ Goto(a, "failed value") /\ UNCHANGED program
     \/ /\ Owns(a) /\ d >= last
        /\ committed' = [committed EXCEPT ![d] =
                           [stage |-> stage, at |-> actor[a].at, book |-> actor[a].book]]
        /\ last' = d + 1
        /\ Released /\ Stop(a)
        /\ UNCHANGED <<stage, observed, chain>>
  /\ UNCHANGED <<latest, promoted, faults>>
-----------------------------------------------------------------------------
(* evaluate_day *)
AfterEvaluate(a) == IF a \in Schedulers THEN Goto(a, "reread") ELSE Stop(a)

EvaluateCall(a) ==
  /\ actor[a].pc = "evaluate"
  /\ IF observed[actor[a].day] # None THEN AfterEvaluate(a) ELSE Goto(a, "claim evaluate")
  /\ UNCHANGED <<program, latest, promoted, faults>>

EvaluateRead(a) ==
  LET d == actor[a].day IN
  /\ actor[a].pc = "read evaluate"
  /\ Goto(a, CASE d \notin Committed                    -> "failed value"
               [] observed[d] # None                    -> "settled"
               [] committed[d].stage # actor[a].stage   -> "failed value"
               [] OTHER                                 -> "check label")
  /\ UNCHANGED <<program, latest, promoted, faults>>

AlreadySettled(a) ==
  /\ actor[a].pc = "settled"
  /\ \/ /\ Owns(a) /\ Released /\ AfterEvaluate(a)
     \/ /\ ~Owns(a) /\ Goto(a, "failed other") /\ UNCHANGED <<claim, fresh>>
  /\ UNCHANGED <<stage, last, committed, observed, chain, latest, promoted, faults>>

(* Only the latest day is settled, and only a commitment that was made     *)
(* before that day was materialised.                                       *)
AnyLabel(d) == latest = d + 1
MaySettle(d) == latest = d + 1 /\ committed[d].at <= d

EvaluateCheck(a) ==
  /\ actor[a].pc = "check label"
  /\ Goto(a, IF MaySettle(actor[a].day) THEN "write evaluate" ELSE "failed value")
  /\ UNCHANGED <<program, latest, promoted, faults>>

(* The metrics of a stage, from its good and bad days. *)
Passes(results) == results = {"good"}
Poor(number, results) == number >= MinSample /\ results = {"bad"}
Minimum(s) == IF s = "simulation" THEN SimDays ELSE ShadowDays
Promotion(s) == IF s = "simulation" THEN "shadow" ELSE "eligible"

Settle(a, d, result) ==
  LET days    == Of(actor[a].stage) \cup {d}
      results == {observed[x] : x \in days \ {d}} \cup {result}
  IN  /\ observed' = [observed EXCEPT ![d] = result]
      /\ last' = d + 1
      /\ \/ Poor(Cardinality(days), results) /\ Transition("degraded")
         \/ /\ ~Poor(Cardinality(days), results)
            /\ Cardinality(days) = Minimum(actor[a].stage)
            /\ Transition(IF Passes(results) THEN Promotion(actor[a].stage) ELSE "degraded")
         \/ /\ ~Poor(Cardinality(days), results)
            /\ Cardinality(days) # Minimum(actor[a].stage)
            /\ UNCHANGED <<stage, chain>>
      /\ Released /\ UNCHANGED committed

EvaluateWrite(a, result) ==
  LET d == actor[a].day IN
  /\ actor[a].pc = "write evaluate"
  /\ \/ ~Owns(a) /\ Goto(a, "failed other") /\ UNCHANGED program
     \/ /\ Owns(a) /\ committed[d].book # Book
        /\ Goto(a, "failed value") /\ UNCHANGED program
     \/ Owns(a) /\ committed[d].book = Book /\ Settle(a, d, result) /\ AfterEvaluate(a)
  /\ UNCHANGED <<latest, promoted, faults>>
-----------------------------------------------------------------------------
(* process_due_programs *)
List(a) ==
  /\ a \in Schedulers /\ actor[a].pc = "idle" /\ stage \in Active
  /\ actor' = [actor EXCEPT ![a].pc = "listed", ![a].seen = latest]
  /\ UNCHANGED <<program, latest, promoted, faults>>

FindUnsettled(a) ==
  LET due == {d \in Committed \ Settled : d + 1 = actor[a].seen} IN
  /\ actor[a].pc = "listed"
  /\ \/ due = {} /\ Goto(a, "reread")
     \/ \E d \in due : actor' = [actor EXCEPT ![a].pc = "evaluate", ![a].day = d]
  /\ UNCHANGED <<program, latest, promoted, faults>>

NothingMissed(a) == FALSE
Missed(a) == last < actor[a].seen

Reread(a) ==
  /\ actor[a].pc = "reread"
  /\ \/ stage \notin Active /\ Stop(a)
     \/ stage \in Active /\ Missed(a) /\ Goto(a, "degrade")
     \/ /\ stage \in Active /\ ~Missed(a) /\ last = actor[a].seen
        /\ actor' = [actor EXCEPT ![a].pc = "commit", ![a].day = actor[a].seen]
     \/ stage \in Active /\ ~Missed(a) /\ last # actor[a].seen /\ Stop(a)
  /\ UNCHANGED <<program, latest, promoted, faults>>

(* Whatever the stage has become since it was read. *)
Degrade(a) ==
  /\ actor[a].pc = "degrade" /\ Transition("degraded") /\ Stop(a)
  /\ UNCHANGED <<last, claim, fresh, committed, observed, latest, promoted, faults>>

Pause(a) ==
  /\ actor[a].pc = "pause"
  /\ IF stage \in Active THEN Transition("paused") ELSE UNCHANGED <<stage, chain>>
  /\ Stop(a)
  /\ UNCHANGED <<last, claim, fresh, committed, observed, latest, promoted, faults>>
-----------------------------------------------------------------------------
Request(a, d) ==
  /\ a \in Admins /\ actor[a].pc = "idle" /\ d <= latest
  /\ \E call \in {"commit", "evaluate"} :
       actor' = [actor EXCEPT ![a].pc = call, ![a].day = d]
  /\ UNCHANGED <<program, latest, promoted, faults>>

(* verify_promotion_eligibility, from the rows and not from the counters. *)
AnyPath == TRUE
StraightPath == chain = <<<<"simulation", "simulation">>, <<"simulation", "shadow">>,
                          <<"shadow", "eligible">>>>
Verified ==
  /\ stage = "eligible"
  /\ Cardinality(Of("simulation")) = SimDays /\ Cardinality(Of("shadow")) = ShadowDays
  /\ Committed = 0 .. SimDays + ShadowDays - 1 /\ Committed = Settled
  /\ \A d \in Committed : /\ committed[d].stage = IF d < SimDays THEN "simulation" ELSE "shadow"
                          /\ committed[d].at <= d
  /\ \A s \in Active : Passes({observed[d] : d \in Of(s)})
  /\ StraightPath

Promote ==
  /\ Verified /\ ~promoted /\ promoted' = TRUE
  /\ UNCHANGED <<program, latest, actor, faults>>

Working == {"read commit", "sign", "write commit", "read evaluate", "settled",
            "check label", "write evaluate", "failed value", "failed other"}

(* A claim runs out when its holder died, or is too slow. *)
LeaseRunsOut ==
  /\ claim # None /\ fresh /\ fresh' = FALSE
  /\ IF actor[claim].pc \in Working THEN Fault ELSE UNCHANGED faults
  /\ UNCHANGED <<stage, last, claim, committed, observed, chain, latest, actor, promoted>>

Crash(a) ==
  /\ actor[a].pc # "idle" /\ Fault /\ Stop(a)
  /\ UNCHANGED <<program, latest, promoted>>

Continues(a) ==
  \/ Claim(a, "claim commit", "read commit") \/ CommitCall(a) \/ CommitRead(a)
  \/ CommitSign(a) \/ CommitWrite(a)
  \/ Claim(a, "claim evaluate", "read evaluate") \/ EvaluateCall(a) \/ EvaluateRead(a)
  \/ AlreadySettled(a) \/ EvaluateCheck(a) \/ \E r \in {"good", "bad"} : EvaluateWrite(a, r)
  \/ Abandon(a) \/ FindUnsettled(a) \/ Reread(a) \/ Degrade(a) \/ Pause(a)

Next ==
  \/ NextDay \/ Promote \/ LeaseRunsOut
  \/ \E a \in Actors : \/ List(a) \/ Continues(a) \/ EvidenceUnusable(a) \/ Crash(a)
                       \/ \E d \in Days : Request(a, d)

Spec == Init /\ [][Next]_vars

(* Calls go on unless their process dies, abandoned leases run out, and    *)
(* the scheduler starts the job again every day.                           *)
Fairness ==
  /\ WF_vars(LeaseRunsOut /\ UNCHANGED faults)
  /\ \A a \in Actors : WF_vars(Continues(a))
  /\ \A a \in Schedulers : WF_vars(List(a))

FairSpec == Spec /\ Fairness
-----------------------------------------------------------------------------
(* The types; exactly the holder of the claim of a program has its name    *)
(* there.                                                                  *)
TypeOK ==
  /\ stage \in Active \cup Ended
  /\ last \in 0 .. LastDay + 1 /\ latest \in Days
  /\ claim \in Actors \cup {None} /\ fresh \in BOOLEAN
  /\ claim = None => ~fresh
  /\ committed \in [Days -> [stage : Active \cup Ended \cup {None}, at : Days, book : Nat]]
  /\ observed \in [Days -> {None, "good", "bad"}]
  /\ promoted \in BOOLEAN /\ faults \in 0 .. MaxFaults

(* Commitments are made day by day without a gap, last_signal_date is the  *)
(* last of them, and each was settled before the next was made: only the   *)
(* last may still be open (commit_signal, evaluate_day).                   *)
SettledInOrder ==
  /\ Committed = 0 .. last - 1
  /\ Settled \subseteq Committed
  /\ Committed \ Settled \subseteq {last - 1}

(* No observation rests on a commitment whose evidence was read after the  *)
(* day it predicts had been materialised, and each was settled from the    *)
(* portfolio it was decided on.                                            *)
NoHindsight ==
  \A d \in Settled : committed[d].at <= d /\ committed[d].book = d

(* Every observation a program is judged by was predicted, one day at a    *)
(* time, before it could be known.                                         *)
PredictedBeforeKnown == SettledInOrder /\ NoHindsight

(* A model becomes Champion only while its program has never stopped: it   *)
(* served all of its days, one after the other, however late settlements   *)
(* and degradations interleave.  (Afterwards the job may still degrade the *)
(* program: it had read the stage before.)                                 *)
PromotedByTheBook ==
  [][promoted' # promoted =>
       /\ \A i \in DOMAIN chain : chain[i][2] \notin {"degraded", "paused"}
       /\ Settled = 0 .. SimDays + ShadowDays - 1
       /\ Cardinality(Of("simulation")) = SimDays]_vars

(* A program that missed the commitment of a day does not stay active for  *)
(* good, although a settlement that comes late may revive it for a while   *)
(* (process_due_programs).                                                 *)
MissedEndsProgram == (stage \in Active /\ last < latest) ~> (stage \in Ended \/ last >= latest)

=============================================================================
