------------------------- MODULE BacktestJobsProofs -------------------------
(***************************************************************************)
(* The promises of the job queue for any number of users, jobs, requests,  *)
(* workers, crashes and stalls, and of the daily universe that backtests   *)
(* read for any number of instruments, days, builders and runs.            *)
(*                                                                         *)
(* The inductive invariant of the queue is about claims: tokens are never  *)
(* shared, so at most one worker holds the claim of a job, and whoever     *)
(* holds it finds the job running, or cancelled by a later claim after its *)
(* lease ran out.                                                          *)
(*                                                                         *)
(* The matching of a backtest folds over the orders of a bar and over the  *)
(* intents that wait; each fold is followed element by element.            *)
(***************************************************************************)
EXTENDS MCBacktests, UniverseSnapshots, Sequences, FiniteSetTheorems, WellFoundedInduction, TLAPS

Holder(w) == Busy(w) /\ HoldsClaim(w)

TokensInv ==
  /\ \A j \in JobIds : jobs[j].token <= claims
  /\ \A w \in Workers : Busy(w) => 1 <= worker[w].token /\ worker[w].token <= claims
  /\ \A w, v \in Workers :
       Busy(w) /\ Busy(v) /\ worker[w].token = worker[v].token => w = v

(* What the holder of a claim finds: only full_a jobs are saved with a run *)
(* and only grid jobs are completed by _finish.                            *)
HolderOK(w) ==
  /\ Job(w).status = "running" \/ (Job(w).status = "cancelled" /\ Job(w).cancel)
  /\ worker[w].pc = "finish" /\ worker[w].outcome = "completed" => Job(w).kind = "grid"
  /\ worker[w].pc \in {"computed", "save"} => Job(w).kind = "full_a"

HolderInv == \A w \in Workers : Holder(w) => HolderOK(w)

OutcomeInv ==
  \A w \in Workers : worker[w].pc = "finish" => worker[w].outcome \in Ended

CancelInv == \A j \in JobIds : jobs[j].cancel => jobs[j].status \in {"running", "cancelled"}

FullA(j, u) ==
  jobs[j].user = u /\ jobs[j].kind = "full_a" /\ jobs[j].status \in ActiveStatus

UniqueInv ==
  \A u \in Users : \A j, k \in JobIds : FullA(j, u) /\ FullA(k, u) => j = k

IInv ==
  TypeOK /\ RunsMatchJobs /\ TokensInv /\ HolderInv /\ OutcomeInv /\ CancelInv /\ UniqueInv

USE DEF ActiveStatus, Ended
-----------------------------------------------------------------------------
LEMMA InitIInv == Init => IInv
<1> SUFFICES ASSUME Init
             PROVE  IInv
  OBVIOUS
<1>1. /\ jobs = [j \in JobIds |-> NoJob] /\ runs = {} /\ deleted = {}
      /\ request = [r \in Requests |-> None] /\ worker = [w \in Workers |-> Idle]
      /\ claims = 0 /\ stalls = 0 /\ crashes = 0
  BY DEF Init
<1>2. NoJob \in JobRows /\ Idle \in LocalStates
  BY DEF NoJob, JobRows, Idle, LocalStates, Statuses, Kinds
<1>3. \A w \in Workers : ~Busy(w) /\ worker[w].pc # "finish"
  BY <1>1 DEF Busy, Idle
<1>4. \A j \in JobIds : /\ jobs[j].status = "none" /\ ~jobs[j].cancel
                        /\ jobs[j].token = 0 /\ jobs[j].user = None
  BY <1>1 DEF NoJob
<1>5. TypeOK
  BY <1>1, <1>2, <1>3, <1>4, BoundsAssumption, NoneAssumption DEF TypeOK, None
<1>6. RunsMatchJobs
  BY <1>1, <1>4 DEF RunsMatchJobs
<1>7. TokensInv /\ HolderInv /\ OutcomeInv
  BY <1>1, <1>3, <1>4 DEF TokensInv, HolderInv, OutcomeInv, Holder
<1>8. CancelInv /\ UniqueInv
  BY <1>4 DEF CancelInv, UniqueInv, FullA
<1>9. QED
  BY <1>5, <1>6, <1>7, <1>8 DEF IInv

(* Only one worker holds the claim of a job. *)
LEMMA OneHolder ==
  ASSUME IInv, NEW w \in Workers, NEW v \in Workers, Holder(w), Holder(v),
         worker[w].job = worker[v].job
  PROVE  w = v
BY DEF IInv, TokensInv, Holder, HoldsClaim, Holds

(* A step of one worker that changes no row: it goes on with its job and   *)
(* token, with a sound outcome if it is about to finish, or it goes idle.  *)
LEMMA LocalStep ==
  ASSUME IInv, NEW w \in Workers, NEW v \in LocalStates,
         worker' = [worker EXCEPT ![w] = v],
         UNCHANGED <<jobs, runs, deleted, request, claims, stalls>>,
         crashes' \in 0 .. MaxCrashes,
         \/ v = Idle
         \/ /\ Busy(w) /\ v.pc # "idle" /\ v.job = worker[w].job
            /\ v.token = worker[w].token
            /\ v.pc = "finish" => v.outcome \in Ended
            /\ v.pc = "finish" /\ v.outcome = "completed" /\ HoldsClaim(w)
                 => Job(w).kind = "grid"
            /\ v.pc \in {"computed", "save"} /\ HoldsClaim(w) => Job(w).kind = "full_a"
  PROVE  IInv'
<1>1. TypeOK /\ w \in DOMAIN worker
  BY DEF IInv, TypeOK
<1>2. /\ worker'[w] = v
      /\ \A x \in Workers \ {w} : worker'[x] = worker[x]
  BY <1>1 DEF TypeOK
<1>3. worker' \in [Workers -> LocalStates]
  BY <1>1 DEF TypeOK
<1>4. \A x \in Workers : Busy(x)' => /\ Busy(x) /\ worker'[x].job = worker[x].job
                                     /\ worker'[x].token = worker[x].token
  BY <1>2 DEF Busy, Idle
<1>5. TypeOK'
  BY <1>1, <1>3, <1>4 DEF TypeOK, Busy
<1>6. TokensInv'
  BY <1>4 DEF IInv, TokensInv
<1>7. \A x \in Workers : Holder(x)' => Holder(x) /\ Job(x)' = Job(x)
  BY <1>4 DEF Holder, HoldsClaim, Holds, Job
<1>8. HolderInv'
  BY <1>2, <1>4, <1>7 DEF IInv, HolderInv, HolderOK, Busy, Idle, Holder, Job
<1>9. OutcomeInv'
  BY <1>2 DEF IInv, OutcomeInv, Idle
<1>10. RunsMatchJobs' /\ CancelInv' /\ UniqueInv'
  BY DEF IInv, RunsMatchJobs, CancelInv, UniqueInv, FullA
<1>11. QED
  BY <1>5, <1>6, <1>8, <1>9, <1>10 DEF IInv

(* A step that changes the row of one job and neither its owner, kind nor  *)
(* token, and may leave one worker idle.                                   *)
LEMMA RowStep ==
  ASSUME IInv, NEW j \in JobIds, NEW row \in JobRows, jobs' = [jobs EXCEPT ![j] = row],
         jobs[j].status \in ActiveStatus \cup Ended, row.status \in ActiveStatus \cup Ended,
         row.status \in ActiveStatus => jobs[j].status \in ActiveStatus,
         row.user = jobs[j].user, row.kind = jobs[j].kind, row.token = jobs[j].token,
         row.cancel => row.status \in {"running", "cancelled"},
         runs' = {k \in JobIds : jobs'[k].kind = "full_a" /\ jobs'[k].status = "completed"},
         UNCHANGED worker \/ \E w \in Workers : worker' = [worker EXCEPT ![w] = Idle],
         \A w \in Workers : Holder(w) /\ worker[w].job = j /\ worker'[w] = worker[w] =>
           row.status = "running" \/ (row.status = "cancelled" /\ row.cancel),
         UNCHANGED <<deleted, request, claims, crashes>>, stalls' \in 0 .. MaxStalls
  PROVE  IInv'
<1>1. TypeOK
  BY DEF IInv
<1>2. /\ jobs' \in [JobIds -> JobRows] /\ jobs'[j] = row
      /\ \A k \in JobIds \ {j} : jobs'[k] = jobs[k]
  BY <1>1 DEF TypeOK
<1>3. /\ worker' \in [Workers -> LocalStates]
      /\ \A x \in Workers : worker'[x] = worker[x] \/ worker'[x] = Idle
  BY <1>1 DEF TypeOK, Idle, LocalStates
<1>4. \A x \in Workers : Busy(x)' => Busy(x) /\ worker'[x] = worker[x]
  BY <1>3 DEF Busy, Idle
<1>5. TypeOK'
  <2>1. \A k \in JobIds :
          jobs'[k].user \in Users <=> jobs'[k].status \in ActiveStatus \cup Ended
    BY <1>1, <1>2 DEF TypeOK
  <2>2. \A x \in Workers : Busy(x)' => worker'[x].job \in JobIds
    BY <1>1, <1>4 DEF TypeOK
  <2>3. runs' \subseteq JobIds
    OBVIOUS
  <2>4. QED
    BY <1>1, <1>2, <1>3, <2>1, <2>2, <2>3 DEF TypeOK
<1>6. RunsMatchJobs'
  BY DEF RunsMatchJobs
<1>7. TokensInv'
  BY <1>2, <1>4 DEF IInv, TokensInv
<1>8. HolderInv'
  <2> SUFFICES ASSUME NEW w \in Workers, Holder(w)'
               PROVE  HolderOK(w)'
    BY DEF HolderInv
  <2>1. Busy(w) /\ worker'[w] = worker[w] /\ worker[w].job \in JobIds
    BY <1>1, <1>4 DEF Holder, TypeOK
  <2>2. Holder(w)
    BY <1>2, <2>1 DEF Holder, HoldsClaim, Holds, Busy
  <2>3. CASE worker[w].job = j
    BY <1>2, <2>1, <2>2, <2>3 DEF IInv, HolderInv, HolderOK, Job
  <2>4. CASE worker[w].job # j
    BY <1>2, <2>1, <2>2, <2>4 DEF IInv, HolderInv, HolderOK, Job
  <2>5. QED
    BY <2>3, <2>4
<1>9. OutcomeInv'
  BY <1>3 DEF IInv, OutcomeInv, Idle
<1>10. CancelInv'
  BY <1>2 DEF IInv, CancelInv
<1>11. UniqueInv'
  <2>1. \A k \in JobIds, u \in Users : FullA(k, u)' => FullA(k, u)
    BY <1>2 DEF FullA
  <2>2. QED
    BY <2>1 DEF IInv, UniqueInv
<1>12. QED
  BY <1>5, <1>6, <1>7, <1>8, <1>9, <1>10, <1>11 DEF IInv

(* A new row, with no token. *)
LEMMA InsertStep ==
  ASSUME IInv, NEW j \in JobIds, NEW kind \in Kinds, NEW u \in Users, Insert(j, kind, u),
         jobs[j].status = "none", kind = "full_a" => Active(u) = {},
         request' \in [Requests -> Users \cup {None}],
         UNCHANGED <<runs, deleted, worker, claims, stalls, crashes>>
  PROVE  IInv'
<1> DEFINE row == [NoJob EXCEPT !.status = "queued", !.kind = kind, !.user = u, !.fresh = TRUE]
<1>1. TypeOK
  BY DEF IInv
<1>2. /\ row \in JobRows /\ row.status = "queued" /\ row.kind = kind /\ row.user = u
      /\ row.token = 0 /\ ~row.cancel
  BY DEF NoJob, JobRows, Statuses, Kinds
<1>3. jobs' = [jobs EXCEPT ![j] = row]
  BY DEF Insert, SetJob
<1> HIDE DEF row
<1>4. /\ jobs' \in [JobIds -> JobRows] /\ jobs'[j] = row
      /\ \A k \in JobIds \ {j} : jobs'[k] = jobs[k]
  BY <1>1, <1>2, <1>3 DEF TypeOK
<1>5. TypeOK'
  <2>1. \A k \in JobIds :
          jobs'[k].user \in Users <=> jobs'[k].status \in ActiveStatus \cup Ended
    BY <1>1, <1>2, <1>4 DEF TypeOK
  <2>2. QED
    BY <1>1, <1>4, <2>1 DEF TypeOK, Busy
<1>6. RunsMatchJobs'
  BY <1>2, <1>4 DEF IInv, RunsMatchJobs
<1>7. TokensInv'
  BY <1>1, <1>2, <1>4 DEF IInv, TokensInv, TypeOK, Busy
<1>8. HolderInv'
  <2> SUFFICES ASSUME NEW w \in Workers, Holder(w)'
               PROVE  HolderOK(w)'
    BY DEF HolderInv
  <2>1. Busy(w) /\ worker[w].job \in JobIds /\ 1 <= worker[w].token
    BY <1>1 DEF Holder, TypeOK, Busy, IInv, TokensInv
  <2>2. worker[w].job # j
    BY <1>2, <1>4, <2>1 DEF Holder, HoldsClaim, Holds
  <2>3. Holder(w) /\ Job(w)' = Job(w)
    BY <1>4, <2>1, <2>2 DEF Holder, HoldsClaim, Holds, Busy, Job
  <2>4. QED
    BY <2>3 DEF IInv, HolderInv, HolderOK
<1>9. OutcomeInv' /\ CancelInv'
  BY <1>2, <1>4 DEF IInv, OutcomeInv, CancelInv
<1>10. UniqueInv'
  <2>1. \A k \in JobIds \ {j}, x \in Users : FullA(k, x)' => FullA(k, x)
    BY <1>4 DEF FullA
  <2>2. \A x \in Users : FullA(j, x)' => x = u /\ \A k \in JobIds : ~FullA(k, x)
    BY <1>2, <1>4 DEF FullA, Active
  <2>3. QED
    BY <2>1, <2>2 DEF IInv, UniqueInv
<1>11. QED
  BY <1>5, <1>6, <1>7, <1>8, <1>9, <1>10 DEF IInv

LEMMA EndedRow ==
  ASSUME NEW r \in JobRows, NEW s \in Statuses
  PROVE  LET row == [r EXCEPT !.status = s, !.fresh = TRUE]
         IN  /\ row \in JobRows /\ row.cancel = r.cancel /\ row.user = r.user
             /\ row.kind = r.kind /\ row.token = r.token /\ row.status = s
BY DEF JobRows

LEMMA ClaimedRow ==
  ASSUME NEW r \in JobRows, NEW s \in Statuses, NEW t \in Nat
  PROVE  [r EXCEPT !.status = s, !.token = t, !.fresh = TRUE] \in JobRows
BY DEF JobRows

(* A claim with a token nobody has had before. *)
LEMMA ClaimStep ==
  ASSUME IInv, NEW w \in Workers, NEW j \in JobIds, Claim(w, j), ~jobs[j].cancel
  PROVE  IInv'
<1> DEFINE row == [jobs[j] EXCEPT !.status = "running", !.token = claims + 1, !.fresh = TRUE]
           local == [pc |-> "claimed", job |-> j, token |-> claims + 1, outcome |-> None]
<1>1. TypeOK /\ claims \in Nat
  BY DEF IInv, TypeOK
<1>2. /\ jobs' = [jobs EXCEPT ![j] = row] /\ worker' = [worker EXCEPT ![w] = local]
      /\ claims' = claims + 1 /\ jobs[j].status \in ActiveStatus /\ worker[w].pc = "idle"
      /\ UNCHANGED <<runs, deleted, request, stalls, crashes>>
  BY DEF Claim, SetJob, Claimable
<1>3. /\ row \in JobRows /\ row.status = "running" /\ row.token = claims + 1
      /\ row.user = jobs[j].user /\ row.kind = jobs[j].kind /\ row.cancel = jobs[j].cancel
  <2>1. jobs[j] \in JobRows
    BY <1>1 DEF TypeOK
  <2>2. /\ row.status = "running" /\ row.token = claims + 1 /\ row.user = jobs[j].user
        /\ row.kind = jobs[j].kind /\ row.cancel = jobs[j].cancel
    BY <2>1 DEF JobRows
  <2>3. claims + 1 \in Nat /\ "running" \in Statuses
    BY <1>1 DEF Statuses
  <2>4. row \in JobRows
    BY <2>1, <2>3, ClaimedRow, Zenon
  <2>5. QED
    BY <2>2, <2>4
<1>4. /\ local \in LocalStates /\ local.pc = "claimed" /\ local.job = j
      /\ local.token = claims + 1
  BY <1>1 DEF LocalStates
<1> HIDE DEF row, local
<1>5. /\ jobs' \in [JobIds -> JobRows] /\ jobs'[j] = row
      /\ \A k \in JobIds \ {j} : jobs'[k] = jobs[k]
  BY <1>1, <1>2, <1>3 DEF TypeOK
<1>6. /\ worker' \in [Workers -> LocalStates] /\ worker'[w] = local
      /\ \A x \in Workers \ {w} : worker'[x] = worker[x]
  BY <1>1, <1>2, <1>4 DEF TypeOK
<1>7. TypeOK'
  <2>1. \A k \in JobIds :
          jobs'[k].user \in Users <=> jobs'[k].status \in ActiveStatus \cup Ended
    BY <1>1, <1>2, <1>3, <1>5 DEF TypeOK
  <2>2. \A x \in Workers : Busy(x)' => worker'[x].job \in JobIds
    BY <1>1, <1>4, <1>6 DEF TypeOK, Busy
  <2>3. QED
    BY <1>1, <1>2, <1>5, <1>6, <2>1, <2>2 DEF TypeOK
<1>8. RunsMatchJobs'
  BY <1>2, <1>3, <1>5 DEF IInv, RunsMatchJobs
<1>9. TokensInv'
  <2>1. \A k \in JobIds : jobs[k].token \in Nat /\ jobs[k].token <= claims
    BY <1>1 DEF IInv, TokensInv, TypeOK, JobRows
  <2>2. \A x \in Workers : worker[x].token \in Nat
    BY <1>1 DEF TypeOK, LocalStates
  <2>3. \A k \in JobIds : jobs'[k].token <= claims'
    BY <1>1, <1>2, <1>3, <1>5, <2>1
  <2>4. \A x \in Workers \ {w} : Busy(x)' => Busy(x) /\ worker'[x].token <= claims
    BY <1>6 DEF Busy, IInv, TokensInv
  <2>5. \A x \in Workers : Busy(x)' => 1 <= worker'[x].token /\ worker'[x].token <= claims'
    BY <1>1, <1>2, <1>4, <1>6, <2>2, <2>4 DEF IInv, TokensInv
  <2>6. \A x, y \in Workers :
          Busy(x)' /\ Busy(y)' /\ worker'[x].token = worker'[y].token => x = y
    BY <1>1, <1>4, <1>6, <2>2, <2>4 DEF IInv, TokensInv
  <2>7. QED
    BY <2>3, <2>5, <2>6 DEF TokensInv
<1>10. HolderInv'
  <2> SUFFICES ASSUME NEW x \in Workers, Holder(x)'
               PROVE  HolderOK(x)'
    BY DEF HolderInv
  <2>1. CASE x = w
    BY <1>3, <1>4, <1>5, <1>6, <2>1 DEF Job, HolderOK
  <2>2. CASE x # w
    <3>1. Busy(x) /\ worker'[x] = worker[x] /\ worker[x].job \in JobIds
      BY <1>1, <1>6, <2>2 DEF Holder, TypeOK, Busy
    <3>2. worker[x].token \in Nat /\ worker[x].token <= claims
      BY <1>1, <3>1 DEF TypeOK, LocalStates, IInv, TokensInv
    <3>3. worker[x].job # j
      BY <1>1, <1>3, <1>5, <3>1, <3>2 DEF Holder, HoldsClaim, Holds
    <3>4. Holder(x) /\ Job(x)' = Job(x)
      BY <1>5, <3>1, <3>3 DEF Holder, HoldsClaim, Holds, Busy, Job
    <3>5. QED
      BY <3>1, <3>4 DEF IInv, HolderInv, HolderOK
  <2>3. QED
    BY <2>1, <2>2
<1>11. OutcomeInv'
  BY <1>4, <1>6 DEF IInv, OutcomeInv
<1>12. CancelInv'
  BY <1>3, <1>5 DEF IInv, CancelInv
<1>13. UniqueInv'
  <2>1. \A k \in JobIds, u \in Users : FullA(k, u)' => FullA(k, u)
    BY <1>2, <1>3, <1>5 DEF FullA
  <2>2. QED
    BY <2>1 DEF IInv, UniqueInv
<1>14. QED
  BY <1>7, <1>8, <1>9, <1>10, <1>11, <1>12, <1>13 DEF IInv

(* delete_account: the rows lose their tokens, so nobody holds them. *)
LEMMA DeleteStep ==
  ASSUME IInv, NEW u \in Users, DeleteAccount(u)
  PROVE  IInv'
<1> DEFINE gone == {j \in JobIds : jobs[j].user = u /\ jobs[j].status # "none"}
           row  == [NoJob EXCEPT !.status = "deleted"]
<1>1. TypeOK
  BY DEF IInv
<1>2. /\ row \in JobRows /\ row.status = "deleted" /\ row.token = 0 /\ ~row.cancel
      /\ row.user = None /\ None \notin Users
  BY NoneAssumption DEF NoJob, JobRows, Statuses, Kinds, None
<1>3. /\ jobs' = [j \in JobIds |-> IF j \in gone THEN row ELSE jobs[j]]
      /\ runs' = runs \ gone /\ deleted' = deleted \cup {u}
      /\ UNCHANGED <<request, worker, claims, stalls, crashes>>
  BY DEF DeleteAccount
<1> HIDE DEF gone, row
<1>4. /\ jobs' \in [JobIds -> JobRows]
      /\ \A j \in JobIds : jobs'[j] = row \/ jobs'[j] = jobs[j]
      /\ \A j \in JobIds : j \in gone => jobs'[j] = row
      /\ \A j \in JobIds : j \notin gone => jobs'[j] = jobs[j]
  BY <1>1, <1>2, <1>3 DEF TypeOK
<1>5. TypeOK'
  <2>1. \A j \in JobIds :
          jobs'[j].user \in Users <=> jobs'[j].status \in ActiveStatus \cup Ended
    BY <1>1, <1>2, <1>4 DEF TypeOK
  <2>2. QED
    BY <1>1, <1>3, <1>4, <2>1 DEF TypeOK, Busy
<1>6. RunsMatchJobs'
  BY <1>2, <1>3, <1>4 DEF IInv, RunsMatchJobs
<1>7. TokensInv'
  <2>1. claims \in Nat
    BY <1>1 DEF TypeOK
  <2>2. QED
    BY <1>2, <1>3, <1>4, <2>1 DEF IInv, TokensInv, Busy
<1>8. HolderInv'
  <2> SUFFICES ASSUME NEW w \in Workers, Holder(w)'
               PROVE  HolderOK(w)'
    BY DEF HolderInv
  <2>1. Busy(w) /\ worker'[w] = worker[w] /\ worker[w].job \in JobIds /\ 1 <= worker[w].token
    BY <1>1, <1>3 DEF Holder, TypeOK, Busy, IInv, TokensInv
  <2>2. worker[w].job \notin gone
    BY <1>2, <1>4, <2>1 DEF Holder, HoldsClaim, Holds
  <2>3. Holder(w) /\ Job(w)' = Job(w)
    BY <1>4, <2>1, <2>2 DEF Holder, HoldsClaim, Holds, Busy, Job
  <2>4. QED
    BY <2>1, <2>3 DEF IInv, HolderInv, HolderOK
<1>9. OutcomeInv' /\ CancelInv'
  BY <1>2, <1>3, <1>4 DEF IInv, OutcomeInv, CancelInv
<1>10. UniqueInv'
  <2>1. \A k \in JobIds, x \in Users : FullA(k, x)' => FullA(k, x)
    BY <1>2, <1>4 DEF FullA
  <2>2. QED
    BY <2>1 DEF IInv, UniqueInv
<1>11. QED
  BY <1>5, <1>6, <1>7, <1>8, <1>9, <1>10 DEF IInv

(* Each action of the queue, by the lemma for its kind of step. *)
LEMMA RequestCancelInv ==
  ASSUME IInv, NEW j \in JobIds, RequestCancel(j)
  PROVE  IInv'
<1> DEFINE row == [jobs[j] EXCEPT !.cancel = TRUE, !.fresh = TRUE,
                                  !.status = IF @ = "queued" THEN "cancelled" ELSE @]
<1>1. jobs[j] \in JobRows /\ stalls \in 0 .. MaxStalls
  BY DEF IInv, TypeOK
<1>2. /\ jobs[j].status \in ActiveStatus /\ jobs' = [jobs EXCEPT ![j] = row]
      /\ UNCHANGED <<runs, deleted, request, worker, claims, stalls, crashes>>
  BY DEF RequestCancel, SetJob
<1>3. /\ row \in JobRows /\ row.cancel /\ row.user = jobs[j].user
      /\ row.kind = jobs[j].kind /\ row.token = jobs[j].token
      /\ row.status = IF jobs[j].status = "queued" THEN "cancelled" ELSE jobs[j].status
  BY <1>1 DEF JobRows, Statuses
<1> HIDE DEF row
<1>4. runs' = {k \in JobIds : jobs'[k].kind = "full_a" /\ jobs'[k].status = "completed"}
  BY <1>2, <1>3 DEF IInv, TypeOK, RunsMatchJobs
<1>5. \A w \in Workers : Holder(w) /\ worker[w].job = j => row.status = "running"
  BY <1>2, <1>3 DEF IInv, HolderInv, HolderOK, Job
<1>6. QED
  BY <1>1, <1>2, <1>3, <1>4, <1>5, RowStep

(* Changes of updated_at alone. *)
LEMMA FreshInv ==
  ASSUME IInv, NEW j \in JobIds, NEW fresh \in BOOLEAN,
         jobs' = [jobs EXCEPT ![j] = [jobs[j] EXCEPT !.fresh = fresh]],
         \/ jobs[j].status \in ActiveStatus
         \/ \E w \in Workers : Holder(w) /\ worker[w].job = j,
         UNCHANGED <<runs, deleted, request, worker, claims, crashes>>,
         stalls' \in 0 .. MaxStalls
  PROVE  IInv'
<1> DEFINE row == [jobs[j] EXCEPT !.fresh = fresh]
<1>1. jobs[j] \in JobRows
  BY DEF IInv, TypeOK
<1>2. /\ row \in JobRows /\ row.cancel = jobs[j].cancel /\ row.user = jobs[j].user
      /\ row.kind = jobs[j].kind /\ row.token = jobs[j].token /\ row.status = jobs[j].status
  BY <1>1 DEF JobRows
<1> HIDE DEF row
<1>3. jobs' = [jobs EXCEPT ![j] = row]
  BY DEF row
<1>4. \A w \in Workers : Holder(w) /\ worker[w].job = j =>
        jobs[j].status = "running" \/ (jobs[j].status = "cancelled" /\ jobs[j].cancel)
  BY DEF IInv, HolderInv, HolderOK, Job
<1>5. jobs[j].status \in ActiveStatus \cup Ended
  BY <1>4
<1>6. runs' = {k \in JobIds : jobs'[k].kind = "full_a" /\ jobs'[k].status = "completed"}
  BY <1>2, <1>3 DEF IInv, TypeOK, RunsMatchJobs
<1>7. row.cancel => row.status \in {"running", "cancelled"}
  BY <1>2 DEF IInv, CancelInv
<1>8. \A w \in Workers : Holder(w) /\ worker[w].job = j /\ worker'[w] = worker[w] =>
        row.status = "running" \/ (row.status = "cancelled" /\ row.cancel)
  BY <1>2, <1>4
<1>9. QED
  BY <1>2, <1>3, <1>5, <1>6, <1>7, <1>8, RowStep, ZenonT(90)

LEMMA ClaimInv ==
  ASSUME IInv, NEW w \in Workers, NEW j \in JobIds, Claim(w, j)
  PROVE  IInv'
<1>1. CASE ~jobs[j].cancel
  BY <1>1, ClaimStep
<1>2. CASE jobs[j].cancel
  <2> DEFINE row == [jobs[j] EXCEPT !.status = "cancelled", !.fresh = TRUE]
  <2>1. jobs[j] \in JobRows /\ stalls \in 0 .. MaxStalls
    BY DEF IInv, TypeOK
  <2>2. /\ jobs[j].status \in ActiveStatus /\ jobs' = [jobs EXCEPT ![j] = row]
        /\ UNCHANGED <<runs, deleted, request, worker, claims, stalls, crashes>>
    BY <1>2 DEF Claim, SetJob, Claimable
  <2>3. /\ row \in JobRows /\ row.cancel /\ row.user = jobs[j].user
        /\ row.kind = jobs[j].kind /\ row.token = jobs[j].token /\ row.status = "cancelled"
    BY <1>2, <2>1 DEF JobRows, Statuses
  <2> HIDE DEF row
  <2>4. runs' = {k \in JobIds : jobs'[k].kind = "full_a" /\ jobs'[k].status = "completed"}
    BY <2>2, <2>3 DEF IInv, TypeOK, RunsMatchJobs
  <2>5. QED
    BY <2>1, <2>2, <2>3, <2>4, RowStep
<1>3. QED
  BY <1>1, <1>2

(* _save_run ends the job that its worker still holds, and no other worker *)
(* holds it.                                                               *)
LEMMA SaveRunInv ==
  ASSUME IInv, NEW w \in Workers, SaveRun(w), MaySave(w)
  PROVE  IInv'
<1> DEFINE j == worker[w].job
           row == [jobs[j] EXCEPT !.status = "completed", !.fresh = TRUE]
<1>1. Holder(w) /\ j \in JobIds /\ jobs[j].status = "running" /\ ~jobs[j].cancel
  BY DEF SaveRun, MaySave, Holder, Busy, IInv, TypeOK, Job
<1>2. jobs[j] \in JobRows /\ jobs[j].kind = "full_a"
  BY <1>1 DEF IInv, TypeOK, HolderInv, HolderOK, SaveRun, Job
<1>3. /\ jobs' = [jobs EXCEPT ![j] = row] /\ runs' = runs \cup {j}
      /\ worker' = [worker EXCEPT ![w] = Idle]
      /\ UNCHANGED <<deleted, request, claims, stalls, crashes>>
  BY DEF SaveRun, SetJob, Job
<1>4. /\ row \in JobRows /\ ~row.cancel /\ row.user = jobs[j].user
      /\ row.kind = jobs[j].kind /\ row.token = jobs[j].token /\ row.status = "completed"
  BY <1>1, <1>2 DEF JobRows, Statuses
<1> HIDE DEF row
<1>5. runs' = {k \in JobIds : jobs'[k].kind = "full_a" /\ jobs'[k].status = "completed"}
  BY <1>1, <1>2, <1>3, <1>4 DEF IInv, TypeOK, RunsMatchJobs
<1>6. \A v \in Workers : Holder(v) /\ worker[v].job = j => worker'[v] # worker[v]
  <2>1. \A v \in Workers : Holder(v) /\ worker[v].job = j => v = w
    BY <1>1, OneHolder
  <2>2. worker'[w] = Idle /\ worker[w].pc # Idle.pc
    BY <1>1, <1>3 DEF IInv, TypeOK, Holder, Busy, Idle
  <2>3. QED
    BY <2>1, <2>2
<1>7. stalls' \in 0 .. MaxStalls
  BY <1>3 DEF IInv, TypeOK
<1> HIDE DEF j
<1>8. QED
  BY <1>1, <1>3, <1>4, <1>5, <1>6, <1>7, RowStep, ZenonT(90)

LEMMA FinishInv ==
  ASSUME IInv, NEW w \in Workers, Finish(w)
  PROVE  IInv'
<1> DEFINE j == worker[w].job
           status == Final(jobs[j], worker[w].outcome)
           row == [jobs[j] EXCEPT !.status = status, !.fresh = TRUE]
<1>1. /\ Busy(w) /\ j \in JobIds /\ jobs[j] \in JobRows
      /\ worker[w].pc = "finish" /\ worker[w].outcome \in Ended
      /\ worker' = [worker EXCEPT ![w] = Idle]
      /\ UNCHANGED <<runs, deleted, request, claims, stalls, crashes>>
  BY DEF Finish, Busy, IInv, TypeOK, OutcomeInv
<1>2. CASE ~HoldsClaim(w)
  <2>1. UNCHANGED jobs /\ Idle \in LocalStates /\ crashes' \in 0 .. MaxCrashes
    BY <1>1, <1>2 DEF Finish, Idle, LocalStates, IInv, TypeOK
  <2>2. QED
    BY <1>1, <2>1, LocalStep
<1>3. CASE HoldsClaim(w)
  <2>1. jobs' = [jobs EXCEPT ![j] = row] /\ Holder(w) /\ HolderOK(w)
    BY <1>1, <1>3 DEF Finish, SetJob, Job, Holder, IInv, HolderInv
  <2>2. /\ status \in Ended
        /\ jobs[j].cancel => status = "cancelled"
        /\ jobs[j].status \in {"running", "cancelled"}
        /\ jobs[j].kind = "full_a" => status # "completed"
    BY <1>1, <2>1 DEF Final, HolderOK, Job
  <2> HIDE DEF status
  <2>3. /\ row \in JobRows /\ row.cancel = jobs[j].cancel /\ row.user = jobs[j].user
        /\ row.kind = jobs[j].kind /\ row.token = jobs[j].token /\ row.status = status
    <3>1. status \in Statuses
      BY <2>2 DEF Statuses
    <3>2. QED
      BY <1>1, <3>1, EndedRow
  <2> HIDE DEF row
  <2>4. runs' = {k \in JobIds : jobs'[k].kind = "full_a" /\ jobs'[k].status = "completed"}
    BY <1>1, <2>1, <2>2, <2>3 DEF IInv, TypeOK, RunsMatchJobs
  <2>5. \A v \in Workers : Holder(v) /\ worker[v].job = j => worker'[v] # worker[v]
    <3>1. \A v \in Workers : Holder(v) /\ worker[v].job = j => v = w
      BY <2>1, OneHolder
    <3>2. worker'[w] = Idle /\ worker[w].pc # Idle.pc
      BY <1>1 DEF IInv, TypeOK, Idle
    <3>3. QED
      BY <3>1, <3>2
  <2>6. stalls' \in 0 .. MaxStalls
    BY <1>1 DEF IInv, TypeOK
  <2>7. row.cancel => row.status \in {"running", "cancelled"}
    BY <2>2, <2>3, Zenon
  <2> HIDE DEF j
  <2>8. /\ jobs[j].status \in ActiveStatus \cup Ended
        /\ row.status \in ActiveStatus \cup Ended
        /\ row.status \in ActiveStatus => jobs[j].status \in ActiveStatus
    BY <2>2, <2>3
  <2>9. /\ j \in JobIds /\ jobs' = [jobs EXCEPT ![j] = row]
        /\ worker' = [worker EXCEPT ![w] = Idle]
        /\ UNCHANGED <<deleted, request, claims, crashes>>
    BY <1>1, <2>1
  <2>10. \A v \in Workers : Holder(v) /\ worker[v].job = j /\ worker'[v] = worker[v] =>
           row.status = "running" \/ (row.status = "cancelled" /\ row.cancel)
    BY <2>5, Zenon
  <2>11. /\ row \in JobRows
         /\ row.user = jobs[j].user /\ row.kind = jobs[j].kind /\ row.token = jobs[j].token
         /\ UNCHANGED worker \/ \E v \in Workers : worker' = [worker EXCEPT ![v] = Idle]
    BY <2>3, <2>9, Zenon
  <2>12. QED
    BY <2>4, <2>6, <2>7, <2>8, <2>9, <2>10, <2>11, RowStep
<1>4. QED
  BY <1>2, <1>3

(* A worker's steps that touch no row. *)
LEMMA BecomeStep ==
  ASSUME IInv, NEW w \in Workers, NEW pc, NEW outcome, Busy(w), Become(w, pc, outcome),
         pc \in {"running", "computed", "save", "finish"}, outcome \in Ended \cup {None},
         pc = "finish" => outcome \in Ended,
         pc = "finish" /\ outcome = "completed" /\ HoldsClaim(w) => Job(w).kind = "grid",
         pc \in {"computed", "save"} /\ HoldsClaim(w) => Job(w).kind = "full_a",
         UNCHANGED <<jobs, runs, deleted, request, claims, stalls, crashes>>
  PROVE  IInv'
<1> DEFINE v == [worker[w] EXCEPT !.pc = pc, !.outcome = outcome]
<1>1. worker[w] \in LocalStates /\ crashes' \in 0 .. MaxCrashes /\ worker \in [Workers -> LocalStates]
  BY DEF IInv, TypeOK
<1>2. worker' = [worker EXCEPT ![w] = v]
  BY <1>1 DEF Become, LocalStates
<1>3. /\ v \in LocalStates /\ v.pc = pc /\ v.outcome = outcome
      /\ v.job = worker[w].job /\ v.token = worker[w].token
  BY <1>1 DEF LocalStates
<1> HIDE DEF v
<1>4. QED
  BY <1>1, <1>2, <1>3, LocalStep

LEMMA WorkInv ==
  ASSUME IInv, NEW w \in Workers, Work(w)
  PROVE  IInv'
<1>1. TypeOK
  BY DEF IInv
<1>2. CASE \E j \in JobIds : Claim(w, j)
  BY <1>2, ClaimInv
<1>3. CASE Begin(w)
  <2>1. Busy(w)
    BY <1>3 DEF Begin, Busy
  <2>2. CASE worker[w].job \in runs
    <3>1. HoldsClaim(w) => FALSE
      BY <2>1, <2>2 DEF IInv, RunsMatchJobs, HolderInv, HolderOK, Holder, Job
    <3>2. QED
      BY <1>3, <2>1, <2>2, <3>1, BecomeStep DEF Begin
  <2>3. CASE worker[w].job \notin runs
    BY <1>3, <2>1, <2>3, BecomeStep DEF Begin, None
  <2>4. QED
    BY <2>2, <2>3
<1>4. CASE Progress(w)
  <2>1. Holder(w) /\ worker[w].job \in JobIds /\ stalls' \in 0 .. MaxStalls
    BY <1>1, <1>4 DEF Progress, Holder, Busy, TypeOK
  <2>2. QED
    BY <1>4, <2>1, FreshInv DEF Progress, SetJob, Job
<1>5. CASE Stop(w)
  BY <1>5, BecomeStep DEF Stop, Busy
<1>6. ASSUME NEW outcome \in {"completed", "failed"}, Compute(w, outcome)
      PROVE  IInv'
  <2>1. Busy(w) /\ worker[w].job \in JobIds
    BY <1>1, <1>6 DEF Compute, Busy, TypeOK
  <2>2. CASE outcome = "completed" /\ Job(w).kind = "full_a"
    BY <1>6, <2>1, <2>2, BecomeStep DEF Compute, None
  <2>3. CASE ~(outcome = "completed" /\ Job(w).kind = "full_a")
    <3>1. Job(w).kind \in Kinds
      BY <1>1, <2>1 DEF TypeOK, JobRows, Job
    <3>2. QED
      BY <1>6, <2>1, <2>3, <3>1, BecomeStep DEF Compute, Kinds
  <2>4. QED
    BY <2>2, <2>3
<1>7. CASE CheckBeforeSave(w)
  <2>1. Busy(w)
    BY <1>7 DEF CheckBeforeSave, Busy
  <2>2. CASE CancelSeen(w)
    BY <1>7, <2>1, <2>2, BecomeStep DEF CheckBeforeSave
  <2>3. CASE ~CancelSeen(w)
    <3>1. HoldsClaim(w) => Job(w).kind = "full_a"
      BY <1>7, <2>1 DEF CheckBeforeSave, IInv, HolderInv, HolderOK, Holder
    <3>2. QED
      BY <1>7, <2>1, <2>3, <3>1, BecomeStep DEF CheckBeforeSave, None
  <2>4. QED
    BY <2>2, <2>3
<1>8. CASE SaveRun(w)
  <2>1. CASE MaySave(w)
    BY <1>8, <2>1, SaveRunInv
  <2>2. CASE ~MaySave(w)
    BY <1>8, <2>2, BecomeStep DEF SaveRun, Busy
  <2>3. QED
    BY <2>1, <2>2
<1>9. CASE SaveFails(w)
  BY <1>9, BecomeStep DEF SaveFails, Busy
<1>10. CASE Finish(w)
  BY <1>10, FinishInv
<1>11. QED
  BY <1>2, <1>3, <1>4, <1>5, <1>6, <1>7, <1>8, <1>9, <1>10 DEF Work

LEMMA NextIInv == IInv /\ [Next]_vars => IInv'
<1> SUFFICES ASSUME IInv, [Next]_vars
             PROVE  IInv'
  OBVIOUS
<1>1. TypeOK
  BY DEF IInv
<1>2. ASSUME NEW u \in Users, NEW j \in JobIds, EnqueueGrid(u, j)
      PROVE  IInv'
  <2>1. request' \in [Requests -> Users \cup {None}] /\ "grid" \in Kinds
    BY <1>1, <1>2 DEF EnqueueGrid, TypeOK, Kinds
  <2>2. QED
    BY <1>2, <2>1, InsertStep DEF EnqueueGrid
<1>3. ASSUME NEW r \in Requests, NEW u \in Users, CheckActive(r, u)
      PROVE  IInv'
  <2>1. TypeOK'
    BY <1>1, <1>3 DEF CheckActive, TypeOK, Busy
  <2>2. QED
    BY <1>3, <2>1 DEF CheckActive, IInv, RunsMatchJobs, TokensInv, HolderInv, OutcomeInv,
                      CancelInv, UniqueInv, FullA, Busy, Holder, HolderOK, HoldsClaim,
                      Holds, Job
<1>4. ASSUME NEW r \in Requests, NEW j \in JobIds, EnqueueFullA(r, j)
      PROVE  IInv'
  <2>1. /\ request[r] \in Users /\ request' \in [Requests -> Users \cup {None}]
        /\ "full_a" \in Kinds
    BY <1>1, <1>4 DEF EnqueueFullA, TypeOK, Kinds
  <2>2. CASE IndexAllows(request[r])
    BY <1>4, <2>1, <2>2, InsertStep DEF EnqueueFullA, IndexAllows
  <2>3. CASE ~IndexAllows(request[r])
    <3>1. UNCHANGED <<jobs, runs, deleted, worker, claims, stalls, crashes>>
      BY <1>4, <2>3 DEF EnqueueFullA
    <3>2. TypeOK'
      BY <1>1, <2>1, <3>1 DEF TypeOK, Busy
    <3>3. QED
      BY <3>1, <3>2 DEF IInv, RunsMatchJobs, TokensInv, HolderInv, OutcomeInv, CancelInv,
                        UniqueInv, FullA, Busy, Holder, HolderOK, HoldsClaim, Holds, Job
  <2>4. QED
    BY <2>2, <2>3
<1>5. ASSUME NEW j \in JobIds, LeaseRunsOut(j)
      PROVE  IInv'
  BY <1>1, <1>5, FreshInv DEF LeaseRunsOut, SetJob, TypeOK
<1>6. ASSUME NEW w \in Workers, Crash(w)
      PROVE  IInv'
  <2>1. /\ Idle \in LocalStates /\ crashes' \in 0 .. MaxCrashes
        /\ worker' = [worker EXCEPT ![w] = Idle]
        /\ UNCHANGED <<jobs, runs, deleted, request, claims, stalls>>
    BY <1>1, <1>6, BoundsAssumption DEF Crash, Idle, LocalStates, TypeOK
  <2>2. QED
    BY <2>1, LocalStep
<1>7. ASSUME NEW w \in Workers, Stall(w)
      PROVE  IInv'
  <2>1. Holder(w) /\ worker[w].job \in JobIds /\ stalls' \in 0 .. MaxStalls
    BY <1>1, <1>7, BoundsAssumption DEF Stall, Holder, TypeOK
  <2>2. QED
    BY <1>7, <2>1, FreshInv DEF Stall, SetJob, Job
<1>8. CASE UNCHANGED vars
  <2>1. TypeOK'
    BY <1>1, <1>8 DEF vars, TypeOK, Busy
  <2>2. QED
    BY <1>8, <2>1 DEF vars, IInv, RunsMatchJobs, TokensInv, HolderInv, OutcomeInv,
                      CancelInv, UniqueInv, FullA, Busy, Holder, HolderOK, HoldsClaim,
                      Holds, Job
<1>9. QED
  BY <1>2, <1>3, <1>4, <1>5, <1>6, <1>7, <1>8, RequestCancelInv, DeleteStep, WorkInv DEF Next

LEMMA SpecIInv == Spec => []IInv
BY InitIInv, NextIInv, PTL DEF Spec
-----------------------------------------------------------------------------
(* The queue's state is well formed in every reachable state: every row    *)
(* has its owner from insertion to deletion, every busy worker a job.      *)
THEOREM TypeCorrect == Spec => []TypeOK
<1>1. IInv => TypeOK
  BY DEF IInv
<1>2. QED
  BY <1>1, SpecIInv, PTL

(* The runs saved are those of the completed full_a jobs, whatever stalls, *)
(* dies, is claimed twice, cancelled or deleted in between.                *)
THEOREM RunsMatchJobsCorrect == Spec => []RunsMatchJobs
<1>1. IInv => RunsMatchJobs
  BY DEF IInv
<1>2. QED
  BY <1>1, SpecIInv, PTL

(* No user ever has two active full_a jobs, for any number of concurrent   *)
(* requests.                                                               *)
THEOREM OneActiveFullACorrect == Spec => []OneActiveFullA
<1>1. ASSUME IInv
      PROVE  OneActiveFullA
  <2> SUFFICES ASSUME NEW u \in Users
               PROVE  Cardinality(Active(u)) <= 1
    BY DEF OneActiveFullA
  <2>1. \A j, k \in Active(u) : j = k
    BY <1>1 DEF IInv, UniqueInv, FullA, Active
  <2>2. CASE Active(u) = {}
    BY <2>2, FS_EmptySet
  <2>3. CASE Active(u) # {}
    <3>1. PICK j \in Active(u) : Active(u) = {j}
      BY <2>1, <2>3
    <3>2. QED
      BY <3>1, FS_Singleton
  <2>4. QED
    BY <2>2, <2>3
<1>2. QED
  BY <1>1, SpecIInv, PTL
-----------------------------------------------------------------------------
(* The refinement: the step of the contract that each step of the queue is. *)
St    == [j \in JobIds |-> jobs[j].status]
Asked == {j \in JobIds : jobs[j].cancel}

LEMMA RowMaps ==
  ASSUME IInv, NEW j \in JobIds, NEW row \in JobRows, jobs' = [jobs EXCEPT ![j] = row]
  PROVE  /\ St' = [St EXCEPT ![j] = row.status]
         /\ row.cancel => Asked' = Asked \cup {j}
         /\ row.cancel = jobs[j].cancel => Asked' = Asked
<1>1. /\ jobs' \in [JobIds -> JobRows] /\ jobs'[j] = row
      /\ \A k \in JobIds \ {j} : jobs'[k] = jobs[k]
  BY DEF IInv, TypeOK
<1>2. St' = [St EXCEPT ![j] = row.status]
  BY <1>1 DEF St
<1>3. row.cancel => Asked' = Asked \cup {j}
  BY <1>1 DEF Asked
<1>4. row.cancel = jobs[j].cancel => Asked' = Asked
  BY <1>1 DEF Asked
<1>5. QED
  BY <1>2, <1>3, <1>4

(* A row that keeps its status and its request to stop. *)
LEMMA RowStutters ==
  ASSUME IInv, NEW j \in JobIds, NEW row \in JobRows, jobs' = [jobs EXCEPT ![j] = row],
         row.status = jobs[j].status, row.cancel = jobs[j].cancel
  PROVE  UNCHANGED <<St, Asked>>
<1>1. St' = [St EXCEPT ![j] = St[j]] /\ Asked' = Asked
  BY RowMaps, ZenonT(90) DEF St
<1>2. QED
  BY <1>1 DEF St

(* The end of a running job. *)
LEMMA RowEnds ==
  ASSUME IInv, NEW j \in JobIds, NEW how \in Ended,
         jobs' = [jobs EXCEPT ![j] = [jobs[j] EXCEPT !.status = how, !.fresh = TRUE]],
         jobs[j].status = "running", jobs[j].cancel => how = "cancelled",
         runs' = runs \/ (how = "completed" /\ runs' = runs \cup {j})
  PROVE  Contract!End(j, how)
<1> DEFINE row == [jobs[j] EXCEPT !.status = how, !.fresh = TRUE]
<1>1. jobs[j] \in JobRows /\ how \in Statuses
  BY DEF IInv, TypeOK, Statuses
<1>2. row \in JobRows /\ row.cancel = jobs[j].cancel /\ row.status = how
  BY <1>1, EndedRow
<1>3. jobs' = [jobs EXCEPT ![j] = row]
  OBVIOUS
<1> HIDE DEF row
<1>4. St' = [St EXCEPT ![j] = how] /\ Asked' = Asked
  BY <1>2, <1>3, RowMaps
<1>5. St[j] = "running" /\ (j \in Asked => how = "cancelled")
  BY DEF St, Asked
<1>6. QED
  BY <1>4, <1>5 DEF Contract!End, St, Asked

LEMMA WorkRefines ==
  ASSUME IInv, NEW w \in Workers, Work(w)
  PROVE  \/ \E j \in JobIds : Contract!Start(j) \/ \E how \in Ended : Contract!End(j, how)
         \/ UNCHANGED <<St, Asked, runs>>
<1>1. TypeOK
  BY DEF IInv
<1>2. ASSUME NEW j \in JobIds, Claim(w, j)
      PROVE  \/ Contract!Start(j) \/ \E how \in Ended : Contract!End(j, how)
             \/ UNCHANGED <<St, Asked, runs>>
  <2>1. jobs[j] \in JobRows /\ runs' = runs /\ jobs[j].status \in ActiveStatus
    BY <1>1, <1>2 DEF TypeOK, Claim, Claimable
  <2>2. CASE jobs[j].cancel
    <3>1. jobs[j].status = "running"
      BY <2>1, <2>2 DEF IInv, CancelInv
    <3>2. Contract!End(j, "cancelled")
      BY <1>2, <2>1, <2>2, <3>1, RowEnds DEF Claim, SetJob
    <3>3. QED
      BY <3>2
  <2>3. CASE ~jobs[j].cancel
    <3> DEFINE row == [jobs[j] EXCEPT !.status = "running", !.token = claims + 1, !.fresh = TRUE]
    <3>1. jobs' = [jobs EXCEPT ![j] = row]
      BY <1>2, <2>3 DEF Claim, SetJob
    <3>2. row.status = "running" /\ row.cancel = jobs[j].cancel
      BY <2>1 DEF JobRows
    <3>3. row \in JobRows
      <4>1. claims + 1 \in Nat /\ "running" \in Statuses
        BY <1>1 DEF TypeOK, Statuses
      <4>2. QED
        BY <2>1, <4>1, ClaimedRow, Zenon
    <3> HIDE DEF row
    <3>4. CASE jobs[j].status = "running"
      BY <2>1, <3>1, <3>2, <3>3, <3>4, RowStutters
    <3>5. CASE jobs[j].status = "queued"
      <4>1. St' = [St EXCEPT ![j] = "running"] /\ Asked' = Asked
        BY <3>1, <3>2, <3>3, RowMaps
      <4>2. St[j] = "queued" /\ j \notin Asked
        BY <2>3, <3>5 DEF St, Asked
      <4>3. Contract!Start(j)
        BY <2>1, <4>1, <4>2 DEF Contract!Start, St, Asked
      <4>4. QED
        BY <4>3
    <3>6. QED
      BY <2>1, <3>4, <3>5
  <2>4. QED
    BY <2>2, <2>3
<1>3. CASE Progress(w)
  <2> DEFINE j == worker[w].job
             row == [jobs[j] EXCEPT !.fresh = TRUE]
  <2>1. j \in JobIds /\ jobs' = [jobs EXCEPT ![j] = row] /\ runs' = runs
    BY <1>1, <1>3 DEF Progress, TypeOK, Busy, SetJob, Job
  <2>2. row \in JobRows /\ row.status = jobs[j].status /\ row.cancel = jobs[j].cancel
    BY <1>1, <2>1, ZenonT(90) DEF TypeOK, JobRows
  <2> HIDE DEF row, j
  <2>3. QED
    BY <2>1, <2>2, RowStutters
<1>4. CASE SaveRun(w)
  <2>1. CASE MaySave(w)
    <3> DEFINE j == worker[w].job
    <3>1. j \in JobIds /\ jobs[j].status = "running" /\ ~jobs[j].cancel
      BY <1>1, <1>4, <2>1 DEF SaveRun, MaySave, TypeOK, Busy, Job
    <3>2. /\ jobs' = [jobs EXCEPT ![j] = [jobs[j] EXCEPT !.status = "completed", !.fresh = TRUE]]
          /\ runs' = runs \cup {j}
      BY <1>4, <2>1 DEF SaveRun, SetJob, Job
    <3> HIDE DEF j
    <3>3. Contract!End(j, "completed")
      BY <3>1, <3>2, RowEnds
    <3>4. QED
      BY <3>1, <3>3
  <2>2. CASE ~MaySave(w)
    BY <1>4, <2>2 DEF SaveRun, St, Asked
  <2>3. QED
    BY <2>1, <2>2
<1>5. CASE Finish(w)
  <2>1. CASE ~HoldsClaim(w)
    BY <1>5, <2>1 DEF Finish, St, Asked
  <2>2. CASE HoldsClaim(w)
    <3>1. PICK j \in JobIds, how \in Ended :
            j = worker[w].job /\ how = Final(jobs[j], worker[w].outcome)
      BY <1>1, <1>5 DEF Finish, TypeOK, Busy, IInv, OutcomeInv, Final
    <3> DEFINE row == [jobs[j] EXCEPT !.status = how, !.fresh = TRUE]
    <3>2. /\ jobs' = [jobs EXCEPT ![j] = row] /\ runs' = runs
          /\ jobs[j] \in JobRows /\ HolderOK(w)
      BY <1>1, <1>5, <2>2, <3>1 DEF Finish, SetJob, Job, TypeOK, Busy, IInv, HolderInv, Holder
    <3>3. CASE jobs[j].status = "running"
      <4>1. jobs[j].cancel => how = "cancelled"
        BY <3>1 DEF Final
      <4>2. Contract!End(j, how)
        BY <3>2, <3>3, <4>1, RowEnds
      <4> HIDE DEF row
      <4>3. QED
        BY <4>2
    <3>4. CASE jobs[j].status = "cancelled" /\ jobs[j].cancel
      <4>1. how \in Statuses /\ how = "cancelled"
        BY <3>1, <3>4 DEF Statuses, Final
      <4>2. row \in JobRows /\ row.cancel = jobs[j].cancel /\ row.status = jobs[j].status
        BY <3>2, <3>4, <4>1, EndedRow
      <4> HIDE DEF row
      <4>3. QED
        BY <3>2, <4>2, RowStutters
    <3>5. QED
      BY <3>1, <3>2, <3>3, <3>4 DEF HolderOK, Job
  <2>3. QED
    BY <2>1, <2>2
<1>6. CASE \/ Begin(w) \/ Stop(w) \/ CheckBeforeSave(w) \/ SaveFails(w)
           \/ \E outcome \in {"completed", "failed"} : Compute(w, outcome)
  BY <1>6 DEF Begin, Stop, CheckBeforeSave, SaveFails, Compute, St, Asked
<1>7. QED
  BY <1>2, <1>3, <1>4, <1>5, <1>6 DEF Work

LEMMA NextRefines ==
  ASSUME IInv, [Next]_vars
  PROVE  [Contract!Next]_<<St, Asked, runs>>
<1>1. TypeOK
  BY DEF IInv
<1>2. ASSUME NEW j \in JobIds, NEW kind \in Kinds, NEW u \in Users, Insert(j, kind, u),
             jobs[j].status = "none", runs' = runs
      PROVE  Contract!Submit(j)
  <2> DEFINE row == [NoJob EXCEPT !.status = "queued", !.kind = kind, !.user = u, !.fresh = TRUE]
  <2>1. row \in JobRows /\ row.status = "queued" /\ row.cancel = FALSE
    BY DEF NoJob, JobRows, Statuses, Kinds
  <2>2. jobs[j].cancel = FALSE
    BY <1>1, <1>2 DEF IInv, CancelInv, TypeOK, JobRows
  <2>3. jobs' = [jobs EXCEPT ![j] = row]
    BY <1>2 DEF Insert, SetJob
  <2> HIDE DEF row
  <2>4. St' = [St EXCEPT ![j] = "queued"] /\ Asked' = Asked
    BY <2>1, <2>2, <2>3, RowMaps
  <2>5. QED
    BY <1>2, <2>4 DEF Contract!Submit, St, Asked
<1>3. ASSUME NEW u \in Users, NEW j \in JobIds, EnqueueGrid(u, j)
      PROVE  Contract!Submit(j)
  BY <1>2, <1>3 DEF EnqueueGrid, Kinds
<1>4. ASSUME NEW r \in Requests, NEW j \in JobIds, EnqueueFullA(r, j)
      PROVE  Contract!Submit(j) \/ UNCHANGED <<St, Asked, runs>>
  <2>1. CASE IndexAllows(request[r])
    <3>1. request[r] \in Users /\ "full_a" \in Kinds
      BY <1>1, <1>4 DEF EnqueueFullA, TypeOK, Kinds
    <3>2. QED
      BY <1>2, <1>4, <2>1, <3>1 DEF EnqueueFullA
  <2>2. CASE ~IndexAllows(request[r])
    BY <1>4, <2>2 DEF EnqueueFullA, St, Asked
  <2>3. QED
    BY <2>1, <2>2
<1>5. ASSUME NEW j \in JobIds, RequestCancel(j)
      PROVE  Contract!Ask(j)
  <2> DEFINE row == [jobs[j] EXCEPT !.cancel = TRUE, !.fresh = TRUE,
                                    !.status = IF @ = "queued" THEN "cancelled" ELSE @]
  <2>1. /\ jobs[j] \in JobRows /\ jobs[j].status \in ActiveStatus /\ runs' = runs
        /\ jobs' = [jobs EXCEPT ![j] = row]
    BY <1>1, <1>5 DEF RequestCancel, SetJob, TypeOK
  <2>2. /\ row \in JobRows /\ row.cancel
        /\ row.status = IF jobs[j].status = "queued" THEN "cancelled" ELSE jobs[j].status
    BY <2>1 DEF JobRows, Statuses
  <2> HIDE DEF row
  <2>3. /\ St' = [St EXCEPT ![j] = IF St[j] = "queued" THEN "cancelled" ELSE St[j]]
        /\ Asked' = Asked \cup {j}
    BY <2>1, <2>2, RowMaps DEF St
  <2>4. QED
    BY <2>1, <2>3 DEF Contract!Ask, Contract!Active, St, Asked
<1>6. ASSUME NEW u \in Users, DeleteAccount(u)
      PROVE  \E gone \in SUBSET {j \in JobIds : St[j] # "none"} : Contract!Remove(gone)
  <2> DEFINE row == [NoJob EXCEPT !.status = "deleted"]
  <2>1. PICK gone \in SUBSET JobIds :
          gone = {j \in JobIds : jobs[j].user = u /\ jobs[j].status # "none"}
    OBVIOUS
  <2>2. /\ jobs' = [j \in JobIds |-> IF j \in gone THEN row ELSE jobs[j]]
        /\ runs' = runs \ gone
    BY <1>6, <2>1 DEF DeleteAccount
  <2>3. row.status = "deleted" /\ row.cancel = FALSE
    BY DEF NoJob
  <2>4. gone \in SUBSET {j \in JobIds : St[j] # "none"}
    BY <2>1 DEF St
  <2> HIDE DEF row
  <2>5. St' = [j \in JobIds |-> IF j \in gone THEN "deleted" ELSE St[j]]
    BY <2>2, <2>3 DEF St
  <2>6. Asked' = Asked \ gone
    BY <2>2, <2>3 DEF Asked
  <2>7. Contract!Remove(gone)
    BY <2>2, <2>5, <2>6 DEF Contract!Remove, St, Asked
  <2>8. QED
    BY <2>4, <2>7
<1>7. ASSUME NEW j \in JobIds,
             jobs' = [jobs EXCEPT ![j] = [jobs[j] EXCEPT !.fresh = FALSE]]
      PROVE  UNCHANGED <<St, Asked>>
  <2> DEFINE row == [jobs[j] EXCEPT !.fresh = FALSE]
  <2>1. row \in JobRows /\ row.status = jobs[j].status /\ row.cancel = jobs[j].cancel
    BY <1>1, ZenonT(90) DEF TypeOK, JobRows
  <2>2. jobs' = [jobs EXCEPT ![j] = row]
    BY <1>7
  <2> HIDE DEF row
  <2>3. QED
    BY <2>1, <2>2, RowStutters
<1>8. ASSUME NEW j \in JobIds, LeaseRunsOut(j)
      PROVE  UNCHANGED <<St, Asked, runs>>
  BY <1>7, <1>8 DEF LeaseRunsOut, SetJob
<1>9. ASSUME NEW w \in Workers, Stall(w)
      PROVE  UNCHANGED <<St, Asked, runs>>
  BY <1>1, <1>7, <1>9 DEF Stall, SetJob, Job, TypeOK
<1>10. ASSUME NEW w \in Workers, Crash(w)
       PROVE  UNCHANGED <<St, Asked, runs>>
  BY <1>10 DEF Crash, St, Asked
<1>11. ASSUME NEW r \in Requests, NEW u \in Users, CheckActive(r, u)
       PROVE  UNCHANGED <<St, Asked, runs>>
  BY <1>11 DEF CheckActive, St, Asked
<1>12. CASE UNCHANGED vars
  BY <1>12 DEF vars, St, Asked
<1>13. QED
  BY <1>3, <1>4, <1>5, <1>6, <1>8, <1>9, <1>10, <1>11, <1>12, WorkRefines
     DEF Next, Contract!Next, Contract!Ended, St

(* The queue implements its contract: with any number of workers, stalls   *)
(* and crashes, a job ends once and a cancelled one never completes.       *)
THEOREM ContractCorrect == Spec => ContractKept
<1>1. Init => Contract!Init
  BY DEF Init, Contract!Init, NoJob
<1>2. IInv /\ [Next]_vars => [Contract!Next]_(Contract!vars)
  BY NextRefines DEF Contract!vars, St, Asked
<1>3. QED
  BY <1>1, <1>2, SpecIInv, PTL DEF Spec, ContractKept, Contract!Spec
-----------------------------------------------------------------------------
(* The daily universe.  A day that is built stays as it is, since the keys *)
(* refuse a second build; so a run may rely on what it once found built.   *)
DaysWhole ==
  /\ DOMAIN members = Days /\ DOMAIN snapshot = Days
  /\ \A d \in Days : IF Built(d) THEN snapshot[d].digest = members[d]
                                 ELSE DOMAIN members[d] = {}

BuilderShape(w) ==
  /\ w.at \in {"chunk", "read"} => w.todo \subseteq Days
  /\ w.at = "read" => DOMAIN w.rows \subseteq Days

(* A run that has bound its days: they are built, and what it used of a    *)
(* day is what is stored.                                                  *)
Bound(t) ==
  \A d \in t.days :
    /\ Built(d)
    /\ d \notin Uncompared(t) => snapshot[d].filters = t.filters

Asking(t) ==
  /\ t.mode = "full_a" => t.codes = Instruments
  /\ \A d \in DOMAIN t.seen : d \in Days /\ Built(d) /\ t.seen[d] = snapshot[d]
  /\ t.todo = t.days /\ DOMAIN t.used = {}

Filtered(t) == \A d \in t.days : t.used[d] = Eligible(d, t.codes)

Chunked(t) ==
  /\ t.codes = UNION {Eligible(d, Instruments) : d \in t.days}
  /\ t.days \subseteq t.todo \cup DOMAIN t.used
  /\ \A d \in DOMAIN t.used : d \in t.days => t.used[d] = Eligible(d, Instruments)
  /\ t.at \in {"benchmark", "done"} => t.days \subseteq DOMAIN t.used

RunShape(t) ==
  t.at # "idle" =>
    /\ t.days \subseteq Days /\ t.codes \subseteq Instruments
    /\ t.mode \in {"filtered", "full_a"}
    /\ t.at \in {"bind", "bars", "chunk", "rows", "benchmark", "done"}
    /\ t.at = "bind" => Asking(t)
    /\ t.at # "bind" => Bound(t)
    /\ t.at # "bind" /\ t.mode = "filtered" => t.at \in {"bars", "done"} /\ Filtered(t)
    /\ t.at # "bind" /\ t.mode = "full_a" =>
         t.at \in {"chunk", "rows", "benchmark", "done"} /\ Chunked(t)

UniverseIInv ==
  /\ DaysWhole
  /\ DOMAIN builder = Builders /\ \A b \in Builders : BuilderShape(builder[b])
  /\ DOMAIN run = Backtests /\ \A r \in Backtests : RunShape(run[r])

(* What is built stays as it is. *)
Kept == \A d \in Days : Built(d) => snapshot'[d] = snapshot[d] /\ members'[d] = members[d]

LEMMA SnapshotIsNot ==
  ASSUME NEW f, NEW g
  PROVE  [filters |-> f, digest |-> g] # NoSnapshot
<1>1. DOMAIN [filters |-> f, digest |-> g] = {"filters", "digest"}
  OBVIOUS
<1>2. DOMAIN NoSnapshot = {"filters"}
  BY DEF NoSnapshot
<1>. QED BY <1>1, <1>2

LEMMA EligibleBound ==
  ASSUME NEW d, NEW S, NEW T, S \subseteq T, Eligible(d, T) \subseteq S
  PROVE  Eligible(d, S) = Eligible(d, T)
BY DEF Eligible

(* What a run holds is not touched by a step that keeps what is built. *)
LEMMA RunKept ==
  ASSUME DaysWhole, Kept, NEW t, RunShape(t)
  PROVE  RunShape(t)'
<1>. SUFFICES ASSUME t.at # "idle"
     PROVE  RunShape(t)'
  BY DEF RunShape
<1>1. ASSUME NEW d \in Days, Built(d)
      PROVE  Built(d)' /\ (\A c : Eligible(d, c)' = Eligible(d, c))
  BY <1>1 DEF Kept, Built, Eligible
<1>2. t.days \subseteq Days
  BY DEF RunShape
<1>3. ASSUME t.at = "bind"
      PROVE  Asking(t)'
  BY <1>1, <1>3 DEF RunShape, Asking, Kept
<1>4. ASSUME t.at # "bind"
      PROVE  Bound(t)'
  BY <1>1, <1>2, <1>4 DEF RunShape, Bound, Kept
<1>5. ASSUME t.at # "bind", t.mode = "filtered"
      PROVE  Filtered(t)'
  BY <1>1, <1>2, <1>5 DEF RunShape, Bound, Filtered
<1>6. ASSUME t.at # "bind", t.mode = "full_a"
      PROVE  Chunked(t)'
  <2>1. \A d \in t.days : Built(d) /\ Eligible(d, Instruments)' = Eligible(d, Instruments)
    BY <1>1, <1>2, <1>6 DEF RunShape, Bound
  <2>2. (UNION {Eligible(d, Instruments) : d \in t.days})'
          = UNION {Eligible(d, Instruments) : d \in t.days}
    BY <2>1
  <2>. QED BY <1>6, <2>1, <2>2 DEF RunShape, Chunked
<1>. QED BY <1>3, <1>4, <1>5, <1>6 DEF RunShape

LEMMA UniverseInitOk == UniverseInit => UniverseIInv
<1>. SUFFICES ASSUME UniverseInit PROVE UniverseIInv
  OBVIOUS
<1>1. DaysWhole
  BY DEF UniverseInit, DaysWhole, Built
<1>. QED BY <1>1 DEF UniverseInit, UniverseIInv, Nothing, BuilderShape, RunShape

(* A step of a builder that stores nothing. *)
LEMMA BuilderMoves ==
  ASSUME UniverseIInv, NEW b \in Builders, NEW w, BuilderShape(w),
         builder' = [builder EXCEPT ![b] = w], UNCHANGED <<members, snapshot, run>>
  PROVE  UniverseIInv'
<1>1. DaysWhole'
  BY DEF UniverseIInv, DaysWhole, Built
<1>2. Kept
  BY DEF Kept
<1>3. \A r \in Backtests : RunShape(run[r])'
  BY <1>2, RunKept DEF UniverseIInv
<1>4. \A x \in Builders : BuilderShape(builder'[x])
  BY DEF UniverseIInv
<1>. QED BY <1>1, <1>3, <1>4 DEF UniverseIInv, BuilderShape

(* A step of a run stores nothing either. *)
LEMMA RunMoves ==
  ASSUME UniverseIInv, NEW r \in Backtests, NEW t, RunShape(t), Advances(r, t), OnlyRuns
  PROVE  UniverseIInv'
<1>1. DaysWhole'
  BY DEF UniverseIInv, DaysWhole, Built, OnlyRuns
<1>2. Kept
  BY DEF OnlyRuns, Kept
<1>3. \A x \in Backtests : RunShape(run'[x])
  BY DEF UniverseIInv, Advances
<1>4. \A x \in Backtests : \A v : v = run'[x] => RunShape(v)'
  BY <1>2, <1>3, RunKept DEF UniverseIInv
<1>5. \A x \in Backtests : RunShape(run[x])'
  BY <1>4
<1>. QED BY <1>1, <1>5 DEF UniverseIInv, OnlyRuns, Advances, BuilderShape

LEMMA CommitOk ==
  ASSUME UniverseIInv, NEW b \in Builders, Commit(b)
  PROVE  UniverseIInv'
<1>. DEFINE w == builder[b]
            left == w.todo \ DOMAIN w.rows
<1>0. w.at = "read" /\ BuilderShape(w) /\ DaysWhole /\ BuilderShape(Nothing)
  BY DEF Commit, UniverseIInv, BuilderShape, Nothing
<1>1. CASE builder' = [builder EXCEPT ![b] = Nothing] /\ UNCHANGED <<members, snapshot>>
  BY <1>0, <1>1, BuilderMoves DEF Commit
<1>2. CASE /\ ~Taken(w.rows) /\ Inserted(w.rows, FiltersOf[b])
           /\ builder' = [builder EXCEPT ![b] =
                IF left = {} THEN Nothing
                ELSE [w EXCEPT !.at = "chunk", !.todo = left, !.rows = NoRows]]
  <2>1. \A d \in Days : d \in DOMAIN w.rows => ~Built(d)
    BY <1>2 DEF Taken
  <2>2. Kept
    BY <1>2, <2>1 DEF Inserted, Kept
  <2>3. DaysWhole'
    <3>1. DOMAIN members' = Days /\ DOMAIN snapshot' = Days
      BY <1>2 DEF Inserted
    <3>2. ASSUME NEW d \in Days
          PROVE  IF Built(d)' THEN snapshot'[d].digest = members'[d] ELSE DOMAIN (members'[d]) = {}
      <4>1. CASE d \in DOMAIN w.rows
        <5>1. /\ members'[d] = w.rows[d]
              /\ snapshot'[d] = [filters |-> FiltersOf[b], digest |-> w.rows[d]]
          BY <1>2, <4>1 DEF Inserted
        <5>2. snapshot'[d] # NoSnapshot
          BY <5>1, SnapshotIsNot
        <5>. QED BY <5>1, <5>2 DEF Built
      <4>2. CASE d \notin DOMAIN w.rows
        BY <1>0, <1>2, <4>2 DEF Inserted, DaysWhole, Built
      <4>. QED BY <4>1, <4>2
    <3>. QED BY <3>1, <3>2 DEF DaysWhole, Built
  <2>5. run' = run
    BY DEF Commit
  <2>4. \A x \in Backtests : RunShape(run[x])'
    BY <1>0, <2>2, <2>5, RunKept DEF UniverseIInv
  <2>6. \A x \in Builders : BuilderShape(builder'[x])
    <3>1. left \subseteq Days
      BY <1>0 DEF BuilderShape
    <3>2. BuilderShape([w EXCEPT !.at = "chunk", !.todo = left, !.rows = NoRows])
      <4>. DEFINE v == [w EXCEPT !.at = "chunk", !.todo = left, !.rows = NoRows]
      <4>1. v.at = "chunk" /\ v.todo = left
        OBVIOUS
      <4>. QED BY <3>1, <4>1 DEF BuilderShape
    <3>3. \A x \in Builders : x # b => builder'[x] = builder[x]
      BY <1>2 DEF UniverseIInv
    <3>4. builder'[b] = Nothing
            \/ builder'[b] = [w EXCEPT !.at = "chunk", !.todo = left, !.rows = NoRows]
      BY <1>2 DEF UniverseIInv
    <3>. QED BY <1>0, <3>2, <3>3, <3>4 DEF UniverseIInv
  <2>7. DOMAIN builder' = Builders
    BY <1>2 DEF UniverseIInv
  <2>. QED BY <2>3, <2>4, <2>5, <2>6, <2>7 DEF UniverseIInv, BuilderShape
<1>. QED BY <1>1, <1>2 DEF Commit

LEMMA BuildersOk ==
  ASSUME UniverseIInv, NEW b \in Builders,
         \/ \E d \in Days : BuildForDate(b, d)
         \/ \E first, last \in Days : StartRange(b, first, last)
         \/ ReadChunk(b) \/ BuilderDies(b)
  PROVE  UniverseIInv'
<1>1. ASSUME NEW d \in Days, BuildForDate(b, d)
      PROVE  UniverseIInv'
  <2>. DEFINE w == [at |-> "read", kind |-> "day", known |-> listed, todo |-> {d},
                    rows |-> [x \in {d} |-> Members(x, listed, "day", FiltersOf[b])]]
  <2>1. BuilderShape(w)
    BY DEF BuilderShape
  <2>. QED BY <1>1, <2>1, BuilderMoves DEF BuildForDate
<1>2. ASSUME NEW first \in Days, NEW last \in Days, StartRange(b, first, last)
      PROVE  UniverseIInv'
  <2>. DEFINE todo == {d \in Between(first, last) : ~Built(d)}
              w == [at |-> "chunk", kind |-> "range", known |-> listed, todo |-> todo,
                    rows |-> NoRows]
  <2>1. BuilderShape(w)
    BY DEF BuilderShape, Between
  <2>. QED BY <1>2, <2>1, BuilderMoves DEF StartRange
<1>3. CASE ReadChunk(b)
  <2>. DEFINE w == builder[b]
              rows == [d \in Chunk(w.todo) |-> Members(d, w.known, w.kind, FiltersOf[b])]
              v == [w EXCEPT !.at = "read", !.rows = rows]
  <2>1. w.todo \subseteq Days
    BY <1>3 DEF ReadChunk, UniverseIInv, BuilderShape
  <2>2. DOMAIN rows \subseteq Days
    BY <2>1 DEF Chunk
  <2>3. v.todo = w.todo
    OBVIOUS
  <2>4. v.rows = rows \/ v.rows = w.rows
    OBVIOUS
  <2>5. BuilderShape(v)
    BY <2>1, <2>2, <2>3 DEF BuilderShape
  <2>. QED BY <1>3, <2>5, BuilderMoves DEF ReadChunk
<1>4. CASE BuilderDies(b)
  <2>1. BuilderShape(Nothing)
    BY DEF BuilderShape, Nothing
  <2>. QED BY <1>4, <2>1, BuilderMoves DEF BuilderDies
<1>. QED BY <1>1, <1>2, <1>3, <1>4

LEMMA RestShape == RunShape(Nothing)
BY DEF RunShape, Nothing

LEMMA RunRefused ==
  ASSUME UniverseIInv, NEW r \in Backtests, Refused(r), OnlyRuns
  PROVE  UniverseIInv'
BY RestShape, RunMoves DEF Refused, Advances

LEMMA StartOk ==
  ASSUME UniverseIInv, NEW r \in Backtests, NEW mode \in {"filtered", "full_a"},
         NEW first \in Days, NEW last \in Days, NEW codes \in SUBSET Instruments,
         mode = "full_a" => codes = Instruments, StartRun(r, mode, first, last, codes)
  PROVE  UniverseIInv'
<1>. DEFINE days == Between(first, last)
            t == [at |-> "bind", mode |-> mode, days |-> days, filters |-> FiltersOf[r],
                  codes |-> codes, todo |-> days, used |-> NoRows, bars |-> NoRows,
                  seen |-> Snapshots(days)]
<1>1. days \subseteq Days
  BY DEF Between
<1>2. \A d \in DOMAIN Snapshots(days) : d \in Days /\ Built(d) /\ Snapshots(days)[d] = snapshot[d]
  BY <1>1 DEF Snapshots
<1>3. Asking(t)
  BY <1>2 DEF Asking, NoRows
<1>4. RunShape(t)
  BY <1>1, <1>3 DEF RunShape
<1>. QED BY <1>4, RunMoves DEF StartRun

LEMMA BindOk ==
  ASSUME UniverseIInv, NEW r \in Backtests, BindMembership(r)
  PROVE  UniverseIInv'
<1>. DEFINE t   == run[r]
            map == EligibleMap(t)
            next == [t EXCEPT !.at = "bars", !.used = map]
<1>1. RunShape(t) /\ DaysWhole /\ t.at = "bind" /\ t.mode = "filtered" /\ OnlyRuns
  BY DEF UniverseIInv, BindMembership
<1>2. CASE Refused(r)
  BY <1>1, <1>2, RunRefused
<1>3. CASE /\ \A d \in DOMAIN t.seen : t.seen[d].filters = t.filters
           /\ t.days \subseteq DOMAIN map /\ Advances(r, next)
  <2>1. ASSUME NEW d \in t.days
        PROVE  /\ Built(d) /\ map[d] = Eligible(d, t.codes)
               /\ d \in DOMAIN t.seen => snapshot[d].filters = t.filters
    <3>1. d \in Days
      BY <1>1 DEF RunShape
    <3>2. d \in DOMAIN map /\ map[d] = Eligible(d, t.codes)
      BY <1>3 DEF EligibleMap
    <3>3. d \in DOMAIN t.seen \/ DOMAIN members[d] # {}
      BY <3>2 DEF EligibleMap
    <3>. QED BY <1>1, <1>3, <3>1, <3>2, <3>3 DEF RunShape, Asking, DaysWhole
  <2>2. /\ next.at = "bars" /\ next.used = map /\ next.seen = t.seen
        /\ next.days = t.days /\ next.codes = t.codes /\ next.mode = t.mode
        /\ next.filters = t.filters
    OBVIOUS
  <2>3. Bound(next)
    BY <1>1, <2>1, <2>2 DEF Bound, Uncompared
  <2>4. Filtered(next)
    BY <2>1, <2>2 DEF Filtered
  <2>5. RunShape(next)
    <3>. HIDE DEF next
    <3>. QED BY <1>1, <2>2, <2>3, <2>4 DEF RunShape
  <2>. QED BY <1>1, <1>3, <2>5, RunMoves
<1>. QED BY <1>2, <1>3 DEF BindMembership

LEMMA MembershipOk ==
  ASSUME UniverseIInv, NEW r \in Backtests, MembershipCodes(r)
  PROVE  UniverseIInv'
<1>. DEFINE t     == run[r]
            codes == UNION {Eligible(d, t.codes) : d \in t.days}
            next  == [t EXCEPT !.at = "chunk", !.codes = codes, !.seen = NoRows]
<1>1. RunShape(t) /\ DaysWhole /\ t.at = "bind" /\ t.mode = "full_a" /\ OnlyRuns
  BY DEF UniverseIInv, MembershipCodes
<1>2. CASE Refused(r)
  BY <1>1, <1>2, RunRefused
<1>3. CASE /\ t.days = DOMAIN t.seen /\ \A d \in DOMAIN t.seen : t.seen[d].filters = t.filters
           /\ Advances(r, next)
  <2>1. Asking(t) /\ t.codes = Instruments /\ t.days \subseteq Days
    BY <1>1 DEF RunShape, Asking
  <2>2. /\ next.at = "chunk" /\ next.codes = codes /\ next.todo = t.todo /\ next.used = t.used
        /\ next.days = t.days /\ next.mode = t.mode /\ next.filters = t.filters
    OBVIOUS
  <2>3. codes \subseteq Instruments
    BY <2>1 DEF Eligible
  <2>4. Bound(next)
    BY <1>3, <2>1, <2>2 DEF Bound, Uncompared, Asking
  <2>5. Chunked(next)
    <3>1. \A d \in DOMAIN t.used : d \in t.days => t.used[d] = Eligible(d, Instruments)
      BY <1>1 DEF RunShape, Asking
    <3>. QED BY <2>1, <2>2, <3>1 DEF Chunked, Asking
  <2>6. RunShape(next)
    <3>. HIDE DEF next
    <3>. QED BY <1>1, <2>1, <2>2, <2>3, <2>4, <2>5 DEF RunShape
  <2>. QED BY <1>1, <1>3, <2>6, RunMoves
<1>. QED BY <1>2, <1>3 DEF MembershipCodes

(* The steps of a run that has bound its days. *)
LEMMA RunsOk ==
  ASSUME UniverseIInv, NEW r \in Backtests,
         LoadBars(r) \/ LoadChunk(r) \/ RunChunk(r) \/ Benchmark(r) \/ Cancelled(r)
  PROVE  UniverseIInv'
<1>. DEFINE t == run[r]
<1>1. RunShape(t) /\ OnlyRuns
  BY DEF UniverseIInv, LoadBars, LoadChunk, RunChunk, Benchmark, Cancelled
<1>2. CASE Refused(r)
  BY <1>1, <1>2, RunRefused
<1>3. CASE t.at = "bars" /\ Advances(r, [t EXCEPT !.at = "done"])
  <2>. DEFINE next == [t EXCEPT !.at = "done"]
  <2>1. /\ next.at = "done" /\ next.codes = t.codes /\ next.used = t.used /\ next.seen = t.seen
        /\ next.days = t.days /\ next.mode = t.mode /\ next.filters = t.filters
    OBVIOUS
  <2>2. t.mode = "filtered" /\ Bound(next) /\ Filtered(next)
    BY <1>1, <1>3, <2>1 DEF RunShape, Bound, Uncompared, Filtered
  <2>3. RunShape(next)
    <3>. HIDE DEF next
    <3>. QED BY <1>1, <1>3, <2>1, <2>2 DEF RunShape
  <2>. QED BY <1>1, <1>3, <2>3, RunMoves
<1>4. CASE t.at = "benchmark" /\ Advances(r, [t EXCEPT !.at = "done"])
  <2>. DEFINE next == [t EXCEPT !.at = "done"]
  <2>1. /\ next.at = "done" /\ next.codes = t.codes /\ next.used = t.used /\ next.todo = t.todo
        /\ next.days = t.days /\ next.mode = t.mode /\ next.filters = t.filters
    OBVIOUS
  <2>2. t.mode = "full_a" /\ Bound(next) /\ Chunked(next)
    BY <1>1, <1>4, <2>1 DEF RunShape, Bound, Uncompared, Chunked
  <2>3. RunShape(next)
    <3>. HIDE DEF next
    <3>. QED BY <1>1, <1>4, <2>1, <2>2 DEF RunShape
  <2>. QED BY <1>1, <1>4, <2>3, RunMoves
<1>5. CASE LoadChunk(r)
  <2>. DEFINE chunk == Chunk(t.todo)
              next == [t EXCEPT !.at = "rows", !.seen = Snapshots(chunk),
                        !.bars = [d \in chunk |-> {c \in t.codes : source[d][c].bar = "good"}]]
  <2>1. /\ next.at = "rows" /\ next.codes = t.codes /\ next.used = t.used /\ next.todo = t.todo
        /\ next.days = t.days /\ next.mode = t.mode /\ next.filters = t.filters
    OBVIOUS
  <2>2. t.at = "chunk" /\ Advances(r, next)
    BY <1>5 DEF LoadChunk
  <2>3. t.mode = "full_a" /\ Bound(next) /\ Chunked(next)
    <3>. HIDE DEF next
    <3>. QED BY <1>1, <2>1, <2>2 DEF RunShape, Bound, Uncompared, Chunked
  <2>4. RunShape(next)
    <3>. HIDE DEF next
    <3>. QED BY <1>1, <2>1, <2>2, <2>3 DEF RunShape
  <2>. QED BY <1>1, <2>2, <2>4, RunMoves
<1>6. ASSUME RunChunk(r), ~Refused(r)
      PROVE  UniverseIInv'
  <2>. DEFINE used == [d \in DOMAIN t.used \cup DOMAIN t.bars |->
                         IF d \in DOMAIN t.used THEN t.used[d] ELSE Eligible(d, Instruments)]
              left == t.todo \ DOMAIN t.bars
              next == [t EXCEPT !.at = IF left = {} THEN "benchmark" ELSE "chunk", !.todo = left,
                                !.used = used, !.seen = NoRows, !.bars = NoRows]
  <2>1. t.at = "rows" /\ Advances(r, next)
    BY <1>6 DEF RunChunk
  <2>2. /\ next.at = IF left = {} THEN "benchmark" ELSE "chunk"
        /\ next.codes = t.codes /\ next.used = used /\ next.todo = left
        /\ next.days = t.days /\ next.mode = t.mode /\ next.filters = t.filters
    OBVIOUS
  <2>3. t.mode = "full_a" /\ Bound(t) /\ Chunked(t)
    BY <1>1, <2>1 DEF RunShape
  <2>4. Bound(next)
    <3>. HIDE DEF next, used, left
    <3>. QED BY <2>2, <2>3 DEF Bound, Uncompared
  <2>5. t.days \subseteq left \cup DOMAIN used
    BY <2>3 DEF Chunked
  <2>6. \A d \in DOMAIN used : d \in t.days => used[d] = Eligible(d, Instruments)
    BY <2>3 DEF Chunked
  <2>7. Chunked(next)
    <3>1. next.at \in {"benchmark", "done"} => t.days \subseteq DOMAIN used
      BY <2>2, <2>5
    <3>. HIDE DEF next, used, left
    <3>. QED BY <2>2, <2>3, <2>5, <2>6, <3>1 DEF Chunked
  <2>8. RunShape(next)
    <3>. HIDE DEF next, used, left
    <3>. QED BY <1>1, <2>1, <2>2, <2>3, <2>4, <2>7 DEF RunShape
  <2>. QED BY <1>1, <2>1, <2>8, RunMoves
<1>. QED BY <1>2, <1>3, <1>4, <1>5, <1>6 DEF LoadBars, Benchmark, Cancelled

LEMMA UpdateOk ==
  ASSUME UniverseIInv, Update
  PROVE  UniverseIInv'
<1>1. members' = members /\ snapshot' = snapshot /\ builder' = builder /\ run' = run
  BY DEF Update
<1>2. DaysWhole'
  BY <1>1 DEF UniverseIInv, DaysWhole, Built
<1>3. Kept
  BY <1>1 DEF Kept
<1>4. \A x \in Backtests : RunShape(run[x])'
  BY <1>1, <1>3, RunKept DEF UniverseIInv
<1>. QED BY <1>1, <1>2, <1>4 DEF UniverseIInv, BuilderShape

(* Two backtests never disagree about the universe of a day, however they  *)
(* read it, and use days of their own filters, but for those that only the *)
(* second statement of eligible_map saw (services/universe_membership.py,  *)
(* backtest/full_a.py).                                                    *)
THEOREM UniverseAgreedCorrect == UniverseSpec => []UniverseAgreed
<1>1. UniverseInit => UniverseIInv
  BY UniverseInitOk
<1>2. UniverseIInv /\ [UniverseNext]_universe => UniverseIInv'
  <2>. SUFFICES ASSUME UniverseIInv, [UniverseNext]_universe PROVE UniverseIInv'
    OBVIOUS
  <2>1. ASSUME NEW b \in Builders,
               \/ \E d \in Days : BuildForDate(b, d)
               \/ \E first, last \in Days : StartRange(b, first, last)
               \/ ReadChunk(b) \/ BuilderDies(b)
        PROVE  UniverseIInv'
    BY <2>1, BuildersOk
  <2>2. ASSUME NEW b \in Builders, Commit(b)
        PROVE  UniverseIInv'
    BY <2>2, CommitOk
  <2>3. ASSUME NEW r \in Backtests, NEW first \in Days, NEW last \in Days,
               \/ \E codes \in SUBSET Instruments \ {{}} : StartRun(r, "filtered", first, last, codes)
               \/ StartRun(r, "full_a", first, last, Instruments)
        PROVE  UniverseIInv'
    BY <2>3, StartOk
  <2>4. ASSUME NEW r \in Backtests, BindMembership(r) \/ MembershipCodes(r)
        PROVE  UniverseIInv'
    BY <2>4, BindOk, MembershipOk
  <2>5. ASSUME NEW r \in Backtests,
               LoadBars(r) \/ LoadChunk(r) \/ RunChunk(r) \/ Benchmark(r) \/ Cancelled(r)
        PROVE  UniverseIInv'
    BY <2>5, RunsOk
  <2>6. CASE Update
    BY <2>6, UpdateOk
  <2>7. CASE UNCHANGED universe
    <3>1. members' = members /\ snapshot' = snapshot /\ builder' = builder /\ run' = run
      BY <2>7 DEF universe
    <3>2. DaysWhole'
      BY <3>1 DEF UniverseIInv, DaysWhole, Built
    <3>3. \A x \in Backtests : RunShape(run[x])'
      BY <3>1, RunKept DEF UniverseIInv, Kept
    <3>. QED BY <3>1, <3>2, <3>3 DEF UniverseIInv, BuilderShape
  <2>. QED BY <2>1, <2>2, <2>3, <2>4, <2>5, <2>6, <2>7 DEF UniverseNext
<1>3. UniverseIInv => UniverseAgreed
  <2>. SUFFICES ASSUME UniverseIInv,
                       NEW r \in Backtests, run[r].at = "done", NEW d \in run[r].days
       PROVE  /\ Built(d)
              /\ run[r].used[d] = Eligible(d, run[r].codes)
              /\ d \notin Uncompared(run[r]) => snapshot[d].filters = run[r].filters
    BY DEF UniverseAgreed, UniverseIInv, DaysWhole
  <2>. DEFINE t == run[r]
  <2>1. RunShape(t)
    BY DEF UniverseIInv
  <2>2. Bound(t)
    BY <2>1 DEF RunShape
  <2>3. CASE t.mode = "filtered"
    BY <2>1, <2>2, <2>3 DEF RunShape, Filtered, Bound
  <2>4. CASE t.mode = "full_a"
    <3>1. Chunked(t) /\ t.codes \subseteq Instruments
      BY <2>1, <2>4 DEF RunShape
    <3>2. t.used[d] = Eligible(d, Instruments)
      BY <3>1 DEF Chunked
    <3>3. Eligible(d, Instruments) \subseteq t.codes
      BY <3>1 DEF Chunked
    <3>. QED BY <2>2, <2>4, <3>1, <3>2, <3>3, EligibleBound DEF Bound
  <2>. QED BY <2>1, <2>3, <2>4 DEF RunShape
<1>. QED BY <1>1, <1>2, <1>3, PTL DEF UniverseSpec
-----------------------------------------------------------------------------
(* Induction over the naturals, about a set instead of a predicate. *)
LEMMA NatInductionOnSet ==
  ASSUME NEW G, 0 \in G, \A n \in Nat : n \in G => n + 1 \in G
  PROVE  Nat \subseteq G
<1> SUFFICES ASSUME Nat \ G # {} PROVE FALSE
  OBVIOUS
<1>1. PICK m \in Nat \ G : \A x \in Nat \ G : ~(<<x, m>> \in OpToRel(<, Nat))
  BY NatLessThanWellFounded, WFMin
<1>2. m - 1 \in Nat
  OBVIOUS
<1>3. <<m - 1, m>> \in Nat \X Nat /\ <<m - 1, m>>[1] < <<m - 1, m>>[2]
  BY <1>2
<1>4. <<m - 1, m>> \in OpToRel(<, Nat)
  BY <1>3, Zenon DEF OpToRel
<1>5. m - 1 \in G
  BY <1>1, <1>2, <1>4
<1> QED BY <1>2, <1>5

(* A set of positions has a last one. *)
LEMMA LastPosition ==
  ASSUME NEW n \in Nat, NEW s \in SUBSET (1 .. n), s # {}
  PROVE  E!Max(s) \in s
<1> DEFINE G == {k \in Nat : \A t \in SUBSET (1 .. k) :
                   t # {} => \E x \in t : \A y \in t : x >= y}
<1>1. 0 \in G
  <2>1. 1 .. 0 = {}
    OBVIOUS
  <2> QED BY <2>1
<1>2. ASSUME NEW k \in Nat, k \in G PROVE k + 1 \in G
  <2> SUFFICES ASSUME NEW t \in SUBSET (1 .. k + 1), t # {}
               PROVE  \E x \in t : \A y \in t : x >= y
    OBVIOUS
  <2>1. CASE k + 1 \in t
    BY <2>1
  <2>2. CASE k + 1 \notin t
    <3>1. t \in SUBSET (1 .. k)
      BY <2>2
    <3> QED BY <1>2, <3>1
  <2> QED BY <2>1, <2>2
<1> HIDE DEF G
<1>3. n \in G
  BY <1>1, <1>2, NatInductionOnSet
<1>4. \E x \in s : \A y \in s : x >= y
  BY <1>3 DEF G
<1> QED BY <1>4 DEF E!Max

LEMMA PositionSets ==
  ASSUME NEW n \in Nat
  PROVE  \A s \in SUBSET (1 .. n) :
           IsFiniteSet(s) /\ Cardinality(s) \in Nat /\ (Cardinality(s) = 0 <=> s = {})
<1>1. IsFiniteSet(1 .. n)
  BY FS_Interval
<1> QED BY <1>1, FS_Subset, FS_CardinalityType, FS_EmptySet

(* Induction over positions, from which the last is removed. *)
LEMMA PositionInduction ==
  ASSUME NEW n \in Nat, NEW G, {} \in G,
         \A s \in SUBSET (1 .. n) : s # {} /\ s \ {E!Max(s)} \in G => s \in G
  PROVE  1 .. n \in G
<1> DEFINE Good == {k \in Nat : \A s \in SUBSET (1 .. n) : Cardinality(s) = k => s \in G}
<1>0. \A s \in SUBSET (1 .. n) :
        IsFiniteSet(s) /\ Cardinality(s) \in Nat /\ (Cardinality(s) = 0 <=> s = {})
  BY PositionSets
<1>1. 0 \in Good
  BY <1>0
<1>2. ASSUME NEW k \in Nat, k \in Good PROVE k + 1 \in Good
  <2> SUFFICES ASSUME NEW s \in SUBSET (1 .. n), Cardinality(s) = k + 1 PROVE s \in G
    OBVIOUS
  <2>0. s # {}
    BY <1>0
  <2>1. s # {} /\ E!Max(s) \in s
    BY <2>0, LastPosition
  <2>2. Cardinality(s \ {E!Max(s)}) = Cardinality(s) - 1
    BY <1>0, <2>1, FS_RemoveElement
  <2>3. Cardinality(s \ {E!Max(s)}) = k
    BY <2>2
  <2>4. s \ {E!Max(s)} \in G
    BY <1>2, <2>3
  <2> QED BY <2>1, <2>4
<1> HIDE DEF Good
<1>3. Cardinality(1 .. n) \in Good
  BY <1>0, <1>1, <1>2, NatInductionOnSet
<1> QED BY <1>3 DEF Good
-----------------------------------------------------------------------------
(* What a fold of the module applies to one element. *)
FilledBy(a, i, bars) == E!Fill(a, pending[i], E!Delta(pending[i], bars), bars)
LeftOf(a, intent, bars) == IF intent.code \in E!Traded(bars) THEN a ELSE Append(a, intent)
AppliedTo(kind, a, x, bars) == IF kind = "fill" THEN FilledBy(a, x, bars) ELSE LeftOf(a, x, bars)

FoldSteps(kind, bars, seq, base, g, U) ==
  g = [s \in U |-> IF s = {} THEN base
                   ELSE AppliedTo(kind, g[s \ {E!Max(s)}], seq[E!Max(s)], bars)]

FillSteps(bars, seq, base, g, U) ==
  g = [s \in U |-> IF s = {} THEN base
                   ELSE E!Fill(g[s \ {E!Max(s)}], pending[seq[E!Max(s)]],
                             E!Delta(pending[seq[E!Max(s)]], bars), bars)]

LeftSteps(bars, seq, base, g, U) ==
  g = [s \in U |-> IF s = {} THEN base
                   ELSE IF seq[E!Max(s)].code \in E!Traded(bars) THEN g[s \ {E!Max(s)}]
                        ELSE Append(g[s \ {E!Max(s)}], seq[E!Max(s)])]

(* The function that such a fold chooses exists. *)
LEMMA StepsExist ==
  ASSUME NEW kind, NEW bars, NEW seq, NEW base, NEW n \in Nat
  PROVE  \E g : FoldSteps(kind, bars, seq, base, g, SUBSET (1 .. n))
<1> DEFINE Small(k) == {s \in SUBSET (1 .. n) : Cardinality(s) <= k}
           Good     == {k \in Nat : \E g : FoldSteps(kind, bars, seq, base, g, Small(k))}
<1>0. \A s \in SUBSET (1 .. n) :
        IsFiniteSet(s) /\ Cardinality(s) \in Nat /\ (Cardinality(s) = 0 <=> s = {})
  BY PositionSets
<1>1. 0 \in Good
  <2>1. FoldSteps(kind, bars, seq, base, [s \in Small(0) |-> base], Small(0))
    BY <1>0 DEF FoldSteps
  <2> QED BY <2>1
<1>2. ASSUME NEW k \in Nat, k \in Good PROVE k + 1 \in Good
  <2>1. PICK g : FoldSteps(kind, bars, seq, base, g, Small(k))
    BY <1>2
  <2> DEFINE next(f, s) == IF s = {} THEN base
                           ELSE AppliedTo(kind, f[s \ {E!Max(s)}], seq[E!Max(s)], bars)
             h == [s \in Small(k + 1) |-> next(g, s)]
  <2>2. ASSUME NEW s \in Small(k + 1), s # {} PROVE s \ {E!Max(s)} \in Small(k)
    <3>1. E!Max(s) \in s
      BY <2>2, LastPosition
    <3>2. Cardinality(s \ {E!Max(s)}) = Cardinality(s) - 1
      BY <1>0, <3>1, FS_RemoveElement
    <3>3. Cardinality(s) <= k + 1 /\ Cardinality(s) \in Nat
      BY <1>0
    <3>4. Cardinality(s \ {E!Max(s)}) <= k
      BY <3>2, <3>3
    <3>5. s \ {E!Max(s)} \in SUBSET (1 .. n)
      OBVIOUS
    <3> QED BY <3>4, <3>5
  <2>a. Small(k) \subseteq Small(k + 1)
    BY <1>0
  <2>b. \A s \in Small(k) : g[s] = next(g, s)
    BY <2>1 DEF FoldSteps
  <2>3. \A s \in Small(k) : h[s] = g[s]
    BY <2>a, <2>b
  <2> HIDE DEF Small
  <2>4. h = [s \in Small(k + 1) |-> next(h, s)]
    BY <2>2, <2>3
  <2> HIDE DEF h
  <2> QED BY <2>4 DEF FoldSteps
<1> HIDE DEF Good
<1>3. Nat \subseteq Good
  BY <1>1, <1>2, NatInductionOnSet
<1>4. Cardinality(1 .. n) \in Nat /\ Small(Cardinality(1 .. n)) = SUBSET (1 .. n)
  <2>1. \A s \in SUBSET (1 .. n) : Cardinality(s) <= Cardinality(1 .. n)
    BY <1>0, FS_Subset
  <2> QED BY <1>0, <2>1
<1> QED BY <1>3, <1>4 DEF Good

LEMMA FillsByChoice ==
  ASSUME NEW held, NEW bars, NEW order, NEW n \in Nat, DOMAIN order = 1 .. n
  PROVE  \E g : /\ FillSteps(bars, order, [cash |-> cash, held |-> held, filled |-> filled],
                             g, SUBSET (1 .. n))
                /\ E!ExecuteOpen(held, bars, order) = g[1 .. n]
<1> DEFINE base == [cash |-> cash, held |-> held, filled |-> filled]
<1>1. PICK g : FoldSteps("fill", bars, order, base, g, SUBSET (1 .. n))
  BY StepsExist
<1>2. FillSteps(bars, order, base, g, SUBSET (1 .. n))
  BY <1>1 DEF FoldSteps, FillSteps, AppliedTo, FilledBy
<1>3. \E h : FillSteps(bars, order, base, h, SUBSET DOMAIN order)
  BY <1>2
<1>4. E!ExecuteOpen(held, bars, order)
        = (CHOOSE h : FillSteps(bars, order, base, h, SUBSET DOMAIN order))[DOMAIN order]
  BY DEF E!ExecuteOpen, E!FoldLeft, E!MapThenFoldSet, FillSteps
<1> QED BY <1>3, <1>4

LEMMA LeftByChoice ==
  ASSUME NEW bars, NEW n \in Nat, DOMAIN pending = 1 .. n
  PROVE  \E g : LeftSteps(bars, pending, <<>>, g, SUBSET (1 .. n)) /\ E!Waiting(bars) = g[1 .. n]
<1>1. PICK g : FoldSteps("wait", bars, pending, <<>>, g, SUBSET (1 .. n))
  BY StepsExist
<1>2. LeftSteps(bars, pending, <<>>, g, SUBSET (1 .. n))
  BY <1>1 DEF FoldSteps, LeftSteps, AppliedTo, LeftOf
<1>3. \E h : LeftSteps(bars, pending, <<>>, h, SUBSET DOMAIN pending)
  BY <1>2
<1>4. E!Waiting(bars)
        = (CHOOSE h : LeftSteps(bars, pending, <<>>, h, SUBSET DOMAIN pending))[DOMAIN pending]
  BY DEF E!Waiting, E!FoldLeft, E!MapThenFoldSet, LeftSteps
<1> QED BY <1>3, <1>4
-----------------------------------------------------------------------------
(* An account of the matching. *)
IsAccount(a) == "filled" \in DOMAIN a /\ a.filled = [c \in Codes |-> a.filled[c]]

LEMMA FillOne ==
  ASSUME NEW a, IsAccount(a), NEW intent, NEW delta, NEW bars
  PROVE  /\ IsAccount(E!Fill(a, intent, delta, bars))
         /\ \A c \in Codes : c # intent.code =>
              E!Fill(a, intent, delta, bars).filled[c] = a.filled[c]
<1> DEFINE Only(b, c) == IsAccount(b) /\ \A e \in Codes : e # c => b.filled[e] = a.filled[e]
<1>1. ASSUME NEW c, NEW f, NEW b, DOMAIN b = DOMAIN a, b.filled = [a.filled EXCEPT ![c] = f]
      PROVE  Only(b, c)
  BY <1>1 DEF IsAccount
<1>2. \A c : Only(a, c)
  OBVIOUS
<1>3. ASSUME NEW c, NEW lots, NEW bar PROVE Only(E!Bought(a, c, lots, bar), c)
  <2> DEFINE px  == bar.open + bar.slip
             qty == IF E!BuyTotal(px, lots) <= a.cash THEN lots ELSE E!Affordable(px, a.cash)
             b   == [a EXCEPT !.cash = @ - E!BuyTotal(px, qty), !.held[c].qty = @ + qty,
                              !.filled[c] = @ + qty]
  <2>1. E!Bought(a, c, lots, bar) = IF qty <= 0 THEN a ELSE b
    BY DEF E!Bought
  <2> HIDE DEF px, qty
  <2>2. DOMAIN b = DOMAIN a /\ b.filled = [a.filled EXCEPT ![c] = @ + qty]
    BY DEF IsAccount
  <2> HIDE DEF b
  <2>3. Only(b, c)
    BY <1>1, <2>2
  <2> QED BY <1>2, <2>1, <2>3
<1>4. ASSUME NEW c, NEW lots, NEW bar PROVE Only(E!Sold(a, c, lots, bar), c)
  <2> DEFINE px  == bar.open - bar.slip
             qty == E!Smaller(lots, a.held[c].available)
             b   == [a EXCEPT !.cash = @ + E!SellProceeds(px, qty), !.filled[c] = @ + qty,
                     !.held[c] = [qty |-> @.qty - qty, available |-> @.available - qty]]
  <2>1. E!Sold(a, c, lots, bar) = IF qty <= 0 THEN a ELSE b
    BY DEF E!Sold
  <2> HIDE DEF px, qty
  <2>2. DOMAIN b = DOMAIN a /\ b.filled = [a.filled EXCEPT ![c] = @ + qty]
    BY DEF IsAccount
  <2> HIDE DEF b
  <2>3. Only(b, c)
    BY <1>1, <2>2
  <2> QED BY <1>2, <2>1, <2>3
<1> HIDE DEF Only
<1>5. Only(E!Fill(a, intent, delta, bars), intent.code)
  BY <1>2, <1>3, <1>4 DEF E!Fill
<1> QED BY <1>5 DEF Only

(* What is filled at a bar was ordered by an intent. *)
LEMMA FillsAnswer ==
  ASSUME NEW held, NEW bars, NEW order, NEW n \in Nat, DOMAIN order = 1 .. n,
         filled = [c \in Codes |-> filled[c]]
  PROVE  /\ IsAccount(E!ExecuteOpen(held, bars, order))
         /\ \A c \in Codes : E!ExecuteOpen(held, bars, order).filled[c] # filled[c] =>
              \E i \in 1 .. n : pending[order[i]].code = c
<1>1. PICK g : /\ FillSteps(bars, order, [cash |-> cash, held |-> held, filled |-> filled],
                             g, SUBSET (1 .. n))
               /\ E!ExecuteOpen(held, bars, order) = g[1 .. n]
  BY ONLY FillsByChoice, n \in Nat, DOMAIN order = 1 .. n
<1> DEFINE base == [cash |-> cash, held |-> held, filled |-> filled]
           OK(a, s) == /\ IsAccount(a)
                       /\ \A c \in Codes : a.filled[c] # filled[c] =>
                            \E i \in s : pending[order[i]].code = c
<1> DEFINE G == {s \in SUBSET (1 .. n) : OK(g[s], s)}
<1>2. {} \in G
  <2>1. g[{}] = base
    BY <1>1 DEF FillSteps
  <2> QED BY <2>1 DEF IsAccount
<1>3. ASSUME NEW s \in SUBSET (1 .. n), s # {}, s \ {E!Max(s)} \in G PROVE s \in G
  <2> DEFINE i == E!Max(s)
             a == g[s \ {i}]
             intent == pending[order[i]]
             delta  == E!Delta(intent, bars)
             b == E!Fill(a, intent, delta, bars)
  <2>1. i \in s
    BY <1>3, LastPosition
  <2>2. g[s] = b
    BY <1>1, <1>3 DEF FillSteps
  <2>3. OK(a, s \ {i})
    BY <1>3
  <2> HIDE DEF a, delta, intent
  <2>a. IsAccount(a)
    BY <2>3
  <2>4. /\ IsAccount(b)
        /\ \A c \in Codes : c # intent.code => b.filled[c] = a.filled[c]
    BY <2>a, FillOne
  <2> HIDE DEF b, i
  <2>5. OK(b, s)
    BY <2>1, <2>3, <2>4 DEF intent
  <2> QED BY <2>2, <2>5
<1> HIDE DEF G
<1>4. 1 .. n \in G
  BY <1>2, <1>3, PositionInduction
<1> QED BY <1>1, <1>4 DEF G

(* What waits is what waited already and had no bar. *)
LEMMA WaitingHasNoBar ==
  ASSUME NEW bars, NEW S, pending \in Seq(S)
  PROVE  E!Waiting(bars) \in Seq({x \in S : x.code \notin E!Traded(bars)})
<1> DEFINE n == Len(pending)
           W == {x \in S : x.code \notin E!Traded(bars)}
<1>1. n \in Nat /\ DOMAIN pending = 1 .. n /\ \A i \in 1 .. n : pending[i] \in S
  OBVIOUS
<1> HIDE DEF n
<1>2. PICK g : LeftSteps(bars, pending, <<>>, g, SUBSET (1 .. n)) /\ E!Waiting(bars) = g[1 .. n]
  BY ONLY <1>1, LeftByChoice
<1> DEFINE G == {s \in SUBSET (1 .. n) : g[s] \in Seq(W)}
<1>3. {} \in G
  BY <1>2 DEF LeftSteps
<1>4. ASSUME NEW s \in SUBSET (1 .. n), s # {}, s \ {E!Max(s)} \in G PROVE s \in G
  <2> DEFINE i == E!Max(s)
             a == g[s \ {i}]
  <2>1. i \in s
    BY <1>1, <1>4, LastPosition
  <2>2. g[s] = IF pending[i].code \in E!Traded(bars) THEN a ELSE Append(a, pending[i])
    BY <1>2, <1>4 DEF LeftSteps
  <2>3. a \in Seq(W)
    BY <1>4
  <2> HIDE DEF a, i
  <2>4. pending[i] \in S
    BY <1>1, <2>1
  <2>5. CASE pending[i].code \in E!Traded(bars)
    BY <2>2, <2>3, <2>5
  <2>6. CASE pending[i].code \notin E!Traded(bars)
    <3>1. pending[i] \in W
      BY <2>4, <2>6
    <3> HIDE DEF W
    <3>2. Append(a, pending[i]) \in Seq(W)
      BY <2>3, <3>1
    <3> QED BY <2>2, <2>6, <3>2
  <2> QED BY <2>5, <2>6
<1> HIDE DEF G
<1>5. 1 .. n \in G
  BY <1>1, <1>3, <1>4, PositionInduction
<1> QED BY <1>2, <1>5 DEF G

(* The instance has a definition of its own, which is the same.            *)
LEMMA SameCardinality == ASSUME NEW S PROVE E!Cardinality(S) = Cardinality(S)
  BY DEF E!Cardinality, Cardinality

(* New intents are of this bar. *)
LEMMA IntentsAreNew ==
  ASSUME NEW held, NEW eligible, NEW bars, NEW wanted, IsFiniteSet(DOMAIN wanted)
  PROVE  \E T : /\ E!Intents(held, eligible, wanted, bars) \in Seq(T)
                /\ \A x \in T : x.at = clock + 1
<1> DEFINE exits == {c \in Codes \ eligible : held[c].qty > 0}
           k == Cardinality(exits)
           m == Cardinality(DOMAIN wanted)
           sales(i) == E!Intent(E!SetToSeq(exits)[i], 0, bars)
           wishes(i) == E!Intent(E!SetToSeq(DOMAIN wanted)[i], wanted[E!SetToSeq(DOMAIN wanted)[i]], bars)
           T == {sales(i) : i \in 1 .. k} \cup {wishes(i) : i \in 1 .. m}
<1>1. k \in Nat /\ m \in Nat
  BY CodesAssumption, FS_Subset, FS_CardinalityType
<1>2. E!Intents(held, eligible, wanted, bars)
        = [i \in 1 .. k |-> sales(i)] \o [i \in 1 .. m |-> wishes(i)]
  BY SameCardinality DEF E!Intents
<1>3. \A i : sales(i).at = clock + 1 /\ wishes(i).at = clock + 1
  BY DEF E!Intent
<1> HIDE DEF sales, wishes, k, m
<1>4. [i \in 1 .. k |-> sales(i)] \in Seq(T) /\ [i \in 1 .. m |-> wishes(i)] \in Seq(T)
  BY <1>1
<1>6. \A x \in T : x.at = clock + 1
  BY <1>3
<1> HIDE DEF T
<1>5. E!Intents(held, eligible, wanted, bars) \in Seq(T)
  <2> DEFINE a == [i \in 1 .. k |-> sales(i)]
             b == [i \in 1 .. m |-> wishes(i)]
  <2>1. a \in Seq(T) /\ b \in Seq(T) /\ E!Intents(held, eligible, wanted, bars) = a \o b
    BY <1>2, <1>4
  <2> HIDE DEF a, b
  <2> QED BY <2>1
<1> QED BY <1>5, <1>6

(* An intent that waits was submitted at the last bar of its instrument, or later. *)
Timely(x) == x.code \in Codes => x.at >= barAt[x.code]

EngineInv ==
  /\ clock \in Nat /\ barAt \in [Codes -> 0 .. clock]
  /\ filled = [c \in Codes |-> filled[c]]
  /\ pending \in Seq({pending[i] : i \in DOMAIN pending})
  /\ \A i \in DOMAIN pending : Timely(pending[i])

LEMMA StepTimely ==
  ASSUME EngineInv, NEW bars, NEW newDay, NEW eligible, NEW wanted, IsFiniteSet(DOMAIN wanted),
         E!Step(bars, newDay, eligible, wanted)
  PROVE  /\ EngineInv'
         /\ \A c \in Codes : filled'[c] # filled[c] =>
              \E i \in DOMAIN pending : pending[i].code = c /\ pending[i].at >= barAt[c]
<1> DEFINE S == {pending[i] : i \in DOMAIN pending}
           held == E!SettleT1(position, newDay)
<1>1. PICK order \in E!Orders(bars) :
        /\ clock' = clock + 1 /\ filled' = E!ExecuteOpen(held, bars, order).filled
        /\ \E after : pending' = E!Waiting(bars) \o E!Intents(after, eligible, wanted, bars)
        /\ barAt' = [c \in Codes |-> IF c \in E!Traded(bars) THEN clock + 1 ELSE barAt[c]]
  BY DEF E!Step
<1>2. clock \in Nat /\ clock' \in Nat /\ barAt' \in [Codes -> 0 .. clock']
  BY <1>1 DEF EngineInv
<1>3. PICK n \in Nat : DOMAIN order = 1 .. n /\ \A i \in 1 .. n : order[i] \in E!Due(bars)
  <2> DEFINE D == {i \in E!Due(bars) : E!Delta(pending[i], bars) # 0}
  <2>1. order \in E!SetToSeqs(D)
    BY <1>1 DEF E!Orders
  <2>2. IsFiniteSet(D)
    <3>1. Len(pending) \in Nat /\ DOMAIN pending = 1 .. Len(pending)
      BY DEF EngineInv
    <3>2. IsFiniteSet(1 .. Len(pending))
      BY <3>1, FS_Interval
    <3> QED BY <3>1, <3>2, FS_Subset DEF E!Due
  <2>3. Cardinality(D) \in Nat
    BY <2>2, FS_CardinalityType
  <2> HIDE DEF D
  <2>4. order \in [1 .. Cardinality(D) -> D]
    BY <2>1, SameCardinality DEF E!SetToSeqs
  <2> QED BY <2>3, <2>4 DEF D
<1>4. /\ IsAccount(E!ExecuteOpen(held, bars, order))
      /\ \A c \in Codes : E!ExecuteOpen(held, bars, order).filled[c] # filled[c] =>
           \E i \in 1 .. n : pending[order[i]].code = c
  <2>1. filled = [c \in Codes |-> filled[c]]
    BY DEF EngineInv
  <2> HIDE DEF held
  <2> QED BY ONLY <1>3, <2>1, FillsAnswer
<1>5. /\ filled' = [c \in Codes |-> filled'[c]]
      /\ \A c \in Codes : filled'[c] # filled[c] =>
           \E i \in DOMAIN pending : pending[i].code = c /\ pending[i].at >= barAt[c]
  <2>1. filled' = [c \in Codes |-> filled'[c]]
    BY <1>1, <1>4 DEF IsAccount
  <2> SUFFICES ASSUME NEW c \in Codes, filled'[c] # filled[c]
               PROVE  \E i \in DOMAIN pending : pending[i].code = c /\ pending[i].at >= barAt[c]
    BY <2>1
  <2>2. PICK j \in 1 .. n : pending[order[j]].code = c
    BY <1>1, <1>4
  <2>3. order[j] \in DOMAIN pending
    BY <1>3 DEF E!Due
  <2> QED BY <2>2, <2>3 DEF EngineInv, Timely
<1>6. PICK T : /\ pending' \in Seq({x \in S : x.code \notin E!Traded(bars)} \cup T)
               /\ \A x \in T : x.at = clock + 1
  <2>1. PICK after : pending' = E!Waiting(bars) \o E!Intents(after, eligible, wanted, bars)
    BY <1>1
  <2>2. E!Waiting(bars) \in Seq({x \in S : x.code \notin E!Traded(bars)})
    BY WaitingHasNoBar DEF EngineInv
  <2>3. PICK T : /\ E!Intents(after, eligible, wanted, bars) \in Seq(T)
                 /\ \A x \in T : x.at = clock + 1
    BY IntentsAreNew
  <2> DEFINE W == {x \in S : x.code \notin E!Traded(bars)}
  <2>4. E!Waiting(bars) \in Seq(W \cup T) /\ E!Intents(after, eligible, wanted, bars) \in Seq(W \cup T)
    BY <2>2, <2>3
  <2>5. pending' \in Seq(W \cup T)
    BY <2>1, <2>4
  <2> QED BY <2>3, <2>5
<1>7. pending' \in Seq({pending'[i] : i \in DOMAIN pending'})
  BY <1>6
<1>8. ASSUME NEW i \in DOMAIN pending' PROVE Timely(pending[i])'
  <2> DEFINE x == pending'[i]
  <2>1. x \in {y \in S : y.code \notin E!Traded(bars)} \/ x \in T
    BY <1>6
  <2>2. CASE x \in T
    BY <1>1, <1>2, <1>6, <2>2 DEF Timely
  <2>3. CASE x \in S /\ x.code \notin E!Traded(bars)
    BY <1>1, <2>3 DEF Timely, EngineInv
  <2> QED BY <2>1, <2>2, <2>3
<1> QED BY <1>2, <1>5, <1>7, <1>8 DEF EngineInv

(* What is filled at a bar was ordered by an intent that waited since the  *)
(* last bar of its instrument: no order is filled at a bar the strategy    *)
(* had seen when it ordered, and none outlives the next bar.  Any finite   *)
(* set of instruments, any bars, targets and capital.                      *)
THEOREM OnNextBarCorrect == E!EngineSpec => OnNextBar
<1>1. E!EngineInit => EngineInv
  BY DEF E!EngineInit, EngineInv, E!Nothing, Timely
<1>2. EngineInv /\ [E!EngineNext]_(E!engine)
        => /\ EngineInv'
           /\ [\A c \in Codes : filled'[c] # filled[c] =>
                \E i \in DOMAIN pending : pending[i].code = c /\ pending[i].at >= barAt[c]]_(E!engine)
  <2> SUFFICES ASSUME EngineInv, [E!EngineNext]_(E!engine)
               PROVE  /\ EngineInv'
                      /\ [\A c \in Codes : filled'[c] # filled[c] =>
                           \E i \in DOMAIN pending :
                             pending[i].code = c /\ pending[i].at >= barAt[c]]_(E!engine)
    OBVIOUS
  <2>1. ASSUME NEW codes \in SUBSET Codes, NEW wanted \in E!Wishes(codes)
        PROVE  IsFiniteSet(DOMAIN wanted)
    BY CodesAssumption, FS_Subset DEF E!Wishes
  <2>2. CASE E!EngineNext
    <3>1. \A bars : E!Traded(bars) \in SUBSET Codes
      BY DEF E!Traded
    <3>2. PICK bars, newDay, eligible, wanted :
            IsFiniteSet(DOMAIN wanted) /\ E!Step(bars, newDay, eligible, wanted)
      BY <2>1, <2>2, <3>1 DEF E!EngineNext
    <3> QED BY <3>2, StepTimely
  <2>3. CASE UNCHANGED E!engine
    BY <2>3 DEF E!engine, EngineInv, Timely
  <2> QED BY <2>2, <2>3
<1> QED BY <1>1, <1>2, PTL DEF E!EngineSpec, OnNextBar, E!OnNextBar
=============================================================================
