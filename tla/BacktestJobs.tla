----------------------------- MODULE BacktestJobs -----------------------------
(***************************************************************************)
(* The asynchronous backtest jobs: services/backtest_jobs.py with the part *)
(* of services/backtest_run.py that saves the run of a full_a job.         *)
(*                                                                         *)
(* API requests insert rows, ask for cancellation or delete an account;    *)
(* worker processes claim rows, compute outside any transaction, and write *)
(* back.  Each transaction is one action; between two of them a worker     *)
(* knows only the job id and the claim token it took.  A claim is a lease: *)
(* updated_at is refreshed by progress, and a running job whose updated_at *)
(* is older than backtest_job_lease_seconds is claimed anew, whether its   *)
(* worker died or is only slow.                                            *)
(*                                                                         *)
(* updated_at is kept as one bit (fresh); a uuid token is a number that    *)
(* was not used before; progress counts, payloads and errors are left out. *)
(*                                                                         *)
(* QueuedOnly, IndexAllowsAll and FinalIgnoringCancel are faulty variants  *)
(* of the definition after each of them; the specification does not use    *)
(* them.                                                                   *)
(***************************************************************************)
EXTENDS Naturals, FiniteSets

CONSTANTS
  Users, JobIds,
  Requests,     \* concurrent POSTs of full_a jobs
  Workers,      \* worker processes
  MaxStalls,    \* bound: how often a live worker outlives its lease
  MaxCrashes    \* bound: how often a worker dies with a job

ASSUME BoundsAssumption == MaxStalls \in Nat /\ MaxCrashes \in Nat
ASSUME NoneAssumption   == "none" \notin Users \cup JobIds

VARIABLES
  jobs,     \* table backtest_jobs
  runs,     \* the jobs with a row in backtest_runs (job_id is unique there)
  deleted,  \* the users whose account was deleted
  request,  \* for each POST, the user it found without an active full_a job
  worker,   \* the local state of each worker
  claims,   \* the number of tokens generated
  stalls, crashes

vars == <<jobs, runs, deleted, request, worker, claims, stalls, crashes>>

None == "none"
ActiveStatus == {"queued", "running"}
Ended    == {"completed", "failed", "cancelled"}
Statuses == ActiveStatus \cup Ended \cup {"none", "deleted"}
Kinds    == {"grid", "full_a"}

NoJob == [status |-> "none", kind |-> "grid", user |-> None, cancel |-> FALSE,
          token |-> 0, fresh |-> FALSE]
Idle  == [pc |-> "idle", job |-> None, token |-> 0, outcome |-> None]

Active(u) == {j \in JobIds : /\ jobs[j].user = u /\ jobs[j].kind = "full_a"
                             /\ jobs[j].status \in ActiveStatus}

(* The row a transaction finds with WHERE id = job AND claim_token = token *)
Holds(j, token) == jobs[j].token = token

Job(w) == jobs[worker[w].job]
HoldsClaim(w) == Holds(worker[w].job, worker[w].token)

SetJob(j, job) == jobs' = [jobs EXCEPT ![j] = job]
Become(w, pc, outcome) ==
  worker' = [worker EXCEPT ![w].pc = pc, ![w].outcome = outcome]
-----------------------------------------------------------------------------
Init ==
  /\ jobs = [j \in JobIds |-> NoJob]
  /\ runs = {} /\ deleted = {}
  /\ request = [r \in Requests |-> None]
  /\ worker = [w \in Workers |-> Idle]
  /\ claims = 0 /\ stalls = 0 /\ crashes = 0

Insert(j, kind, u) ==
  SetJob(j, [NoJob EXCEPT !.status = "queued", !.kind = kind, !.user = u, !.fresh = TRUE])

EnqueueGrid(u, j) ==
  /\ u \notin deleted /\ jobs[j].status = "none"
  /\ Insert(j, "grid", u)
  /\ UNCHANGED <<runs, deleted, request, worker, claims, stalls, crashes>>

(* enqueue_full_a looks for an active job of the user ... *)
CheckActive(r, u) ==
  /\ request[r] = None
  /\ u \notin deleted /\ Active(u) = {}
  /\ request' = [request EXCEPT ![r] = u]
  /\ UNCHANGED <<jobs, runs, deleted, worker, claims, stalls, crashes>>

(* ... and inserts one; the unique index over active full_a jobs and the   *)
(* foreign key to the user refuse the row if either has changed.           *)
IndexAllowsAll(u) == u \notin deleted
IndexAllows(u) == u \notin deleted /\ Active(u) = {}

EnqueueFullA(r, j) ==
  /\ request[r] # None /\ jobs[j].status = "none"
  /\ IF IndexAllows(request[r]) THEN Insert(j, "full_a", request[r]) ELSE UNCHANGED jobs
  /\ request' = [request EXCEPT ![r] = None]
  /\ UNCHANGED <<runs, deleted, worker, claims, stalls, crashes>>

(* Any change of a row sets updated_at (onupdate), so asking a running job *)
(* to stop also renews its lease; asking again changes nothing.            *)
RequestCancel(j) ==
  /\ jobs[j].status \in ActiveStatus /\ ~jobs[j].cancel
  /\ SetJob(j, [jobs[j] EXCEPT !.cancel = TRUE, !.fresh = TRUE,
                               !.status = IF @ = "queued" THEN "cancelled" ELSE @])
  /\ UNCHANGED <<runs, deleted, request, worker, claims, stalls, crashes>>

(* delete_account removes the user's jobs and runs in one transaction. *)
DeleteAccount(u) ==
  LET gone == {j \in JobIds : jobs[j].user = u /\ jobs[j].status # "none"}
  IN  /\ u \notin deleted
      /\ deleted' = deleted \cup {u}
      /\ jobs' = [j \in JobIds |->
                    IF j \in gone THEN [NoJob EXCEPT !.status = "deleted"] ELSE jobs[j]]
      /\ runs' = runs \ gone
      /\ UNCHANGED <<request, worker, claims, stalls, crashes>>
-----------------------------------------------------------------------------
QueuedOnly(j) == jobs[j].status = "queued"
Claimable(j) ==
  \/ jobs[j].status = "queued"
  \/ jobs[j].status = "running" /\ ~jobs[j].fresh

(* claim_next_job takes the oldest row that no transaction has locked, so  *)
(* it can be any claimable one.                                            *)
Claim(w, j) ==
  /\ worker[w].pc = "idle"
  /\ Claimable(j)
  /\ IF jobs[j].cancel
     THEN /\ SetJob(j, [jobs[j] EXCEPT !.status = "cancelled", !.fresh = TRUE])
          /\ UNCHANGED <<worker, claims>>
     ELSE /\ SetJob(j, [jobs[j] EXCEPT !.status = "running", !.token = claims + 1,
                                       !.fresh = TRUE])
          /\ worker' = [worker EXCEPT ![w] =
                          [pc |-> "claimed", job |-> j, token |-> claims + 1,
                           outcome |-> None]]
          /\ claims' = claims + 1
  /\ UNCHANGED <<runs, deleted, request, stalls, crashes>>

(* process_job; a full_a job that already has a run returns that run. *)
Begin(w) ==
  /\ worker[w].pc = "claimed"
  /\ IF worker[w].job \in runs THEN Become(w, "finish", "completed")
     ELSE Become(w, "running", None)
  /\ UNCHANGED <<jobs, runs, deleted, request, claims, stalls, crashes>>

(* _set_progress. *)
Progress(w) ==
  /\ worker[w].pc = "running" /\ HoldsClaim(w)
  /\ SetJob(worker[w].job, [Job(w) EXCEPT !.fresh = TRUE])
  /\ UNCHANGED <<runs, deleted, request, worker, claims, stalls, crashes>>

(* _is_cancel_requested: asked to stop, deleted, or claimed by another. *)
CancelSeen(w) == Job(w).cancel \/ ~HoldsClaim(w)

(* The computation checks for cancellation between its parts ... *)
Stop(w) ==
  /\ worker[w].pc = "running" /\ CancelSeen(w)
  /\ Become(w, "finish", "cancelled")
  /\ UNCHANGED <<jobs, runs, deleted, request, claims, stalls, crashes>>

(* ... or ends, with a result or an error. *)
Compute(w, outcome) ==
  /\ worker[w].pc = "running"
  /\ IF outcome = "completed" /\ Job(w).kind = "full_a" THEN Become(w, "computed", None)
     ELSE Become(w, "finish", outcome)
  /\ UNCHANGED <<jobs, runs, deleted, request, claims, stalls, crashes>>

(* run_full_a_and_save checks once more ... *)
CheckBeforeSave(w) ==
  /\ worker[w].pc = "computed"
  /\ IF CancelSeen(w) THEN Become(w, "finish", "cancelled") ELSE Become(w, "save", None)
  /\ UNCHANGED <<jobs, runs, deleted, request, claims, stalls, crashes>>

(* ... and _save_run writes the run and completes the job in one           *)
(* transaction, if the claim still stands and nobody asked to stop.        *)
MaySave(w) == HoldsClaim(w) /\ Job(w).status = "running" /\ ~Job(w).cancel

SaveRun(w) ==
  /\ worker[w].pc = "save"
  /\ IF MaySave(w)
     THEN /\ runs' = runs \cup {worker[w].job}
          /\ SetJob(worker[w].job, [Job(w) EXCEPT !.status = "completed", !.fresh = TRUE])
          /\ worker' = [worker EXCEPT ![w] = Idle]
     ELSE Become(w, "finish", "cancelled") /\ UNCHANGED <<jobs, runs>>
  /\ UNCHANGED <<deleted, request, claims, stalls, crashes>>

(* The transaction of _save_run is rolled back with an exception. *)
SaveFails(w) ==
  /\ worker[w].pc = "save"
  /\ Become(w, "finish", "failed")
  /\ UNCHANGED <<jobs, runs, deleted, request, claims, stalls, crashes>>

(* _finish: fenced by the token; a cancellation accepted meanwhile wins. *)
FinalIgnoringCancel(job, outcome) == outcome
Final(job, outcome) == IF job.cancel THEN "cancelled" ELSE outcome

Finish(w) ==
  /\ worker[w].pc = "finish"
  /\ IF HoldsClaim(w)
     THEN SetJob(worker[w].job,
                 [Job(w) EXCEPT !.status = Final(Job(w), worker[w].outcome), !.fresh = TRUE])
     ELSE UNCHANGED jobs
  /\ worker' = [worker EXCEPT ![w] = Idle]
  /\ UNCHANGED <<runs, deleted, request, claims, stalls, crashes>>
-----------------------------------------------------------------------------
Busy(w) == worker[w].pc # "idle"

Crash(w) ==
  /\ Busy(w) /\ crashes < MaxCrashes
  /\ worker' = [worker EXCEPT ![w] = Idle]
  /\ crashes' = crashes + 1
  /\ UNCHANGED <<jobs, runs, deleted, request, claims, stalls>>

(* A live worker makes no progress for longer than its lease. *)
Stall(w) ==
  /\ Busy(w) /\ HoldsClaim(w) /\ Job(w).fresh /\ stalls < MaxStalls
  /\ SetJob(worker[w].job, [Job(w) EXCEPT !.fresh = FALSE])
  /\ stalls' = stalls + 1
  /\ UNCHANGED <<runs, deleted, request, worker, claims, crashes>>

(* A running job that nobody works on any more runs out of its lease. *)
LeaseRunsOut(j) ==
  /\ jobs[j].status = "running" /\ jobs[j].fresh
  /\ \A w \in Workers : ~(Busy(w) /\ worker[w].job = j /\ HoldsClaim(w))
  /\ SetJob(j, [jobs[j] EXCEPT !.fresh = FALSE])
  /\ UNCHANGED <<runs, deleted, request, worker, claims, stalls, crashes>>

Work(w) ==
  \/ \E j \in JobIds : Claim(w, j)
  \/ Begin(w) \/ Progress(w) \/ Stop(w)
  \/ \E outcome \in {"completed", "failed"} : Compute(w, outcome)
  \/ CheckBeforeSave(w) \/ SaveRun(w) \/ SaveFails(w) \/ Finish(w)

Next ==
  \/ \E u \in Users, j \in JobIds : EnqueueGrid(u, j)
  \/ \E r \in Requests, u \in Users : CheckActive(r, u)
  \/ \E r \in Requests, j \in JobIds : EnqueueFullA(r, j)
  \/ \E j \in JobIds : RequestCancel(j) \/ LeaseRunsOut(j)
  \/ \E u \in Users : DeleteAccount(u)
  \/ \E w \in Workers : Work(w) \/ Crash(w) \/ Stall(w)

Spec == Init /\ [][Next]_vars

(* Every worker process polls and works (it is restarted when it dies),    *)
(* and time passes.                                                        *)
Fairness ==
  /\ \A w \in Workers : WF_vars(Work(w))
  /\ \A j \in JobIds : WF_vars(LeaseRunsOut(j))
-----------------------------------------------------------------------------
JobRows == [status : Statuses, kind : Kinds, user : Users \cup {None},
            cancel : BOOLEAN, token : Nat, fresh : BOOLEAN]
LocalStates == [pc : {"idle", "claimed", "running", "computed", "save", "finish"},
                job : JobIds \cup {None}, token : Nat, outcome : Ended \cup {None}]

(* Types; a row has an owner from its insertion until it is deleted. *)
TypeOK ==
  /\ jobs \in [JobIds -> JobRows]
  /\ \A j \in JobIds :
       jobs[j].user \in Users <=> jobs[j].status \in ActiveStatus \cup Ended
  /\ runs \subseteq JobIds /\ deleted \subseteq Users
  /\ request \in [Requests -> Users \cup {None}]
  /\ worker \in [Workers -> LocalStates]
  /\ \A w \in Workers : Busy(w) => worker[w].job \in JobIds
  /\ claims \in Nat /\ stalls \in 0 .. MaxStalls /\ crashes \in 0 .. MaxCrashes

(* A user never has two full_a jobs that are queued or running, however    *)
(* concurrent POSTs interleave (enqueue_full_a, lines 113-138).            *)
OneActiveFullA == \A u \in Users : Cardinality(Active(u)) <= 1

(* A full_a job is completed if and only if its run is saved: no run of a  *)
(* cancelled, failed, re-claimed or deleted job, no completion without it. *)
RunsMatchJobs ==
  runs = {j \in JobIds : jobs[j].kind = "full_a" /\ jobs[j].status = "completed"}

(* What the users are promised: a job ends once and stays ended, and one   *)
(* that was asked to stop is never completed or failed (JobContract).      *)
Contract == INSTANCE JobContract
  WITH state <- [j \in JobIds |-> jobs[j].status],
       asked <- {j \in JobIds : jobs[j].cancel},
       saved <- runs
ContractKept == Contract!Spec

(* Every job ends: a crashed worker's job is claimed anew, a slow worker's *)
(* is not lost, and a cancelled one stops.                                 *)
JobsEnd ==
  \A j \in JobIds : jobs[j].status \in ActiveStatus ~> jobs[j].status \notin ActiveStatus
=============================================================================
