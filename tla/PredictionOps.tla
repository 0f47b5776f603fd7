---------------------------- MODULE PredictionOps ----------------------------
(***************************************************************************)
(* The queue of training and inference jobs, services/prediction_ops.py,   *)
(* and the registry they publish to, services/prediction_registry.py.      *)
(*                                                                         *)
(* A process claims a job under a token and a lease, which a heartbeat     *)
(* renews, and holds an advisory lock while it executes it.  What it       *)
(* publishes, and the end of the job, are transactions that check the      *)
(* token.  Each transaction is an action.  Two processes run the job of    *)
(* the scheduler when a leader that was replaced still executes one.       *)
(*                                                                         *)
(* Jobs are numbered in the order of created_at.  The token of a claim is  *)
(* the number of the attempt it begins.  What may be wrong with the data,  *)
(* the features or the artifact of a job is a fault.  Forecasts are made   *)
(* for all codes of a job; those that the command line asks for, and the   *)
(* evidence that a promotion needs (Evolution), are left out.              *)
(*                                                                         *)
(* AnyToken and NewOnly are faulty variants of the definition after each;  *)
(* the specification does not use them.                                    *)
(***************************************************************************)
EXTENDS Naturals, FiniteSets

CONSTANTS
  Training, Inference,  \* the numbers of the jobs of each type, from 1 on
  Workers,              \* processes
  MaxAttempts,          \* MAX_ATTEMPTS
  MaxFaults             \* bound: crashes, stalls, lost connections, errors

VARIABLES
  job,       \* table prediction_ops_jobs; leased and due are times that are to come, or past
  lock,      \* job -> the session that holds its advisory lock
  worker,    \* the local state of each process
  model,     \* table prediction_model_runs: status
  champion,  \* the model with is_champion
  forecasts, \* table prediction_forecasts: model and job (its codes and date)
  faults

opsVars == <<job, lock, worker, model, champion, forecasts, faults>>

Jobs   == Training \cup Inference
First  == <<0, 0>>                                  \* the Champion there is at first
Models == {First} \cup (Training \X (1 .. MaxAttempts))
Nobody == "nobody"

Published == {"validated", "rejected", "champion"}
NoJob == [status |-> "none", attempts |-> 0, token |-> 0, leased |-> FALSE, due |-> FALSE,
          result |-> First]
Idle  == [pc |-> "idle", job |-> 0, token |-> 0, model |-> First]

Fault == faults < MaxFaults /\ faults' = faults + 1
Goes(w, state) == worker' = [worker EXCEPT ![w] = state]
At(w, pc) == worker[w].pc = pc
-----------------------------------------------------------------------------
Init ==
  /\ job = [j \in Jobs |-> NoJob]
  /\ lock = [j \in Jobs |-> Nobody]
  /\ worker = [w \in Workers |-> Idle]
  /\ model = [m \in Models |-> IF m = First THEN "champion" ELSE "none"]
  /\ champion = First /\ forecasts = {} /\ faults = 0

(* enqueue: the key of a job that exists, whatever became of it, gives that *)
(* job.                                                                     *)
Enqueue(j) ==
  /\ job[j].status = "none" /\ \A i \in Jobs : i < j => job[i].status # "none"
  /\ job' = [job EXCEPT ![j].status = "queued", ![j].due = TRUE]
  /\ UNCHANGED <<lock, worker, model, champion, forecasts, faults>>

NewOnly(j) == job[j].status = "queued" /\ job[j].due
Claimable(j) ==
  /\ job[j].attempts < MaxAttempts /\ job[j].due
  /\ job[j].status = "queued" \/ (job[j].status = "running" /\ ~job[j].leased)

(* _claim: the oldest job; one whose executor still holds the lock is left. *)
Oldest == {j \in Jobs : Claimable(j) /\ \A i \in Jobs : i < j => ~Claimable(i)}

Claim(w) ==
  \E j \in Oldest :
    LET next == job[j].attempts + 1 IN
    /\ At(w, "idle") /\ (job[j].status = "running" => lock[j] = Nobody)
    /\ job' = [job EXCEPT ![j] = [status |-> "running", attempts |-> next, token |-> next,
                                  leased |-> TRUE, due |-> @.due, result |-> @.result]]
    /\ Goes(w, [pc |-> "claimed", job |-> j, token |-> next, model |-> First])
    /\ UNCHANGED <<lock, model, champion, forecasts, faults>>

(* process_next: a process that does not get the lock leaves the job as it  *)
(* is.                                                                      *)
TakeLock(w) ==
  LET j == worker[w].job IN
  /\ At(w, "claimed")
  /\ IF lock[j] = Nobody
     THEN lock' = [lock EXCEPT ![j] = w] /\ Goes(w, [worker[w] EXCEPT !.pc = "starting"])
     ELSE Goes(w, Idle) /\ UNCHANGED lock
  /\ UNCHANGED <<job, model, champion, forecasts, faults>>

(* The execution is over, and the lock is given back; the connection that  *)
(* held it may be gone, and giving it back raises.                         *)
Holds(w) == lock[worker[w].job] = w
Ends(w, outcome) ==
  /\ Goes(w, [worker[w] EXCEPT !.pc = IF Holds(w) THEN outcome ELSE "failed"])
  /\ lock' = IF Holds(w) THEN [lock EXCEPT ![worker[w].job] = Nobody] ELSE lock

EndsWith(w, m) ==
  /\ Goes(w, [worker[w] EXCEPT !.pc = IF Holds(w) THEN "succeeded" ELSE "failed", !.model = m])
  /\ lock' = IF Holds(w) THEN [lock EXCEPT ![worker[w].job] = Nobody] ELSE lock
-----------------------------------------------------------------------------
(* _execute, training: the models of the attempts so far.  A registration  *)
(* that stopped midway has no artifact checksum and fails                  *)
(* (_existing_training_result, recover_registration).                      *)
Attempts(j, a) == {j} \X (1 .. a)

Reusable(m) == model[m] \in Published

Scan(w) ==
  LET j == worker[w].job
      before == Attempts(j, job[j].attempts)
      found  == {m \in before : Reusable(m)}
      first  == CHOOSE m \in found : \A n \in found : m[2] <= n[2]
      passed == IF found = {} THEN before ELSE {m \in before : m[2] < first[2]}
  IN
  /\ At(w, "starting") /\ j \in Training
  /\ model' = [m \in Models |-> IF m \in passed /\ model[m] \in {"registering", "evaluated"}
                                THEN "failed" ELSE model[m]]
  /\ IF found # {} THEN EndsWith(w, first)
     ELSE Goes(w, [worker[w] EXCEPT !.pc = "registering", !.model = <<j, job[j].attempts>>])
          /\ UNCHANGED lock
  /\ UNCHANGED <<job, champion, forecasts, faults>>

(* _job_guard *)
AnyToken(w) == job[worker[w].job].status = "running" /\ job[worker[w].job].leased
Guard(w) == /\ job[worker[w].job].status = "running" /\ job[worker[w].job].leased
            /\ job[worker[w].job].token = worker[w].token

(* register_candidate: the row, the verdict of the evaluation, the artifact *)
SetModel(w, status) == model' = [model EXCEPT ![worker[w].model] = status]

Register(w) ==
  /\ At(w, "registering")
  /\ IF Guard(w) /\ model[worker[w].model] = "none"
     THEN /\ SetModel(w, "registering") /\ Goes(w, [worker[w] EXCEPT !.pc = "evaluating"])
          /\ UNCHANGED lock
     ELSE Ends(w, "failed") /\ UNCHANGED model
  /\ UNCHANGED <<job, champion, forecasts, faults>>

Evaluate(w) ==
  /\ At(w, "evaluating")
  /\ \/ /\ Guard(w) /\ SetModel(w, "evaluated")
        /\ Goes(w, [worker[w] EXCEPT !.pc = "publishing"]) /\ UNCHANGED lock
     \/ Guard(w) /\ SetModel(w, "rejected") /\ Ends(w, "succeeded")
     \/ ~Guard(w) /\ Ends(w, "failed") /\ UNCHANGED model
  /\ UNCHANGED <<job, champion, forecasts, faults>>

Publish(w) ==
  /\ At(w, "publishing")
  /\ IF Guard(w) THEN SetModel(w, "validated") /\ Ends(w, "succeeded")
     ELSE Ends(w, "failed") /\ UNCHANGED model
  /\ UNCHANGED <<job, champion, forecasts, faults>>

(* _execute, inference: for the model that is Champion now ... *)
ReadChampion(w) ==
  /\ At(w, "starting") /\ worker[w].job \in Inference
  /\ IF <<champion, worker[w].job>> \in forecasts THEN EndsWith(w, champion)
     ELSE Goes(w, [worker[w] EXCEPT !.pc = "inferring", !.model = champion]) /\ UNCHANGED lock
  /\ UNCHANGED <<job, model, champion, forecasts, faults>>

(* ... and that still is when they are stored (inference_guard).           *)
Pinned(w) == champion = worker[w].model

Store(w) ==
  LET forecast == <<worker[w].model, worker[w].job>> IN
  /\ At(w, "inferring")
  /\ IF Guard(w) /\ Pinned(w) /\ forecast \notin forecasts
     THEN forecasts' = forecasts \cup {forecast} /\ Ends(w, "succeeded")
     ELSE Ends(w, "failed") /\ UNCHANGED forecasts
  /\ UNCHANGED <<job, model, champion, faults>>

Executing == {"starting", "registering", "evaluating", "publishing", "inferring"}

Raises(w) ==
  /\ worker[w].pc \in Executing /\ Ends(w, "failed") /\ Fault
  /\ UNCHANGED <<job, model, champion, forecasts>>

(* _finish *)
Finished(r, w) ==
  CASE At(w, "succeeded")           -> [r EXCEPT !.status = "completed", !.result = worker[w].model]
    [] r.attempts >= MaxAttempts -> [r EXCEPT !.status = "failed"]
    [] OTHER                     -> [r EXCEPT !.status = "queued", !.due = FALSE]

Finish(w) ==
  LET j == worker[w].job IN
  /\ worker[w].pc \in {"succeeded", "failed"}
  /\ job' = IF job[j].status = "running" /\ job[j].token = worker[w].token
            THEN [job EXCEPT ![j] = [Finished(job[j], w) EXCEPT !.token = 0, !.leased = FALSE]]
            ELSE job
  /\ Goes(w, Idle)
  /\ UNCHANGED <<lock, model, champion, forecasts, faults>>
-----------------------------------------------------------------------------
(* _heartbeat, _renew *)
Beats(w) == worker[w].pc \in Executing
Renew(w) ==
  LET j == worker[w].job IN
  /\ Beats(w) /\ job[j].status = "running" /\ job[j].token = worker[w].token /\ ~job[j].leased
  /\ job' = [job EXCEPT ![j].leased = TRUE]
  /\ UNCHANGED <<lock, worker, model, champion, forecasts, faults>>

(* A lease runs out when no heartbeat renews it, or one that is late.      *)
Renewed(j) == \E w \in Workers : Beats(w) /\ worker[w].job = j /\ worker[w].token = job[j].token
LeaseRunsOut(j) ==
  /\ job[j].status = "running" /\ job[j].leased
  /\ job' = [job EXCEPT ![j].leased = FALSE]
  /\ UNCHANGED <<lock, worker, model, champion, forecasts>>

Unrenewed(j) == ~Renewed(j) /\ LeaseRunsOut(j) /\ UNCHANGED faults
Late(j)      == Renewed(j) /\ LeaseRunsOut(j) /\ Fault

Waited(j) ==
  /\ job[j].status = "queued" /\ ~job[j].due /\ job' = [job EXCEPT ![j].due = TRUE]
  /\ UNCHANGED <<lock, worker, model, champion, forecasts, faults>>

Crash(w) ==
  /\ ~At(w, "idle") /\ Fault /\ Goes(w, Idle)
  /\ lock' = [j \in Jobs |-> IF lock[j] = w THEN Nobody ELSE lock[j]]
  /\ UNCHANGED <<job, model, champion, forecasts>>

(* The connection that holds the lock breaks. *)
LoseLock(w) ==
  /\ worker[w].pc \in Executing /\ Holds(w) /\ Fault
  /\ lock' = [lock EXCEPT ![worker[w].job] = Nobody]
  /\ UNCHANGED <<job, worker, model, champion, forecasts>>

(* promote_candidate *)
Promote(m) ==
  /\ model[m] = "validated"
  /\ model' = [model EXCEPT ![m] = "champion"] /\ champion' = m
  /\ UNCHANGED <<job, lock, worker, forecasts, faults>>

Works(w) ==
  \/ TakeLock(w) \/ Scan(w) \/ Register(w) \/ Evaluate(w) \/ Publish(w)
  \/ ReadChampion(w) \/ Store(w) \/ Finish(w)

Passes(j) == Unrenewed(j) \/ Waited(j)

Next ==
  \/ \E j \in Jobs : Enqueue(j) \/ Passes(j) \/ Late(j)
  \/ \E w \in Workers : Claim(w) \/ Works(w) \/ Renew(w) \/ Raises(w) \/ Crash(w) \/ LoseLock(w)
  \/ \E m \in Models : Promote(m)

Spec == Init /\ [][Next]_opsVars

(* The scheduler calls process_next every thirty seconds, a process goes on *)
(* with what it does, and time passes.                                      *)
Fairness ==
  /\ WF_opsVars(\E w \in Workers : Claim(w))
  /\ \A w \in Workers : WF_opsVars(Works(w))
  /\ \A j \in Jobs : WF_opsVars(Passes(j))

FairSpec == Spec /\ Fairness
-----------------------------------------------------------------------------
(* However often a training job is taken over, repeated, or its late        *)
(* executor comes back, one of its attempts at most becomes a model that    *)
(* was judged (register_candidate, _existing_training_result).  Forecasts   *)
(* are stored for the Champion of that moment only, and neither they nor a  *)
(* judged model appear for a job that is over (_job_guard, inference_guard).*)
OneModelPerJob ==
  /\ [](\A j \in Training : Cardinality({m \in Models : m[1] = j /\ model[m] \in Published}) <= 1)
  /\ [][/\ \A f \in forecasts' \ forecasts : f[1] = champion /\ job[f[2]].status = "running"
        /\ \A m \in Models : model'[m] \in Published \ {model[m], "champion"} =>
             job[m[1]].status = "running"]_opsVars

(* A job ends, unless the process that makes its last attempt dies: no      *)
(* later claim takes it up then (_claim, MAX_ATTEMPTS).                     *)
OpsJobsEnd ==
  \A j \in Jobs : job[j].status = "queued" ~>
    \/ job[j].status \in {"completed", "failed"}
    \/ job[j].status = "running" /\ job[j].attempts = MaxAttempts
=============================================================================
