----------------------------- MODULE MCResearch -----------------------------
(* How a model gets to be Champion: the jobs that train it and infer with  *)
(* it, and the program it has to serve.  A job hands over a finished row   *)
(* of the registry and the program never writes it before the promotion,   *)
(* which PredictionOps allows at any time; so each behaviour moves one of  *)
(* the two, and part says which.                                           *)
EXTENDS Evolution

CONSTANTS Training, Inference, Workers, MaxAttempts, MaxJobFaults

ASSUME JobsAssumption == Training \cup Inference \subseteq Nat \ {0} /\ MaxAttempts \in Nat

VARIABLES part, job, lock, worker, model, champion, forecasts, jobFaults

ops == <<job, lock, worker, model, champion, forecasts, jobFaults>>

Ops == INSTANCE PredictionOps WITH faults <- jobFaults, MaxFaults <- MaxJobFaults

ResearchInit == part \in {"program", "jobs"} /\ Init /\ Ops!Init

ResearchNext ==
  /\ UNCHANGED part
  /\ \/ part = "program" /\ Next /\ UNCHANGED ops
     \/ part = "jobs" /\ Ops!Next /\ UNCHANGED vars

(* Evolution!FairSpec or Ops!FairSpec *)
ResearchSpec ==
  /\ ResearchInit /\ [][ResearchNext]_<<part, vars, ops>>
  /\ WF_vars(part = "program" /\ LeaseRunsOut /\ UNCHANGED faults)
  /\ \A a \in Actors : WF_vars(part = "program" /\ Continues(a))
  /\ \A a \in Schedulers : WF_vars(part = "program" /\ List(a))
  /\ WF_ops(part = "jobs" /\ \E w \in Workers : Ops!Claim(w))
  /\ \A w \in Workers : WF_ops(part = "jobs" /\ Ops!Works(w))
  /\ \A j \in Training \cup Inference : WF_ops(part = "jobs" /\ Ops!Passes(j))

(* The properties of PredictionOps. *)
OneModelPerJob    == Ops!OneModelPerJob
OpsJobsEnd        == Ops!OpsJobsEnd
=============================================================================
