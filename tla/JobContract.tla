----------------------------- MODULE JobContract -----------------------------
(***************************************************************************)
(* What the backtest job queue promises to its users, without workers,     *)
(* claims, leases or crashes: a job starts, may be asked to stop, ends     *)
(* once, and keeps how it ended; a job that was asked to stop ends in no   *)
(* other way; a saved run belongs to a job that completed.                 *)
(***************************************************************************)
CONSTANT JobIds

VARIABLES
  state,   \* what the API reports of each job
  asked,   \* the jobs whose cancellation was accepted
  saved    \* the jobs with a saved run

vars == <<state, asked, saved>>

Ended  == {"completed", "failed", "cancelled"}
Active == {"queued", "running"}

Init ==
  /\ state = [j \in JobIds |-> "none"]
  /\ asked = {}
  /\ saved = {}

Submit(j) ==
  /\ state[j] = "none"
  /\ state' = [state EXCEPT ![j] = "queued"]
  /\ UNCHANGED <<asked, saved>>

Start(j) ==
  /\ state[j] = "queued" /\ j \notin asked
  /\ state' = [state EXCEPT ![j] = "running"]
  /\ UNCHANGED <<asked, saved>>

(* A queued job stops at once, a running one when its worker notices. *)
Ask(j) ==
  /\ state[j] \in Active
  /\ asked' = asked \cup {j}
  /\ state' = [state EXCEPT ![j] = IF @ = "queued" THEN "cancelled" ELSE @]
  /\ UNCHANGED saved

End(j, how) ==
  /\ state[j] = "running"
  /\ j \in asked => how = "cancelled"
  /\ state' = [state EXCEPT ![j] = how]
  /\ saved' \in {saved} \cup (IF how = "completed" THEN {saved \cup {j}} ELSE {})
  /\ UNCHANGED asked

(* Deleting an account removes jobs and runs together. *)
Remove(gone) ==
  /\ state' = [j \in JobIds |-> IF j \in gone THEN "deleted" ELSE state[j]]
  /\ asked' = asked \ gone
  /\ saved' = saved \ gone

Next ==
  \/ \E j \in JobIds : Submit(j) \/ Start(j) \/ Ask(j) \/ \E how \in Ended : End(j, how)
  \/ \E gone \in SUBSET {j \in JobIds : state[j] # "none"} : Remove(gone)

Spec == Init /\ [][Next]_vars
=============================================================================
