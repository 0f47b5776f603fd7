--------------------------- MODULE SchedulerLeader ---------------------------
(***************************************************************************)
(* The election of the worker process that runs the APScheduler jobs:      *)
(* services/scheduler_leader.py, started and stopped by runtime.py.        *)
(*                                                                         *)
(* One Redis key holds the token of its owner and expires after Ttl unless *)
(* it is renewed.  Each worker ticks every Renew: it tries to take the key *)
(* (SET NX EX), or renews it (EXPIRE if it still holds its token), and     *)
(* starts or stops its local scheduler by the answer.  A call to Redis,    *)
(* with what the tick does after it, takes up to Latency and may fail      *)
(* before or after Redis executed it.                                      *)
(*                                                                         *)
(* Time is discrete.  A worker that is neither down nor stalled meets its  *)
(* deadlines: time does not pass while its timer is 0.  is_leader and the  *)
(* local scheduler change together, so one flag stands for both.           *)
(*                                                                         *)
(* NoExpiry and LeadsOnError are faulty variants of the definition after   *)
(* each of them; the specification does not use them.                      *)
(***************************************************************************)
EXTENDS Naturals

CONSTANTS
  Workers,    \* worker processes
  Ttl,        \* redis_scheduler_lease_seconds
  Renew,      \* the period of the ticks
  Latency,    \* bound of a call to Redis (socket timeouts and retries)
  MaxFaults   \* bound: failed calls, crashes, stops, stalls, lost leases

(* The settings validator demands Ttl >= 3 * Renew; with calls shorter     *)
(* than the period that is more than is needed here.                       *)
ASSUME TimesAssumption ==
  /\ Ttl \in Nat /\ Renew \in Nat \ {0} /\ Latency \in Nat
  /\ Renew + 2 * Latency < Ttl
ASSUME FaultsAssumption == MaxFaults \in Nat
ASSUME NamesAssumption  == {"nobody", "dead"} \cap Workers = {}

VARIABLES
  owner,   \* whose token the key holds
  left,    \* the time until the key expires
  worker,  \* pc, is_leader and the time until the next deadline
  stalled, \* workers that do not run at the moment (paused, swapped out)
  late,    \* workers that stalled, or lost the key, since their last renewal
  faults

vars == <<owner, left, worker, stalled, late, faults>>

Nobody == "nobody"
Dead   == "dead"      \* a token whose process is gone
Calls  == {"calling", "granted", "refused", "releasing", "leaving"}

Leads(w) == worker[w].leader
Down  == [pc |-> "down", leader |-> FALSE, timer |-> 0]
Fresh == [Down EXCEPT !.pc = "waiting"]

Becomes(w, state) == worker' = [worker EXCEPT ![w] = state]
Waits(w, leader) == Becomes(w, [pc |-> "waiting", leader |-> leader, timer |-> Renew])

Runs(w) == w \notin stalled

Fault == faults < MaxFaults /\ faults' = faults + 1
-----------------------------------------------------------------------------
Init ==
  /\ owner = Nobody /\ left = 0
  /\ worker = [w \in Workers |-> Fresh]
  /\ stalled = {} /\ late = {} /\ faults = 0

Tick(w) ==
  /\ Runs(w) /\ worker[w].pc = "waiting" /\ worker[w].timer = 0
  /\ Becomes(w, [worker[w] EXCEPT !.pc = "calling", !.timer = Latency])
  /\ UNCHANGED <<owner, left, stalled, late, faults>>

(* Redis executes SET NX EX of a worker that does not lead, or the renewal *)
(* script of one that does.                                                *)
Grants(w) == owner = (IF Leads(w) THEN w ELSE Nobody)

NoExpiry(w) == IF Leads(w) THEN Ttl ELSE 0
Expiry(w) == Ttl

Execute(w) ==
  /\ worker[w].pc = "calling"
  /\ IF Grants(w)
     THEN /\ owner' = w /\ left' = Expiry(w)
          /\ Becomes(w, [worker[w] EXCEPT !.pc = "granted"])
          /\ late' = late \ ({w} \ stalled)
     ELSE /\ Becomes(w, [worker[w] EXCEPT !.pc = "refused"])
          /\ UNCHANGED <<owner, left, late>>
  /\ UNCHANGED <<stalled, faults>>

Answer(w) ==
  /\ Runs(w) /\ worker[w].pc \in {"granted", "refused"}
  /\ Waits(w, worker[w].pc = "granted")
  /\ UNCHANGED <<owner, left, stalled, late, faults>>

(* start_scheduler raises: the key is given back. *)
StartFails(w) ==
  /\ Runs(w) /\ worker[w].pc = "granted" /\ ~Leads(w)
  /\ Becomes(w, [worker[w] EXCEPT !.pc = "releasing"])
  /\ Fault
  /\ UNCHANGED <<owner, left, stalled, late>>

(* stop: the scheduler first, then the key; a worker without it just ends. *)
Stop(w) ==
  /\ Runs(w) /\ worker[w].pc = "waiting"
  /\ Becomes(w, IF Leads(w) THEN [pc |-> "leaving", leader |-> FALSE, timer |-> Latency]
                ELSE Down)
  /\ Fault
  /\ UNCHANGED <<owner, left, stalled, late>>

(* The release script deletes the key only if it holds the worker's token. *)
Owns(w) == owner = w

Release(w) ==
  /\ Runs(w) /\ worker[w].pc \in {"releasing", "leaving"}
  /\ IF Owns(w) THEN owner' = Nobody /\ left' = 0 ELSE UNCHANGED <<owner, left>>
  /\ IF worker[w].pc = "leaving" THEN Becomes(w, Down) ELSE Waits(w, FALSE)
  /\ UNCHANGED <<stalled, late, faults>>

(* The call raises, executed or not.  A worker whose renewal raises stops  *)
(* its scheduler at once.                                                  *)
LeadsOnError(w) == Leads(w)
LeadsAfterError(w) == FALSE

Orphaned(w) == IF owner = w THEN Dead ELSE owner

CallFails(w) ==
  /\ Runs(w) /\ worker[w].pc \in Calls
  /\ IF worker[w].pc = "leaving"
     THEN Becomes(w, Down) /\ owner' = Orphaned(w)
     ELSE Waits(w, LeadsAfterError(w)) /\ UNCHANGED owner
  /\ Fault
  /\ UNCHANGED <<left, stalled, late>>
-----------------------------------------------------------------------------
Crash(w) ==
  /\ worker[w].pc # "down"
  /\ Becomes(w, Down) /\ owner' = Orphaned(w)
  /\ Fault
  /\ UNCHANGED <<left, stalled, late>>

(* A new process has a new token. *)
Restart(w) ==
  /\ worker[w].pc = "down"
  /\ Becomes(w, Fresh)
  /\ UNCHANGED <<owner, left, stalled, late, faults>>

Stall(w) ==
  /\ w \notin stalled
  /\ stalled' = stalled \cup {w} /\ late' = late \cup {w}
  /\ Fault
  /\ UNCHANGED <<owner, left, worker>>

Resume(w) ==
  /\ w \in stalled
  /\ stalled' = stalled \ {w}
  /\ UNCHANGED <<owner, left, worker, late, faults>>

(* Redis loses the key: it restarts without it, or fails over. *)
LoseKey ==
  /\ owner # Nobody
  /\ owner' = Nobody /\ left' = 0 /\ late' = late \cup ({owner} \cap Workers)
  /\ Fault
  /\ UNCHANGED <<worker, stalled>>

Expires == left = 1

Pass ==
  /\ \A w \in Workers : w \in stalled \/ worker[w].pc = "down" \/ worker[w].timer > 0
  /\ worker' = [w \in Workers |->
                  [worker[w] EXCEPT !.timer = IF @ = 0 THEN 0 ELSE @ - 1]]
  /\ left' = IF left = 0 THEN 0 ELSE left - 1
  /\ owner' = IF Expires THEN Nobody ELSE owner
  /\ UNCHANGED <<stalled, late, faults>>

(* What a worker does when nothing goes wrong, and what may go wrong. *)
Proceeds(w) ==
  Tick(w) \/ Execute(w) \/ Answer(w) \/ Release(w) \/ Restart(w) \/ Resume(w)

Errs(w) ==
  StartFails(w) \/ Stop(w) \/ CallFails(w) \/ Crash(w) \/ Stall(w)

Next ==
  \/ \E w \in Workers : Proceeds(w) \/ Errs(w)
  \/ LoseKey \/ Pass

Spec == Init /\ [][Next]_vars

(* Time passes, Redis answers, and a worker that runs keeps running: its   *)
(* thread loops until it is told to stop, and the process is restarted     *)
(* when it ends.                                                           *)
FairSpec == Spec /\ WF_vars(Pass) /\ \A w \in Workers : WF_vars(Proceeds(w))
-----------------------------------------------------------------------------
WorkerStates == [pc : {"down", "waiting"} \cup Calls, leader : BOOLEAN, timer : Nat]

(* Types; a key without an owner has no time left, and the other way round.*)
TypeOK ==
  /\ owner \in Workers \cup {Nobody, Dead} /\ left \in 0 .. Ttl
  /\ left = 0 <=> owner = Nobody
  /\ worker \in [Workers -> WorkerStates]
  /\ stalled \subseteq Workers /\ late \subseteq Workers
  /\ faults \in 0 .. MaxFaults

(* Of the workers that met their deadlines since they last renewed a key   *)
(* that Redis kept, at most one runs the scheduler, whatever calls fail and*)
(* whichever processes die or restart.  (A worker that stalls for the rest *)
(* of its lease does run it beside its successor.)                         *)
OneScheduler ==
  \A v, w \in Workers \ late : Leads(v) /\ Leads(w) => v = w

(* Such a leader keeps its office until something happens to it: no step   *)
(* of another worker, however late it comes, takes it away.                *)
LeadershipStable ==
  [][\A w \in Workers \ late : Leads(w) /\ UNCHANGED faults => Leads(w)']_vars

(* Some worker always runs the scheduler again, after any finite number of *)
(* failed calls, lost keys, crashes and stalls: no key is held for ever.   *)
SchedulerRuns == []<>(\E w \in Workers : Leads(w))
=============================================================================
