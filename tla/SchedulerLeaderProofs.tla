------------------------ MODULE SchedulerLeaderProofs ------------------------
(***************************************************************************)
(* The election is safe for any number of workers and faults, and for all  *)
(* periods with Renew + 2 * Latency < Ttl.                                 *)
(*                                                                         *)
(* The inductive invariant compares clocks: a worker that is not late and  *)
(* leads still owns the key, and the key outlives the worker's deadline by *)
(* what the rest of its tick may take.                                     *)
(*                                                                         *)
(* The alarms of the decision chain, which requests and the jobs of the    *)
(* leader deliver: for any number of senders, alarms and faults.  A call   *)
(* that no lease covers any more is paid by the fault that made it so.     *)
(*                                                                         *)
(* The evaluation of an override fills an account twice, by folds over the *)
(* instruments; each fold is followed instrument by instrument, and the    *)
(* fills that it leaves are repeated by a fold over the fills.             *)
(***************************************************************************)
EXTENDS MCOperations, FiniteSetTheorems, WellFoundedInduction, TLAPS

(* Deadlines are no further away than the code sets them. *)
TimersInv ==
  \A w \in Workers :
    /\ worker[w].timer <= IF worker[w].pc \in Calls THEN Latency ELSE Renew
    /\ Leads(w) => worker[w].pc \in {"waiting", "calling", "granted", "refused"}

(* The key of a worker that is not late and leads, or is told it may. *)
HasKey(w) ==
  /\ owner = w
  /\ worker[w].pc = "waiting" => worker[w].timer + Latency < left
  /\ worker[w].pc = "calling" => worker[w].timer < left
  /\ worker[w].pc = "granted" => worker[w].timer + Renew + Latency < left
  /\ worker[w].pc # "refused"

KeyInv ==
  \A w \in Workers \ late : Leads(w) \/ worker[w].pc = "granted" => HasKey(w)

IInv == TypeOK /\ stalled \subseteq late /\ TimersInv /\ KeyInv
-----------------------------------------------------------------------------
LEMMA InitIInv == Init => IInv
<1> SUFFICES ASSUME Init
             PROVE  IInv
  OBVIOUS
<1>1. /\ Fresh \in WorkerStates /\ Fresh.pc = "waiting" /\ Fresh.timer = 0
      /\ Fresh.leader = FALSE
  BY DEF Fresh, Down, WorkerStates, Calls
<1>2. \A w \in Workers : worker[w] = Fresh
  BY DEF Init
<1>3. TypeOK /\ stalled \subseteq late
  BY <1>1, TimesAssumption, FaultsAssumption DEF Init, TypeOK
<1>4. TimersInv
  <2>1. 0 <= Latency /\ 0 <= Renew
    BY TimesAssumption
  <2>2. \A w \in Workers : worker[w].timer = 0 /\ ~Leads(w)
    BY <1>1, <1>2 DEF Leads
  <2>3. QED
    BY <2>1, <2>2 DEF TimersInv
<1>5. KeyInv
  BY <1>1, <1>2 DEF KeyInv, Leads
<1>6. QED
  BY <1>3, <1>4, <1>5 DEF IInv

(* A step of one worker: what it does to the key and to its own state      *)
(* leaves the other workers' claims alone.                                 *)
LEMMA WorkerStep ==
  ASSUME IInv, NEW w \in Workers, NEW v \in WorkerStates, Becomes(w, v),
         v.timer <= IF v.pc \in Calls THEN Latency ELSE Renew,
         v.leader => v.pc \in {"waiting", "calling", "granted", "refused"},
         owner' \in Workers \cup {Nobody, Dead}, left' \in 0 .. Ttl,
         left' = 0 <=> owner' = Nobody,
         faults' \in 0 .. MaxFaults, UNCHANGED stalled,
         late' = late \/ (late' = late \ {w} /\ w \notin stalled),
         owner \in Workers \ {w} => UNCHANGED <<owner, left>>,
         w \notin late' /\ (v.leader \/ v.pc = "granted") => HasKey(w)'
  PROVE  IInv'
<1>1. TypeOK /\ stalled \subseteq late
  BY DEF IInv
<1>2. /\ worker' \in [Workers -> WorkerStates] /\ worker'[w] = v
      /\ \A x \in Workers \ {w} : worker'[x] = worker[x]
  BY <1>1 DEF TypeOK, Becomes
<1>3. TypeOK' /\ (stalled \subseteq late)'
  BY <1>1, <1>2 DEF TypeOK
<1>4. TimersInv'
  BY <1>2 DEF IInv, TimersInv, Leads
<1>5. KeyInv'
  <2> SUFFICES ASSUME NEW x \in Workers, x \notin late',
                      Leads(x)' \/ worker'[x].pc = "granted"
               PROVE  HasKey(x)'
    BY DEF KeyInv
  <2>1. CASE x = w
    BY <1>2, <2>1 DEF Leads
  <2>2. CASE x # w
    <3>1. worker'[x] = worker[x] /\ x \notin late
      BY <1>2, <2>2
    <3>2. HasKey(x)
      BY <3>1 DEF IInv, KeyInv, Leads
    <3>3. UNCHANGED <<owner, left>>
      BY <2>2, <3>2 DEF HasKey
    <3>4. QED
      BY <3>1, <3>2, <3>3 DEF HasKey
  <2>3. QED
    BY <2>1, <2>2
<1>6. QED
  BY <1>3, <1>4, <1>5 DEF IInv

LEMMA TickInv ==
  ASSUME IInv, NEW w \in Workers, Tick(w)
  PROVE  IInv'
<1> DEFINE v == [worker[w] EXCEPT !.pc = "calling", !.timer = Latency]
<1>1. /\ worker[w] \in WorkerStates /\ worker \in [Workers -> WorkerStates]
      /\ worker[w].pc = "waiting" /\ worker[w].timer = 0
      /\ Becomes(w, v) /\ UNCHANGED <<owner, left, stalled, late, faults>>
  BY DEF IInv, TypeOK, Tick
<1>2. /\ v \in WorkerStates /\ v.pc = "calling" /\ v.timer = Latency
      /\ v.leader = worker[w].leader /\ worker'[w] = v
  BY <1>1, TimesAssumption DEF WorkerStates, Calls, Becomes
<1> HIDE DEF v
<1>3. w \notin late /\ v.leader => HasKey(w)'
  <2>1. w \notin late /\ v.leader => HasKey(w)
    BY <1>2 DEF IInv, KeyInv, Leads
  <2>2. left \in Nat
    BY TimesAssumption DEF IInv, TypeOK
  <2>3. QED
    BY <1>1, <1>2, <2>1, <2>2, TimesAssumption DEF HasKey
<1>4. v.timer <= IF v.pc \in Calls THEN Latency ELSE Renew
  BY <1>2, TimesAssumption DEF Calls
<1>5. TypeOK
  BY DEF IInv
<1>6. QED
  BY <1>1, <1>2, <1>3, <1>4, <1>5, WorkerStep DEF TypeOK

LEMMA ExecuteInv ==
  ASSUME IInv, NEW w \in Workers, Execute(w)
  PROVE  IInv'
<1>1. /\ TypeOK /\ worker[w] \in WorkerStates /\ worker \in [Workers -> WorkerStates]
      /\ worker[w].pc = "calling" /\ UNCHANGED <<stalled, faults>>
      /\ worker[w].timer \in Nat /\ worker[w].timer <= Latency
  BY DEF IInv, TypeOK, Execute, TimersInv, WorkerStates, Calls
<1>2. CASE Grants(w)
  <2> DEFINE v == [worker[w] EXCEPT !.pc = "granted"]
  <2>1. /\ owner' = w /\ left' = Ttl /\ Becomes(w, v) /\ late' = late \ ({w} \ stalled)
        /\ owner \in {w, Nobody}
    BY <1>2 DEF Execute, Grants, Expiry
  <2>2. /\ v \in WorkerStates /\ v.pc = "granted" /\ v.timer = worker[w].timer
        /\ worker'[w] = v
    BY <1>1, <2>1 DEF WorkerStates, Calls, Becomes
  <2> HIDE DEF v
  <2>3. HasKey(w)'
    BY <1>1, <2>1, <2>2, TimesAssumption DEF HasKey
  <2>4. /\ left' \in 0 .. Ttl /\ left' # 0 /\ owner' # Nobody /\ owner' \in Workers
        /\ Nobody \notin Workers
    BY <2>1, TimesAssumption, NamesAssumption DEF Nobody
  <2>5. late' = late \/ (late' = late \ {w} /\ w \notin stalled)
    BY <2>1
  <2>6. v.timer <= IF v.pc \in Calls THEN Latency ELSE Renew
    BY <1>1, <2>2 DEF Calls
  <2>7. faults' \in 0 .. MaxFaults
    BY <1>1 DEF TypeOK
  <2>8. QED
    BY <1>1, <2>1, <2>2, <2>3, <2>4, <2>5, <2>6, <2>7, WorkerStep
<1>3. CASE ~Grants(w)
  <2> DEFINE v == [worker[w] EXCEPT !.pc = "refused"]
  <2>1. Becomes(w, v) /\ UNCHANGED <<owner, left, late>>
    BY <1>3 DEF Execute
  <2>2. /\ v \in WorkerStates /\ v.pc = "refused" /\ v.timer = worker[w].timer
        /\ v.leader = worker[w].leader /\ worker'[w] = v
    BY <1>1, <2>1 DEF WorkerStates, Calls, Becomes
  <2> HIDE DEF v
  <2>3. w \in late \/ ~v.leader
    BY <1>3, <2>2 DEF IInv, KeyInv, HasKey, Grants, Leads
  <2>4. v.timer <= IF v.pc \in Calls THEN Latency ELSE Renew
    BY <1>1, <2>2 DEF Calls
  <2>5. QED
    BY <1>1, <2>1, <2>2, <2>3, <2>4, WorkerStep DEF TypeOK
<1>4. QED
  BY <1>2, <1>3

(* A step that ends with the worker waiting and not leading, or down, and  *)
(* changes the key only if it is the worker's.                             *)
LEMMA QuietStep ==
  ASSUME IInv, NEW w \in Workers, NEW v \in WorkerStates, Becomes(w, v),
         v.pc \in {"waiting", "down", "releasing", "leaving"},
         v.timer <= IF v.pc \in {"releasing", "leaving"} THEN Latency ELSE Renew,
         ~v.leader,
         \/ UNCHANGED <<owner, left>>
         \/ owner = w /\ owner' = Nobody /\ left' = 0
         \/ owner = w /\ owner' = Dead /\ left' = left,
         faults' = faults \/ Fault, UNCHANGED <<stalled, late>>
  PROVE  IInv'
<1>1. TypeOK /\ Nobody # Dead /\ Nobody \notin Workers
  BY NamesAssumption DEF IInv, Nobody, Dead
<1>2. v.timer <= IF v.pc \in Calls THEN Latency ELSE Renew
  BY DEF Calls
<1>3. /\ owner' \in Workers \cup {Nobody, Dead} /\ left' \in 0 .. Ttl
      /\ left' = 0 <=> owner' = Nobody
  BY <1>1, TimesAssumption DEF TypeOK
<1>4. faults' \in 0 .. MaxFaults
  BY <1>1, FaultsAssumption DEF TypeOK, Fault
<1>5. owner \in Workers \ {w} => UNCHANGED <<owner, left>>
  OBVIOUS
<1>6. QED
  BY <1>2, <1>3, <1>4, <1>5, WorkerStep

LEMMA WaitsInv ==
  ASSUME IInv, NEW w \in Workers, Waits(w, FALSE),
         \/ UNCHANGED <<owner, left>>
         \/ owner = w /\ owner' = Nobody /\ left' = 0,
         faults' = faults \/ Fault, UNCHANGED <<stalled, late>>
  PROVE  IInv'
<1> DEFINE v == [pc |-> "waiting", leader |-> FALSE, timer |-> Renew]
<1>1. /\ v \in WorkerStates /\ v.pc = "waiting" /\ v.timer = Renew /\ v.leader = FALSE
      /\ Renew <= Renew
  BY TimesAssumption DEF WorkerStates
<1>2. Becomes(w, v)
  BY DEF Waits
<1> HIDE DEF v
<1>3. QED
  BY <1>1, <1>2, QuietStep

LEMMA DownInv ==
  ASSUME IInv, NEW w \in Workers, Becomes(w, Down) \/ Becomes(w, Fresh),
         \/ UNCHANGED <<owner, left>>
         \/ owner = w /\ owner' = Nobody /\ left' = 0
         \/ owner = w /\ owner' = Dead /\ left' = left,
         faults' = faults \/ Fault, UNCHANGED <<stalled, late>>
  PROVE  IInv'
<1>1. /\ Down \in WorkerStates /\ Down.pc = "down" /\ Down.timer = 0 /\ Down.leader = FALSE
      /\ Fresh \in WorkerStates /\ Fresh.pc = "waiting" /\ Fresh.timer = 0
      /\ Fresh.leader = FALSE
  BY DEF WorkerStates, Down, Fresh, Calls
<1>2. 0 <= Renew
  BY TimesAssumption
<1>3. QED
  BY <1>1, <1>2, QuietStep

LEMMA AnswerInv ==
  ASSUME IInv, NEW w \in Workers, Answer(w)
  PROVE  IInv'
<1>1. TypeOK /\ UNCHANGED <<owner, left, stalled, late, faults>> /\ left \in Nat
  BY TimesAssumption DEF IInv, TypeOK, Answer
<1>2. CASE worker[w].pc = "granted"
  <2> DEFINE v == [pc |-> "waiting", leader |-> TRUE, timer |-> Renew]
  <2>1. Becomes(w, v)
    BY <1>2 DEF Answer, Waits
  <2>2. v \in WorkerStates /\ v.pc = "waiting" /\ v.timer = Renew /\ worker'[w] = v
    BY <1>1, <2>1, TimesAssumption DEF WorkerStates, TypeOK, Becomes
  <2> HIDE DEF v
  <2>3. w \notin late => HasKey(w)'
    <3>1. w \notin late => HasKey(w)
      BY <1>2 DEF IInv, KeyInv
    <3>2. worker[w].timer \in Nat
      BY <1>1 DEF TypeOK, WorkerStates
    <3>3. QED
      BY <1>1, <1>2, <2>2, <3>1, <3>2, TimesAssumption DEF HasKey
  <2>4. v.timer <= IF v.pc \in Calls THEN Latency ELSE Renew
    BY <2>2, TimesAssumption DEF Calls
  <2>5. QED
    BY <1>1, <2>1, <2>2, <2>3, <2>4, WorkerStep DEF TypeOK
<1>3. CASE worker[w].pc = "refused"
  BY <1>1, <1>3, WaitsInv DEF Answer
<1>4. QED
  BY <1>2, <1>3 DEF Answer

LEMMA StartFailsInv ==
  ASSUME IInv, NEW w \in Workers, StartFails(w)
  PROVE  IInv'
<1> DEFINE v == [worker[w] EXCEPT !.pc = "releasing"]
<1>1. /\ worker[w] \in WorkerStates /\ worker[w].timer <= Latency /\ ~worker[w].leader
      /\ Becomes(w, v) /\ Fault /\ UNCHANGED <<owner, left, stalled, late>>
  BY DEF IInv, TypeOK, TimersInv, StartFails, Calls, Leads
<1>2. /\ v \in WorkerStates /\ v.pc = "releasing" /\ v.timer = worker[w].timer
      /\ v.leader = worker[w].leader
  BY <1>1 DEF WorkerStates, Calls
<1> HIDE DEF v
<1>3. QED
  BY <1>1, <1>2, QuietStep

LEMMA StopInv ==
  ASSUME IInv, NEW w \in Workers, Stop(w)
  PROVE  IInv'
<1>1. Fault /\ UNCHANGED <<owner, left, stalled, late>>
  BY DEF Stop
<1>2. CASE Leads(w)
  <2> DEFINE v == [pc |-> "leaving", leader |-> FALSE, timer |-> Latency]
  <2>1. Becomes(w, v)
    BY <1>2 DEF Stop
  <2>2. /\ v \in WorkerStates /\ v.pc = "leaving" /\ v.timer = Latency /\ v.leader = FALSE
        /\ Latency <= Latency
    BY TimesAssumption DEF WorkerStates, Calls
  <2> HIDE DEF v
  <2>3. QED
    BY <1>1, <2>1, <2>2, QuietStep
<1>3. CASE ~Leads(w)
  BY <1>1, <1>3, DownInv DEF Stop
<1>4. QED
  BY <1>2, <1>3

LEMMA StallInv ==
  ASSUME IInv,
         \/ \E w \in Workers : Stall(w) \/ Resume(w)
         \/ LoseKey
  PROVE  IInv'
<1>1. /\ TypeOK /\ stalled \subseteq late /\ UNCHANGED worker
      /\ late \subseteq late'
      /\ \A x \in Workers \ late' : owner = x => UNCHANGED <<owner, left>>
  BY DEF IInv, Stall, Resume, LoseKey
<1>2. TypeOK'
  BY <1>1, TimesAssumption, FaultsAssumption DEF Stall, Resume, LoseKey, TypeOK, Fault
<1>3. (stalled \subseteq late)'
  BY <1>1 DEF Stall, Resume, LoseKey
<1>4. TimersInv'
  BY <1>1 DEF IInv, TimersInv, Leads
<1>5. KeyInv'
  BY <1>1 DEF IInv, KeyInv, HasKey, Leads
<1>6. QED
  BY <1>2, <1>3, <1>4, <1>5 DEF IInv

(* A worker that is not late is not stalled, so its timer was positive and *)
(* time that passes brings deadline and expiry nearer alike.               *)
LEMMA PassInv ==
  ASSUME IInv, Pass
  PROVE  IInv'
<1>1. /\ TypeOK /\ stalled \subseteq late /\ UNCHANGED <<stalled, late, faults>>
      /\ left \in Nat
  BY TimesAssumption DEF IInv, TypeOK, Pass
<1>2. \A w \in Workers :
        /\ worker[w] \in WorkerStates
        /\ worker'[w] \in WorkerStates
        /\ worker'[w].pc = worker[w].pc /\ worker'[w].leader = worker[w].leader
        /\ worker'[w].timer = IF worker[w].timer = 0 THEN 0 ELSE worker[w].timer - 1
  BY <1>1, SMTT(60) DEF TypeOK, WorkerStates, Pass
<1>3. TypeOK'
  <2>1. worker' \in [Workers -> WorkerStates]
    BY <1>2 DEF Pass
  <2>2. owner' \in Workers \cup {Nobody, Dead} /\ left' \in 0 .. Ttl
    BY <1>1, TimesAssumption DEF TypeOK, Pass
  <2>3. left' = 0 <=> owner' = Nobody
    BY <1>1 DEF TypeOK, Pass, Expires
  <2>4. QED
    BY <1>1, <2>1, <2>2, <2>3 DEF TypeOK
<1>4. TimersInv'
  <2>1. \A w \in Workers : worker[w].timer \in Nat
    BY <1>1 DEF TypeOK, WorkerStates
  <2>2. QED
    BY <1>2, <2>1, TimesAssumption DEF IInv, TimersInv, Leads
<1>5. KeyInv'
  <2> SUFFICES ASSUME NEW w \in Workers, w \notin late,
                      Leads(w)' \/ worker'[w].pc = "granted"
               PROVE  HasKey(w)'
    BY <1>1 DEF KeyInv
  <2>1. HasKey(w) /\ worker[w].pc # "down"
    BY <1>2 DEF IInv, KeyInv, Leads, TimersInv
  <2>2. worker[w].timer \in Nat \ {0}
    BY <1>1, <1>2, <2>1 DEF Pass, WorkerStates
  <2>3. worker[w].pc \in {"waiting", "calling", "granted"}
    BY <1>2, <2>1 DEF IInv, TimersInv, Leads, HasKey
  <2>4. /\ left > 1 /\ left' = left - 1 /\ owner' = owner
        /\ worker'[w].timer = worker[w].timer - 1
    BY <1>1, <1>2, <2>1, <2>2, <2>3, TimesAssumption DEF HasKey, Pass, Expires
  <2>5. QED
    BY <1>1, <1>2, <2>1, <2>2, <2>4, TimesAssumption DEF HasKey
<1>6. QED
  BY <1>1, <1>3, <1>4, <1>5 DEF IInv

LEMMA NextIInv == IInv /\ [Next]_vars => IInv'
<1> SUFFICES ASSUME IInv, [Next]_vars
             PROVE  IInv'
  OBVIOUS
<1>1. ASSUME NEW w \in Workers, Release(w)
      PROVE  IInv'
  <2>1. CASE worker[w].pc = "leaving"
    BY <1>1, <2>1, DownInv DEF Release, Owns
  <2>2. CASE worker[w].pc # "leaving"
    BY <1>1, <2>2, WaitsInv DEF Release, Owns
  <2>3. QED
    BY <2>1, <2>2
<1>2. ASSUME NEW w \in Workers, CallFails(w)
      PROVE  IInv'
  <2>1. CASE worker[w].pc = "leaving"
    BY <1>2, <2>1, DownInv DEF CallFails, Orphaned
  <2>2. CASE worker[w].pc # "leaving"
    BY <1>2, <2>2, WaitsInv DEF CallFails, LeadsAfterError
  <2>3. QED
    BY <2>1, <2>2
<1>3. ASSUME NEW w \in Workers, Crash(w)
      PROVE  IInv'
  BY <1>3, DownInv DEF Crash, Orphaned
<1>4. ASSUME NEW w \in Workers, Restart(w)
      PROVE  IInv'
  BY <1>4, DownInv DEF Restart
<1>5. CASE UNCHANGED vars
  BY <1>5 DEF vars, IInv, TypeOK, TimersInv, KeyInv, HasKey, Leads
<1>6. QED
  BY <1>1, <1>2, <1>3, <1>4, <1>5, TickInv, ExecuteInv, AnswerInv, StartFailsInv, StopInv,
     StallInv, PassInv DEF Next, Proceeds, Errs

LEMMA SpecIInv == Spec => []IInv
BY InitIInv, NextIInv, PTL DEF Spec
-----------------------------------------------------------------------------
(* Every reachable state is well formed; the key has an owner exactly as   *)
(* long as it has time left.                                               *)
THEOREM TypeCorrect == Spec => []TypeOK
<1>1. IInv => TypeOK
  BY DEF IInv
<1>2. QED
  BY <1>1, SpecIInv, PTL

(* At most one of the workers that meet their deadlines runs the scheduler.*)
THEOREM OneSchedulerCorrect == Spec => []OneScheduler
<1>1. IInv => OneScheduler
  BY DEF IInv, KeyInv, HasKey, OneScheduler
<1>2. QED
  BY <1>1, SpecIInv, PTL

(* A leader that meets its deadlines loses its office by its own stop or   *)
(* failure only.                                                           *)
THEOREM LeadershipStableCorrect == Spec => LeadershipStable
<1>1. ASSUME IInv, [Next]_vars, NEW w \in Workers \ late, Leads(w), UNCHANGED faults
      PROVE  Leads(w)'
  <2>1. TypeOK /\ HasKey(w) /\ worker[w].pc \in {"waiting", "calling", "granted", "refused"}
    BY <1>1 DEF IInv, KeyInv, TimersInv
  <2>2. worker \in [Workers -> WorkerStates] /\ worker[w].leader = TRUE /\ ~Fault
    BY <1>1, <2>1 DEF TypeOK, Leads, WorkerStates, Fault
  <2>3. CASE UNCHANGED worker
    BY <1>1, <2>3 DEF Leads
  <2>4. CASE Pass
    BY <2>2, <2>4 DEF Pass, Leads, WorkerStates, TypeOK
  <2>5. ASSUME NEW v \in Workers,
               Tick(v) \/ Execute(v) \/ Answer(v) \/ Release(v) \/ Restart(v)
        PROVE  Leads(w)'
    <3>1. CASE v # w
      BY <2>2, <2>5, <3>1 DEF Tick, Execute, Answer, Release, Restart, Becomes, Waits, Leads
    <3>2. CASE v = w /\ (Tick(v) \/ Execute(v))
      BY <2>2, <3>2, ZenonT(90) DEF Tick, Execute, Becomes, Leads, WorkerStates
    <3>3. CASE v = w /\ Answer(v)
      BY <2>1, <2>2, <3>3 DEF Answer, Becomes, Waits, Leads, HasKey
    <3>4. CASE v = w /\ (Release(v) \/ Restart(v))
      BY <2>1, <3>4 DEF Release, Restart
    <3>5. QED
      BY <2>5, <3>1, <3>2, <3>3, <3>4
  <2>6. QED
    BY <1>1, <2>2, <2>3, <2>4, <2>5
       DEF Next, Proceeds, Errs, Resume, StartFails, Stop, CallFails, Crash, Stall, LoseKey, vars
<1>2. IInv /\ [Next]_vars =>
        [\A w \in Workers \ late : Leads(w) /\ UNCHANGED faults => Leads(w)']_vars
  BY <1>1
<1>3. QED
  BY <1>2, SpecIInv, PTL DEF Spec, LeadershipStable
-----------------------------------------------------------------------------
(* Decision notifications: who holds the row of an alarm ...               *)
Sending(p, a) == process[p].pc = "send" /\ process[p].note = a
Holds(p, a)   == Sending(p, a) /\ process[p].token = notes[a].token
Live(p, a)    == Holds(p, a) /\ notes[a].fresh

(* ... what a process has before it takes one ...                          *)
FreshProcess(p) ==
  /\ process[p].sends = {} /\ process[p].token = Notes!None
  /\ \A ch \in Notes!Channels : process[p].outcome[ch] = "pending"

(* ... that no two processes have the same token, and what a call may have *)
(* come to.                                                                *)
DeliveryInv ==
  \A p \in Notes!Processes :
    /\ IF process[p].pc = "send" THEN process[p].token # Notes!None ELSE FreshProcess(p)
    /\ \A ch \in process[p].sends : process[p].outcome[ch] = "pending"
    /\ \A ch \in Notes!Channels : process[p].outcome[ch] \in {"pending", "failed", Notes!Final[ch]}
    /\ \A q \in Notes!Processes :
         process[p].pc = "send" /\ process[p].token = process[q].token => p = q

(* Only channels that are pending in the table are sent to, or have been.  *)
HolderInv ==
  \A p \in Notes!Processes, a \in Alarms : Holds(p, a) => \A ch \in Notes!Channels :
    ch \in process[p].sends \/ process[p].outcome[ch] # "pending"
      => notes[a].status[ch] = "pending"

(* A failed call leaves its channel pending.                               *)
StatusInv ==
  \A a \in Alarms, ch \in Notes!Channels : notes[a].status[ch] \in {"pending", Notes!Final[ch]}

StoreIInv == Notes!TypeOK /\ DeliveryInv /\ HolderInv /\ StatusInv

USE DEF Notes!None

LEMMA ChannelFacts ==
  /\ Notes!Channels = {"ws", "feishu"}
  /\ \A ch \in Notes!Channels : Notes!Final[ch] \in {"published", "sent"}
  BY DEF Notes!Channels, Notes!Final

LEMMA IdleState == Notes!Idle \in Notes!LocalStates
  BY DEF Notes!Idle, Notes!LocalStates

LEMMA EndedState ==
  ASSUME Notes!TypeOK, NEW p \in Notes!Processes
  PROVE  /\ Notes!Ended(p) \in Notes!LocalStates
         /\ Notes!Ended(p).pc \in {"idle", "next"} /\ Notes!Ended(p).token = Notes!None
         /\ Notes!Ended(p).sends = {}
         /\ \A ch \in Notes!Channels : Notes!Ended(p).outcome[ch] = "pending"
  BY DEF Notes!Ended, Notes!Idle, Notes!LocalStates, Notes!TypeOK

LEMMA InitStore == Notes!Init => StoreIInv
  BY NoteFaultsAssumption DEF Notes!Init, StoreIInv, Notes!TypeOK, DeliveryInv, HolderInv, StatusInv,
     Notes!NoNote, Notes!Idle,
     Notes!NoteRows, Notes!LocalStates, Holds, Sending, FreshProcess

LEMMA EmitStore ==
  ASSUME StoreIInv, NEW p \in Notes!Processes, NEW a \in Alarms, Notes!Emit(p, a)
  PROVE  StoreIInv'
<1> USE DEF StoreIInv
<1> DEFINE new == [Notes!Idle EXCEPT !.pc = "take", !.note = a]
<1>0. /\ new \in Notes!LocalStates /\ new.pc = "take" /\ new.note = a
      /\ new.token = Notes!None /\ new.sends = {}
      /\ \A ch \in Notes!Channels : new.outcome[ch] = "pending"
  BY DEF Notes!Idle, Notes!LocalStates
<1>a. /\ process' = [process EXCEPT ![p] = new]
      /\ notes' = [notes EXCEPT ![a] = [notes[a] EXCEPT !.stored = TRUE]]
      /\ UNCHANGED <<sent, noteFaults>>
  BY DEF Notes!Emit, Notes!SetNote
<1>b. notes[a] \in Notes!NoteRows /\ [notes[a] EXCEPT !.stored = TRUE] \in Notes!NoteRows
  BY DEF Notes!TypeOK, Notes!NoteRows
<1> HIDE DEF new
<1>1. Notes!TypeOK'
  <2>1. notes' \in [Alarms -> Notes!NoteRows]
    BY <1>a, <1>b DEF Notes!TypeOK
  <2>4. \A x \in Alarms : notes'[x].fresh => notes'[x].token # Notes!None
    BY <1>a, <1>b DEF Notes!TypeOK, Notes!NoteRows
  <2>2. process' \in [Notes!Processes -> Notes!LocalStates]
    BY <1>0, <1>a DEF Notes!TypeOK
  <2>3. \A q \in Notes!Processes : process'[q].pc \in {"take", "send"} => process'[q].note \in Alarms
    BY <1>0, <1>a DEF Notes!TypeOK
  <2> QED BY <1>a, <2>1, <2>2, <2>3, <2>4 DEF Notes!TypeOK
<1>2. DeliveryInv'
  BY <1>0, <1>a DEF DeliveryInv, Notes!TypeOK, FreshProcess
<1>3. HolderInv'
  <2>1. \A x \in Alarms : notes'[x].token = notes[x].token /\ notes'[x].status = notes[x].status
    BY <1>a, <1>b DEF Notes!TypeOK, Notes!NoteRows
  <2>2. \A q \in Notes!Processes : process'[q].pc = "send" => process'[q] = process[q]
    BY <1>0, <1>a DEF Notes!TypeOK
  <2> QED BY <2>1, <2>2 DEF HolderInv, Holds, Sending
<1>4. StatusInv'
  BY <1>a, <1>b DEF StatusInv, Notes!TypeOK, Notes!NoteRows
<1> QED BY <1>1, <1>2, <1>3, <1>4

ListEffect(p) ==
  \E new \in Notes!LocalStates :
    /\ new.pc \in {"next", "take"} /\ (new.pc = "take" => new.note \in Alarms)
    /\ new.token = Notes!None /\ new.sends = {} /\ \A ch \in Notes!Channels : new.outcome[ch] = "pending"
    /\ process' = [process EXCEPT ![p] = new]

LEMMA Lists ==
  ASSUME StoreIInv, NEW p \in Notes!Processes,
         Notes!RetryPending(p) \/ \E a \in Alarms : Notes!DeliverNext(p, a)
  PROVE  ListEffect(p) /\ process[p].pc # "send" /\ UNCHANGED <<notes, sent, noteFaults>>
<1> USE DEF StoreIInv
<1>1. CASE Notes!RetryPending(p)
  <2>1. PICK listed \in SUBSET Alarms :
          process' = [process EXCEPT ![p] = [Notes!Idle EXCEPT !.pc = "next", !.listed = listed]]
    BY <1>1 DEF Notes!RetryPending
  <2>2. [Notes!Idle EXCEPT !.pc = "next", !.listed = listed] \in Notes!LocalStates
    BY DEF Notes!Idle, Notes!LocalStates
  <2> QED BY <1>1, <2>1, <2>2 DEF Notes!Idle, ListEffect, Notes!RetryPending
<1>2. ASSUME NEW a \in Alarms, Notes!DeliverNext(p, a)
      PROVE  ListEffect(p) /\ process[p].pc # "send" /\ UNCHANGED <<notes, sent, noteFaults>>
  <2> DEFINE new == [process[p] EXCEPT !.pc = "take", !.note = a, !.listed = @ \ {a}]
  <2>1. process[p] \in Notes!LocalStates /\ process[p].pc = "next" /\ FreshProcess(p)
    BY <1>2 DEF Notes!DeliverNext, Notes!TypeOK, DeliveryInv
  <2>2. /\ new \in Notes!LocalStates /\ new.pc = "take" /\ new.note = a
        /\ new.token = Notes!None /\ new.sends = {}
        /\ \A ch \in Notes!Channels : new.outcome[ch] = "pending"
    BY <2>1 DEF Notes!LocalStates, FreshProcess
  <2>3. process' = [process EXCEPT ![p] = new] /\ UNCHANGED <<notes, sent, noteFaults>>
    BY <1>2 DEF Notes!DeliverNext
  <2> QED BY <2>1, <2>2, <2>3 DEF ListEffect
<1> QED BY <1>1, <1>2

LEMMA ListStore ==
  ASSUME StoreIInv, NEW p \in Notes!Processes, ListEffect(p), UNCHANGED <<notes, sent, noteFaults>>
  PROVE  StoreIInv'
<1> USE DEF StoreIInv
<1>1. PICK new \in Notes!LocalStates :
        /\ new.pc \in {"next", "take"} /\ (new.pc = "take" => new.note \in Alarms)
        /\ new.token = Notes!None /\ new.sends = {}
        /\ \A ch \in Notes!Channels : new.outcome[ch] = "pending"
        /\ process' = [process EXCEPT ![p] = new]
  BY DEF ListEffect
<1>2. UNCHANGED <<notes, sent, noteFaults>>
  OBVIOUS
<1>3. Notes!TypeOK'
  BY <1>1, <1>2 DEF Notes!TypeOK
<1>4. DeliveryInv'
  BY <1>1, <1>2, NoneAssumption DEF DeliveryInv, Notes!TypeOK, FreshProcess
<1>5. HolderInv'
  BY <1>1, <1>2 DEF HolderInv, Holds, Sending, Notes!TypeOK
<1>6. StatusInv'
  BY <1>2 DEF StatusInv
<1> QED BY <1>3, <1>4, <1>5, <1>6

(* A new token is one that nobody holds. *)
LEMMA TokenUnused ==
  ASSUME Notes!Unused # {}
  PROVE  LET t == CHOOSE t \in Notes!Unused : TRUE
         IN  t \in Tokens /\ (\A a \in Alarms : notes[a].token # t)
                          /\ (\A p \in Notes!Processes : process[p].token # t)
  BY DEF Notes!Unused

LEMMA TakeStore ==
  ASSUME StoreIInv, NEW p \in Notes!Processes, Notes!Take(p)
  PROVE  StoreIInv'
<1> USE DEF StoreIInv
<1>1. CASE ~Notes!MayTake(p)
  <2>1. /\ process' = [process EXCEPT ![p] = Notes!Ended(p)]
        /\ UNCHANGED <<notes, sent, noteFaults>>
    BY <1>1 DEF Notes!Take
  <2>2. Notes!TypeOK'
    BY <2>1, EndedState DEF Notes!TypeOK
  <2>3. DeliveryInv'
    BY <2>1, EndedState DEF DeliveryInv, Notes!TypeOK, FreshProcess
  <2>4. HolderInv'
    BY <2>1, EndedState DEF HolderInv, Holds, Sending, Notes!TypeOK
  <2>5. StatusInv'
    BY <2>1 DEF StatusInv
  <2> QED BY <2>2, <2>3, <2>4, <2>5
<1>2. CASE Notes!MayTake(p)
  <2> DEFINE t == CHOOSE t \in Notes!Unused : TRUE
             b == process[p].note
  <2>1. /\ process[p].pc = "take" /\ Notes!Unused # {}
        /\ notes' = [notes EXCEPT ![b] = [notes[b] EXCEPT !.token = t, !.fresh = TRUE]]
        /\ process' = [process EXCEPT ![p] =
                         [process[p] EXCEPT !.pc = "send", !.token = t, !.sends = Notes!ToSend(b)]]
        /\ UNCHANGED <<sent, noteFaults>>
    BY <1>2 DEF Notes!Take, Notes!SetNote, Notes!Note
  <2>2. /\ t \in Tokens /\ t # Notes!None
        /\ \A a \in Alarms : notes[a].token # t
        /\ \A q \in Notes!Processes : process[q].token # t
    BY <2>1, TokenUnused, NoneAssumption
  <2>3. b \in Alarms /\ Notes!ToSend(b) \subseteq Notes!Channels
    BY <2>1 DEF Notes!TypeOK, Notes!ToSend
  <2> HIDE DEF t
  <2>4. Notes!TypeOK'
    <3>1. notes' \in [Alarms -> Notes!NoteRows] /\ \A x \in Alarms : notes'[x].fresh
                 => notes'[x].token # Notes!None
      BY <2>1, <2>2, <2>3 DEF Notes!TypeOK, Notes!NoteRows
    <3>a. process[p] \in Notes!LocalStates
      BY DEF Notes!TypeOK
    <3>2. [process[p] EXCEPT !.pc = "send", !.token = t, !.sends = Notes!ToSend(b)] \in Notes!LocalStates
      BY <2>2, <2>3, <3>a DEF Notes!LocalStates
    <3>3. process' \in [Notes!Processes -> Notes!LocalStates]
      BY <2>1, <3>2 DEF Notes!TypeOK
    <3>4. \A q \in Notes!Processes : process'[q].pc \in {"take", "send"} => process'[q].note \in Alarms
      BY <2>1, <2>3 DEF Notes!TypeOK, Notes!LocalStates
    <3> QED BY <2>1, <3>1, <3>3, <3>4 DEF Notes!TypeOK
  <2>5. DeliveryInv'
    <3>1. process[p].pc # "send" /\ FreshProcess(p)
      BY <2>1 DEF DeliveryInv
    <3> QED BY <2>1, <2>2, <2>3, <3>1 DEF DeliveryInv, Notes!TypeOK, Notes!LocalStates, FreshProcess
  <2>6. HolderInv'
    <3> SUFFICES ASSUME NEW q \in Notes!Processes, NEW a \in Alarms, Holds(q, a)',
                        NEW ch \in Notes!Channels,
                        (ch \in process[q].sends \/ process[q].outcome[ch] # "pending")'
                 PROVE  (notes[a].status[ch] = "pending")'
      BY DEF HolderInv
    <3>1. CASE q = p
      <4>1. FreshProcess(p)
        BY <2>1 DEF DeliveryInv
      <4>2. a = b /\ ch \in Notes!ToSend(b)
        BY <2>1, <3>1, <4>1 DEF Holds, Sending, Notes!TypeOK, Notes!LocalStates, FreshProcess
      <4> QED BY <2>1, <2>3, <4>2 DEF Notes!TypeOK, Notes!NoteRows, Notes!ToSend
    <3>2. CASE q # p
      <4>1. process'[q] = process[q]
        BY <2>1, <3>2 DEF Notes!TypeOK
      <4>2. a # b
        BY <2>1, <2>2, <2>3, <4>1 DEF Holds, Sending, Notes!TypeOK, Notes!NoteRows
      <4>3. notes'[a] = notes[a]
        BY <2>1, <4>2 DEF Notes!TypeOK
      <4> QED BY <4>1, <4>3 DEF HolderInv, Holds, Sending
    <3> QED BY <3>1, <3>2
  <2>7. StatusInv'
    BY <2>1, <2>3 DEF StatusInv, Notes!TypeOK, Notes!NoteRows
  <2> QED BY <2>4, <2>5, <2>6, <2>7
<1> QED BY <1>1, <1>2

LEMMA NextChannelSent ==
  ASSUME Notes!TypeOK, NEW p \in Notes!Processes, process[p].sends # {}
  PROVE  Notes!NextChannel(p) \in process[p].sends /\ Notes!NextChannel(p) \in Notes!Channels
<1>1. process[p].sends \subseteq {"ws", "feishu"}
  BY ChannelFacts DEF Notes!TypeOK, Notes!LocalStates
<1> QED BY <1>1, ChannelFacts DEF Notes!NextChannel

(* A call succeeds (n = 1), fails (n = 0), or its answer is lost (n = 1).   *)
CallEffect(p, outcome, n) ==
  LET c == Notes!NextChannel(p) IN
  /\ process[p].pc = "send" /\ process[p].sends # {}
  /\ process' = [process EXCEPT ![p] = [process[p] EXCEPT !.sends = @ \ {c}, !.outcome[c] = outcome]]
  /\ sent' = IF n = 1 THEN [sent EXCEPT ![process[p].note][c] = @ + 1] ELSE sent
  /\ notes' = notes
  /\ noteFaults' \in 0 .. MaxNoteFaults /\ noteFaults' >= noteFaults
  /\ outcome # "failed" => n = 1
  /\ outcome = "failed" /\ n = 1 => noteFaults' = noteFaults + 1

LEMMA NoteCalls ==
  ASSUME Notes!TypeOK, NEW p \in Notes!Processes,
         Notes!CallSucceeds(p) \/ Notes!CallFails(p) \/ Notes!AnswerLost(p)
  PROVE  \E outcome \in {"failed", Notes!Final[Notes!NextChannel(p)]}, n \in {0, 1} : CallEffect(p, outcome, n)
<1> DEFINE c == Notes!NextChannel(p)
<1>1. Notes!Final[c] # "failed"
  BY DEF Notes!NextChannel, Notes!Final
<1>2. noteFaults \in 0 .. MaxNoteFaults /\ MaxNoteFaults \in Nat
  BY NoteFaultsAssumption DEF Notes!TypeOK
<1>6. ASSUME NEW outcome, process' = [process EXCEPT ![p].sends = @ \ {c}, ![p].outcome[c] = outcome]
      PROVE  process' = [process EXCEPT ![p] = [process[p] EXCEPT !.sends = @ \ {c}, !.outcome[c] = outcome]]
  <2>1. process \in [Notes!Processes -> Notes!LocalStates] /\ process[p] \in Notes!LocalStates
    BY DEF Notes!TypeOK
  <2> HIDE DEF c
  <2> QED BY <1>6, <2>1 DEF Notes!LocalStates
<1>3. CASE Notes!CallSucceeds(p)
  <2>1. process' = [process EXCEPT ![p].sends = @ \ {c}, ![p].outcome[c] = Notes!Final[c]]
    BY <1>3 DEF Notes!CallSucceeds, Notes!Called
  <2>2. process' = [process EXCEPT ![p] = [process[p] EXCEPT !.sends = @ \ {c}, !.outcome[c] = Notes!Final[c]]]
    BY <1>6, <2>1
  <2>3. /\ process[p].pc = "send" /\ process[p].sends # {} /\ notes' = notes /\ noteFaults' = noteFaults
        /\ sent' = [sent EXCEPT ![process[p].note][c] = @ + 1]
    BY <1>3 DEF Notes!CallSucceeds, Notes!Called
  <2> HIDE DEF c
  <2>4. CallEffect(p, Notes!Final[c], 1)
    BY <1>1, <1>2, <2>2, <2>3 DEF CallEffect, c
  <2> QED BY <2>4 DEF c
<1>4. ASSUME Notes!CallFails(p) \/ Notes!AnswerLost(p), NEW n \in {0, 1}, n = 0 <=> Notes!CallFails(p)
      PROVE  CallEffect(p, "failed", n)
  <2>1. process' = [process EXCEPT ![p].sends = @ \ {c}, ![p].outcome[c] = "failed"]
    BY <1>4 DEF Notes!CallFails, Notes!AnswerLost, Notes!FailedOutcome, Notes!Called
  <2>2. process' = [process EXCEPT ![p] = [process[p] EXCEPT !.sends = @ \ {c}, !.outcome[c] = "failed"]]
    BY <1>6, <2>1
  <2>3. /\ process[p].pc = "send" /\ process[p].sends # {} /\ notes' = notes
        /\ sent' = IF n = 1 THEN [sent EXCEPT ![process[p].note][c] = @ + 1] ELSE sent
        /\ noteFaults' = IF n = 1 THEN noteFaults + 1 ELSE noteFaults
        /\ n = 1 => noteFaults < MaxNoteFaults
    BY <1>4 DEF Notes!CallFails, Notes!AnswerLost, Notes!Called, Notes!Fault
  <2> HIDE DEF c
  <2> QED BY <1>2, <2>2, <2>3 DEF CallEffect, c
<1>5. CASE Notes!CallFails(p)
  BY <1>4, <1>5
<1>7. CASE ~Notes!CallFails(p) /\ Notes!AnswerLost(p)
  BY <1>4, <1>7
<1> QED BY <1>3, <1>5, <1>7

LEMMA CallStore ==
  ASSUME StoreIInv, NEW p \in Notes!Processes,
         NEW outcome \in {"failed", Notes!Final[Notes!NextChannel(p)]},
         NEW n \in {0, 1}, CallEffect(p, outcome, n)
  PROVE  StoreIInv'
<1> USE DEF StoreIInv
<1> DEFINE c == Notes!NextChannel(p)
           b == process[p].note
<1>1. /\ process[p].pc = "send"
      /\ c \in process[p].sends /\ c \in Notes!Channels /\ b \in Alarms
  BY NextChannelSent DEF CallEffect, Notes!TypeOK
<1>2. /\ process' = [process EXCEPT ![p] = [process[p] EXCEPT !.sends = @ \ {c}, !.outcome[c] = outcome]]
      /\ sent' = IF n = 1 THEN [sent EXCEPT ![b][c] = @ + 1] ELSE sent
      /\ notes' = notes /\ noteFaults' \in 0 .. MaxNoteFaults
  BY DEF CallEffect
<1>3. outcome \in {"failed", Notes!Final[c]}
  OBVIOUS
<1> HIDE DEF c
<1>4. Notes!TypeOK'
  <2>1. [process[p] EXCEPT !.sends = @ \ {c}, !.outcome[c] = outcome] \in Notes!LocalStates
    <3>1. process[p] \in Notes!LocalStates
      BY DEF Notes!TypeOK
    <3>2. outcome \in {"pending", "failed", "published", "sent"}
      BY <1>1, <1>3, ChannelFacts
    <3>3. [process[p].outcome EXCEPT ![c] = outcome]
            \in [Notes!Channels -> {"pending", "failed", "published", "sent"}]
      BY <1>1, <3>1, <3>2 DEF Notes!LocalStates
    <3> QED BY <3>1, <3>3 DEF Notes!LocalStates
  <2>2. process' \in [Notes!Processes -> Notes!LocalStates]
    BY <1>2, <2>1 DEF Notes!TypeOK
  <2>3. \A q \in Notes!Processes : process'[q].pc \in {"take", "send"} => process'[q].note \in Alarms
    BY <1>1, <1>2 DEF Notes!TypeOK, Notes!LocalStates
  <2>4. sent' \in [Alarms -> [Notes!Channels -> Nat]]
    <3>1. CASE n # 1
      BY <1>2, <3>1 DEF Notes!TypeOK
    <3>2. CASE n = 1
      <4>1. sent[b] \in [Notes!Channels -> Nat] /\ sent[b][c] + 1 \in Nat
        BY <1>1 DEF Notes!TypeOK
      <4>2. [sent[b] EXCEPT ![c] = @ + 1] \in [Notes!Channels -> Nat]
        BY <1>1, <4>1
      <4> QED BY <1>1, <1>2, <3>2, <4>2 DEF Notes!TypeOK
    <3> QED BY <3>1, <3>2
  <2> QED BY <1>2, <2>2, <2>3, <2>4 DEF Notes!TypeOK
<1>5. DeliveryInv'
  BY <1>1, <1>2, <1>3 DEF DeliveryInv, Notes!TypeOK, Notes!LocalStates, FreshProcess
<1>6. HolderInv'
  BY <1>1, <1>2, <1>3 DEF HolderInv, Holds, Sending, Notes!TypeOK, Notes!LocalStates
<1>7. StatusInv'
  BY <1>2 DEF StatusInv
<1> QED BY <1>4, <1>5, <1>6, <1>7

LEMMA WriteStore ==
  ASSUME StoreIInv, NEW p \in Notes!Processes, Notes!WriteBack(p)
  PROVE  StoreIInv'
<1> USE DEF StoreIInv
<1> DEFINE b == process[p].note
           o == process[p].outcome
           status == [ch \in Notes!Channels |-> CASE o[ch] = "pending" -> notes[b].status[ch]
                                            [] o[ch] = "failed"  -> "pending"
                                            [] OTHER -> o[ch]]
           due == IF o["feishu"] = "pending" THEN notes[b].due ELSE o["feishu"] = "sent"
           row == [notes[b] EXCEPT !.token = Notes!None, !.fresh = FALSE, !.status = status, !.due = due]
<1>1. /\ process[p].pc = "send" /\ process[p].sends = {} /\ b \in Alarms
      /\ process[p] \in Notes!LocalStates /\ notes[b] \in Notes!NoteRows
  BY DEF Notes!WriteBack, Notes!TypeOK
<1>2. /\ process' = [process EXCEPT ![p] = Notes!Ended(p)]
      /\ UNCHANGED <<sent, noteFaults>>
      /\ notes' = IF Notes!MayWrite(p) THEN [notes EXCEPT ![b] = row] ELSE notes
  BY DEF Notes!WriteBack, Notes!SetNote, Notes!Released, Notes!Note
<1>3. \A ch \in Notes!Channels : status[ch] \in {"pending", Notes!Final[ch]}
  BY <1>1 DEF DeliveryInv, StatusInv
<1>4. status \in [Notes!Channels -> {"pending", "published", "sent"}] /\ due \in BOOLEAN
  BY <1>1, <1>3, ChannelFacts DEF Notes!NoteRows
<1> HIDE DEF status, due
<1>5. row \in Notes!NoteRows
  BY <1>1, <1>4 DEF Notes!NoteRows
<1>6. row.status = status /\ row.token = Notes!None /\ ~row.fresh
  BY <1>1 DEF Notes!NoteRows
<1> HIDE DEF row
<1>7. Notes!TypeOK'
  <2>1. notes' \in [Alarms -> Notes!NoteRows] /\ \A x \in Alarms : notes'[x].fresh
               => notes'[x].token # Notes!None
    BY <1>1, <1>2, <1>5, <1>6 DEF Notes!TypeOK
  <2>2. process' \in [Notes!Processes -> Notes!LocalStates]
    BY <1>2, EndedState DEF Notes!TypeOK
  <2>3. \A q \in Notes!Processes : process'[q].pc \in {"take", "send"} => process'[q].note \in Alarms
    BY <1>2, EndedState DEF Notes!TypeOK
  <2> QED BY <1>2, <2>1, <2>2, <2>3 DEF Notes!TypeOK
<1>8. DeliveryInv'
  BY <1>2, EndedState DEF DeliveryInv, Notes!TypeOK, FreshProcess
<1>9. HolderInv'
  <2> SUFFICES ASSUME NEW q \in Notes!Processes, NEW a \in Alarms, Holds(q, a)'
               PROVE  (\A ch \in Notes!Channels : ch \in process[q].sends \/ process[q].outcome[ch] # "pending"
                         => notes[a].status[ch] = "pending")'
    BY DEF HolderInv
  <2>1. process'[q] = process[q] /\ process[q].token # Notes!None
    BY <1>2, EndedState DEF Holds, Sending, DeliveryInv, Notes!TypeOK
  <2>2. notes'[a] = notes[a]
    BY <1>2, <1>6, <2>1 DEF Holds, Notes!TypeOK
  <2> QED BY <2>1, <2>2 DEF HolderInv, Holds, Sending
<1>10. StatusInv'
  BY <1>2, <1>3, <1>6 DEF StatusInv, Notes!TypeOK
<1> QED BY <1>7, <1>8, <1>9, <1>10

LEMMA CrashStore ==
  ASSUME StoreIInv, NEW p \in Notes!Processes, Notes!Crash(p)
  PROVE  StoreIInv'
<1> USE DEF StoreIInv
<1>1. /\ process' = [process EXCEPT ![p] = Notes!Idle] /\ UNCHANGED <<notes, sent>>
      /\ noteFaults' \in 0 .. MaxNoteFaults
  BY NoteFaultsAssumption DEF Notes!Crash, Notes!Fault, Notes!TypeOK
<1>2. /\ Notes!Idle \in Notes!LocalStates /\ Notes!Idle.pc = "idle" /\ Notes!Idle.token = Notes!None
      /\ Notes!Idle.sends = {}
      /\ \A ch \in Notes!Channels : Notes!Idle.outcome[ch] = "pending"
  BY IdleState DEF Notes!Idle
<1>3. Notes!TypeOK'
  BY <1>1, <1>2 DEF Notes!TypeOK
<1>4. DeliveryInv'
  BY <1>1, <1>2 DEF DeliveryInv, Notes!TypeOK, FreshProcess
<1>5. HolderInv'
  BY <1>1, <1>2 DEF HolderInv, Holds, Sending, Notes!TypeOK
<1>6. StatusInv'
  BY <1>1 DEF StatusInv
<1> QED BY <1>3, <1>4, <1>5, <1>6

LEMMA TimeStore ==
  ASSUME StoreIInv, NEW a \in Alarms, Notes!LeaseRunsOut(a) \/ Notes!ComesDue(a)
  PROVE  StoreIInv'
<1> USE DEF StoreIInv
<1>1. PICK row \in Notes!NoteRows :
        /\ row.token = notes[a].token /\ row.status = notes[a].status
        /\ row.fresh => notes[a].fresh
        /\ notes' = [notes EXCEPT ![a] = row]
  <2>1. notes[a] \in Notes!NoteRows
    BY DEF Notes!TypeOK
  <2>2. CASE Notes!LeaseRunsOut(a)
    <3>1. [notes[a] EXCEPT !.fresh = FALSE] \in Notes!NoteRows
      BY <2>1 DEF Notes!NoteRows
    <3> QED BY <2>1, <2>2, <3>1 DEF Notes!LeaseRunsOut, Notes!SetNote, Notes!NoteRows
  <2>3. CASE Notes!ComesDue(a)
    <3>1. [notes[a] EXCEPT !.due = TRUE] \in Notes!NoteRows
      BY <2>1 DEF Notes!NoteRows
    <3> QED BY <2>1, <2>3, <3>1 DEF Notes!ComesDue, Notes!SetNote, Notes!NoteRows
  <2> QED BY <2>2, <2>3
<1>2. UNCHANGED <<process, sent>> /\ noteFaults' \in 0 .. MaxNoteFaults
  BY NoteFaultsAssumption DEF Notes!LeaseRunsOut, Notes!ComesDue, Notes!Fault, Notes!TypeOK
<1>3. Notes!TypeOK'
  BY <1>1, <1>2 DEF Notes!TypeOK
<1>4. DeliveryInv'
  BY <1>2 DEF DeliveryInv, FreshProcess
<1>5. \A x \in Alarms : notes'[x].token = notes[x].token /\ notes'[x].status = notes[x].status
  BY <1>1 DEF Notes!TypeOK
<1>6. HolderInv'
  BY <1>2, <1>5 DEF HolderInv, Holds, Sending
<1>7. StatusInv'
  BY <1>5 DEF StatusInv
<1> QED BY <1>3, <1>4, <1>6, <1>7

LEMMA NextStore == StoreIInv /\ [Notes!Next]_(Notes!vars) => StoreIInv'
<1> SUFFICES ASSUME StoreIInv, [Notes!Next]_(Notes!vars) PROVE StoreIInv'
  OBVIOUS
<1>1. ASSUME NEW p \in Notes!Processes, Notes!Proceeds(p) PROVE StoreIInv'
  BY <1>1, Lists, ListStore, TakeStore, WriteStore, NoteCalls, CallStore DEF Notes!Proceeds, StoreIInv
<1>2. ASSUME NEW p \in Notes!Processes, Notes!Crash(p) PROVE StoreIInv'
  BY <1>2, CrashStore
<1>3. ASSUME NEW p \in Notes!Processes, NEW a \in Alarms, Notes!Emit(p, a) PROVE StoreIInv'
  BY <1>3, EmitStore
<1>4. ASSUME NEW a \in Alarms, Notes!LeaseRunsOut(a) \/ Notes!ComesDue(a) PROVE StoreIInv'
  BY <1>4, TimeStore
<1>5. CASE UNCHANGED Notes!vars
  BY <1>5 DEF Notes!vars, StoreIInv, Notes!TypeOK, DeliveryInv, HolderInv, StatusInv, Holds, Sending,
     FreshProcess
<1> QED BY <1>1, <1>2, <1>3, <1>4, <1>5 DEF Notes!Next

(* Every reachable state of the deliveries is well formed: a lease that has*)
(* not run out has a token.                                                *)
THEOREM NotesTypeCorrect == Notes!Spec => []Notes!TypeOK
<1>1. StoreIInv => Notes!TypeOK
  BY DEF StoreIInv
<1> QED BY InitStore, NextStore, <1>1, PTL DEF Notes!Spec

(* What the steps that send nothing do to a row of the table. *)
LEMMA TimeStatus ==
  ASSUME StoreIInv, NEW b \in Alarms, Notes!LeaseRunsOut(b) \/ Notes!ComesDue(b), NEW a \in Alarms
  PROVE  /\ notes'[a].token = notes[a].token /\ notes'[a].status = notes[a].status
         /\ notes'[a].fresh # notes[a].fresh => Notes!LeaseRunsOut(b) /\ a = b
<1>1. notes[a] \in Notes!NoteRows /\ notes[b] \in Notes!NoteRows
  BY DEF StoreIInv, Notes!TypeOK
<1>2. CASE Notes!LeaseRunsOut(b)
  BY <1>1, <1>2 DEF Notes!LeaseRunsOut, Notes!SetNote, Notes!NoteRows, StoreIInv, Notes!TypeOK
<1>3. CASE Notes!ComesDue(b)
  BY <1>1, <1>3 DEF Notes!ComesDue, Notes!SetNote, Notes!NoteRows, StoreIInv, Notes!TypeOK
<1> QED BY <1>2, <1>3

LEMMA TakeStatus ==
  ASSUME StoreIInv, NEW p \in Notes!Processes, Notes!Take(p), NEW a \in Alarms, NEW ch \in Notes!Channels
  PROVE  /\ sent' = sent /\ notes'[a].status = notes[a].status
         /\ \A q \in Notes!Processes : process'[q] = process[q] \/ process'[q].outcome[ch] = "pending"
<1> DEFINE b == process[p].note
<1>1. /\ process[p].pc = "take" /\ b \in Alarms /\ FreshProcess(p) /\ sent' = sent
      /\ process[p] \in Notes!LocalStates /\ process \in [Notes!Processes -> Notes!LocalStates]
  BY DEF Notes!Take, StoreIInv, Notes!TypeOK, DeliveryInv
<1>2. CASE Notes!MayTake(p)
  <2>1. PICK t : /\ notes' = [notes EXCEPT ![b] = [notes[b] EXCEPT !.token = t, !.fresh = TRUE]]
                 /\ process' = [process EXCEPT ![p] =
                                  [process[p] EXCEPT !.pc = "send", !.token = t, !.sends = Notes!ToSend(b)]]
    BY <1>2 DEF Notes!Take, Notes!SetNote, Notes!Note
  <2>2. notes[b] \in Notes!NoteRows /\ notes \in [Alarms -> Notes!NoteRows]
    BY <1>1 DEF StoreIInv, Notes!TypeOK
  <2>3. notes'[a].status = notes[a].status
    BY <1>1, <2>1, <2>2 DEF Notes!NoteRows
  <2>4. process'[p].outcome = process[p].outcome
               /\ \A q \in Notes!Processes \ {p} : process'[q] = process[q]
    BY <1>1, <2>1 DEF Notes!LocalStates
  <2> QED BY <1>1, <2>3, <2>4 DEF FreshProcess
<1>3. CASE ~Notes!MayTake(p)
  <2>1. process' = [process EXCEPT ![p] = Notes!Ended(p)] /\ notes' = notes
    BY <1>3 DEF Notes!Take
  <2>2. Notes!Ended(p).outcome[ch] = "pending"
    BY EndedState DEF StoreIInv
  <2> QED BY <1>1, <2>1, <2>2
<1> QED BY <1>2, <1>3

LEMMA WriteStatus ==
  ASSUME StoreIInv, NEW p \in Notes!Processes, Notes!WriteBack(p), Notes!MayWrite(p),
         NEW ch \in Notes!Channels
  PROVE  LET a == process[p].note
             o == process[p].outcome[ch]
         IN  /\ a \in Alarms /\ Holds(p, a) /\ notes'[a].token = Notes!None
             /\ \A x \in Alarms \ {a} : notes'[x] = notes[x]
             /\ notes'[a].status[ch] = CASE o = "pending" -> notes[a].status[ch]
                                          [] o = "failed"  -> "pending"
                                          [] OTHER -> o
<1> DEFINE a == process[p].note
           o == process[p].outcome
           s == [x \in Notes!Channels |-> CASE o[x] = "pending" -> notes[a].status[x]
                                      [] o[x] = "failed"  -> "pending"
                                      [] OTHER -> o[x]]
<1>1. /\ a \in Alarms /\ Holds(p, a) /\ notes[a] \in Notes!NoteRows
      /\ notes \in [Alarms -> Notes!NoteRows]
  BY DEF Notes!WriteBack, Notes!MayWrite, Notes!Note, Holds, Sending, StoreIInv, Notes!TypeOK
<1>2. PICK due : notes' = [notes EXCEPT ![a] = [Notes!Released(notes[a]) EXCEPT !.status = s, !.due = due]]
  <2>1. Notes!SetNote(process[p].note,
                [Notes!Released(Notes!Note(p)) EXCEPT
                   !.status = [x \in Notes!Channels |->
                                 CASE o[x] = "pending" -> @[x]
                                   [] o[x] = "failed"  -> "pending"
                                   [] OTHER -> o[x]],
                   !.due = IF o["feishu"] = "pending" THEN @
                           ELSE o["feishu"] = "sent"])
    BY DEF Notes!WriteBack
  <2>2. Notes!Released(notes[a]).status = notes[a].status
    BY <1>1 DEF Notes!Released, Notes!NoteRows
  <2> QED BY <2>1, <2>2 DEF Notes!SetNote, Notes!Note
<1> HIDE DEF s
<1>3. [Notes!Released(notes[a]) EXCEPT !.status = s, !.due = due].token = Notes!None
  BY <1>1 DEF Notes!Released, Notes!NoteRows
<1>4. [Notes!Released(notes[a]) EXCEPT !.status = s, !.due = due].status = s
  BY <1>1 DEF Notes!Released, Notes!NoteRows
<1>5. notes'[a].token = Notes!None /\ notes'[a].status = s /\ \A x \in Alarms \ {a} : notes'[x] = notes[x]
  BY <1>1, <1>2, <1>3, <1>4
<1> QED BY <1>1, <1>5 DEF s

(* Calls that an outlived lease cannot stop any more. *)
Late(a, ch) == {p \in Notes!Processes : Sending(p, a) /\ ch \in process[p].sends /\ ~Live(p, a)}

Delivered(a, ch) ==
  \/ notes[a].status[ch] = Notes!Final[ch]
  \/ \E p \in Notes!Processes : Live(p, a) /\ process[p].outcome[ch] = Notes!Final[ch]

Accepted(a, ch) == IF Delivered(a, ch) THEN 1 ELSE 0

(* What was sent, and what a call without a lease may still send, is paid  *)
(* by the faults, but for the one delivery of a lease that held.           *)
CountInv ==
  \A a \in Alarms, ch \in Notes!Channels :
    sent[a][ch] + Cardinality(Late(a, ch)) <= noteFaults + Accepted(a, ch)

LEMMA LateFinite ==
  ASSUME NEW a, NEW ch
  PROVE  /\ IsFiniteSet(Late(a, ch)) /\ Cardinality(Late(a, ch)) \in Nat
         /\ IsFiniteSet(Late(a, ch)') /\ Cardinality(Late(a, ch)') \in Nat
<1>1. IsFiniteSet(Notes!Processes) /\ Late(a, ch) \subseteq Notes!Processes
             /\ Late(a, ch)' \subseteq Notes!Processes
  BY SendersAssumption DEF Late, Notes!Processes
<1> QED BY <1>1, FS_Subset, FS_CardinalityType

(* How one alarm on one channel fares in a step. *)
Kept(a, ch) ==
  /\ sent'[a][ch] = sent[a][ch] /\ Late(a, ch)' \subseteq Late(a, ch)
  /\ noteFaults' >= noteFaults + Accepted(a, ch) - Accepted(a, ch)'

LEMMA CountKept ==
  ASSUME StoreIInv, StoreIInv', CountInv, NEW a \in Alarms, NEW ch \in Notes!Channels, Kept(a, ch)
  PROVE  (sent[a][ch] + Cardinality(Late(a, ch)) <= noteFaults + Accepted(a, ch))'
<1>1. Cardinality(Late(a, ch)') <= Cardinality(Late(a, ch))
  BY LateFinite, FS_Subset DEF Kept
<1>2. /\ sent[a][ch] \in Nat /\ noteFaults \in Nat /\ noteFaults' \in Nat
      /\ Accepted(a, ch) \in Nat /\ Accepted(a, ch)' \in Nat
  BY NoteFaultsAssumption DEF StoreIInv, Notes!TypeOK, Accepted
<1> QED BY <1>1, <1>2, LateFinite DEF Kept, CountInv

(* Nothing that counts for the alarm has changed. *)
LEMMA Untouched ==
  ASSUME NEW a \in Alarms, NEW ch \in Notes!Channels, StoreIInv,
         notes'[a].token = notes[a].token, notes'[a].status = notes[a].status,
         notes'[a].fresh = notes[a].fresh, sent'[a] = sent[a], noteFaults' >= noteFaults,
                      noteFaults' \in Nat,
         \A p \in Notes!Processes : process'[p] = process[p] \/ (~Sending(p, a) /\ ~Sending(p, a)')
  PROVE  Kept(a, ch)
<1>1. \A p \in Notes!Processes :
        /\ Sending(p, a)' <=> Sending(p, a)
        /\ Sending(p, a) => process'[p] = process[p]
        /\ Live(p, a)' <=> Live(p, a)
  BY DEF Live, Holds, Sending
<1>2. Late(a, ch)' = Late(a, ch)
  <2>1. \A p \in Notes!Processes : (Sending(p, a) /\ ch \in process[p].sends /\ ~Live(p, a))'
                             <=> (Sending(p, a) /\ ch \in process[p].sends /\ ~Live(p, a))
    <3> TAKE p \in Notes!Processes
    <3>1. CASE Sending(p, a)
      BY <1>1, <3>1
    <3>2. CASE ~Sending(p, a)
      BY <1>1, <3>2
    <3> QED BY <3>1, <3>2
  <2> QED BY <2>1 DEF Late
<1>3. Delivered(a, ch)' <=> Delivered(a, ch)
  <2>1. \A p \in Notes!Processes : Live(p, a) => process'[p] = process[p]
    BY <1>1 DEF Live, Holds
  <2>2. (\E p \in Notes!Processes : Live(p, a) /\ process[p].outcome[ch] = Notes!Final[ch])'
          <=> (\E p \in Notes!Processes : Live(p, a) /\ process[p].outcome[ch] = Notes!Final[ch])
    BY <1>1, <2>1
  <2> QED BY <2>2 DEF Delivered
<1>4. Accepted(a, ch)' = Accepted(a, ch) /\ Accepted(a, ch) \in Nat
  BY <1>3 DEF Accepted
<1> QED BY <1>2, <1>4, NoteFaultsAssumption DEF Kept, StoreIInv, Notes!TypeOK

LEMMA OneHolder ==
  ASSUME StoreIInv, NEW a \in Alarms, NEW p \in Notes!Processes, NEW q \in Notes!Processes,
         Holds(p, a), Holds(q, a)
  PROVE  p = q
  BY DEF StoreIInv, DeliveryInv, Holds, Sending

LEMMA EmitCount ==
  ASSUME StoreIInv, NEW p \in Notes!Processes, NEW b \in Alarms, Notes!Emit(p, b),
         NEW a \in Alarms, NEW ch \in Notes!Channels
  PROVE  Kept(a, ch)
<1>1. /\ notes'[a].token = notes[a].token /\ notes'[a].status = notes[a].status
      /\ notes'[a].fresh = notes[a].fresh
  BY DEF Notes!Emit, Notes!SetNote, StoreIInv, Notes!TypeOK, Notes!NoteRows
<1>2. \A q \in Notes!Processes : process'[q] = process[q] \/ (~Sending(q, a) /\ ~Sending(q, a)')
  BY DEF Notes!Emit, StoreIInv, Notes!TypeOK, Sending, Notes!Idle
<1>3. sent' = sent /\ noteFaults' = noteFaults /\ noteFaults \in Nat
  BY NoteFaultsAssumption DEF Notes!Emit, StoreIInv, Notes!TypeOK
<1> QED BY <1>1, <1>2, <1>3, Untouched

LEMMA ListCount ==
  ASSUME StoreIInv, NEW p \in Notes!Processes, ListEffect(p), process[p].pc # "send",
         UNCHANGED <<notes, sent, noteFaults>>, NEW a \in Alarms, NEW ch \in Notes!Channels
  PROVE  Kept(a, ch)
<1>1. noteFaults' = noteFaults /\ noteFaults \in Nat
  BY NoteFaultsAssumption DEF StoreIInv, Notes!TypeOK
<1>2. \A q \in Notes!Processes : process'[q] = process[q] \/ (~Sending(q, a) /\ ~Sending(q, a)')
  BY DEF ListEffect, StoreIInv, Notes!TypeOK, Sending
<1> QED BY <1>1, <1>2, Untouched

LEMMA TakeCount ==
  ASSUME StoreIInv, NEW p \in Notes!Processes, Notes!Take(p), NEW a \in Alarms, NEW ch \in Notes!Channels
  PROVE  Kept(a, ch)
<1> DEFINE b == process[p].note
<1>1. /\ process[p].pc = "take" /\ b \in Alarms /\ noteFaults \in Nat
      /\ sent' = sent /\ noteFaults' = noteFaults
      /\ \A q \in Notes!Processes \ {p} : process'[q] = process[q]
  BY NoteFaultsAssumption DEF Notes!Take, StoreIInv, Notes!TypeOK
<1>2. CASE ~Notes!MayTake(p)
  <2>1. process'[p] = Notes!Ended(p) /\ notes' = notes
    BY <1>2 DEF Notes!Take, StoreIInv, Notes!TypeOK
  <2>2. ~Sending(p, a) /\ ~Sending(p, a)'
    BY <1>1, <2>1, EndedState DEF Sending, StoreIInv
  <2> QED BY <1>1, <2>1, <2>2, Untouched
<1>3. CASE Notes!MayTake(p) /\ a # b
  <2>0. process[p] \in Notes!LocalStates
    BY DEF StoreIInv, Notes!TypeOK
  <2>1. notes'[a] = notes[a]
    BY <1>1, <1>3 DEF Notes!Take, Notes!SetNote, StoreIInv, Notes!TypeOK
  <2>3. \E token, sends : process' = [process EXCEPT ![p] = [process[p] EXCEPT !.pc = "send",
               !.token = token, !.sends = sends]]
    BY <1>3 DEF Notes!Take
  <2>4. process'[p].note = b
    BY <2>0, <2>3 DEF StoreIInv, Notes!TypeOK, Notes!LocalStates
  <2>2. ~Sending(p, a) /\ ~Sending(p, a)'
    BY <1>1, <1>3, <2>4 DEF Sending
  <2> QED BY <1>1, <2>1, <2>2, Untouched
<1>4. CASE Notes!MayTake(p) /\ a = b
  <2> DEFINE t == CHOOSE t \in Notes!Unused : TRUE
  <2>1. /\ Notes!Unused # {} /\ notes[a] \in Notes!NoteRows /\ process[p] \in Notes!LocalStates
        /\ notes' = [notes EXCEPT ![a] = [notes[a] EXCEPT !.token = t, !.fresh = TRUE]]
        /\ process' = [process EXCEPT ![p] =
                         [process[p] EXCEPT !.pc = "send", !.token = t, !.sends = Notes!ToSend(a)]]
    BY <1>4 DEF Notes!Take, Notes!SetNote, Notes!Note, StoreIInv, Notes!TypeOK
  <2>2. \A q \in Notes!Processes : process[q].token # t
    BY <2>1, TokenUnused
  <2> HIDE DEF t
  <2>3. /\ notes'[a].token = t /\ notes'[a].fresh /\ notes'[a].status = notes[a].status
        /\ process'[p].pc = "send" /\ process'[p].note = a /\ process'[p].token = t
        /\ process'[p].outcome = process[p].outcome
    BY <1>1, <1>4, <2>1 DEF Notes!NoteRows, Notes!LocalStates, StoreIInv, Notes!TypeOK
  <2>4. \A q \in Notes!Processes : ~Live(q, a)
    BY <1>1, <1>4 DEF Notes!MayTake, Notes!Free, Live, Holds, Sending, StoreIInv, DeliveryInv
  <2>5. Live(p, a)' /\ ~Sending(p, a)
    BY <1>1, <2>3 DEF Live, Holds, Sending
  <2>6. \A q \in Notes!Processes \ {p} : ~Live(q, a)' /\ (Sending(q, a)' <=> Sending(q, a))
    BY <1>1, <2>2, <2>3 DEF Live, Holds, Sending
  <2>7. Late(a, ch)' = Late(a, ch)
    BY <1>1, <2>4, <2>5, <2>6 DEF Late
  <2>8. Delivered(a, ch) => Delivered(a, ch)'
    BY <2>3, <2>4 DEF Delivered
  <2> QED BY <1>1, <2>7, <2>8 DEF Kept, Accepted
<1> QED BY <1>2, <1>3, <1>4

LEMMA CallCount ==
  ASSUME StoreIInv, StoreIInv', CountInv, NEW p \in Notes!Processes,
         NEW outcome \in {"failed", Notes!Final[Notes!NextChannel(p)]}, NEW n \in {0, 1},
         CallEffect(p, outcome, n), NEW a \in Alarms, NEW ch \in Notes!Channels
  PROVE  (sent[a][ch] + Cardinality(Late(a, ch)) <= noteFaults + Accepted(a, ch))'
<1> DEFINE c == Notes!NextChannel(p)
           b == process[p].note
<1>1. /\ process[p].pc = "send" /\ process[p] \in Notes!LocalStates
      /\ c \in process[p].sends /\ c \in Notes!Channels /\ b \in Alarms
      /\ noteFaults \in Nat /\ noteFaults' \in Nat
  BY NextChannelSent, NoteFaultsAssumption DEF CallEffect, StoreIInv, Notes!TypeOK
<1>2. /\ process' = [process EXCEPT ![p] = [process[p] EXCEPT !.sends = @ \ {c}, !.outcome[c] = outcome]]
      /\ sent' = IF n = 1 THEN [sent EXCEPT ![b][c] = @ + 1] ELSE sent
      /\ notes' = notes /\ noteFaults' >= noteFaults
      /\ outcome # "failed" => n = 1
      /\ outcome = "failed" /\ n = 1 => noteFaults' = noteFaults + 1
  BY DEF CallEffect
<1>3. outcome \in {"failed", Notes!Final[c]}
  OBVIOUS
<1> HIDE DEF c
<1>4. /\ \A q \in Notes!Processes \ {p} : process'[q] = process[q]
      /\ process'[p].pc = "send" /\ process'[p].note = b /\ process'[p].token = process[p].token
      /\ process'[p].sends = process[p].sends \ {c}
      /\ process'[p].outcome[c] = outcome
      /\ \A x \in Notes!Channels \ {c} : process'[p].outcome[x] = process[p].outcome[x]
  BY <1>1, <1>2 DEF Notes!LocalStates, StoreIInv, Notes!TypeOK
<1>5. \A q \in Notes!Processes : (Sending(q, a)' <=> Sending(q, a)) /\ (Live(q, a)' <=> Live(q, a))
  BY <1>1, <1>2, <1>4 DEF Live, Holds, Sending
<1>6. sent \in [Alarms -> [Notes!Channels -> Nat]] /\ sent' \in [Alarms -> [Notes!Channels -> Nat]]
  BY DEF StoreIInv, Notes!TypeOK
<1>7. CASE a # b \/ ch # c
  <2>1. sent'[a][ch] = sent[a][ch]
    BY <1>1, <1>2, <1>6, <1>7
  <2>2. Late(a, ch)' = Late(a, ch)
    BY <1>4, <1>5, <1>7 DEF Late, Sending
  <2>3. Delivered(a, ch) => Delivered(a, ch)'
    BY <1>2, <1>4, <1>5, <1>7 DEF Delivered, Live, Holds, Sending
  <2>4. Kept(a, ch)
    BY <1>1, <1>2, <2>1, <2>2, <2>3 DEF Kept, Accepted
  <2> QED BY <2>4, CountKept
<1>8. CASE a = b /\ ch = c
  <2>1. sent'[a][ch] = IF n = 1 THEN sent[a][ch] + 1 ELSE sent[a][ch]
    BY <1>1, <1>2, <1>6, <1>8
  <2>2. Sending(p, a) /\ ch \in process[p].sends /\ ch \notin process'[p].sends
        /\ process[p].outcome[ch] = "pending"
    BY <1>1, <1>4, <1>8 DEF Sending, StoreIInv, DeliveryInv
  <2>3. sent[a][ch] + Cardinality(Late(a, ch)) <= noteFaults + Accepted(a, ch)
    BY DEF CountInv
  <2>4. sent[a][ch] \in Nat /\ Accepted(a, ch) \in 0 .. 1 /\ Accepted(a, ch)' \in 0 .. 1
    BY <1>6 DEF Accepted
  <2>5. CASE Live(p, a)
    <3>1. Late(a, ch)' = Late(a, ch)
      BY <1>4, <1>5, <2>5 DEF Late
    <3>2. ~Delivered(a, ch)
      <4>1. notes[a].status[ch] = "pending"
        BY <2>2, <2>5 DEF StoreIInv, HolderInv, Live
      <4>2. \A q \in Notes!Processes : Live(q, a) => q = p
        BY <2>5, OneHolder DEF Live
      <4> QED BY <2>2, <4>1, <4>2, ChannelFacts DEF Delivered
    <3>3. outcome # "failed" => Delivered(a, ch)'
      BY <1>3, <1>4, <1>5, <1>8, <2>5 DEF Delivered
    <3> QED BY <1>1, <1>2, <2>1, <2>3, <2>4, <3>1, <3>2, <3>3, LateFinite DEF Accepted
  <2>6. CASE ~Live(p, a)
    <3>1. p \in Late(a, ch) /\ Late(a, ch)' = Late(a, ch) \ {p}
      BY <1>4, <1>5, <2>2, <2>6 DEF Late
    <3>2. Cardinality(Late(a, ch)') = Cardinality(Late(a, ch)) - 1
      BY <3>1, LateFinite, FS_RemoveElement
    <3>3. Delivered(a, ch) => Delivered(a, ch)'
      BY <1>2, <1>4, <1>5, <2>6 DEF Delivered
    <3> QED BY <1>1, <1>2, <2>1, <2>3, <2>4, <3>2, <3>3, LateFinite DEF Accepted
  <2> QED BY <2>5, <2>6
<1> QED BY <1>7, <1>8
LEMMA WriteCount ==
  ASSUME StoreIInv, NEW p \in Notes!Processes, Notes!WriteBack(p), NEW a \in Alarms,
         NEW ch \in Notes!Channels
  PROVE  Kept(a, ch)
<1> DEFINE b == process[p].note
<1>1. /\ process[p].pc = "send" /\ process[p].sends = {} /\ b \in Alarms /\ noteFaults \in Nat
      /\ process' = [process EXCEPT ![p] = Notes!Ended(p)] /\ sent' = sent /\ noteFaults' = noteFaults
  BY NoteFaultsAssumption DEF Notes!WriteBack, StoreIInv, Notes!TypeOK
<1>2. /\ \A q \in Notes!Processes \ {p} : process'[q] = process[q]
      /\ \A x \in Alarms : ~Sending(p, x)'
  BY <1>1, EndedState DEF StoreIInv, Notes!TypeOK, Sending
<1>3. CASE a # b
  <2>1. notes'[a] = notes[a] /\ ~Sending(p, a)
    BY <1>1, <1>3 DEF Notes!WriteBack, Notes!SetNote, Sending, StoreIInv, Notes!TypeOK
  <2> QED BY <1>1, <1>2, <2>1, Untouched
<1>4. CASE a = b /\ ~Notes!MayWrite(p)
  <2>1. notes' = notes /\ ~Holds(p, a)
    BY <1>4 DEF Notes!WriteBack, Notes!MayWrite, Notes!Note, Holds
  <2>2. \A q \in Notes!Processes \ {p} : (Live(q, a)' <=> Live(q, a)) /\ (Sending(q, a)' <=> Sending(q, a))
    BY <1>2, <2>1 DEF Live, Holds, Sending
  <2>3. Late(a, ch)' = Late(a, ch)
    BY <1>1, <1>2, <2>2 DEF Late
  <2>4. Delivered(a, ch) => Delivered(a, ch)'
    BY <1>2, <2>1, <2>2 DEF Delivered, Live
  <2> QED BY <1>1, <2>3, <2>4 DEF Kept, Accepted
<1>5. CASE a = b /\ Notes!MayWrite(p)
  <2> DEFINE o == process[p].outcome
  <2>1. /\ notes[a] \in Notes!NoteRows /\ Holds(p, a)
        /\ o[ch] \in {"pending", "failed", Notes!Final[ch]}
        /\ o[ch] # "pending" => notes[a].status[ch] = "pending"
    BY <1>1, <1>5 DEF Notes!MayWrite, Notes!Note, Holds, Sending, StoreIInv, Notes!TypeOK,
       DeliveryInv, HolderInv
  <2>3. /\ notes'[a].token = Notes!None
        /\ notes'[a].status[ch] = CASE o[ch] = "pending" -> notes[a].status[ch]
                                     [] o[ch] = "failed"  -> "pending"
                                     [] OTHER -> o[ch]
    BY <1>5, WriteStatus
  <2>4. \A q \in Notes!Processes \ {p} : ~Holds(q, a)
    BY <2>1, OneHolder
  <2>5. \A q \in Notes!Processes \ {p} : ~Live(q, a)' /\ (Sending(q, a)' <=> Sending(q, a))
    BY <1>2, <2>3 DEF Live, Holds, Sending, StoreIInv, DeliveryInv
  <2>6. Late(a, ch)' = Late(a, ch)
    BY <1>1, <1>2, <2>4, <2>5 DEF Late, Live
  <2>7. Delivered(a, ch) => Delivered(a, ch)'
    <3>1. Notes!Final[ch] \notin {"pending", "failed"}
      BY ChannelFacts
    <3>2. Delivered(a, ch) => notes[a].status[ch] = Notes!Final[ch] \/ o[ch] = Notes!Final[ch]
      BY <2>4 DEF Delivered, Live
    <3>3. notes[a].status[ch] = Notes!Final[ch] \/ o[ch] = Notes!Final[ch]
                 => notes'[a].status[ch] = Notes!Final[ch]
      BY <2>1, <2>3, <3>1
    <3> QED BY <3>2, <3>3 DEF Delivered
  <2> QED BY <1>1, <2>6, <2>7 DEF Kept, Accepted
<1> QED BY <1>3, <1>4, <1>5

LEMMA CrashCount ==
  ASSUME StoreIInv, NEW p \in Notes!Processes, Notes!Crash(p), NEW a \in Alarms, NEW ch \in Notes!Channels
  PROVE  Kept(a, ch)
<1>1. /\ notes' = notes /\ sent' = sent /\ noteFaults' = noteFaults + 1 /\ noteFaults \in Nat
      /\ process' = [process EXCEPT ![p] = Notes!Idle] /\ Notes!Idle.pc = "idle"
  BY NoteFaultsAssumption DEF Notes!Crash, Notes!Fault, StoreIInv, Notes!TypeOK, Notes!Idle
<1>2. /\ \A q \in Notes!Processes \ {p} : process'[q] = process[q]
      /\ ~Sending(p, a)'
  BY <1>1 DEF StoreIInv, Notes!TypeOK, Sending
<1>3. \A q \in Notes!Processes \ {p} : (Live(q, a)' <=> Live(q, a)) /\ (Sending(q, a)' <=> Sending(q, a))
  BY <1>1, <1>2 DEF Live, Holds, Sending
<1>4. Late(a, ch)' \subseteq Late(a, ch)
  BY <1>2, <1>3 DEF Late
<1>5. Accepted(a, ch) <= 1 /\ Accepted(a, ch) \in Nat /\ Accepted(a, ch)' \in Nat
  BY DEF Accepted
<1> QED BY <1>1, <1>4, <1>5 DEF Kept

LEMMA TimeCount ==
  ASSUME StoreIInv, StoreIInv', CountInv, NEW b \in Alarms, Notes!LeaseRunsOut(b) \/ Notes!ComesDue(b),
         NEW a \in Alarms, NEW ch \in Notes!Channels
  PROVE  (sent[a][ch] + Cardinality(Late(a, ch)) <= noteFaults + Accepted(a, ch))'
<1>1. /\ process' = process /\ sent' = sent /\ noteFaults' >= noteFaults
      /\ noteFaults \in Nat /\ noteFaults' \in Nat /\ sent[a][ch] \in Nat
  BY NoteFaultsAssumption DEF Notes!LeaseRunsOut, Notes!ComesDue, Notes!Fault, StoreIInv, Notes!TypeOK
<1>2. /\ notes'[a].token = notes[a].token /\ notes'[a].status = notes[a].status
      /\ notes'[a].fresh # notes[a].fresh => Notes!LeaseRunsOut(b) /\ a = b
  BY TimeStatus
<1>3. CASE notes'[a].fresh = notes[a].fresh
  <2>1. Kept(a, ch)
    BY <1>1, <1>2, <1>3, Untouched
  <2> QED BY <2>1, CountKept
<1>4. CASE notes'[a].fresh # notes[a].fresh
  <2>1. /\ Notes!LeaseRunsOut(a) /\ notes[a].fresh /\ ~notes'[a].fresh
    BY <1>2, <1>4 DEF Notes!LeaseRunsOut, Notes!SetNote, Notes!NoteRows, StoreIInv, Notes!TypeOK
  <2>2. \A q \in Notes!Processes : ~Live(q, a)' /\ (Sending(q, a)' <=> Sending(q, a))
    BY <1>1, <2>1 DEF Live, Holds, Sending
  <2>3. \A q \in Notes!Processes : Live(q, a) <=> q \in Notes!Holder(a)
    BY <2>1 DEF Live, Holds, Sending, Notes!Holder
  <2>4. CASE Notes!Holder(a) = {}
    <3>1. Late(a, ch)' = Late(a, ch)
      BY <1>1, <2>2, <2>3, <2>4 DEF Late
    <3>2. Delivered(a, ch) => Delivered(a, ch)'
      BY <1>2, <2>3, <2>4 DEF Delivered
    <3>3. Kept(a, ch)
      BY <1>1, <3>1, <3>2 DEF Kept, Accepted
    <3> QED BY <3>3, CountKept
  <2>5. CASE Notes!Holder(a) # {}
    <3>1. PICK h \in Notes!Processes : Live(h, a)
      BY <2>3, <2>5 DEF Notes!Holder
    <3>2. \A q \in Notes!Processes \ {h} : ~Live(q, a)
      BY <3>1, OneHolder DEF Live
    <3>3. noteFaults' = noteFaults + 1
      BY <2>1, <2>5 DEF Notes!LeaseRunsOut, Notes!Fault
    <3>4. Accepted(a, ch) \in 0 .. 1 /\ Accepted(a, ch)' \in 0 .. 1
      BY DEF Accepted
    <3>5. sent[a][ch] + Cardinality(Late(a, ch)) <= noteFaults + Accepted(a, ch)
      BY DEF CountInv
    <3>6. CASE ch \in process[h].sends
      <4>1. h \notin Late(a, ch) /\ Late(a, ch)' = Late(a, ch) \cup {h}
        BY <1>1, <2>2, <3>1, <3>2, <3>6 DEF Late, Live, Holds
      <4>2. Cardinality(Late(a, ch)') = Cardinality(Late(a, ch)) + 1
        BY <4>1, LateFinite, FS_AddElement
      <4>3. notes[a].status[ch] = "pending" /\ process[h].outcome[ch] = "pending"
        BY <3>1, <3>6 DEF StoreIInv, HolderInv, DeliveryInv, Live
      <4>4. ~Delivered(a, ch)
        BY <3>1, <3>2, <4>3, ChannelFacts DEF Delivered
      <4> QED BY <1>1, <3>3, <3>4, <3>5, <4>2, <4>4, LateFinite DEF Accepted
    <3>7. CASE ch \notin process[h].sends
      <4>1. Late(a, ch)' = Late(a, ch)
        BY <1>1, <2>2, <3>2, <3>7 DEF Late
      <4> QED BY <1>1, <3>3, <3>4, <3>5, <4>1, LateFinite
    <3> QED BY <3>6, <3>7
  <2> QED BY <2>4, <2>5
<1> QED BY <1>3, <1>4

LEMMA NextCount == StoreIInv /\ CountInv /\ [Notes!Next]_(Notes!vars) => CountInv'
<1> SUFFICES ASSUME StoreIInv, CountInv, [Notes!Next]_(Notes!vars), NEW a \in Alarms,
                    NEW ch \in Notes!Channels
             PROVE  (sent[a][ch] + Cardinality(Late(a, ch)) <= noteFaults + Accepted(a, ch))'
  BY DEF CountInv
<1> DEFINE Goal == (sent[a][ch] + Cardinality(Late(a, ch)) <= noteFaults + Accepted(a, ch))'
<1>0. StoreIInv'
  BY NextStore
<1>a. Kept(a, ch) => Goal
  BY <1>0, CountKept
<1> HIDE DEF Goal
<1>1. ASSUME NEW p \in Notes!Processes, Notes!Proceeds(p) PROVE Goal
  <2>1. CASE Notes!RetryPending(p) \/ \E b \in Alarms : Notes!DeliverNext(p, b)
    BY <1>a, <2>1, Lists, ListCount
  <2>2. CASE Notes!Take(p)
    BY <1>a, <2>2, TakeCount
  <2>3. CASE Notes!CallSucceeds(p) \/ Notes!CallFails(p) \/ Notes!AnswerLost(p)
    <3>1. PICK outcome \in {"failed", Notes!Final[Notes!NextChannel(p)]}, n \in {0, 1} : CallEffect(p, outcome, n)
      BY <2>3, NoteCalls DEF StoreIInv
    <3> QED BY <1>0, <3>1, CallCount DEF Goal
  <2>4. CASE Notes!WriteBack(p)
    BY <1>a, <2>4, WriteCount
  <2> QED BY <1>1, <2>1, <2>2, <2>3, <2>4 DEF Notes!Proceeds
<1>2. ASSUME NEW p \in Notes!Processes, Notes!Crash(p) PROVE Goal
  BY <1>a, <1>2, CrashCount
<1>3. ASSUME NEW p \in Notes!Processes, NEW b \in Alarms, Notes!Emit(p, b) PROVE Goal
  BY <1>a, <1>3, EmitCount
<1>4. ASSUME NEW b \in Alarms, Notes!LeaseRunsOut(b) \/ Notes!ComesDue(b) PROVE Goal
  BY <1>0, <1>4, TimeCount DEF Goal
<1>5. ASSUME UNCHANGED Notes!vars PROVE Goal
  <2>1. noteFaults \in Nat
    BY NoteFaultsAssumption DEF StoreIInv, Notes!TypeOK
  <2>2. Kept(a, ch)
    BY <1>5, <2>1, Untouched DEF Notes!vars
  <2> QED BY <1>a, <2>2
<1>6. Goal
  BY <1>1, <1>2, <1>3, <1>4, <1>5 DEF Notes!Next
<1> QED BY <1>6 DEF Goal

LEMMA InitCount == Notes!Init => CountInv
<1> SUFFICES ASSUME Notes!Init, NEW a \in Alarms, NEW ch \in Notes!Channels
             PROVE  sent[a][ch] + Cardinality(Late(a, ch)) <= noteFaults + Accepted(a, ch)
  BY DEF CountInv
<1>1. Late(a, ch) = {}
  BY DEF Notes!Init, Notes!Idle, Late, Sending
<1>2. sent[a][ch] = 0 /\ noteFaults = 0 /\ Accepted(a, ch) \in Nat
  BY DEF Notes!Init, Accepted
<1> QED BY <1>1, <1>2, FS_EmptySet

DuplicatesNeedFaults == \A a \in Alarms, ch \in Notes!Channels : sent[a][ch] <= 1 + noteFaults

(* However requests and jobs race for an alarm, each delivery of it after  *)
(* the first costs a fault: a crash, a lost answer or a lease outlived.    *)
THEOREM DuplicatesCorrect == Notes!Spec => []DuplicatesNeedFaults
<1>1. StoreIInv /\ CountInv => DuplicatesNeedFaults
  <2> SUFFICES ASSUME StoreIInv, CountInv, NEW a \in Alarms, NEW ch \in Notes!Channels
               PROVE  sent[a][ch] <= 1 + noteFaults
    BY DEF DuplicatesNeedFaults
  <2>1. sent[a][ch] \in Nat /\ noteFaults \in Nat /\ Accepted(a, ch) \in 0 .. 1
    BY NoteFaultsAssumption DEF StoreIInv, Notes!TypeOK, Accepted
  <2> QED BY <2>1, LateFinite DEF CountInv
<1> QED BY InitStore, InitCount, NextStore, NextCount, <1>1, PTL DEF Notes!Spec

(* What a delivery takes for sent, and what the table reports, was         *)
(* accepted by the channel.                                                *)
TruthInv ==
  \A a \in Alarms, ch \in Notes!Channels :
    /\ notes[a].status[ch] = Notes!Final[ch] => sent[a][ch] > 0
    /\ \A p \in Notes!Processes : Sending(p, a) /\ process[p].outcome[ch] = Notes!Final[ch]
                 => sent[a][ch] > 0

(* A step may report what a delivery had in hand, and a delivery has in    *)
(* hand what it had or what the channel has accepted.                      *)
Truthful(a, ch) ==
  /\ sent'[a][ch] >= sent[a][ch]
  /\ notes'[a].status[ch] = Notes!Final[ch] =>
       \/ notes[a].status[ch] = Notes!Final[ch]
       \/ \E p \in Notes!Processes : Sending(p, a) /\ process[p].outcome[ch] = Notes!Final[ch]
  /\ \A p \in Notes!Processes : (Sending(p, a) /\ process[p].outcome[ch] = Notes!Final[ch])' =>
       \/ Sending(p, a) /\ process[p].outcome[ch] = Notes!Final[ch]
       \/ sent'[a][ch] > 0

(* A step that calls nothing and writes no status. *)
LEMMA NothingSaid ==
  ASSUME StoreIInv, NEW a \in Alarms, NEW ch \in Notes!Channels, sent' = sent,
         notes'[a].status = notes[a].status,
         \A q \in Notes!Processes : (\/ process'[q] = process[q]
                               \/ process'[q].pc # "send"
                               \/ process'[q].outcome[ch] = "pending")
  PROVE  Truthful(a, ch)
<1>1. sent[a][ch] \in Nat /\ Notes!Final[ch] # "pending"
  BY ChannelFacts DEF StoreIInv, Notes!TypeOK
<1> QED BY <1>1 DEF Truthful, Sending

LEMMA NextTruthful ==
  ASSUME StoreIInv, StoreIInv', Notes!Next, NEW a \in Alarms, NEW ch \in Notes!Channels
  PROVE  Truthful(a, ch)
<1>1. ASSUME NEW p \in Notes!Processes, Notes!RetryPending(p) \/ \E b \in Alarms : Notes!DeliverNext(p, b)
      PROVE  Truthful(a, ch)
  <2>1. ListEffect(p) /\ UNCHANGED <<notes, sent, noteFaults>>
    BY <1>1, Lists
  <2>2. \A q \in Notes!Processes : process'[q] = process[q] \/ process'[q].pc # "send"
    BY <2>1 DEF ListEffect, StoreIInv, Notes!TypeOK
  <2> QED BY <2>1, <2>2, NothingSaid
<1>2. ASSUME NEW p \in Notes!Processes, Notes!Take(p) PROVE Truthful(a, ch)
  BY <1>2, TakeStatus, NothingSaid
<1>3. ASSUME NEW p \in Notes!Processes, Notes!CallSucceeds(p) \/ Notes!CallFails(p) \/ Notes!AnswerLost(p)
      PROVE  Truthful(a, ch)
  <2>1. PICK outcome \in {"failed", Notes!Final[Notes!NextChannel(p)]}, n \in {0, 1} : CallEffect(p, outcome, n)
    BY <1>3, NoteCalls DEF StoreIInv
  <2> DEFINE c == Notes!NextChannel(p)
             b == process[p].note
  <2>2. /\ process[p].pc = "send" /\ process[p] \in Notes!LocalStates
        /\ c \in Notes!Channels /\ b \in Alarms
    BY <2>1, NextChannelSent DEF CallEffect, StoreIInv, Notes!TypeOK
  <2>3. /\ process' = [process EXCEPT ![p] = [process[p] EXCEPT !.sends = @ \ {c}, !.outcome[c] = outcome]]
        /\ sent' = IF n = 1 THEN [sent EXCEPT ![b][c] = @ + 1] ELSE sent
        /\ notes' = notes /\ (outcome # "failed" => n = 1)
    BY <2>1 DEF CallEffect
  <2> HIDE DEF c
  <2>4. sent \in [Alarms -> [Notes!Channels -> Nat]] /\ Notes!Final[ch] # "failed"
    BY ChannelFacts DEF StoreIInv, Notes!TypeOK
  <2>5. /\ \A q \in Notes!Processes \ {p} : process'[q] = process[q]
        /\ process'[p].pc = "send" /\ process'[p].note = b /\ process'[p].outcome[c] = outcome
        /\ \A x \in Notes!Channels \ {c} : process'[p].outcome[x] = process[p].outcome[x]
    BY <2>2, <2>3 DEF Notes!LocalStates, StoreIInv, Notes!TypeOK
  <2>6. CASE a = b /\ ch = c
    <3>1. sent'[a][ch] = IF n = 1 THEN sent[a][ch] + 1 ELSE sent[a][ch]
      BY <2>2, <2>3, <2>4, <2>6
    <3>2. sent[a][ch] \in Nat
      BY <2>4
    <3> QED BY <2>3, <2>4, <2>5, <2>6, <3>1, <3>2 DEF Truthful, Sending
  <2>7. CASE a # b \/ ch # c
    <3>1. sent'[a][ch] = sent[a][ch] /\ sent[a][ch] \in Nat
      BY <2>2, <2>3, <2>4, <2>7
    <3> QED BY <2>2, <2>3, <2>5, <2>7, <3>1 DEF Truthful, Sending
  <2> QED BY <2>6, <2>7
<1>4. ASSUME NEW p \in Notes!Processes, Notes!WriteBack(p) PROVE Truthful(a, ch)
  <2> DEFINE o == process[p].outcome
  <2>1. /\ process[p].pc = "send" /\ process[p].note \in Alarms /\ sent' = sent
        /\ process' = [process EXCEPT ![p] = Notes!Ended(p)] /\ notes[a] \in Notes!NoteRows
        /\ sent[a][ch] \in Nat /\ Notes!Final[ch] \notin {"pending", "failed"}
    BY <1>4, ChannelFacts DEF Notes!WriteBack, StoreIInv, Notes!TypeOK
  <2>2. \A q \in Notes!Processes : process'[q] = process[q] \/ process'[q].pc # "send"
    BY <2>1, EndedState DEF StoreIInv, Notes!TypeOK
  <2>3. CASE notes'[a].status = notes[a].status
    BY <2>1, <2>2, <2>3, NothingSaid
  <2>4. CASE notes'[a].status # notes[a].status
    <3>1. a = process[p].note /\ Notes!MayWrite(p)
      BY <1>4, <2>1, <2>4 DEF Notes!WriteBack, Notes!SetNote, StoreIInv, Notes!TypeOK
    <3>3. notes'[a].status[ch] = CASE o[ch] = "pending" -> notes[a].status[ch]
                                   [] o[ch] = "failed"  -> "pending"
                                   [] OTHER -> o[ch]
      BY <1>4, <3>1, WriteStatus
    <3>4. Sending(p, a)
      BY <2>1, <3>1 DEF Sending
    <3> QED BY <2>1, <2>2, <3>3, <3>4 DEF Truthful, Sending
  <2> QED BY <2>3, <2>4
<1>5. ASSUME NEW p \in Notes!Processes, Notes!Crash(p) PROVE Truthful(a, ch)
  <2>1. notes' = notes /\ sent' = sent /\ process' = [process EXCEPT ![p] = Notes!Idle] /\ Notes!Idle.pc = "idle"
    BY <1>5 DEF Notes!Crash, Notes!Idle
  <2>2. \A q \in Notes!Processes : process'[q] = process[q] \/ process'[q].pc # "send"
    BY <2>1 DEF StoreIInv, Notes!TypeOK
  <2> QED BY <2>1, <2>2, NothingSaid
<1>6. ASSUME NEW p \in Notes!Processes, NEW b \in Alarms, Notes!Emit(p, b) PROVE Truthful(a, ch)
  <2>1. sent' = sent /\ notes'[a].status = notes[a].status
    BY <1>6 DEF Notes!Emit, Notes!SetNote, StoreIInv, Notes!TypeOK, Notes!NoteRows
  <2>2. \A q \in Notes!Processes : process'[q] = process[q] \/ process'[q].pc # "send"
    BY <1>6 DEF Notes!Emit, Notes!Idle, StoreIInv, Notes!TypeOK
  <2> QED BY <2>1, <2>2, NothingSaid
<1>7. ASSUME NEW b \in Alarms, Notes!LeaseRunsOut(b) \/ Notes!ComesDue(b) PROVE Truthful(a, ch)
  <2>1. process' = process /\ sent' = sent /\ notes'[a].status = notes[a].status
    BY <1>7, TimeStatus DEF Notes!LeaseRunsOut, Notes!ComesDue
  <2> QED BY <2>1, NothingSaid
<1> QED BY <1>1, <1>2, <1>3, <1>4, <1>5, <1>6, <1>7 DEF Notes!Next, Notes!Proceeds

ReportedWasAccepted ==
  \A a \in Alarms, ch \in Notes!Channels : notes[a].status[ch] = Notes!Final[ch] => sent[a][ch] > 0

(* What the table reports as published or sent was accepted by the channel:*)
(* no process writes back what it has not seen succeed.                    *)
THEOREM ReportedCorrect == Notes!Spec => []ReportedWasAccepted
<1>1. Notes!Init => TruthInv
  BY ChannelFacts DEF Notes!Init, TruthInv, Notes!NoNote, Notes!Idle, Sending
<1>2. StoreIInv /\ StoreIInv' /\ TruthInv /\ [Notes!Next]_(Notes!vars) => TruthInv'
  <2> SUFFICES ASSUME StoreIInv, StoreIInv', TruthInv, [Notes!Next]_(Notes!vars),
                      NEW a \in Alarms, NEW ch \in Notes!Channels
               PROVE  /\ (notes[a].status[ch] = Notes!Final[ch] => sent[a][ch] > 0)'
                      /\ \A p \in Notes!Processes : (Sending(p, a) /\ process[p].outcome[ch] = Notes!Final[ch]
                                                => sent[a][ch] > 0)'
    BY DEF TruthInv
  <2>1. sent[a][ch] \in Nat /\ sent'[a][ch] \in Nat
    BY DEF StoreIInv, Notes!TypeOK
  <2>2. CASE Notes!Next
    <3>1. Truthful(a, ch)
      BY <2>2, NextTruthful
    <3> QED BY <2>1, <3>1 DEF Truthful, TruthInv
  <2>3. CASE UNCHANGED Notes!vars
    BY <2>3 DEF Notes!vars, TruthInv, Sending
  <2> QED BY <2>2, <2>3
<1>3. TruthInv => ReportedWasAccepted
  BY DEF TruthInv, ReportedWasAccepted
<1> QED BY InitStore, NextStore, <1>1, <1>2, <1>3, PTL DEF Notes!Spec

ReportsStay ==
  [][\A a \in Alarms, ch \in Notes!Channels :
       notes[a].status[ch] = Notes!Final[ch] => notes'[a].status[ch] = Notes!Final[ch]]_(Notes!vars)

(* No late or failed delivery, retry or new request takes back what the    *)
(* table reports as delivered.                                             *)
THEOREM ReportsStayCorrect == Notes!Spec => ReportsStay
<1>1. StoreIInv /\ [Notes!Next]_(Notes!vars) =>
        [\A a \in Alarms, ch \in Notes!Channels :
           notes[a].status[ch] = Notes!Final[ch] => notes'[a].status[ch] = Notes!Final[ch]]_(Notes!vars)
  <2> SUFFICES ASSUME StoreIInv, Notes!Next, NEW a \in Alarms, NEW ch \in Notes!Channels,
                      notes[a].status[ch] = Notes!Final[ch]
               PROVE  notes'[a].status[ch] = Notes!Final[ch]
    OBVIOUS
  <2>1. notes[a] \in Notes!NoteRows /\ Notes!Final[ch] # "pending"
    BY ChannelFacts DEF StoreIInv, Notes!TypeOK
  <2>2. ASSUME NEW p \in Notes!Processes, Notes!Proceeds(p)
        PROVE  notes'[a].status[ch] = Notes!Final[ch]
    <3>1. CASE Notes!RetryPending(p) \/ \E b \in Alarms : Notes!DeliverNext(p, b)
      BY <3>1, Lists
    <3>2. CASE Notes!Take(p)
      BY <3>2, TakeStatus
    <3>3. CASE Notes!CallSucceeds(p) \/ Notes!CallFails(p) \/ Notes!AnswerLost(p)
      BY <3>3, NoteCalls DEF CallEffect, StoreIInv
    <3>4. CASE Notes!WriteBack(p)
      <4>1. CASE a # process[p].note \/ ~Notes!MayWrite(p)
        BY <3>4, <4>1 DEF Notes!WriteBack, Notes!SetNote, StoreIInv, Notes!TypeOK
      <4>2. CASE a = process[p].note /\ Notes!MayWrite(p)
        <5> DEFINE o == process[p].outcome
        <5>1. Holds(p, a)
          BY <3>4, <4>2 DEF Notes!WriteBack, Notes!MayWrite, Notes!Note, Holds, Sending
        <5>2. o[ch] = "pending"
          BY <2>1, <5>1 DEF StoreIInv, HolderInv
        <5> QED BY <3>4, <4>2, <5>2, WriteStatus
      <4> QED BY <4>1, <4>2
    <3> QED BY <2>2, <3>1, <3>2, <3>3, <3>4 DEF Notes!Proceeds
  <2>3. ASSUME NEW p \in Notes!Processes, Notes!Crash(p)
        PROVE  notes'[a].status[ch] = Notes!Final[ch]
    BY <2>3 DEF Notes!Crash
  <2>4. ASSUME NEW p \in Notes!Processes, NEW b \in Alarms, Notes!Emit(p, b)
        PROVE  notes'[a].status[ch] = Notes!Final[ch]
    BY <2>1, <2>4 DEF Notes!Emit, Notes!SetNote, StoreIInv, Notes!TypeOK, Notes!NoteRows
  <2>5. ASSUME NEW b \in Alarms, Notes!LeaseRunsOut(b) \/ Notes!ComesDue(b)
        PROVE  notes'[a].status[ch] = Notes!Final[ch]
    BY <2>5, TimeStatus
  <2> QED BY <2>2, <2>3, <2>4, <2>5 DEF Notes!Next
<1> QED BY InitStore, NextStore, <1>1, PTL DEF Notes!Spec, ReportsStay
-----------------------------------------------------------------------------
(* Induction over the naturals, about a set instead of a predicate. *)
LEMMA NatInductionOnSet ==
  ASSUME NEW G, 0 \in G, \A n \in Nat : n \in G => n + 1 \in G
  PROVE  Nat \subseteq G
<1> SUFFICES ASSUME Nat \ G # {} PROVE FALSE
  OBVIOUS
<1>1. PICK m \in Nat \ G : \A x \in Nat \ G : ~(<<x, m>> \in OpToRel(<, Nat))
  BY NatLessThanWellFounded, WFMin
<1>2. m - 1 \in Nat
  OBVIOUS
<1>3. <<m - 1, m>> \in Nat \X Nat /\ <<m - 1, m>>[1] < <<m - 1, m>>[2]
  BY <1>2
<1>4. <<m - 1, m>> \in OpToRel(<, Nat)
  BY <1>3, Zenon DEF OpToRel
<1>5. m - 1 \in G
  BY <1>1, <1>2, <1>4
<1> QED BY <1>2, <1>5

(* A set of positions has a last one. *)
LEMMA LastPosition ==
  ASSUME NEW n \in Nat, NEW s \in SUBSET (1 .. n), s # {}
  PROVE  Behavior!Max(s) \in s /\ \A x \in s : Behavior!Max(s) >= x
<1> DEFINE G == {k \in Nat : \A t \in SUBSET (1 .. k) :
                   t # {} => \E x \in t : \A y \in t : x >= y}
<1>1. 0 \in G
  <2>1. 1 .. 0 = {}
    OBVIOUS
  <2> QED BY <2>1
<1>2. ASSUME NEW k \in Nat, k \in G PROVE k + 1 \in G
  <2> SUFFICES ASSUME NEW t \in SUBSET (1 .. k + 1), t # {}
               PROVE  \E x \in t : \A y \in t : x >= y
    OBVIOUS
  <2>1. CASE k + 1 \in t
    BY <2>1
  <2>2. CASE k + 1 \notin t
    <3>1. t \in SUBSET (1 .. k)
      BY <2>2
    <3> QED BY <1>2, <3>1
  <2> QED BY <2>1, <2>2
<1> HIDE DEF G
<1>3. n \in G
  BY <1>1, <1>2, NatInductionOnSet
<1>4. \E x \in s : \A y \in s : x >= y
  BY <1>3 DEF G
<1> QED BY <1>4 DEF Behavior!Max

(* What the folds of the module apply to one element: a sale, a purchase,  *)
(* a fill that is repeated, and the value of what is held.  They take the  *)
(* last position of a sequence, or any element of a set.                   *)
Wanted(c, t)        == Behavior!Desired(t.worth, t.targets[c], t.bars[c].open)
SaleOf(a, c, t)     == Behavior!Sold(a, c, Wanted(c, t), t.bars[c])
PurchaseOf(a, c, t) == Behavior!Bought(a, c, Wanted(c, t), t.bars[c])
Again(a, f)         == Behavior!WithFill(a, f.code, f.side, f.qty, f.price)
ValueOf(c, t)       == t.held[c] * t.bars[c].open

Applied(kind, a, x, t) ==
  CASE kind = "sell"  -> SaleOf(a, x, t)
    [] kind = "buy"   -> PurchaseOf(a, x, t)
    [] kind = "again" -> Again(a, x)
    [] kind = "value" -> ValueOf(x, t) + a

Taken(kind, s) == IF kind = "value" THEN CHOOSE x \in s : TRUE ELSE Behavior!Max(s)

CanTake(kind, S) == IsFiniteSet(S) /\ \A s \in SUBSET S : s # {} => Taken(kind, s) \in s

FoldSteps(kind, t, seq, base, g, U) ==
  g = [s \in U |-> IF s = {} THEN base
                   ELSE Applied(kind, g[s \ {Taken(kind, s)}], seq[Taken(kind, s)], t)]

LEMMA PositionsAreTaken ==
  ASSUME NEW kind, kind # "value", NEW n \in Nat
  PROVE  CanTake(kind, 1 .. n)
<1>1. IsFiniteSet(1 .. n)
  BY FS_Interval
<1>2. \A s \in SUBSET (1 .. n) : s # {} => Behavior!Max(s) \in s
  BY LastPosition
<1> QED BY <1>1, <1>2 DEF CanTake, Taken

(* Induction over a set from which the element that a fold takes is        *)
(* removed.                                                                *)
LEMMA TakingInduction ==
  ASSUME NEW kind, NEW S, CanTake(kind, S), NEW G, {} \in G,
         \A s \in SUBSET S : s # {} /\ s \ {Taken(kind, s)} \in G => s \in G
  PROVE  S \in G
<1> DEFINE Good == {k \in Nat : \A s \in SUBSET S : Cardinality(s) = k => s \in G}
<1>0. \A s \in SUBSET S :
        IsFiniteSet(s) /\ Cardinality(s) \in Nat /\ (Cardinality(s) = 0 <=> s = {})
  BY FS_Subset, FS_CardinalityType, FS_EmptySet DEF CanTake
<1>1. 0 \in Good
  BY <1>0
<1>2. ASSUME NEW k \in Nat, k \in Good PROVE k + 1 \in Good
  <2> SUFFICES ASSUME NEW s \in SUBSET S, Cardinality(s) = k + 1 PROVE s \in G
    OBVIOUS
  <2>0. s # {}
    BY <1>0
  <2>1. Taken(kind, s) \in s
    BY <2>0 DEF CanTake
  <2>2. Cardinality(s \ {Taken(kind, s)}) = Cardinality(s) - 1
    BY <1>0, <2>1, FS_RemoveElement
  <2>3. Cardinality(s \ {Taken(kind, s)}) = k
    BY <2>2
  <2>4. s \ {Taken(kind, s)} \in G
    BY <1>2, <2>3
  <2> QED BY <2>0, <2>4
<1> HIDE DEF Good
<1>3. Cardinality(S) \in Good
  BY <1>0, <1>1, <1>2, NatInductionOnSet
<1> QED BY <1>3 DEF Good

LEMMA PositionInduction ==
  ASSUME NEW n \in Nat, NEW G, {} \in G,
         \A s \in SUBSET (1 .. n) : s # {} /\ s \ {Behavior!Max(s)} \in G => s \in G
  PROVE  1 .. n \in G
<1>1. CanTake("again", 1 .. n) /\ \A s : Taken("again", s) = Behavior!Max(s)
  BY PositionsAreTaken DEF Taken
<1> QED BY <1>1, TakingInduction

(* The function that such a fold chooses exists. *)
LEMMA StepsExist ==
  ASSUME NEW kind, NEW t, NEW seq, NEW base, NEW S, CanTake(kind, S)
  PROVE  \E g : FoldSteps(kind, t, seq, base, g, SUBSET S)
<1> DEFINE Small(k) == {s \in SUBSET S : Cardinality(s) <= k}
           Good     == {k \in Nat : \E g : FoldSteps(kind, t, seq, base, g, Small(k))}
<1>0. \A s \in SUBSET S :
        IsFiniteSet(s) /\ Cardinality(s) \in Nat /\ (Cardinality(s) = 0 <=> s = {})
  BY FS_Subset, FS_CardinalityType, FS_EmptySet DEF CanTake
<1>1. 0 \in Good
  <2>1. FoldSteps(kind, t, seq, base, [s \in Small(0) |-> base], Small(0))
    BY <1>0 DEF FoldSteps
  <2> QED BY <2>1
<1>2. ASSUME NEW k \in Nat, k \in Good PROVE k + 1 \in Good
  <2>1. PICK g : FoldSteps(kind, t, seq, base, g, Small(k))
    BY <1>2
  <2> DEFINE next(f, s) == IF s = {} THEN base
                           ELSE Applied(kind, f[s \ {Taken(kind, s)}], seq[Taken(kind, s)], t)
             h == [s \in Small(k + 1) |-> next(g, s)]
  <2>2. ASSUME NEW s \in Small(k + 1), s # {} PROVE s \ {Taken(kind, s)} \in Small(k)
    <3>1. Taken(kind, s) \in s
      BY <2>2 DEF CanTake
    <3>2. Cardinality(s \ {Taken(kind, s)}) = Cardinality(s) - 1
      BY <1>0, <3>1, FS_RemoveElement
    <3>3. Cardinality(s) <= k + 1 /\ Cardinality(s) \in Nat
      BY <1>0
    <3>4. Cardinality(s \ {Taken(kind, s)}) <= k
      BY <3>2, <3>3
    <3>5. s \ {Taken(kind, s)} \in SUBSET S
      OBVIOUS
    <3> QED BY <3>4, <3>5
  <2>a. Small(k) \subseteq Small(k + 1)
    BY <1>0
  <2>b. \A s \in Small(k) : g[s] = next(g, s)
    BY <2>1 DEF FoldSteps
  <2>3. \A s \in Small(k) : h[s] = g[s]
    BY <2>a, <2>b
  <2> HIDE DEF Small
  <2>4. h = [s \in Small(k + 1) |-> next(h, s)]
    BY <2>2, <2>3
  <2> HIDE DEF h
  <2> QED BY <2>4 DEF FoldSteps
<1> HIDE DEF Good
<1>3. Nat \subseteq Good
  BY <1>1, <1>2, NatInductionOnSet
<1>4. Cardinality(S) \in Nat /\ Small(Cardinality(S)) = SUBSET S
  <2>1. \A s \in SUBSET S : Cardinality(s) <= Cardinality(S)
    BY <1>0, FS_Subset DEF CanTake
  <2> QED BY <1>0, <2>1
<1> QED BY <1>3, <1>4 DEF Good

SellSteps(t, base, g, U) ==
  g = [s \in U |-> IF s = {} THEN base
                   ELSE SaleOf(g[s \ {Behavior!Max(s)}], Instruments[Behavior!Max(s)], t)]

BuySteps(t, base, g, U) ==
  g = [s \in U |-> IF s = {} THEN base
                   ELSE PurchaseOf(g[s \ {Behavior!Max(s)}], Instruments[Behavior!Max(s)], t)]

FillSteps(fills, base, g, U) ==
  g = [s \in U |-> IF s = {} THEN base
                   ELSE Again(g[s \ {Behavior!Max(s)}], fills[Behavior!Max(s)])]

Start(start) == [cash |-> start.cash, held |-> start.held, fills |-> <<>>]

LEMMA SalesByChoice ==
  ASSUME NEW start, NEW targets, NEW bars, NEW n \in Nat, DOMAIN Instruments = 1 .. n
  PROVE  \E t, g, h :
           /\ t = [bars |-> bars, targets |-> targets, worth |-> Behavior!Worth(start, bars)]
           /\ SellSteps(t, Start(start), g, SUBSET (1 .. n))
           /\ BuySteps(t, g[1 .. n], h, SUBSET (1 .. n))
           /\ Behavior!Rebalance(start, targets, bars) = h[1 .. n]
<1>0. PICK t : t = [bars |-> bars, targets |-> targets, worth |-> Behavior!Worth(start, bars)]
  OBVIOUS
<1>t. t.bars = bars /\ t.targets = targets /\ t.worth = Behavior!Worth(start, bars)
  BY <1>0
<1> DEFINE U == SUBSET DOMAIN Instruments
           g == CHOOSE f : SellSteps(t, Start(start), f, U)
           sold == g[DOMAIN Instruments]
           h == CHOOSE f : BuySteps(t, sold, f, U)
<1>1. SellSteps(t, Start(start), g, U)
  <2>1. PICK f : FoldSteps("sell", t, Instruments, Start(start), f, SUBSET (1 .. n))
    BY PositionsAreTaken, StepsExist
  <2>2. SellSteps(t, Start(start), f, U)
    BY <2>1 DEF FoldSteps, SellSteps, Applied, Taken
  <2> QED BY <2>2
<1>2. BuySteps(t, sold, h, U)
  <2>1. PICK f : FoldSteps("buy", t, Instruments, sold, f, SUBSET (1 .. n))
    BY PositionsAreTaken, StepsExist
  <2>2. BuySteps(t, sold, f, U)
    BY <2>1 DEF FoldSteps, BuySteps, Applied, Taken
  <2> QED BY <2>2
<1>3. Behavior!Rebalance(start, targets, bars) = h[DOMAIN Instruments]
  BY <1>t DEF Behavior!Rebalance, Behavior!FoldLeft, Behavior!MapThenFoldSet, SellSteps, BuySteps,
             SaleOf, PurchaseOf, Wanted, Start
<1> HIDE DEF g, h
<1> QED BY <1>0, <1>1, <1>2, <1>3

LEMMA AfterByChoice ==
  ASSUME NEW start, NEW fills, NEW n \in Nat, DOMAIN fills = 1 .. n
  PROVE  \E g : /\ FillSteps(fills, Start(start), g, SUBSET (1 .. n))
                /\ Behavior!After(start, fills) = g[1 .. n]
<1>1. PICK g : FoldSteps("again", fills, fills, Start(start), g, SUBSET (1 .. n))
  BY PositionsAreTaken, StepsExist
<1>2. FillSteps(fills, Start(start), g, SUBSET (1 .. n))
  BY <1>1 DEF FoldSteps, FillSteps, Applied, Taken
<1>3. \E h : FillSteps(fills, Start(start), h, SUBSET DOMAIN fills)
  BY <1>2
<1>4. Behavior!After(start, fills)
        = (CHOOSE h : FillSteps(fills, Start(start), h, SUBSET DOMAIN fills))[DOMAIN fills]
  BY DEF Behavior!After, Behavior!FoldLeft, Behavior!MapThenFoldSet, FillSteps, Again, Start
<1> QED BY <1>3, <1>4
-----------------------------------------------------------------------------
(* What repeating the fills of a sequence gives, fill by fill. *)
Fills == [code : Behavior!AllCodes, side : {"buy", "sell"}, qty : Nat \ {0}, price : Nat]

LEMMA AfterEmpty == \A start : Behavior!After(start, <<>>) = Start(start)
<1> TAKE start
<1>0. 0 \in Nat /\ DOMAIN <<>> = 1 .. 0
  OBVIOUS
<1>1. PICK g : /\ FillSteps(<<>>, Start(start), g, SUBSET (1 .. 0))
               /\ Behavior!After(start, <<>>) = g[1 .. 0]
  BY <1>0, AfterByChoice, Zenon
<1>2. 1 .. 0 = {} /\ {} \in SUBSET (1 .. 0)
  OBVIOUS
<1> QED BY <1>1, <1>2 DEF FillSteps

LEMMA AfterAppend ==
  ASSUME NEW start, NEW S, NEW fills \in Seq(S), NEW f \in S
  PROVE  Behavior!After(start, Append(fills, f)) = Again(Behavior!After(start, fills), f)
<1> DEFINE n    == Len(fills)
           more == Append(fills, f)
<1>1. /\ n \in Nat /\ DOMAIN fills = 1 .. n /\ DOMAIN more = 1 .. n + 1
      /\ \A i \in 1 .. n : more[i] = fills[i]
      /\ more[n + 1] = f
  OBVIOUS
<1> HIDE DEF n, more
<1>2. PICK g : /\ FillSteps(fills, Start(start), g, SUBSET (1 .. n))
               /\ Behavior!After(start, fills) = g[1 .. n]
  BY <1>1, AfterByChoice
<1>3. n + 1 \in Nat
  BY <1>1
<1>4. PICK h : /\ FillSteps(more, Start(start), h, SUBSET (1 .. n + 1))
               /\ Behavior!After(start, more) = h[1 .. n + 1]
  <2>1. DOMAIN more = 1 .. n + 1
    BY <1>1
  <2> QED BY <1>3, <2>1, AfterByChoice, Zenon
<1> DEFINE G == {s \in SUBSET (1 .. n) : g[s] = h[s]}
<1>5. \A s \in SUBSET (1 .. n) : s \in SUBSET (1 .. n + 1)
  BY <1>1
<1>6. {} \in G
  <2>1. g[{}] = Start(start) /\ h[{}] = Start(start)
    BY <1>2, <1>4, <1>5 DEF FillSteps
  <2> QED BY <2>1
<1>7. ASSUME NEW s \in SUBSET (1 .. n), s # {}, s \ {Behavior!Max(s)} \in G PROVE s \in G
  <2>1. Behavior!Max(s) \in s
    BY <1>1, <1>7, LastPosition
  <2>2. g[s] = Again(g[s \ {Behavior!Max(s)}], fills[Behavior!Max(s)])
    BY <1>2, <1>7 DEF FillSteps
  <2>3. h[s] = Again(h[s \ {Behavior!Max(s)}], more[Behavior!Max(s)])
    BY <1>4, <1>5, <1>7 DEF FillSteps
  <2>4. /\ more[Behavior!Max(s)] = fills[Behavior!Max(s)]
        /\ h[s \ {Behavior!Max(s)}] = g[s \ {Behavior!Max(s)}]
    BY <1>1, <1>7, <2>1
  <2> QED BY <2>2, <2>3, <2>4
<1> HIDE DEF G
<1>8. 1 .. n \in G
  BY <1>1, <1>6, <1>7, PositionInduction
<1>9. Behavior!Max(1 .. n + 1) = n + 1
  <2>1. 1 .. n + 1 \in SUBSET (1 .. n + 1) /\ 1 .. n + 1 # {} /\ n + 1 \in 1 .. n + 1
    BY <1>1
  <2>2. Behavior!Max(1 .. n + 1) \in 1 .. n + 1 /\ Behavior!Max(1 .. n + 1) >= n + 1
    BY <1>3, <2>1, LastPosition
  <2> QED BY <1>1, <2>2
<1>10. (1 .. n + 1) \ {n + 1} = 1 .. n /\ 1 .. n + 1 # {}
  <2>0. n \in Nat
    BY <1>1
  <2>1. \A i : i \in (1 .. n + 1) \ {n + 1} <=> i \in 1 .. n
    BY <2>0
  <2>2. n + 1 \in 1 .. n + 1
    BY <2>0
  <2> QED BY <2>1, <2>2
<1>11. h[1 .. n + 1] = Again(h[1 .. n], f)
  BY <1>1, <1>4, <1>9, <1>10 DEF FillSteps
<1> QED BY <1>2, <1>4, <1>8, <1>11 DEF G, more
-----------------------------------------------------------------------------
(* One more fill leaves a result explained. *)
IsResult(a) ==
  /\ DOMAIN a = {"cash", "held", "fills"}
  /\ a = [cash |-> a.cash, held |-> a.held, fills |-> a.fills]
  /\ a.cash \in Nat /\ a.held \in [Behavior!AllCodes -> Nat] /\ a.fills \in Seq(Fills)

Sound(start, bars, a) == IsResult(a) /\ Behavior!Explained(start, bars, a)

LEMMA PrefixesOfMore ==
  ASSUME NEW S, NEW seq \in Seq(S), NEW x \in S
  PROVE  /\ \A i \in 1 .. Len(seq) : SubSeq(Append(seq, x), 1, i) = SubSeq(seq, 1, i)
         /\ SubSeq(Append(seq, x), 1, Len(seq) + 1) = Append(seq, x)
  OBVIOUS

Justified(start, bars, fills, i) ==
  /\ Behavior!After(start, SubSeq(fills, 1, i)).cash >= 0
  /\ Behavior!After(start, SubSeq(fills, 1, i)).held[fills[i].code] >= 0
  /\ fills[i].qty \in 1 .. bars[fills[i].code].capacity
  /\ fills[i].price \in bars[fills[i].code].low .. bars[fills[i].code].high
  /\ bars[fills[i].code].open
       # (IF fills[i].side = "sell" THEN bars[fills[i].code].low ELSE bars[fills[i].code].high)
  /\ fills[i].side = "sell" => \A j \in 1 .. i - 1 : fills[j].code # fills[i].code

LEMMA ExplainedFills ==
  ASSUME NEW start, NEW bars, NEW result
  PROVE  Behavior!Explained(start, bars, result)
           <=> /\ result = Behavior!After(start, result.fills)
               /\ \A i \in DOMAIN result.fills : Justified(start, bars, result.fills, i)
BY DEF Behavior!Explained, Justified

LEMMA FeesAreNumbers ==
  ASSUME NEW amount \in Nat
  PROVE  Behavior!Commission(amount) \in Nat /\ Behavior!StampTax(amount) \in Nat
<1>1. OverrideFeeUnit \in Nat \ {0} /\ OverrideTaxUnit \in Nat \ {0} /\ OverrideMinFee \in Nat
  BY AttributionAssumption
<1>2. ASSUME NEW unit \in Nat \ {0} PROVE Behavior!RoundDiv(amount, unit) \in Nat
  <2>1. 2 * amount + unit \in Nat /\ 2 * unit \in Nat /\ 2 * unit > 0
    OBVIOUS
  <2> QED BY <2>1, <1>2 DEF Behavior!RoundDiv
<1> QED BY <1>1, <1>2 DEF Behavior!Commission, Behavior!StampTax

LEMMA OneMoreFill ==
  ASSUME NEW start, NEW bars \in Markets, NEW a, Sound(start, bars, a),
         NEW f \in Fills,
         f.qty \in 1 .. bars[f.code].capacity,
         f.price \in bars[f.code].low .. bars[f.code].high,
         bars[f.code].open # (IF f.side = "sell" THEN bars[f.code].low ELSE bars[f.code].high),
         f.side = "sell" => /\ f.qty <= a.held[f.code]
                            /\ \A j \in DOMAIN a.fills : a.fills[j].code # f.code,
         f.side = "buy"  => Behavior!BuyTotal(f.price, f.qty) <= a.cash
  PROVE  Sound(start, bars, Again(a, f)) /\ Again(a, f).fills = Append(a.fills, f)
<1> DEFINE r == Again(a, f)
           n == Len(a.fills)
<1>1. IsResult(a) /\ Behavior!Explained(start, bars, a)
  BY DEF Sound
<1>2. /\ f.code \in Behavior!AllCodes /\ f.side \in {"buy", "sell"}
      /\ f.qty \in Nat \ {0} /\ f.price \in Nat
      /\ f = [code |-> f.code, side |-> f.side, qty |-> f.qty, price |-> f.price]
  BY DEF Fills
<1>3. /\ r = [fills |-> r.fills, cash |-> r.cash, held |-> r.held]
      /\ r.fills = Append(a.fills, f)
      /\ r.cash = IF f.side = "buy" THEN a.cash - Behavior!BuyTotal(f.price, f.qty)
                  ELSE a.cash + Behavior!SellProceeds(f.price, f.qty)
      /\ r.held = [a.held EXCEPT ![f.code] = IF f.side = "buy" THEN @ + f.qty ELSE @ - f.qty]
  BY <1>2 DEF Again, Behavior!WithFill
<1>4. /\ r.cash \in Nat /\ r.held \in [Behavior!AllCodes -> Nat]
  <2>1. a.cash \in Nat /\ a.held \in [Behavior!AllCodes -> Nat] /\ a.held[f.code] \in Nat
    BY <1>1, <1>2 DEF IsResult
  <2>2. PICK amount \in Nat : amount = f.price * f.qty
    BY <1>2
  <2>m. Behavior!Commission(amount) \in Nat /\ Behavior!StampTax(amount) \in Nat
    BY <2>2, FeesAreNumbers
  <2>3. Behavior!BuyTotal(f.price, f.qty) \in Nat /\ Behavior!SellProceeds(f.price, f.qty) \in Int
    <3>1. /\ Behavior!BuyTotal(f.price, f.qty) = amount + Behavior!Commission(amount)
          /\ Behavior!SellProceeds(f.price, f.qty)
               = amount - Behavior!Commission(amount) - Behavior!StampTax(amount)
      BY <2>2 DEF Behavior!BuyTotal, Behavior!SellProceeds
    <3> QED BY <2>2, <2>m, <3>1
  <2>4. Behavior!SellProceeds(f.price, f.qty) >= 0
    BY <1>2, AttributionAssumption
  <2>5. r.cash \in Nat
    <3> HIDE DEF r
    <3>1. CASE f.side = "buy"
      <4>1. /\ Behavior!BuyTotal(f.price, f.qty) <= a.cash
            /\ r.cash = a.cash - Behavior!BuyTotal(f.price, f.qty)
        BY <1>3, <3>1
      <4> QED BY <2>1, <2>3, <4>1
    <3>2. CASE f.side = "sell"
      <4>1. r.cash = a.cash + Behavior!SellProceeds(f.price, f.qty)
        BY <1>3, <3>2
      <4> QED BY <2>1, <2>3, <2>4, <4>1
    <3> QED BY <1>2, <3>1, <3>2
  <2>6. (IF f.side = "buy" THEN a.held[f.code] + f.qty ELSE a.held[f.code] - f.qty) \in Nat
    BY <1>2, <2>1
  <2> HIDE DEF r
  <2>7. r.held \in [Behavior!AllCodes -> Nat]
    BY <1>2, <1>3, <2>1, <2>6
  <2> QED BY <2>5, <2>7
<1>5. IsResult(r)
  <2>1. r.fills \in Seq(Fills)
    BY <1>1, <1>3 DEF IsResult
  <2>2. DOMAIN r = {"cash", "held", "fills"}
    BY <1>2 DEF Again, Behavior!WithFill
  <2> HIDE DEF r
  <2>3. r = [cash |-> r.cash, held |-> r.held, fills |-> r.fills]
    BY <1>3
  <2> QED BY <1>4, <2>1, <2>2, <2>3 DEF IsResult
<1>6. a.fills \in Seq(Fills) /\ n \in Nat
  BY <1>1 DEF IsResult
<1>7. r = Behavior!After(start, r.fills)
  <2>1. a = Behavior!After(start, a.fills)
    BY <1>1 DEF Behavior!Explained
  <2> QED BY <1>3, <1>6, <2>1, AfterAppend
<1>8. /\ DOMAIN r.fills = 1 .. n + 1 /\ DOMAIN a.fills = 1 .. n
      /\ \A i \in 1 .. n : r.fills[i] = a.fills[i] /\ SubSeq(r.fills, 1, i) = SubSeq(a.fills, 1, i)
      /\ r.fills[n + 1] = f /\ SubSeq(r.fills, 1, n + 1) = r.fills
  <2>1. r.fills = Append(a.fills, f)
    BY <1>3
  <2> HIDE DEF r
  <2>2. /\ \A i \in 1 .. n : SubSeq(r.fills, 1, i) = SubSeq(a.fills, 1, i)
        /\ SubSeq(r.fills, 1, n + 1) = r.fills
    <3>1. /\ \A i \in 1 .. Len(a.fills) : SubSeq(Append(a.fills, f), 1, i) = SubSeq(a.fills, 1, i)
          /\ SubSeq(Append(a.fills, f), 1, Len(a.fills) + 1) = Append(a.fills, f)
      BY <1>6, PrefixesOfMore, Zenon
    <3> QED BY <2>1, <3>1
  <2>3. /\ DOMAIN r.fills = 1 .. n + 1 /\ DOMAIN a.fills = 1 .. n
        /\ \A i \in 1 .. n : r.fills[i] = a.fills[i]
        /\ r.fills[n + 1] = f
    BY <1>6, <2>1
  <2> QED BY <2>2, <2>3
<1> HIDE DEF r, n
<1>9. ASSUME NEW i \in DOMAIN r.fills PROVE Justified(start, bars, r.fills, i)
  <2>1. CASE i \in 1 .. n
    <3>1. Justified(start, bars, a.fills, i)
      BY <1>1, <1>8, <2>1, ExplainedFills
    <3>2. r.fills[i] = a.fills[i] /\ SubSeq(r.fills, 1, i) = SubSeq(a.fills, 1, i)
      BY <1>8, <2>1
    <3>3. \A j \in 1 .. i - 1 : r.fills[j] = a.fills[j]
      BY <1>6, <1>8, <2>1
    <3> QED BY <3>1, <3>2, <3>3 DEF Justified
  <2>2. CASE i = n + 1
    <3>1. r.fills[i] = f /\ Behavior!After(start, SubSeq(r.fills, 1, i)) = r
      BY <1>7, <1>8, <2>2
    <3>2. r.cash >= 0 /\ r.held[f.code] >= 0
      BY <1>2, <1>4
    <3>3. \A j \in 1 .. i - 1 : j \in DOMAIN a.fills /\ r.fills[j] = a.fills[j]
      BY <1>6, <1>8, <2>2
    <3>4. f.side = "sell" => \A j \in 1 .. i - 1 : r.fills[j].code # f.code
      BY <3>3
    <3> QED BY <3>1, <3>2, <3>4 DEF Justified
  <2>3. i \in 1 .. n \/ i = n + 1
    BY <1>6, <1>8, <1>9
  <2> QED BY <2>1, <2>2, <2>3
<1>10. Behavior!Explained(start, bars, r)
  BY <1>7, <1>9, ExplainedFills
<1> QED BY <1>3, <1>5, <1>10 DEF Sound, r
-----------------------------------------------------------------------------
(* What the account is worth is a number of units. *)
ValueSteps(start, bars, g, U) ==
  g = [s \in U |-> IF s = {} THEN 0
                   ELSE start.held[CHOOSE x \in s : TRUE] * bars[CHOOSE x \in s : TRUE].open
                          + g[s \ {CHOOSE x \in s : TRUE}]]

LEMMA CodesAreFinite == CanTake("value", Behavior!AllCodes)
<1>1. \A s \in SUBSET Behavior!AllCodes : s # {} => Taken("value", s) \in s
  BY DEF Taken
<1>2. IsFiniteSet(DOMAIN Instruments)
  <2>1. Len(Instruments) \in Nat /\ DOMAIN Instruments = 1 .. Len(Instruments)
    BY AttributionAssumption
  <2> QED BY <2>1, FS_Interval
<1>3. Instruments \in Surjection(DOMAIN Instruments, Behavior!AllCodes)
  BY AttributionAssumption DEF Surjection, Behavior!AllCodes, Behavior!Range
<1> QED BY <1>1, <1>2, <1>3, FS_Surjection DEF CanTake

LEMMA ValueByChoice ==
  ASSUME NEW start, NEW bars
  PROVE  \E g : /\ ValueSteps(start, bars, g, SUBSET Behavior!AllCodes)
                /\ Behavior!Worth(start, bars) = start.cash + g[Behavior!AllCodes]
<1>1. PICK t : t = [held |-> start.held, bars |-> bars]
  OBVIOUS
<1> DEFINE same == [c \in Behavior!AllCodes |-> c]
<1>2. PICK g : FoldSteps("value", t, same, 0, g, SUBSET Behavior!AllCodes)
  BY CodesAreFinite, StepsExist
<1>3. \A s \in SUBSET Behavior!AllCodes : s # {} => (CHOOSE x \in s : TRUE) \in Behavior!AllCodes
  OBVIOUS
<1>4. ValueSteps(start, bars, g, SUBSET Behavior!AllCodes)
  <2>1. \A a : \A x \in Behavior!AllCodes :
          Applied("value", a, same[x], t) = start.held[x] * bars[x].open + a
    BY <1>1 DEF Applied, ValueOf
  <2>2. \A s : Taken("value", s) = CHOOSE x \in s : TRUE
    BY DEF Taken
  <2>3. \A s \in SUBSET Behavior!AllCodes :
          g[s] = IF s = {} THEN 0
                 ELSE Applied("value", g[s \ {Taken("value", s)}], same[Taken("value", s)], t)
    BY <1>2, Zenon DEF FoldSteps
  <2>4. ASSUME NEW s \in SUBSET Behavior!AllCodes, s # {}
        PROVE  g[s] = start.held[CHOOSE x \in s : TRUE] * bars[CHOOSE x \in s : TRUE].open
                        + g[s \ {CHOOSE x \in s : TRUE}]
    <3>1. PICK y : y = CHOOSE x \in s : TRUE
      OBVIOUS
    <3>2. y \in Behavior!AllCodes /\ y = Taken("value", s)
      BY <1>3, <2>2, <2>4, <3>1, Zenon
    <3>3. g[s] = start.held[y] * bars[y].open + g[s \ {y}]
      BY <2>1, <2>3, <2>4, <3>2
    <3> QED BY <3>1, <3>3
  <2>5. g = [s \in SUBSET Behavior!AllCodes |-> g[s]]
    BY <1>2 DEF FoldSteps
  <2>6. g[{}] = 0
    BY <2>3
  <2> DEFINE next(s) == IF s = {} THEN 0
                        ELSE start.held[CHOOSE x \in s : TRUE] * bars[CHOOSE x \in s : TRUE].open
                               + g[s \ {CHOOSE x \in s : TRUE}]
  <2>7. \A s \in SUBSET Behavior!AllCodes : g[s] = next(s)
    BY <2>4, <2>6
  <2> HIDE DEF next
  <2>8. g = [s \in SUBSET Behavior!AllCodes |-> next(s)]
    BY <2>5, <2>7
  <2> QED BY <2>8, Zenon DEF ValueSteps, next
<1>5. Behavior!Worth(start, bars)
        = start.cash
            + (CHOOSE h : ValueSteps(start, bars, h, SUBSET Behavior!AllCodes))[Behavior!AllCodes]
  BY DEF Behavior!Worth, Behavior!MapThenSumSet, Behavior!MapThenFoldSet, ValueSteps
<1> QED BY <1>4, <1>5

LEMMA WorthIsNumber ==
  ASSUME NEW start, NEW bars \in Markets,
         start.cash \in Nat, start.held \in [Behavior!AllCodes -> Nat]
  PROVE  Behavior!Worth(start, bars) \in Nat
<1>1. PICK g : /\ ValueSteps(start, bars, g, SUBSET Behavior!AllCodes)
               /\ Behavior!Worth(start, bars) = start.cash + g[Behavior!AllCodes]
  BY ValueByChoice
<1> DEFINE G == {s \in SUBSET Behavior!AllCodes : g[s] \in Nat}
<1>2. {} \in G
  BY <1>1 DEF ValueSteps
<1>3. ASSUME NEW s \in SUBSET Behavior!AllCodes, s # {}, s \ {Taken("value", s)} \in G PROVE s \in G
  <2> DEFINE x == CHOOSE y \in s : TRUE
  <2>1. x \in Behavior!AllCodes /\ x = Taken("value", s)
    BY <1>3 DEF Taken
  <2>2. g[s] = start.held[x] * bars[x].open + g[s \ {x}]
    BY <1>1, <1>3 DEF ValueSteps
  <2> HIDE DEF x
  <2>3. g[s \ {x}] \in Nat
    BY <1>3, <2>1
  <2>4. start.held[x] \in Nat /\ bars[x].open \in Nat
    BY <2>1, AttributionAssumption
  <2>5. start.held[x] * bars[x].open \in Nat
    BY <2>4
  <2> QED BY <2>2, <2>3, <2>5
<1> HIDE DEF G
<1>4. Behavior!AllCodes \in G
  BY <1>2, <1>3, CodesAreFinite, TakingInduction
<1> QED BY <1>1, <1>4 DEF G

LEMMA DesiredIsNumber ==
  ASSUME NEW worth \in Nat, NEW share \in Nat, NEW px \in Nat \ {0}
  PROVE  /\ Behavior!Desired(worth, share, px) \in Nat
         /\ share = 0 => Behavior!Desired(worth, share, px) = 0
<1>1. PICK amount \in Nat : amount = worth * share /\ (share = 0 => amount = 0)
  OBVIOUS
<1>2. PICK price \in Nat : price = 100 * (px + Slip) /\ price > 0
  BY AttributionAssumption
<1>3. amount \div price \in Nat
  BY <1>2
<1>4. 0 \div price = 0
  BY <1>2
<1> QED BY <1>1, <1>2, <1>3, <1>4 DEF Behavior!Desired
-----------------------------------------------------------------------------
(* A sale, and a purchase, of one instrument. *)
NoFillOf(a, c) == \A j \in DOMAIN a.fills : a.fills[j].code # c

OneSale(a, c, r) ==
  r = a \/ \E f \in Fills : f.code = c /\ f.side = "sell" /\ r.fills = Append(a.fills, f)

LEMMA SaleStep ==
  ASSUME NEW start, NEW bars \in Markets, NEW a, Sound(start, bars, a),
         NEW c \in Behavior!AllCodes, NEW desired \in Nat, NoFillOf(a, c)
  PROVE  /\ Sound(start, bars, Behavior!Sold(a, c, desired, bars[c]))
         /\ OneSale(a, c, Behavior!Sold(a, c, desired, bars[c]))
<1> DEFINE bar   == bars[c]
           qty   == Behavior!Smaller(a.held[c] - desired, bar.capacity)
           price == Behavior!Larger(bar.low, bar.open - Slip)
           f     == [code |-> c, side |-> "sell", qty |-> qty, price |-> price]
<1>1. /\ bar.open \in Nat /\ bar.low \in Nat /\ bar.high \in Nat /\ bar.capacity \in Nat
      /\ bar.low <= bar.open /\ bar.open <= bar.high /\ Slip \in Nat
  BY AttributionAssumption
<1>2. a.held[c] \in Nat
  BY DEF Sound, IsResult
<1>3. Behavior!Sold(a, c, desired, bars[c])
        = IF qty <= 0 \/ bar.open <= bar.low THEN a ELSE Behavior!WithFill(a, c, "sell", qty, price)
  BY DEF Behavior!Sold
<1>4. CASE qty <= 0 \/ bar.open <= bar.low
  BY <1>3, <1>4 DEF OneSale
<1>5. CASE ~(qty <= 0 \/ bar.open <= bar.low)
  <2>1. qty \in 1 .. bar.capacity /\ qty <= a.held[c]
    BY <1>1, <1>2, <1>5 DEF Behavior!Smaller
  <2>2. price \in bar.low .. bar.high
    BY <1>1, <1>5 DEF Behavior!Larger
  <2>3. bar.open # bar.low
    BY <1>1, <1>5
  <2> HIDE DEF bar, qty, price
  <2>4. /\ f \in Fills /\ f.code = c /\ f.side = "sell" /\ f.qty = qty /\ f.price = price
    <3>1. qty \in Nat \ {0} /\ price \in Nat
      BY <1>1, <2>1, <2>2
    <3> QED BY <3>1 DEF Fills
  <2>5. Again(a, f) = Behavior!WithFill(a, c, "sell", qty, price)
    BY <2>4 DEF Again
  <2> HIDE DEF f
  <2>6. /\ f.qty \in 1 .. bars[f.code].capacity
        /\ f.price \in bars[f.code].low .. bars[f.code].high
        /\ bars[f.code].open # (IF f.side = "sell" THEN bars[f.code].low ELSE bars[f.code].high)
        /\ f.side = "sell" => /\ f.qty <= a.held[f.code]
                              /\ \A j \in DOMAIN a.fills : a.fills[j].code # f.code
        /\ f.side = "buy" => Behavior!BuyTotal(f.price, f.qty) <= a.cash
    BY <2>1, <2>2, <2>3, <2>4 DEF bar, NoFillOf
  <2>7. Sound(start, bars, Again(a, f)) /\ Again(a, f).fills = Append(a.fills, f)
    <3>1. f \in Fills
      BY <2>4
    <3> QED BY <2>6, <3>1, OneMoreFill
  <2>8. OneSale(a, c, Again(a, f))
    BY <2>4, <2>7 DEF OneSale
  <2> QED BY <1>3, <1>5, <2>5, <2>7, <2>8
<1> QED BY <1>4, <1>5

LEMMA PurchaseStep ==
  ASSUME NEW start, NEW bars \in Markets, NEW a, Sound(start, bars, a),
         NEW c \in Behavior!AllCodes, NEW desired \in Nat
  PROVE  /\ Sound(start, bars, Behavior!Bought(a, c, desired, bars[c]))
         /\ desired = 0 => Behavior!Bought(a, c, desired, bars[c]) = a
<1> DEFINE bar    == bars[c]
           wanted == Behavior!Smaller(desired - a.held[c], bar.capacity)
           price  == Behavior!Smaller(bar.high, bar.open + Slip)
           may    == Behavior!Affordable(wanted, price, a.cash)
           f      == [code |-> c, side |-> "buy", qty |-> Behavior!Max(may), price |-> price]
<1>1. /\ bar.open \in Nat /\ bar.low \in Nat /\ bar.high \in Nat /\ bar.capacity \in Nat
      /\ bar.low <= bar.open /\ bar.open <= bar.high /\ Slip \in Nat
  BY AttributionAssumption
<1>2. a.held[c] \in Nat
  BY DEF Sound, IsResult
<1>3. Behavior!Bought(a, c, desired, bars[c])
        = IF may = {} \/ bar.open >= bar.high THEN a
          ELSE Behavior!WithFill(a, c, "buy", Behavior!Max(may), price)
  BY DEF Behavior!Bought
<1>w. wanted \in Int /\ wanted <= bar.capacity /\ wanted <= desired - a.held[c]
  BY <1>1, <1>2 DEF Behavior!Smaller
<1>m. may \subseteq 1 .. wanted /\ \A k \in may : Behavior!BuyTotal(price, k) <= a.cash
  BY DEF Behavior!Affordable
<1>4. CASE may = {} \/ bar.open >= bar.high
  BY <1>3, <1>4
<1>5. CASE ~(may = {} \/ bar.open >= bar.high)
  <2>2. price \in bar.low .. bar.high
    BY <1>1, <1>5 DEF Behavior!Smaller
  <2>3. bar.open # bar.high
    BY <1>1, <1>5
  <2> HIDE DEF bar, wanted, price, may
  <2>n. PICK k : k \in may
    BY <1>5
  <2>0. wanted \in Nat /\ wanted > 0
    BY <1>w, <1>m, <2>n
  <2>x. Behavior!Max(may) \in may
    BY <1>5, <1>m, <2>0, LastPosition
  <2>1. /\ Behavior!Max(may) \in 1 .. bar.capacity
        /\ Behavior!BuyTotal(price, Behavior!Max(may)) <= a.cash
    <3>1. Behavior!Max(may) \in 1 .. wanted
      BY <1>m, <2>x
    <3>2. PICK k0 \in 1 .. wanted : k0 = Behavior!Max(may)
      BY <3>1
    <3>3. k0 \in 1 .. bar.capacity
      BY <1>1, <1>w, <2>0
    <3> QED BY <1>m, <2>x, <3>2, <3>3
  <2>d. desired # 0
    BY <1>2, <1>w, <2>0
  <2>4. /\ f \in Fills /\ f.code = c /\ f.side = "buy" /\ f.qty = Behavior!Max(may) /\ f.price = price
    <3>1. Behavior!Max(may) \in Nat \ {0} /\ price \in Nat
      BY <1>1, <2>1, <2>2
    <3> QED BY <3>1 DEF Fills
  <2>5. Again(a, f) = Behavior!WithFill(a, c, "buy", Behavior!Max(may), price)
    BY <2>4 DEF Again
  <2> HIDE DEF f
  <2>6. /\ f.qty \in 1 .. bars[f.code].capacity
        /\ f.price \in bars[f.code].low .. bars[f.code].high
        /\ bars[f.code].open # (IF f.side = "sell" THEN bars[f.code].low ELSE bars[f.code].high)
        /\ f.side = "sell" => /\ f.qty <= a.held[f.code]
                              /\ \A j \in DOMAIN a.fills : a.fills[j].code # f.code
        /\ f.side = "buy" => Behavior!BuyTotal(f.price, f.qty) <= a.cash
    BY <2>1, <2>2, <2>3, <2>4 DEF bar
  <2>7. Sound(start, bars, Again(a, f))
    BY <2>4, <2>6, OneMoreFill
  <2> QED BY <1>3, <1>5, <2>d, <2>5, <2>7
<1> QED BY <1>4, <1>5
-----------------------------------------------------------------------------
(* All sales, and then all purchases. *)
LEMMA RebalanceIsSound ==
  ASSUME NEW start, start.cash \in Nat, start.held \in [Behavior!AllCodes -> Nat],
         NEW targets \in [Behavior!AllCodes -> Nat], NEW bars \in Markets
  PROVE  LET r == Behavior!Rebalance(start, targets, bars)
         IN  /\ Sound(start, bars, r)
             /\ targets = Behavior!Nothing => \A i \in DOMAIN r.fills : r.fills[i].side = "sell"
<1> DEFINE n == Len(Instruments)
<1>1. /\ n \in Nat /\ DOMAIN Instruments = 1 .. n
      /\ \A k \in 1 .. n : Instruments[k] \in Behavior!AllCodes
      /\ \A i, j \in 1 .. n : Instruments[i] = Instruments[j] => i = j
  BY AttributionAssumption
<1> HIDE DEF n
<1>2. PICK t, g, h :
           /\ t = [bars |-> bars, targets |-> targets, worth |-> Behavior!Worth(start, bars)]
           /\ SellSteps(t, Start(start), g, SUBSET (1 .. n))
           /\ BuySteps(t, g[1 .. n], h, SUBSET (1 .. n))
           /\ Behavior!Rebalance(start, targets, bars) = h[1 .. n]
  <2>1. n \in Nat /\ DOMAIN Instruments = 1 .. n
    BY <1>1
  <2> QED BY <2>1, SalesByChoice, Zenon
<1>3. t.bars = bars /\ t.targets = targets /\ t.worth \in Nat
  BY <1>2, WorthIsNumber
<1>4. ASSUME NEW c \in Behavior!AllCodes
      PROVE  Wanted(c, t) \in Nat /\ (targets = Behavior!Nothing => Wanted(c, t) = 0)
  <2>1. t.targets[c] \in Nat /\ t.bars[c].open \in Nat \ {0}
    BY <1>3, AttributionAssumption
  <2>2. targets = Behavior!Nothing => t.targets[c] = 0
    BY <1>3 DEF Behavior!Nothing
  <2> QED BY <1>3, <2>1, <2>2, DesiredIsNumber DEF Wanted
<1>5. Sound(start, bars, Start(start)) /\ Start(start).fills = <<>>
  <2>1. IsResult(Start(start))
    BY DEF IsResult, Start
  <2>2. Start(start).fills = <<>> /\ Start(start) = Behavior!After(start, <<>>)
    BY AfterEmpty DEF Start
  <2>3. DOMAIN <<>> = {}
    OBVIOUS
  <2> QED BY <2>1, <2>2, <2>3, ExplainedFills DEF Sound
<1> DEFINE Sales(a, s) == /\ Sound(start, bars, a)
                          /\ \A i \in DOMAIN a.fills : /\ a.fills[i].side = "sell"
                                                       /\ \E k \in s : a.fills[i].code = Instruments[k]
           G == {s \in SUBSET (1 .. n) : Sales(g[s], s)}
           H == {s \in SUBSET (1 .. n) :
                   /\ Sound(start, bars, h[s])
                   /\ targets = Behavior!Nothing => h[s] = g[1 .. n]}
<1>6. 1 .. n \in G
  <2>1. {} \in G
    <3>1. g[{}] = Start(start)
      BY <1>2 DEF SellSteps
    <3> QED BY <1>5, <3>1
  <2>2. ASSUME NEW s \in SUBSET (1 .. n), s # {}, s \ {Behavior!Max(s)} \in G PROVE s \in G
    <3> DEFINE m == Behavior!Max(s)
               c == Instruments[m]
               a == g[s \ {m}]
               d == Wanted(c, t)
    <3>1. m \in s /\ c \in Behavior!AllCodes
      BY <1>1, <2>2, LastPosition
    <3>2. Sales(a, s \ {m})
      BY <2>2
    <3>3. g[s] = Behavior!Sold(a, c, d, bars[c])
      BY <1>2, <1>3, <2>2 DEF SellSteps, SaleOf
    <3>4. d \in Nat
      BY <1>4, <3>1
    <3> HIDE DEF m, a, d, c
    <3>5. NoFillOf(a, c)
      <4>1. \A k \in s \ {m} : Instruments[k] # Instruments[m]
        BY <1>1, <3>1
      <4> QED BY <3>2, <4>1 DEF c, NoFillOf
    <3>6. Sound(start, bars, g[s]) /\ OneSale(a, c, g[s])
      <4>1. Sound(start, bars, a)
        BY <3>2
      <4> QED BY <3>1, <3>3, <3>4, <3>5, <4>1, SaleStep
    <3>7. CASE g[s] = a
      BY <3>2, <3>7
    <3>8. ASSUME NEW f \in Fills, f.code = c, f.side = "sell", g[s].fills = Append(a.fills, f)
          PROVE  s \in G
      <4>1. a.fills \in Seq(Fills)
        BY <3>2 DEF Sound, IsResult
      <4>2. \A i \in DOMAIN g[s].fills :
              (i \in DOMAIN a.fills /\ g[s].fills[i] = a.fills[i]) \/ g[s].fills[i] = f
        BY <3>8, <4>1
      <4>3. \A i \in DOMAIN g[s].fills : /\ g[s].fills[i].side = "sell"
                                         /\ \E k \in s : g[s].fills[i].code = Instruments[k]
        BY <3>1, <3>2, <3>8, <4>2 DEF c
      <4> QED BY <3>6, <4>3
    <3> QED BY <3>6, <3>7, <3>8 DEF OneSale
  <2> HIDE DEF G
  <2> QED BY <1>1, <2>1, <2>2, PositionInduction
<1>7. Sales(g[1 .. n], 1 .. n)
  BY <1>6
<1> HIDE DEF G
<1>8. 1 .. n \in H
  <2>1. {} \in H
    <3>1. h[{}] = g[1 .. n]
      BY <1>2 DEF BuySteps
    <3> QED BY <1>7, <3>1
  <2>2. ASSUME NEW s \in SUBSET (1 .. n), s # {}, s \ {Behavior!Max(s)} \in H PROVE s \in H
    <3> DEFINE m == Behavior!Max(s)
               c == Instruments[m]
               a == h[s \ {m}]
               d == Wanted(c, t)
    <3>1. m \in s /\ c \in Behavior!AllCodes
      BY <1>1, <2>2, LastPosition
    <3>2. Sound(start, bars, a) /\ (targets = Behavior!Nothing => a = g[1 .. n])
      BY <2>2
    <3>3. h[s] = Behavior!Bought(a, c, d, bars[c])
      BY <1>2, <1>3, <2>2 DEF BuySteps, PurchaseOf
    <3>4. d \in Nat /\ (targets = Behavior!Nothing => d = 0)
      BY <1>4, <3>1
    <3> HIDE DEF m, a, d, c
    <3>5. Sound(start, bars, h[s]) /\ (targets = Behavior!Nothing => h[s] = a)
      BY <3>1, <3>2, <3>3, <3>4, PurchaseStep
    <3> QED BY <3>2, <3>5
  <2> HIDE DEF H
  <2> QED BY <1>1, <2>1, <2>2, PositionInduction
<1>9. /\ Sound(start, bars, h[1 .. n])
      /\ targets = Behavior!Nothing => h[1 .. n] = g[1 .. n]
  BY <1>8
<1> QED BY <1>2, <1>7, <1>9
-----------------------------------------------------------------------------
(* What the workers keep are prices of the day. *)
Stages == {"idle", "listed", "evaluate", "save", "complete", "failed"}

AttributionInv ==
  /\ override.allocation \in Allocations
  /\ override.weights \in [Behavior!AllCodes -> Nat]
  /\ override.action \in {"accept", "reject", "modify"}
  /\ attribution \subseteq Markets
  /\ evaluator \in [Workers -> [pc : Stages, bars : SUBSET Markets]]

LEMMA AttributionInit == Behavior!Init => AttributionInv
<1> SUFFICES ASSUME Behavior!Init PROVE AttributionInv
  OBVIOUS
<1>1. PICK allocation \in Allocations, action \in {"accept", "reject", "modify"},
           weights \in Submitted \cup {Behavior!Nothing} :
        override = [action |-> action, weights |-> weights, allocation |-> allocation]
  BY DEF Behavior!Init
<1>2. weights \in [Behavior!AllCodes -> Nat]
  BY AttributionAssumption DEF Behavior!Nothing
<1>3. /\ evaluator \in [Workers -> [pc : Stages, bars : SUBSET Markets]]
      /\ attribution \subseteq Markets
  BY DEF Behavior!Init, Behavior!Idle, Stages
<1> QED BY <1>1, <1>2, <1>3 DEF AttributionInv

LEMMA AttributionNext == AttributionInv /\ [Behavior!Next]_(Behavior!behavior) => AttributionInv'
<1> SUFFICES ASSUME AttributionInv, [Behavior!Next]_(Behavior!behavior) PROVE AttributionInv'
  OBVIOUS
<1> DEFINE States == [pc : Stages, bars : SUBSET Markets]
<1>0. Behavior!Idle \in States
  BY DEF Behavior!Idle, Stages
<1>1. CASE UNCHANGED Behavior!behavior
  BY <1>1 DEF Behavior!behavior, AttributionInv
<1>2. CASE Behavior!BackoffEnds \/ Behavior!NextSession
  BY <1>2 DEF Behavior!BackoffEnds, Behavior!NextSession, AttributionInv
<1>3. ASSUME NEW w \in Workers,
             \/ Behavior!List(w) \/ Behavior!Continues(w)
             \/ Behavior!DatabaseFails(w) \/ Behavior!GivesUp(w)
      PROVE  AttributionInv'
  <2>1. evaluator \in [Workers -> States] /\ evaluator[w].bars \subseteq Markets
    BY DEF AttributionInv
  <2>2. \A pc \in Stages : [evaluator EXCEPT ![w].pc = pc] \in [Workers -> States]
    BY <2>1
  <2>3. [evaluator EXCEPT ![w] = Behavior!Idle] \in [Workers -> States]
    BY <1>0, <2>1
  <2> HIDE DEF States
  <2>4. UNCHANGED override
    BY <1>3 DEF Behavior!List, Behavior!Continues, Behavior!DatabaseFails,
       Behavior!GivesUp, Behavior!Read, Behavior!Evaluate, Behavior!EvidenceFails,
       Behavior!Save, Behavior!Complete, Behavior!CountFailure
  <2>5. attribution' \subseteq Markets
    <3>1. attribution \subseteq Markets
      BY DEF AttributionInv
    <3> QED BY <1>3, <2>1, <3>1 DEF Behavior!List, Behavior!Continues,
       Behavior!DatabaseFails, Behavior!GivesUp, Behavior!Read, Behavior!Evaluate,
       Behavior!EvidenceFails, Behavior!Save, Behavior!Complete, Behavior!CountFailure
  <2>6. evaluator' \in [Workers -> States]
    <3>1. CASE \E bars \in Markets : Behavior!Evaluate(w, bars)
      <4>1. PICK bars \in Markets : evaluator' = [evaluator EXCEPT ![w] = [pc |-> "save", bars |-> {bars}]]
        BY <3>1 DEF Behavior!Evaluate
      <4>2. [pc |-> "save", bars |-> {bars}] \in States
        BY DEF States, Stages
      <4> QED BY <2>1, <4>1, <4>2
    <3>2. CASE ~\E bars \in Markets : Behavior!Evaluate(w, bars)
      <4>1. (\E pc \in Stages : Behavior!Goes(w, pc)) \/ Behavior!Stop(w)
        BY <1>3, <3>2 DEF Behavior!List, Behavior!Continues, Behavior!DatabaseFails,
           Behavior!GivesUp, Behavior!Read, Behavior!EvidenceFails, Behavior!Save,
           Behavior!Complete, Behavior!CountFailure, Stages
      <4> QED BY <2>2, <2>3, <4>1 DEF Behavior!Goes, Behavior!Stop
    <3> QED BY <3>1, <3>2
  <2> QED BY <2>4, <2>5, <2>6 DEF AttributionInv, States
<1> QED BY <1>1, <1>2, <1>3 DEF Behavior!Next

LEMMA ComparedFairly == AttributionInv => Behavior!ComparisonsFair
<1> SUFFICES ASSUME AttributionInv, NEW bars \in attribution
             PROVE  Behavior!Fair(override, Behavior!Compared(override, bars))
  BY DEF Behavior!ComparisonsFair
<1> DEFINE start == override.allocation
           one   == Behavior!Rebalance(start, start.weights, bars)
           other == Behavior!Rebalance(start, Behavior!Human(override), bars)
<1>1. /\ bars \in Markets /\ start.cash \in Nat /\ start.held \in [Behavior!AllCodes -> Nat]
      /\ start.weights \in [Behavior!AllCodes -> Nat]
  BY AttributionAssumption DEF AttributionInv
<1>2. Behavior!Human(override) \in [Behavior!AllCodes -> Nat]
  BY <1>1 DEF AttributionInv, Behavior!Human, Behavior!Nothing
<1>3. Sound(start, bars, one)
  BY <1>1, RebalanceIsSound
<1>4. /\ Sound(start, bars, other)
      /\ Behavior!Human(override) = Behavior!Nothing =>
           \A i \in DOMAIN other.fills : other.fills[i].side = "sell"
  BY <1>1, <1>2, RebalanceIsSound
<1>5. /\ override.action = "accept" => Behavior!Human(override) = start.weights
      /\ override.action = "reject" => Behavior!Human(override) = Behavior!Nothing
  BY DEF Behavior!Human
<1>6. /\ Behavior!Compared(override, bars).bars = bars
      /\ Behavior!Compared(override, bars).strategy = one
      /\ Behavior!Compared(override, bars).human = other
  BY DEF Behavior!Compared
<1>7. override.action = "accept" => other = one
  BY <1>5
<1> HIDE DEF one, other, start
<1>8. Behavior!Explained(start, bars, one) /\ Behavior!Explained(start, bars, other)
  BY <1>3, <1>4 DEF Sound
<1> QED BY <1>4, <1>5, <1>6, <1>7, <1>8 DEF Behavior!Fair, start

(* Every comparison that a row of attribution stands for is fair: both     *)
(* results follow from their fills, none of which borrows money, sells     *)
(* short or on the day of purchase, exceeds the volume or trades at a      *)
(* limit; what was accepted makes no difference, and what was rejected     *)
(* buys nothing.  Any instruments, decisions, weights and prices that the  *)
(* assumption allows, any number of workers and faults.                    *)
THEOREM ComparisonsFairCorrect == Behavior!Spec => []ComparisonsFair
BY AttributionInit, AttributionNext, ComparedFairly, PTL DEF Behavior!Spec, ComparisonsFair
=============================================================================
