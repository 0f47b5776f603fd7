--------------------------- MODULE AccountProofs ----------------------------
(***************************************************************************)
(* Step-up authentication, the training data of a user, and the strategies *)
(* with the page that runs them, for any number of grants, purposes,       *)
(* secrets, attempts and periods, of sessions, turns and versions, and of  *)
(* strategies, revisions, pages and calls.                                 *)
(*                                                                         *)
(* What makes a code new is the pair of its secret and its period: the     *)
(* codes that passed belong to older secrets, or to the secret in use and  *)
(* are no newer than its last counter.  After a reset, when the counter    *)
(* starts again, there is no factor to accept a code for until the next    *)
(* enrolment brings another secret.  Failed guesses are bounded because    *)
(* those of the current interval are the ones the counter has.             *)
(*                                                                         *)
(* What a frozen version or a build contains stays allowed because every   *)
(* trace it took text from is linked to it until the trace is gone, and a  *)
(* withdrawal of the consent deprecates all that is linked.                *)
(*                                                                         *)
(* What was read of a strategy stays true because rows are only ever       *)
(* appended, each under a number of its own, and because validating a      *)
(* definition twice gives what validating it once gives: so what a form    *)
(* shows of a saved strategy is what its row says when it is run.          *)
(***************************************************************************)
EXTENDS StepUp, TrainingData, BacktestPage, FiniteSetTheorems, SequenceTheorems, TLAPS

(* What the theorems assume of the constants. *)
GrantsLast == GrantTime \in Nat \ {0} /\ "reset_totp" \in Purposes

States == {"none", "issued", "consumed", "deleted"}
GrantRows   == [state : States, purpose : Purposes \cup {"none"}, version : Nat, until : Nat]

GrantTypes ==
  /\ now \in Nat /\ version \in Nat
  /\ rows \in [Grants -> GrantRows]
  /\ \A g \in Grants : rows[g].state = "none" => rows[g] = NoGrant
  /\ \A g \in Grants : rows[g].version <= version
  /\ \A g \in Grants : rows[g].state = "issued" => rows[g].purpose \in Purposes

FactorTypes ==
  /\ factor \in [state : {"none", "pending", "enabled"}, secret : Nat, last : Int]
  /\ factor.last >= -1 /\ recovery \in BOOLEAN

(* The codes of the secret in use that passed are used up. *)
CodesUsed ==
  /\ accepted \in Seq(Nat \X Int)
  /\ \A i \in DOMAIN accepted : accepted[i][1] <= factor.secret
  /\ factor.state # "none" =>
       \A i \in DOMAIN accepted : accepted[i][1] = factor.secret =>
         IF accepted[i][2] = Recovery THEN ~recovery ELSE accepted[i][2] <= factor.last

Distinct == \A i, j \in DOMAIN accepted : i # j => accepted[i] # accepted[j]

CodesInv == FactorTypes /\ CodesUsed /\ Distinct

(* The failed attempts that the throttle no longer counts came before the  *)
(* lock that it still remembers.                                           *)
GuessesInv ==
  /\ now \in Nat /\ failures \in Seq(Nat)
  /\ throttle \in [failed : 0 .. MaxFailures - 1, until : Nat]
  /\ throttle.failed <= Len(failures)
  /\ \A i \in DOMAIN failures : failures[i] <= now
  /\ \A i \in 1 .. Len(failures) - throttle.failed : failures[i] + LockTime <= throttle.until
  /\ GuessesBounded

view == [g \in Grants |-> Seen(g)]
-----------------------------------------------------------------------------
(* A code that is not among those that passed makes a longer list of       *)
(* different codes.                                                        *)
LEMMA AcceptNew ==
  ASSUME CodesInv, NEW code \in Int, Accept(code),
         \A i \in DOMAIN accepted : accepted[i] # <<factor.secret, code>>
  PROVE  /\ accepted' \in Seq(Nat \X Int) /\ Distinct'
         /\ DOMAIN accepted' = DOMAIN accepted \cup {Len(accepted) + 1}
         /\ \A i \in DOMAIN accepted : accepted'[i] = accepted[i]
         /\ accepted'[Len(accepted) + 1] = <<factor.secret, code>>
<1> DEFINE pair == <<factor.secret, code>>
<1>1. pair \in Nat \X Int /\ accepted \in Seq(Nat \X Int)
  BY DEF CodesInv, FactorTypes, CodesUsed
<1> HIDE DEF pair
<1>2. /\ accepted' \in Seq(Nat \X Int)
      /\ DOMAIN accepted' = DOMAIN accepted \cup {Len(accepted) + 1}
      /\ \A i \in DOMAIN accepted : accepted'[i] = accepted[i]
      /\ accepted'[Len(accepted) + 1] = pair
  BY <1>1 DEF Accept, pair
<1>3. Distinct'
  BY <1>2 DEF Distinct, CodesInv, pair
<1> QED  BY <1>2, <1>3 DEF pair

LEMMA SameCodes ==
  ASSUME CodesInv, UNCHANGED <<factor, recovery, accepted>>
  PROVE  CodesInv'
BY DEF CodesInv, FactorTypes, CodesUsed, Distinct

(* A counter that matches is new. *)
LEMMA AcceptCode ==
  ASSUME CodesInv, NEW code \in Int, code > factor.last, factor.state # "none", Accept(code)
  PROVE  Distinct' /\ \A f \in {[factor EXCEPT !.state = "enabled", !.last = code],
                                [factor EXCEPT !.last = code]} :
                        factor' = f /\ recovery' = recovery => CodesInv'
<1>1. code # Recovery /\ code \in Int
  BY DEF CodesInv, FactorTypes, Recovery
<1>2. ASSUME NEW i \in DOMAIN accepted PROVE accepted[i] # <<factor.secret, code>>
  BY <1>1 DEF CodesInv, CodesUsed, FactorTypes
<1>3. /\ accepted' \in Seq(Nat \X Int) /\ Distinct'
      /\ DOMAIN accepted' = DOMAIN accepted \cup {Len(accepted) + 1}
      /\ \A i \in DOMAIN accepted : accepted'[i] = accepted[i]
      /\ accepted'[Len(accepted) + 1] = <<factor.secret, code>>
  BY <1>2, AcceptNew
<1>4. ASSUME factor' \in [state : {"none", "pending", "enabled"}, secret : Nat, last : Int],
             factor'.secret = factor.secret, factor'.last = code, recovery' = recovery
      PROVE  CodesInv'
  <2>1. FactorTypes'
    BY <1>4 DEF CodesInv, FactorTypes
  <2>2. ASSUME NEW i \in DOMAIN accepted'
        PROVE  /\ accepted'[i][1] <= factor'.secret
               /\ accepted'[i][1] = factor'.secret =>
                    IF accepted'[i][2] = Recovery THEN ~recovery' ELSE accepted'[i][2] <= factor'.last
    <3>1. CASE i \in DOMAIN accepted
      <4>1. accepted'[i] = accepted[i] /\ accepted[i] \in Nat \X Int
        BY <1>3, <3>1 DEF CodesInv, CodesUsed
      <4> QED  BY <1>4, <3>1, <4>1 DEF CodesInv, CodesUsed, FactorTypes
    <3>2. CASE i = Len(accepted) + 1
      BY <1>1, <1>3, <1>4, <3>2 DEF CodesInv, FactorTypes
    <3> QED  BY <1>3, <3>1, <3>2
  <2> QED  BY <1>3, <2>1, <2>2 DEF CodesInv, CodesUsed
<1>5. \A f \in {[factor EXCEPT !.state = "enabled", !.last = code], [factor EXCEPT !.last = code]} :
        /\ f \in [state : {"none", "pending", "enabled"}, secret : Nat, last : Int]
        /\ f.secret = factor.secret /\ f.last = code
  BY DEF CodesInv, FactorTypes
<1> QED  BY <1>3, <1>4, <1>5

(* So is the recovery code that is still unused. *)
LEMMA AcceptRecovery ==
  ASSUME CodesInv, recovery, factor.state # "none", Accept(Recovery),
         factor' = factor, recovery' = FALSE
  PROVE  CodesInv'
<1>1. Recovery \in Int
  BY DEF Recovery
<1>2. ASSUME NEW i \in DOMAIN accepted PROVE accepted[i] # <<factor.secret, Recovery>>
  BY <1>1 DEF CodesInv, CodesUsed, FactorTypes
<1>3. /\ accepted' \in Seq(Nat \X Int) /\ Distinct'
      /\ DOMAIN accepted' = DOMAIN accepted \cup {Len(accepted) + 1}
      /\ \A i \in DOMAIN accepted : accepted'[i] = accepted[i]
      /\ accepted'[Len(accepted) + 1] = <<factor.secret, Recovery>>
  BY <1>1, <1>2, AcceptNew
<1>4. FactorTypes'
  BY DEF CodesInv, FactorTypes
<1>5. ASSUME NEW i \in DOMAIN accepted'
      PROVE  /\ accepted'[i][1] <= factor.secret
             /\ accepted'[i][1] = factor.secret =>
                  IF accepted'[i][2] = Recovery THEN ~recovery' ELSE accepted'[i][2] <= factor.last
  <2>1. CASE i \in DOMAIN accepted
    <3>1. accepted'[i] = accepted[i]
      BY <1>3, <2>1
    <3> QED  BY <2>1, <3>1 DEF CodesInv, CodesUsed
  <2>2. CASE i = Len(accepted) + 1
    BY <1>3, <2>2 DEF CodesInv, FactorTypes
  <2> QED  BY <1>3, <2>1, <2>2
<1> QED  BY <1>3, <1>4, <1>5 DEF CodesInv, CodesUsed

(* An enrolment brings a new secret, for which no code has passed. *)
LEMMA NewSecret ==
  ASSUME CodesInv, NEW p \in {"pending"}, UNCHANGED accepted, recovery' \in BOOLEAN,
         factor' = [state |-> p, secret |-> factor.secret + 1, last |-> -1]
  PROVE  CodesInv'
<1>1. factor.secret \in Nat
  BY DEF CodesInv, FactorTypes
<1>2. FactorTypes'
  BY <1>1 DEF FactorTypes
<1>3. \A i \in DOMAIN accepted : accepted[i][1] <= factor.secret /\ accepted[i][1] \in Nat
  BY DEF CodesInv, CodesUsed
<1>4. \A i \in DOMAIN accepted : accepted[i][1] <= factor'.secret /\ accepted[i][1] # factor'.secret
  BY <1>1, <1>3
<1> QED  BY <1>2, <1>4 DEF CodesInv, CodesUsed, Distinct

(* After a reset there is no factor to accept a code for. *)
LEMMA NoFactorLeft ==
  ASSUME CodesInv, UNCHANGED accepted, recovery' = FALSE,
         factor' = [NoFactor EXCEPT !.secret = factor.secret]
  PROVE  CodesInv'
<1>1. /\ factor' \in [state : {"none", "pending", "enabled"}, secret : Nat, last : Int]
      /\ factor'.state = "none" /\ factor'.secret = factor.secret /\ factor'.last = -1
  BY DEF CodesInv, FactorTypes, NoFactor
<1>2. FactorTypes'
  <2>1. factor'.last >= -1
    BY <1>1
  <2> QED  BY <1>1, <2>1, Zenon DEF FactorTypes
<1>3. CodesUsed'
  BY <1>1 DEF CodesInv, CodesUsed
<1> QED  BY <1>2, <1>3 DEF CodesInv, Distinct

LEMMA CodeIsInt == ASSUME now \in Nat, NEW code \in Codes PROVE code \in Int
BY DEF Codes, Wrong

LEMMA InitCodes == Init => CodesInv
<1> SUFFICES ASSUME Init PROVE CodesInv
  OBVIOUS
<1>1. factor = [state |-> "none", secret |-> 0, last |-> -1] /\ recovery = FALSE
  BY DEF Init, NoFactor
<1>2. accepted = <<>> /\ accepted \in Seq(Nat \X Int) /\ DOMAIN accepted = {}
  BY DEF Init
<1>3. FactorTypes
  <2>1. /\ factor \in [state : {"none", "pending", "enabled"}, secret : Nat, last : Int]
        /\ factor.last >= -1
    BY <1>1
  <2> QED  BY <1>1, <2>1, Zenon DEF FactorTypes
<1> QED  BY <1>1, <1>2, <1>3 DEF CodesInv, CodesUsed, Distinct

LEMMA NextCodes == CodesInv /\ now \in Nat /\ [Next]_vars => CodesInv'
<1> SUFFICES ASSUME CodesInv, now \in Nat, [Next]_vars PROVE CodesInv'
  OBVIOUS
<1>1. ASSUME NEW password \in BOOLEAN, Enroll(password) PROVE CodesInv'
  <2>1. CASE Failure
    BY <2>1, SameCodes DEF Failure
  <2>2. CASE /\ factor' = [state |-> "pending", secret |-> factor.secret + 1, last |-> -1]
             /\ recovery' = TRUE /\ UNCHANGED accepted
    BY <2>2, NewSecret
  <2> QED  BY <1>1, <2>1, <2>2 DEF Enroll
<1>2. ASSUME NEW code \in Codes, Confirm(code) PROVE CodesInv'
  <2>1. CASE Failure
    BY <2>1, SameCodes DEF Failure
  <2>2. CASE /\ Matches(code) /\ Accept(code) /\ UNCHANGED recovery
             /\ factor' = [factor EXCEPT !.state = "enabled", !.last = code]
    <3>1. code \in Int /\ code > factor.last /\ factor.state # "none"
      BY <1>2, <2>2, CodeIsInt DEF Matches, Confirm
    <3> QED  BY <2>2, <3>1, AcceptCode
  <2> QED  BY <1>2, <2>1, <2>2 DEF Confirm
<1>3. ASSUME NEW g \in Grants, NEW p \in Purposes, NEW password \in BOOLEAN, NEW code \in Codes,
             CreateGrant(g, p, password, code)
      PROVE  CodesInv'
  <2>1. CASE Failure
    BY <2>1, SameCodes DEF Failure
  <2>2. CASE /\ Matches(code) /\ Accept(code) /\ UNCHANGED recovery
             /\ factor' = [factor EXCEPT !.last = code]
    <3>1. code \in Int /\ code > factor.last /\ factor.state # "none"
      BY <1>3, <2>2, CodeIsInt DEF Matches, CreateGrant
    <3> QED  BY <2>2, <3>1, AcceptCode
  <2> QED  BY <1>3, <2>1, <2>2 DEF CreateGrant
<1>4. ASSUME NEW g \in Grants, NEW password \in BOOLEAN, RecoverGrant(g, password) PROVE CodesInv'
  <2>1. CASE Failure
    BY <2>1, SameCodes DEF Failure
  <2>2. CASE /\ recovery /\ Accept(Recovery) /\ recovery' = FALSE /\ UNCHANGED factor
    BY <1>4, <2>2, AcceptRecovery DEF RecoverGrant
  <2> QED  BY <1>4, <2>1, <2>2 DEF RecoverGrant
<1>5. ASSUME NEW g \in Grants, ResetFactor(g) PROVE CodesInv'
  BY <1>5, NoFactorLeft DEF ResetFactor
<1>6. ASSUME UNCHANGED <<factor, recovery, accepted>> PROVE CodesInv'
  BY <1>6, SameCodes
<1> QED  BY <1>1, <1>2, <1>3, <1>4, <1>5, <1>6 DEF Next, Consume, ChangeVersion, Tick, vars
-----------------------------------------------------------------------------
(* The throttle *)
LEMMA InitGuesses == Init => GuessesInv
BY LockAssumption DEF Init, GuessesInv, GuessesBounded

(* One more attempt, at t, after the lock until u has ended: the attempts  *)
(* that are no longer counted, all but k, came before that lock.           *)
LEMMA OneMoreAttempt ==
  ASSUME NEW f \in Seq(Nat), NEW t \in Nat, NEW u \in Nat, NEW k \in 0 .. MaxFailures - 1,
         k <= Len(f), u <= t,
         \A i \in DOMAIN f : f[i] <= t,
         \A i \in 1 .. Len(f) - k : f[i] + LockTime <= u,
         \A i \in 1 .. Len(f) - MaxFailures : f[i + MaxFailures] >= f[i] + LockTime
  PROVE  LET g == Append(f, t)
         IN  /\ g \in Seq(Nat) /\ Len(g) = Len(f) + 1
             /\ \A i \in DOMAIN g : g[i] <= t
             /\ \A i \in 1 .. Len(f) - k : g[i] + LockTime <= u
             /\ \A i \in 1 .. Len(g) - MaxFailures : g[i + MaxFailures] >= g[i] + LockTime
<1> DEFINE n == Len(f)  g == Append(f, t)
<1>1. /\ n \in Nat /\ DOMAIN f = 1 .. n /\ \A i \in 1 .. n : f[i] \in Nat
      /\ MaxFailures \in Nat \ {0} /\ LockTime \in Nat
  BY LockAssumption
<1>2. /\ g \in Seq(Nat) /\ Len(g) = n + 1 /\ DOMAIN g = 1 .. n + 1
      /\ g[n + 1] = t
  OBVIOUS
<1>3. \A i \in 1 .. n : g[i] = f[i]
  OBVIOUS
<1> HIDE DEF g, n
<1>4. ASSUME NEW i \in 1 .. n + 1 PROVE g[i] <= t
  <2>1. CASE i \in 1 .. n
    <3>1. g[i] = f[i] /\ i \in DOMAIN f
      BY <1>1, <1>3, <2>1
    <3> QED  BY <3>1
  <2>2. CASE i = n + 1
    <3>1. g[i] = t /\ t <= t
      BY <1>2, <2>2
    <3> QED  BY <3>1
  <2> QED  BY <1>1, <2>1, <2>2
<1>5. ASSUME NEW i \in 1 .. n - k PROVE g[i] + LockTime <= u
  <2>1. i \in 1 .. n
    BY <1>1
  <2> QED  BY <2>1, <1>3 DEF n
<1>6. ASSUME NEW i \in 1 .. n + 1 - MaxFailures PROVE g[i + MaxFailures] >= g[i] + LockTime
  <2>1. i \in 1 .. n /\ g[i] = f[i] /\ f[i] \in Nat
    BY <1>1, <1>3
  <2>2. CASE i + MaxFailures <= n
    <3>1. i \in 1 .. n - MaxFailures /\ i + MaxFailures \in 1 .. n
      BY <1>1, <2>2
    <3> QED  BY <1>3, <2>1, <3>1 DEF n
  <2>3. CASE i + MaxFailures = n + 1
    <3>1. i \in 1 .. n - k
      BY <1>1, <2>3
    <3>2. f[i] + LockTime <= u
      BY <3>1 DEF n
    <3>3. g[i + MaxFailures] = t
      BY <1>2, <2>3
    <3>4. f[i] + LockTime <= t
      BY <1>1, <2>1, <3>2
    <3> QED  BY <1>1, <2>1, <3>3, <3>4
  <2> QED  BY <1>1, <2>2, <2>3
<1>7. /\ \A i \in DOMAIN g : g[i] <= t
      /\ Len(g) - MaxFailures = n + 1 - MaxFailures
  <2>1. \A i \in DOMAIN g : g[i] <= t
    BY <1>2, <1>4, Zenon
  <2>2. Len(g) - MaxFailures = n + 1 - MaxFailures
    <3>1. Len(g) = n + 1
      BY <1>2
    <3> QED  BY <1>1, <3>1
  <2> QED  BY <2>1, <2>2
<1>8. \A i \in 1 .. Len(g) - MaxFailures : g[i + MaxFailures] >= g[i] + LockTime
  BY <1>6, <1>7
<1>9. \A i \in 1 .. n - k : g[i] + LockTime <= u
  BY <1>5
<1> QED  BY <1>2, <1>7, <1>8, <1>9, Zenon DEF g, n

LEMMA FailureBounded ==
  ASSUME GuessesInv, NotLocked, Failure
  PROVE  GuessesInv'
<1> DEFINE g == Append(failures, now)
<1>1. /\ now \in Nat /\ now' = now /\ failures \in Seq(Nat) /\ failures' = g
      /\ throttle.failed \in 0 .. MaxFailures - 1 /\ throttle.failed <= Len(failures)
      /\ throttle.until \in Nat /\ throttle.until <= now
      /\ MaxFailures \in Nat \ {0} /\ LockTime \in Nat
  BY LockAssumption DEF GuessesInv, NotLocked, Failure
<1>2. /\ g \in Seq(Nat) /\ Len(g) = Len(failures) + 1
      /\ \A i \in DOMAIN g : g[i] <= now
      /\ \A i \in 1 .. Len(failures) - throttle.failed : g[i] + LockTime <= throttle.until
      /\ \A i \in 1 .. Len(g) - MaxFailures : g[i + MaxFailures] >= g[i] + LockTime
  BY <1>1, OneMoreAttempt DEF GuessesInv, GuessesBounded
<1> HIDE DEF g
<1>3. throttle' = Failed(throttle)
  BY DEF Failure
<1>4. CASE throttle.failed + 1 >= MaxFailures
  <2>1. throttle' = [failed |-> 0, until |-> now + LockTime]
    BY <1>3, <1>4 DEF Failed
  <2>2. \A i \in 1 .. Len(g) : g[i] + LockTime <= now + LockTime
    <3>1. DOMAIN g = 1 .. Len(g) /\ \A i \in 1 .. Len(g) : g[i] \in Nat
      BY <1>2
    <3>2. \A i \in 1 .. Len(g) : g[i] <= now
      BY <1>2, <3>1, Zenon
    <3> QED  BY <1>1, <3>1, <3>2
  <2> QED  BY <1>1, <1>2, <2>1, <2>2 DEF GuessesInv, GuessesBounded
<1>5. CASE throttle.failed + 1 < MaxFailures
  <2>1. throttle' = [throttle EXCEPT !.failed = throttle.failed + 1]
    BY <1>1, <1>3, <1>5 DEF Failed
  <2>2. throttle' \in [failed : 0 .. MaxFailures - 1, until : Nat]
    BY <1>1, <1>5, <2>1 DEF GuessesInv
  <2>3. throttle'.failed = throttle.failed + 1 /\ throttle'.until = throttle.until
    BY <2>1 DEF GuessesInv
  <2>4. Len(g) - throttle'.failed = Len(failures) - throttle.failed /\ throttle'.failed <= Len(g)
    <3>1. Len(failures) \in Nat /\ Len(g) = Len(failures) + 1 /\ throttle.failed \in Nat
      BY <1>1, <1>2
    <3> DEFINE n == Len(failures)  m == Len(g)  k == throttle.failed
    <3>2. n \in Nat /\ m = n + 1 /\ k \in Nat /\ k <= n /\ throttle'.failed = k + 1
      BY <1>1, <2>3, <3>1
    <3> HIDE DEF n, m, k
    <3>3. m - throttle'.failed = n - k /\ throttle'.failed <= m
      BY <3>2
    <3> QED  BY <3>3 DEF n, m, k
  <2> QED  BY <1>1, <1>2, <2>2, <2>3, <2>4 DEF GuessesInv, GuessesBounded
<1> QED  BY <1>1, <1>4, <1>5

LEMMA SuccessBounded == ASSUME GuessesInv, Success, UNCHANGED now PROVE GuessesInv'
<1>1. failures' = <<>> /\ throttle' = [failed |-> 0, until |-> 0]
  BY DEF Success
<1>2. throttle' \in [failed : 0 .. MaxFailures - 1, until : Nat]
  BY <1>1, LockAssumption
<1> QED  BY <1>1, <1>2, LockAssumption DEF GuessesInv, GuessesBounded

LEMMA NextGuesses == GuessesInv /\ [Next]_vars => GuessesInv'
<1> SUFFICES ASSUME GuessesInv, [Next]_vars PROVE GuessesInv'
  OBVIOUS
<1>1. ASSUME UNCHANGED <<throttle, failures>>, now' \in Nat, now' >= now PROVE GuessesInv'
  <2>1. now \in Nat /\ failures \in Seq(Nat) /\ \A i \in DOMAIN failures : failures[i] \in Nat /\ failures[i] <= now
    BY DEF GuessesInv
  <2>2. \A i \in DOMAIN failures : failures[i] <= now'
    BY <1>1, <2>1
  <2> QED  BY <1>1, <2>2 DEF GuessesInv, GuessesBounded
<1>2. ASSUME NEW password \in BOOLEAN, Enroll(password) PROVE GuessesInv'
  BY <1>2, FailureBounded, SuccessBounded DEF Enroll
<1>3. ASSUME NEW code \in Codes, Confirm(code) PROVE GuessesInv'
  BY <1>3, FailureBounded, SuccessBounded DEF Confirm
<1>4. ASSUME NEW g \in Grants, NEW p \in Purposes, NEW password \in BOOLEAN, NEW code \in Codes,
             CreateGrant(g, p, password, code)
      PROVE  GuessesInv'
  BY <1>4, FailureBounded, SuccessBounded DEF CreateGrant
<1>5. ASSUME NEW g \in Grants, NEW password \in BOOLEAN, RecoverGrant(g, password) PROVE GuessesInv'
  BY <1>5, FailureBounded, SuccessBounded DEF RecoverGrant
<1>6. now \in Nat
  BY DEF GuessesInv
<1>7. CASE Tick
  BY <1>1, <1>6, <1>7 DEF Tick
<1>8. ASSUME UNCHANGED <<now, throttle, failures>> PROVE GuessesInv'
  BY <1>1, <1>6, <1>8
<1> QED  BY <1>2, <1>3, <1>4, <1>5, <1>7, <1>8 DEF Next, Consume, ResetFactor, ChangeVersion, vars
-----------------------------------------------------------------------------
(* The grants *)
LEMMA InitGrants == Init => GrantTypes
<1> SUFFICES ASSUME Init PROVE GrantTypes
  OBVIOUS
<1>1. NoGrant \in GrantRows /\ NoGrant.state = "none" /\ NoGrant.version = 0
  BY DEF NoGrant, GrantRows, States
<1> QED  BY <1>1 DEF Init, GrantTypes

(* What a grant looks like from outside *)
LEMMA SeenCases ==
  ASSUME GrantTypes, NEW g \in Grants
  PROVE  /\ rows[g].state = "none" => Seen(g) = Contract!NoGrant
         /\ rows[g].state = "consumed" => Seen(g) = Contract!Spent("consumed")
         /\ rows[g].state = "deleted" => Seen(g) = Contract!Spent("lapsed")
         /\ rows[g].state = "issued" /\ rows[g].version = version /\ rows[g].until > now
              => Seen(g) = [state |-> "issued", purpose |-> rows[g].purpose]
         /\ rows[g].state = "issued" /\ ~(rows[g].version = version /\ rows[g].until > now)
              => Seen(g) = Contract!Spent("lapsed")
BY DEF Seen, Contract!NoGrant, Contract!Spent

LEMMA IssueRefines ==
  ASSUME GrantsLast, GrantTypes, NEW g \in Grants, NEW p \in Purposes, Issue(g, p),
         UNCHANGED <<now, version>>
  PROVE  GrantTypes' /\ Contract!Issue(g, p)
<1> DEFINE new == [state |-> "issued", purpose |-> p, version |-> version,
                   until |-> now + GrantTime]
<1>1. new \in GrantRows
  BY DEF GrantTypes, GrantRows, States, GrantsLast
<1>2. /\ rows' = [rows EXCEPT ![g] = new] /\ rows[g] = NoGrant
      /\ new.state = "issued" /\ new.purpose = p /\ new.version = version
      /\ new.until > now
  BY DEF Issue, GrantsLast, GrantTypes
<1> HIDE DEF new
<1>3. GrantTypes'
  BY <1>1, <1>2 DEF GrantTypes
<1>4. view[g] = Contract!NoGrant
  BY <1>2, SeenCases DEF view, NoGrant
<1>5. view'[g] = [state |-> "issued", purpose |-> p]
  BY <1>2 DEF view, Seen, GrantTypes
<1>6. \A h \in Grants \ {g} : view'[h] = view[h]
  BY <1>2 DEF view, Seen, GrantTypes
<1>7. view' = [view EXCEPT ![g] = [state |-> "issued", purpose |-> p]]
  BY <1>5, <1>6 DEF view
<1> QED  BY <1>3, <1>4, <1>7 DEF Contract!Issue, view

(* Nothing but the lapse of some grants *)
LEMMA LapseRefines ==
  ASSUME GrantTypes, UNCHANGED rows, now' \in Nat, now' >= now, version' \in Nat, version' >= version
  PROVE  GrantTypes' /\ \E G \in SUBSET Contract!Issued : Contract!Lapse(G)
<1>1. GrantTypes'
  BY DEF GrantTypes, GrantRows
<1> DEFINE G == {g \in Grants : view[g].state = "issued" /\ view'[g].state = "lapsed"}
<1>2. G \subseteq Contract!Issued
  BY DEF Contract!Issued, view
<1>3. ASSUME NEW g \in Grants PROVE view'[g] = IF g \in G THEN Contract!Spent("lapsed") ELSE view[g]
  <2>1. rows[g] \in GrantRows /\ rows[g].version <= version
    BY DEF GrantTypes
  <2>2. CASE rows[g].state # "issued"
    BY <2>1, <2>2 DEF view, Seen, GrantRows, States
  <2>3. CASE rows[g].state = "issued"
    <3>1. CASE rows[g].version = version' /\ rows[g].until > now'
      <4>1. rows[g].version = version /\ rows[g].until > now
        BY <2>1, <3>1 DEF GrantTypes, GrantRows
      <4> QED  BY <2>3, <3>1, <4>1 DEF view, Seen
    <3>2. CASE ~(rows[g].version = version' /\ rows[g].until > now')
      <4>1. view'[g] = Contract!Spent("lapsed")
        BY <2>3, <3>2 DEF view, Seen, Contract!Spent
      <4>2. view[g].state = "issued" \/ view[g] = Contract!Spent("lapsed")
        BY <2>3, SeenCases DEF view
      <4> QED  BY <4>1, <4>2 DEF Contract!Spent
    <3> QED  BY <3>1, <3>2
  <2> QED  BY <2>2, <2>3
<1>4. view' = Contract!Lapsed(G)
  BY <1>3 DEF Contract!Lapsed, view
<1> HIDE DEF G
<1>5. Contract!Lapse(G)
  BY <1>2, <1>4 DEF Contract!Lapse, view
<1> QED  BY <1>1, <1>2, <1>5

LEMMA UseRefines ==
  ASSUME GrantTypes, NEW g \in Grants, NEW p \in Purposes, Valid(g, p),
         UNCHANGED <<now, version>>, rows' = [rows EXCEPT ![g].state = "consumed"]
  PROVE  GrantTypes' /\ Contract!Use(g, p, {})
<1>1. GrantTypes'
  BY DEF GrantTypes, GrantRows, States, NoGrant, Valid
<1>2. Contract!Usable(g, p)
  BY SeenCases DEF Valid, Contract!Usable, view
<1>3. view'[g] = Contract!Spent("consumed")
  BY DEF view, Seen, GrantTypes, GrantRows, Contract!Spent
<1>4. \A h \in Grants \ {g} : view'[h] = view[h]
  BY DEF view, Seen, GrantTypes
<1>5. view' = [Contract!Lapsed({}) EXCEPT ![g] = Contract!Spent("consumed")]
  BY <1>3, <1>4 DEF Contract!Lapsed, view
<1> QED  BY <1>1, <1>2, <1>5 DEF Contract!Use, view

(* The reset of the factor uses its grant up and revokes all others. *)
LEMMA ResetRefines ==
  ASSUME GrantTypes, NEW g \in Grants, ResetFactor(g)
  PROVE  GrantTypes' /\ \E G \in SUBSET Contract!Issued : Contract!Use(g, "reset_totp", G)
<1>1. /\ now' = now /\ version' = version + 1 /\ Valid(g, "reset_totp")
      /\ rows' = [h \in Grants |-> IF h = g THEN [rows[h] EXCEPT !.state = "consumed"]
                                   ELSE IF rows[h].state = "issued"
                                        THEN [rows[h] EXCEPT !.state = "deleted"] ELSE rows[h]]
  BY DEF ResetFactor
<1>2. GrantTypes'
  <2>1. ASSUME NEW h \in Grants
        PROVE  /\ rows'[h] \in GrantRows /\ rows'[h].version <= version
               /\ rows'[h].state = "none" => rows'[h] = NoGrant
               /\ rows'[h].state # "issued"
    BY <1>1 DEF GrantTypes, GrantRows, States
  <2>2. \A h \in Grants : rows'[h].version <= version'
    BY <1>1, <2>1 DEF GrantTypes, GrantRows
  <2>3. rows' \in [Grants -> GrantRows]
    BY <1>1, <2>1
  <2> QED  BY <1>1, <2>1, <2>2, <2>3 DEF GrantTypes
<1> DEFINE G == {h \in Grants \ {g} : view[h].state = "issued"}
<1>3. G \subseteq Contract!Issued
  BY DEF Contract!Issued, view
<1>4. Contract!Usable(g, "reset_totp")
  BY <1>1, SeenCases DEF Valid, Contract!Usable, view
<1>5. view'[g] = Contract!Spent("consumed")
  BY <1>1 DEF view, Seen, GrantTypes, GrantRows, Contract!Spent
<1>6. ASSUME NEW h \in Grants \ {g}
      PROVE  view'[h] = IF h \in G THEN Contract!Spent("lapsed") ELSE view[h]
  <2>1. rows[h] \in GrantRows
    BY DEF GrantTypes
  <2>2. CASE rows[h].state = "issued"
    <3>1. rows'[h].state = "deleted"
      BY <1>1, <2>1, <2>2 DEF GrantRows
    <3>2. view'[h] = Contract!Spent("lapsed")
      BY <3>1 DEF view, Seen, Contract!Spent
    <3>3. view[h].state = "issued" \/ view[h] = Contract!Spent("lapsed")
      BY <2>2, SeenCases DEF view
    <3> QED  BY <3>2, <3>3
  <2>3. CASE rows[h].state # "issued"
    <3>1. rows'[h] = rows[h]
      BY <1>1, <2>3
    <3>2. view[h].state # "issued"
      BY <2>1, <2>3, SeenCases DEF view, Contract!Spent, Contract!NoGrant, GrantRows, States
    <3> QED  BY <2>3, <3>1, <3>2 DEF view, Seen
  <2> QED  BY <2>2, <2>3
<1>7. view' = [Contract!Lapsed(G) EXCEPT ![g] = Contract!Spent("consumed")]
  BY <1>5, <1>6 DEF Contract!Lapsed, view
<1> HIDE DEF G
<1> QED  BY <1>2, <1>3, <1>4, <1>7 DEF Contract!Use, view

LEMMA SameGrants ==
  ASSUME GrantTypes, UNCHANGED <<now, version, rows>>
  PROVE  GrantTypes' /\ view' = view
BY DEF GrantTypes, view, Seen

LEMMA NextGrants ==
  GrantsLast /\ GrantTypes /\ [Next]_vars => GrantTypes' /\ [Contract!Next]_view
<1> SUFFICES ASSUME GrantsLast, GrantTypes, [Next]_vars
             PROVE  GrantTypes' /\ [Contract!Next]_view
  OBVIOUS
<1>1. ASSUME UNCHANGED <<now, version, rows>> PROVE GrantTypes' /\ [Contract!Next]_view
  BY <1>1, SameGrants
<1>2. ASSUME NEW g \in Grants, NEW p \in Purposes, Issue(g, p), UNCHANGED <<now, version>>
      PROVE  GrantTypes' /\ [Contract!Next]_view
  BY <1>2, IssueRefines DEF Contract!Next
<1>3. ASSUME NEW password \in BOOLEAN, Enroll(password) PROVE UNCHANGED <<now, version, rows>>
  BY <1>3 DEF Enroll, Failure
<1>4. ASSUME NEW code \in Codes, Confirm(code) PROVE UNCHANGED <<now, version, rows>>
  BY <1>4 DEF Confirm, Failure
<1>5. ASSUME NEW g \in Grants, NEW p \in Purposes, NEW password \in BOOLEAN, NEW code \in Codes,
             CreateGrant(g, p, password, code)
      PROVE  \/ UNCHANGED <<now, version, rows>>
             \/ Issue(g, p) /\ UNCHANGED <<now, version>>
  BY <1>5 DEF CreateGrant, Failure
<1>6. ASSUME NEW g \in Grants, NEW password \in BOOLEAN, RecoverGrant(g, password)
      PROVE  \/ UNCHANGED <<now, version, rows>>
             \/ Issue(g, "reset_totp") /\ UNCHANGED <<now, version>>
  BY <1>6 DEF RecoverGrant, Failure
<1>7. ASSUME NEW g \in Grants, NEW p \in Purposes, Consume(g, p)
      PROVE  GrantTypes' /\ [Contract!Next]_view
  <2>1. GrantTypes' /\ Contract!Use(g, p, {})
    BY <1>7, UseRefines DEF Consume
  <2> QED  BY <2>1 DEF Contract!Next
<1>8. ASSUME NEW g \in Grants, ResetFactor(g) PROVE GrantTypes' /\ [Contract!Next]_view
  <2>1. GrantTypes' /\ \E G \in SUBSET Contract!Issued : Contract!Use(g, "reset_totp", G)
    BY <1>8, ResetRefines
  <2> QED  BY <2>1 DEF Contract!Next, GrantsLast
<1>9. ASSUME ChangeVersion \/ Tick PROVE GrantTypes' /\ [Contract!Next]_view
  <2>1. /\ UNCHANGED rows /\ now' \in Nat /\ now' >= now
        /\ version' \in Nat /\ version' >= version
    BY <1>9 DEF ChangeVersion, Tick, GrantTypes
  <2>2. GrantTypes' /\ \E G \in SUBSET Contract!Issued : Contract!Lapse(G)
    BY <2>1, LapseRefines
  <2> QED  BY <2>2 DEF Contract!Next
<1>10. "reset_totp" \in Purposes
  BY DEF GrantsLast
<1> QED  BY <1>1, <1>2, <1>3, <1>4, <1>5, <1>6, <1>7, <1>8, <1>9, <1>10 DEF Next, vars
-----------------------------------------------------------------------------
LEMMA Interval == ASSUME NEW n \in Nat PROVE IsFiniteSet(1 .. n) /\ Cardinality(1 .. n) = n
<1>1. /\ IsFiniteSet(1 .. n)
      /\ Cardinality(1 .. n) = IF 1 > n THEN 0 ELSE n - 1 + 1
  BY FS_Interval
<1> QED  BY <1>1

(* The number of codes that passed is the number of different codes that    *)
(* passed: each secret and period, and each recovery code, passes once.     *)
THEOREM OneUsePerCodeCorrect == Spec => []OneUsePerCode
<1>1. CodesInv => OneUsePerCode
  <2> SUFFICES ASSUME CodesInv PROVE OneUsePerCode
    OBVIOUS
  <2> DEFINE S == DOMAIN accepted
             T == {accepted[i] : i \in S}
             f == [i \in S |-> accepted[i]]
  <2>1. S = 1 .. Len(accepted) /\ Len(accepted) \in Nat
    BY DEF CodesInv, CodesUsed
  <2>2. IsFiniteSet(S) /\ Cardinality(S) = Len(accepted)
    <3>1. IsFiniteSet(1 .. Len(accepted)) /\ Cardinality(1 .. Len(accepted)) = Len(accepted)
      BY <2>1, Interval
    <3> QED  BY <2>1, <3>1
  <2>3. f \in Surjection(S, T) /\ f \in Injection(S, T)
    BY DEF Surjection, Injection, IsInjective, CodesInv, Distinct
  <2>4. Cardinality(T) = Cardinality(S)
    BY <2>2, <2>3, FS_Surjection
  <2> QED  BY <2>2, <2>4 DEF OneUsePerCode
<1>2. Init => CodesInv /\ now \in Nat
  BY InitCodes DEF Init
<1>3. now \in Nat /\ [Next]_vars => now' \in Nat
  <2>1. [Next]_vars => now' \in {now, now + 1}
    BY DEF Next, vars, Enroll, Confirm, CreateGrant, RecoverGrant, Consume, ResetFactor,
           ChangeVersion, Tick, Failure
  <2> QED  BY <2>1
<1>4. CodesInv /\ now \in Nat /\ [Next]_vars => (CodesInv /\ now \in Nat)'
  BY <1>3, NextCodes
<1> QED  BY <1>1, <1>2, <1>4, PTL DEF Spec

(* Step-up authentication implements the contract of grants: whatever      *)
(* happens to factors, codes, locks and tokens, a grant is used at most     *)
(* once, for its purpose, and not after it lapsed.                          *)
THEOREM GrantsKeptCorrect == ASSUME GrantsLast PROVE Spec => GrantsKept
<1>1. Init => GrantTypes
  BY InitGrants
<1>2. Init => Contract!Init
  BY DEF Init, Contract!Init, Contract!NoGrant, Contract!Spent, Seen, NoGrant
<1>3. GrantTypes /\ [Next]_vars => GrantTypes' /\ [Contract!Next]_view
  BY NextGrants
<1> QED  BY <1>1, <1>2, <1>3, PTL DEF Spec, GrantsKept, Contract!Spec, view

(* However many attempts fail, with whatever pauses: at most MaxFailures   *)
(* within LockTime periods, unless one succeeds between them.              *)
THEOREM GuessesBoundedCorrect == Spec => []GuessesBounded
<1>1. GuessesInv => GuessesBounded
  BY DEF GuessesInv
<1> QED  BY <1>1, InitGuesses, NextGuesses, PTL DEF Spec
-----------------------------------------------------------------------------
(* Training data *)
Consents   == [state : {"none", "on", "off"}, revision : Nat]
TurnRows   == [pc : {"idle", "answering", "answered", "broken", "keep", "keep and grant",
                     "keep input", "complete", "done"}, revision : Nat]
DatasetRows == [status : {"none", "frozen", "deprecated"}, links : SUBSET Turns, text : SUBSET Turns]

TrainingTypes ==
  /\ consent \in [Sessions -> Consents] /\ turn \in [Turns -> TurnRows]
  /\ trace \in [Turns -> {"none", "kept", "blank"}]
  /\ candidate \in [Turns -> {"none", "pending", "approved", "rejected", "deprecated"}]
  /\ dataset \in [Versions -> DatasetRows]
  /\ build.links \in SUBSET Turns /\ build.text \in SUBSET Turns
  /\ build # NoBuild => build.version \in Versions
  /\ purge \in SUBSET Turns

Consented(t) == consent[SessionOf[t]].state = "on"

(* A candidate stands for a trace of a turn that is over, which keeps its  *)
(* text under a consent only.                                              *)
Candidates ==
  \A t \in Turns : candidate[t] # "none" =>
    turn[t].pc = "complete" /\ trace[t] # "none" /\ (trace[t] = "kept" => Consented(t))

(* A trace whose text a frozen version has is linked to it, as long as it  *)
(* is there.                                                               *)
Lawful(d) ==
  /\ \A t \in dataset[d].text :
       turn[t].pc = "complete" /\ (trace[t] # "none" => t \in dataset[d].links /\ Consented(t))
  /\ \A t \in dataset[d].links : candidate[t] = "approved"
Frozen == \A d \in Versions : dataset[d].status = "frozen" => Lawful(d)

(* What a build has read stays true, except for traces that go away.       *)
Building ==
  /\ build.text \subseteq build.links
  /\ \A t \in build.text : turn[t].pc = "complete" /\ (trace[t] # "none" => Consented(t))
  /\ \A t \in build.links : candidate[t] \in {"approved", "none"}

TrainingIInv == TrainingTypes /\ Candidates /\ Frozen /\ Building
-----------------------------------------------------------------------------
LEMMA InitTrainingIInv == TrainingInit => TrainingIInv
<1> SUFFICES ASSUME TrainingInit
             PROVE  TrainingIInv
  OBVIOUS
<1>1. /\ NoConsent \in Consents /\ NoTurn \in TurnRows /\ NoDataset \in DatasetRows
      /\ NoBuild.links = {} /\ NoBuild.text = {} /\ NoDataset.status = "none"
  BY DEF NoConsent, Consents, NoTurn, TurnRows, NoDataset, DatasetRows, NoBuild
<1>2. TrainingTypes
  BY <1>1 DEF TrainingInit, TrainingTypes
<1>3. Candidates /\ Frozen /\ Building
  BY <1>1 DEF TrainingInit, Candidates, Frozen, Lawful, Building
<1>4. QED
  BY <1>2, <1>3 DEF TrainingIInv

(* A version that is frozen after others were voided is linked to none of  *)
(* the candidates they were linked to.                                     *)
LEMMA VoidedRows ==
  ASSUME TrainingTypes, NEW T
  PROVE  /\ Voided(T) \in [Versions -> DatasetRows]
         /\ \A d \in Versions : Voided(T)[d].status = "frozen" =>
              Voided(T)[d] = dataset[d] /\ dataset[d].links \cap T = {}
<1>1. \A d \in Versions : [dataset[d] EXCEPT !.status = "deprecated"] \in DatasetRows
                          /\ [dataset[d] EXCEPT !.status = "deprecated"].status = "deprecated"
  BY DEF TrainingTypes, DatasetRows
<1>2. QED
  BY <1>1 DEF Voided, TrainingTypes

LEMMA UnlinkedRows ==
  ASSUME NEW sets \in [Versions -> DatasetRows], NEW T
  PROVE  /\ Unlinked(sets, T) \in [Versions -> DatasetRows]
         /\ \A d \in Versions : /\ Unlinked(sets, T)[d].status = sets[d].status
                                /\ Unlinked(sets, T)[d].links = sets[d].links \ T
                                /\ Unlinked(sets, T)[d].text = sets[d].text
<1>1. \A d \in Versions : /\ [sets[d] EXCEPT !.links = @ \ T] \in DatasetRows
                          /\ [sets[d] EXCEPT !.links = @ \ T].status = sets[d].status
                          /\ [sets[d] EXCEPT !.links = @ \ T].links = sets[d].links \ T
                          /\ [sets[d] EXCEPT !.links = @ \ T].text = sets[d].text
  BY DEF DatasetRows
<1>2. QED
  BY <1>1 DEF Unlinked

(* The steps of the request that answers a turn. *)
LEMMA TurnSteps ==
  ASSUME TrainingIInv, NEW t \in Turns,
         Capture(t) \/ Answer(t) \/ Break(t) \/ RecordRead(t)
  PROVE  TrainingIInv'
<1>1. PICK row \in TurnRows : turn' = [turn EXCEPT ![t] = row] /\ turn[t].pc # "complete"
  <2>0. turn[t] \in TurnRows /\ consent[SessionOf[t]] \in Consents
    BY SessionAssumption DEF TrainingIInv, TrainingTypes
  <2>1. CASE Capture(t)
    <3>1. /\ turn[t].pc = "idle"
          /\ \/ turn' = [turn EXCEPT ![t] = [pc |-> "answering", revision |-> 0]]
             \/ turn' = [turn EXCEPT ![t] = [pc |-> "answering",
                                             revision |-> consent[SessionOf[t]].revision]]
      <4>1. turn[t].pc = "idle"
        BY <2>1 DEF Capture, NoTurn
      <4> DEFINE first == [turn EXCEPT ![t] = [pc |-> "answering", revision |-> 0]]
                 later == [turn EXCEPT ![t] = [pc |-> "answering",
                                               revision |-> consent[SessionOf[t]].revision]]
      <4>2. turn' = first \/ turn' = later
        BY <2>1 DEF Capture
      <4>3. QED
        BY <4>1, <4>2
    <3>2. /\ [pc |-> "answering", revision |-> 0] \in TurnRows
          /\ [pc |-> "answering", revision |-> consent[SessionOf[t]].revision] \in TurnRows
      BY <2>0 DEF TurnRows, Consents
    <3>3. QED
      BY <3>1, <3>2
  <2>2. CASE Answer(t) \/ Break(t) \/ RecordRead(t)
    <3>1. PICK pc \in {"answered", "broken", "keep", "keep and grant", "keep input", "done"} :
            turn' = [turn EXCEPT ![t] = [turn[t] EXCEPT !.pc = pc]] /\ turn[t].pc # "complete"
      <4>1. CASE Answer(t)
        BY <4>1 DEF Answer
      <4>2. CASE Break(t)
        BY <4>2 DEF Break
      <4>3. CASE RecordRead(t)
        <5> DEFINE next == IF ~Permitted(t) THEN "done"
                           ELSE CASE turn[t].pc = "broken" -> "keep input"
                                  [] consent[SessionOf[t]].state = "none" -> "keep and grant"
                                  [] OTHER -> "keep"
        <5>1. turn' = [turn EXCEPT ![t] = [turn[t] EXCEPT !.pc = next]] /\ turn[t].pc # "complete"
          BY <4>3 DEF RecordRead
        <5>2. next \in {"keep", "keep and grant", "keep input", "done"}
          OBVIOUS
        <5> HIDE DEF next
        <5>3. QED
          BY <5>1, <5>2
      <4>4. QED
        BY <2>2, <4>1, <4>2, <4>3
    <3>2. [turn[t] EXCEPT !.pc = pc] \in TurnRows
      BY <2>0 DEF TurnRows
    <3>3. QED
      BY <3>1, <3>2
  <2>3. QED
    BY <2>1, <2>2
<1>2. UNCHANGED <<consent, trace, candidate, dataset, build, purge>>
  BY DEF Capture, Answer, Break, RecordRead
<1>3. turn' \in [Turns -> TurnRows] /\ \A u \in Turns : turn[u].pc = "complete" => turn'[u] = turn[u]
  BY <1>1 DEF TrainingIInv, TrainingTypes
<1>4. TrainingTypes'
  BY <1>2, <1>3 DEF TrainingIInv, TrainingTypes
<1>5. Candidates'
  BY <1>2, <1>3 DEF TrainingIInv, Candidates, Consented
<1>6. Frozen'
  BY <1>2, <1>3 DEF TrainingIInv, TrainingTypes, DatasetRows, Frozen, Lawful, Consented
<1>7. Building'
  BY <1>2, <1>3 DEF TrainingIInv, TrainingTypes, Building, Consented
<1>8. QED
  BY <1>4, <1>5, <1>6, <1>7 DEF TrainingIInv

(* A trace is written before its turn can have a candidate or be in any    *)
(* version; a consent that is granted with it takes none away.             *)
LEMMA RecordWriteInv ==
  ASSUME TrainingIInv, NEW t \in Turns, RecordWrite(t)
  PROVE  TrainingIInv'
<1>1. turn[t].pc # "complete" /\ UNCHANGED <<candidate, dataset, build, purge>>
  BY DEF RecordWrite
<1>2. turn' \in [Turns -> TurnRows] /\ \A u \in Turns : turn[u].pc = "complete" => turn'[u] = turn[u]
  <2>1. PICK pc \in {"done", "complete"} : turn' = [turn EXCEPT ![t] = [turn[t] EXCEPT !.pc = pc]]
    BY DEF RecordWrite
  <2>2. [turn[t] EXCEPT !.pc = pc] \in TurnRows
    BY DEF TrainingIInv, TrainingTypes, TurnRows
  <2>3. QED
    BY <1>1, <2>1, <2>2 DEF TrainingIInv, TrainingTypes
<1>3. trace' \in [Turns -> {"none", "kept", "blank"}] /\ \A u \in Turns : u # t => trace'[u] = trace[u]
  BY DEF RecordWrite, TrainingIInv, TrainingTypes
<1>4. consent' \in [Sessions -> Consents] /\ \A u \in Turns : Consented(u) => Consented(u)'
  <2>1. CASE consent' = consent
    BY <2>1 DEF TrainingIInv, TrainingTypes, Consented
  <2>2. CASE consent' = [consent EXCEPT ![SessionOf[t]] = [state |-> "on", revision |-> 1]]
    <3>1. [state |-> "on", revision |-> 1] \in Consents
      BY DEF Consents
    <3>2. QED
      BY <2>2, <3>1, SessionAssumption DEF TrainingIInv, TrainingTypes, Consented
  <2>3. QED
    BY <2>1, <2>2 DEF RecordWrite
<1>5. TrainingTypes'
  BY <1>1, <1>2, <1>3, <1>4 DEF TrainingIInv, TrainingTypes
<1>6. Candidates'
  BY <1>1, <1>2, <1>3, <1>4 DEF TrainingIInv, Candidates
<1>7. Frozen'
  BY <1>1, <1>2, <1>3, <1>4 DEF TrainingIInv, TrainingTypes, DatasetRows, Frozen, Lawful
<1>8. Building'
  BY <1>1, <1>2, <1>3, <1>4 DEF TrainingIInv, TrainingTypes, Building
<1>9. QED
  BY <1>5, <1>6, <1>7, <1>8 DEF TrainingIInv
-----------------------------------------------------------------------------
LEMMA GrantInv ==
  ASSUME TrainingIInv, NEW s \in Sessions, Grant(s)
  PROVE  TrainingIInv'
<1>1. UNCHANGED <<turn, trace, candidate, dataset, build, purge>>
  BY DEF Grant
<1>2. consent' \in [Sessions -> Consents] /\ \A u \in Turns : Consented(u) => Consented(u)'
  <2>1. consent' = [consent EXCEPT ![s] = [state |-> "on", revision |-> consent[s].revision + 1]]
    BY DEF Grant
  <2>2. [state |-> "on", revision |-> consent[s].revision + 1] \in Consents
    BY DEF TrainingIInv, TrainingTypes, Consents
  <2>3. QED
    BY <2>1, <2>2, SessionAssumption DEF TrainingIInv, TrainingTypes, Consented
<1>3. QED
  BY <1>1, <1>2 DEF TrainingIInv, TrainingTypes, DatasetRows, Candidates, Frozen, Lawful, Building

(* Withdrawal voids every version that has the text of a trace that is     *)
(* still there.                                                            *)
LEMMA WithdrawInv ==
  ASSUME TrainingIInv, NEW s \in Sessions, Withdraw(s)
  PROVE  TrainingIInv'
<1> DEFINE taken == {t \in Of(s) : trace[t] # "none"}
           T == taken \cap Rows
<1>1. /\ build = NoBuild /\ UNCHANGED <<turn, build, purge>>
      /\ consent' = [consent EXCEPT ![s] = [state |-> "off", revision |-> consent[s].revision + 1]]
      /\ trace' = [t \in Turns |-> IF t \in taken THEN "blank" ELSE trace[t]]
      /\ candidate' = [t \in Turns |-> IF t \in T THEN "deprecated" ELSE candidate[t]]
      /\ dataset' = Voided(T)
  BY DEF Withdraw, LockFree
<1>2. [state |-> "off", revision |-> consent[s].revision + 1] \in Consents
  BY DEF TrainingIInv, TrainingTypes, Consents
<1>3. consent' \in [Sessions -> Consents]
      /\ \A t \in Turns : SessionOf[t] # s => (Consented(t) <=> Consented(t)')
  BY <1>1, <1>2, SessionAssumption DEF TrainingIInv, TrainingTypes, Consented
<1>4. \A t \in Turns : /\ t \in taken <=> SessionOf[t] = s /\ trace[t] # "none"
                       /\ t \in T <=> t \in taken /\ candidate[t] # "none"
  BY DEF Of, Rows
<1>5. /\ dataset' \in [Versions -> DatasetRows]
      /\ \A d \in Versions : dataset'[d].status = "frozen" =>
           dataset'[d] = dataset[d] /\ dataset[d].links \cap T = {}
  BY <1>1, VoidedRows DEF TrainingIInv
<1> HIDE DEF taken, T
<1>6. TrainingTypes'
  BY <1>1, <1>3, <1>5 DEF TrainingIInv, TrainingTypes
<1>7. Candidates'
  BY <1>1, <1>3, <1>4 DEF TrainingIInv, TrainingTypes, Candidates
<1>8. Frozen'
  <2> SUFFICES ASSUME NEW d \in Versions, dataset'[d].status = "frozen"
               PROVE  Lawful(d)'
    BY DEF Frozen
  <2>1. /\ dataset'[d] = dataset[d] /\ dataset[d].links \cap T = {}
        /\ dataset[d].links \subseteq Turns /\ dataset[d].text \subseteq Turns
    BY <1>5 DEF TrainingIInv, TrainingTypes, DatasetRows
  <2>2. \A t \in dataset[d].links : candidate[t] = "approved"
    BY <2>1 DEF TrainingIInv, Frozen, Lawful
  <2>3. ASSUME NEW t \in dataset[d].text, trace'[t] # "none"
        PROVE  t \in dataset[d].links /\ Consented(t)'
    <3>1. trace[t] # "none"
      BY <1>1, <1>4, <2>1, <2>3
    <3>2. t \in dataset[d].links /\ Consented(t)
      BY <2>1, <3>1 DEF TrainingIInv, Frozen, Lawful
    <3>3. SessionOf[t] # s
      BY <1>4, <2>1, <2>2, <3>1, <3>2
    <3>4. QED
      BY <1>3, <2>1, <3>2, <3>3
  <2>4. QED
    BY <1>1, <2>1, <2>2, <2>3 DEF TrainingIInv, Frozen, Lawful
<1>9. Building'
  BY <1>1 DEF TrainingIInv, Building, NoBuild
<1>10. QED
  BY <1>6, <1>7, <1>8, <1>9 DEF TrainingIInv

LEMMA FeedbackInv ==
  ASSUME TrainingIInv, NEW t \in Turns, Feedback(t)
  PROVE  TrainingIInv'
<1>1. /\ build = NoBuild /\ UNCHANGED <<consent, turn, trace, build, purge>>
      /\ turn[t].pc = "complete" /\ trace[t] # "none" /\ Consented(t)
      /\ candidate' = [candidate EXCEPT ![t] = "pending"] /\ dataset' = Voided(Reopened(t))
  BY DEF Feedback, LockFree, Consented
<1>2. /\ dataset' \in [Versions -> DatasetRows]
      /\ \A d \in Versions : dataset'[d].status = "frozen" =>
           dataset'[d] = dataset[d] /\ dataset[d].links \cap Reopened(t) = {}
  BY <1>1, VoidedRows DEF TrainingIInv
<1>3. candidate[t] = "approved" => t \in Reopened(t)
  BY DEF Reopened, Approved
<1>4. TrainingTypes'
  BY <1>1, <1>2 DEF TrainingIInv, TrainingTypes
<1>5. Candidates'
  BY <1>1 DEF TrainingIInv, TrainingTypes, Candidates, Consented
<1>6. Frozen'
  BY <1>1, <1>2, <1>3 DEF TrainingIInv, TrainingTypes, DatasetRows, Frozen, Lawful, Consented
<1>7. Building'
  BY <1>1 DEF TrainingIInv, Building, NoBuild
<1>8. QED
  BY <1>4, <1>5, <1>6, <1>7 DEF TrainingIInv

LEMMA ReviewInv ==
  ASSUME TrainingIInv, NEW t \in Turns, NEW status \in {"approved", "rejected", "deprecated"},
         Review(t, status)
  PROVE  TrainingIInv'
<1>1. /\ build = NoBuild /\ UNCHANGED <<consent, turn, trace, dataset, build, purge>>
      /\ candidate[t] # "none" /\ candidate' = [candidate EXCEPT ![t] = status]
      /\ \A d \in Versions : dataset[d].status = "frozen" => t \notin dataset[d].links
  BY DEF Review, LockFree, Rows
<1>2. TrainingTypes'
  BY <1>1 DEF TrainingIInv, TrainingTypes
<1>3. Candidates'
  BY <1>1 DEF TrainingIInv, TrainingTypes, Candidates, Consented
<1>4. Frozen'
  BY <1>1 DEF TrainingIInv, TrainingTypes, DatasetRows, Frozen, Lawful, Consented
<1>5. Building'
  BY <1>1 DEF TrainingIInv, Building, NoBuild
<1>6. QED
  BY <1>2, <1>3, <1>4, <1>5 DEF TrainingIInv
-----------------------------------------------------------------------------
LEMMA BuildSteps ==
  ASSUME TrainingIInv, (\E d \in Versions : Publish(d)) \/ Commit \/ CrashBuild
  PROVE  TrainingIInv'
<1>1. UNCHANGED <<consent, turn, trace, candidate, purge>>
  BY DEF Publish, Commit, CrashBuild
<1>2. ASSUME NEW d \in Versions, Publish(d)
      PROVE  TrainingIInv'
  <2>1. /\ dataset' = dataset /\ build'.version = d /\ build'.links = Approved
        /\ build'.text = {t \in Approved : trace[t] = "kept"}
    BY <1>2 DEF Publish
  <2>2. Approved \subseteq Turns /\ \A t \in Approved : candidate[t] = "approved"
    BY DEF Approved
  <2>3. TrainingTypes'
    BY <1>1, <2>1, <2>2 DEF TrainingIInv, TrainingTypes
  <2>4. Building'
    BY <1>1, <2>1, <2>2 DEF TrainingIInv, TrainingTypes, Candidates, Building, Consented
  <2>5. Candidates' /\ Frozen'
    BY <1>1, <2>1 DEF TrainingIInv, Candidates, Frozen, Lawful, Consented
  <2>6. QED
    BY <2>3, <2>4, <2>5 DEF TrainingIInv
<1>3. CASE Commit
  <2>1. build # NoBuild /\ build' = NoBuild /\ build.version \in Versions
        /\ build.links \subseteq Turns /\ build.text \subseteq Turns
    BY <1>3 DEF Commit, TrainingIInv, TrainingTypes
  <2>2. Building'
    BY <2>1 DEF Building, NoBuild
  <2>3. Candidates'
    BY <1>1 DEF TrainingIInv, Candidates, Consented
  <2>4. CASE build.links \subseteq Rows
    <3> DEFINE row == [status |-> "frozen", links |-> build.links, text |-> build.text]
    <3>1. dataset' = [dataset EXCEPT ![build.version] = row]
      BY <1>3, <2>4 DEF Commit
    <3>2. row \in DatasetRows /\ row.links = build.links /\ row.text = build.text
      BY <2>1 DEF DatasetRows
    <3>3. TrainingTypes'
      BY <1>1, <2>1, <3>1, <3>2 DEF TrainingIInv, TrainingTypes, NoBuild
    <3>4. /\ \A t \in build.text : /\ turn[t].pc = "complete"
                                   /\ trace[t] # "none" => t \in build.links /\ Consented(t)
          /\ \A t \in build.links : candidate[t] = "approved"
      BY <2>1, <2>4 DEF TrainingIInv, Building, Rows
    <3> HIDE DEF row
    <3>5. Frozen'
      <4> SUFFICES ASSUME NEW d \in Versions, dataset'[d].status = "frozen"
                   PROVE  Lawful(d)'
        BY DEF Frozen
      <4>1. CASE d = build.version
        <5>1. dataset'[d] = row
          BY <2>1, <3>1, <4>1 DEF TrainingIInv, TrainingTypes
        <5>2. QED
          BY <1>1, <3>2, <3>4, <5>1 DEF Lawful, Consented
      <4>2. CASE d # build.version
        <5>1. dataset'[d] = dataset[d]
          BY <2>1, <3>1, <4>2 DEF TrainingIInv, TrainingTypes
        <5>2. QED
          BY <1>1, <5>1 DEF TrainingIInv, Frozen, Lawful, Consented
      <4>3. QED
        BY <4>1, <4>2
    <3>6. QED
      BY <2>2, <2>3, <3>3, <3>5 DEF TrainingIInv
  <2>5. CASE ~(build.links \subseteq Rows)
    <3>1. dataset' = dataset
      BY <1>3, <2>5 DEF Commit
    <3>2. QED
      BY <1>1, <2>1, <2>2, <2>3, <3>1
         DEF TrainingIInv, TrainingTypes, Frozen, Lawful, Consented, NoBuild
  <2>6. QED
    BY <2>4, <2>5
<1>4. CASE CrashBuild
  <2>1. build' = NoBuild /\ dataset' = dataset
    BY <1>4 DEF CrashBuild
  <2>2. QED
    BY <1>1, <2>1
       DEF TrainingIInv, TrainingTypes, Candidates, Frozen, Lawful, Building, Consented, NoBuild
<1>5. QED
  BY <1>2, <1>3, <1>4

(* Traces that go away take their candidates and their links with them.    *)
LEMMA GoneInv ==
  ASSUME TrainingIInv, NEW T \in SUBSET Turns, NEW sets \in [Versions -> DatasetRows],
         \A d \in Versions : sets[d].status = "frozen" => sets[d] = dataset[d],
         UNCHANGED <<turn, build>>, purge' \in SUBSET Turns,
         trace' = Without(trace, T), candidate' = Without(candidate, T),
         dataset' = Unlinked(sets, T),
         consent' \in [Sessions -> Consents],
         \A t \in Turns : t \notin T => (Consented(t) => Consented(t)')
  PROVE  TrainingIInv'
<1>1. /\ \A t \in Turns : trace'[t] = IF t \in T THEN "none" ELSE trace[t]
      /\ \A t \in Turns : candidate'[t] = IF t \in T THEN "none" ELSE candidate[t]
  BY DEF Without
<1>2. /\ dataset' \in [Versions -> DatasetRows]
      /\ \A d \in Versions : /\ dataset'[d].status = sets[d].status
                             /\ dataset'[d].links = sets[d].links \ T
                             /\ dataset'[d].text = sets[d].text
  BY UnlinkedRows
<1>3. TrainingTypes'
  BY <1>1, <1>2 DEF TrainingIInv, TrainingTypes, Without
<1>4. Candidates'
  BY <1>1 DEF TrainingIInv, Candidates
<1>5. Frozen'
  <2> SUFFICES ASSUME NEW d \in Versions, dataset'[d].status = "frozen"
               PROVE  Lawful(d)'
    BY DEF Frozen
  <2>1. /\ dataset[d].status = "frozen"
        /\ dataset'[d].links = dataset[d].links \ T /\ dataset'[d].text = dataset[d].text
        /\ dataset[d].links \subseteq Turns /\ dataset[d].text \subseteq Turns
    BY <1>2 DEF TrainingIInv, TrainingTypes, DatasetRows
  <2>2. QED
    BY <1>1, <2>1 DEF TrainingIInv, Frozen, Lawful
<1>6. Building'
  BY <1>1 DEF TrainingIInv, TrainingTypes, Building
<1>7. QED
  BY <1>3, <1>4, <1>5, <1>6 DEF TrainingIInv

LEMMA GoneSteps ==
  ASSUME TrainingIInv,
         \/ PurgeDelete \/ Erase \/ DeleteAccount
         \/ \E s \in Sessions : DeleteSession(s)
  PROVE  TrainingIInv'
<1>1. /\ TrainingTypes /\ dataset \in [Versions -> DatasetRows] /\ NoConsent \in Consents
  BY DEF TrainingIInv, TrainingTypes, NoConsent, Consents
<1>2. CASE PurgeDelete
  <2>1. /\ UNCHANGED <<turn, build, consent>> /\ purge' = {}
        /\ trace' = Without(trace, purge) /\ candidate' = Without(candidate, purge)
        /\ dataset' = Unlinked(dataset, purge)
    BY <1>2 DEF PurgeDelete
  <2>2. /\ purge \in SUBSET Turns /\ purge' \in SUBSET Turns /\ consent' \in [Sessions -> Consents]
        /\ \A t \in Turns : Consented(t) => Consented(t)'
    BY <2>1 DEF TrainingIInv, TrainingTypes, Consented
  <2>3. QED
    BY <1>1, <2>1, <2>2, GoneInv
<1>3. ASSUME NEW s \in Sessions, DeleteSession(s)
      PROVE  TrainingIInv'
  <2>1. /\ UNCHANGED <<turn, build, purge>>
        /\ trace' = Without(trace, Of(s)) /\ candidate' = Without(candidate, Of(s))
        /\ dataset' = Unlinked(dataset, Of(s)) /\ consent' = [consent EXCEPT ![s] = NoConsent]
    BY <1>3 DEF DeleteSession
  <2>2. /\ Of(s) \in SUBSET Turns /\ purge' \in SUBSET Turns /\ consent' \in [Sessions -> Consents]
        /\ \A t \in Turns : t \notin Of(s) => (Consented(t) => Consented(t)')
    BY <1>1, <2>1, SessionAssumption DEF TrainingTypes, Consented, Of
  <2>3. QED
    BY <1>1, <2>1, <2>2, GoneInv
<1>4. CASE Erase \/ DeleteAccount
  <2>1. Erasure /\ UNCHANGED <<turn, build, purge>>
    BY <1>4 DEF Erase, DeleteAccount
  <2>2. /\ Turns \in SUBSET Turns /\ purge' \in SUBSET Turns
        /\ consent' \in [Sessions -> Consents]
    BY <1>1, <2>1 DEF Erasure, TrainingTypes
  <2>3. Voided(Rows) \in [Versions -> DatasetRows]
        /\ \A d \in Versions : Voided(Rows)[d].status = "frozen" => Voided(Rows)[d] = dataset[d]
    BY <1>1, VoidedRows
  <2>4. Unlinked(Voided(Rows), Rows) \in [Versions -> DatasetRows]
        /\ \A d \in Versions : Unlinked(Voided(Rows), Rows)[d].status = "frozen" =>
             /\ dataset[d].status = "frozen"
             /\ Unlinked(Voided(Rows), Rows)[d].links = dataset[d].links \ Rows
             /\ Unlinked(Voided(Rows), Rows)[d].text = dataset[d].text
    BY <2>3, UnlinkedRows
  <2>5. /\ dataset' = Unlinked(Voided(Rows), Rows)
        /\ \A t \in Turns : trace'[t] = "none" /\ candidate'[t] = "none"
    BY <2>1 DEF Erasure
  <2>6. TrainingTypes'
    BY <1>1, <2>1, <2>2, <2>4, <2>5 DEF TrainingTypes, Erasure
  <2>7. Candidates' /\ Building'
    BY <2>1, <2>5 DEF TrainingIInv, TrainingTypes, Candidates, Building
  <2>8. Frozen'
    <3>1. \A d \in Versions : dataset[d].status = "frozen" => dataset[d].links \subseteq Rows
      BY DEF TrainingIInv, TrainingTypes, DatasetRows, Frozen, Lawful, Rows
    <3>2. QED
      BY <2>1, <2>4, <2>5, <3>1 DEF TrainingIInv, TrainingTypes, DatasetRows, Frozen, Lawful
  <2>9. QED
    BY <2>6, <2>7, <2>8 DEF TrainingIInv
<1>5. QED
  BY <1>2, <1>3, <1>4

(* The purge that only reads, and the outbox. *)
LEMMA OtherSteps ==
  ASSUME TrainingIInv, Process \/ UNCHANGED trainingVars \/ \E t \in Turns : PurgeRead(t)
  PROVE  TrainingIInv'
<1>1. UNCHANGED <<consent, turn, trace, candidate, dataset, build>> /\ purge' \in SUBSET Turns
  BY DEF Process, trainingVars, PurgeRead, TrainingIInv, TrainingTypes
<1>2. QED
  BY <1>1 DEF TrainingIInv, TrainingTypes, Candidates, Frozen, Lawful, Building, Consented

(* No frozen version holds the text of a trace whose consent is gone, and  *)
(* its candidates are approved, whatever the order in which turns are      *)
(* recorded, consents withdrawn, data purged and erased and versions built *)
(* (training_data.py, training_dataset.py).                                *)
THEOREM FrozenAllowedCorrect == TrainingSpec => []FrozenAllowed
<1>1. TrainingIInv /\ [TrainingNext]_trainingVars => TrainingIInv'
  <2> SUFFICES ASSUME TrainingIInv, [TrainingNext]_trainingVars
               PROVE  TrainingIInv'
    OBVIOUS
  <2>1. CASE \E t \in Turns : Capture(t) \/ Answer(t) \/ Break(t) \/ RecordRead(t)
    BY <2>1, TurnSteps
  <2>2. CASE \E t \in Turns : RecordWrite(t)
    BY <2>2, RecordWriteInv
  <2>3. CASE \E t \in Turns : \/ Feedback(t)
                              \/ \E status \in {"approved", "rejected", "deprecated"} : Review(t, status)
    BY <2>3, FeedbackInv, ReviewInv
  <2>4. CASE \E s \in Sessions : Grant(s) \/ Withdraw(s)
    BY <2>4, GrantInv, WithdrawInv
  <2>5. CASE (\E d \in Versions : Publish(d)) \/ Commit \/ CrashBuild
    BY <2>5, BuildSteps
  <2>6. CASE PurgeDelete \/ Erase \/ DeleteAccount \/ \E s \in Sessions : DeleteSession(s)
    BY <2>6, GoneSteps
  <2>7. CASE Process \/ UNCHANGED trainingVars \/ \E t \in Turns : PurgeRead(t)
    BY <2>7, OtherSteps
  <2>8. QED
    BY <2>1, <2>2, <2>3, <2>4, <2>5, <2>6, <2>7 DEF TrainingNext
<1>2. TrainingIInv => FrozenAllowed
  BY DEF TrainingIInv, TrainingTypes, DatasetRows, Frozen, Lawful, FrozenAllowed, Consented, Approved
<1>3. QED
  BY <1>1, <1>2, InitTrainingIInv, PTL DEF TrainingSpec
-----------------------------------------------------------------------------
(* Strategies.  A definition has its four fields, and so has a head.        *)
Shaped(d) ==
  /\ d = [kind |-> d.kind, type |-> d.type, params |-> d.params, source |-> d.source]
  /\ d.kind \in {"builtin", "custom"}

HeadShape(h) ==
  /\ h = [status |-> h.status, kind |-> h.kind, type |-> h.type, params |-> h.params,
          sha |-> h.sha, version |-> h.version]
  /\ h.kind \in {"builtin", "custom"} /\ h.version \in Nat \ {0}

(* A head, now or when it was read, is that of a row. *)
RowFor(vs, s, h) ==
  \E v \in vs : /\ v.of = s /\ v.version = h.version /\ v.sha = h.sha
                /\ v.definition.kind = h.kind /\ v.definition.type = h.type
                /\ v.definition.params = h.params

RowFine(v) ==
  /\ v.sha = v.definition /\ Shaped(v.definition)
  /\ Validated(v.definition) /\ Normal(v.definition) = v.definition

OneRowEach == \A v, w \in versions : v.of = w.of /\ v.version = w.version => v = w

Numbered(s) ==
  /\ {v.version : v \in VersionsOf(s)} = 1 .. head[s].version
  /\ IsFiniteSet(VersionsOf(s)) /\ Cardinality(VersionsOf(s)) = head[s].version

Tables ==
  /\ \A v \in versions : RowFine(v)
  /\ OneRowEach
  /\ DOMAIN head = StrategyIds
  /\ \A s \in StrategyIds :
       \/ head[s] = Absent /\ VersionsOf(s) = {}
       \/ /\ head[s].status # "absent" /\ HeadShape(head[s])
          /\ RowFor(versions, s, head[s]) /\ Numbered(s)

CopyKept ==
  copying # NoCopy => /\ copying.head.status # "absent" /\ HeadShape(copying.head)
                      /\ RowFor(versions, copying.of, copying.head)

(* What a call read is still there. *)
Known(vs, c) ==
  \E v \in vs : v.of = c.of /\ v.version = c.version /\ v.sha = c.sha /\ v.definition = c.definition

CallsKept == DOMAIN call = Calls /\ \A c \in Calls : call[c].pc # "idle" => Known(versions, call[c])

(* A form names a type and its parameters, and leaves the kind alone. *)
PageShape(g) ==
  /\ g = [open |-> g.open, of |-> g.of, data |-> g.data, form |-> g.form, base |-> g.base]
  /\ g.open \in BOOLEAN /\ g.of \in StrategyIds /\ DOMAIN g.form = {"type", "params"}

LEMMA FormDomain == \E f : DOMAIN f = {"type", "params"}
<1>1. DOMAIN [type |-> 0, params |-> 0] = {"type", "params"}
  OBVIOUS
<1>. QED BY <1>1, Zenon

LEMMA PageFields ==
  ASSUME NEW g, PageShape(g), NEW open \in BOOLEAN, NEW data, NEW f, DOMAIN f = {"type", "params"}
  PROVE  /\ PageShape([g EXCEPT !.open = open])
         /\ PageShape([g EXCEPT !.data = data, !.open = open])
         /\ PageShape([g EXCEPT !.open = open, !.data = data])
         /\ PageShape([g EXCEPT !.form = f])
<1>. PICK o, s, e, m, b : g = [open |-> o, of |-> s, data |-> e, form |-> m, base |-> b]
  BY DEF PageShape
<1>1. s \in StrategyIds /\ DOMAIN m = {"type", "params"} /\ o \in BOOLEAN
  BY DEF PageShape
<1>2. [g EXCEPT !.open = open] = [open |-> open, of |-> s, data |-> e, form |-> m, base |-> b]
  OBVIOUS
<1>3. [g EXCEPT !.data = data] = [open |-> o, of |-> s, data |-> data, form |-> m, base |-> b]
  OBVIOUS
<1>4. [g EXCEPT !.form = f] = [open |-> o, of |-> s, data |-> e, form |-> f, base |-> b]
  OBVIOUS
<1>. DEFINE both == [open |-> open, of |-> s, data |-> data, form |-> m, base |-> b]
<1>5. ASSUME NEW x, x = [open |-> o, of |-> s, data |-> data, form |-> m, base |-> b]
      PROVE  [x EXCEPT !.open = open] = both
  BY <1>5
<1>6. ASSUME NEW x, x = [open |-> open, of |-> s, data |-> e, form |-> m, base |-> b]
      PROVE  [x EXCEPT !.data = data] = both
  BY <1>6
<1>7. [g EXCEPT !.data = data, !.open = open] = both
  BY <1>3, <1>5, Zenon
<1>8. [g EXCEPT !.open = open, !.data = data] = both
  BY <1>2, <1>6, Zenon
<1>. HIDE DEF both
<1>9. PageShape(both)
  BY <1>1 DEF PageShape, both
<1>10. /\ PageShape([open |-> open, of |-> s, data |-> e, form |-> m, base |-> b])
       /\ PageShape([open |-> o, of |-> s, data |-> e, form |-> f, base |-> b])
  BY <1>1 DEF PageShape
<1>. QED BY <1>2, <1>4, <1>7, <1>8, <1>9, <1>10, Zenon

PagesKept == DOMAIN page = Pages /\ \A p \in Pages : page[p] = NoPage \/ PageShape(page[p])

StrategiesIInv == Tables /\ CopyKept /\ CallsKept /\ PagesKept
-----------------------------------------------------------------------------
(* A definition that was validated stays what it is when it is validated    *)
(* again.                                                                   *)
LEMMA FilledTwice ==
  ASSUME NEW type \in DOMAIN Catalog, NEW params
  PROVE  Filled(type, Filled(type, params)) = Filled(type, params)
BY DEF Filled

LEMMA NormalFine ==
  ASSUME NEW d, Shaped(d), Validated(d)
  PROVE  Shaped(Normal(d)) /\ Validated(Normal(d)) /\ Normal(Normal(d)) = Normal(d)
<1>1. CASE d.kind = "builtin"
  <2>. DEFINE full == Filled(d.type, d.params)
              e    == [kind |-> "builtin", type |-> d.type, params |-> full, source |-> d.source]
  <2>1. d.type \in DOMAIN Catalog /\ d.source = "none" /\ ParamsValid(d.type, d.params)
    BY <1>1 DEF Validated
  <2>2. Normal(d) = e
    BY <1>1 DEF Normal, Shaped
  <2>3. Filled(d.type, full) = full
    BY <2>1, FilledTwice
  <2>4. ParamsValid(d.type, full)
    <3>1. DOMAIN full = DOMAIN Catalog[d.type]
      BY DEF Filled
    <3>2. ASSUME NEW k \in DOMAIN full PROVE full[k] \in 1 .. MaxValue
      BY <2>1, <3>1, CatalogAssumption DEF Filled, ParamsValid
    <3>3. d.type = "dual_ma" => full.fast < full.slow
      BY <2>1 DEF ParamsValid
    <3>. HIDE DEF full
    <3>. QED BY <3>1, <3>2, <3>3, <2>3 DEF ParamsValid
  <2>. HIDE DEF full
  <2>5. Normal(e) = e
    BY <2>3 DEF Normal
  <2>6. Validated(e) /\ Shaped(e)
    BY <2>1, <2>4 DEF Validated, Shaped
  <2>. QED BY <2>2, <2>5, <2>6
<1>2. CASE d.kind = "custom"
  <2>. DEFINE e == [kind |-> "custom", type |-> Custom, params |-> d.params, source |-> d.source]
  <2>1. Normal(d) = e /\ Normal(e) = e
    BY <1>2 DEF Normal, Shaped
  <2>2. Validated(e) /\ Shaped(e)
    BY <1>2 DEF Validated, Shaped
  <2>. QED BY <2>1, <2>2
<1>. QED BY <1>1, <1>2 DEF Shaped

LEMMA RowIs ==
  ASSUME OneRowEach, NEW v \in versions
  PROVE  Row(v.of, v.version) = v
BY DEF OneRowEach, Row, VersionsOf

LEMMA RowsStay ==
  ASSUME NEW vs, NEW ws, vs \subseteq ws
  PROVE  /\ \A s, h : RowFor(vs, s, h) => RowFor(ws, s, h)
         /\ \A c : Known(vs, c) => Known(ws, c)
BY DEF RowFor, Known

(* The row of a definition, appended to the versions of a strategy *)
LEMMA NewVersion ==
  ASSUME Tables, NEW s \in StrategyIds, NEW d, Shaped(d), Validated(d), Normal(d) = d,
         NEW h, HeadShape(h), h.status # "absent",
         h.kind = d.kind, h.type = d.type, h.params = d.params, h.sha = d,
         h.version = IF head[s] = Absent THEN 1 ELSE head[s].version + 1,
         NEW base, head' = [head EXCEPT ![s] = h],
         versions' = versions \cup
           {[of |-> s, version |-> h.version, base |-> base, sha |-> d, definition |-> d]}
  PROVE  Tables' /\ versions \subseteq versions'
<1>. DEFINE row == [of |-> s, version |-> h.version, base |-> base, sha |-> d, definition |-> d]
<1>1. versions \subseteq versions' /\ versions' = versions \cup {row}
  OBVIOUS
<1>2. row.of = s /\ row.version = h.version /\ row.sha = d /\ row.definition = d
  OBVIOUS
<1>. HIDE DEF row
<1>3. RowFine(row) /\ \A v \in versions : RowFine(v)
  BY <1>2 DEF Tables, RowFine
<1>4. \A v \in VersionsOf(s) : v.version < h.version /\ v.version \in Nat
  <2>1. CASE head[s] = Absent
    BY <2>1 DEF Tables, Absent
  <2>2. CASE head[s] # Absent
    <3>1. {v.version : v \in VersionsOf(s)} = 1 .. head[s].version /\ head[s].version \in Nat
      BY <2>2 DEF Tables, Numbered, HeadShape
    <3>2. h.version = head[s].version + 1
      BY <2>2
    <3>3. \A v \in VersionsOf(s) : v.version \in 1 .. head[s].version
      BY <3>1
    <3>. QED BY <3>1, <3>2, <3>3
  <2>. QED BY <2>1, <2>2
<1>5. h.version \in Nat /\ row \notin VersionsOf(s)
  BY <1>2, <1>4 DEF HeadShape
<1>6. OneRowEach'
  <2>1. \A v \in versions : v.of = s => v.version # h.version
    BY <1>4, <1>5 DEF VersionsOf
  <2>. QED BY <1>1, <1>2, <2>1 DEF Tables, OneRowEach
<1>7. DOMAIN head' = StrategyIds /\ head'[s] = h
  BY DEF Tables
<1>8. ASSUME NEW x \in StrategyIds, x # s
      PROVE  head'[x] = head[x] /\ VersionsOf(x)' = VersionsOf(x)
  BY <1>1, <1>2, <1>8 DEF VersionsOf, Tables
<1>9. VersionsOf(s)' = VersionsOf(s) \cup {row}
  BY <1>1, <1>2 DEF VersionsOf
<1>10. Numbered(s)'
  <2>. DEFINE n == h.version - 1
  <2>1. /\ {v.version : v \in VersionsOf(s)} = 1 .. n /\ n \in Nat
        /\ IsFiniteSet(VersionsOf(s)) /\ Cardinality(VersionsOf(s)) = n
    <3>1. CASE head[s] = Absent
      <4>1. VersionsOf(s) = {} /\ n = 0
        BY <3>1 DEF Tables, Absent
      <4>. QED BY <4>1, FS_EmptySet
    <3>2. CASE head[s] # Absent
      BY <3>2 DEF Tables, Numbered, HeadShape
    <3>. QED BY <3>1, <3>2
  <2>2. {v.version : v \in VersionsOf(s)'} = (1 .. n) \cup {h.version}
    BY <1>2, <1>9, <2>1
  <2>3. IsFiniteSet(VersionsOf(s)') /\ Cardinality(VersionsOf(s)') = n + 1
    BY <1>5, <1>9, <2>1, FS_AddElement
  <2>4. (1 .. n) \cup {h.version} = 1 .. h.version
    BY <1>5, <2>1
  <2>. QED BY <1>5, <1>7, <2>2, <2>3, <2>4 DEF Numbered
<1>11. RowFor(versions', s, h)
  BY <1>1, <1>2 DEF RowFor
<1>12. ASSUME NEW x \in StrategyIds
       PROVE  \/ head'[x] = Absent /\ VersionsOf(x)' = {}
              \/ /\ head'[x].status # "absent" /\ HeadShape(head'[x])
                 /\ RowFor(versions', x, head'[x]) /\ Numbered(x)'
  <2>1. CASE x = s
    BY <2>1, <1>7, <1>10, <1>11
  <2>2. CASE x # s
    BY <2>2, <1>1, <1>8, RowsStay DEF Tables, Numbered
  <2>. QED BY <2>1, <2>2
<1>. QED BY <1>1, <1>3, <1>6, <1>7, <1>12 DEF Tables

LEMMA CreateInv ==
  ASSUME StrategiesIInv, NEW s \in StrategyIds, NEW d \in Drafts, Create(s, d)
  PROVE  Tables' /\ versions \subseteq versions'
<1>. DEFINE e == Normal(d)
            h == HeadOf(e, 1, "draft")
<1>1. Shaped(d) /\ Validated(d)
  BY DraftsAssumption DEF Create, Shaped
<1>2. Shaped(e) /\ Validated(e) /\ Normal(e) = e
  BY <1>1, NormalFine
<1>3. head' = [head EXCEPT ![s] = h] /\ versions' = versions \cup {RowOf(s, h, e.source, 0)}
  BY DEF Create
<1>. HIDE DEF e
<1>4. /\ HeadShape(h) /\ h.status # "absent" /\ h.version = 1
      /\ h.kind = e.kind /\ h.type = e.type /\ h.params = e.params /\ h.sha = e
  BY <1>2 DEF HeadOf, HeadShape, Shaped
<1>. HIDE DEF h
<1>5. RowOf(s, h, e.source, 0)
        = [of |-> s, version |-> h.version, base |-> 0, sha |-> e, definition |-> e]
  BY <1>2, <1>4 DEF RowOf, Shaped
<1>6. head[s] = Absent
  BY DEF Create
<1>. QED BY <1>2, <1>3, <1>4, <1>5, <1>6, NewVersion DEF StrategiesIInv

LEMMA ChangedShaped ==
  ASSUME Tables, NEW s \in StrategyIds, Exists(s), NEW change,
         "kind" \in DOMAIN change => change.kind \in {"builtin", "custom"}
  PROVE  Shaped(Changed(s, change))
BY DEF Tables, HeadShape, Exists, Absent, Changed, Shaped

LEMMA UpdateInv ==
  ASSUME Tables, NEW s \in StrategyIds, NEW change, NEW expected, NEW base,
         "kind" \in DOMAIN change => change.kind \in {"builtin", "custom"},
         Accepted(s, change, expected), Update(s, change, base)
  PROVE  Tables' /\ versions \subseteq versions'
<1>. DEFINE e == Normal(Changed(s, change))
            h == HeadOf(e, head[s].version + 1, "draft")
<1>1. Exists(s) /\ Validated(Changed(s, change))
  BY DEF Accepted
<1>2. Shaped(e) /\ Validated(e) /\ Normal(e) = e
  BY <1>1, ChangedShaped, NormalFine
<1>3. CASE e = head[s].sha
  <2>1. UNCHANGED <<head, versions>>
    BY <1>3 DEF Update
  <2>. QED BY <2>1 DEF Tables, OneRowEach, Numbered, VersionsOf
<1>4. CASE e # head[s].sha
  <2>1. head' = [head EXCEPT ![s] = h] /\ versions' = versions \cup {RowOf(s, h, e.source, base)}
    BY <1>4 DEF Update
  <2>2. head[s] # Absent /\ head[s].version \in Nat
    BY <1>1 DEF Tables, HeadShape, Exists, Absent
  <2>. HIDE DEF e
  <2>3. /\ HeadShape(h) /\ h.status # "absent" /\ h.version = head[s].version + 1
        /\ h.kind = e.kind /\ h.type = e.type /\ h.params = e.params /\ h.sha = e
    BY <1>2, <2>2 DEF HeadOf, HeadShape, Shaped
  <2>. HIDE DEF h
  <2>4. RowOf(s, h, e.source, base)
          = [of |-> s, version |-> h.version, base |-> base, sha |-> e, definition |-> e]
    BY <1>2, <2>3 DEF RowOf, Shaped
  <2>. QED BY <1>2, <2>1, <2>2, <2>3, <2>4, NewVersion
<1>. QED BY <1>3, <1>4

LEMMA CopyInv ==
  ASSUME StrategiesIInv, NEW s \in StrategyIds, CopyWrite(s)
  PROVE  Tables' /\ versions \subseteq versions'
<1>. DEFINE read == copying.head
            h == [read EXCEPT !.version = 1, !.status = "draft"]
<1>1. /\ copying # NoCopy /\ head[s] = Absent /\ head' = [head EXCEPT ![s] = h]
      /\ versions' = versions \cup
           {RowOf(s, h, CopiedRow(copying.of, read.version).definition.source, 0)}
  BY DEF CopyWrite
<1>2. HeadShape(read) /\ RowFor(versions, copying.of, read)
  BY <1>1 DEF StrategiesIInv, CopyKept
<1>3. PICK v \in versions : /\ v.of = copying.of /\ v.version = read.version /\ v.sha = read.sha
                            /\ v.definition.kind = read.kind /\ v.definition.type = read.type
                            /\ v.definition.params = read.params
  BY <1>2 DEF RowFor
<1>4. CopiedRow(copying.of, read.version) = v
  BY <1>3, RowIs DEF CopiedRow, StrategiesIInv, Tables
<1>. DEFINE e == v.definition
<1>5. v.sha = e /\ Shaped(e) /\ Validated(e) /\ Normal(e) = e
  BY DEF StrategiesIInv, Tables, RowFine
<1>6. versions' = versions \cup {RowOf(s, h, e.source, 0)}
  BY <1>1, <1>4
<1>7. e.kind = read.kind /\ e.type = read.type /\ e.params = read.params /\ read.sha = e
  BY <1>3, <1>5
<1>. HIDE DEF read, e
<1>8. /\ HeadShape(h) /\ h.status # "absent" /\ h.version = 1
      /\ h.kind = e.kind /\ h.type = e.type /\ h.params = e.params /\ h.sha = e
  <2>. DEFINE new == [status |-> "draft", kind |-> read.kind, type |-> read.type,
                      params |-> read.params, sha |-> read.sha, version |-> 1]
              one == [status |-> read.status, kind |-> read.kind, type |-> read.type,
                      params |-> read.params, sha |-> read.sha, version |-> 1]
  <2>1. [read EXCEPT !.version = 1] = one
    BY <1>2 DEF HeadShape
  <2>2. [one EXCEPT !.status = "draft"] = new
    OBVIOUS
  <2>3. h = new
    BY <2>1, <2>2, Zenon
  <2>4. /\ new.status = "draft" /\ new.version = 1 /\ new.kind = read.kind
        /\ new.type = read.type /\ new.params = read.params /\ new.sha = read.sha
    OBVIOUS
  <2>5. HeadShape(new)
    BY <1>2, <2>4 DEF HeadShape
  <2>. HIDE DEF h, new
  <2>. QED BY <1>7, <2>3, <2>4, <2>5
<1>. HIDE DEF h
<1>9. RowOf(s, h, e.source, 0)
        = [of |-> s, version |-> h.version, base |-> 0, sha |-> e, definition |-> e]
  BY <1>5, <1>8 DEF RowOf, Shaped
<1>. QED BY <1>1, <1>5, <1>6, <1>8, <1>9, NewVersion DEF StrategiesIInv

LEMMA StatusInv ==
  ASSUME StrategiesIInv, NEW s \in StrategyIds, NEW status, status # "absent", SetStatus(s, status)
  PROVE  Tables' /\ versions' = versions
<1>. DEFINE h == [head[s] EXCEPT !.status = status]
<1>1. head[s] # Absent /\ head' = [head EXCEPT ![s] = h] /\ versions' = versions
  BY DEF SetStatus, Exists, Absent
<1>2. HeadShape(head[s]) /\ RowFor(versions, s, head[s]) /\ Numbered(s) /\ DOMAIN head = StrategyIds
  BY <1>1 DEF StrategiesIInv, Tables
<1>3. /\ h.status = status /\ h.kind = head[s].kind /\ h.type = head[s].type
      /\ h.params = head[s].params /\ h.sha = head[s].sha /\ h.version = head[s].version
      /\ h = [status |-> status, kind |-> head[s].kind, type |-> head[s].type,
              params |-> head[s].params, sha |-> head[s].sha, version |-> head[s].version]
  BY <1>2 DEF HeadShape
<1>. HIDE DEF h
<1>4. HeadShape(h) /\ h.status # "absent"
  BY <1>2, <1>3 DEF HeadShape
<1>5. RowFor(versions, s, h)
  BY <1>2, <1>3 DEF RowFor
<1>6. head'[s] = h /\ \A x \in StrategyIds : x # s => head'[x] = head[x]
  BY <1>1, <1>2
<1>7. \A x : VersionsOf(x)' = VersionsOf(x)
  BY <1>1 DEF VersionsOf
<1>8. Numbered(s)'
  BY <1>2, <1>3, <1>6, <1>7 DEF Numbered
<1>9. ASSUME NEW x \in StrategyIds
      PROVE  \/ head'[x] = Absent /\ VersionsOf(x)' = {}
             \/ /\ head'[x].status # "absent" /\ HeadShape(head'[x])
                /\ RowFor(versions', x, head'[x]) /\ Numbered(x)'
  <2>1. CASE x = s
    BY <2>1, <1>1, <1>4, <1>5, <1>6, <1>8
  <2>2. CASE x # s
    BY <2>2, <1>1, <1>6, <1>7 DEF StrategiesIInv, Tables, Numbered
  <2>. QED BY <2>1, <2>2
<1>. QED BY <1>1, <1>2, <1>9 DEF StrategiesIInv, Tables, OneRowEach

LEMMA TablesStay ==
  ASSUME Tables, UNCHANGED <<head, versions>>
  PROVE  Tables'
BY DEF Tables, OneRowEach, Numbered, VersionsOf

(* What others read stays there, since rows are only ever appended.         *)
LEMMA ReadersKept ==
  ASSUME StrategiesIInv, versions \subseteq versions'
  PROVE  /\ UNCHANGED copying => CopyKept'
         /\ UNCHANGED call => CallsKept'
         /\ UNCHANGED page => PagesKept'
BY RowsStay DEF StrategiesIInv, CopyKept, CallsKept, PagesKept

LEMMA CallSteps ==
  ASSUME StrategiesIInv, NEW c \in Calls,
         \/ SandboxEnds(c)
         \/ \E s \in StrategyIds, n \in 1 .. MaxRevisions :
              RunSignals(c, s, n) \/ RunBacktest(c, s, n)
  PROVE  CallsKept' /\ UNCHANGED <<head, versions, copying, page>>
<1>1. CASE SandboxEnds(c)
  <2>1. /\ call[c].pc # "idle" /\ Known(versions, call[c]) /\ DOMAIN call = Calls
        /\ UNCHANGED <<head, versions, copying, page>>
    BY <1>1 DEF SandboxEnds, StrategiesIInv, CallsKept
  <2>2. CASE call' = [call EXCEPT ![c].pc = "done"]
    <3>. DEFINE after == [call[c] EXCEPT !.pc = "done"]
    <3>1. call'[c] = after /\ DOMAIN call' = Calls /\ \A x \in Calls : x # c => call'[x] = call[x]
      BY <2>1, <2>2
    <3>2. /\ after.of = call[c].of /\ after.version = call[c].version
          /\ after.sha = call[c].sha /\ after.definition = call[c].definition
      OBVIOUS
    <3>. HIDE DEF after
    <3>3. Known(versions, after)
      BY <2>1, <3>2 DEF Known
    <3>. QED BY <2>1, <3>1, <3>3 DEF StrategiesIInv, CallsKept
  <2>3. CASE call' = [call EXCEPT ![c] = NoCall]
    BY <2>1, <2>3 DEF StrategiesIInv, CallsKept, NoCall
  <2>. QED BY <1>1, <2>1, <2>2, <2>3 DEF SandboxEnds
<1>2. ASSUME NEW s \in StrategyIds, NEW n \in 1 .. MaxRevisions,
             RunSignals(c, s, n) \/ RunBacktest(c, s, n)
      PROVE  CallsKept' /\ UNCHANGED <<head, versions, copying, page>>
  <2>1. Readable(c, s, n) /\ UNCHANGED <<head, versions, copying, page>>
    BY <1>2 DEF RunSignals, RunBacktest
  <2>2. PICK pc \in {"done", "running"} : Reads(c, s, n, pc)
    BY <1>2 DEF RunSignals, RunBacktest
  <2>3. PICK v \in versions : v.of = s /\ v.version = n
    BY <2>1 DEF Readable, VersionsOf
  <2>4. Row(s, n) = v
    BY <2>3, RowIs DEF StrategiesIInv, Tables
  <2>. DEFINE after == [pc |-> pc, of |-> s, version |-> n, sha |-> v.sha,
                        definition |-> v.definition]
  <2>5. call' = [call EXCEPT ![c] = after]
    BY <2>2, <2>4 DEF Reads
  <2>6. Known(versions, after)
    BY <2>3 DEF Known
  <2>. HIDE DEF after
  <2>. QED BY <2>1, <2>5, <2>6 DEF StrategiesIInv, CallsKept
<1>. QED BY <1>1, <1>2

LEMMA PageSteps ==
  ASSUME StrategiesIInv, NEW p \in Pages,
         \/ \E s \in StrategyIds : OpenPage(p, s)
         \/ Refetch(p) \/ Leave(p)
         \/ \E type \in DOMAIN Catalog : SelectType(p, type)
         \/ \E k, value : SetParam(p, k, value)
  PROVE  PagesKept' /\ UNCHANGED <<head, versions, copying, call>>
<1>. DEFINE g    == page[p]
            Same == UNCHANGED <<head, versions, copying, call>>
<1>1. DOMAIN page = Pages /\ (g = NoPage \/ PageShape(g))
  BY DEF StrategiesIInv, PagesKept
<1>2. g.open \/ g.of # "none" => PageShape(g)
  BY <1>1 DEF NoPage
<1>3. Same /\ \E after : page' = [page EXCEPT ![p] = after] /\ (after = NoPage \/ PageShape(after))
  <2>1. ASSUME NEW s \in StrategyIds, OpenPage(p, s)
        PROVE  Same /\ \E after : page' = [page EXCEPT ![p] = after] /\ PageShape(after)
    <3>. DEFINE data  == IF page[p].of = s THEN page[p].data ELSE head[s]
                after == [open |-> TRUE, of |-> s, data |-> data, form |-> Form(data),
                          base |-> data.version]
    <3>1. page' = [page EXCEPT ![p] = after] /\ Same
      BY <2>1 DEF OpenPage
    <3>2. PageShape(after)
      <4>. HIDE DEF data
      <4>. QED BY DEF PageShape, Form
    <3>. QED BY <3>1, <3>2
  <2>2. ASSUME Refetch(p)
        PROVE  /\ Same
               /\ \E after : page' = [page EXCEPT ![p] = after] /\ (after = NoPage \/ PageShape(after))
    <3>. DEFINE s == g.of
                opened == g.open /\ head[s].kind = "builtin"
                kept == [g EXCEPT !.data = head[s], !.open = opened]
    <3>1. PageShape(g) /\ Same
      BY <2>2, <1>2 DEF Refetch
    <3>2. page' = [page EXCEPT ![p] = IF ~Exists(s) THEN NoPage ELSE kept]
      BY <2>2 DEF Refetch
    <3>3. opened \in BOOLEAN
      OBVIOUS
    <3>4. PageShape(kept)
      <4>. HIDE DEF opened
      <4>. QED BY <3>1, <3>3, PageFields, FormDomain
    <3>. QED BY <3>1, <3>2, <3>4
  <2>3. ASSUME Leave(p)
        PROVE  Same /\ \E after : page' = [page EXCEPT ![p] = after] /\ PageShape(after)
    <3>1. page' = [page EXCEPT ![p] = [g EXCEPT !.open = FALSE]] /\ Same /\ PageShape(g)
      BY <2>3, <1>2 DEF Leave
    <3>2. PageShape([g EXCEPT !.open = FALSE])
      BY <3>1, PageFields, FormDomain
    <3>. QED BY <3>1, <3>2
  <2>4. ASSUME NEW type \in DOMAIN Catalog, SelectType(p, type)
        PROVE  Same /\ \E after : page' = [page EXCEPT ![p] = after] /\ PageShape(after)
    <3>. DEFINE form1 == [type |-> type, params |-> Catalog[type]]
    <3>1. page' = [page EXCEPT ![p] = [g EXCEPT !.form = form1]] /\ Same /\ PageShape(g)
      BY <2>4, <1>2 DEF SelectType
    <3>2. DOMAIN form1 = {"type", "params"}
      OBVIOUS
    <3>3. PageShape([g EXCEPT !.form = form1])
      <4>. HIDE DEF form1
      <4>. QED BY <3>1, <3>2, PageFields
    <3>. QED BY <3>1, <3>3
  <2>5. ASSUME NEW k, NEW value, SetParam(p, k, value)
        PROVE  Same /\ \E after : page' = [page EXCEPT ![p] = after] /\ PageShape(after)
    <3>. DEFINE form1 == [g.form EXCEPT !.params = [g.form.params EXCEPT ![k] = value]]
    <3>1. page' = [page EXCEPT ![p] = [g EXCEPT !.form = form1]] /\ Same /\ PageShape(g)
      BY <2>5, <1>2 DEF SetParam
    <3>2. DOMAIN form1 = {"type", "params"}
      BY <3>1 DEF PageShape
    <3>3. PageShape([g EXCEPT !.form = form1])
      <4>. HIDE DEF form1
      <4>. QED BY <3>1, <3>2, PageFields
    <3>. QED BY <3>1, <3>3
  <2>. QED BY <2>1, <2>2, <2>3, <2>4, <2>5
<1>4. PICK after : page' = [page EXCEPT ![p] = after] /\ (after = NoPage \/ PageShape(after))
  BY <1>3
<1>. QED BY <1>1, <1>3, <1>4 DEF StrategiesIInv, PagesKept

LEMMA SaveInv ==
  ASSUME StrategiesIInv, NEW p \in Pages, Save(p)
  PROVE  Tables' /\ versions \subseteq versions' /\ PagesKept' /\ UNCHANGED <<copying, call>>
<1>. DEFINE g == page[p]
            after == [g EXCEPT !.open = FALSE, !.data = head'[g.of]]
<1>1. /\ g.open /\ Accepted(g.of, g.form, g.data.version) /\ Update(g.of, g.form, g.base)
      /\ page' = [page EXCEPT ![p] = after] /\ UNCHANGED <<copying, call>>
  BY DEF Save
<1>2. PageShape(g) /\ DOMAIN page = Pages /\ g.of \in StrategyIds
  BY <1>1 DEF StrategiesIInv, PagesKept, NoPage, PageShape
<1>3. PageShape(after)
  BY <1>2, PageFields, FormDomain
<1>. HIDE DEF after
<1>4. PagesKept'
  BY <1>1, <1>2, <1>3 DEF StrategiesIInv, PagesKept
<1>5. "kind" \notin DOMAIN g.form
  BY <1>2 DEF PageShape
<1>6. Tables' /\ versions \subseteq versions'
  BY <1>1, <1>2, <1>5, UpdateInv DEF StrategiesIInv
<1>. QED BY <1>1, <1>4, <1>6

LEMMA StrategiesStep ==
  ASSUME StrategiesIInv, StrategiesNext
  PROVE  StrategiesIInv' /\ versions \subseteq versions'
<1>1. ASSUME NEW s \in StrategyIds,
             \/ \E d \in Drafts : Create(s, d)
             \/ \E change \in Changes : UpdateDirectly(s, change)
             \/ \E status \in {"active", "disabled", "deleted"} : SetStatus(s, status)
      PROVE  StrategiesIInv' /\ versions \subseteq versions'
  <2>1. Tables' /\ versions \subseteq versions'
    <3>1. ASSUME NEW d \in Drafts, Create(s, d) PROVE Tables' /\ versions \subseteq versions'
      BY <3>1, CreateInv
    <3>2. ASSUME NEW change \in Changes, UpdateDirectly(s, change)
          PROVE  Tables' /\ versions \subseteq versions'
      <4>1. "kind" \in DOMAIN change => change.kind \in {"builtin", "custom"}
        BY DraftsAssumption
      <4>2. Accepted(s, change, head[s].version) /\ Update(s, change, head[s].version)
        BY <3>2 DEF UpdateDirectly
      <4>. QED BY <4>1, <4>2, UpdateInv DEF StrategiesIInv
    <3>3. ASSUME NEW status \in {"active", "disabled", "deleted"}, SetStatus(s, status)
          PROVE  Tables' /\ versions \subseteq versions'
      BY <3>3, StatusInv
    <3>. QED BY <1>1, <3>1, <3>2, <3>3
  <2>2. UNCHANGED <<copying, call, page>>
    BY <1>1 DEF Create, UpdateDirectly, SetStatus
  <2>. QED BY <2>1, <2>2, ReadersKept DEF StrategiesIInv
<1>2. ASSUME NEW s \in StrategyIds, CopyRead(s)
      PROVE  StrategiesIInv' /\ versions \subseteq versions'
  <2>. DEFINE after == [of |-> s, head |-> head[s]]
  <2>1. copying' = after /\ UNCHANGED <<head, versions, call, page>> /\ head[s] # Absent
    BY <1>2 DEF CopyRead, Exists, Absent
  <2>2. after.of = s /\ after.head = head[s]
    OBVIOUS
  <2>. HIDE DEF after
  <2>3. CopyKept'
    BY <2>1, <2>2 DEF CopyKept, StrategiesIInv, Tables
  <2>4. Tables'
    BY <2>1, TablesStay DEF StrategiesIInv
  <2>. QED BY <2>1, <2>3, <2>4, ReadersKept DEF StrategiesIInv
<1>3. ASSUME NEW s \in StrategyIds, CopyWrite(s)
      PROVE  StrategiesIInv' /\ versions \subseteq versions'
  <2>1. copying' = NoCopy /\ UNCHANGED <<call, page>>
    BY <1>3 DEF CopyWrite
  <2>2. CopyKept'
    BY <2>1 DEF CopyKept, NoCopy
  <2>. QED BY <1>3, <2>1, <2>2, CopyInv, ReadersKept DEF StrategiesIInv
<1>4. ASSUME NEW c \in Calls,
             \/ SandboxEnds(c)
             \/ \E s \in StrategyIds, n \in 1 .. MaxRevisions :
                  RunSignals(c, s, n) \/ RunBacktest(c, s, n)
      PROVE  StrategiesIInv' /\ versions \subseteq versions'
  <2>1. CallsKept' /\ UNCHANGED <<head, versions, copying, page>>
    BY <1>4, CallSteps
  <2>. QED BY <2>1, TablesStay, ReadersKept DEF StrategiesIInv
<1>5. ASSUME NEW p \in Pages,
             \/ \E s \in StrategyIds : OpenPage(p, s)
             \/ Refetch(p) \/ Leave(p)
             \/ \E type \in DOMAIN Catalog : SelectType(p, type)
             \/ \E k, value : SetParam(p, k, value)
      PROVE  StrategiesIInv' /\ versions \subseteq versions'
  <2>1. PagesKept' /\ UNCHANGED <<head, versions, copying, call>>
    BY <1>5, PageSteps
  <2>. QED BY <2>1, TablesStay, ReadersKept DEF StrategiesIInv
<1>6. ASSUME NEW p \in Pages, Save(p) PROVE StrategiesIInv' /\ versions \subseteq versions'
  BY <1>6, SaveInv, ReadersKept DEF StrategiesIInv
<1>. QED BY <1>1, <1>2, <1>3, <1>4, <1>5, <1>6 DEF StrategiesNext

LEMMA StrategiesInitOk == StrategiesInit => StrategiesIInv
<1>. SUFFICES ASSUME StrategiesInit PROVE StrategiesIInv
  OBVIOUS
<1>1. Tables
  BY DEF StrategiesInit, Tables, OneRowEach, VersionsOf
<1>2. CopyKept /\ CallsKept /\ PagesKept
  BY DEF StrategiesInit, CopyKept, CallsKept, PagesKept, NoCall
<1>. QED BY <1>1, <1>2 DEF StrategiesIInv

LEMMA StrategiesStutter ==
  ASSUME StrategiesIInv, UNCHANGED strategies PROVE StrategiesIInv'
BY TablesStay, ReadersKept DEF StrategiesIInv, strategies

LEMMA HeadsAgreeHolds == StrategiesIInv => HeadsAgree
<1>. SUFFICES ASSUME StrategiesIInv PROVE HeadsAgree
  OBVIOUS
<1>1. ASSUME NEW s \in StrategyIds, head[s] # Absent
      PROVE  LET last == Row(s, head[s].version) IN
             /\ {v.version : v \in VersionsOf(s)} = 1 .. head[s].version
             /\ Cardinality(VersionsOf(s)) = head[s].version
             /\ last.sha = head[s].sha /\ last.definition.params = head[s].params
  <2>1. RowFor(versions, s, head[s]) /\ Numbered(s)
    BY <1>1 DEF StrategiesIInv, Tables
  <2>2. PICK v \in versions : /\ v.of = s /\ v.version = head[s].version /\ v.sha = head[s].sha
                              /\ v.definition.params = head[s].params
    BY <2>1 DEF RowFor
  <2>3. Row(s, head[s].version) = v
    BY <2>2, RowIs DEF StrategiesIInv, Tables
  <2>. QED BY <2>1, <2>2, <2>3 DEF Numbered
<1>. QED BY <1>1 DEF HeadsAgree, StrategiesIInv, Tables, RowFine

(* Versions are appended only, heads and readers agree with them, and what  *)
(* was read of a version is what it says for ever (strategy.py).            *)
THEOREM VersionsFaithfulCorrect == StrategiesSpec => VersionsFaithful
<1>. DEFINE Faithful ==
       HeadsAgree /\ \A c \in Calls : call[c].pc # "idle" =>
          \E v \in versions : /\ v.of = call[c].of /\ v.version = call[c].version
                              /\ v.sha = call[c].sha /\ v.definition = call[c].definition
<1>1. StrategiesInit => StrategiesIInv
  BY StrategiesInitOk
<1>2. StrategiesIInv /\ [StrategiesNext]_strategies => StrategiesIInv'
  BY StrategiesStep, StrategiesStutter
<1>3. StrategiesIInv => Faithful
  <2>1. StrategiesIInv => \A c \in Calls : call[c].pc # "idle" => Known(versions, call[c])
    BY DEF StrategiesIInv, CallsKept
  <2>. QED BY <2>1, HeadsAgreeHolds DEF Known
<1>4. StrategiesIInv /\ [StrategiesNext]_strategies => [versions \subseteq versions']_strategies
  BY StrategiesStep
<1>. QED BY <1>1, <1>2, <1>3, <1>4, PTL DEF StrategiesSpec, VersionsFaithful
-----------------------------------------------------------------------------
(* What a form that is bound to a strategy shows is what the row says that  *)
(* the list named; and what a run was sent for is what that row says.       *)
FormShape ==
  form = [chosen |-> form.chosen, type |-> form.type, params |-> form.params,
          grid |-> form.grid, candidates |-> form.candidates]

Listed == \A s \in StrategyIds : saved[s] # Absent => RowFor(versions, s, saved[s])

BoundTo(s) ==
  /\ s \in StrategyIds /\ saved[s] # Absent /\ saved[s].kind = "builtin"
  /\ form.type = saved[s].type /\ form.params = saved[s].params

SentFor(vs, r) ==
  IF r.of = "none" THEN r.shown = [type |-> r.type, params |-> Filled(r.type, r.params)]
  ELSE \E v \in vs : /\ v.of = r.of /\ v.version = r.version
                     /\ r.shown = [type |-> v.definition.type, params |-> v.definition.params]

SearchOk ==
  /\ \/ search = NoSearch
     \/ "pc" \in DOMAIN search /\ search.pc \in {"posting", "sleeping", "polling"}
     \/ search.pc = "idle" /\ (~search.lost => job.cancel \/ job.status # "active")
  /\ job = [status |-> job.status, cancel |-> job.cancel] /\ job.cancel \in BOOLEAN

BenchIInv ==
  /\ Listed /\ FormShape /\ (form.chosen = "none" \/ BoundTo(form.chosen))
  /\ run.pc = "sent" => SentFor(versions, run)
  /\ report.known => report.computed = report.shown
  /\ SearchOk
-----------------------------------------------------------------------------
LEMMA BenchRowsStay ==
  ASSUME BenchIInv, versions \subseteq versions', UNCHANGED bench
  PROVE  BenchIInv'
<1>1. UNCHANGED <<saved, form, run, report, search, job>>
  BY DEF bench
<1>2. Listed'
  BY <1>1, RowsStay DEF BenchIInv, Listed
<1>3. run.pc = "sent" => SentFor(versions', run)
  BY DEF BenchIInv, SentFor
<1>. QED BY <1>1, <1>2, <1>3 DEF BenchIInv, FormShape, BoundTo, SearchOk

LEMMA FreedFields ==
  ASSUME NEW g, NEW t, NEW m, NEW q,
         g = [chosen |-> g.chosen, type |-> g.type, params |-> g.params, grid |-> g.grid,
              candidates |-> g.candidates]
  PROVE  /\ [g EXCEPT !.chosen = "none"]
              = [chosen |-> "none", type |-> g.type, params |-> g.params, grid |-> g.grid,
                 candidates |-> g.candidates]
         /\ [g EXCEPT !.chosen = "none", !.params = m]
              = [chosen |-> "none", type |-> g.type, params |-> m, grid |-> g.grid,
                 candidates |-> g.candidates]
         /\ [g EXCEPT !.chosen = "none", !.type = t, !.params = m]
              = [chosen |-> "none", type |-> t, params |-> m, grid |-> g.grid,
                 candidates |-> g.candidates]
         /\ [g EXCEPT !.chosen = "none", !.params = m, !.grid = q]
              = [chosen |-> "none", type |-> g.type, params |-> m, grid |-> q,
                 candidates |-> g.candidates]
<1>. DEFINE A(x, y, z) == [chosen |-> "none", type |-> x, params |-> y, grid |-> z,
                           candidates |-> g.candidates]
<1>1. [g EXCEPT !.chosen = "none"] = A(g.type, g.params, g.grid)
  OBVIOUS
<1>2. ASSUME NEW x, x = A(g.type, g.params, g.grid)
      PROVE  /\ [x EXCEPT !.params = m] = A(g.type, m, g.grid)
             /\ [x EXCEPT !.type = t] = A(t, g.params, g.grid)
  BY <1>2
<1>3. ASSUME NEW x, x = A(t, g.params, g.grid) PROVE [x EXCEPT !.params = m] = A(t, m, g.grid)
  BY <1>3
<1>4. ASSUME NEW x, x = A(g.type, m, g.grid) PROVE [x EXCEPT !.grid = q] = A(g.type, m, q)
  BY <1>4
<1>. HIDE DEF A
<1>5. [g EXCEPT !.chosen = "none", !.params = m] = A(g.type, m, g.grid)
  BY <1>1, <1>2, Zenon
<1>6. [g EXCEPT !.chosen = "none", !.type = t] = A(t, g.params, g.grid)
  BY <1>1, <1>2, Zenon
<1>7. [g EXCEPT !.chosen = "none", !.type = t, !.params = m] = A(t, m, g.grid)
  BY <1>3, <1>6, Zenon
<1>8. [g EXCEPT !.chosen = "none", !.params = m, !.grid = q] = A(g.type, m, q)
  BY <1>4, <1>5, Zenon
<1>. QED BY <1>1, <1>5, <1>7, <1>8, Zenon DEF A

LEMMA FormSteps ==
  ASSUME StrategiesIInv, BenchIInv, UNCHANGED strategies,
         \/ LoadSaved \/ ChooseNone \/ ToggleGrid
         \/ \E s \in StrategyIds : ChooseSaved(s)
         \/ \E type \in DOMAIN Catalog : ChooseType(type)
         \/ \E k, value : EditParam(k, value) \/ EditCandidates(k, value)
         \/ \E row : ApplyRow(row)
  PROVE  BenchIInv'
<1>0. UNCHANGED <<head, versions>>
  BY DEF strategies
<1>1. CASE LoadSaved
  <2>1. /\ \A s \in StrategyIds : saved[s] = Absent
        /\ saved' = [s \in StrategyIds |-> IF Exists(s) THEN head[s] ELSE Absent]
        /\ UNCHANGED <<form, run, report, search, job>>
    BY <1>1 DEF LoadSaved
  <2>2. form.chosen = "none"
    BY <2>1 DEF BoundTo, BenchIInv
  <2>3. ASSUME NEW s \in StrategyIds, saved'[s] # Absent PROVE RowFor(versions', s, saved'[s])
    <3>1. saved'[s] = head[s] /\ head[s] # Absent
      BY <2>1, <2>3 DEF Exists
    <3>. QED BY <1>0, <3>1 DEF StrategiesIInv, Tables
  <2>4. Listed'
    BY <2>3 DEF Listed
  <2>. QED BY <1>0, <2>1, <2>2, <2>4 DEF BenchIInv, FormShape, SearchOk
<1>2. ASSUME NEW f, form' = f, UNCHANGED <<saved, run, report, search, job>>,
             f = [chosen |-> f.chosen, type |-> f.type, params |-> f.params, grid |-> f.grid,
                  candidates |-> f.candidates],
             \/ f.chosen = "none"
             \/ f.chosen = form.chosen /\ f.type = form.type /\ f.params = form.params
             \/ /\ f.chosen \in StrategyIds /\ saved[f.chosen] # Absent
                /\ saved[f.chosen].kind = "builtin" /\ f.type = saved[f.chosen].type
                /\ f.params = saved[f.chosen].params
      PROVE  BenchIInv'
  <2>1. Listed' /\ FormShape' /\ SearchOk'
    BY <1>0, <1>2 DEF BenchIInv, Listed, FormShape, SearchOk
  <2>2. form'.chosen = "none" \/ BoundTo(form.chosen)'
    BY <1>2 DEF BenchIInv, BoundTo
  <2>. QED BY <1>0, <1>2, <2>1, <2>2 DEF BenchIInv
<1>3. form = [chosen |-> form.chosen, type |-> form.type, params |-> form.params,
              grid |-> form.grid, candidates |-> form.candidates]
  BY DEF BenchIInv, FormShape
<1>4. ASSUME NEW s \in StrategyIds, ChooseSaved(s) PROVE BenchIInv'
  <2>. DEFINE f == [chosen |-> s, type |-> saved[s].type, params |-> saved[s].params,
                    grid |-> FALSE, candidates |-> form.candidates]
  <2>1. form' = f /\ UNCHANGED <<saved, run, report, search, job>>
    BY <1>3, <1>4 DEF ChooseSaved
  <2>2. saved[s] # Absent /\ saved[s].kind = "builtin"
    BY <1>4 DEF ChooseSaved
  <2>. QED BY <1>2, <2>1, <2>2
<1>5. ASSUME ToggleGrid PROVE BenchIInv'
  <2>. DEFINE f == [chosen |-> form.chosen, type |-> form.type, params |-> form.params,
                    grid |-> ~form.grid, candidates |-> form.candidates]
  <2>1. form' = f /\ UNCHANGED <<saved, run, report, search, job>>
    BY <1>3, <1>5 DEF ToggleGrid
  <2>. QED BY <1>2, <2>1
<1>6. ASSUME NEW k, NEW values, EditCandidates(k, values) PROVE BenchIInv'
  <2>. DEFINE new == Updated(form.candidates, [x \in {k} |-> values])
              f == [chosen |-> form.chosen, type |-> form.type, params |-> form.params,
                    grid |-> form.grid, candidates |-> new]
  <2>1. form' = f /\ UNCHANGED <<saved, run, report, search, job>>
    <3>1. form' = [form EXCEPT !.candidates = new] /\ UNCHANGED <<saved, run, report, search, job>>
      BY <1>6 DEF EditCandidates
    <3>. HIDE DEF new
    <3>. QED BY <1>3, <3>1
  <2>. HIDE DEF new
  <2>. QED BY <1>2, <2>1
<1>7. ASSUME \/ ChooseNone
             \/ \E type \in DOMAIN Catalog : ChooseType(type)
             \/ \E k, value : EditParam(k, value)
             \/ \E row : ApplyRow(row)
      PROVE  BenchIInv'
  <2>. DEFINE Free(t, m, q) == [chosen |-> "none", type |-> t, params |-> m, grid |-> q,
                                candidates |-> form.candidates]
  <2>1. /\ UNCHANGED <<saved, run, report, search, job>>
        /\ \E t, m, q : form' = Free(t, m, q)
    <3>1. CASE ChooseNone
      <4>1. form' = [form EXCEPT !.chosen = "none"] /\ UNCHANGED <<saved, run, report, search, job>>
        BY <3>1 DEF ChooseNone
      <4>2. form' = Free(form.type, form.params, form.grid)
        BY <1>3, <4>1, FreedFields, Zenon
      <4>. QED BY <4>1, <4>2, Zenon
    <3>2. CASE \E type \in DOMAIN Catalog : ChooseType(type)
      <4>1. PICK t, m : form' = [form EXCEPT !.chosen = "none", !.type = t, !.params = m]
        BY <3>2, Zenon DEF ChooseType
      <4>2. form' = Free(t, m, form.grid)
        BY <1>3, <4>1, FreedFields, Zenon
      <4>3. UNCHANGED <<saved, run, report, search, job>>
        BY <3>2 DEF ChooseType
      <4>. QED BY <4>2, <4>3, Zenon
    <3>3. CASE \E k, value : EditParam(k, value)
      <4>1. PICK m : form' = [form EXCEPT !.chosen = "none", !.params = m]
        BY <3>3, Zenon DEF EditParam, Edited
      <4>2. form' = Free(form.type, m, form.grid)
        BY <1>3, <4>1, FreedFields, Zenon
      <4>3. UNCHANGED <<saved, run, report, search, job>>
        BY <3>3 DEF EditParam
      <4>. QED BY <4>2, <4>3, Zenon
    <3>4. CASE \E row : ApplyRow(row)
      <4>1. PICK m : form' = [form EXCEPT !.chosen = "none", !.params = m, !.grid = FALSE]
        BY <3>4, Zenon DEF ApplyRow
      <4>2. form' = Free(form.type, m, FALSE)
        BY <1>3, <4>1, FreedFields, Zenon
      <4>3. UNCHANGED <<saved, run, report, search, job>>
        BY <3>4 DEF ApplyRow
      <4>. QED BY <4>2, <4>3, Zenon
    <3>. QED BY <1>7, <3>1, <3>2, <3>3, <3>4
  <2>2. PICK t, m, q : form' = Free(t, m, q)
    BY <2>1
  <2>. QED BY <1>2, <2>1, <2>2
<1>8. ASSUME NEW k, NEW value, EditParam(k, value) \/ EditCandidates(k, value) PROVE BenchIInv'
  BY <1>6, <1>7, <1>8
<1>. QED BY <1>1, <1>4, <1>5, <1>7, <1>8

(* A form that is bound shows what its row says, defaults included. *)
LEMMA BoundShows ==
  ASSUME StrategiesIInv, BenchIInv, form.chosen # "none"
  PROVE  \E v \in versions : /\ v.of = form.chosen /\ v.version = saved[form.chosen].version
                             /\ Shown = [type |-> v.definition.type, params |-> v.definition.params]
<1>. DEFINE s == form.chosen
<1>1. BoundTo(s) /\ RowFor(versions, s, saved[s])
  BY DEF BenchIInv, Listed, BoundTo
<1>2. PICK v \in versions : /\ v.of = s /\ v.version = saved[s].version
                            /\ v.definition.kind = saved[s].kind
                            /\ v.definition.type = saved[s].type
                            /\ v.definition.params = saved[s].params
  BY <1>1 DEF RowFor
<1>. DEFINE d == v.definition
<1>3. d.kind = "builtin" /\ d.type = form.type /\ d.params = form.params
  BY <1>1, <1>2 DEF BoundTo
<1>4. Shaped(d) /\ Normal(d) = d
  BY DEF StrategiesIInv, Tables, RowFine
<1>5. Normal(d) = [d EXCEPT !.params = Filled(d.type, d.params)]
  BY <1>3 DEF Normal
<1>6. Filled(d.type, d.params) = d.params
  BY <1>4, <1>5 DEF Shaped
<1>7. Shown = [type |-> d.type, params |-> d.params]
  BY <1>3, <1>6 DEF Shown
<1>. QED BY <1>2, <1>7

LEMMA RunSteps ==
  ASSUME StrategiesIInv, BenchIInv, UNCHANGED strategies, Run \/ RunAnswered
  PROVE  BenchIInv'
<1>0. UNCHANGED versions
  BY DEF strategies
<1>1. ASSUME Run PROVE BenchIInv'
  <2>. DEFINE named == IF form.chosen = "none" THEN 0 ELSE saved[form.chosen].version
              sent == [pc |-> "sent", shown |-> Shown, type |-> form.type, params |-> form.params,
                       of |-> form.chosen, version |-> named]
  <2>1. run' = sent /\ UNCHANGED <<saved, form, report, search, job>>
    BY <1>1 DEF Run
  <2>2. SentFor(versions, sent)
    <3>1. CASE form.chosen = "none"
      BY <3>1 DEF SentFor, Shown
    <3>2. CASE form.chosen # "none"
      BY <3>2, BoundShows DEF SentFor
    <3>. QED BY <3>1, <3>2
  <2>. HIDE DEF sent
  <2>. QED BY <1>0, <2>1, <2>2 DEF BenchIInv, Listed, FormShape, BoundTo, SearchOk
<1>2. ASSUME RunAnswered PROVE BenchIInv'
  <2>1. run.pc = "sent" /\ run'.pc = "idle" /\ UNCHANGED <<saved, form, search, job>>
    BY <1>2 DEF RunAnswered
  <2>2. Computed = run.shown
    <3>1. SentFor(versions, run)
      BY <2>1 DEF BenchIInv
    <3>2. CASE run.of = "none"
      BY <3>1, <3>2 DEF SentFor, Computed, Versioned
    <3>3. CASE run.of # "none"
      <4>1. PICK v \in versions : /\ v.of = run.of /\ v.version = run.version
                                  /\ run.shown = [type |-> v.definition.type,
                                                  params |-> v.definition.params]
        BY <3>1, <3>3 DEF SentFor
      <4>2. Row(run.of, run.version) = v
        BY <4>1, RowIs DEF StrategiesIInv, Tables
      <4>. QED BY <3>3, <4>1, <4>2 DEF Computed, Versioned
    <3>. QED BY <3>2, <3>3
  <2>3. report' = [known |-> TRUE, shown |-> run.shown, computed |-> Computed] \/ UNCHANGED report
    BY <1>2 DEF RunAnswered
  <2>4. report'.known => report'.computed = report'.shown
    BY <2>2, <2>3 DEF BenchIInv
  <2>. QED BY <1>0, <2>1, <2>4 DEF BenchIInv, Listed, FormShape, BoundTo, SearchOk
<1>. QED BY <1>1, <1>2

LEMMA SearchSteps ==
  ASSUME BenchIInv, UNCHANGED strategies,
         \/ StartGrid \/ Posted \/ JobEnds \/ CancelGrid \/ CancelAsked
         \/ Poll \/ Polled \/ StopPolling
  PROVE  BenchIInv'
<1>1. UNCHANGED <<versions, saved, form, run, report>>
  BY DEF strategies, StartGrid, Posted, JobEnds, CancelGrid, CancelAsked, Poll, Polled, StopPolling
<1>. DEFINE busy == {"posting", "sleeping", "polling"}
<1>2. SearchOk
  BY DEF BenchIInv
<1>3. job = [status |-> job.status, cancel |-> job.cancel] /\ job.cancel \in BOOLEAN
  BY <1>2 DEF SearchOk
<1>4. search # NoSearch /\ search.pc # "idle" => search.pc \in busy /\ "pc" \in DOMAIN search
  BY <1>2 DEF SearchOk
<1>5. NoSearch.pc = "idle"
  BY DEF NoSearch
<1>6. SearchOk'
  <2>1. CASE StartGrid
    BY <1>2, <2>1 DEF StartGrid, SearchOk
  <2>2. CASE Posted
    <3>1. "pc" \in DOMAIN search
      BY <1>4, <1>5, <2>2 DEF Posted
    <3>2. \/ search'.pc \in busy /\ "pc" \in DOMAIN search'
          \/ search' = NoSearch
      BY <3>1, <2>2 DEF Posted
    <3>3. job' = job \/ job' = [status |-> "active", cancel |-> FALSE]
      BY <2>2 DEF Posted
    <3>4. job' = [status |-> job'.status, cancel |-> job'.cancel] /\ job'.cancel \in BOOLEAN
      <4>1. CASE job' = job
        BY <1>3, <4>1
      <4>2. CASE job' = [status |-> "active", cancel |-> FALSE]
        BY <4>2
      <4>. QED BY <3>3, <4>1, <4>2
    <3>. QED BY <3>2, <3>4 DEF SearchOk
  <2>3. CASE JobEnds
    <3>1. \E x : x # "active" /\ job' = [job EXCEPT !.status = x]
      BY <2>3 DEF JobEnds
    <3>2. search' = search /\ job.cancel \in BOOLEAN
      BY <1>3, <2>3 DEF JobEnds
    <3>3. PICK x, b : x # "active" /\ b \in BOOLEAN /\ job' = [status |-> x, cancel |-> b]
      BY <1>3, <3>1
    <3>4. job' = [status |-> job'.status, cancel |-> job'.cancel] /\ job'.cancel \in BOOLEAN
          /\ job'.status # "active"
      BY <3>3
    <3>5. \/ search = NoSearch
          \/ "pc" \in DOMAIN search /\ search.pc \in busy
          \/ search.pc = "idle"
      BY <1>2 DEF SearchOk
    <3>. QED BY <3>2, <3>4, <3>5 DEF SearchOk
  <2>4. CASE CancelGrid
    BY <1>2, <1>3, <1>4, <1>5, <2>4 DEF CancelGrid, SearchOk
  <2>5. CASE CancelAsked
    <3>1. search.pc \in busy /\ "pc" \in DOMAIN search
      BY <1>4, <1>5, <2>5 DEF CancelAsked
    <3>2. search'.pc \in busy /\ "pc" \in DOMAIN search'
      BY <3>1, <2>5 DEF CancelAsked
    <3>. QED BY <1>3, <3>2, <2>5 DEF CancelAsked, Cancelled, SearchOk
  <2>6. CASE Poll
    BY <1>2, <1>3, <1>4, <1>5, <2>6 DEF Poll, SearchOk
  <2>7. CASE Polled
    <3>1. search.pc \in busy /\ "pc" \in DOMAIN search /\ job' = job
      BY <1>4, <1>5, <2>7 DEF Polled
    <3>2. search' = NoSearch \/ (search'.pc \in busy /\ "pc" \in DOMAIN search')
      BY <3>1, <2>7 DEF Polled
    <3>. QED BY <1>3, <3>1, <3>2 DEF SearchOk
  <2>8. CASE StopPolling
    <3>1. search'.pc = "idle" /\ (~search'.lost => job' = Cancelled)
          /\ (job' = Cancelled \/ job' = job)
      BY <2>8 DEF StopPolling
    <3>2. Cancelled.cancel \/ Cancelled.status # "active"
      BY <1>3 DEF Cancelled
    <3>3. job' = [status |-> job'.status, cancel |-> job'.cancel] /\ job'.cancel \in BOOLEAN
      <4>. PICK a, b : b \in BOOLEAN /\ job = [status |-> a, cancel |-> b]
        BY <1>3
      <4>. DEFINE c == b \/ a = "active"
      <4>1. Cancelled = [status |-> a, cancel |-> c]
        BY DEF Cancelled
      <4>2. c \in BOOLEAN
        OBVIOUS
      <4>. HIDE DEF c
      <4>3. Cancelled = [status |-> Cancelled.status, cancel |-> Cancelled.cancel]
            /\ Cancelled.cancel \in BOOLEAN
        BY <4>1, <4>2
      <4>. QED BY <1>3, <3>1, <4>3
    <3>. QED BY <3>1, <3>2, <3>3 DEF SearchOk
  <2>. QED BY <2>1, <2>2, <2>3, <2>4, <2>5, <2>6, <2>7, <2>8
<1>. QED BY <1>1, <1>6 DEF BenchIInv, Listed, FormShape, BoundTo

LEMMA BenchStep ==
  ASSUME StrategiesIInv, BenchIInv, BenchNext, UNCHANGED strategies
  PROVE  BenchIInv'
BY FormSteps, RunSteps, SearchSteps DEF BenchNext

LEMMA BenchInitOk == BenchInit => BenchIInv
BY DEF BenchInit, BenchIInv, Listed, FormShape, SearchOk, NoReport, NoSearch, NoJob, Absent

(* A report was computed with what the form showed when it was asked for,   *)
(* and a search that was stopped leaves no job that goes on, unless the     *)
(* request to cancel it got lost (the page of backtests).                   *)
THEOREM RunsWhatIsShownCorrect == BenchSpec => []RunsWhatIsShown
<1>. DEFINE IInv1 == StrategiesIInv /\ BenchIInv
<1>1. StrategiesInit /\ BenchInit => IInv1
  BY StrategiesInitOk, BenchInitOk
<1>2. IInv1 /\ [PageNext]_<<strategies, bench>> => IInv1'
  <2>1. ASSUME IInv1, StrategiesNext, UNCHANGED bench PROVE IInv1'
    BY <2>1, StrategiesStep, BenchRowsStay
  <2>2. ASSUME IInv1, BenchNext, UNCHANGED strategies PROVE IInv1'
    BY <2>2, StrategiesStutter, BenchStep
  <2>3. ASSUME IInv1, UNCHANGED <<strategies, bench>> PROVE IInv1'
    <3>1. UNCHANGED strategies /\ UNCHANGED bench /\ versions' = versions
      BY <2>3 DEF strategies
    <3>. QED BY <2>3, <3>1, StrategiesStutter, BenchRowsStay
  <2>. QED BY <2>1, <2>2, <2>3 DEF PageNext
<1>3. IInv1 => RunsWhatIsShown
  <2>1. SearchOk => (search.pc = "idle" /\ search # NoSearch /\ ~search.lost
                       => job.cancel \/ job.status # "active")
    BY DEF SearchOk
  <2>. QED BY <2>1 DEF BenchIInv, RunsWhatIsShown
<1>. QED BY <1>1, <1>2, <1>3, PTL DEF BenchSpec
=============================================================================
