------------------------------- MODULE StepUp -------------------------------
(***************************************************************************)
(* Step-up authentication of one user, services/step_up.py: a second       *)
(* factor, recovery codes, and grants that name a purpose.  It implements  *)
(* GrantContract.                                                          *)
(*                                                                         *)
(* Each call takes the lock of the user's row first, so each transaction   *)
(* is one action; a call that raises changes nothing.  Time goes in steps  *)
(* of thirty seconds, the period of a code, and a code is the period it    *)
(* belongs to; codes of other secrets, and random ones, are "wrong".  The  *)
(* lock and the life of a grant, fifteen and five minutes, are constants.  *)
(* The password is right or wrong.                                         *)
(*                                                                         *)
(* OldCounters, CountsOn and IgnoresVersion are faulty variants of the     *)
(* definition after each; the specification does not use them.             *)
(***************************************************************************)
EXTENDS Integers, Sequences, FiniteSets

CONSTANTS
  Grants, Purposes,
  MaxFailures,   \* failed attempts before the lock; 5 in the code
  LockTime,      \* periods the lock lasts
  GrantTime,     \* periods a grant lasts
  MaxTime,       \* bound: periods that pass
  MaxVersion,    \* bound: changes of the token version
  MaxSecrets     \* bound: secrets

ASSUME LockAssumption == MaxFailures \in Nat \ {0} /\ LockTime \in Nat

VARIABLES
  now,
  version,     \* users.token_version
  factor,      \* table user_totp_factors: state, secret, last counter
  recovery,    \* a recovery code of the factor is unused
  throttle,    \* table step_up_throttles
  rows,        \* table step_up_grants, with the token that was handed out
  accepted,    \* the codes that passed, in order
  failures     \* the periods of the failed attempts since the last success, in order

vars == <<now, version, factor, recovery, throttle, rows, accepted, failures>>

NoFactor == [state |-> "none", secret |-> 0, last |-> -1]
NoGrant  == [state |-> "none", purpose |-> "none", version |-> 0, until |-> 0]
Wrong    == -2   \* a code of another secret or time
Recovery == -3   \* a recovery code, among the codes that passed
-----------------------------------------------------------------------------
Init ==
  /\ now = 0 /\ version = 0
  /\ factor = NoFactor /\ recovery = FALSE
  /\ throttle = [failed |-> 0, until |-> 0]
  /\ rows = [g \in Grants |-> NoGrant]
  /\ accepted = <<>>
  /\ failures = <<>>

Codes == now - 1 .. now + 1 \cup {Wrong}

NotLocked == throttle.until <= now

CountsOn(t) == [failed |-> t.failed + 1, until |-> IF t.failed + 1 = MaxFailures THEN now + 1 ELSE t.until]
Failed(t) == IF t.failed + 1 >= MaxFailures
             THEN [failed |-> 0, until |-> now + LockTime]
             ELSE [t EXCEPT !.failed = @ + 1]

Failure ==
  /\ throttle' = Failed(throttle)
  /\ failures' = Append(failures, now)
  /\ UNCHANGED <<now, version, factor, recovery, rows, accepted>>

Success ==
  /\ throttle' = [failed |-> 0, until |-> 0]
  /\ failures' = <<>>

(* _matching_counter *)
OldCounters(c) == c \in now - 1 .. now + 1
Matches(c) == c \in now - 1 .. now + 1 /\ c > factor.last

Accept(code) == accepted' = Append(accepted, <<factor.secret, code>>)
-----------------------------------------------------------------------------
Enroll(password) ==
  /\ NotLocked
  /\ \/ ~password /\ Failure
     \/ /\ password /\ factor.state # "enabled" /\ factor.secret < MaxSecrets
        /\ factor' = [state |-> "pending", secret |-> factor.secret + 1, last |-> -1]
        /\ recovery' = TRUE /\ Success
        /\ UNCHANGED <<now, version, rows, accepted>>

Confirm(code) ==
  /\ NotLocked /\ factor.state = "pending"
  /\ \/ ~Matches(code) /\ Failure
     \/ /\ Matches(code) /\ Success /\ Accept(code)
        /\ factor' = [factor EXCEPT !.state = "enabled", !.last = code]
        /\ UNCHANGED <<now, version, recovery, rows>>

Issue(g, p) ==
  /\ rows[g] = NoGrant
  /\ rows' = [rows EXCEPT ![g] = [state |-> "issued", purpose |-> p, version |-> version,
                                  until |-> now + GrantTime]]

CreateGrant(g, p, password, code) ==
  /\ NotLocked /\ factor.state = "enabled"
  /\ \/ ~(password /\ Matches(code)) /\ Failure
     \/ /\ password /\ Matches(code) /\ Issue(g, p) /\ Success /\ Accept(code)
        /\ factor' = [factor EXCEPT !.last = code]
        /\ UNCHANGED <<now, version, recovery>>

(* A recovery code only resets the factor, or deletes the account. *)
RecoverGrant(g, password) ==
  /\ NotLocked /\ factor.state = "enabled"
  /\ \/ ~(password /\ recovery) /\ Failure
     \/ /\ password /\ recovery /\ Issue(g, "reset_totp") /\ Success /\ Accept(Recovery)
        /\ recovery' = FALSE
        /\ UNCHANGED <<now, version, factor>>

(* consume: the token carries the version it was made for. *)
IgnoresVersion(g, p) == /\ rows[g].state = "issued" /\ rows[g].purpose = p /\ rows[g].until > now
Valid(g, p) == /\ rows[g].state = "issued" /\ rows[g].purpose = p
               /\ rows[g].version = version /\ rows[g].until > now

Consume(g, p) ==
  /\ p # "reset_totp" /\ Valid(g, p)
  /\ rows' = [rows EXCEPT ![g].state = "consumed"]
  /\ UNCHANGED <<now, version, factor, recovery, throttle, accepted, failures>>

ResetFactor(g) ==
  /\ Valid(g, "reset_totp") /\ version < MaxVersion
  /\ rows' = [h \in Grants |-> IF h = g THEN [rows[h] EXCEPT !.state = "consumed"]
                               ELSE IF rows[h].state = "issued"
                                    THEN [rows[h] EXCEPT !.state = "deleted"] ELSE rows[h]]
  /\ factor' = [NoFactor EXCEPT !.secret = factor.secret] /\ recovery' = FALSE
  /\ version' = version + 1
  /\ UNCHANGED <<now, throttle, accepted, failures>>

(* Logging out and refreshing tokens, services/auth.py *)
ChangeVersion ==
  /\ version < MaxVersion /\ version' = version + 1
  /\ UNCHANGED <<now, factor, recovery, throttle, rows, accepted, failures>>

Tick ==
  /\ now < MaxTime /\ now' = now + 1
  /\ UNCHANGED <<version, factor, recovery, throttle, rows, accepted, failures>>

Next ==
  \/ \E password \in BOOLEAN :
       \/ Enroll(password)
       \/ \E g \in Grants : RecoverGrant(g, password)
       \/ \E g \in Grants, p \in Purposes, code \in Codes :
            CreateGrant(g, p, password, code)
  \/ \E code \in Codes : Confirm(code)
  \/ \E g \in Grants : ResetFactor(g) \/ \E p \in Purposes : Consume(g, p)
  \/ ChangeVersion \/ Tick

Spec == Init /\ [][Next]_vars
-----------------------------------------------------------------------------
(* A code or a recovery code passes once: not twice in its window of three *)
(* periods, not in two calls, not after the factor was enrolled again      *)
(* (_matching_counter, create_grant).                                      *)
OneUsePerCode == Cardinality({accepted[i] : i \in DOMAIN accepted}) = Len(accepted)

(* No more than MaxFailures attempts fail in any LockTime periods between  *)
(* two successes: the next one comes at least LockTime after the first of  *)
(* them (_failure, _check_lock).                                           *)
GuessesBounded ==
  \A i \in 1 .. Len(failures) - MaxFailures :
    failures[i + MaxFailures] >= failures[i] + LockTime

(* Every grant is used at most once, for its purpose, and not after it     *)
(* lapsed.                                                                 *)
Seen(g) ==
  CASE rows[g].state = "issued" /\ rows[g].version = version /\ rows[g].until > now
         -> [state |-> "issued", purpose |-> rows[g].purpose]
    [] rows[g].state \in {"none", "consumed"} -> [state |-> rows[g].state, purpose |-> "none"]
    [] OTHER -> [state |-> "lapsed", purpose |-> "none"]

Contract == INSTANCE GrantContract WITH grant <- [g \in Grants |-> Seen(g)]
GrantsKept == Contract!Spec
=============================================================================
