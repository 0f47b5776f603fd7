------------------------ MODULE DecisionNotifications ------------------------
(***************************************************************************)
(* The outbox of services/decision_notifications.py: an alarm is stored    *)
(* once, then pushed to the user's WebSocket and posted to Feishu, by the  *)
(* request that raised it and by the retry job of the scheduler.           *)
(*                                                                         *)
(* Each transaction and each call to the outside is one action.  A         *)
(* delivery holds a token, a lease of five minutes, while it calls out; it *)
(* writes the outcome back only if the token is still its own.  A call may *)
(* reach the user and still be reported as failed.                         *)
(*                                                                         *)
(* delivery_started_at is one bit (fresh), feishu_next_attempt_at another  *)
(* (due), a uuid is a token that nobody holds; payloads, the limit of a    *)
(* retry pass, the length of the backoff and deployments without Feishu    *)
(* are left out.                                                           *)
(*                                                                         *)
(* HeldByNobody is a faulty variant of the definition after it; the        *)
(* specification does not use it.                                          *)
(***************************************************************************)
EXTENDS Naturals, FiniteSets

CONSTANTS
  Alarms,      \* (user, event type, resource), unique in the table
  Requests,    \* threads that raise alarms and deliver them at once
  Jobs,        \* threads of the retry job: one per scheduler that runs
  Tokens,      \* delivery tokens: enough that one is always unused
  MaxFaults    \* bound: crashes, outlived leases and lost answers

Processes == Requests \cup Jobs

VARIABLES
  notes,    \* table decision_notifications
  process,  \* the local state of each process
  sent,     \* how often each channel accepted each alarm
  faults

vars == <<notes, process, sent, faults>>

None     == "none"
Channels == {"ws", "feishu"}
Final    == [ws |-> "published", feishu |-> "sent"]

NoNote == [stored |-> FALSE, status |-> [ch \in Channels |-> "pending"],
           token |-> None, fresh |-> FALSE, due |-> TRUE]
Idle   == [pc |-> "idle", listed |-> {}, note |-> None, token |-> None,
           sends |-> {}, outcome |-> [ch \in Channels |-> "pending"]]

Note(p) == notes[process[p].note]
SetNote(a, note) == notes' = [notes EXCEPT ![a] = note]

(* Go on with the next listed alarm, or end. *)
Ended(p) == [Idle EXCEPT !.pc = IF process[p].listed = {} THEN "idle" ELSE "next",
                         !.listed = process[p].listed]

Fault == faults < MaxFaults /\ faults' = faults + 1
-----------------------------------------------------------------------------
Init ==
  /\ notes = [a \in Alarms |-> NoNote]
  /\ process = [p \in Processes |-> Idle]
  /\ sent = [a \in Alarms |-> [ch \in Channels |-> 0]]
  /\ faults = 0

(* emit stores the alarm, or finds it stored, and delivers it. *)
Emit(p, a) ==
  /\ p \in Requests /\ process[p].pc = "idle"
  /\ SetNote(a, [notes[a] EXCEPT !.stored = TRUE])
  /\ process' = [process EXCEPT ![p] = [Idle EXCEPT !.pc = "take", !.note = a]]
  /\ UNCHANGED <<sent, faults>>

(* What is still to send on a stored alarm, and when it may be taken. *)
ToSend(a) == {ch \in Channels : /\ notes[a].status[ch] = "pending"
                                /\ ch = "feishu" => notes[a].due}
HeldByNobody(a) == notes[a].token = None
Free(a) == notes[a].token = None \/ ~notes[a].fresh

(* retry_pending lists the alarms that may be delivered ... *)
RetryPending(p) ==
  /\ p \in Jobs /\ process[p].pc = "idle"
  /\ LET listed == {a \in Alarms : notes[a].stored /\ ToSend(a) # {} /\ Free(a)}
     IN  /\ listed # {}
         /\ process' = [process EXCEPT ![p] = [Idle EXCEPT !.pc = "next", !.listed = listed]]
  /\ UNCHANGED <<notes, sent, faults>>

(* ... and delivers them one by one. *)
DeliverNext(p, a) ==
  /\ process[p].pc = "next" /\ a \in process[p].listed
  /\ process' = [process EXCEPT ![p].pc = "take", ![p].note = a,
                                ![p].listed = @ \ {a}]
  /\ UNCHANGED <<notes, sent, faults>>

Unused == {t \in Tokens : /\ \A a \in Alarms : notes[a].token # t
                          /\ \A p \in Processes : process[p].token # t}

(* _deliver: take the lease, unless another holds it or nothing is due.    *)
MayTake(p) == Free(process[p].note) /\ ToSend(process[p].note) # {}

Take(p) ==
  /\ process[p].pc = "take"
  /\ IF MayTake(p)
     THEN /\ Unused # {}
          /\ LET token == CHOOSE t \in Unused : TRUE
             IN  /\ SetNote(process[p].note, [Note(p) EXCEPT !.token = token, !.fresh = TRUE])
                 /\ process' = [process EXCEPT ![p] =
                                  [@ EXCEPT !.pc = "send", !.token = token,
                                            !.sends = ToSend(process[p].note)]]
     ELSE process' = [process EXCEPT ![p] = Ended(p)] /\ UNCHANGED notes
  /\ UNCHANGED <<sent, faults>>

(* The WebSocket first, then Feishu.  The call succeeds, fails, or reaches *)
(* the user while its answer is lost.                                      *)
NextChannel(p) == IF "ws" \in process[p].sends THEN "ws" ELSE "feishu"

Called(p, outcome, reached) ==
  LET ch == NextChannel(p)
  IN  /\ process[p].pc = "send" /\ process[p].sends # {}
      /\ sent' = IF reached THEN [sent EXCEPT ![process[p].note][ch] = @ + 1] ELSE sent
      /\ process' = [process EXCEPT ![p].sends = @ \ {ch},
                                    ![p].outcome[ch] = outcome]
      /\ UNCHANGED notes

FailedOutcome(p) == "failed"

CallSucceeds(p) == Called(p, Final[NextChannel(p)], TRUE) /\ UNCHANGED faults
CallFails(p)    == Called(p, FailedOutcome(p), FALSE) /\ UNCHANGED faults
AnswerLost(p)   == Called(p, FailedOutcome(p), TRUE) /\ Fault

(* The outcome is written back under the token; a failed post to Feishu is *)
(* due again after a delay.                                                *)
MayWrite(p) == Note(p).token = process[p].token

Released(note) == [note EXCEPT !.token = None, !.fresh = FALSE]

WriteBack(p) ==
  LET outcome == process[p].outcome
  IN  /\ process[p].pc = "send" /\ process[p].sends = {}
      /\ IF MayWrite(p)
         THEN SetNote(process[p].note,
                [Released(Note(p)) EXCEPT
                   !.status = [ch \in Channels |->
                                 CASE outcome[ch] = "pending" -> @[ch]
                                   [] outcome[ch] = "failed"  -> "pending"
                                   [] OTHER -> outcome[ch]],
                   !.due = IF outcome["feishu"] = "pending" THEN @
                           ELSE outcome["feishu"] = "sent"])
         ELSE UNCHANGED notes
      /\ process' = [process EXCEPT ![p] = Ended(p)]
      /\ UNCHANGED <<sent, faults>>
-----------------------------------------------------------------------------
Busy(p) == process[p].pc # "idle"

(* The process dies, or a call ends with an error that is not caught. *)
Crash(p) ==
  /\ Busy(p) /\ Fault
  /\ process' = [process EXCEPT ![p] = Idle]
  /\ UNCHANGED <<notes, sent>>

Holder(a) == {p \in Processes : process[p].pc = "send" /\ process[p].note = a
                                  /\ process[p].token = notes[a].token}

(* Five minutes pass: over an abandoned delivery always, over a live one   *)
(* seldom.                                                                 *)
LeaseRunsOut(a) ==
  /\ notes[a].fresh
  /\ IF Holder(a) = {} THEN UNCHANGED faults ELSE Fault
  /\ SetNote(a, [notes[a] EXCEPT !.fresh = FALSE])
  /\ UNCHANGED <<process, sent>>

ComesDue(a) ==
  /\ ~notes[a].due
  /\ SetNote(a, [notes[a] EXCEPT !.due = TRUE])
  /\ UNCHANGED <<process, sent, faults>>

Proceeds(p) ==
  \/ RetryPending(p) \/ (\E a \in Alarms : DeliverNext(p, a)) \/ Take(p)
  \/ CallSucceeds(p) \/ CallFails(p) \/ AnswerLost(p) \/ WriteBack(p)

Next ==
  \/ \E p \in Processes : Proceeds(p) \/ Crash(p) \/ \E a \in Alarms : Emit(p, a)
  \/ \E a \in Alarms : LeaseRunsOut(a) \/ ComesDue(a)

Spec == Init /\ [][Next]_vars

(* The retry job runs every minute, started deliveries continue, time      *)
(* passes, and a receiver that is called again and again answers one day.  *)
Fairness ==
  /\ \A p \in Processes : WF_vars(Proceeds(p))
  /\ \A p \in Processes, ch \in Channels : SF_vars(NextChannel(p) = ch /\ CallSucceeds(p))
  /\ \A a \in Alarms : WF_vars(LeaseRunsOut(a) /\ Holder(a) = {}) /\ WF_vars(ComesDue(a))
-----------------------------------------------------------------------------
NoteRows == [stored : BOOLEAN, status : [Channels -> {"pending", "published", "sent"}],
             token : Tokens \cup {None}, fresh : BOOLEAN, due : BOOLEAN]
LocalStates == [pc : {"idle", "next", "take", "send"}, listed : SUBSET Alarms,
                note : Alarms \cup {None}, token : Tokens \cup {None},
                sends : SUBSET Channels,
                outcome : [Channels -> {"pending", "failed", "published", "sent"}]]

(* Types; a lease that runs has a holder's token, and a delivery its alarm.*)
TypeOK ==
  /\ notes \in [Alarms -> NoteRows]
  /\ \A a \in Alarms : notes[a].fresh => notes[a].token # None
  /\ process \in [Processes -> LocalStates]
  /\ \A p \in Processes : process[p].pc \in {"take", "send"} => process[p].note \in Alarms
  /\ sent \in [Alarms -> [Channels -> Nat]]
  /\ faults \in 0 .. MaxFaults

(* Every stored alarm is delivered on both channels in the end, although   *)
(* processes die in the middle of a delivery: what the table then reports  *)
(* was accepted by the channel, and no late or failed delivery puts it     *)
(* back to pending.  And it is delivered twice only for a reason: each     *)
(* delivery after the first costs a crash, a lost answer or an outlived    *)
(* lease, however the process that raised it and the retry job overlap.    *)
AlarmsDelivered ==
  \A a \in Alarms, ch \in Channels :
    /\ notes[a].stored ~> [](notes[a].status[ch] = Final[ch] /\ sent[a][ch] > 0)
    /\ [](sent[a][ch] <= 1 + faults)
=============================================================================
