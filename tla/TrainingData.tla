---------------------------- MODULE TrainingData ----------------------------
(***************************************************************************)
(* The training data of one user: services/training_data.py and            *)
(* training_dataset.py.  A turn of a chat whose session has the user's     *)
(* consent leaves a trace; feedback makes a candidate of it, an            *)
(* administrator reviews the candidate, and the approved ones are written  *)
(* into a dataset version.  Whoever withdraws the consent, erases the      *)
(* data or closes the account takes the traces back and voids the versions *)
(* they went into; directories of erased data go through the outbox of     *)
(* ArtifactDeletion.                                                       *)
(*                                                                         *)
(* The transactions that hold the advisory lock of the dataset lifecycle   *)
(* are one action each, except the build, whose directory appears before   *)
(* its commit.  Those that do not hold it, the record of a turn, the purge *)
(* and the deletion of a session, are split where another may come         *)
(* between.  Policy and redaction versions, labels, ratings and the text   *)
(* itself are left out; a trace that was blanked can only be approved with *)
(* an answer of the reviewer's, so its own text is in no dataset.          *)
(*                                                                         *)
(* Unlocked and, of the outbox, OnlyPending are faulty variants of the     *)
(* definition after each; the specification does not use them.             *)
(***************************************************************************)
EXTENDS FiniteSets, ArtifactDeletion

CONSTANTS
  Sessions, Turns,   \* chat sessions and turns of the user
  SessionOf,         \* [Turns -> Sessions]
  MaxRevision,       \* bound: changes of a consent
  MaxCrashes         \* bound: builds that crash, removals that fail

ASSUME SessionAssumption == SessionOf \in [Turns -> Sessions]
ASSUME CountsAssumption  == MaxRevision \in Nat /\ MaxCrashes \in Nat

VARIABLES
  account,     \* the user exists
  chat,        \* session -> "new", "open", "deleted"
  consent,     \* table training_consents
  turn,        \* request that answers the turn, with the revision it captured
  trace,       \* table ai_generation_traces: "kept" with its text, or "blank"
  candidate,   \* table training_candidates: status
  dataset,     \* table training_datasets, its items and what they contain
  build,       \* the build that holds the lock
  purge,       \* traces the purge has read
  crashes

trainingVars == <<account, chat, consent, turn, trace, candidate, dataset, build, purge, crashes,
          disk, outbox, remover>>

NoConsent == [state |-> "none", revision |-> 0]
NoDataset == [status |-> "none", links |-> {}, text |-> {}]
NoBuild   == [version |-> "none", links |-> {}, text |-> {}]
NoTurn    == [pc |-> "idle", revision |-> 0]

Of(s)   == {t \in Turns : SessionOf[t] = s}
Rows    == {t \in Turns : candidate[t] # "none"}
Approved == {t \in Turns : candidate[t] = "approved"}
Without(f, T) == [t \in Turns |-> IF t \in T THEN "none" ELSE f[t]]
-----------------------------------------------------------------------------
TrainingInit ==
  /\ account = TRUE /\ chat = [s \in Sessions |-> "new"]
  /\ consent = [s \in Sessions |-> NoConsent]
  /\ turn = [t \in Turns |-> NoTurn]
  /\ trace = [t \in Turns |-> "none"]
  /\ candidate = [t \in Turns |-> "none"]
  /\ dataset = [d \in Versions |-> NoDataset]
  /\ build = NoBuild /\ purge = {} /\ crashes = 0
  /\ InitOutbox

Unlocked == TRUE
LockFree == build = NoBuild

(* A dataset linked to one of the candidates becomes void. *)
Voided(T) ==
  [d \in Versions |-> IF dataset[d].links \cap T # {}
                      THEN [dataset[d] EXCEPT !.status = "deprecated"] ELSE dataset[d]]
DirectoriesOf(T) == {d \in Versions : dataset[d].status = "frozen" /\ dataset[d].links \cap T # {}}

(* _remove_artifact ignores an error, and leaves the directory then. *)
RemovesNow(T) ==
  \/ /\ disk' = [d \in Versions |-> disk[d] /\ d \notin DirectoriesOf(T)]
     /\ UNCHANGED crashes
  \/ /\ DirectoriesOf(T) # {} /\ crashes < MaxCrashes
     /\ crashes' = crashes + 1 /\ UNCHANGED disk

(* The foreign key of an item is set to null when its candidate goes. *)
Unlinked(sets, T) == [d \in Versions |-> [sets[d] EXCEPT !.links = @ \ T]]
-----------------------------------------------------------------------------
(* chat, and capture_consent_revision: a request for a turn that may be     *)
(* used.  The first turn of a session reserves its identifier.              *)
Capture(t) ==
  LET s == SessionOf[t] IN
  /\ account /\ turn[t] = NoTurn
  /\ \/ /\ chat[s] = "new" /\ \A u \in Of(s) : turn[u] = NoTurn
        /\ turn' = [turn EXCEPT ![t] = [pc |-> "answering", revision |-> 0]]
     \/ /\ chat[s] = "open" /\ consent[s].state = "on"
        /\ turn' = [turn EXCEPT ![t] = [pc |-> "answering", revision |-> consent[s].revision]]
  /\ UNCHANGED <<account, chat, consent, trace, candidate, dataset, build, purge, crashes>>
  /\ UNCHANGED outboxVars

(* commit_chat_turn, or a generation that ends without an answer *)
Answer(t) ==
  LET s == SessionOf[t] IN
  /\ turn[t].pc = "answering" /\ account /\ chat[s] # "deleted"
  /\ chat' = [chat EXCEPT ![s] = "open"]
  /\ turn' = [turn EXCEPT ![t].pc = "answered"]
  /\ UNCHANGED <<account, consent, trace, candidate, dataset, build, purge, crashes>>
  /\ UNCHANGED outboxVars

Break(t) ==
  /\ turn[t].pc = "answering" /\ turn' = [turn EXCEPT ![t].pc = "broken"]
  /\ UNCHANGED <<account, chat, consent, trace, candidate, dataset, build, purge, crashes>>
  /\ UNCHANGED outboxVars

(* record_completed_turn, record_failed_turn: the consent is read ... *)
Permitted(t) ==
  LET c == consent[SessionOf[t]] IN
  \/ c.state = "none" /\ turn[t].revision = 0
        /\ (turn[t].pc = "broken" => chat[SessionOf[t]] = "new")
  \/ c.state = "on" /\ c.revision = turn[t].revision

RecordRead(t) ==
  /\ turn[t].pc \in {"answered", "broken"}
  /\ turn' = [turn EXCEPT ![t].pc =
       IF ~Permitted(t) THEN "done"
       ELSE CASE turn[t].pc = "broken" -> "keep input"
              [] consent[SessionOf[t]].state = "none" -> "keep and grant"
              [] OTHER -> "keep"]
  /\ UNCHANGED <<account, chat, consent, trace, candidate, dataset, build, purge, crashes>>
  /\ UNCHANGED outboxVars

(* ... and the trace is inserted, unless its session or the account has    *)
(* gone, or a consent to be granted has a row now.                         *)
RecordWrite(t) ==
  LET s == SessionOf[t]
      grants == turn[t].pc = "keep and grant"
      stored == /\ account /\ chat[s] # "deleted"
                /\ grants => consent[s].state = "none"
  IN
  /\ turn[t].pc \in {"keep", "keep and grant", "keep input"}
  /\ trace' = IF stored THEN [trace EXCEPT ![t] = "kept"] ELSE trace
  /\ consent' = IF stored /\ grants THEN [consent EXCEPT ![s] = [state |-> "on", revision |-> 1]]
                ELSE consent
  /\ turn' = [turn EXCEPT ![t].pc = IF turn[t].pc = "keep input" THEN "done" ELSE "complete"]
  /\ UNCHANGED <<account, chat, candidate, dataset, build, purge, crashes>>
  /\ UNCHANGED outboxVars
-----------------------------------------------------------------------------
Grant(s) ==
  /\ LockFree /\ account /\ chat[s] = "open"
  /\ consent[s].state # "on" /\ consent[s].revision < MaxRevision
  /\ consent' = [consent EXCEPT ![s] = [state |-> "on", revision |-> @.revision + 1]]
  /\ UNCHANGED <<account, chat, turn, trace, candidate, dataset, build, purge, crashes>>
  /\ UNCHANGED outboxVars

(* set_consent(enabled=False) takes back what the session left; the        *)
(* directories are removed before the commit.                              *)
Withdraw(s) ==
  LET taken == {t \in Of(s) : trace[t] # "none"} IN
  /\ LockFree /\ account /\ chat[s] = "open"
  /\ consent[s].state # "off" /\ consent[s].revision < MaxRevision
  /\ consent' = [consent EXCEPT ![s] = [state |-> "off", revision |-> @.revision + 1]]
  /\ trace' = [t \in Turns |-> IF t \in taken THEN "blank" ELSE trace[t]]
  /\ candidate' = [t \in Turns |-> IF t \in taken \cap Rows THEN "deprecated" ELSE candidate[t]]
  /\ dataset' = Voided(taken \cap Rows) /\ RemovesNow(taken \cap Rows)
  /\ UNCHANGED <<account, chat, turn, build, purge, outbox, remover>>

(* submit_feedback: new feedback about an approved turn opens its review   *)
(* again.                                                                  *)
Reopened(t) == {t} \cap Approved

Feedback(t) ==
  /\ LockFree /\ account /\ chat[SessionOf[t]] = "open"
  /\ turn[t].pc = "complete" /\ trace[t] # "none" /\ consent[SessionOf[t]].state = "on"
  /\ candidate' = [candidate EXCEPT ![t] = "pending"]
  /\ dataset' = Voided(Reopened(t)) /\ RemovesNow(Reopened(t))
  /\ UNCHANGED <<account, chat, consent, turn, trace, build, purge, outbox, remover>>

Review(t, status) ==
  /\ LockFree /\ t \in Rows
  /\ ~\E d \in Versions : dataset[d].status = "frozen" /\ t \in dataset[d].links
  /\ candidate' = [candidate EXCEPT ![t] = status]
  /\ UNCHANGED <<account, chat, consent, turn, trace, dataset, build, purge, crashes>>
  /\ UNCHANGED outboxVars
-----------------------------------------------------------------------------
(* build_dataset: the directory takes its place ... *)
VersionFree(d) == dataset[d].status = "none" /\ ~disk[d]

Publish(d) ==
  /\ LockFree /\ VersionFree(d) /\ Approved # {}
  /\ build' = [version |-> d, links |-> Approved,
               text |-> {t \in Approved : trace[t] = "kept"}]
  /\ disk' = [disk EXCEPT ![d] = TRUE]
  /\ UNCHANGED <<account, chat, consent, turn, trace, candidate, dataset, purge, crashes>>
  /\ UNCHANGED <<outbox, remover>>

(* ... before the commit, which fails if a candidate is gone by then. *)
Commit ==
  /\ build # NoBuild
  /\ IF build.links \subseteq Rows
     THEN /\ dataset' = [dataset EXCEPT ![build.version] =
               [status |-> "frozen", links |-> build.links, text |-> build.text]]
          /\ UNCHANGED disk
     ELSE disk' = [disk EXCEPT ![build.version] = FALSE] /\ UNCHANGED dataset
  /\ build' = NoBuild
  /\ UNCHANGED <<account, chat, consent, turn, trace, candidate, purge, crashes, outbox, remover>>

CrashBuild ==
  /\ build # NoBuild /\ crashes < MaxCrashes
  /\ crashes' = crashes + 1 /\ build' = NoBuild
  /\ UNCHANGED <<account, chat, consent, turn, trace, candidate, dataset, purge>>
  /\ UNCHANGED outboxVars
-----------------------------------------------------------------------------
(* purge_expired_traces: an expired trace is read, then deleted with all   *)
(* that hangs on it.                                                       *)
PurgeRead(t) ==
  /\ purge = {} /\ trace[t] # "none" /\ t \notin Approved
  /\ purge' = {t}
  /\ UNCHANGED <<account, chat, consent, turn, trace, candidate, dataset, build, crashes>>
  /\ UNCHANGED outboxVars

PurgeDelete ==
  /\ purge # {} /\ purge' = {}
  /\ trace' = Without(trace, purge) /\ candidate' = Without(candidate, purge)
  /\ dataset' = Unlinked(dataset, purge)
  /\ UNCHANGED <<account, chat, consent, turn, build, crashes>> /\ UNCHANGED outboxVars

(* chat_memory.delete_session: messages, consent and traces go with it. *)
DeleteSession(s) ==
  /\ account /\ chat[s] = "open" /\ chat' = [chat EXCEPT ![s] = "deleted"]
  /\ consent' = [consent EXCEPT ![s] = NoConsent]
  /\ trace' = Without(trace, Of(s)) /\ candidate' = Without(candidate, Of(s))
  /\ dataset' = Unlinked(dataset, Of(s))
  /\ UNCHANGED <<account, turn, build, purge, crashes>> /\ UNCHANGED outboxVars

(* erase_user_data, then its paths into the outbox, in one transaction. *)
Erasure ==
  /\ trace' = [t \in Turns |-> "none"] /\ candidate' = [t \in Turns |-> "none"]
  /\ dataset' = Unlinked(Voided(Rows), Rows)
  /\ outbox' = Enqueued(DirectoriesOf(Rows))
  /\ consent' = [s \in Sessions |-> NoConsent]

Erase ==
  /\ LockFree /\ account /\ Erasure
  /\ UNCHANGED <<account, chat, turn, build, purge, crashes, disk, remover>>

DeleteAccount ==
  /\ LockFree /\ account /\ account' = FALSE /\ Erasure
  /\ chat' = [s \in Sessions |-> "deleted"]
  /\ UNCHANGED <<turn, build, purge, crashes, disk, remover>>

Process == ProcessOutbox
  /\ UNCHANGED <<account, chat, consent, turn, trace, candidate, dataset, build, purge, crashes>>
-----------------------------------------------------------------------------
TrainingNext ==
  \/ \E t \in Turns : \/ Capture(t) \/ Answer(t) \/ Break(t) \/ RecordRead(t) \/ RecordWrite(t)
                      \/ Feedback(t) \/ PurgeRead(t)
                      \/ \E status \in {"approved", "rejected", "deprecated"} : Review(t, status)
  \/ \E s \in Sessions : Grant(s) \/ Withdraw(s) \/ DeleteSession(s)
  \/ \E d \in Versions : Publish(d)
  \/ Commit \/ CrashBuild \/ PurgeDelete \/ Erase \/ DeleteAccount \/ Process

TrainingSpec == TrainingInit /\ [][TrainingNext]_trainingVars

(* The job of the scheduler claims again and again, some remover goes on,  *)
(* and removals do not fail for ever.                                      *)
RemovalFairness ==
  /\ \A d \in Versions :
       /\ WF_trainingVars(ClaimAges(d) /\ Process)
       /\ SF_trainingVars(\E w \in Removers : Claim(w, d) /\ Process)
       /\ SF_trainingVars(\E w \in Removers : remover[w].version = d /\ Remove(w) /\ ~disk'[d] /\ Process)
  /\ WF_trainingVars(\E w \in Removers : Report(w) /\ Process)

TrainingFairSpec == TrainingSpec /\ RemovalFairness
-----------------------------------------------------------------------------
(* A frozen version holds the text of no trace whose consent is withdrawn, *)
(* as long as the trace is still there, and each candidate it is linked to *)
(* is still approved (set_consent, build_dataset, submit_feedback,         *)
(* review_candidate).                                                      *)
FrozenAllowed ==
  \A d \in Versions : dataset[d].status = "frozen" =>
    /\ \A t \in dataset[d].text : trace[t] # "none" => consent[SessionOf[t]].state = "on"
    /\ dataset[d].links \subseteq Approved

(* A directory that was queued for removal is removed in the end, and a    *)
(* row of the outbox that is completed speaks of one that is gone for good *)
(* (process).                                                              *)
QueuedIsRemoved ==
  \A d \in Versions :
    /\ outbox[d].status \in {"pending", "processing"} ~> ~disk[d]
    /\ [](outbox[d].status = "completed" => ~disk[d])

(* Withdrawing the consent clears what is not frozen, and voids the        *)
(* versions it went into (backend/README.md:154-155).                      *)
WithdrawalClears ==
  \A t \in Turns : consent[SessionOf[t]].state = "off" =>
    /\ trace[t] # "kept"
    /\ \A d \in Versions : t \in dataset[d].text => dataset[d].status = "deprecated"
=============================================================================
