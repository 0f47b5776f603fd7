-------------------------- MODULE ArtifactDeletion --------------------------
(***************************************************************************)
(* The outbox of services/artifact_deletion.py: directories of training    *)
(* data whose removal was decided in a transaction are removed after it,   *)
(* by the request itself or by the job of the scheduler, whoever claims    *)
(* the row first.  A claim lasts five minutes, which is one bit here       *)
(* (fresh); the claim token is the name of the remover, which handles one  *)
(* row at a time.  The back-off and the encryption of paths are left out.  *)
(***************************************************************************)
EXTENDS Naturals

CONSTANTS
  Versions,    \* dataset versions; each has one directory, root / version
  Removers     \* threads that process the outbox

VARIABLES
  disk,        \* version -> its directory exists
  outbox,      \* version -> row of user_artifact_deletions
  remover      \* remover -> the row it is processing

outboxVars == <<disk, outbox, remover>>

NoRow == [status |-> "none", claim |-> "none", fresh |-> FALSE]
Idle  == [pc |-> "idle", version |-> "none", succeeded |-> FALSE]

InitOutbox ==
  /\ disk = [d \in Versions |-> FALSE]
  /\ outbox = [d \in Versions |-> NoRow]
  /\ remover = [w \in Removers |-> Idle]

(* enqueue: a path that has a row already, of whatever status, keeps it. *)
Enqueued(D) ==
  [d \in Versions |-> IF d \in D /\ outbox[d] = NoRow
                      THEN [NoRow EXCEPT !.status = "pending"] ELSE outbox[d]]

OnlyPending(d) == outbox[d].status = "pending" /\ ~outbox[d].fresh
Claimable(d) == outbox[d].status \in {"pending", "processing"} /\ ~outbox[d].fresh

(* process, first transaction *)
Claim(w, d) ==
  /\ remover[w].pc = "idle" /\ Claimable(d)
  /\ outbox' = [outbox EXCEPT ![d] = [status |-> "processing", claim |-> w, fresh |-> TRUE]]
  /\ remover' = [remover EXCEPT ![w] = [pc |-> "remove", version |-> d, succeeded |-> FALSE]]
  /\ UNCHANGED disk

(* rmtree may fail and leave the directory. *)
Remove(w) ==
  /\ remover[w].pc = "remove"
  /\ \E gone \in BOOLEAN :
       /\ disk' = [disk EXCEPT ![remover[w].version] = @ /\ ~gone]
       /\ remover' = [remover EXCEPT ![w].pc = "report",
                        ![w].succeeded = ~disk'[remover[w].version]]
  /\ UNCHANGED outbox

(* process, second transaction: only the claim's owner writes its result. *)
Report(w) ==
  LET d == remover[w].version IN
  /\ remover[w].pc = "report"
  /\ outbox' = IF outbox[d].claim # w THEN outbox
               ELSE [outbox EXCEPT ![d] =
                 [NoRow EXCEPT !.status = IF remover[w].succeeded THEN "completed" ELSE "pending"]]
  /\ remover' = [remover EXCEPT ![w] = Idle]
  /\ UNCHANGED disk

StopRemover(w) ==
  /\ remover[w].pc # "idle" /\ remover' = [remover EXCEPT ![w] = Idle]
  /\ UNCHANGED <<disk, outbox>>

ClaimAges(d) ==
  /\ outbox[d].fresh /\ outbox' = [outbox EXCEPT ![d].fresh = FALSE]
  /\ UNCHANGED <<disk, remover>>

ProcessOutbox ==
  \/ \E w \in Removers : Remove(w) \/ Report(w) \/ StopRemover(w) \/ \E d \in Versions : Claim(w, d)
  \/ \E d \in Versions : ClaimAges(d)
=============================================================================
