----------------------------- MODULE ChatTurns -----------------------------
(***************************************************************************)
(* The turns of a conversation (services/chat_memory.py and                *)
(* _chat_event_stream of api/v1/ai.py).  A request prepares its turn, takes*)
(* the lock of its session, reads the turns so far, lets the model answer, *)
(* and stores question and answer together.  The client may go away at any *)
(* yield, the session may be deleted meanwhile, a transaction or a model   *)
(* may fail.  A process that dies takes no further step, and the one that  *)
(* follows it is another one.                                              *)
(*                                                                         *)
(* The locks are objects of a process, found by session in a registry that *)
(* counts their references, so that an object nobody refers to is removed. *)
(* An object is named by the request that created it, and so is a session  *)
(* but the one that is there from the start, whose turns until then are    *)
(* left out.  One user; the cut of a long history to its last turns, the   *)
(* preferences, consent and training traces (TrainingData) are left out.   *)
(*                                                                         *)
(* RemovesAlways is a faulty variant of the definition after it; the       *)
(* specification does not use it.                                          *)
(***************************************************************************)
EXTENDS Naturals, Sequences

CONSTANTS
  Requests,
  Earlier,     \* a session that is there from the start
  Processes,   \* of the API
  None

VARIABLES
  sessions,  \* table chat_sessions
  turns,     \* table chat_messages: the complete turns of each session
  registry,  \* _TURN_LOCKS of each process
  lock,      \* of each object, the request that holds it
  refs,      \* of each object, its references
  req        \* the local state of each request

chat == <<sessions, turns, registry, lock, refs, req>>

Sessions == Requests \cup {Earlier}
Idle == [pc |-> "idle", process |-> None, session |-> None, isNew |-> FALSE,
         object |-> None, basis |-> <<>>]

Init ==
  /\ sessions = {Earlier} /\ turns = [s \in Sessions |-> <<>>]
  /\ registry = [p \in Processes |-> [s \in Sessions |-> None]]
  /\ lock = [o \in Requests |-> None] /\ refs = [o \in Requests |-> 0]
  /\ req = [r \in Requests |-> Idle]

At(r, pc) == req[r].pc = pc
Goes(r, changed) == req' = [req EXCEPT ![r] = changed]
Moves(r, pc) == Goes(r, [req[r] EXCEPT !.pc = pc])
Registered(r) == registry[req[r].process][req[r].session]

(* prepare_chat_turn: an own session that is there, or a fresh one.        *)
Prepare(r) ==
  /\ At(r, "idle")
  /\ \E p \in Processes, s \in sessions \cup {r} :
       Goes(r, [req[r] EXCEPT !.pc = "register", !.process = p, !.session = s, !.isNew = s = r])
  /\ UNCHANGED <<sessions, turns, registry, lock, refs>>

(* try_acquire_turn *)
Register(r) ==
  LET object == IF Registered(r) = None THEN r ELSE Registered(r) IN
  /\ At(r, "register")
  /\ registry' = [registry EXCEPT ![req[r].process][req[r].session] = object]
  /\ refs' = [refs EXCEPT ![object] = @ + 1]
  /\ Goes(r, [req[r] EXCEPT !.pc = "try", !.object = object])
  /\ UNCHANGED <<sessions, turns, lock>>

TryLock(r) ==
  LET free == lock[req[r].object] = None IN
  /\ At(r, "try") /\ Moves(r, IF free THEN "read" ELSE "leave")
  /\ lock' = IF free THEN [lock EXCEPT ![req[r].object] = r] ELSE lock
  /\ UNCHANGED <<sessions, turns, registry, refs>>

RemovesAlways(r) == Registered(r) = req[r].object
Removes(r) == refs[req[r].object] = 1 /\ Registered(r) = req[r].object

Unregister(r) ==
  /\ At(r, "leave") /\ Moves(r, "done")
  /\ refs' = [refs EXCEPT ![req[r].object] = @ - 1]
  /\ registry' = IF Removes(r)
                 THEN [registry EXCEPT ![req[r].process][req[r].session] = None] ELSE registry
  /\ UNCHANGED <<sessions, turns, lock>>

(* build_llm_messages, ai_cost_gate *)
ReadHistory(r) ==
  LET s == req[r].session IN
  /\ At(r, "read")
  /\ \/ /\ req[r].isNew \/ s \in sessions
        /\ \E pc \in {"generate", "unlock"} :
             Goes(r, [req[r] EXCEPT !.pc = pc, !.basis = turns[s]])
     \/ ~req[r].isNew /\ s \notin sessions /\ Moves(r, "unlock")
  /\ UNCHANGED <<sessions, turns, registry, lock, refs>>

(* run_chat_stream, up to its end or an exception; or the client goes away *)
(* (GeneratorExit).                                                        *)
Generate(r) ==
  /\ At(r, "generate") /\ \E pc \in {"commit", "unlock"} : Moves(r, pc)
  /\ UNCHANGED <<sessions, turns, registry, lock, refs>>

(* commit_chat_turn *)
Commit(r) ==
  LET s == req[r].session IN
  /\ At(r, "commit") /\ Moves(r, "unlock")
  /\ \/ /\ req[r].isNew \/ s \in sessions
        /\ sessions' = sessions \cup {s} /\ turns' = [turns EXCEPT ![s] = Append(@, r)]
     \/ UNCHANGED <<sessions, turns>>
  /\ UNCHANGED <<registry, lock, refs>>

(* release_turn *)
Unlock(r) ==
  /\ At(r, "unlock") /\ Moves(r, "leave")
  /\ lock' = [lock EXCEPT ![req[r].object] = None]
  /\ UNCHANGED <<sessions, turns, registry, refs>>

(* delete_session *)
DeleteSession(s) ==
  /\ s \in sessions /\ sessions' = sessions \ {s} /\ turns' = [turns EXCEPT ![s] = <<>>]
  /\ UNCHANGED <<registry, lock, refs, req>>

Next ==
  \/ \E r \in Requests :
       \/ Prepare(r) \/ Register(r) \/ TryLock(r) \/ ReadHistory(r) \/ Generate(r)
       \/ Commit(r) \/ Unlock(r) \/ Unregister(r)
  \/ \E s \in Sessions : DeleteSession(s)

Spec == Init /\ [][Next]_chat
-----------------------------------------------------------------------------
Turns(s) == {turns[s][i] : i \in DOMAIN turns[s]}

(* The registry keeps nothing of a session that nobody asks in any more.   *)
RegistryEmpties ==
  \A p \in Processes, s \in Sessions :
    registry[p][s] # None =>
      \E r \in Requests : req[r].process = p /\ req[r].session = s /\ req[r].pc # "done"

(* An answer rests on all the turns that its process stored in the session *)
(* before, however many requests wait for the lock, give up, or find it    *)
(* removed from the registry (try_acquire_turn, release_turn), and         *)
(* RegistryEmpties.  The lock knows nothing of other processes.            *)
EarlierTurnsKnown ==
  /\ [][\A r \in Requests :
          LET s == req[r].session IN
          s # None /\ turns'[s] # turns[s] /\ turns'[s] = Append(turns[s], r) =>
            \A q \in Turns(s) : req[q].process = req[r].process =>
              \E i \in DOMAIN req[r].basis : req[r].basis[i] = q]_chat
  /\ []RegistryEmpties
=============================================================================
