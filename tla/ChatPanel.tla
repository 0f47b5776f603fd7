----------------------------- MODULE ChatPanel -----------------------------
(***************************************************************************)
(* The chat panel of the web client (components/ai/chat-panel.tsx, over    *)
(* streamChat of lib/api/ai.ts).  It shows the messages of one             *)
(* conversation and sends the next question to the session it has in mind. *)
(* What the user clicks starts calls that answer later, in any order; a    *)
(* generation counts the choices of the user, and a call compares the one  *)
(* it was started in with the current one before it changes the panel.     *)
(*                                                                         *)
(* Of messages only counts whose session they are.  A question that is     *)
(* being answered, or a research report, shows in whatever conversation is *)
(* there; their text, the lists of sessions, reports and preferences, and  *)
(* the box for the next question are left out.                             *)
(*                                                                         *)
(* AppliesAny is a faulty variant of the definition after it; the          *)
(* specification does not use it.                                          *)
(***************************************************************************)
EXTENDS Naturals, FiniteSets

CONSTANTS
  Stored,    \* sessions on the server when the page opens
  Fresh,     \* sessions that may be created
  Calls,     \* calls to the server
  None,
  MaxChoices \* bound: generations

VARIABLES
  generation,  \* generationRef
  interacted,  \* interactedRef
  streaming, loading, saving,
  sid,         \* sessionId: where the next question goes
  shown,       \* the session whose messages the panel shows
  consent,     \* the session whose consent the box shows
  chosen,      \* the session the user chose last
  call,        \* the local state of each call
  server       \* the sessions that are stored

panel == <<generation, interacted, streaming, loading, saving, sid, shown, consent, chosen, call,
           server>>

Free == [kind |-> "none", pc |-> "idle", gen |-> 0, session |-> None, sidThen |-> None]
Mount == CHOOSE c \in Calls : TRUE

(* The page opens: the sessions are listed, and the latest is loaded. *)
Init ==
  /\ generation = 1 /\ interacted = FALSE /\ streaming = FALSE /\ loading = FALSE
  /\ saving = FALSE /\ sid = None /\ shown = None /\ consent = None /\ chosen = None
  /\ call = [c \in Calls |->
               IF c # Mount THEN Free
               ELSE [kind |-> "mount", pc |-> "list", gen |-> 1, session |-> None, sidThen |-> None]]
  /\ server = Stored

Current(c) == call[c].gen = generation
At(c, kind, pc) == call[c].kind = kind /\ call[c].pc = pc
Moves(c, pc) == call' = [call EXCEPT ![c].pc = pc]
Busy == streaming \/ loading

(* beginGeneration; the calls it aborts find a later generation. *)
Begins(c, kind, pc, s) ==
  /\ call[c].pc = "idle" /\ generation < MaxChoices /\ generation' = generation + 1
  /\ call' = [call EXCEPT ![c] = [kind |-> kind, pc |-> pc, gen |-> generation + 1,
                                  session |-> s, sidThen |-> sid]]
  /\ interacted' = TRUE

(* The finally of a load: only the current one has something to reset. *)
LoadOver(c) == loading' = IF Current(c) THEN FALSE ELSE loading
-----------------------------------------------------------------------------
(* The first load *)
Listed(c) ==
  /\ At(c, "mount", "list")
  /\ \/ /\ Current(c) /\ ~interacted /\ loading' = TRUE
        /\ \E s \in server : call' = [call EXCEPT ![c].pc = "detail", ![c].session = s]
     \/ ~(Current(c) /\ ~interacted /\ server # {}) /\ LoadOver(c) /\ Moves(c, "done")
     \/ LoadOver(c) /\ Moves(c, "done")
  /\ UNCHANGED <<generation, interacted, streaming, saving, sid, shown, consent, chosen, server>>

(* loadSession *)
LoadSession(c) ==
  \E s \in server :
    /\ ~Busy /\ Begins(c, "load", "detail", s)
    /\ streaming' = FALSE /\ loading' = TRUE /\ chosen' = s
    /\ UNCHANGED <<saving, sid, shown, consent, server>>

Wanted(c) == Current(c) /\ (call[c].kind = "mount" => ~interacted)

Detail(c) ==
  /\ call[c].kind \in {"mount", "load"} /\ call[c].pc = "detail"
  /\ \/ Wanted(c) /\ call[c].session \in server /\ Moves(c, "consent") /\ UNCHANGED loading
     \/ Moves(c, "done") /\ LoadOver(c)
  /\ UNCHANGED <<generation, interacted, streaming, saving, sid, shown, consent, chosen, server>>

(* applyLoadedSessionByGeneration *)
AppliesAny(c) == call[c].session
Applied(c) == IF Current(c) THEN call[c].session ELSE shown

Consent(c) ==
  /\ call[c].pc = "consent" /\ Moves(c, "done") /\ LoadOver(c)
  /\ sid' = call[c].session /\ consent' = call[c].session /\ shown' = Applied(c)
  /\ chosen' = IF call[c].kind = "mount" /\ ~interacted THEN call[c].session ELSE chosen
  /\ UNCHANGED <<generation, interacted, streaming, saving, server>>
-----------------------------------------------------------------------------
NewConversation ==
  /\ generation < MaxChoices /\ generation' = generation + 1 /\ interacted' = TRUE
  /\ streaming' = FALSE /\ loading' = FALSE
  /\ sid' = None /\ shown' = None /\ consent' = None /\ chosen' = None
  /\ UNCHANGED <<saving, call, server>>

Send(c) ==
  /\ ~Busy /\ Begins(c, "send", "asked", sid) /\ streaming' = TRUE
  /\ UNCHANGED <<loading, saving, sid, shown, consent, chosen, server>>

(* onSession: the server names the session of the turn. *)
Named(c) ==
  /\ At(c, "send", "asked") /\ Current(c)
  /\ \E s \in Fresh \cup server :
       /\ IF call[c].session = None
          THEN s \in Fresh \ server /\ \A o \in Calls : call[o].session # s
          ELSE s = call[c].session
       /\ call' = [call EXCEPT ![c].pc = "stream", ![c].session = s]
       /\ sid' = s /\ shown' = IF call[c].sidThen = None THEN s ELSE shown
       /\ chosen' = IF call[c].sidThen = None THEN s ELSE chosen
       /\ consent' = IF call[c].sidThen = None THEN s ELSE consent
  /\ UNCHANGED <<generation, interacted, streaming, loading, saving, server>>

(* The turn is stored, whether the panel still waits for it or not.        *)
Stores(c) ==
  /\ At(c, "send", "stream") /\ Moves(c, "stored")
  /\ server' = server \cup (IF call[c].sidThen = None THEN {call[c].session} ELSE {})
  /\ UNCHANGED <<generation, interacted, streaming, loading, saving, sid, shown, consent, chosen>>

(* The end of the stream, its interruption, or stop. *)
SendOver(c) ==
  /\ call[c].kind = "send" /\ call[c].pc \in {"asked", "stream", "stored"} /\ Moves(c, "done")
  /\ streaming' = IF Current(c) THEN FALSE ELSE streaming
  /\ LET leaves == Current(c) /\ call[c].sidThen = None
     IN  \/ call[c].pc = "stored" /\ UNCHANGED <<sid, shown, consent, chosen>>
         \/ /\ sid' = IF leaves THEN None ELSE sid
            /\ shown' = IF leaves THEN None ELSE shown
            /\ consent' = IF leaves THEN None ELSE consent
            /\ chosen' = IF leaves THEN None ELSE chosen
  /\ UNCHANGED <<generation, interacted, loading, saving, server>>

(* recoverInvalidSession: the session is not there any more. *)
Invalid(c) ==
  /\ At(c, "send", "asked") /\ Current(c) /\ call[c].session \notin server \cup {None}
  /\ Moves(c, "done") /\ streaming' = FALSE
  /\ sid' = None /\ shown' = None /\ chosen' = None
  /\ UNCHANGED <<generation, interacted, loading, saving, consent, server>>

(* loadReport *)
LoadReport(c) ==
  /\ ~Busy /\ Begins(c, "report", "asked", None) /\ streaming' = FALSE /\ loading' = TRUE
  /\ UNCHANGED <<saving, sid, shown, consent, chosen, server>>

Report(c) ==
  /\ At(c, "report", "asked") /\ Moves(c, "done") /\ LoadOver(c)
  /\ UNCHANGED <<generation, interacted, streaming, saving, sid, shown, consent, chosen, server>>
-----------------------------------------------------------------------------
(* removeSession, toggleTrainingConsent: these do not begin a generation,  *)
(* and act on the session that was in mind when they were clicked.         *)
Remove(c) ==
  \E s \in server :
    /\ ~Busy /\ call[c].pc = "idle"
    /\ call' = [call EXCEPT ![c] = [kind |-> "remove", pc |-> "asked", gen |-> 0,
                                    session |-> s, sidThen |-> sid]]
    /\ UNCHANGED <<generation, interacted, streaming, loading, saving, sid, shown, consent, chosen,
                   server>>

Removed(c) ==
  LET clears == call[c].sidThen = call[c].session IN
  /\ At(c, "remove", "asked") /\ Moves(c, "done")
  /\ server' = server \ {call[c].session}
  /\ sid' = IF clears THEN None ELSE sid
  /\ shown' = IF clears THEN None ELSE shown
  /\ consent' = IF clears THEN None ELSE consent
  /\ UNCHANGED <<generation, interacted, streaming, loading, saving, chosen>>

Toggle(c) ==
  /\ ~Busy /\ ~saving /\ sid # None /\ call[c].pc = "idle" /\ saving' = TRUE
  /\ call' = [call EXCEPT ![c] = [kind |-> "toggle", pc |-> "asked", gen |-> 0,
                                  session |-> sid, sidThen |-> None]]
  /\ UNCHANGED <<generation, interacted, streaming, loading, sid, shown, consent, chosen, server>>

Toggled(c) ==
  /\ At(c, "toggle", "asked") /\ Moves(c, "done") /\ saving' = FALSE
  /\ consent' \in {consent, call[c].session}
  /\ UNCHANGED <<generation, interacted, streaming, loading, sid, shown, chosen, server>>

Next ==
  \/ NewConversation
  \/ \E c \in Calls :
       \/ Listed(c) \/ LoadSession(c) \/ Detail(c) \/ Consent(c)
       \/ Send(c) \/ Named(c) \/ Stores(c) \/ SendOver(c) \/ Invalid(c)
       \/ LoadReport(c) \/ Report(c)
       \/ Remove(c) \/ Removed(c) \/ Toggle(c) \/ Toggled(c)

Spec == Init /\ [][Next]_panel
-----------------------------------------------------------------------------
(* However late the answers come, the panel turns to no session but the    *)
(* one the user chose last: of a load that was overtaken the messages are  *)
(* dropped (applyLoadedSessionByGeneration).                               *)
LastChoiceShown == [][shown' # shown => shown' \in {None, chosen'}]_panel
=============================================================================
