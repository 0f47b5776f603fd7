--------------------------- MODULE MCConversations ---------------------------
(***************************************************************************)
(* Decisions, and what language models and their clients do: the decision  *)
(* chain, what its actors compute, the turns of a conversation, the panel  *)
(* that shows them, the reports, the stream of an answer, and the socket   *)
(* of the client; and the daily universe, which none of them touches.  No  *)
(* two of them write the same rows, and the chain takes what is computed   *)
(* as a value, so each behaviour moves one of them, and part says which.   *)
(***************************************************************************)
EXTENDS DecisionChain, MarketSocket, GuardedStream, UniverseSnapshots

CONSTANTS
  Requests, Earlier, Processes,                      \* ChatTurns
  Stored, Fresh, Calls, MaxChoices,                  \* ChatPanel
  Ids, Engines, Questions, Concurrency, MaxRevisions, MaxFaults,  \* Reports
  Codes, Forecasts, Industries, Markets, Holdings, Assets, Capital,  \* DecisionProtocol
  b2

(* A forecast is a probability and an interval whose ends were sorted      *)
(* (prediction/modeling.py); nothing is held short, and there is capital.  *)
ASSUME EvidenceAssumption ==
  /\ IsFiniteSet(Codes) /\ Capital \in Nat \ {0}
  /\ \A f \in Forecasts : /\ f.up \in 0 .. 1000 /\ f.hash \in BOOLEAN
                          /\ f.low \in Int /\ f.median \in Int /\ f.high \in Int
                          /\ f.low <= f.median /\ f.median <= f.high
  /\ Assets \subseteq Nat /\ Holdings \subseteq [Codes -> Nat]

(* No fewer than none (_max_revisions of agents/brief_graph.py).           *)
ASSUME ReportsAssumption == MaxRevisions \in Nat

(* A request is neither nothing nor the session that is there.             *)
ASSUME TurnsAssumption == IsFiniteSet(Requests) /\ None \notin Requests \cup {Earlier}

VARIABLES
  part,
  sessions, turns, registry, lock, refs, req,
  generation, interacted, streaming, loading, saving, sid, shown, consent, chosen, call, server,
  row, gen, faults,
  inputs, stage, allocation, research, reviews, rounds, committee, officer

chat   == <<sessions, turns, registry, lock, refs, req>>
panel  == <<generation, interacted, streaming, loading, saving, sid, shown, consent, chosen,
            call, server>>
reports == <<row, gen, faults>>
actors == <<inputs, stage, allocation, research, reviews, rounds, committee, officer>>

(* Probabilities on both sides of the thresholds, and intervals with a      *)
(* tail, around zero, below it and above it                                 *)
SomeForecasts ==
  {[up |-> up, low |-> i[1], median |-> i[2], high |-> i[3], hash |-> TRUE] :
     up \in {500, 540, 1000}, i \in {<<-60, 30, 60>>, <<-5, 15, 40>>, <<-15, -5, -1>>, <<12, 30, 60>>}}
SomeMarkets == {[volatility |-> 350, trend |-> 50, breadth |-> 600],
                [volatility |-> 100, trend |-> -50, breadth |-> 400],
                [volatility |-> 100, trend |-> 0, breadth |-> 500]}
SomeHoldings == [Codes -> {0, 800}]

(* Every instrument trades at first, and may lose the bar of a day later;  *)
(* one builder runs a release that asks for more sessions than there are.  *)
Normal    == [sessions |-> 2, complete |-> [day |-> TRUE, range |-> TRUE], bar |-> "good",
              status |-> "normal", amounts |-> 2, average |-> 2]
SomeRecords == {[Normal EXCEPT !.bar = "none"]}
FirstDays == {[d \in 1 .. LastDay |-> [c \in Instruments |-> Normal]]}
Releases == [p \in Builders \cup Backtests |->
                [minSessions |-> IF p = b2 THEN 3 ELSE 1, lookback |-> 2, minAmount |-> 1]]

MCFlags == {<<"a", "b">>, <<"b", "b", "a">>}

Turn   == INSTANCE ChatTurns
Panel  == INSTANCE ChatPanel
Report == INSTANCE Reports
Protocol == INSTANCE DecisionProtocol

ConversationsInit ==
  /\ part \in {"decision", "actors", "chat", "panel", "report", "stream", "socket", "universe"}
  /\ Init /\ Turn!Init /\ Panel!Init /\ Report!Init /\ GuardInit
  /\ SocketInit
  /\ part # "stream" => text = <<>> /\ pc = "stream"
  /\ inputs \in IF part = "actors" THEN Protocol!Evidence ELSE {<<>>}
  /\ Protocol!Undecided
  /\ UniverseInit
  /\ part # "universe" => \A c \in Instruments : listed[c] = 1

ConversationsNext ==
  /\ UNCHANGED part
  /\ part # "universe" => UNCHANGED universe
  /\ \/ part = "universe" /\ UniverseNext
          /\ UNCHANGED <<vars, chat, panel, reports, guard, socketVars, actors>>
     \/ part = "decision" /\ Next /\ UNCHANGED <<chat, panel, reports, guard, socketVars, actors>>
     \/ part = "actors" /\ Protocol!DecisionNext
          /\ UNCHANGED <<vars, chat, panel, reports, guard, socketVars>>
     \/ part = "chat" /\ Turn!Next /\ UNCHANGED <<vars, panel, reports, guard, socketVars, actors>>
     \/ part = "panel" /\ Panel!Next /\ UNCHANGED <<vars, chat, reports, guard, socketVars, actors>>
     \/ part = "report" /\ Report!Next /\ UNCHANGED <<vars, chat, panel, guard, socketVars, actors>>
     \/ part = "stream" /\ GuardNext
          /\ UNCHANGED <<vars, chat, panel, reports, socketVars, actors>>
     \/ part = "socket" /\ SocketNext
          /\ UNCHANGED <<vars, chat, panel, reports, guard, actors>>

(* DecisionChain!FairSpec, or the Spec of another part *)
ConversationsSpec ==
  /\ ConversationsInit
  /\ [][ConversationsNext]_<<part, vars, chat, panel, reports, guard, socketVars, actors, universe>>
  /\ \A c \in Callers : WF_vars(part = "decision" /\ Continues(c))
  /\ \A k \in Keys : WF_vars(part = "decision" /\ LeaseRunsOut(k) /\ ~Claimed(k))

(* The properties of the other parts. *)
EarlierTurnsKnown == Turn!EarlierTurnsKnown
LastChoiceShown   == Panel!LastChoiceShown
OutcomesKept      == Report!OutcomesKept
DecisionSound     == Protocol!DecisionSound
=============================================================================
