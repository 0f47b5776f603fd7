------------------------------ MODULE Reports ------------------------------
(***************************************************************************)
(* Reports a model writes while the client reads along: the morning brief  *)
(* (services/brief.py, agents/brief_graph.py) and the deep research        *)
(* (ai/deep_research.py).                                                  *)
(*                                                                         *)
(* A report is a row, first marked as generating.  The generator yields    *)
(* progress and text to the client and stores the outcome at its end; the  *)
(* client may go away whenever it has yielded, which ends the generator    *)
(* right there: the clause of the code it is in says what is still stored. *)
(* A call of a model, or a transaction, may fail, and the process may die. *)
(*                                                                         *)
(* Of a text only counts whether there is any and which engine wrote it;   *)
(* what is assembled for the model, and the wording, are left out.         *)
(*                                                                         *)
(* StoresAgain is a faulty variant of the definition after it.             *)
(***************************************************************************)
EXTENDS Naturals, FiniteSets

CONSTANTS
  Ids,           \* reports
  Engines,       \* brief_engine: "graph", "single"
  Questions,     \* what a planner may ask
  Concurrency,   \* research_subquestion_concurrency
  MaxRevisions,  \* brief_max_revisions, at most _REVISION_CAP
  MaxFaults      \* bound: calls and transactions that fail, and crashes

VARIABLES
  row,      \* tables morning_briefs, research_reports
  gen,      \* the local state of each generator
  faults

reports == <<row, gen, faults>>

Kinds    == {"brief", "research"}
Analysts == {"market", "capital", "news", "macro"}
NoText   == [by |-> "nobody", size |-> "none"]
NoRow    == [status |-> "none", text |-> NoText]
Idle     == [kind |-> "brief", engine |-> "single", pc |-> "idle", within |-> "nothing",
             ran |-> {}, revisions |-> 0, judged |-> 0, passed |-> FALSE,
             asked |-> [q \in Questions |-> "no"], late |-> FALSE,
             text |-> NoText, saved |-> FALSE]

Fault == faults < MaxFaults /\ faults' = faults + 1
Goes(g, changes) == gen' = [gen EXCEPT ![g] = changes]
At(g, pc) == gen[g].pc = pc
Asked(g, state) == {q \in Questions : gen[g].asked[q] = state}

Init ==
  /\ row = [g \in Ids |-> NoRow] /\ gen = [g \in Ids |-> Idle]
  /\ faults = 0

(* The first event is the id of the report. *)
Ask(g) ==
  \E kind \in Kinds, engine \in Engines :
    /\ At(g, "idle") /\ (kind = "research" => engine = "single")
    /\ Goes(g, [gen[g] EXCEPT !.kind = kind, !.engine = engine, !.pc = "named"])
    /\ UNCHANGED <<row, faults>>

(* _persist *)
Persist(g, status) == row' = [row EXCEPT ![g] = [status |-> status, text |-> gen[g].text]]

(* _save, and where the generator goes on: what was stored once is not     *)
(* stored again.                                                           *)
StoresAgain(g, status, pc) ==
  \/ Persist(g, status) /\ Goes(g, [gen[g] EXCEPT !.pc = pc, !.saved = TRUE]) /\ UNCHANGED faults
  \/ ~gen[g].saved /\ Fault /\ UNCHANGED row /\ Goes(g, [gen[g] EXCEPT !.pc = pc])
Save(g, status, pc) ==
  \/ gen[g].saved /\ Goes(g, [gen[g] EXCEPT !.pc = pc]) /\ UNCHANGED <<row, faults>>
  \/ /\ ~gen[g].saved /\ Persist(g, status) /\ UNCHANGED faults
     /\ Goes(g, [gen[g] EXCEPT !.pc = pc, !.saved = TRUE])
  \/ ~gen[g].saved /\ Fault /\ UNCHANGED row /\ Goes(g, [gen[g] EXCEPT !.pc = pc])

Open(g) ==
  LET next == IF gen[g].kind = "brief" THEN "assemble" ELSE "plan" IN
  /\ At(g, "named")
  /\ \/ Persist(g, "generating") /\ UNCHANGED faults
          /\ Goes(g, [gen[g] EXCEPT !.pc = next,
                                    !.within = IF next = "plan" THEN "try" ELSE "nothing"])
     \/ Fault /\ UNCHANGED row /\ Goes(g, [gen[g] EXCEPT !.pc = "done"])

(* build_data_pack; if it fails the client is told before the row is.      *)
Assemble(g) ==
  /\ At(g, "assemble")
  /\ \/ Goes(g, [gen[g] EXCEPT !.pc = IF gen[g].engine = "graph" THEN "graph" ELSE "text",
                               !.within = "try"])
          /\ UNCHANGED faults
     \/ Fault /\ Goes(g, [gen[g] EXCEPT !.pc = "lost"])
  /\ UNCHANGED row

StoreLost(g) ==
  /\ At(g, "lost") /\ Goes(g, [gen[g] EXCEPT !.pc = "done"])
  /\ \/ Persist(g, "failed") /\ UNCHANGED faults
     \/ Fault /\ UNCHANGED row
-----------------------------------------------------------------------------
(* The graph: planner, four analysts at the same time, editor, evaluator,  *)
(* and the loop of evaluator and editor_revise, which is bounded.          *)
Needs(n) == CASE n = "planner" -> {}
              [] n \in Analysts -> {"planner"}
              [] n = "editor" -> Analysts

Node(g) ==
  \E n \in Analysts \cup {"planner", "editor"} :
    /\ At(g, "graph") /\ n \notin gen[g].ran /\ Needs(n) \subseteq gen[g].ran
    /\ Goes(g, [gen[g] EXCEPT !.ran = @ \cup {n},
                              !.pc = IF n = "editor" THEN "judge" ELSE "graph"])
    /\ UNCHANGED <<row, faults>>

(* _route_after_review *)
AfterReview(g, pass) == IF ~pass /\ gen[g].revisions < MaxRevisions THEN "revise" ELSE "review"

Judge(g) ==
  \E pass \in BOOLEAN :
    /\ At(g, "judge")
    /\ Goes(g, [gen[g] EXCEPT !.judged = gen[g].revisions, !.passed = pass,
                              !.pc = AfterReview(g, pass)])
    /\ UNCHANGED <<row, faults>>

AfterRevision(g) == "judge"
Revise(g) ==
  /\ At(g, "revise")
  /\ Goes(g, [gen[g] EXCEPT !.revisions = @ + 1, !.pc = AfterRevision(g)])
  /\ UNCHANGED <<row, faults>>

Review(g) ==
  /\ At(g, "review") /\ Goes(g, [gen[g] EXCEPT !.pc = "text"])
  /\ UNCHANGED <<row, faults>>
-----------------------------------------------------------------------------
(* The research: a plan of at least one question, a pool that answers      *)
(* them, and the deadline, which is looked at when an answer is taken.     *)
Plan(g) ==
  \E plan \in SUBSET Questions \ {{}} :
    /\ At(g, "plan")
    /\ Goes(g, [gen[g] EXCEPT !.pc = "planned",
                  !.asked = [q \in Questions |-> IF q \in plan THEN "waiting" ELSE "no"]])
    /\ UNCHANGED <<row, faults>>

Pool(g) ==
  /\ At(g, "planned") /\ Goes(g, [gen[g] EXCEPT !.pc = "asking"])
  /\ UNCHANGED <<row, faults>>

Works(g) == gen[g].pc \in {"asking", "joining", "closing"}

Start(g) ==
  \E q \in Asked(g, "waiting") :
    /\ Works(g) /\ Cardinality(Asked(g, "running")) < Concurrency
    /\ Goes(g, [gen[g] EXCEPT !.asked[q] = "running"])
    /\ UNCHANGED <<row, faults>>

Answer(g) ==
  \E q \in Asked(g, "running") :
    /\ Works(g) /\ Goes(g, [gen[g] EXCEPT !.asked[q] = "answered"])
    /\ UNCHANGED <<row, faults>>

Deadline(g) ==
  /\ At(g, "asking") /\ ~gen[g].late /\ Goes(g, [gen[g] EXCEPT !.late = TRUE])
  /\ UNCHANGED <<row, faults>>

Take(g) ==
  LET cancelled == [q \in Questions |-> IF gen[g].asked[q] = "waiting" THEN "cancelled"
                                        ELSE gen[g].asked[q]]
  IN  /\ At(g, "asking")
      /\ \E q \in Asked(g, "answered") :
           Goes(g, IF gen[g].late THEN [gen[g] EXCEPT !.asked = cancelled, !.pc = "joining"]
                   ELSE [gen[g] EXCEPT !.asked[q] = "used",
                           !.pc = IF Asked(g, "waiting") \cup Asked(g, "running")
                                       \cup Asked(g, "answered") = {q} THEN "joining" ELSE @])
      /\ UNCHANGED <<row, faults>>

(* The end of the pool waits for the calls it has begun. *)
Settled(g) == Asked(g, "waiting") \cup Asked(g, "running") = {}
Join(g) ==
  /\ At(g, "joining") /\ Settled(g) /\ Goes(g, [gen[g] EXCEPT !.pc = "text"])
  /\ UNCHANGED <<row, faults>>
-----------------------------------------------------------------------------
(* The text: the final draft of the graph in pieces, or what the model     *)
(* streams.                                                                *)
Write(g) ==
  LET engine == IF gen[g].within = "handler" THEN "single" ELSE gen[g].engine IN
  /\ At(g, "text") /\ gen[g].text.size # "full"
  /\ \E size \in {"part", "full"} :
       Goes(g, [gen[g] EXCEPT !.text = [by |-> engine, size |-> size]])
  /\ UNCHANGED <<row, faults>>

Finish(g) ==
  /\ At(g, "text") /\ gen[g].text.size = "full"
  /\ Save(g, "ready", "end")

(* The last event, with the status of the row. *)
End(g) == /\ At(g, "end") /\ Goes(g, [gen[g] EXCEPT !.pc = "done"])
          /\ UNCHANGED <<row, faults>>

(* A call of a model fails: the brief is written without the graph, if     *)
(* nothing was sent yet; else what there is becomes a failed report.       *)
ModelFails(g) ==
  /\ gen[g].pc \in {"graph", "judge", "revise", "text"} /\ Fault
  /\ gen[g].engine = "graph" /\ gen[g].within = "try" => gen[g].pc # "text"
  /\ gen[g].text.size # "full"
  /\ Goes(g, IF gen[g].engine = "graph" /\ gen[g].within = "try"
             THEN [gen[g] EXCEPT !.pc = "text", !.within = "handler"]
             ELSE [gen[g] EXCEPT !.pc = "broken", !.within = "handler"])
  /\ UNCHANGED row

Broken(g) ==
  /\ At(g, "broken") /\ Save(g, "failed", "done")
-----------------------------------------------------------------------------
(* Where the generator has yielded an event, the client may be gone.       *)
Suspended(g) ==
  \/ gen[g].pc \in {"named", "lost", "judge", "revise", "review", "plan", "planned", "joining", "end"}
  \/ At(g, "graph") /\ gen[g].ran # {}
  \/ At(g, "asking") /\ Asked(g, "used") # {}
  \/ At(g, "text") /\ ~(gen[g].kind = "brief" /\ gen[g].engine = "single" /\ gen[g].text = NoText)

Remains(g) == IF gen[g].text.size = "none" THEN "failed" ELSE "partial"

Leave(g) ==
  /\ Suspended(g)
  /\ IF gen[g].within # "try"
     THEN Goes(g, [gen[g] EXCEPT !.pc = "done"]) /\ UNCHANGED <<row, faults>>
     ELSE IF gen[g].pc \in {"asking", "joining"}
          THEN Goes(g, [gen[g] EXCEPT !.pc = "closing"]) /\ UNCHANGED <<row, faults>>
          ELSE Save(g, Remains(g), "done")

(* A client that leaves does not cancel the questions of the pool. *)
Close(g) ==
  /\ At(g, "closing") /\ Settled(g) /\ Save(g, Remains(g), "done")

Crash ==
  /\ Fault
  /\ gen' = [g \in Ids |-> IF At(g, "idle") THEN gen[g] ELSE [gen[g] EXCEPT !.pc = "dead"]]
  /\ UNCHANGED row

Next ==
  \/ \E g \in Ids :
       \/ Ask(g) \/ Open(g) \/ Assemble(g) \/ StoreLost(g)
       \/ Node(g) \/ Judge(g) \/ Revise(g) \/ Review(g)
       \/ Plan(g) \/ Pool(g) \/ Start(g) \/ Answer(g) \/ Deadline(g) \/ Take(g) \/ Join(g)
       \/ Write(g) \/ Finish(g) \/ End(g) \/ ModelFails(g) \/ Broken(g)
       \/ Leave(g) \/ Close(g)
  \/ Crash

Spec == Init /\ [][Next]_reports
-----------------------------------------------------------------------------
(* The graph shows a draft that rests on all four analyses, that was       *)
(* judged after its last revision, and that was revised again if it did    *)
(* not pass, until there were MaxRevisions of them.                        *)
JudgedBeforeShown ==
  \A g \in Ids :
    gen[g].text.by = "graph" =>
      /\ Analysts \subseteq gen[g].ran /\ gen[g].judged = gen[g].revisions
      /\ gen[g].passed \/ gen[g].revisions = MaxRevisions

(* A report that nothing failed for is never left as generating: its end,  *)
(* and a client that goes away, mark it ready, failed or partial (_save in *)
(* the clause of GeneratorExit).  A client that goes away while the brief  *)
(* is written without the graph, or is told that the data could not be     *)
(* assembled, does leave it so: no clause catches that, after a fault.     *)
EndsMarked ==
  \A g \in Ids : At(g, "done") /\ faults = 0 => row[g].status # "generating"

(* A report that is ready stays ready, with its text, whenever the client  *)
(* goes away and whatever fails; a text that is not complete is never      *)
(* ready; and EndsMarked.  A brief of the graph is JudgedBeforeShown.      *)
OutcomesKept ==
  /\ []JudgedBeforeShown
  /\ [][\A g \in Ids : row[g].status = "ready" => row'[g] = row[g]]_reports
  /\ [](\A g \in Ids : row[g].status = "ready" => row[g].text.size = "full")
  /\ []EndsMarked
=============================================================================
