---------------------------- MODULE BacktestPage ----------------------------
(***************************************************************************)
(* The page that runs backtests, frontend app/(app)/backtest/page.tsx with *)
(* lib/api/backtest.ts, against the checks of schemas/backtest.py.  It     *)
(* lists the saved strategies once, when it is mounted; whoever picks one  *)
(* runs the version the list named.  A grid search is a job: the page      *)
(* posts it, polls it, and may cancel it at any moment.                    *)
(*                                                                         *)
(* Each await is a place where other actions come in; the answer to a      *)
(* request is computed when it arrives.  What the server does with a job   *)
(* is BacktestJobs; here it is active or ended.  Codes, dates, capital,    *)
(* the history, the review and the charts are left out.  A key that has no *)
(* value in the form is shown with its default.                            *)
(*                                                                         *)
(* StaysBound is a faulty variant of the definition after it.              *)
(***************************************************************************)
EXTENDS StrategyVersions, FiniteSetsExt, Functions

CONSTANTS
  CandidateSets,   \* what may be typed as the candidates of a parameter
  MaxCombinations  \* MAX_GRID_COMBINATIONS, 64 in the code

VARIABLES
  saved,      \* strategy -> the head that the list named
  form,       \* what the user sees and edits
  run,        \* the run in flight
  report,     \* the result that is shown
  search,     \* the grid search in flight
  job,        \* its job on the server
  found       \* the rows that are shown

bench == <<saved, form, run, report, search, job, found>>

NoReport == [known |-> FALSE]
NoSearch == [pc |-> "idle"]
NoJob    == [status |-> "none", cancel |-> FALSE]
NotFound == [known |-> FALSE]

BenchInit ==
  /\ saved = [s \in StrategyIds |-> Absent]
  /\ form = [chosen |-> "none", type |-> "dual_ma", params |-> Catalog["dual_ma"],
             grid |-> FALSE, candidates |-> NoParams]
  /\ run = [pc |-> "idle"] /\ report = NoReport
  /\ search = NoSearch /\ job = NoJob /\ found = NotFound

(* strategiesApi.getList *)
LoadSaved ==
  /\ \A s \in StrategyIds : saved[s] = Absent
  /\ saved' = [s \in StrategyIds |-> IF Exists(s) THEN head[s] ELSE Absent]
  /\ UNCHANGED <<form, run, report, search, job, found>>
-----------------------------------------------------------------------------
ChooseSaved(s) ==
  /\ saved[s] # Absent /\ saved[s].kind = "builtin"
  /\ form' = [form EXCEPT !.chosen = s, !.type = saved[s].type, !.params = saved[s].params,
                          !.grid = FALSE]
  /\ found' = NotFound
  /\ UNCHANGED <<saved, run, report, search, job>>

ChooseNone ==
  /\ form' = [form EXCEPT !.chosen = "none"]
  /\ UNCHANGED <<saved, run, report, search, job, found>>

ChooseType(type) ==
  /\ form' = [form EXCEPT !.chosen = "none", !.type = type, !.params = Catalog[type]]
  /\ UNCHANGED <<saved, run, report, search, job, found>>

ToggleGrid ==
  /\ form' = [form EXCEPT !.grid = ~@]
  /\ UNCHANGED <<saved, run, report, search, job, found>>

Updated(params, new) ==
  [k \in DOMAIN params \cup DOMAIN new |-> IF k \in DOMAIN new THEN new[k] ELSE params[k]]

(* Editing a parameter unbinds the form from the saved strategy. *)
StaysBound(k, value) == [form EXCEPT !.params = Updated(@, [x \in {k} |-> value])]
Edited(k, value) ==
  [form EXCEPT !.chosen = "none", !.params = Updated(@, [x \in {k} |-> value])]

EditParam(k, value) ==
  /\ ~form.grid /\ k \in DOMAIN Catalog[form.type]
  /\ form' = Edited(k, value)
  /\ UNCHANGED <<saved, run, report, search, job, found>>

EditCandidates(k, values) ==
  /\ form.grid /\ k \in DOMAIN Catalog[form.type]
  /\ form' = [form EXCEPT !.candidates = Updated(@, [x \in {k} |-> values])]
  /\ UNCHANGED <<saved, run, report, search, job, found>>

Shown == [type |-> form.type, params |-> Filled(form.type, form.params)]
-----------------------------------------------------------------------------
Run ==
  /\ ~form.grid /\ run.pc = "idle"
  /\ run' = [pc |-> "sent", shown |-> Shown, type |-> form.type, params |-> form.params,
             of |-> form.chosen,
             version |-> IF form.chosen = "none" THEN 0 ELSE saved[form.chosen].version]
  /\ UNCHANGED <<saved, form, report, search, job, found>>

(* RunBacktestRequest, and _config_from_run_request: the definition that    *)
(* runs, if the request is accepted                                         *)
Versioned == run.of # "none"
RunAccepted ==
  /\ ParamsValid(run.type, run.params)
  /\ Versioned => Exists(run.of) /\ Row(run.of, run.version).definition.kind = "builtin"
Computed ==
  IF Versioned THEN LET d == Row(run.of, run.version).definition IN
                    [type |-> d.type, params |-> d.params]
               ELSE [type |-> run.type, params |-> Filled(run.type, run.params)]

RunAnswered ==
  /\ run.pc = "sent" /\ run' = [pc |-> "idle"]
  /\ \/ RunAccepted /\ report' = [known |-> TRUE, shown |-> run.shown, computed |-> Computed]
     \/ UNCHANGED report
  /\ UNCHANGED <<saved, form, search, job, found>>
-----------------------------------------------------------------------------
(* runGrid *)
Grid ==
  LET current == Filled(form.type, form.params) IN
  [k \in DOMAIN current |-> IF k \in DOMAIN form.candidates THEN form.candidates[k]
                            ELSE {current[k]}]

Combinations(grid) == {f \in [DOMAIN grid -> UNION Range(grid)] : \A k \in DOMAIN grid : f[k] \in grid[k]}

StartGrid ==
  /\ form.grid /\ search.pc = "idle"
  /\ found' = NotFound
  /\ IF Cardinality(Combinations(Grid)) <= MaxCombinations
     THEN search' = [pc |-> "posting", type |-> form.type, grid |-> Grid, asking |-> FALSE,
                     aborted |-> FALSE, lost |-> FALSE]
     ELSE UNCHANGED search
  /\ UNCHANGED <<saved, form, run, report, job>>

(* GridSearchRequest: every combination is validated. *)
Posted ==
  /\ search.pc = "posting"
  /\ \/ /\ \A f \in Combinations(search.grid) : ParamsValid(search.type, f)
        /\ job' = [status |-> "active", cancel |-> FALSE]
        /\ search' = [search EXCEPT !.pc = "sleeping"]
     \/ search' = NoSearch /\ UNCHANGED job
  /\ UNCHANGED <<saved, form, run, report, found>>

JobEnds ==
  /\ job.status = "active"
  /\ \E status \in {"completed", "failed"} :
       job' = [job EXCEPT !.status = IF job.cancel THEN "cancelled" ELSE status]
  /\ UNCHANGED <<saved, form, run, report, search, found>>

(* cancelGrid asks the server, if it knows the job by now, and then aborts  *)
(* the polling; the request may get lost.                                   *)
Cancelled == [job EXCEPT !.cancel = @ \/ job.status = "active"]

CancelGrid ==
  /\ form.grid /\ search.pc # "idle" /\ ~search.asking /\ ~search.aborted
  /\ search' = IF search.pc = "posting" THEN [search EXCEPT !.aborted = TRUE]
               ELSE [search EXCEPT !.asking = TRUE]
  /\ UNCHANGED <<saved, form, run, report, job, found>>

CancelAsked ==
  /\ search.pc # "idle" /\ search.asking
  /\ search' = [search EXCEPT !.asking = FALSE, !.aborted = TRUE]
  /\ job' = Cancelled \/ UNCHANGED job
  /\ UNCHANGED <<saved, form, run, report, found>>

(* The loop of gridSearch: it sleeps, unless it was aborted, and asks. *)
Poll ==
  /\ search.pc = "sleeping" /\ ~search.aborted
  /\ search' = [search EXCEPT !.pc = "polling"]
  /\ UNCHANGED <<saved, form, run, report, job, found>>

Polled ==
  /\ search.pc = "polling"
  /\ \/ job.status = "active" /\ search' = [search EXCEPT !.pc = "sleeping"] /\ UNCHANGED found
     \/ /\ job.status # "active" /\ search' = NoSearch
        /\ found' = IF job.status = "completed"
                    THEN [known |-> TRUE, rows |-> Combinations(search.grid)] ELSE NotFound
     \/ search' = NoSearch /\ UNCHANGED found
  /\ UNCHANGED <<saved, form, run, report, job>>

(* AbortError: the job is cancelled before the page is told. *)
StopPolling ==
  /\ search.pc = "sleeping" /\ search.aborted
  /\ \/ job' = Cancelled /\ search' = [pc |-> "idle", stopped |-> TRUE, lost |-> FALSE]
     \/ UNCHANGED job /\ search' = [pc |-> "idle", stopped |-> TRUE, lost |-> TRUE]
  /\ UNCHANGED <<saved, form, run, report, found>>

ApplyRow(row) ==
  /\ form.grid /\ found.known /\ row \in found.rows
  /\ form' = [form EXCEPT !.chosen = "none", !.params = Updated(@, row), !.grid = FALSE]
  /\ found' = NotFound
  /\ UNCHANGED <<saved, run, report, search, job>>
-----------------------------------------------------------------------------
Keys == UNION {DOMAIN Catalog[type] : type \in DOMAIN Catalog}

BenchNext ==
  \/ LoadSaved \/ ChooseNone \/ ToggleGrid
  \/ \E s \in StrategyIds : ChooseSaved(s)
  \/ \E type \in DOMAIN Catalog : ChooseType(type)
  \/ \E k \in Keys : \/ \E value \in 1 .. MaxValue : EditParam(k, value)
                     \/ \E values \in CandidateSets : EditCandidates(k, values)
  \/ Run \/ RunAnswered
  \/ StartGrid \/ Posted \/ JobEnds \/ CancelGrid \/ CancelAsked \/ Poll \/ Polled \/ StopPolling
  \/ found.known /\ \E row \in found.rows : ApplyRow(row)

PageNext ==
  \/ StrategiesNext /\ UNCHANGED bench
  \/ BenchNext /\ UNCHANGED strategies

BenchSpec == StrategiesInit /\ BenchInit /\ [][PageNext]_<<strategies, bench>>
-----------------------------------------------------------------------------
(* The report was computed with the type and the parameters that the form   *)
(* showed when the run was asked for, though a form that is bound to a      *)
(* saved strategy sends a version and the server ignores the rest; and the  *)
(* job of a search whose polling was stopped is cancelled or over, unless   *)
(* the request to cancel it got lost (run, gridSearch).                     *)
RunsWhatIsShown ==
  /\ report.known => report.computed = report.shown
  /\ search.pc = "idle" /\ search # NoSearch /\ ~search.lost => job.cancel \/ job.status # "active"
=============================================================================
