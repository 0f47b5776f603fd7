----------------------------- MODULE Ingestion -----------------------------
(***************************************************************************)
(* The stored prices of one instrument, who writes them and how far a      *)
(* reader may trust them: services/ingest.py, backtest/data.py and         *)
(* scripts/bootstrap_prediction_market.py.                                 *)
(*                                                                         *)
(* A backfill holds the lock of the instrument, fetches and stores one     *)
(* dataset after the other and records in a run what it found stored       *)
(* afterwards: the range, and the oldest and the newest stamp.  A reader   *)
(* accepts the bars if the latest run that vouches for them still agrees   *)
(* with the tables.  The bulk import takes no lock; it writes day by day   *)
(* and inserts its run afterwards.  Each transaction is an action, and so  *)
(* is the answer of a provider, which is stamped before it is stored.      *)
(*                                                                         *)
(* Prices are left out: a row is who wrote it, and when.  News, capital    *)
(* flows and financials are one dataset that fails or not, minute bars are *)
(* left out.  No day is a suspension.                                      *)
(*                                                                         *)
(* MarkOnly and WholeWindow are faulty variants of the definition after    *)
(* each; the specification does not use them.                              *)
(***************************************************************************)
EXTENDS Integers, Sequences, FiniteSets, FiniteSetsExt

CONSTANTS
  Days,      \* the trading days of the instrument, from 1 on
  Ranges,    \* the windows backfills ask for: <<first, last>>
  Imports,   \* those of the bulk import; readers ask for any of both
  Writers,   \* threads that run a backfill
  MaxRuns,   \* bound: runs that are recorded
  MaxUpsets  \* bound: crashes, calls that fail, and bulk imports

ASSUME DaysAssumption == Days \subseteq Nat \ {0}
ASSUME RangesAssumption ==
  \A r \in Ranges \cup Imports :
    r \in Days \X Days /\ r[1] <= r[2] /\ r[1] .. r[2] \subseteq Days
ASSUME WritersAssumption == "nobody" \notin Writers

VARIABLES
  clock,     \* stamps taken so far
  bars,      \* table daily_bars: the row of each day
  factors,   \* table adjust_factors: the row of each day
  runs,      \* table ingestion_runs, in the order of insertion
  lock,      \* who backfills the instrument
  writer,    \* the local state of each backfill
  manifest,  \* table tushare_bootstrap_daily_manifests: days
  bulk,      \* the local state of the bulk import
  upsets

store == <<clock, bars, factors, runs, lock, writer, manifest, bulk, upsets>>

Nobody == "nobody"
NoRow  == [at |-> 0, by |-> 0, source |-> "none"]
Bulk   == 0                                        \* who writes for the bulk import

Datasets   == {"daily", "adjust"}
Window(r)  == r[1] .. r[2]
Table(set) == IF set = "daily" THEN bars ELSE factors
Present(t, S) == {d \in S : t[d] # NoRow}
Holds(r, s) == r[1] <= s[1] /\ s[2] <= r[2]
Now  == clock + 1
Tick == clock' = Now
Upset == upsets < MaxUpsets /\ upsets' = upsets + 1

(* _dataset_audit_template *)
Template == [state |-> "open", rows |-> 0, first |-> 0, last |-> 0, floor |-> 0, mark |-> 0]
Absent   == [Template EXCEPT !.state = "absent"]
Failed   == [Template EXCEPT !.state = "failed"]

NoAudits == [s \in Datasets |-> Absent]
Idle     == [pc |-> "idle", run |-> 0, set |-> "daily", rows |-> {}, at |-> 0, audits |-> NoAudits]
IdleBulk == [pc |-> "idle", left |-> {}, at |-> 0, range |-> <<0, 0>>, audits |-> NoAudits]

(* _dataset_actual_range, _dataset_fetched_bounds: the rows of a dataset   *)
(* that count for a window; the last factor before it is one of them.      *)
Rows(set, r) ==
  LET before == Present(factors, {d \in Days : d < r[1]})
  IN  Present(Table(set), Window(r))
        \cup IF set = "adjust" /\ before # {} THEN {Max(before)} ELSE {}

Seen(set, r) ==
  LET rows   == Rows(set, r)
      stamps == {Table(set)[d].at : d \in rows}
  IN  IF rows = {} THEN [first |-> 0, last |-> 0, floor |-> 0, mark |-> 0]
      ELSE [first |-> Min(rows), last |-> Max(rows), floor |-> Min(stamps), mark |-> Max(stamps)]

(* _completed_dataset_audit: an empty answer fails for bars only.  Of the  *)
(* number of rows it counts whether there are any.                         *)
CompletedAudit(set, r, rows) ==
  LET seen == Seen(set, r) IN
  IF rows = {} /\ set = "daily" THEN Failed
  ELSE [state |-> "ok", rows |-> IF rows = {} THEN 0 ELSE 1, first |-> seen.first,
        last |-> seen.last, floor |-> seen.floor, mark |-> seen.mark]
-----------------------------------------------------------------------------
IngestInit ==
  /\ clock = 0
  /\ bars = [d \in Days |-> NoRow] /\ factors = [d \in Days |-> NoRow]
  /\ runs = <<>> /\ lock = Nobody /\ upsets = 0
  /\ writer = [w \in Writers |-> Idle]
  /\ manifest = {} /\ bulk = IdleBulk

At(w, pc) == writer[w].pc = pc
Asked(w)  == runs[writer[w].run].range

(* _code_backfill_lock *)
LockFree == lock = Nobody

(* backfill_codes, or ingest_daily and ingest_adjust, which have a single  *)
(* dataset (_standalone_dataset_write): take the lock, insert the run.     *)
Begin(w) ==
  \E r \in Ranges, sets \in {Datasets, {"daily"}, {"adjust"}} :
    LET audits == [s \in Datasets |-> IF s \in sets THEN Template ELSE Absent] IN
    /\ At(w, "idle") /\ LockFree /\ Len(runs) < MaxRuns
    /\ lock' = w /\ Tick
    /\ runs' = Append(runs, [range |-> r, status |-> "running", bulk |-> FALSE, audits |-> audits,
                             started |-> Now, completed |-> 0])
    /\ writer' = [writer EXCEPT ![w] =
         [Idle EXCEPT !.pc = "fetch", !.run = Len(runs) + 1, !.audits = audits,
                      !.set = IF "daily" \in sets THEN "daily" ELSE "adjust"]]
    /\ UNCHANGED <<bars, factors, manifest, bulk, upsets>>

(* _ingest_daily_raw, _ingest_adjust_raw: the provider answers with some   *)
(* of the days that were asked for.                                        *)
Fetch(w) ==
  /\ At(w, "fetch") /\ Tick
  /\ \E rows \in SUBSET Window(Asked(w)) :
       writer' = [writer EXCEPT ![w] = [@ EXCEPT !.pc = "store", !.rows = rows, !.at = Now]]
  /\ UNCHANGED <<bars, factors, runs, lock, manifest, bulk, upsets>>

(* _upsert *)
Stored(t, w) ==
  [d \in Days |-> IF d \in writer[w].rows
                  THEN [at |-> writer[w].at, by |-> writer[w].run, source |-> "baostock"]
                  ELSE t[d]]

Store(w) ==
  /\ At(w, "store")
  /\ IF writer[w].set = "daily" THEN bars' = Stored(bars, w) /\ UNCHANGED factors
                                ELSE factors' = Stored(factors, w) /\ UNCHANGED bars
  /\ writer' = [writer EXCEPT ![w].pc = "audit"]
  /\ UNCHANGED <<clock, runs, lock, manifest, bulk, upsets>>

(* The task of the dataset is over; the next one, or the end of the run. *)
Recorded(w, audit) ==
  LET old  == writer[w]
      next == old.set = "daily" /\ old.audits["adjust"] = Template
  IN  [writer EXCEPT ![w] =
         [old EXCEPT !.audits[old.set] = audit, !.rows = {}, !.at = 0,
                     !.set = IF next THEN "adjust" ELSE old.set,
                     !.pc  = IF next THEN "fetch" ELSE "finish"]]

Audit(w) ==
  /\ At(w, "audit")
  /\ writer' = Recorded(w, CompletedAudit(writer[w].set, Asked(w), writer[w].rows))
  /\ UNCHANGED <<clock, bars, factors, runs, lock, manifest, bulk, upsets>>

(* A provider, a check of its answer or the database fails. *)
TaskFails(w) ==
  /\ writer[w].pc \in {"fetch", "store", "audit"} /\ Upset
  /\ writer' = Recorded(w, Failed)
  /\ UNCHANGED <<clock, bars, factors, runs, lock, manifest, bulk>>

(* The end of backfill_codes, _finalize_ingestion_run.  The datasets that  *)
(* are left out could only make it partial, which the reader treats alike. *)
Outcome(audits) ==
  LET states == {audits[s].state : s \in Datasets}
  IN  IF "failed" \notin states THEN "ready" ELSE IF "ok" \in states THEN "partial" ELSE "failed"

Finish(w) ==
  LET audits == writer[w].audits IN
  /\ At(w, "finish") /\ Tick
  /\ runs' = [runs EXCEPT ![writer[w].run] =
       [@ EXCEPT !.status = Outcome(audits), !.audits = audits, !.completed = Now]]
  /\ lock' = Nobody /\ writer' = [writer EXCEPT ![w] = Idle]
  /\ UNCHANGED <<bars, factors, manifest, bulk, upsets>>

(* The process of a backfill dies: the database drops the lock of its      *)
(* session, the run stays.                                                 *)
Crash(w) ==
  /\ ~At(w, "idle") /\ Upset
  /\ lock' = Nobody /\ writer' = [writer EXCEPT ![w] = Idle]
  /\ UNCHANGED <<clock, bars, factors, runs, manifest, bulk>>

-----------------------------------------------------------------------------
(* The bulk import: bootstrap_market brings every day that has no manifest *)
(* and refuses to go on once a day that has one was overwritten.           *)
Imported(d) == bars[d].source = "tushare" /\ factors[d].source = "tushare"

BulkStart ==
  \E r \in Imports :
    /\ bulk = IdleBulk /\ Upset
    /\ \A d \in manifest \cap Window(r) : Imported(d)
    /\ bulk' = [bulk EXCEPT !.pc = "import", !.left = Window(r) \ manifest, !.range = r]
    /\ UNCHANGED <<clock, bars, factors, runs, lock, writer, manifest>>

BulkFetch ==
  /\ bulk.pc = "import" /\ bulk.left # {} /\ bulk.at = 0 /\ Tick
  /\ bulk' = [bulk EXCEPT !.at = Now]
  /\ UNCHANGED <<bars, factors, runs, lock, writer, manifest, upsets>>

BulkStore ==
  LET day == Min(bulk.left)
      row == [at |-> bulk.at, by |-> Bulk, source |-> "tushare"]
  IN  /\ bulk.pc = "import" /\ bulk.at # 0
      /\ bars' = [bars EXCEPT ![day] = row] /\ factors' = [factors EXCEPT ![day] = row]
      /\ manifest' = manifest \cup {day}
      /\ bulk' = [bulk EXCEPT !.left = @ \ {day}, !.at = 0]
      /\ UNCHANGED <<clock, runs, lock, writer, upsets>>

(* bootstrap_audits reads the sources, the stamps of the bars and those of *)
(* the factors one after the other, without the lock.                      *)
BulkCheck ==
  /\ bulk.pc = "import" /\ bulk.left = {}
  /\ bulk' = IF \A d \in Window(bulk.range) : Imported(d) THEN [bulk EXCEPT !.pc = "daily"]
                                                          ELSE IdleBulk
  /\ UNCHANGED <<clock, bars, factors, runs, lock, writer, manifest, upsets>>

BulkMark(set) ==
  LET audit == CompletedAudit(set, bulk.range, Window(bulk.range)) IN
  /\ bulk.pc = set
  /\ bulk' = [bulk EXCEPT !.audits[set] = audit,
                          !.pc = IF set = "daily" THEN "adjust" ELSE "run"]
  /\ UNCHANGED <<clock, bars, factors, runs, lock, writer, manifest, upsets>>

(* Its run replaces the earlier ones of the bulk import for the range, and *)
(* starts with the oldest row it vouches for.                              *)
BulkRun ==
  LET kept == [k \in DOMAIN runs |->
                 IF runs[k].bulk /\ runs[k].range = bulk.range
                 THEN [runs[k] EXCEPT !.status = "deleted"] ELSE runs[k]]
  IN  /\ bulk.pc = "run" /\ Len(runs) < MaxRuns /\ Tick
      /\ runs' = Append(kept, [range |-> bulk.range, status |-> "ready", bulk |-> TRUE,
                               audits |-> bulk.audits, completed |-> Now,
                               started |-> Min({bulk.audits[s].floor : s \in Datasets})])
      /\ bulk' = IdleBulk
      /\ UNCHANGED <<bars, factors, lock, writer, manifest, upsets>>

BulkFails ==
  /\ bulk # IdleBulk
  /\ bulk' = IdleBulk
  /\ UNCHANGED <<clock, bars, factors, runs, lock, writer, manifest, upsets>>
-----------------------------------------------------------------------------
(* The reader, load_bars_with_quality: one snapshot of the database.       *)
Overlapping(r) == {k \in DOMAIN runs : runs[k].status # "deleted"
                                         /\ Window(runs[k].range) \cap Window(r) # {}}

(* _primary_audit_covers: what was stored reaches from the first to the    *)
(* last bar there is now in the window that is read.                       *)
WholeWindow(k, r) ==
  LET audit == runs[k].audits["daily"]
  IN  /\ audit.state = "ok" /\ Holds(runs[k].range, r)
      /\ audit.first # 0 /\ audit.first <= r[1] /\ r[2] <= audit.last
PrimaryCovers(k, r) ==
  LET audit  == runs[k].audits["daily"]
      actual == LET rows == Rows("daily", r) IN IF rows = {} THEN Window(r) ELSE rows
  IN  /\ audit.state = "ok" /\ Holds(runs[k].range, r)
      /\ audit.first # 0 /\ audit.first <= Min(actual) /\ Max(actual) <= audit.last

(* _audit_watermark_matches *)
MarkOnly(k, set) ==
  LET audit == runs[k].audits[set] IN
  /\ audit.mark = Seen(set, runs[k].range).mark /\ audit.mark <= runs[k].completed
  /\ set = "daily" => audit.rows > 0 /\ audit.mark > 0
MarksMatch(k, set) ==
  LET audit == runs[k].audits[set]
      now   == Seen(set, runs[k].range)
  IN  /\ audit.floor = now.floor /\ audit.mark = now.mark
      /\ audit.mark <= runs[k].completed
      /\ set = "daily" => audit.rows > 0 /\ now.floor > 0 /\ runs[k].started <= audit.floor

(* _required_audits_match *)
RequiredMatch(k, r) ==
  /\ runs[k].status \in {"ready", "partial"}
  /\ PrimaryCovers(k, r)
  /\ runs[k].audits["adjust"].state = "ok" /\ Holds(runs[k].range, r)
  /\ \A s \in Datasets : MarksMatch(k, s)

Vouching(r) == {k \in Overlapping(r) : RequiredMatch(k, r)}
Covering(r) ==
  LET vouching == Vouching(r)
      latest   == Max({runs[k].started : k \in vouching})
  IN  Max({k \in vouching : runs[k].started = latest})

(* _run_attempts_required_dataset, _run_has_required_failure_or_running *)
Unsettled(k, set) == \/ runs[k].audits[set].state = "failed"
                     \/ runs[k].status = "running" /\ runs[k].audits[set].state = "open"
Attempts(k, r)    == Unsettled(k, "daily") \/ PrimaryCovers(k, r)
Disturbed(k)      == \E s \in Datasets : Unsettled(k, s)

(* _ingestion_run_quality_in_session *)
Quality(r) ==
  IF Vouching(r) = {}
  THEN IF \E k \in Overlapping(r) : Attempts(k, r) THEN "partial_ingestion" ELSE "untracked"
  ELSE IF \E k \in Overlapping(r) : Disturbed(k) /\ runs[k].started > runs[Covering(r)].completed
       THEN "partial_ingestion" ELSE "ok"

Load(r) == LET quality == Quality(r) IN
           IF quality # "ok" THEN quality
           ELSE IF Rows("adjust", r) = {} THEN "none" ELSE "full"
-----------------------------------------------------------------------------
IngestNext ==
  \/ \E w \in Writers : \/ Begin(w) \/ Fetch(w) \/ Store(w) \/ Audit(w)
                        \/ TaskFails(w) \/ Finish(w) \/ Crash(w)
  \/ BulkStart \/ BulkFetch \/ BulkStore \/ BulkCheck \/ BulkRun \/ BulkFails
  \/ \E s \in Datasets : BulkMark(s)

IngestSpec == IngestInit /\ [][IngestNext]_store
-----------------------------------------------------------------------------
(* Prices of one backfill are never mixed with those of another one, nor   *)
(* adjusted with a factor that was brought later: if a window loads as     *)
(* complete on the word of a backfill, its bars are from that backfill or  *)
(* from the bulk import, and no factor is from a later run.  The stamps    *)
(* can only tell because the lock keeps two backfills of an instrument     *)
(* apart and a run must be older than the oldest bar it vouches for.       *)
CertifiedRows ==
  \A r \in Ranges \cup Imports :
    LET k == Covering(r) IN
    Load(r) = "full" /\ ~runs[k].bulk =>
      /\ \A d \in Rows("daily", r)  : bars[d].by \in {k, Bulk}
      /\ \A d \in Rows("adjust", r) : factors[d].by <= k

(* A backfill that brought its range, days without a bar included, is      *)
(* accepted by the reader the moment it is recorded, unless the bulk       *)
(* import wrote into the range meanwhile.                                  *)
ReadyIsLoadable ==
  [][\A w \in Writers, r \in Ranges :
       LET k == writer[w].run
           own == /\ Rows("daily", r) # {} /\ \A d \in Rows("daily", r) : bars[d].by = k
                  /\ Rows("adjust", r) # {} /\ \A d \in Rows("adjust", r) : factors[d].by = k
       IN  At(w, "finish") /\ Asked(w) = r /\ own /\ runs'[k].status \in {"ready", "partial"}
             /\ {runs'[k].audits[s].state : s \in Datasets} = {"ok"}
           => Load(r)' = "full"]_store
=============================================================================
