------------------------- MODULE UniverseSnapshots -------------------------
(***************************************************************************)
(* The daily universe of all A shares: services/universe_membership builds *)
(* it day by day from what is stored of the instruments, and backtests     *)
(* read it, services/backtest_run and backtest/runner as a map of eligible *)
(* codes, backtest/full_a chunk by chunk with a check of the digest.       *)
(*                                                                         *)
(* A builder reads in one step and commits in another; a reader sends two  *)
(* statements, which under READ COMMITTED see different states; processes  *)
(* die; instruments, bars and statuses change at any time; and the filters *)
(* are those of the release a process runs.                                *)
(*                                                                         *)
(* What is stored of an instrument on a day is one record: its sessions    *)
(* since the listing, whether the rows its builder reads are complete, its *)
(* bar, its status, and how many of the amounts of the window there are    *)
(* with their average.  A digest is what it is taken of.                   *)
(* Panels, prices, the warm-up and the trading of a run are left out, the  *)
(* benchmark is trusted or not.                                            *)
(*                                                                         *)
(* RowsFirst is a faulty variant of the definition after it; the           *)
(* specification does not use it.                                          *)
(***************************************************************************)
EXTENDS Naturals, FiniteSets

CONSTANTS
  Instruments, Builders, Backtests,
  LastDay,      \* bound: trading days are 1 .. LastDay
  Records,      \* what may be stored of an instrument on a day
  First,        \* what may be stored at first, for each day and instrument
  ChunkSize,    \* full_a_backtest_chunk_sessions
  FiltersOf,    \* of the release a process runs: minSessions, lookback, minAmount
  MaxUpdates    \* bound: changes of the stored data

VARIABLES
  listed,     \* Instrument.list_date, Never without a row
  source,     \* DailyBar, InstrumentStatusHistory, InstrumentSuspensionDaily
  members,    \* UniverseMembershipDaily: for each day and code the reasons
  snapshot,   \* UniverseSnapshotDaily
  builder,    \* the locals of build_for_date and build_range
  run,        \* the locals of a backtest
  updates

universe == <<listed, source, members, snapshot, builder, run, updates>>

Days  == 1 .. LastDay
Never == LastDay + 1
Nothing == [at |-> "idle"]
NoRows == [d \in {} |-> {}]
NoSnapshot == [filters |-> {}]
Built(d) == snapshot[d] # NoSnapshot
Between(first, last) == {d \in Days : first <= d /\ d <= last}

UniverseInit ==
  /\ listed \in [Instruments -> Days \cup {Never}] /\ source \in First
  /\ members = [d \in Days |-> [c \in {} |-> {}]]
  /\ snapshot = [d \in Days |-> NoSnapshot]
  /\ builder = [b \in Builders |-> Nothing] /\ run = [r \in Backtests |-> Nothing]
  /\ updates = 0
-----------------------------------------------------------------------------
(* eligible_asof: why an instrument is left out; the two builders look at  *)
(* different windows for rows that are not complete.                       *)
StatusReason(e) ==
  CASE e.bar = "none" -> {"suspended"}
    [] e.bar # "none" /\ e.status \in {"st", "suspended", "delisting"} -> {e.status}
    [] e.bar # "none" /\ e.status = "unknown" -> {"pit_status_missing"}
    [] OTHER -> {}

LiquidityReason(e, f) ==
  CASE e.amounts # f.lookback -> {"liquidity_history_missing"}
    [] e.amounts = f.lookback /\ e.average < f.minAmount -> {"low_liquidity"}
    [] OTHER -> {}

Reasons(e, kind, f) ==
  {r \in {"young_listing"} : e.sessions < f.minSessions}
    \cup {r \in {"bad_data"} : ~e.complete[kind]}
    \cup StatusReason(e) \cup LiquidityReason(e, f)

(* The rows of a day, for the instruments that were listed by then. *)
Members(d, known, kind, f) ==
  [c \in {x \in Instruments : known[x] <= d} |-> Reasons(source[d][c], kind, f)]

Chunk(days) == {d \in days : Cardinality({x \in days : x < d}) < ChunkSize}

(* build_for_date returns what exists, or reads everything for one day *)
BuildForDate(b, d) ==
  /\ builder[b] = Nothing /\ ~Built(d)
  /\ builder' = [builder EXCEPT ![b] =
       [at |-> "read", kind |-> "day", known |-> listed, todo |-> {d},
        rows |-> [x \in {d} |-> Members(x, listed, "day", FiltersOf[b])]]]
  /\ UNCHANGED <<listed, source, members, snapshot, run, updates>>

(* build_range reads the instruments and the days that exist once ...      *)
StartRange(b, first, last) ==
  LET todo == {d \in Between(first, last) : ~Built(d)} IN
  /\ builder[b] = Nothing /\ todo # {}
  /\ \E c \in Instruments : listed[c] <= last
  /\ builder' = [builder EXCEPT ![b] =
       [at |-> "chunk", kind |-> "range", known |-> listed, todo |-> todo, rows |-> NoRows]]
  /\ UNCHANGED <<listed, source, members, snapshot, run, updates>>

(* ... and the bars and statuses of each chunk in the transaction of the   *)
(* chunk.                                                                  *)
ReadChunk(b) ==
  LET w == builder[b] IN
  /\ w.at = "chunk"
  /\ builder' = [builder EXCEPT ![b] =
       [w EXCEPT !.at = "read",
                 !.rows = [d \in Chunk(w.todo) |-> Members(d, w.known, w.kind, FiltersOf[b])]]]
  /\ UNCHANGED <<listed, source, members, snapshot, run, updates>>

(* The primary keys refuse a row or a snapshot that exists, and with it    *)
(* the transaction.                                                        *)
Taken(rows) ==
  \E d \in DOMAIN rows : Built(d) \/ DOMAIN rows[d] \cap DOMAIN members[d] # {}

Inserted(rows, f) ==
  /\ members'  = [d \in Days |-> IF d \in DOMAIN rows THEN rows[d] ELSE members[d]]
  /\ snapshot' = [d \in Days |-> IF d \in DOMAIN rows THEN [filters |-> f, digest |-> rows[d]]
                                 ELSE snapshot[d]]

Commit(b) ==
  LET w    == builder[b]
      left == w.todo \ DOMAIN w.rows
  IN
  /\ w.at = "read"
  /\ \/ /\ Taken(w.rows)
        /\ builder' = [builder EXCEPT ![b] = Nothing] /\ UNCHANGED <<members, snapshot>>
     \/ /\ ~Taken(w.rows) /\ Inserted(w.rows, FiltersOf[b])
        /\ builder' = [builder EXCEPT ![b] =
             IF left = {} THEN Nothing
             ELSE [w EXCEPT !.at = "chunk", !.todo = left, !.rows = NoRows]]
  /\ UNCHANGED <<listed, source, run, updates>>

BuilderDies(b) ==
  /\ builder[b] # Nothing /\ builder' = [builder EXCEPT ![b] = Nothing]
  /\ UNCHANGED <<listed, source, members, snapshot, run, updates>>
-----------------------------------------------------------------------------
Refused(r)    == run' = [run EXCEPT ![r] = Nothing]
Advances(r, next) == run' = [run EXCEPT ![r] = next]
OnlyRuns      == UNCHANGED <<listed, source, members, snapshot, builder, updates>>

Snapshots(days) == [d \in {x \in days : Built(x)} |-> snapshot[d]]
Eligible(d, codes) == {c \in codes \cap DOMAIN members[d] : members[d][c] = {}}

(* A run asks for its days, some codes or all of them, and first reads     *)
(* the snapshots of the days.                                              *)
StartRun(r, mode, first, last, codes) ==
  /\ run[r] = Nothing /\ Between(first, last) # {}
  /\ LET days == Between(first, last) IN
     Advances(r, [at |-> "bind", mode |-> mode, days |-> days, filters |-> FiltersOf[r],
                  codes |-> codes, todo |-> days, used |-> NoRows, bars |-> NoRows,
                  seen |-> Snapshots(days)])
  /\ OnlyRuns

RowsFirst(t) ==
  [d \in {x \in t.days : Built(x)} |->
     IF d \in DOMAIN t.seen THEN Eligible(d, t.codes) ELSE {}]

(* eligible_map's second statement adds the days whose rows came meanwhile *)
EligibleMap(t) ==
  [d \in DOMAIN t.seen \cup {x \in t.days : DOMAIN members[x] \cap t.codes # {}} |->
     Eligible(d, t.codes)]

(* _bind_pit_membership, and run_backtest when it was not bound before;    *)
(* seen stays, for the property.                                           *)
BindMembership(r) ==
  LET t == run[r]
      map == EligibleMap(t)
  IN
  /\ t.at = "bind" /\ t.mode = "filtered" /\ OnlyRuns
  /\ IF (\E d \in DOMAIN t.seen : t.seen[d].filters # t.filters) \/ ~(t.days \subseteq DOMAIN map)
     THEN Refused(r)
     ELSE Advances(r, [t EXCEPT !.at = "bars", !.used = map])

(* run_backtest: every code has bars, none of them is broken, and the      *)
(* benchmark is trusted, or the run is refused.                            *)
LoadBars(r) ==
  LET t == run[r]
      usable(c) == /\ \E d \in t.days : source[d][c].bar # "none"
                   /\ \A d \in t.days : source[d][c].bar # "bad"
  IN
  /\ t.at = "bars" /\ OnlyRuns
  /\ \/ /\ \A c \in t.codes : usable(c)
        /\ Advances(r, [t EXCEPT !.at = "done"])
     \/ Refused(r)

(* _membership_codes: the codes that are eligible on some day *)
MembershipCodes(r) ==
  LET t == run[r]
      codes == UNION {Eligible(d, t.codes) : d \in t.days}
  IN
  /\ t.at = "bind" /\ t.mode = "full_a" /\ OnlyRuns
  /\ IF t.days # DOMAIN t.seen \/ codes = {}
         \/ \E d \in DOMAIN t.seen : t.seen[d].filters # t.filters
     THEN Refused(r)
     ELSE Advances(r, [t EXCEPT !.at = "chunk", !.codes = codes, !.seen = NoRows])

(* run_chunked: _load_bar_rows, then the first statement of                *)
(* _load_membership                                                        *)
LoadChunk(r) ==
  LET t == run[r]
      chunk == Chunk(t.todo)
  IN
  /\ t.at = "chunk" /\ OnlyRuns
  /\ Advances(r, [t EXCEPT !.at = "rows", !.seen = Snapshots(chunk),
                           !.bars = [d \in chunk |-> {c \in t.codes : source[d][c].bar = "good"}]])

(* The second statement, and the check of filters, counts and digest *)
Verified(t) ==
  \A d \in DOMAIN t.bars :
    d \in DOMAIN t.seen /\ t.seen[d].filters = t.filters /\ t.seen[d].digest = members[d]

(* The days of a chunk: every eligible instrument has a trusted bar, or    *)
(* the run fails.                                                          *)
RunChunk(r) ==
  LET t == run[r]
      used == [d \in DOMAIN t.used \cup DOMAIN t.bars |->
                 IF d \in DOMAIN t.used THEN t.used[d] ELSE Eligible(d, Instruments)]
      left == t.todo \ DOMAIN t.bars
  IN
  /\ t.at = "rows" /\ OnlyRuns
  /\ IF ~Verified(t) \/ \E d \in DOMAIN t.bars : ~(used[d] \subseteq t.bars[d])
     THEN Refused(r)
     ELSE Advances(r, [t EXCEPT !.at = IF left = {} THEN "benchmark" ELSE "chunk", !.todo = left,
                               !.used = used, !.seen = NoRows, !.bars = NoRows])

(* run_chunked ends with a benchmark that covers its days, or fails *)
Benchmark(r) ==
  /\ run[r].at = "benchmark" /\ OnlyRuns
  /\ Advances(r, [run[r] EXCEPT !.at = "done"]) \/ Refused(r)

Cancelled(r) == run[r].at \in {"chunk", "rows"} /\ Refused(r) /\ OnlyRuns
-----------------------------------------------------------------------------
(* Imports: a list date, or what is stored of an instrument on a day *)
Update ==
  /\ updates < MaxUpdates /\ updates' = updates + 1
  /\ \/ \E c \in Instruments, d \in Days :
          listed[c] = Never /\ listed' = [listed EXCEPT ![c] = d] /\ UNCHANGED source
     \/ \E c \in Instruments, d \in Days, e \in Records :
          source' = [source EXCEPT ![d][c] = e] /\ UNCHANGED listed
  /\ UNCHANGED <<members, snapshot, builder, run>>

UniverseNext ==
  \/ \E b \in Builders :
       \/ \E d \in Days : BuildForDate(b, d)
       \/ \E first, last \in Days : StartRange(b, first, last)
       \/ ReadChunk(b)
       \/ Commit(b)
       \/ BuilderDies(b)
  \/ \E r \in Backtests :
       \/ \E first, last \in Days, codes \in SUBSET Instruments \ {{}} :
            StartRun(r, "filtered", first, last, codes)
       \/ \E first, last \in Days : StartRun(r, "full_a", first, last, Instruments)
       \/ BindMembership(r)
       \/ LoadBars(r)
       \/ MembershipCodes(r)
       \/ LoadChunk(r)
       \/ RunChunk(r)
       \/ Benchmark(r)
       \/ Cancelled(r)
  \/ Update

UniverseSpec == UniverseInit /\ [][UniverseNext]_universe
-----------------------------------------------------------------------------
(* The days a filtered run has from eligible_map's second statement only:   *)
(* universe_membership.py:550 compares the filters of the others.           *)
Uncompared(t) == {d \in t.days : t.mode = "filtered" /\ d \notin DOMAIN t.seen}

(* What is stored of a day comes from one build, in one piece; and what a   *)
(* backtest used on a day is exactly that, so that two backtests never      *)
(* disagree about a day, whichever way they read it and whatever was        *)
(* imported in between.  The day was judged by the filters of the           *)
(* backtest's own release, except for a day that a filtered run has from    *)
(* the second statement of eligible_map alone: that one may be of any       *)
(* release, and the code does not notice.                                   *)
UniverseAgreed ==
  /\ \A d \in Days : IF Built(d) THEN snapshot[d].digest = members[d]
                                 ELSE DOMAIN members[d] = {}
  /\ \A r \in Backtests : run[r].at = "done" =>
       \A d \in run[r].days :
         /\ Built(d)
         /\ run[r].used[d] = Eligible(d, run[r].codes)
         /\ d \notin Uncompared(run[r]) => snapshot[d].filters = run[r].filters
=============================================================================
