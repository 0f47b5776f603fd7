-------------------------- MODULE IngestionProofs ---------------------------
(***************************************************************************)
(* The stored prices of an instrument for every set of windows, any number *)
(* of writers, runs, crashes and bulk imports.                             *)
(*                                                                         *)
(* The inductive invariant is about stamps.  A backfill starts after all   *)
(* that came before it have ended or died, because it holds the lock from  *)
(* before its run is recorded until the run has ended; so a row it wrote   *)
(* is younger than its start and older than the start of the next.  A run  *)
(* that vouches finds no stamp outside its own time, hence no other        *)
(* backfill's row.                                                         *)
(***************************************************************************)
EXTENDS Ingestion, WellFoundedInduction, TLAPS

(* A set of naturals has a smallest element, a bounded one a largest: what *)
(* Min and Max choose exists.                                              *)
LEMMA Smallest ==
  ASSUME NEW S \in SUBSET Nat, S # {}
  PROVE  Min(S) \in S /\ \A x \in S : Min(S) <= x
<1>1. PICK m \in S : \A x \in S : ~(<<x, m>> \in OpToRel(<, Nat))
  BY NatLessThanWellFounded, WFMin
<1>2. \A x \in S : m <= x
  <2> SUFFICES ASSUME NEW x \in S, x < m
               PROVE  FALSE
    OBVIOUS
  <2>1. <<x, m>> \in Nat \X Nat /\ <<x, m>>[1] < <<x, m>>[2]
    OBVIOUS
  <2>2. <<x, m>> \in OpToRel(<, Nat)
    BY <2>1, Zenon DEF OpToRel
  <2>3. QED
    BY <1>1, <2>2
<1>3. QED
  BY <1>2 DEF Min

LEMMA Largest ==
  ASSUME NEW S \in SUBSET Nat, S # {}, NEW n \in Nat, \A x \in S : x <= n
  PROVE  Max(S) \in S /\ \A x \in S : x <= Max(S)
<1> DEFINE T == {n - x : x \in S}
<1>1. T \in SUBSET Nat /\ T # {}
  <2>1. \A x \in S : n - x \in Nat
    OBVIOUS
  <2>2. QED
    BY <2>1
<1>2. PICK m \in S : \A x \in S : n - m <= n - x
  <2>1. Min(T) \in T /\ \A y \in T : Min(T) <= y
    <3> HIDE DEF T
    <3>1. QED
      BY <1>1, Smallest
  <2>2. PICK m \in S : Min(T) = n - m
    BY <2>1
  <2>3. QED
    BY <2>1, <2>2
<1>3. \A x \in S : m >= x
  BY <1>2
<1>4. QED
  BY <1>3 DEF Max
-----------------------------------------------------------------------------
Audits == [state : {"open", "absent", "failed", "ok"}, rows : {0, 1},
           first : Nat, last : Nat, floor : Nat, mark : Nat]
RunRecord == [range : Ranges \cup Imports, bulk : BOOLEAN, audits : [Datasets -> Audits],
              status : {"running", "ready", "partial", "failed", "deleted"},
              started : Nat, completed : Nat]
Row == [at : Nat, by : Nat, source : {"none", "baostock", "tushare"}]
WriterRecord == [pc : {"idle", "fetch", "store", "audit", "finish"}, run : Nat, set : Datasets,
                 rows : SUBSET Days, at : Nat, audits : [Datasets -> Audits]]
BulkRecord == [pc : {"idle", "import", "daily", "adjust", "run"}, left : SUBSET Days, at : Nat,
               range : Ranges \cup Imports \cup {<<0, 0>>}, audits : [Datasets -> Audits]]

Recordings == {k \in DOMAIN runs : ~runs[k].bulk}

IngestTypes ==
  /\ clock \in Nat
  /\ bars \in [Days -> Row] /\ factors \in [Days -> Row]
  /\ runs \in Seq(RunRecord)
  /\ lock \in Writers \cup {Nobody}
  /\ writer \in [Writers -> WriterRecord]
  /\ bulk \in BulkRecord /\ (bulk.pc # "idle" => bulk.range \in Imports)

(* No stamp is from the future. *)
StampsPast ==
  /\ \A k \in DOMAIN runs : runs[k].started <= clock /\ runs[k].completed <= clock
  /\ \A d \in Days : bars[d].at <= clock /\ factors[d].at <= clock
  /\ bulk.at <= clock /\ \A s \in Datasets : bulk.audits[s].floor <= clock

(* A backfill starts after all that came before it have ended or died. *)
RunsApart ==
  \A i, j \in Recordings : i < j =>
    /\ runs[i].started < runs[j].started
    /\ runs[i].status # "running" => runs[i].completed < runs[j].started

(* Who writes holds the lock and is the latest; what it stores was stamped *)
(* after its run was recorded.                                             *)
LockHeld ==
  \A w \in Writers : ~At(w, "idle") =>
    /\ lock = w /\ writer[w].run \in Recordings /\ runs[writer[w].run].status = "running"
    /\ \A i \in Recordings : i <= writer[w].run
    /\ At(w, "store") => runs[writer[w].run].started < writer[w].at /\ writer[w].at <= clock

(* A row was stamped while its backfill was the latest. *)
StampedBy(row) ==
  row.by # Bulk =>
    /\ row.by \in Recordings /\ runs[row.by].started < row.at
    /\ \A i \in Recordings : row.by < i => row.at < runs[i].started
RowsStamped == \A d \in Days : StampedBy(bars[d]) /\ StampedBy(factors[d])

IngestIInv == IngestTypes /\ StampsPast /\ RunsApart /\ LockHeld /\ RowsStamped
-----------------------------------------------------------------------------
LEMMA EmptyAudits ==
  Template \in Audits /\ Absent \in Audits /\ Failed \in Audits /\ NoAudits \in [Datasets -> Audits]
BY DEF Template, Absent, Failed, NoAudits, Audits, Datasets

LEMMA IdleTypes ==
  Idle \in WriterRecord /\ Idle.pc = "idle" /\ IdleBulk \in BulkRecord /\ IdleBulk.pc = "idle"
  /\ IdleBulk.at = 0 /\ \A s \in Datasets : IdleBulk.audits[s].floor = 0
<1>1. Idle \in WriterRecord /\ Idle.pc = "idle"
  BY EmptyAudits DEF Idle, WriterRecord, Datasets
<1>2. IdleBulk \in BulkRecord /\ IdleBulk.pc = "idle" /\ IdleBulk.at = 0
  BY EmptyAudits DEF IdleBulk, BulkRecord
<1>3. \A s \in Datasets : IdleBulk.audits[s].floor = 0
  BY DEF IdleBulk, NoAudits, Absent, Template
<1>4. QED
  BY <1>1, <1>2, <1>3

LEMMA WindowDays ==
  ASSUME NEW r \in Ranges \cup Imports
  PROVE  /\ r[1] \in Nat /\ r[2] \in Nat /\ r[1] <= r[2]
         /\ Window(r) \subseteq Days /\ Days \subseteq Nat
BY RangesAssumption, DaysAssumption DEF Window

(* The rows that count for a window are rows there are, none beyond it. *)
LEMMA RowsInWindow ==
  ASSUME IngestTypes, NEW set \in Datasets, NEW r \in Ranges \cup Imports
  PROVE  /\ Rows(set, r) \subseteq Days
         /\ \A d \in Rows(set, r) : d <= r[2] \/ d < r[1]
<1> DEFINE before == Present(factors, {d \in Days : d < r[1]})
<1>1. before \in SUBSET Nat /\ before \subseteq Days /\ \A d \in before : d < r[1]
  BY WindowDays DEF Present
<1>2. before # {} => Max(before) \in before
  <2> HIDE DEF before
  <2>1. \A d \in before : d <= r[1]
    BY <1>1, WindowDays
  <2>2. QED
    BY <1>1, <2>1, WindowDays, Largest
<1>3. Rows(set, r) \subseteq Present(Table(set), Window(r)) \cup before
  <2> HIDE DEF before
  <2>1. Rows(set, r) = Present(Table(set), Window(r))
                         \cup IF set = "adjust" /\ before # {} THEN {Max(before)} ELSE {}
    BY Zenon DEF Rows, before
  <2>2. QED
    BY <2>1, <1>2
<1>4. \A d \in Present(Table(set), Window(r)) : d \in Days /\ d <= r[2]
  BY WindowDays DEF Present, Window
<1>5. QED
  <2> HIDE DEF before
  <2>1. QED
    BY <1>1, <1>3, <1>4

(* The stamps an audit compares are the oldest and the newest of its rows. *)
LEMMA SeenMarks ==
  ASSUME IngestTypes, StampsPast, NEW set \in Datasets, NEW r \in Ranges \cup Imports
  PROVE  /\ Seen(set, r) \in [first : Nat, last : Nat, floor : Nat, mark : Nat]
         /\ Seen(set, r).floor <= clock
         /\ Rows(set, r) = {} => Seen(set, r).floor = 0
         /\ \A d \in Rows(set, r) : /\ Seen(set, r).floor <= Table(set)[d].at
                                    /\ Table(set)[d].at <= Seen(set, r).mark
<1> DEFINE rows   == Rows(set, r)
           stamps == {Table(set)[d].at : d \in rows}
<1>1. Table(set) \in [Days -> Row] /\ \A d \in Days : Table(set)[d].at <= clock
  BY DEF IngestTypes, StampsPast, Table
<1>2. rows \in SUBSET Nat /\ rows \subseteq Days
  BY RowsInWindow, DaysAssumption
<1>3. \A d \in rows : Table(set)[d].at \in Nat /\ Table(set)[d].at <= clock
  <2> HIDE DEF rows
  <2>1. QED
    BY <1>1, <1>2 DEF Row
<1>4. Seen(set, r) = IF rows = {} THEN [first |-> 0, last |-> 0, floor |-> 0, mark |-> 0]
                     ELSE [first |-> Min(rows), last |-> Max(rows),
                           floor |-> Min(stamps), mark |-> Max(stamps)]
  BY Zenon DEF Seen
<1>5. CASE rows = {}
  <2>1. Seen(set, r) = [first |-> 0, last |-> 0, floor |-> 0, mark |-> 0]
    BY <1>4, <1>5, Zenon
  <2>2. clock \in Nat
    BY DEF IngestTypes
  <2>3. QED
    BY <1>5, <2>1, <2>2
<1>6. CASE rows # {}
  <2>1. stamps \in SUBSET Nat /\ stamps # {} /\ \A x \in stamps : x <= clock
    BY <1>3, <1>6
  <2>2. clock \in Nat
    BY DEF IngestTypes
  <2>3. Min(stamps) \in stamps /\ (\A x \in stamps : Min(stamps) <= x)
    <3> HIDE DEF stamps
    <3>1. QED
      BY <2>1, Smallest
  <2>4. Max(stamps) \in stamps /\ (\A x \in stamps : x <= Max(stamps))
    <3> HIDE DEF stamps
    <3>1. QED
      BY <2>1, <2>2, Largest
  <2>5. Min(rows) \in rows
    <3> HIDE DEF rows
    <3>1. QED
      BY <1>2, <1>6, Smallest
  <2>6. Max(rows) \in rows
    <3>1. r[1] \in Nat /\ r[2] \in Nat /\ \A d \in rows : d <= r[2] \/ d < r[1]
      BY RowsInWindow, WindowDays
    <3>2. \A d \in rows : d <= r[1] + r[2]
      <4> HIDE DEF rows
      <4>1. QED
        BY <1>2, <3>1
    <3>3. r[1] + r[2] \in Nat
      BY <3>1
    <3>4. QED
      <4> DEFINE end == r[1] + r[2]
      <4> HIDE DEF rows, end
      <4>1. end \in Nat /\ \A d \in rows : d <= end
        BY <3>2, <3>3 DEF end
      <4>2. QED
        BY <1>2, <1>6, <4>1, Largest
  <2>7. Seen(set, r) = [first |-> Min(rows), last |-> Max(rows),
                        floor |-> Min(stamps), mark |-> Max(stamps)]
    BY <1>4, <1>6, Zenon
  <2>8. \A d \in rows : Table(set)[d].at \in stamps
    OBVIOUS
  <2>9. QED
    <3> HIDE DEF rows, stamps
    <3>1. Min(stamps) \in Nat /\ Max(stamps) \in Nat /\ Min(stamps) <= clock
      BY <2>1, <2>3, <2>4
    <3>2. Min(rows) \in Nat /\ Max(rows) \in Nat
      BY <1>2, <2>5, <2>6
    <3>3. Seen(set, r) \in [first : Nat, last : Nat, floor : Nat, mark : Nat]
      BY <2>7, <3>1, <3>2
    <3>4. Seen(set, r).floor = Min(stamps) /\ Seen(set, r).mark = Max(stamps)
      BY <2>7
    <3>5. \A d \in rows : Seen(set, r).floor <= Table(set)[d].at /\ Table(set)[d].at <= Seen(set, r).mark
      BY <2>3, <2>4, <2>8, <3>4
    <3>6. QED
      BY <1>6, <3>1, <3>3, <3>4, <3>5 DEF rows
<1>7. QED
  BY <1>5, <1>6

LEMMA CompletedTypes ==
  ASSUME IngestTypes, StampsPast, NEW set \in Datasets, NEW r \in Ranges \cup Imports, NEW rows
  PROVE  CompletedAudit(set, r, rows) \in Audits /\ CompletedAudit(set, r, rows).floor <= clock
<1>1. Seen(set, r) \in [first : Nat, last : Nat, floor : Nat, mark : Nat] /\ Seen(set, r).floor <= clock
  BY SeenMarks
<1>2. Failed \in Audits /\ Failed.floor = 0 /\ clock \in Nat
  BY EmptyAudits DEF Failed, Template, IngestTypes
<1>3. CASE rows = {} /\ set = "daily"
  <2>1. CompletedAudit(set, r, rows) = Failed
    BY <1>3 DEF CompletedAudit
  <2>2. QED
    BY <1>2, <2>1
<1>4. CASE ~(rows = {} /\ set = "daily")
  <2> DEFINE seen == Seen(set, r)
             any  == IF rows = {} THEN 0 ELSE 1
  <2>1. CompletedAudit(set, r, rows)
          = [state |-> "ok", rows |-> any, first |-> seen.first, last |-> seen.last,
             floor |-> seen.floor, mark |-> seen.mark]
    BY <1>4, Zenon DEF CompletedAudit
  <2>2. any \in {0, 1}
    OBVIOUS
  <2> HIDE DEF seen, any
  <2>3. seen \in [first : Nat, last : Nat, floor : Nat, mark : Nat] /\ seen.floor <= clock
    BY <1>1 DEF seen
  <2>4. QED
    BY <2>1, <2>2, <2>3 DEF Audits
<1>5. QED
  BY <1>3, <1>4
-----------------------------------------------------------------------------
LEMMA IngestInitial ==
  ASSUME IngestInit
  PROVE  IngestIInv
<1>1. NoRow \in Row /\ NoRow.by = Bulk /\ NoRow.at = 0
  BY DEF NoRow, Row, Bulk
<1>2. IngestTypes
  BY <1>1, IdleTypes DEF IngestInit, IngestTypes
<1>3. StampsPast
  BY <1>1, IdleTypes DEF IngestInit, StampsPast
<1>4. RunsApart /\ LockHeld
  BY IdleTypes DEF IngestInit, RunsApart, LockHeld, Recordings, At
<1>5. RowsStamped
  BY <1>1 DEF IngestInit, RowsStamped, StampedBy
<1>6. QED
  BY <1>2, <1>3, <1>4, <1>5 DEF IngestIInv

(* A backfill goes on, or ends with nothing recorded. *)
LEMMA WriterMoves ==
  ASSUME IngestIInv, NEW w \in Writers, ~At(w, "idle"), NEW new \in WriterRecord,
         writer' = [writer EXCEPT ![w] = new],
         new.pc # "idle" => new.run = writer[w].run /\ lock' = lock,
         new.pc = "idle" => lock' = Nobody,
         new.pc = "store" => runs[writer[w].run].started < new.at /\ new.at <= clock',
         clock' \in Nat, clock <= clock', UNCHANGED <<bars, factors, runs, bulk>>
  PROVE  IngestIInv'
<1>1. writer'[w] = new /\ \A v \in Writers \ {w} : writer'[v] = writer[v]
  BY DEF IngestIInv, IngestTypes
<1>2. IngestTypes'
  BY DEF IngestIInv, IngestTypes
<1>3. StampsPast'
  <2>1. clock \in Nat /\ \A k \in DOMAIN runs : runs[k].started \in Nat /\ runs[k].completed \in Nat
    <3>1. \A k \in DOMAIN runs : runs[k] \in RunRecord
      BY DEF IngestIInv, IngestTypes
    <3>2. QED
      BY <3>1 DEF RunRecord, IngestIInv, IngestTypes
  <2>2. \A d \in Days : bars[d].at \in Nat /\ factors[d].at \in Nat
    BY DEF IngestIInv, IngestTypes, Row
  <2>3. bulk.at \in Nat /\ \A s \in Datasets : bulk.audits[s].floor \in Nat
    BY DEF IngestIInv, IngestTypes, BulkRecord, Audits
  <2>4. QED
    BY <2>1, <2>2, <2>3 DEF IngestIInv, StampsPast
<1>4. RunsApart' /\ RowsStamped'
  BY DEF IngestIInv, RunsApart, RowsStamped, StampedBy, Recordings
<1>5. LockHeld'
  <2>1. lock = w /\ \A v \in Writers \ {w} : At(v, "idle")
    BY DEF IngestIInv, LockHeld
  <2>2. \A v \in Writers \ {w} : At(v, "idle")'
    BY <1>1, <2>1 DEF At
  <2>3. CASE new.pc = "idle"
    BY <1>1, <2>2, <2>3 DEF LockHeld, At
  <2>4. CASE new.pc # "idle"
    <3>1. /\ writer[w].run \in Recordings /\ runs[writer[w].run].status = "running"
          /\ \A i \in Recordings : i <= writer[w].run
      BY DEF IngestIInv, LockHeld
    <3>2. Recordings' = Recordings
      BY DEF Recordings
    <3>3. QED
      BY <1>1, <2>1, <2>2, <2>4, <3>1, <3>2 DEF LockHeld, At
  <2>5. QED
    BY <2>3, <2>4
<1>6. QED
  BY <1>2, <1>3, <1>4, <1>5 DEF IngestIInv

(* What a writer records of a dataset leaves its run and its lock alone. *)
LEMMA RecordedTypes ==
  ASSUME IngestTypes, NEW w \in Writers, NEW audit \in Audits
  PROVE  \E new \in WriterRecord : /\ Recorded(w, audit) = [writer EXCEPT ![w] = new]
                                   /\ new.pc \in {"fetch", "finish"} /\ new.run = writer[w].run
<1> DEFINE old  == writer[w]
           next == old.set = "daily" /\ old.audits["adjust"] = Template
           new  == [old EXCEPT !.audits[old.set] = audit, !.rows = {}, !.at = 0,
                               !.set = IF next THEN "adjust" ELSE old.set,
                               !.pc  = IF next THEN "fetch" ELSE "finish"]
<1>1. Recorded(w, audit) = [writer EXCEPT ![w] = new]
  BY Zenon DEF Recorded
<1>2. old \in WriterRecord /\ "adjust" \in Datasets
  BY DEF IngestTypes, Datasets
<1>3. /\ new \in WriterRecord /\ new.run = old.run
      /\ new.pc \in {"fetch", "finish"}
  <2> HIDE DEF old, next
  <2>1. [old.audits EXCEPT ![old.set] = audit] \in [Datasets -> Audits]
    BY <1>2 DEF WriterRecord
  <2>2. QED
    BY <1>2, <2>1 DEF WriterRecord
<1>4. QED
  BY <1>1, <1>3

LEMMA ActiveRun ==
  ASSUME IngestIInv, NEW w \in Writers, ~At(w, "idle")
  PROVE  /\ writer[w].run \in DOMAIN runs /\ Asked(w) \in Ranges \cup Imports
         /\ runs[writer[w].run].started \in Nat /\ runs[writer[w].run].started <= clock
         /\ writer[w] \in WriterRecord /\ clock \in Nat
<1>1. writer[w].run \in DOMAIN runs
  BY DEF IngestIInv, LockHeld, Recordings
<1>2. runs[writer[w].run] \in RunRecord
  BY <1>1 DEF IngestIInv, IngestTypes
<1>3. QED
  BY <1>1, <1>2 DEF IngestIInv, IngestTypes, StampsPast, RunRecord, Asked

LEMMA FetchKeeps ==
  ASSUME IngestIInv, NEW w \in Writers, Fetch(w)
  PROVE  IngestIInv'
<1>1. ~At(w, "idle")
  BY DEF Fetch, At
<1>2. PICK rows \in SUBSET Window(Asked(w)) :
        writer' = [writer EXCEPT ![w] = [@ EXCEPT !.pc = "store", !.rows = rows, !.at = Now]]
  BY DEF Fetch
<1> DEFINE new == [writer[w] EXCEPT !.pc = "store", !.rows = rows, !.at = Now]
<1>3. rows \subseteq Days
  BY <1>1, ActiveRun, WindowDays
<1>4. clock' = clock + 1 /\ Now = clock + 1 /\ clock \in Nat
  BY <1>1, ActiveRun DEF Fetch, Tick, Now
<1>5. new \in WriterRecord /\ new.pc = "store" /\ new.run = writer[w].run /\ new.at = clock + 1
  <2>1. writer[w] \in WriterRecord /\ Now \in Nat /\ Now = clock + 1
    BY <1>1, <1>4, ActiveRun
  <2>2. new \in WriterRecord
    BY <1>3, <2>1 DEF WriterRecord
  <2>3. QED
    BY <2>1, <2>2 DEF WriterRecord
<1>6. writer' = [writer EXCEPT ![w] = new]
  BY <1>2
<1>7. UNCHANGED <<bars, factors, runs, lock, bulk>>
  BY DEF Fetch
<1>8. runs[writer[w].run].started < clock + 1 /\ clock + 1 <= clock' /\ clock <= clock' /\ clock' \in Nat
  BY <1>1, <1>4, ActiveRun
<1>9. QED
  <2> HIDE DEF new
  <2>1. QED
    BY <1>1, <1>5, <1>6, <1>7, <1>8, WriterMoves

LEMMA RecordsKeep ==
  ASSUME IngestIInv, NEW w \in Writers, ~At(w, "idle"), NEW audit \in Audits,
         writer' = Recorded(w, audit), UNCHANGED <<clock, bars, factors, runs, lock, bulk>>
  PROVE  IngestIInv'
<1>1. PICK new \in WriterRecord : /\ Recorded(w, audit) = [writer EXCEPT ![w] = new]
                                  /\ new.pc \in {"fetch", "finish"} /\ new.run = writer[w].run
  BY RecordedTypes DEF IngestIInv
<1>2. clock' \in Nat /\ clock <= clock'
  BY DEF IngestIInv, IngestTypes
<1>3. QED
  BY <1>1, <1>2, WriterMoves

LEMMA AuditKeeps ==
  ASSUME IngestIInv, NEW w \in Writers, Audit(w) \/ TaskFails(w)
  PROVE  IngestIInv'
<1>1. ~At(w, "idle")
  BY DEF Audit, TaskFails, At
<1>2. UNCHANGED <<clock, bars, factors, runs, lock, bulk>>
  BY DEF Audit, TaskFails
<1>3. CASE Audit(w)
  <2>1. CompletedAudit(writer[w].set, Asked(w), writer[w].rows) \in Audits
    BY <1>1, ActiveRun, CompletedTypes DEF IngestIInv, WriterRecord
  <2>2. QED
    BY <1>1, <1>2, <1>3, <2>1, RecordsKeep DEF Audit
<1>4. CASE TaskFails(w)
  BY <1>1, <1>2, <1>4, RecordsKeep, EmptyAudits DEF TaskFails
<1>5. QED
  BY <1>3, <1>4

LEMMA CrashKeeps ==
  ASSUME IngestIInv, NEW w \in Writers, Crash(w)
  PROVE  IngestIInv'
<1>1. clock' \in Nat /\ clock <= clock'
  BY DEF Crash, IngestIInv, IngestTypes
<1>2. QED
  BY <1>1, IdleTypes, WriterMoves DEF Crash

(* The rows of an upsert carry the stamp and the run of their writer. *)
LEMMA StoreKeeps ==
  ASSUME IngestIInv, NEW w \in Writers, Store(w)
  PROVE  IngestIInv'
<1> DEFINE row == [at |-> writer[w].at, by |-> writer[w].run, source |-> "baostock"]
           new == [writer[w] EXCEPT !.pc = "audit"]
<1>1. ~At(w, "idle") /\ At(w, "store") /\ UNCHANGED <<clock, runs, lock, bulk>>
  BY DEF Store, At
<1>2. /\ writer[w] \in WriterRecord /\ clock \in Nat
      /\ \A k \in DOMAIN runs : runs[k].started \in Nat
  <2>1. \A k \in DOMAIN runs : runs[k] \in RunRecord
    BY DEF IngestIInv, IngestTypes
  <2>2. QED
    BY <2>1 DEF IngestIInv, IngestTypes, RunRecord
<1>3. /\ lock = w /\ writer[w].run \in Recordings
      /\ \A i \in Recordings : i <= writer[w].run
      /\ runs[writer[w].run].started < writer[w].at /\ writer[w].at <= clock
  BY <1>1 DEF IngestIInv, LockHeld
<1>4. row \in Row /\ row.at <= clock /\ StampedBy(row)
  <2>1. row \in Row
    BY <1>2 DEF Row, WriterRecord
  <2>2. \A i \in Recordings : ~(writer[w].run < i)
    <3>1. \A i \in Recordings : i \in Nat /\ writer[w].run \in Nat
      BY <1>2 DEF Recordings, IngestIInv, IngestTypes, WriterRecord
    <3>2. QED
      BY <1>3, <3>1
  <2>3. QED
    BY <1>3, <2>1, <2>2 DEF StampedBy
<1>5. ASSUME NEW t \in [Days -> Row], \A d \in Days : t[d].at <= clock /\ StampedBy(t[d])
      PROVE  Stored(t, w) \in [Days -> Row]
             /\ \A d \in Days : Stored(t, w)[d].at <= clock /\ StampedBy(Stored(t, w)[d])
  <2>1. Stored(t, w) = [d \in Days |-> IF d \in writer[w].rows THEN row ELSE t[d]]
    BY Zenon DEF Stored
  <2> HIDE DEF row
  <2>2. \A d \in Days : Stored(t, w)[d] = row \/ Stored(t, w)[d] = t[d]
    BY <2>1
  <2>3. QED
    BY <1>4, <1>5, <2>1, <2>2
<1>6. \A t \in {bars, factors} : t \in [Days -> Row] /\ \A d \in Days : t[d].at <= clock /\ StampedBy(t[d])
  BY DEF IngestIInv, IngestTypes, StampsPast, RowsStamped
<1>7. \A t \in {bars', factors'} :
         t \in [Days -> Row] /\ \A d \in Days : t[d].at <= clock /\ StampedBy(t[d])
  <2>1. bars' \in {bars, Stored(bars, w)} /\ factors' \in {factors, Stored(factors, w)}
    BY DEF Store
  <2>2. QED
    BY <1>5, <1>6, <2>1
<1>8. Recordings' = Recordings
  BY <1>1 DEF Recordings
<1>9. new \in WriterRecord /\ writer' = [writer EXCEPT ![w] = new] /\ new.pc = "audit" /\ new.run = writer[w].run
  BY <1>2 DEF Store, WriterRecord
<1>10. IngestTypes'
  <2> HIDE DEF new, row
  <2>1. writer' \in [Writers -> WriterRecord]
    BY <1>9 DEF IngestIInv, IngestTypes
  <2>2. QED
    BY <1>1, <1>7, <2>1 DEF IngestIInv, IngestTypes
<1>11. StampsPast'
  BY <1>1, <1>7 DEF IngestIInv, StampsPast
<1>12. RunsApart'
  BY <1>1, <1>8 DEF IngestIInv, RunsApart
<1>13. RowsStamped'
  BY <1>1, <1>7, <1>8 DEF RowsStamped, StampedBy
<1>14. LockHeld'
  <2> HIDE DEF new, row
  <2>1. writer'[w] = new /\ \A v \in Writers \ {w} : writer'[v] = writer[v]
    BY <1>9 DEF IngestIInv, IngestTypes
  <2>2. QED
    BY <1>1, <1>3, <1>8, <1>9, <2>1 DEF IngestIInv, LockHeld, At
<1>15. QED
  BY <1>10, <1>11, <1>12, <1>13, <1>14 DEF IngestIInv

(* A run is inserted by whom no other backfill can be under way with. *)
LEMMA BeginKeeps ==
  ASSUME IngestIInv, NEW w \in Writers, Begin(w)
  PROVE  IngestIInv'
<1>1. PICK r \in Ranges, sets \in {Datasets, {"daily"}, {"adjust"}} :
        LET audits == [s \in Datasets |-> IF s \in sets THEN Template ELSE Absent] IN
        /\ At(w, "idle") /\ LockFree /\ Len(runs) < MaxRuns
        /\ lock' = w /\ Tick
        /\ runs' = Append(runs, [range |-> r, status |-> "running", bulk |-> FALSE,
                                 audits |-> audits, started |-> Now, completed |-> 0])
        /\ writer' = [writer EXCEPT ![w] =
             [Idle EXCEPT !.pc = "fetch", !.run = Len(runs) + 1, !.audits = audits,
                          !.set = IF "daily" \in sets THEN "daily" ELSE "adjust"]]
        /\ UNCHANGED <<bars, factors, manifest, bulk, upsets>>
  BY Zenon DEF Begin
<1> DEFINE audits == [s \in Datasets |-> IF s \in sets THEN Template ELSE Absent]
           run    == [range |-> r, status |-> "running", bulk |-> FALSE,
                      audits |-> audits, started |-> Now, completed |-> 0]
           set    == IF "daily" \in sets THEN "daily" ELSE "adjust"
           new    == [Idle EXCEPT !.pc = "fetch", !.run = Len(runs) + 1, !.audits = audits, !.set = set]
           n      == Len(runs)
<1>2. clock \in Nat /\ Now = clock + 1 /\ clock' = clock + 1
  BY <1>1 DEF IngestIInv, IngestTypes, Tick, Now
<1>3. audits \in [Datasets -> Audits] /\ set \in Datasets
  BY EmptyAudits DEF Datasets
<1>4. /\ run \in RunRecord /\ ~run.bulk /\ run.status = "running"
      /\ run.started = clock + 1 /\ run.completed = 0
  <2> HIDE DEF audits
  <2>1. run \in RunRecord
    BY <1>2, <1>3 DEF RunRecord
  <2>2. QED
    BY <1>2, <2>1
<1>5. n \in Nat /\ runs \in Seq(RunRecord) /\ runs' = Append(runs, run)
  BY <1>1 DEF IngestIInv, IngestTypes
<1>6. new \in WriterRecord /\ new.pc = "fetch" /\ new.run = n + 1 /\ writer' = [writer EXCEPT ![w] = new]
  <2>1. writer' = [writer EXCEPT ![w] = new]
    BY <1>1
  <2> HIDE DEF audits, set, n
  <2>2. n + 1 \in Nat /\ Len(runs) = n
    BY <1>5 DEF n
  <2>3. new \in WriterRecord
    BY <1>3, <2>2, IdleTypes DEF WriterRecord
  <2>4. QED
    BY <2>1, <2>2, <2>3, IdleTypes DEF WriterRecord
<1> HIDE DEF run, new, set, audits
<1>7. /\ runs' \in Seq(RunRecord) /\ DOMAIN runs' = DOMAIN runs \cup {n + 1}
      /\ runs'[n + 1] = run /\ \A k \in DOMAIN runs : runs'[k] = runs[k] /\ k \in Nat /\ k < n + 1
  BY <1>4, <1>5
<1> HIDE DEF n
<1>8. Recordings' = Recordings \cup {n + 1} /\ \A i \in Recordings : i \in Nat /\ i < n + 1
  BY <1>4, <1>7 DEF Recordings
<1>9. \A k \in DOMAIN runs :
        /\ runs[k].started \in Nat /\ runs[k].completed \in Nat
        /\ runs[k].started <= clock /\ runs[k].completed <= clock
  <2>1. \A k \in DOMAIN runs : runs[k] \in RunRecord
    BY <1>5
  <2>2. QED
    BY <2>1 DEF IngestIInv, StampsPast, RunRecord
<1>10. \A d \in Days : /\ bars[d].at \in Nat /\ factors[d].at \in Nat
                       /\ bars[d].at <= clock /\ factors[d].at <= clock
  BY DEF IngestIInv, IngestTypes, StampsPast, Row
<1>11. UNCHANGED <<bars, factors, bulk>> /\ lock' = w
  BY <1>1
<1>12. \A v \in Writers : At(v, "idle")
  BY <1>1, WritersAssumption DEF IngestIInv, LockHeld, LockFree, Nobody
<1>13. writer'[w] = new /\ \A v \in Writers \ {w} : writer'[v] = writer[v]
  BY <1>6 DEF IngestIInv, IngestTypes
<1>14. IngestTypes'
  <2>1. clock' \in Nat /\ writer' \in [Writers -> WriterRecord]
    BY <1>2, <1>6 DEF IngestIInv, IngestTypes
  <2>2. QED
    BY <1>7, <1>11, <2>1 DEF IngestIInv, IngestTypes
<1>15. StampsPast'
  <2>1. \A k \in DOMAIN runs' : runs'[k].started <= clock' /\ runs'[k].completed <= clock'
    BY <1>2, <1>4, <1>7, <1>9
  <2>2. /\ bulk.at \in Nat /\ bulk.at <= clock
        /\ \A s \in Datasets : bulk.audits[s].floor \in Nat /\ bulk.audits[s].floor <= clock
    BY DEF IngestIInv, IngestTypes, StampsPast, BulkRecord, Audits
  <2>3. QED
    BY <1>2, <1>10, <1>11, <2>1, <2>2 DEF StampsPast
<1>16. RunsApart'
  <2> SUFFICES ASSUME NEW i \in Recordings', NEW j \in Recordings', i < j
               PROVE  /\ runs'[i].started < runs'[j].started
                      /\ runs'[i].status # "running" => runs'[i].completed < runs'[j].started
    BY Zenon DEF RunsApart
  <2>1. i \in Recordings
    BY <1>7, <1>8, <1>5
  <2>2. CASE j \in Recordings
    BY <1>7, <2>1, <2>2 DEF IngestIInv, RunsApart, Recordings
  <2>3. CASE j = n + 1
    BY <1>4, <1>7, <1>9, <1>2, <2>1, <2>3 DEF Recordings
  <2>4. QED
    BY <1>8, <2>2, <2>3
<1>17. LockHeld'
  <2>1. \A v \in Writers \ {w} : writer'[v].pc = "idle"
    BY <1>12, <1>13 DEF At
  <2>2. n + 1 \in Recordings' /\ \A i \in Recordings' : i <= n + 1
    BY <1>5, <1>8
  <2>3. QED
    BY <1>4, <1>6, <1>7, <1>11, <1>13, <2>1, <2>2 DEF LockHeld, At
<1>18. RowsStamped'
  <2> SUFFICES ASSUME NEW d \in Days, NEW row \in {bars[d], factors[d]}
               PROVE  StampedBy(row)'
    BY <1>11 DEF RowsStamped
  <2>1. row.at \in Nat /\ row.at <= clock /\ StampedBy(row)
    BY <1>10 DEF IngestIInv, RowsStamped
  <2>2. QED
    BY <1>2, <1>4, <1>7, <1>8, <2>1 DEF StampedBy, Recordings
<1>19. QED
  BY <1>14, <1>15, <1>16, <1>17, <1>18 DEF IngestIInv

(* A run that is recorded ends now, before any other can start. *)
LEMMA FinishKeeps ==
  ASSUME IngestIInv, NEW w \in Writers, Finish(w)
  PROVE  IngestIInv'
<1> DEFINE me  == writer[w].run
           run == [runs[me] EXCEPT !.status = Outcome(writer[w].audits), !.audits = writer[w].audits,
                                   !.completed = Now]
<1>1. /\ ~At(w, "idle") /\ UNCHANGED <<bars, factors, bulk>>
      /\ runs' = [runs EXCEPT ![me] = run] /\ lock' = Nobody /\ writer' = [writer EXCEPT ![w] = Idle]
  BY DEF Finish, At
<1>2. clock \in Nat /\ Now = clock + 1 /\ clock' = clock + 1
  BY DEF Finish, IngestIInv, IngestTypes, Tick, Now
<1>3. /\ lock = w /\ me \in Recordings /\ \A i \in Recordings : i <= me
      /\ \A v \in Writers \ {w} : At(v, "idle")
  BY <1>1 DEF IngestIInv, LockHeld
<1>4. runs \in Seq(RunRecord) /\ me \in DOMAIN runs /\ writer[w].audits \in [Datasets -> Audits]
  BY <1>3 DEF IngestIInv, IngestTypes, Recordings, WriterRecord
<1>5. Outcome(writer[w].audits) \in {"ready", "partial", "failed"}
  BY DEF Outcome
<1>6. /\ run \in RunRecord /\ run.bulk = runs[me].bulk /\ run.started = runs[me].started
      /\ run.completed = clock + 1 /\ run.status # "running"
  <2>1. runs[me] \in RunRecord /\ Now \in Nat
    BY <1>2, <1>4
  <2> HIDE DEF me
  <2>2. run \in RunRecord
    BY <1>4, <1>5, <2>1 DEF RunRecord
  <2>3. QED
    BY <1>2, <1>5, <2>1, <2>2 DEF RunRecord
<1> HIDE DEF run, me
<1>7. /\ runs' \in Seq(RunRecord) /\ DOMAIN runs' = DOMAIN runs /\ runs'[me] = run
      /\ \A k \in DOMAIN runs \ {me} : runs'[k] = runs[k]
  BY <1>1, <1>4, <1>6
<1>8. Recordings' = Recordings
  BY <1>6, <1>7 DEF Recordings
<1>9. \A k \in DOMAIN runs :
        /\ k \in Nat /\ runs[k].started \in Nat /\ runs[k].completed \in Nat
        /\ runs[k].started <= clock /\ runs[k].completed <= clock
  <2>1. \A k \in DOMAIN runs : k \in Nat /\ runs[k] \in RunRecord
    BY <1>4
  <2>2. QED
    BY <2>1 DEF IngestIInv, StampsPast, RunRecord
<1>10. \A k \in DOMAIN runs : runs'[k].started = runs[k].started
  BY <1>6, <1>7
<1>11. IngestTypes'
  <2>1. clock' \in Nat /\ writer' \in [Writers -> WriterRecord]
    BY <1>1, <1>2, IdleTypes DEF IngestIInv, IngestTypes
  <2>2. QED
    BY <1>1, <1>7, <2>1 DEF IngestIInv, IngestTypes
<1>12. StampsPast'
  <2>1. \A k \in DOMAIN runs' : runs'[k].started <= clock' /\ runs'[k].completed <= clock'
    BY <1>2, <1>6, <1>7, <1>9, <1>10
  <2>2. /\ bulk.at \in Nat /\ bulk.at <= clock
        /\ \A s \in Datasets : bulk.audits[s].floor \in Nat /\ bulk.audits[s].floor <= clock
    BY DEF IngestIInv, IngestTypes, StampsPast, BulkRecord, Audits
  <2>3. \A d \in Days : /\ bars[d].at \in Nat /\ factors[d].at \in Nat
                        /\ bars[d].at <= clock /\ factors[d].at <= clock
    BY DEF IngestIInv, IngestTypes, StampsPast, Row
  <2>4. QED
    BY <1>1, <1>2, <2>1, <2>2, <2>3 DEF StampsPast
<1>13. RunsApart'
  <2> SUFFICES ASSUME NEW i \in Recordings, NEW j \in Recordings, i < j
               PROVE  /\ runs'[i].started < runs'[j].started
                      /\ runs'[i].status # "running" => runs'[i].completed < runs'[j].started
    BY <1>8, Zenon DEF RunsApart
  <2>1. i \in DOMAIN runs /\ j \in DOMAIN runs /\ i # me
    BY <1>3, <1>9 DEF Recordings
  <2>2. runs'[i] = runs[i] /\ runs'[j].started = runs[j].started
    BY <1>7, <1>10, <2>1
  <2>3. QED
    BY <2>2 DEF IngestIInv, RunsApart
<1>14. LockHeld'
  <2>1. \A v \in Writers : At(v, "idle")'
    BY <1>1, <1>3, IdleTypes DEF At, IngestIInv, IngestTypes
  <2>2. QED
    BY <2>1 DEF LockHeld
<1>15. RowsStamped'
  <2> SUFFICES ASSUME NEW d \in Days, NEW row \in {bars[d], factors[d]}
               PROVE  StampedBy(row)'
    BY <1>1 DEF RowsStamped
  <2>1. StampedBy(row)
    BY DEF IngestIInv, RowsStamped
  <2>2. QED
    BY <1>8, <1>10, <2>1 DEF StampedBy, Recordings
<1>16. QED
  BY <1>11, <1>12, <1>13, <1>14, <1>15 DEF IngestIInv
-----------------------------------------------------------------------------
(* The bulk import: what it takes and marks concerns no backfill. *)
LEMMA BulkMoves ==
  ASSUME IngestIInv, bulk' \in BulkRecord, bulk'.pc # "idle" => bulk'.range \in Imports,
         bulk'.at <= clock', \A s \in Datasets : bulk'.audits[s].floor <= clock,
         clock' \in {clock, clock + 1}, UNCHANGED <<bars, factors, runs, lock, writer>>
  PROVE  IngestIInv'
<1>1. clock \in Nat /\ clock' \in Nat /\ clock <= clock'
  BY DEF IngestIInv, IngestTypes
<1>2. IngestTypes'
  BY <1>1 DEF IngestIInv, IngestTypes
<1>3. StampsPast'
  <2>1. \A k \in DOMAIN runs : runs[k] \in RunRecord
    BY DEF IngestIInv, IngestTypes
  <2>2. \A k \in DOMAIN runs : runs[k].started \in Nat /\ runs[k].completed \in Nat
    BY <2>1 DEF RunRecord
  <2>3. \A d \in Days : bars[d].at \in Nat /\ factors[d].at \in Nat
    BY DEF IngestIInv, IngestTypes, Row
  <2>4. \A s \in Datasets : bulk'.audits[s].floor \in Nat
    BY DEF BulkRecord, Audits
  <2>5. QED
    BY <1>1, <2>2, <2>3, <2>4 DEF IngestIInv, StampsPast
<1>4. RunsApart' /\ RowsStamped'
  BY DEF IngestIInv, RunsApart, RowsStamped, StampedBy, Recordings
<1>5. LockHeld'
  <2> SUFFICES ASSUME NEW w \in Writers, ~At(w, "idle")
               PROVE  /\ lock = w /\ writer[w].run \in Recordings
                      /\ runs[writer[w].run].status = "running"
                      /\ \A i \in Recordings : i <= writer[w].run
                      /\ At(w, "store") => /\ runs[writer[w].run].started < writer[w].at
                                           /\ writer[w].at <= clock'
    BY DEF LockHeld, Recordings, At
  <2>1. writer[w].at \in Nat
    BY DEF IngestIInv, IngestTypes, WriterRecord
  <2>2. QED
    BY <1>1, <2>1 DEF IngestIInv, LockHeld
<1>6. QED
  BY <1>2, <1>3, <1>4, <1>5 DEF IngestIInv

LEMMA BulkStepsKeep ==
  ASSUME IngestIInv, \/ BulkStart \/ BulkFetch \/ BulkCheck \/ BulkFails
                     \/ \E s \in Datasets : BulkMark(s)
  PROVE  IngestIInv'
<1>1. bulk \in BulkRecord /\ (bulk.pc # "idle" => bulk.range \in Imports) /\ clock \in Nat
  BY DEF IngestIInv, IngestTypes
<1>2. UNCHANGED <<bars, factors, runs, lock, writer>> /\ clock' \in {clock, clock + 1}
  BY DEF BulkStart, BulkFetch, BulkCheck, BulkFails, BulkMark, Tick, Now
<1>3. /\ bulk.at \in Nat /\ bulk.at <= clock /\ bulk.at <= clock' /\ 0 <= clock'
      /\ \A s \in Datasets : bulk.audits[s].floor <= clock
  BY <1>1, <1>2 DEF IngestIInv, StampsPast, BulkRecord
<1>4. ASSUME bulk' = IdleBulk
      PROVE  IngestIInv'
  BY <1>1, <1>2, <1>3, <1>4, IdleTypes, BulkMoves
<1>5. CASE BulkStart
  <2>1. PICK r \in Imports :
          bulk' = [bulk EXCEPT !.pc = "import", !.left = Window(r) \ manifest, !.range = r]
    BY <1>5 DEF BulkStart
  <2>2. Window(r) \ manifest \subseteq Days
    BY WindowDays
  <2>3. bulk' \in BulkRecord /\ bulk'.range = r /\ bulk'.audits = bulk.audits /\ bulk'.at = bulk.at
    BY <1>1, <2>1, <2>2 DEF BulkRecord
  <2>4. QED
    BY <1>2, <1>3, <2>3, BulkMoves
<1>6. CASE BulkFetch
  <2>1. bulk' = [bulk EXCEPT !.at = Now] /\ Now \in Nat /\ bulk.pc = "import"
    BY <1>1, <1>6 DEF BulkFetch, Now
  <2>2. /\ bulk' \in BulkRecord /\ bulk'.range = bulk.range
        /\ bulk'.audits = bulk.audits /\ bulk'.at <= clock'
    BY <1>1, <1>6, <2>1 DEF BulkRecord, BulkFetch, Tick, Now
  <2>3. QED
    BY <1>1, <1>2, <1>3, <2>1, <2>2, BulkMoves
<1>7. CASE BulkCheck
  <2>1. CASE bulk' = [bulk EXCEPT !.pc = "daily"]
    <3>1. /\ bulk' \in BulkRecord /\ bulk'.range = bulk.range
          /\ bulk'.audits = bulk.audits /\ bulk'.at = bulk.at
      BY <1>1, <2>1 DEF BulkRecord
    <3>2. bulk.pc = "import"
      BY <1>7 DEF BulkCheck
    <3>3. QED
      BY <1>1, <1>2, <1>3, <3>1, <3>2, BulkMoves
  <2>2. QED
    BY <1>4, <1>7, <2>1 DEF BulkCheck
<1>8. CASE BulkFails
  BY <1>4, <1>8 DEF BulkFails
<1>9. CASE \E s \in Datasets : BulkMark(s)
  <2>1. PICK s \in Datasets : BulkMark(s)
    BY <1>9
  <2> DEFINE audit == CompletedAudit(s, bulk.range, Window(bulk.range))
             next  == IF s = "daily" THEN "adjust" ELSE "run"
  <2>2. bulk' = [bulk EXCEPT !.audits[s] = audit, !.pc = next] /\ bulk.range \in Imports
    BY <1>1, <2>1 DEF BulkMark, Datasets
  <2>3. audit \in Audits /\ audit.floor <= clock
    BY <2>2, CompletedTypes DEF IngestIInv
  <2>4. next \in {"adjust", "run"}
    OBVIOUS
  <2> HIDE DEF audit, next
  <2>5. [bulk.audits EXCEPT ![s] = audit] \in [Datasets -> Audits]
    BY <1>1, <2>3 DEF BulkRecord
  <2>6. /\ bulk' \in BulkRecord /\ bulk'.range = bulk.range /\ bulk'.at = bulk.at
        /\ bulk'.audits = [bulk.audits EXCEPT ![s] = audit]
    BY <1>1, <2>2, <2>4, <2>5 DEF BulkRecord
  <2>7. \A d \in Datasets : bulk'.audits[d].floor <= clock
    BY <1>1, <1>3, <2>3, <2>6 DEF BulkRecord
  <2>8. QED
    BY <1>2, <1>3, <2>2, <2>6, <2>7, BulkMoves
<1>10. QED
  BY <1>5, <1>6, <1>7, <1>8, <1>9

LEMMA BulkStoreKeeps ==
  ASSUME IngestIInv, BulkStore
  PROVE  IngestIInv'
<1> DEFINE day == Min(bulk.left)
           row == [at |-> bulk.at, by |-> Bulk, source |-> "tushare"]
<1>1. /\ bars' = [bars EXCEPT ![day] = row] /\ factors' = [factors EXCEPT ![day] = row]
      /\ bulk.pc = "import" /\ UNCHANGED <<clock, runs, lock, writer>>
      /\ bulk' = [bulk EXCEPT !.left = @ \ {day}, !.at = 0]
  BY DEF BulkStore
<1>2. /\ bulk \in BulkRecord /\ bulk.range \in Imports /\ bulk.at \in Nat /\ bulk.at <= clock
      /\ clock \in Nat /\ bars \in [Days -> Row] /\ factors \in [Days -> Row]
  BY <1>1 DEF IngestIInv, IngestTypes, StampsPast, BulkRecord
<1>3. row \in Row /\ row.at <= clock /\ StampedBy(row)
  BY <1>2 DEF Row, Bulk, StampedBy
<1>4. /\ bulk' \in BulkRecord /\ bulk'.range = bulk.range /\ bulk'.pc = "import"
      /\ bulk'.audits = bulk.audits /\ bulk'.at = 0
  <2>1. bulk.left \ {day} \subseteq Days
    BY <1>2 DEF BulkRecord
  <2> HIDE DEF day
  <2>2. QED
    BY <1>1, <1>2, <2>1 DEF BulkRecord
<1> HIDE DEF day, row
<1>5. bars' \in [Days -> Row] /\ factors' \in [Days -> Row]
  BY <1>1, <1>2, <1>3
<1>6. \A d \in Days : /\ bars'[d].at <= clock /\ factors'[d].at <= clock
                      /\ StampedBy(bars'[d]) /\ StampedBy(factors'[d])
  <2>1. \A d \in Days : bars'[d] \in {bars[d], row} /\ factors'[d] \in {factors[d], row}
    BY <1>1, <1>2
  <2>2. QED
    BY <1>3, <2>1 DEF IngestIInv, StampsPast, RowsStamped
<1>7. Recordings' = Recordings
  BY <1>1 DEF Recordings
<1>8. IngestTypes'
  BY <1>1, <1>2, <1>4, <1>5 DEF IngestIInv, IngestTypes
<1>9. StampsPast'
  BY <1>1, <1>2, <1>4, <1>6 DEF IngestIInv, StampsPast
<1>10. RunsApart' /\ LockHeld'
  BY <1>1, <1>7 DEF IngestIInv, RunsApart, LockHeld, At
<1>11. RowsStamped'
  BY <1>1, <1>6, <1>7 DEF RowsStamped, StampedBy
<1>12. QED
  BY <1>8, <1>9, <1>10, <1>11 DEF IngestIInv

LEMMA BulkRunKeeps ==
  ASSUME IngestIInv, BulkRun
  PROVE  IngestIInv'
<1> DEFINE kept   == [k \in DOMAIN runs |->
                        IF runs[k].bulk /\ runs[k].range = bulk.range
                        THEN [runs[k] EXCEPT !.status = "deleted"] ELSE runs[k]]
           floors == {bulk.audits[s].floor : s \in Datasets}
           run    == [range |-> bulk.range, status |-> "ready", bulk |-> TRUE, audits |-> bulk.audits,
                      completed |-> Now, started |-> Min(floors)]
           n      == Len(runs)
<1>1. /\ bulk.pc = "run" /\ runs' = Append(kept, run) /\ bulk' = IdleBulk
      /\ UNCHANGED <<bars, factors, lock, writer>>
  BY DEF BulkRun
<1>2. clock \in Nat /\ Now = clock + 1 /\ clock' = clock + 1
  BY DEF BulkRun, IngestIInv, IngestTypes, Tick, Now
<1>3. bulk \in BulkRecord /\ bulk.range \in Imports /\ bulk.audits \in [Datasets -> Audits]
  BY <1>1 DEF IngestIInv, IngestTypes, BulkRecord
<1>4. Min(floors) \in Nat /\ Min(floors) <= clock
  <2>1. floors \in SUBSET Nat /\ floors # {} /\ \A x \in floors : x <= clock
    BY <1>3 DEF IngestIInv, StampsPast, Audits, Datasets
  <2> HIDE DEF floors
  <2>2. QED
    BY <2>1, Smallest
<1> HIDE DEF floors
<1>5. run \in RunRecord /\ run.bulk /\ run.completed = clock + 1 /\ run.started <= clock
  <2>1. run \in RunRecord
    BY <1>2, <1>3, <1>4 DEF RunRecord
  <2>2. QED
    BY <1>2, <1>4, <2>1
<1> HIDE DEF run
<1>6. \A k \in DOMAIN runs : k \in Nat /\ k <= n /\ n \in Nat /\ runs[k] \in RunRecord
  BY DEF IngestIInv, IngestTypes
<1>7. /\ kept \in Seq(RunRecord) /\ Len(kept) = n /\ DOMAIN kept = DOMAIN runs /\ n \in Nat
      /\ \A k \in DOMAIN runs :
           /\ kept[k].bulk = runs[k].bulk /\ kept[k].started = runs[k].started
           /\ kept[k].completed = runs[k].completed
           /\ ~runs[k].bulk => kept[k] = runs[k]
  <2>1. \A k \in DOMAIN runs :
          /\ kept[k] \in RunRecord
          /\ kept[k].bulk = runs[k].bulk /\ kept[k].started = runs[k].started
          /\ kept[k].completed = runs[k].completed
          /\ ~runs[k].bulk => kept[k] = runs[k]
    BY <1>6 DEF RunRecord
  <2>2. DOMAIN kept = 1 .. n /\ n \in Nat /\ DOMAIN kept = DOMAIN runs
    BY DEF IngestIInv, IngestTypes
  <2>3. QED
    <3> HIDE DEF kept, n
    <3>1. kept \in [1 .. n -> RunRecord]
      <4>1. kept = [k \in DOMAIN runs |-> kept[k]]
        BY DEF kept
      <4>2. QED
        BY <2>1, <2>2, <4>1
    <3>2. kept \in Seq(RunRecord) /\ Len(kept) = n
      BY <2>2, <3>1
    <3>3. QED
      BY <2>1, <2>2, <3>2
<1> HIDE DEF kept, n
<1>8. /\ runs' \in Seq(RunRecord) /\ DOMAIN runs' = DOMAIN runs \cup {n + 1}
      /\ runs'[n + 1] = run /\ \A k \in DOMAIN runs : runs'[k] = kept[k] /\ k # n + 1
  <2>1. \A k \in DOMAIN runs : k <= n /\ k \in Nat
    BY <1>6
  <2>2. QED
    BY <1>1, <1>5, <1>7, <2>1
<1>9. Recordings' = Recordings /\ \A k \in Recordings : runs'[k] = runs[k]
  BY <1>5, <1>7, <1>8 DEF Recordings
<1>10. IngestTypes'
  BY <1>1, <1>2, <1>8, IdleTypes DEF IngestIInv, IngestTypes
<1>11. StampsPast'
  <2>1. \A k \in DOMAIN runs : /\ runs[k].started \in Nat /\ runs[k].completed \in Nat
                               /\ runs[k].started <= clock /\ runs[k].completed <= clock
    BY <1>6 DEF IngestIInv, StampsPast, RunRecord
  <2>2. \A k \in DOMAIN runs' : runs'[k].started <= clock' /\ runs'[k].completed <= clock'
    <3>1. run.started \in Nat /\ run.started <= clock' /\ run.completed <= clock'
      BY <1>2, <1>5 DEF RunRecord
    <3>2. \A k \in DOMAIN runs : runs'[k].started <= clock' /\ runs'[k].completed <= clock'
      BY <1>2, <1>7, <1>8, <2>1
    <3>3. QED
      BY <1>8, <3>1, <3>2
  <2>3. \A d \in Days : /\ bars[d].at \in Nat /\ factors[d].at \in Nat
                        /\ bars[d].at <= clock /\ factors[d].at <= clock
    BY DEF IngestIInv, IngestTypes, StampsPast, Row
  <2>4. QED
    BY <1>1, <1>2, <2>2, <2>3, IdleTypes DEF StampsPast
<1>12. RunsApart'
  BY <1>9 DEF IngestIInv, RunsApart
<1>13. LockHeld'
  <2> SUFFICES ASSUME NEW w \in Writers, ~At(w, "idle")
               PROVE  /\ lock = w /\ writer[w].run \in Recordings
                      /\ runs'[writer[w].run].status = "running"
                      /\ \A i \in Recordings : i <= writer[w].run
                      /\ At(w, "store") => /\ runs'[writer[w].run].started < writer[w].at
                                           /\ writer[w].at <= clock'
    BY <1>1, <1>9 DEF LockHeld, At
  <2>1. writer[w].at \in Nat
    BY DEF IngestIInv, IngestTypes, WriterRecord
  <2>2. QED
    BY <1>2, <1>9, <2>1 DEF IngestIInv, LockHeld
<1>14. RowsStamped'
  <2> SUFFICES ASSUME NEW d \in Days, NEW row \in {bars[d], factors[d]}
               PROVE  StampedBy(row)'
    BY <1>1 DEF RowsStamped
  <2>1. StampedBy(row)
    BY DEF IngestIInv, RowsStamped
  <2>2. QED
    BY <1>9, <2>1 DEF StampedBy
<1>15. QED
  BY <1>10, <1>11, <1>12, <1>13, <1>14 DEF IngestIInv

LEMMA IngestStep ==
  ASSUME IngestIInv, [IngestNext]_store
  PROVE  IngestIInv'
<1>1. CASE \E w \in Writers : \/ Begin(w) \/ Fetch(w) \/ Store(w) \/ Audit(w)
                              \/ TaskFails(w) \/ Finish(w) \/ Crash(w)
  BY <1>1, BeginKeeps, FetchKeeps, StoreKeeps, AuditKeeps, FinishKeeps, CrashKeeps
<1>2. CASE BulkStart \/ BulkFetch \/ BulkCheck \/ BulkFails \/ \E s \in Datasets : BulkMark(s)
  BY <1>2, BulkStepsKeep
<1>3. CASE BulkStore
  BY <1>3, BulkStoreKeeps
<1>4. CASE BulkRun
  BY <1>4, BulkRunKeeps
<1>5. CASE UNCHANGED store
  BY <1>5 DEF store, IngestIInv, IngestTypes, StampsPast, RunsApart, LockHeld, RowsStamped,
              StampedBy, Recordings, At
<1>6. QED
  BY <1>1, <1>2, <1>3, <1>4, <1>5 DEF IngestNext
-----------------------------------------------------------------------------
(* The run on whose word a window is read is the last that vouches for it. *)
LEMMA CoveringVouches ==
  ASSUME IngestIInv, NEW r \in Ranges \cup Imports, Vouching(r) # {}
  PROVE  /\ Covering(r) \in Vouching(r)
         /\ \A k \in Vouching(r) : runs[k].started <= runs[Covering(r)].started
<1> DEFINE starts == {runs[k].started : k \in Vouching(r)}
           latest == {k \in Vouching(r) : runs[k].started = Max(starts)}
<1>1. \A k \in Vouching(r) : /\ k \in Nat /\ k <= Len(runs)
                             /\ runs[k].started \in Nat /\ runs[k].started <= clock
  <2>1. \A k \in DOMAIN runs : k \in Nat /\ k <= Len(runs) /\ runs[k] \in RunRecord
    BY DEF IngestIInv, IngestTypes
  <2>2. QED
    BY <2>1 DEF Vouching, Overlapping, RunRecord, IngestIInv, StampsPast
<1>2. Max(starts) \in starts /\ \A x \in starts : x <= Max(starts)
  <2>1. starts \in SUBSET Nat /\ starts # {} /\ \A x \in starts : x <= clock
    BY <1>1
  <2>2. clock \in Nat
    BY DEF IngestIInv, IngestTypes
  <2> HIDE DEF starts
  <2>3. QED
    BY <2>1, <2>2, Largest
<1>3. latest \in SUBSET Nat /\ latest # {} /\ \A k \in latest : k <= Len(runs)
  BY <1>1, <1>2
<1>4. Len(runs) \in Nat
  BY DEF IngestIInv, IngestTypes
<1>5. Max(latest) \in latest
  <2> HIDE DEF latest
  <2>1. QED
    BY <1>3, <1>4, Largest
<1>6. Covering(r) = Max(latest)
  BY Zenon DEF Covering
<1>7. QED
  BY <1>2, <1>5, <1>6

(* A factor that counts for a window counts for every window around it. *)
LEMMA RowsOfPart ==
  ASSUME IngestTypes, NEW set \in Datasets, NEW r \in Ranges \cup Imports, NEW q \in Ranges \cup Imports, Holds(q, r)
  PROVE  Rows(set, r) \subseteq Rows(set, q)
<1> DEFINE before(s) == Present(factors, {d \in Days : d < s[1]})
           last(s)   == IF set = "adjust" /\ before(s) # {} THEN {Max(before(s))} ELSE {}
<1>1. \A s \in {r, q} : Rows(set, s) = Present(Table(set), Window(s)) \cup last(s)
  BY Zenon DEF Rows
<1>2. /\ r[1] \in Nat /\ r[2] \in Nat /\ q[1] \in Nat /\ q[2] \in Nat /\ Days \subseteq Nat
      /\ q[1] <= r[1] /\ r[1] <= r[2] /\ r[2] <= q[2] /\ Window(r) \subseteq Window(q)
  <2>1. /\ r[1] \in Nat /\ r[2] \in Nat /\ q[1] \in Nat /\ q[2] \in Nat /\ Days \subseteq Nat
        /\ r[1] <= r[2]
    BY WindowDays
  <2>2. QED
    BY <2>1 DEF Holds, Window
<1>3. Present(Table(set), Window(r)) \subseteq Present(Table(set), Window(q))
  BY <1>2 DEF Present
<1>4. ASSUME NEW m \in last(r)
      PROVE  m \in Rows(set, q)
  <2>1. set = "adjust" /\ before(r) # {} /\ m = Max(before(r))
    BY <1>4
  <2>2. ASSUME NEW s \in {r, q}
        PROVE  before(s) \in SUBSET Nat /\ s[1] \in Nat /\ \A d \in before(s) : d <= s[1]
    <3>1. s[1] \in Nat /\ before(s) \in SUBSET Nat
      BY <1>2 DEF Present
    <3>2. \A d \in before(s) : d \in Nat /\ d < s[1]
      BY <1>2 DEF Present
    <3>3. QED
      <4> HIDE DEF before
      <4>1. QED
        BY <3>1, <3>2
  <2>3. m \in before(r) /\ \A d \in before(r) : d <= m
    <3> DEFINE B == before(r)
    <3>1. B \in SUBSET Nat /\ B # {} /\ r[1] \in Nat /\ \A d \in B : d <= r[1]
      BY <2>1, <2>2
    <3>2. m = Max(B)
      BY <2>1
    <3> HIDE DEF B
    <3>3. m \in B /\ \A d \in B : d <= m
      BY <3>1, <3>2, Largest
    <3>4. QED
      BY <3>3 DEF B
  <2>4. m \in Days /\ m \in Nat /\ m < r[1] /\ factors[m] # NoRow
    BY <1>2, <2>3 DEF Present
  <2>5. CASE q[1] <= m
    <3>1. m \in Window(q)
      BY <1>2, <2>4, <2>5 DEF Window
    <3>2. QED
      BY <1>1, <2>1, <2>4, <3>1 DEF Present, Table
  <2>6. CASE m < q[1]
    <3>1. before(q) \subseteq before(r) /\ m \in before(q)
      <4>1. \A d \in Days : d < q[1] => d < r[1]
        BY <1>2
      <4>2. QED
        BY <2>4, <2>6, <4>1 DEF Present
    <3>2. Max(before(q)) = m
      <4> DEFINE B == before(q)
      <4>1. B \in SUBSET Nat /\ B # {} /\ q[1] \in Nat /\ (\A d \in B : d <= q[1]) /\ m \in B
        BY <2>2, <3>1
      <4>2. \A d \in B : d <= m
        BY <2>3, <3>1
      <4> HIDE DEF B
      <4>3. Max(B) \in B /\ m <= Max(B) /\ Max(B) <= m
        BY <4>1, <4>2, Largest
      <4>4. Max(B) = m
        <5>1. \A x \in Nat : m <= x /\ x <= m => x = m
          BY <2>4
        <5>2. QED
          BY <4>1, <4>3, <5>1
      <4>5. QED
        BY <4>4 DEF B
    <3>3. QED
      BY <1>1, <2>1, <3>1, <3>2
  <2>7. QED
    BY <1>2, <2>4, <2>5, <2>6
<1>5. QED
  BY <1>1, <1>3, <1>4

(* What the stamps of a backfill that vouches say of the writer of a row.  *)
LEMMA VouchedRow ==
  ASSUME IngestIInv, NEW k \in Recordings, runs[k].status # "running",
         NEW row \in Row, StampedBy(row), row.at <= runs[k].completed
  PROVE  /\ row.by <= k
         /\ runs[k].started <= row.at => row.by \in {k, Bulk}
<1>1. \A i \in Recordings : i \in Nat /\ runs[i].started \in Nat /\ runs[i].completed \in Nat
  <2>1. \A i \in DOMAIN runs : i \in Nat /\ runs[i] \in RunRecord
    BY DEF IngestIInv, IngestTypes
  <2>2. QED
    BY <2>1 DEF Recordings, RunRecord
<1>2. row.at \in Nat /\ row.by \in Nat
  BY DEF Row
<1>3. CASE row.by = Bulk
  BY <1>1, <1>3 DEF Bulk
<1>4. CASE row.by # Bulk
  <2>1. /\ row.by \in Recordings /\ runs[row.by].started < row.at
        /\ \A i \in Recordings : row.by < i => row.at < runs[i].started
    BY <1>4 DEF StampedBy
  <2>2. ~(k < row.by)
    <3> SUFFICES ASSUME k < row.by
                 PROVE  FALSE
      OBVIOUS
    <3>1. runs[k].completed < runs[row.by].started
      BY <2>1 DEF IngestIInv, RunsApart
    <3>2. QED
      BY <1>1, <1>2, <2>1, <3>1
  <2>3. row.by < k => row.at < runs[k].started
    BY <2>1
  <2>4. QED
    BY <1>1, <1>2, <2>1, <2>2, <2>3
<1>5. QED
  BY <1>3, <1>4

LEMMA CertifiedByStamps ==
  ASSUME IngestIInv
  PROVE  CertifiedRows
<1> SUFFICES ASSUME NEW r \in Ranges \cup Imports, Load(r) = "full", ~runs[Covering(r)].bulk
             PROVE  /\ \A d \in Rows("daily", r)  : bars[d].by \in {Covering(r), Bulk}
                    /\ \A d \in Rows("adjust", r) : factors[d].by <= Covering(r)
  BY Zenon DEF CertifiedRows
<1> DEFINE k == Covering(r)
           q == runs[k].range
<1>1. Vouching(r) # {}
  BY DEF Load, Quality
<1>2. k \in Vouching(r)
  BY <1>1, CoveringVouches
<1> HIDE DEF k
<1>3. /\ k \in Recordings /\ runs[k] \in RunRecord /\ runs[k].status \in {"ready", "partial"}
      /\ Holds(q, r) /\ \A s \in Datasets : MarksMatch(k, s)
  <2>1. k \in DOMAIN runs /\ RequiredMatch(k, r)
    BY <1>2 DEF Vouching, Overlapping
  <2>2. k \in Recordings
    BY <2>1 DEF Recordings, k
  <2>3. QED
    BY <2>1, <2>2 DEF RequiredMatch, IngestIInv, IngestTypes
<1>4. ASSUME NEW s \in Datasets, NEW d \in Rows(s, r)
      PROVE  /\ Table(s)[d] \in Row /\ StampedBy(Table(s)[d])
             /\ Table(s)[d].at <= runs[k].completed
             /\ Seen(s, q).floor <= Table(s)[d].at
  <2>1. q \in Ranges \cup Imports
    BY <1>3 DEF RunRecord
  <2>2. d \in Rows(s, q)
    BY <1>3, <2>1, RowsOfPart DEF IngestIInv
  <2>3. /\ Seen(s, q).floor <= Table(s)[d].at /\ Table(s)[d].at <= Seen(s, q).mark
        /\ Seen(s, q).mark \in Nat
    BY <2>1, <2>2, SeenMarks DEF IngestIInv
  <2>4. Seen(s, q).mark <= runs[k].completed
    BY <1>3 DEF MarksMatch
  <2>5. d \in Days
    BY <1>4, RowsInWindow DEF IngestIInv
  <2>6. Table(s)[d] \in Row /\ StampedBy(Table(s)[d])
    BY <2>5 DEF Table, IngestIInv, IngestTypes, RowsStamped
  <2>7. QED
    BY <1>3, <2>3, <2>4, <2>6 DEF Row, RunRecord
<1>5. \A d \in Rows("daily", r) : bars[d].by \in {k, Bulk}
  <2> SUFFICES ASSUME NEW d \in Rows("daily", r)
               PROVE  bars[d].by \in {k, Bulk}
    OBVIOUS
  <2>1. /\ bars[d] \in Row /\ StampedBy(bars[d]) /\ bars[d].at <= runs[k].completed
        /\ Seen("daily", q).floor <= bars[d].at
    BY <1>4 DEF Table, Datasets
  <2>2. runs[k].started <= Seen("daily", q).floor
    BY <1>3 DEF MarksMatch, Datasets
  <2>3. Seen("daily", q).floor \in Nat
    BY <1>3, SeenMarks DEF RunRecord, Datasets, IngestIInv
  <2>4. runs[k].started <= bars[d].at
    BY <1>3, <2>1, <2>2, <2>3 DEF Row, RunRecord
  <2>5. QED
    BY <1>3, <2>1, <2>4, VouchedRow
<1>6. \A d \in Rows("adjust", r) : factors[d].by <= k
  <2> SUFFICES ASSUME NEW d \in Rows("adjust", r)
               PROVE  factors[d].by <= k
    OBVIOUS
  <2>1. factors[d] \in Row /\ StampedBy(factors[d]) /\ factors[d].at <= runs[k].completed
    BY <1>4 DEF Table, Datasets
  <2>2. QED
    BY <1>3, <2>1, VouchedRow
<1>7. QED
  BY <1>5, <1>6 DEF k

(* Prices of one backfill are never mixed with those of another, nor       *)
(* adjusted with a factor brought later, for every number of writers, runs *)
(* and windows: a backfill holds the lock from before its run is recorded  *)
(* until that run has ended, so that the stamps between the start and the  *)
(* end of a run are its own or of the bulk import.                         *)
THEOREM CertifiedRowsCorrect == IngestSpec => []CertifiedRows
<1>1. IngestInit => IngestIInv
  BY IngestInitial
<1>2. IngestIInv /\ [IngestNext]_store => IngestIInv'
  BY IngestStep
<1>3. IngestIInv => CertifiedRows
  BY CertifiedByStamps
<1>4. QED
  BY <1>1, <1>2, <1>3, PTL DEF IngestSpec
-----------------------------------------------------------------------------
(* ReadyIsLoadable.  What an audit says still holds when its run is        *)
(* recorded, if all rows are of that run by then: the import, which takes  *)
(* no lock, would have left its own.  And no run of the import stands in   *)
(* the way of a reader.                                                    *)
Fresh(set, r, run, audit) ==
  audit.state = "ok" =>
    /\ set = "daily" => audit.rows = 1
    /\ (\A d \in Rows(set, r) : Table(set)[d].by = run) =>
         Seen(set, r) = [first |-> audit.first, last |-> audit.last,
                         floor |-> audit.floor, mark |-> audit.mark]
AuditsFresh(w) ==
  ~At(w, "idle") =>
    /\ ~At(w, "finish") => writer[w].audits[writer[w].set].state = "open"
    /\ \A s \in Datasets : Fresh(s, Asked(w), writer[w].run, writer[w].audits[s])
NoneFailed(audits) == \A s \in Datasets : audits[s].state # "failed"
ImportsSettled ==
  /\ NoneFailed(bulk.audits)
  /\ \A k \in DOMAIN runs : runs[k].bulk => runs[k].status # "running" /\ NoneFailed(runs[k].audits)

LoadIInv == IngestIInv /\ (\A w \in Writers : AuditsFresh(w)) /\ ImportsSettled

LEMMA DailyRows ==
  ASSUME NEW r
  PROVE  Rows("daily", r) = Present(bars, Window(r))
BY Zenon DEF Rows, Table

(* What is seen depends on the rows that count, and on nothing else. *)
LEMMA SeenStays ==
  ASSUME NEW set \in Datasets, NEW r, Rows(set, r)' = Rows(set, r),
         \A d \in Rows(set, r) : Table(set)'[d] = Table(set)[d]
  PROVE  Seen(set, r)' = Seen(set, r)
<1> DEFINE stamps == {Table(set)[d].at : d \in Rows(set, r)}
           all    == [first |-> Min(Rows(set, r)), last |-> Max(Rows(set, r)),
                      floor |-> Min(stamps), mark |-> Max(stamps)]
<1>1. stamps' = {Table(set)'[d].at : d \in Rows(set, r)}
  BY Zenon
<1>2. stamps' = stamps
  BY <1>1
<1>3. Seen(set, r) = IF Rows(set, r) = {} THEN [first |-> 0, last |-> 0, floor |-> 0, mark |-> 0]
                     ELSE all
  BY Zenon DEF Seen
<1>4. Seen(set, r)' = IF Rows(set, r)' = {} THEN [first |-> 0, last |-> 0, floor |-> 0, mark |-> 0]
                      ELSE all'
  BY Zenon DEF Seen
<1>5. all' = all
  <2> HIDE DEF stamps
  <2>1. QED
    BY <1>2
<1>6. QED
  <2> HIDE DEF all
  <2>1. QED
    BY <1>3, <1>4, <1>5

LEMMA FreshStays ==
  ASSUME NEW set \in Datasets, NEW r, NEW run, NEW audit, Fresh(set, r, run, audit),
         Rows(set, r)' = Rows(set, r), \A d \in Rows(set, r) : Table(set)'[d] = Table(set)[d]
  PROVE  Fresh(set, r, run, audit)'
<1>1. Seen(set, r)' = Seen(set, r)
  BY SeenStays
<1>2. (\A d \in Rows(set, r)' : Table(set)'[d].by = run) => \A d \in Rows(set, r) : Table(set)[d].by = run
  OBVIOUS
<1>3. QED
  BY <1>1, <1>2 DEF Fresh

(* A backfill that did not move is not disturbed if no table changed. *)
LEMMA OthersFresh ==
  ASSUME IngestTypes, NEW w \in Writers, AuditsFresh(w), UNCHANGED <<bars, factors>>, writer'[w] = writer[w],
         ~At(w, "idle") => Asked(w)' = Asked(w)
  PROVE  AuditsFresh(w)'
<1> SUFFICES ASSUME ~At(w, "idle")
             PROVE  /\ ~At(w, "finish") => writer[w].audits[writer[w].set].state = "open"
                    /\ \A s \in Datasets : Fresh(s, Asked(w), writer[w].run, writer[w].audits[s])'
  BY DEF AuditsFresh, At
<1>1. PICK r : r = Asked(w)
  OBVIOUS
<1>2. ASSUME NEW s \in Datasets
      PROVE  Fresh(s, Asked(w), writer[w].run, writer[w].audits[s])'
  <2>1. PICK run, audit : run = writer[w].run /\ audit = writer[w].audits[s]
    OBVIOUS
  <2>2. Fresh(s, r, run, audit)
    BY <1>1, <2>1 DEF AuditsFresh
  <2>3. Rows(s, r)' = Rows(s, r) /\ Table(s)' = Table(s)
    BY DEF Rows, Present, Table
  <2>4. Fresh(s, r, run, audit)'
    BY <2>2, <2>3, FreshStays
  <2>5. Asked(w)' = r /\ writer[w].run' = run /\ writer[w].audits[s]' = audit
    BY <1>1, <2>1
  <2>6. QED
    BY <2>4, <2>5, Zenon
<1>3. QED
  BY <1>2 DEF AuditsFresh

(* An audit that succeeds says what is seen. *)
LEMMA CompletedFresh ==
  ASSUME IngestTypes, StampsPast, NEW set \in Datasets, NEW r \in Ranges \cup Imports, NEW rows, NEW run
  PROVE  Fresh(set, r, run, CompletedAudit(set, r, rows))
<1>1. Seen(set, r) \in [first : Nat, last : Nat, floor : Nat, mark : Nat]
  BY SeenMarks
<1>2. CASE rows = {} /\ set = "daily"
  BY <1>2 DEF CompletedAudit, Fresh, Failed, Template
<1>3. CASE ~(rows = {} /\ set = "daily")
  <2> DEFINE seen == Seen(set, r)
             any  == IF rows = {} THEN 0 ELSE 1
             audit == [state |-> "ok", rows |-> any, first |-> seen.first, last |-> seen.last,
                       floor |-> seen.floor, mark |-> seen.mark]
  <2>1. CompletedAudit(set, r, rows) = audit
    BY <1>3, Zenon DEF CompletedAudit
  <2>2. set = "daily" => audit.rows = 1
    BY <1>3
  <2>3. seen = [first |-> audit.first, last |-> audit.last, floor |-> audit.floor, mark |-> audit.mark]
    <3> HIDE DEF seen, any
    <3>1. QED
      BY <1>1 DEF seen
  <2> HIDE DEF audit
  <2>4. QED
    BY <2>1, <2>2, <2>3 DEF Fresh
<1>4. QED
  BY <1>2, <1>3

LEMMA RecordedFresh ==
  ASSUME IngestIInv, NEW w \in Writers, AuditsFresh(w), ~At(w, "idle"), ~At(w, "finish"), NEW audit \in Audits,
         Fresh(writer[w].set, Asked(w), writer[w].run, audit),
         writer' = Recorded(w, audit), UNCHANGED <<bars, factors, runs>>
  PROVE  \A v \in Writers : AuditsFresh(v)'
<1> DEFINE old  == writer[w]
           next == old.set = "daily" /\ old.audits["adjust"] = Template
           new  == [old EXCEPT !.audits[old.set] = audit, !.rows = {}, !.at = 0,
                               !.set = IF next THEN "adjust" ELSE old.set,
                               !.pc  = IF next THEN "fetch" ELSE "finish"]
<1>1. writer' = [writer EXCEPT ![w] = new]
  BY Zenon DEF Recorded
<1>2. writer'[w] = new /\ (\A v \in Writers \ {w} : writer'[v] = writer[v]) /\ old \in WriterRecord
  BY <1>1 DEF IngestIInv, IngestTypes
<1>3. \A v \in Writers \ {w} : At(v, "idle")
  BY DEF IngestIInv, LockHeld
<1>4. /\ new.run = old.run /\ new.audits = [old.audits EXCEPT ![old.set] = audit]
      /\ new.set = IF next THEN "adjust" ELSE old.set
      /\ new.pc = IF next THEN "fetch" ELSE "finish"
  <2> HIDE DEF next, old
  <2>1. QED
    BY <1>2 DEF WriterRecord
<1>5. old.audits \in [Datasets -> Audits] /\ old.set \in Datasets
  BY <1>2 DEF WriterRecord
<1> HIDE DEF new
<1>6. new.pc # "finish" => new.audits[new.set].state = "open"
  BY <1>4, <1>5 DEF Template, Datasets
<1>7. ASSUME NEW s \in Datasets
      PROVE  Fresh(s, Asked(w), writer[w].run, writer[w].audits[s])'
  <2>1. PICK r, run, this : r = Asked(w) /\ run = old.run /\ this = new.audits[s]
    OBVIOUS
  <2>2. Fresh(s, r, run, this)
    <3>1. CASE s = old.set
      BY <1>4, <1>5, <2>1, <3>1
    <3>2. CASE s # old.set
      BY <1>4, <1>5, <2>1, <3>2 DEF AuditsFresh
    <3>3. QED
      BY <3>1, <3>2
  <2>3. Rows(s, r)' = Rows(s, r) /\ Table(s)' = Table(s)
    BY DEF Rows, Present, Table
  <2>4. Fresh(s, r, run, this)'
    BY <2>2, <2>3, FreshStays
  <2>5. writer'[w].audits[s] = this /\ writer'[w].run = run /\ Asked(w)' = r
    BY <1>2, <1>4, <2>1 DEF Asked
  <2>6. QED
    BY <2>4, <2>5, Zenon
<1>8. AuditsFresh(w)'
  <2>1. \A s \in Datasets : Fresh(s, Asked(w), writer[w].run, writer[w].audits[s])'
    BY <1>7
  <2>2. QED
    BY <1>2, <1>6, <2>1 DEF AuditsFresh, At
<1>9. \A v \in Writers \ {w} : AuditsFresh(v)'
  BY <1>2, <1>3 DEF AuditsFresh, At
<1>10. QED
  BY <1>8, <1>9

LEMMA BeginFresh ==
  ASSUME LoadIInv, NEW w \in Writers, Begin(w)
  PROVE  (\A v \in Writers : AuditsFresh(v)') /\ ImportsSettled'
<1>1. PICK r \in Ranges, sets \in {Datasets, {"daily"}, {"adjust"}} :
        LET audits == [s \in Datasets |-> IF s \in sets THEN Template ELSE Absent] IN
        /\ At(w, "idle") /\ LockFree /\ Len(runs) < MaxRuns
        /\ lock' = w /\ Tick
        /\ runs' = Append(runs, [range |-> r, status |-> "running", bulk |-> FALSE,
                                 audits |-> audits, started |-> Now, completed |-> 0])
        /\ writer' = [writer EXCEPT ![w] =
             [Idle EXCEPT !.pc = "fetch", !.run = Len(runs) + 1, !.audits = audits,
                          !.set = IF "daily" \in sets THEN "daily" ELSE "adjust"]]
        /\ UNCHANGED <<bars, factors, manifest, bulk, upsets>>
  BY Zenon DEF Begin
<1> DEFINE audits == [s \in Datasets |-> IF s \in sets THEN Template ELSE Absent]
           run    == [range |-> r, status |-> "running", bulk |-> FALSE,
                      audits |-> audits, started |-> Now, completed |-> 0]
           set    == IF "daily" \in sets THEN "daily" ELSE "adjust"
           new    == [Idle EXCEPT !.pc = "fetch", !.run = Len(runs) + 1, !.audits = audits, !.set = set]
<1>2. /\ \A s \in Datasets : audits[s].state \in {"open", "absent"}
      /\ set \in Datasets /\ audits[set].state = "open"
  BY DEF Template, Absent, Datasets
<1>3. new.pc = "fetch" /\ new.audits = audits /\ new.set = set
  BY DEF Idle
<1>4. writer' = [writer EXCEPT ![w] = new] /\ runs' = Append(runs, run) /\ UNCHANGED bulk
  BY <1>1
<1> HIDE DEF new, audits, set
<1>5. writer'[w] = new /\ \A v \in Writers \ {w} : writer'[v] = writer[v]
  BY <1>4 DEF LoadIInv, IngestIInv, IngestTypes
<1>6. \A v \in Writers : At(v, "idle")
  BY <1>1, WritersAssumption DEF LoadIInv, IngestIInv, LockHeld, LockFree, Nobody
<1>7. AuditsFresh(w)'
  BY <1>2, <1>3, <1>5 DEF AuditsFresh, Fresh, At
<1>8. \A v \in Writers \ {w} : AuditsFresh(v)'
  BY <1>5, <1>6 DEF AuditsFresh, At
<1>9. ImportsSettled'
  <2>1. ~run.bulk
    OBVIOUS
  <2> HIDE DEF run
  <2>2. \A k \in DOMAIN runs' : runs'[k] = run \/ (k \in DOMAIN runs /\ runs'[k] = runs[k])
    BY <1>4 DEF LoadIInv, IngestIInv, IngestTypes
  <2>3. QED
    BY <1>4, <2>1, <2>2 DEF LoadIInv, ImportsSettled, NoneFailed
<1>10. QED
  BY <1>7, <1>8, <1>9

(* What a step of a backfill leaves as it is: its run and its audits. *)
LEMMA FetchFresh ==
  ASSUME LoadIInv, NEW w \in Writers, Fetch(w)
  PROVE  \A v \in Writers : AuditsFresh(v)'
<1>1. At(w, "fetch") /\ UNCHANGED <<bars, factors, runs>>
  BY DEF Fetch
<1>2. PICK rows \in SUBSET Window(Asked(w)) :
        writer' = [writer EXCEPT ![w] = [@ EXCEPT !.pc = "store", !.rows = rows, !.at = Now]]
  BY DEF Fetch
<1>3. /\ writer'[w] = [writer[w] EXCEPT !.pc = "store", !.rows = rows, !.at = Now]
      /\ \A v \in Writers \ {w} : writer'[v] = writer[v]
  BY <1>2 DEF LoadIInv, IngestIInv, IngestTypes
<1>4. /\ writer'[w].audits = writer[w].audits /\ writer'[w].run = writer[w].run
      /\ writer'[w].set = writer[w].set /\ writer'[w].pc = "store"
  BY <1>3 DEF LoadIInv, IngestIInv, IngestTypes, WriterRecord
<1>5. AuditsFresh(w)'
  <2>1. ASSUME NEW s \in Datasets
        PROVE  Fresh(s, Asked(w), writer[w].run, writer[w].audits[s])'
    <3>1. PICK r, run, this : r = Asked(w) /\ run = writer[w].run /\ this = writer[w].audits[s]
      OBVIOUS
    <3>2. Fresh(s, r, run, this)
      BY <1>1, <3>1 DEF LoadIInv, AuditsFresh, At
    <3>3. Rows(s, r)' = Rows(s, r) /\ Table(s)' = Table(s)
      BY <1>1 DEF Rows, Present, Table
    <3>4. Fresh(s, r, run, this)'
      BY <3>2, <3>3, FreshStays
    <3>5. writer'[w].audits[s] = this /\ writer'[w].run = run /\ Asked(w)' = r
      BY <1>1, <1>4, <3>1 DEF Asked
    <3>6. QED
      BY <3>4, <3>5, Zenon
  <2>2. writer[w].audits[writer[w].set].state = "open"
    BY <1>1 DEF LoadIInv, AuditsFresh, At
  <2>3. QED
    BY <1>4, <2>1, <2>2 DEF AuditsFresh, At
<1>6. \A v \in Writers \ {w} : AuditsFresh(v)'
  <2>1. \A v \in Writers \ {w} : At(v, "idle")
    BY <1>1 DEF LoadIInv, IngestIInv, LockHeld, At
  <2>2. QED
    BY <1>3, <2>1 DEF AuditsFresh, At
<1>7. QED
  BY <1>5, <1>6

(* A dataset is stored before it is audited, and not again. *)
LEMMA StoreFresh ==
  ASSUME LoadIInv, NEW w \in Writers, Store(w)
  PROVE  \A v \in Writers : AuditsFresh(v)'
<1>1. At(w, "store") /\ UNCHANGED runs /\ writer' = [writer EXCEPT ![w].pc = "audit"]
  BY DEF Store
<1>2. /\ writer'[w] = [writer[w] EXCEPT !.pc = "audit"]
      /\ \A v \in Writers \ {w} : writer'[v] = writer[v]
  BY <1>1 DEF LoadIInv, IngestIInv, IngestTypes
<1>3. /\ writer'[w].audits = writer[w].audits /\ writer'[w].run = writer[w].run
      /\ writer'[w].set = writer[w].set /\ writer'[w].pc = "audit" /\ writer[w].set \in Datasets
  BY <1>2 DEF LoadIInv, IngestIInv, IngestTypes, WriterRecord
<1>4. writer[w].audits[writer[w].set].state = "open"
  BY <1>1 DEF LoadIInv, AuditsFresh, At
<1>5. AuditsFresh(w)'
  <2>1. ASSUME NEW s \in Datasets
        PROVE  Fresh(s, Asked(w), writer[w].run, writer[w].audits[s])'
    <3>1. PICK r, run, this : r = Asked(w) /\ run = writer[w].run /\ this = writer[w].audits[s]
      OBVIOUS
    <3>2. writer'[w].audits[s] = this /\ writer'[w].run = run /\ Asked(w)' = r
      BY <1>1, <1>3, <3>1 DEF Asked
    <3>3. Fresh(s, r, run, this)'
      <4>1. CASE s = writer[w].set
        BY <1>4, <3>1, <4>1 DEF Fresh
      <4>2. CASE s # writer[w].set
        <5>1. Fresh(s, r, run, this)
          BY <1>1, <3>1 DEF LoadIInv, AuditsFresh, At
        <5>2. CASE s = "daily"
          <6>1. UNCHANGED bars
            BY <1>3, <4>2, <5>2 DEF Store, Datasets
          <6>2. Rows("daily", r)' = Rows("daily", r)
            <7>1. (Rows("daily", r) = Present(bars, Window(r)))'
              BY Zenon DEF Rows, Table
            <7>2. QED
              BY <6>1, <7>1, DailyRows DEF Present
          <6>3. Table("daily")' = Table("daily")
            BY <6>1 DEF Table
          <6>4. QED
            BY <5>1, <5>2, <6>2, <6>3, FreshStays
        <5>3. CASE s = "adjust"
          <6>1. UNCHANGED factors
            BY <1>3, <4>2, <5>3 DEF Store, Datasets
          <6>2. Rows("adjust", r)' = Rows("adjust", r) /\ Table("adjust")' = Table("adjust")
            BY <6>1 DEF Rows, Present, Table
          <6>3. QED
            BY <5>1, <5>3, <6>2, FreshStays
        <5>4. QED
          BY <5>2, <5>3 DEF Datasets
      <4>3. QED
        BY <4>1, <4>2
    <3>4. QED
      BY <3>2, <3>3, Zenon
  <2>2. QED
    BY <1>3, <1>4, <2>1 DEF AuditsFresh, At
<1>6. \A v \in Writers \ {w} : AuditsFresh(v)'
  <2>1. \A v \in Writers \ {w} : At(v, "idle")
    BY <1>1 DEF LoadIInv, IngestIInv, LockHeld, At
  <2>2. QED
    BY <1>2, <2>1 DEF AuditsFresh, At
<1>7. QED
  BY <1>5, <1>6

LEMMA LargestIs ==
  ASSUME NEW S \in SUBSET Nat, NEW m \in S, \A x \in S : x <= m
  PROVE  Max(S) = m
<1>1. Max(S) \in S /\ \A x \in S : x <= Max(S)
  BY Largest
<1>2. \A x, y \in Nat : x <= y /\ y <= x => x = y
  OBVIOUS
<1>3. QED
  BY <1>1, <1>2

(* The import leaves its own row among those that count, or none there. *)
LEMMA ImportFresh ==
  ASSUME IngestTypes, NEW set \in Datasets, NEW r \in Ranges \cup Imports, NEW run, run # Bulk, NEW audit,
         Fresh(set, r, run, audit), NEW day \in Days, NEW row, row.by = Bulk, row # NoRow,
         bars' = [bars EXCEPT ![day] = row], factors' = [factors EXCEPT ![day] = row]
  PROVE  Fresh(set, r, run, audit)'
<1> DEFINE before == Present(factors, {d \in Days : d < r[1]})
<1>1. /\ Table(set)' = [Table(set) EXCEPT ![day] = row] /\ Table(set)'[day] = row
      /\ \A d \in Days \ {day} : Table(set)'[d] = Table(set)[d]
  BY DEF IngestTypes, Table
<1>2. r[1] \in Nat /\ r[2] \in Nat /\ r[1] <= r[2] /\ Window(r) \subseteq Days /\ Days \subseteq Nat
  BY WindowDays
<1>3. CASE day \in Rows(set, r)'
  <2>1. ~\A d \in Rows(set, r)' : Table(set)'[d].by = run
    BY <1>1, <1>3
  <2>2. QED
    BY <2>1 DEF Fresh
<1>4. CASE day \notin Rows(set, r)'
  <2>1. Rows(set, r) = Present(Table(set), Window(r))
                         \cup IF set = "adjust" /\ before # {} THEN {Max(before)} ELSE {}
    BY Zenon DEF Rows, before
  <2>2. Rows(set, r)' = Present(Table(set)', Window(r))
                          \cup IF set = "adjust" /\ before' # {} THEN {Max(before')} ELSE {}
    BY Zenon DEF Rows, before, Present
  <2>3. day \notin Window(r)
    BY <1>1, <1>4, <2>2 DEF Present
  <2>4. Present(Table(set)', Window(r)) = Present(Table(set), Window(r))
    BY <1>1, <1>2, <2>3 DEF Present
  <2>5. before' = IF day < r[1] THEN before \cup {day} ELSE before
    BY <1>2 DEF Present, IngestTypes
  <2>6. before \in SUBSET Nat /\ before' \in SUBSET Nat /\ \A d \in before' : d <= r[1]
    <3>1. before \in SUBSET Nat /\ \A d \in before : d \in Nat /\ d < r[1]
      BY <1>2 DEF Present
    <3> HIDE DEF before
    <3>2. QED
      BY <1>2, <2>5, <3>1
  <2> HIDE DEF before
  <2>7. CASE day < r[1] /\ set = "adjust"
    <3>1. before' = before \cup {day} /\ before' # {}
      BY <2>5, <2>7
    <3>2. Max(before') # day
      BY <1>4, <2>2, <2>7, <3>1
    <3>3. Max(before') \in before' /\ \A d \in before' : d <= Max(before')
      <4> DEFINE B == before'
      <4>1. B \in SUBSET Nat /\ B # {} /\ \A d \in B : d <= r[1]
        BY <2>6, <3>1
      <4> HIDE DEF B
      <4>2. Max(B) \in B /\ \A d \in B : d <= Max(B)
        BY <1>2, <4>1, Largest
      <4>3. QED
        BY <4>2 DEF B
    <3>4. Max(before') \in before /\ \A d \in before : d <= Max(before')
      BY <3>1, <3>2, <3>3
    <3>5. Max(before) = Max(before')
      BY <2>6, <3>4, LargestIs
    <3>6. Rows(set, r)' = Rows(set, r)
      BY <2>1, <2>2, <2>4, <2>7, <3>1, <3>4, <3>5
    <3>7. \A d \in Rows(set, r) : Table(set)'[d] = Table(set)[d]
      BY <1>1, <1>4, <3>6, RowsInWindow
    <3>8. QED
      BY <3>6, <3>7, FreshStays
  <2>8. CASE ~(day < r[1] /\ set = "adjust")
    <3>1. Rows(set, r)' = Rows(set, r)
      BY <2>1, <2>2, <2>4, <2>5, <2>8
    <3>2. \A d \in Rows(set, r) : Table(set)'[d] = Table(set)[d]
      BY <1>1, <1>4, <3>1, RowsInWindow
    <3>3. QED
      BY <3>1, <3>2, FreshStays
  <2>9. QED
    BY <2>7, <2>8
<1>5. QED
  BY <1>3, <1>4

LEMMA BulkStoreFresh ==
  ASSUME LoadIInv, BulkStore
  PROVE  \A v \in Writers : AuditsFresh(v)'
<1> DEFINE day == Min(bulk.left)
           row == [at |-> bulk.at, by |-> Bulk, source |-> "tushare"]
<1>1. /\ bars' = [bars EXCEPT ![day] = row] /\ factors' = [factors EXCEPT ![day] = row]
      /\ UNCHANGED <<runs, writer>>
  BY DEF BulkStore
<1>2. row.by = Bulk /\ row # NoRow
  BY DEF NoRow
<1> SUFFICES ASSUME NEW w \in Writers, ~At(w, "idle")
             PROVE  AuditsFresh(w)'
  BY <1>1 DEF AuditsFresh, At
<1> HIDE DEF day, row
<1>3. CASE day \notin Days
  <2>1. UNCHANGED <<bars, factors>>
    BY <1>1, <1>3 DEF LoadIInv, IngestIInv, IngestTypes
  <2>2. QED
    BY <1>1, <2>1, OthersFresh DEF LoadIInv, IngestIInv, Asked
<1>4. CASE day \in Days
  <2>1. ASSUME NEW s \in Datasets
        PROVE  Fresh(s, Asked(w), writer[w].run, writer[w].audits[s])'
    <3>1. PICK r, run, this : r = Asked(w) /\ run = writer[w].run /\ this = writer[w].audits[s]
      OBVIOUS
    <3>2. Fresh(s, r, run, this)
      BY <3>1 DEF LoadIInv, AuditsFresh
    <3>3. r \in Ranges \cup Imports /\ run \in DOMAIN runs
      BY <3>1, ActiveRun DEF LoadIInv
    <3>4. run # Bulk
      BY <3>3 DEF LoadIInv, IngestIInv, IngestTypes, Bulk
    <3>5. Fresh(s, r, run, this)'
      BY <1>1, <1>2, <1>4, <3>2, <3>3, <3>4, ImportFresh DEF LoadIInv, IngestIInv
    <3>6. writer'[w].audits[s] = this /\ writer'[w].run = run /\ Asked(w)' = r
      BY <1>1, <3>1 DEF Asked
    <3>7. QED
      BY <3>5, <3>6, Zenon
  <2>2. QED
    BY <1>1, <2>1 DEF LoadIInv, AuditsFresh, At
<1>5. QED
  BY <1>3, <1>4

(* The end of a backfill, and the steps of the import that write no row. *)
LEMMA EndFresh ==
  ASSUME LoadIInv, NEW w \in Writers, Finish(w) \/ Crash(w)
  PROVE  \A v \in Writers : AuditsFresh(v)'
<1>1. ~At(w, "idle") /\ writer' = [writer EXCEPT ![w] = Idle]
  BY DEF Finish, Crash, At
<1>2. writer'[w].pc = "idle" /\ \A v \in Writers \ {w} : writer'[v] = writer[v]
  BY <1>1, IdleTypes DEF LoadIInv, IngestIInv, IngestTypes
<1>3. \A v \in Writers \ {w} : At(v, "idle")
  BY <1>1 DEF LoadIInv, IngestIInv, LockHeld
<1>4. QED
  BY <1>2, <1>3 DEF AuditsFresh, At

LEMMA BulkStepsFresh ==
  ASSUME LoadIInv, UNCHANGED <<bars, factors, writer>>,
         \A k \in DOMAIN runs : runs'[k].range = runs[k].range
  PROVE  \A v \in Writers : AuditsFresh(v)'
<1> SUFFICES ASSUME NEW w \in Writers
             PROVE  AuditsFresh(w)'
  OBVIOUS
<1>1. ~At(w, "idle") => Asked(w)' = Asked(w)
  BY ActiveRun DEF LoadIInv, Asked
<1>2. QED
  BY <1>1, OthersFresh DEF LoadIInv, IngestIInv

LEMMA FinishSettled ==
  ASSUME LoadIInv, NEW w \in Writers, Finish(w)
  PROVE  ImportsSettled'
<1> DEFINE me  == writer[w].run
           run == [runs[me] EXCEPT !.status = Outcome(writer[w].audits), !.audits = writer[w].audits,
                                   !.completed = Now]
<1>1. ~At(w, "idle") /\ UNCHANGED bulk /\ runs' = [runs EXCEPT ![me] = run]
  BY DEF Finish, At
<1>2. me \in Recordings /\ me \in DOMAIN runs /\ runs[me] \in RunRecord
  BY <1>1 DEF LoadIInv, IngestIInv, IngestTypes, LockHeld, Recordings
<1>3. ~run.bulk
  BY <1>2 DEF Recordings, RunRecord
<1> HIDE DEF run
<1>4. \A k \in DOMAIN runs' : k \in DOMAIN runs /\ (runs'[k] = run \/ runs'[k] = runs[k])
  BY <1>1, <1>2 DEF LoadIInv, IngestIInv, IngestTypes
<1>5. QED
  BY <1>1, <1>3, <1>4 DEF LoadIInv, ImportsSettled, NoneFailed

LEMMA BulkSettled ==
  ASSUME LoadIInv, \/ BulkStart \/ BulkFetch \/ BulkStore \/ BulkCheck \/ BulkFails
                   \/ \E s \in Datasets : BulkMark(s)
  PROVE  ImportsSettled' /\ UNCHANGED <<runs, writer>>
<1>1. UNCHANGED <<runs, writer>>
  BY DEF BulkStart, BulkFetch, BulkStore, BulkCheck, BulkFails, BulkMark
<1>2. /\ bulk \in BulkRecord /\ NoneFailed(bulk.audits) /\ bulk.audits \in [Datasets -> Audits]
      /\ NoneFailed(IdleBulk.audits)
  <2>1. NoneFailed(IdleBulk.audits)
    BY DEF NoneFailed, IdleBulk, NoAudits, Absent, Template
  <2>2. QED
    BY <2>1 DEF LoadIInv, IngestIInv, IngestTypes, ImportsSettled, BulkRecord
<1>3. NoneFailed(bulk'.audits)
  <2>1. CASE BulkStart \/ BulkFetch \/ BulkStore \/ BulkCheck \/ BulkFails
    <3>1. bulk' = IdleBulk \/ bulk'.audits = bulk.audits
      BY <1>2, <2>1 DEF BulkStart, BulkFetch, BulkStore, BulkCheck, BulkFails, BulkRecord
    <3>2. QED
      BY <1>2, <3>1
  <2>2. CASE \E s \in Datasets : BulkMark(s)
    <3>1. PICK s \in Datasets : BulkMark(s)
      BY <2>2
    <3> DEFINE audit == CompletedAudit(s, bulk.range, Window(bulk.range))
    <3>2. bulk.range \in Imports /\ bulk.pc = s
      BY <3>1 DEF BulkMark, Datasets, LoadIInv, IngestIInv, IngestTypes
    <3>3. Window(bulk.range) # {}
      BY <3>2, WindowDays DEF Window
    <3>4. audit.state # "failed"
      BY <3>3 DEF CompletedAudit
    <3>5. bulk'.audits = [bulk.audits EXCEPT ![s] = audit]
      BY <1>2, <3>1 DEF BulkMark, BulkRecord
    <3> HIDE DEF audit
    <3>6. QED
      BY <1>2, <3>4, <3>5 DEF NoneFailed
  <2>3. QED
    BY <2>1, <2>2
<1>4. QED
  BY <1>1, <1>3 DEF LoadIInv, ImportsSettled, NoneFailed

LEMMA BulkRunFresh ==
  ASSUME LoadIInv, BulkRun
  PROVE  ImportsSettled' /\ \A v \in Writers : AuditsFresh(v)'
<1> DEFINE kept == [k \in DOMAIN runs |->
                      IF runs[k].bulk /\ runs[k].range = bulk.range
                      THEN [runs[k] EXCEPT !.status = "deleted"] ELSE runs[k]]
           run  == [range |-> bulk.range, status |-> "ready", bulk |-> TRUE, audits |-> bulk.audits,
                    completed |-> Now, started |-> Min({bulk.audits[s].floor : s \in Datasets})]
<1>1. runs' = Append(kept, run) /\ bulk' = IdleBulk /\ UNCHANGED <<bars, factors, writer>>
  BY DEF BulkRun
<1>2. run.status = "ready" /\ run.bulk /\ run.audits = bulk.audits
  OBVIOUS
<1> HIDE DEF run
<1>3. /\ DOMAIN kept = 1 .. Len(runs) /\ Len(runs) \in Nat /\ DOMAIN runs = 1 .. Len(runs)
      /\ \A k \in DOMAIN runs : runs[k] \in RunRecord
  BY DEF LoadIInv, IngestIInv, IngestTypes
<1>4. \A k \in DOMAIN runs :
        /\ kept[k] \in RunRecord /\ kept[k].range = runs[k].range /\ kept[k].bulk = runs[k].bulk
        /\ kept[k].audits = runs[k].audits /\ kept[k].status \in {runs[k].status, "deleted"}
  BY <1>3 DEF RunRecord
<1>5. kept \in Seq(RunRecord) /\ Len(kept) = Len(runs)
  <2> DEFINE n == Len(runs)
  <2>1. kept = [k \in 1 .. n |-> kept[k]]
    BY <1>3
  <2> HIDE DEF kept, n
  <2>2. n \in Nat /\ kept \in [1 .. n -> RunRecord]
    BY <1>3, <1>4, <2>1 DEF n
  <2>3. QED
    BY <2>2 DEF n
<1> HIDE DEF kept
<1>6. /\ DOMAIN runs' = 1 .. Len(runs) + 1 /\ runs'[Len(runs) + 1] = run
      /\ \A k \in DOMAIN runs : runs'[k] = kept[k]
  BY <1>1, <1>3, <1>5
<1>7. ImportsSettled'
  <2>1. NoneFailed(bulk'.audits) /\ NoneFailed(run.audits)
    BY <1>1, <1>2 DEF NoneFailed, IdleBulk, NoAudits, Absent, Template, LoadIInv, ImportsSettled
  <2>2. ASSUME NEW k \in DOMAIN runs', runs'[k].bulk
        PROVE  runs'[k].status # "running" /\ NoneFailed(runs'[k].audits)
    <3>1. CASE k \in DOMAIN runs
      BY <1>4, <1>6, <2>2, <3>1 DEF LoadIInv, ImportsSettled
    <3>2. CASE k \notin DOMAIN runs
      <4>1. k = Len(runs) + 1
        BY <1>3, <1>6, <3>2
      <4>2. QED
        BY <1>2, <1>6, <2>1, <4>1
    <3>3. QED
      BY <3>1, <3>2
  <2>3. QED
    BY <2>1, <2>2 DEF ImportsSettled, NoneFailed
<1>8. \A v \in Writers : AuditsFresh(v)'
  BY <1>1, <1>4, <1>6, BulkStepsFresh
<1>9. QED
  BY <1>7, <1>8

LEMMA LoadStep ==
  ASSUME LoadIInv, [IngestNext]_store
  PROVE  LoadIInv'
<1>1. IngestIInv'
  BY IngestStep DEF LoadIInv
<1>2. ASSUME NEW w \in Writers,
             Begin(w) \/ Fetch(w) \/ Store(w) \/ Audit(w) \/ TaskFails(w) \/ Finish(w) \/ Crash(w)
      PROVE  (\A v \in Writers : AuditsFresh(v)') /\ ImportsSettled'
  <2>1. CASE Begin(w)
    BY <2>1, BeginFresh
  <2>2. CASE ~Begin(w) /\ ~Finish(w)
    <3>1. UNCHANGED <<runs, bulk>>
      BY <1>2, <2>2 DEF Fetch, Store, Audit, TaskFails, Crash
    <3>2. ImportsSettled'
      BY <3>1 DEF LoadIInv, ImportsSettled, NoneFailed
    <3>3. CASE Audit(w) \/ TaskFails(w)
      <4>1. ~At(w, "idle") /\ ~At(w, "finish") /\ UNCHANGED <<bars, factors, runs>>
        BY <3>3 DEF Audit, TaskFails, At
      <4>2. Asked(w) \in Ranges \cup Imports /\ writer[w].set \in Datasets
        BY <4>1, ActiveRun DEF LoadIInv, WriterRecord
      <4>3. CASE Audit(w)
        <5>1. PICK audit : audit = CompletedAudit(writer[w].set, Asked(w), writer[w].rows)
          OBVIOUS
        <5>2. audit \in Audits /\ Fresh(writer[w].set, Asked(w), writer[w].run, audit)
          BY <4>2, <5>1, CompletedTypes, CompletedFresh DEF LoadIInv, IngestIInv
        <5>3. writer' = Recorded(w, audit)
          BY <4>3, <5>1 DEF Audit
        <5>4. QED
          BY <3>2, <4>1, <5>2, <5>3, RecordedFresh DEF LoadIInv
      <4>4. CASE TaskFails(w)
        <5>1. Failed \in Audits /\ Fresh(writer[w].set, Asked(w), writer[w].run, Failed)
          BY EmptyAudits DEF Fresh, Failed, Template
        <5>2. QED
          BY <3>2, <4>1, <4>4, <5>1, RecordedFresh DEF LoadIInv, TaskFails
      <4>5. QED
        BY <3>3, <4>3, <4>4
    <3>4. QED
      BY <1>2, <2>2, <3>2, <3>3, FetchFresh, StoreFresh, EndFresh
  <2>3. CASE Finish(w)
    BY <2>3, EndFresh, FinishSettled
  <2>4. QED
    BY <2>1, <2>2, <2>3
<1>3. CASE BulkStart \/ BulkFetch \/ BulkCheck \/ BulkFails \/ \E s \in Datasets : BulkMark(s)
  <2>1. ImportsSettled' /\ UNCHANGED <<runs, writer, bars, factors>>
    BY <1>3, BulkSettled DEF BulkStart, BulkFetch, BulkCheck, BulkFails, BulkMark
  <2>2. QED
    BY <1>1, <2>1, BulkStepsFresh DEF LoadIInv
<1>4. CASE BulkStore
  BY <1>1, <1>4, BulkStoreFresh, BulkSettled DEF LoadIInv
<1>5. CASE BulkRun
  BY <1>1, <1>5, BulkRunFresh DEF LoadIInv
<1>6. CASE UNCHANGED store
  <2>1. UNCHANGED <<bars, factors, runs, writer, bulk>>
    BY <1>6 DEF store
  <2>2. ImportsSettled'
    BY <2>1 DEF LoadIInv, ImportsSettled, NoneFailed
  <2>3. QED
    BY <1>1, <2>1, <2>2, BulkStepsFresh DEF LoadIInv
<1>7. QED
  BY <1>1, <1>2, <1>3, <1>4, <1>5, <1>6 DEF IngestNext, LoadIInv

(* What is seen of rows there are: ends and stamps of some of them. *)
LEMMA SeenEnds ==
  ASSUME IngestTypes, StampsPast, NEW set \in Datasets, NEW r \in Ranges \cup Imports, Rows(set, r) # {}
  PROVE  /\ Seen(set, r).first = Min(Rows(set, r)) /\ Seen(set, r).last = Max(Rows(set, r))
         /\ Min(Rows(set, r)) \in Rows(set, r) /\ Max(Rows(set, r)) \in Nat
         /\ \E d \in Rows(set, r) : Seen(set, r).floor = Table(set)[d].at
         /\ \E d \in Rows(set, r) : Seen(set, r).mark = Table(set)[d].at
<1> DEFINE rows   == Rows(set, r)
           stamps == {Table(set)[d].at : d \in rows}
           all    == [first |-> Min(rows), last |-> Max(rows),
                      floor |-> Min(stamps), mark |-> Max(stamps)]
<1>1. Table(set) \in [Days -> Row] /\ \A d \in Days : Table(set)[d].at <= clock
  BY DEF IngestTypes, StampsPast, Table
<1>2. rows \in SUBSET Nat /\ rows \subseteq Days /\ rows # {}
  BY RowsInWindow, DaysAssumption
<1>3. stamps \in SUBSET Nat /\ stamps # {} /\ \A x \in stamps : x <= clock
  <2> HIDE DEF rows
  <2>1. \A d \in rows : Table(set)[d].at \in Nat /\ Table(set)[d].at <= clock
    BY <1>1, <1>2 DEF Row
  <2>2. QED
    BY <1>2, <2>1
<1>4. clock \in Nat
  BY DEF IngestTypes
<1>5. Seen(set, r) = all
  BY Zenon DEF Seen
<1>6. Min(stamps) \in stamps /\ Max(stamps) \in stamps
  <2> HIDE DEF stamps
  <2>1. QED
    BY <1>3, <1>4, Smallest, Largest
<1>7. Min(rows) \in rows
  <2> HIDE DEF rows
  <2>1. QED
    BY <1>2, Smallest
<1>8. Max(rows) \in Nat
  BY <1>5, SeenMarks
<1>9. Seen(set, r).first = Min(rows) /\ Seen(set, r).last = Max(rows)
      /\ Seen(set, r).floor = Min(stamps) /\ Seen(set, r).mark = Max(stamps)
  <2> HIDE DEF rows, stamps
  <2>1. QED
    BY <1>5
<1>10. QED
  BY <1>6, <1>7, <1>8, <1>9

(* A backfill that has just been recorded, with rows of its own only. *)
Complete(k, r) ==
  /\ ~runs[k].bulk /\ (\A i \in Recordings : i <= k)
  /\ runs[k].status \in {"ready", "partial"} /\ runs[k].range = r /\ runs[k].completed = clock
  /\ \A s \in Datasets :
       /\ runs[k].audits[s].state = "ok" /\ Fresh(s, r, k, runs[k].audits[s])
       /\ Rows(s, r) # {} /\ \A d \in Rows(s, r) : Table(s)[d].by = k

LEMMA CompleteMatches ==
  ASSUME IngestIInv, NEW r \in Ranges, NEW k \in DOMAIN runs, Complete(k, r)
  PROVE  k \in Vouching(r)
<1>1. runs[k] \in RunRecord /\ k \in Nat /\ k # Bulk /\ clock \in Nat /\ r \in Ranges \cup Imports
  BY DEF IngestIInv, IngestTypes, Bulk
<1>2. ASSUME NEW s \in Datasets
      PROVE  /\ MarksMatch(k, s)
             /\ runs[k].audits[s].first = Seen(s, r).first /\ runs[k].audits[s].last = Seen(s, r).last
  <2> DEFINE audit == runs[k].audits[s]
  <2>1. /\ audit.state = "ok" /\ Rows(s, r) # {} /\ \A d \in Rows(s, r) : Table(s)[d].by = k
        /\ Fresh(s, r, k, audit)
    BY DEF Complete
  <2> HIDE DEF audit
  <2>2. /\ s = "daily" => audit.rows = 1
        /\ audit.first = Seen(s, r).first /\ audit.last = Seen(s, r).last
        /\ audit.floor = Seen(s, r).floor /\ audit.mark = Seen(s, r).mark
    <3>1. Seen(s, r) = [first |-> audit.first, last |-> audit.last,
                        floor |-> audit.floor, mark |-> audit.mark]
      BY <2>1 DEF Fresh
    <3>2. s = "daily" => audit.rows = 1
      BY <2>1 DEF Fresh
    <3>3. QED
      BY <3>1, <3>2
  <2>3. PICK low \in Rows(s, r) : Seen(s, r).floor = Table(s)[low].at
    BY <1>1, <2>1, SeenEnds DEF IngestIInv
  <2>4. PICK high \in Rows(s, r) : Seen(s, r).mark = Table(s)[high].at
    BY <1>1, <2>1, SeenEnds DEF IngestIInv
  <2>5. low \in Days /\ high \in Days
    BY <1>1, RowsInWindow DEF IngestIInv
  <2>6. /\ Table(s)[low] \in Row /\ Table(s)[high].at <= clock /\ StampedBy(Table(s)[low])
        /\ Table(s)[low].by = k
    BY <2>1, <2>5 DEF IngestIInv, IngestTypes, StampsPast, RowsStamped, Table
  <2>7. runs[k].started < Table(s)[low].at /\ runs[k].started \in Nat /\ Table(s)[low].at \in Nat
    BY <1>1, <2>6 DEF StampedBy, Row, RunRecord
  <2>8. runs[k].range = r /\ runs[k].completed = clock
    BY DEF Complete
  <2>9. MarksMatch(k, s)
    <3>1. audit.mark <= runs[k].completed
      BY <2>2, <2>4, <2>6, <2>8
    <3>2. s = "daily" => audit.rows > 0 /\ Seen(s, r).floor > 0 /\ runs[k].started <= audit.floor
      BY <2>2, <2>3, <2>7
    <3>3. QED
      BY <2>2, <2>8, <3>1, <3>2, Zenon DEF MarksMatch, audit
  <2>10. QED
    BY <2>2, <2>9 DEF audit
<1>3. PrimaryCovers(k, r)
  <2> DEFINE rows  == Rows("daily", r)
             audit == runs[k].audits["daily"]
             actual == IF rows = {} THEN Window(r) ELSE rows
  <2>1. rows # {} /\ audit.state = "ok" /\ runs[k].range = r
    BY DEF Complete, Datasets
  <2>2. audit.first = Min(rows) /\ audit.last = Max(rows) /\ Min(rows) \in Days /\ Max(rows) \in Nat
    <3>1. "daily" \in Datasets
      BY DEF Datasets
    <3>2. /\ Seen("daily", r).first = Min(rows) /\ Seen("daily", r).last = Max(rows)
          /\ Min(rows) \in rows /\ Max(rows) \in Nat
      BY <1>1, <2>1, <3>1, SeenEnds DEF IngestIInv
    <3>3. rows \subseteq Days
      BY <1>1, <3>1, RowsInWindow DEF IngestIInv
    <3>4. QED
      BY <1>2, <3>1, <3>2, <3>3
  <2>3. Holds(runs[k].range, r)
    BY <1>1, <2>1, WindowDays DEF Holds
  <2>4. actual = rows
    BY <2>1
  <2> HIDE DEF rows, audit, actual
  <2>5. audit.first # 0 /\ audit.first <= Min(actual) /\ Max(actual) <= audit.last
    <3>1. Min(actual) = Min(rows) /\ Max(actual) = Max(rows)
      BY <2>4
    <3>2. Min(rows) \in Nat /\ Min(rows) # 0
      BY <2>2, DaysAssumption
    <3>3. QED
      BY <2>2, <3>1, <3>2
  <2>6. QED
    BY <2>1, <2>3, <2>5, Zenon DEF PrimaryCovers, rows, audit, actual
<1>4. RequiredMatch(k, r)
  <2>1. /\ runs[k].status \in {"ready", "partial"} /\ runs[k].audits["adjust"].state = "ok"
        /\ Holds(runs[k].range, r)
    BY <1>1, WindowDays DEF Complete, Datasets, Holds
  <2>2. QED
    BY <1>2, <1>3, <2>1 DEF RequiredMatch
<1>5. k \in Overlapping(r)
  <2>1. Window(r) # {} /\ runs[k].range = r /\ runs[k].status # "deleted"
    BY <1>1, WindowDays DEF Complete, Window
  <2>2. QED
    BY <2>1 DEF Overlapping
<1>6. QED
  BY <1>4, <1>5 DEF Vouching

LEMMA CompleteLoads ==
  ASSUME IngestIInv, ImportsSettled, NEW r \in Ranges, NEW k \in DOMAIN runs, Complete(k, r)
  PROVE  Load(r) = "full"
<1> DEFINE c == Covering(r)
<1>1. /\ k \in Vouching(r) /\ c \in Vouching(r) /\ runs[k].started <= runs[c].started
      /\ r \in Ranges \cup Imports
  BY CompleteMatches, CoveringVouches
<1>2. c \in DOMAIN runs /\ MarksMatch(c, "daily")
  BY <1>1 DEF Vouching, Overlapping, RequiredMatch, Datasets
<1> HIDE DEF c
<1>3. \A i \in DOMAIN runs :
        /\ runs[i] \in RunRecord /\ i \in Nat
        /\ runs[i].started \in Nat /\ runs[i].completed \in Nat /\ runs[i].range \in Ranges \cup Imports
  <2>1. \A i \in DOMAIN runs : runs[i] \in RunRecord /\ i \in Nat
    BY DEF IngestIInv, IngestTypes
  <2>2. QED
    BY <2>1 DEF RunRecord
<1>4. runs[c].started <= runs[c].completed
  <2> DEFINE q == runs[c].range
             seen == Seen("daily", q)
  <2>1. /\ seen.floor > 0 /\ runs[c].started <= seen.floor /\ seen.mark <= runs[c].completed
    BY <1>2, Zenon DEF MarksMatch
  <2>2. /\ seen.floor \in Nat /\ seen.mark \in Nat /\ (Rows("daily", q) = {} => seen.floor = 0)
        /\ \A d \in Rows("daily", q) : /\ seen.floor <= Table("daily")[d].at
                                       /\ Table("daily")[d].at <= seen.mark
    <3>1. "daily" \in Datasets /\ q \in Ranges \cup Imports
      BY <1>2, <1>3 DEF Datasets
    <3> HIDE DEF q
    <3>2. seen \in [first : Nat, last : Nat, floor : Nat, mark : Nat]
      BY <3>1, SeenMarks DEF IngestIInv
    <3>3. /\ Rows("daily", q) = {} => seen.floor = 0
          /\ \A d \in Rows("daily", q) : /\ seen.floor <= Table("daily")[d].at
                                         /\ Table("daily")[d].at <= seen.mark
      BY <3>1, SeenMarks DEF IngestIInv
    <3> HIDE DEF seen
    <3>4. QED
      BY <3>2, <3>3
  <2>3. PICK d \in Rows("daily", q) : TRUE
    BY <2>1, <2>2
  <2>4. Table("daily")[d].at \in Nat
    <3>1. d \in Days
      BY <1>2, <1>3, <2>3, RowsInWindow DEF Datasets, IngestIInv
    <3>2. QED
      BY <3>1 DEF IngestIInv, IngestTypes, Table, Row
  <2> HIDE DEF q, seen
  <2>5. QED
    BY <1>2, <1>3, <2>1, <2>2, <2>3, <2>4
<1>5. ASSUME NEW j \in DOMAIN runs, Disturbed(j)
      PROVE  ~(runs[j].started > runs[c].completed)
  <2>1. j \in Recordings
    BY <1>5 DEF Disturbed, Unsettled, ImportsSettled, NoneFailed, Recordings
  <2>2. k \in Recordings /\ j <= k
    BY <2>1 DEF Complete, Recordings
  <2>3. runs[j].started <= runs[k].started
    <3>1. CASE j = k
      BY <1>3, <3>1
    <3>2. CASE j # k
      <4>1. j < k
        BY <1>3, <2>2, <3>2
      <4>2. runs[j].started < runs[k].started
        BY <2>1, <2>2, <4>1 DEF IngestIInv, RunsApart
      <4>3. QED
        BY <1>3, <4>2
    <3>3. QED
      BY <3>1, <3>2
  <2>4. QED
    BY <1>1, <1>2, <1>3, <1>4, <2>3
<1>6. Quality(r) = "ok"
  <2>1. ~\E j \in Overlapping(r) : Disturbed(j) /\ runs[j].started > runs[c].completed
    BY <1>5 DEF Overlapping
  <2>2. QED
    BY <1>1, <2>1 DEF Quality, c
<1>7. Rows("adjust", r) # {}
  BY DEF Complete, Datasets
<1>8. QED
  BY <1>6, <1>7 DEF Load

LEMMA CompleteAlways ==
  \A q \in Ranges, i \in DOMAIN runs : IngestIInv /\ ImportsSettled /\ Complete(i, q)
                                       => Load(q) = "full"
BY CompleteLoads

(* At the end of a backfill its record is complete if its rows are. *)
LEMMA FinishLoads ==
  ASSUME LoadIInv, IngestIInv', ImportsSettled', NEW w \in Writers, NEW r \in Ranges, At(w, "finish"),
         Asked(w) = r, Finish(w), runs'[writer[w].run].status \in {"ready", "partial"},
         {runs'[writer[w].run].audits[s].state : s \in Datasets} = {"ok"},
         \A s \in Datasets : /\ Rows(s, r) # {}
                             /\ \A d \in Rows(s, r) : Table(s)[d].by = writer[w].run
  PROVE  Load(r)' = "full"
<1>1. PICK k : k = writer[w].run
  OBVIOUS
<1> DEFINE run == [runs[k] EXCEPT !.status = Outcome(writer[w].audits), !.audits = writer[w].audits,
                                  !.completed = Now]
<1>2. /\ runs' = [runs EXCEPT ![k] = run] /\ UNCHANGED <<bars, factors>>
      /\ clock' = Now
  BY <1>1 DEF Finish, Tick
<1>3. ~At(w, "idle")
  BY DEF At
<1>4. k \in Recordings /\ k \in DOMAIN runs /\ (\A i \in Recordings : i <= k) /\ runs[k] \in RunRecord
  BY <1>1, <1>3 DEF LoadIInv, IngestIInv, IngestTypes, LockHeld, Recordings
<1>5. /\ run.bulk = runs[k].bulk /\ run.range = runs[k].range /\ run.audits = writer[w].audits
      /\ run.completed = Now
  BY <1>4 DEF RunRecord
<1>6. runs[k].range = r
  BY <1>1 DEF Asked
<1> HIDE DEF run
<1>7. /\ runs'[k] = run /\ DOMAIN runs' = DOMAIN runs /\ \A i \in DOMAIN runs \ {k} : runs'[i] = runs[i]
  BY <1>2, <1>4 DEF LoadIInv, IngestIInv, IngestTypes
<1>8. Recordings' = Recordings
  BY <1>5, <1>7 DEF Recordings
<1>9. ASSUME NEW s \in Datasets
      PROVE  /\ runs'[k].audits[s].state = "ok" /\ Fresh(s, r, k, runs[k].audits[s])'
             /\ Rows(s, r)' # {} /\ \A d \in Rows(s, r)' : Table(s)'[d].by = k
  <2>1. PICK this : this = writer[w].audits[s]
    OBVIOUS
  <2>2. Fresh(s, r, k, this)
    BY <1>1, <1>3, <2>1 DEF LoadIInv, AuditsFresh
  <2>3. Rows(s, r)' = Rows(s, r) /\ Table(s)' = Table(s)
    BY <1>2 DEF Rows, Present, Table
  <2>4. Fresh(s, r, k, this)'
    BY <2>2, <2>3, FreshStays
  <2>5. runs'[k].audits[s] = this
    BY <1>5, <1>7, <2>1
  <2>6. Fresh(s, r, k, runs[k].audits[s])'
    BY <2>4, <2>5, Zenon
  <2>7. runs'[k].audits[s].state = "ok"
    BY <1>1
  <2>8. QED
    BY <1>1, <2>3, <2>6, <2>7
<1>10. Complete(k, r)'
  BY <1>1, <1>2, <1>4, <1>5, <1>6, <1>7, <1>8, <1>9 DEF Complete, Recordings
<1>11. (\A q \in Ranges, i \in DOMAIN runs : IngestIInv /\ ImportsSettled /\ Complete(i, q)
                                              => Load(q) = "full")'
  BY CompleteAlways, PTL
<1>12. QED
  BY <1>4, <1>7, <1>10, <1>11

LEMMA LoadInitial ==
  ASSUME IngestInit
  PROVE  LoadIInv
<1>1. IngestIInv
  BY IngestInitial
<1>2. \A w \in Writers : AuditsFresh(w)
  BY IdleTypes DEF IngestInit, AuditsFresh, At
<1>3. ImportsSettled
  BY DEF IngestInit, ImportsSettled, NoneFailed, IdleBulk, NoAudits, Absent, Template
<1>4. QED
  BY <1>1, <1>2, <1>3 DEF LoadIInv

(* Nobody else touches the run of a backfill that is about to record it.   *)
LEMMA OnlyFinishRecords ==
  ASSUME LoadIInv, IngestNext, NEW w \in Writers, At(w, "finish"),
         runs'[writer[w].run].status # "running"
  PROVE  Finish(w)
<1>1. /\ lock = w /\ writer[w].run \in Recordings /\ runs[writer[w].run].status = "running"
      /\ \A v \in Writers \ {w} : At(v, "idle")
  BY DEF LoadIInv, IngestIInv, LockHeld, At
<1>2. ASSUME UNCHANGED runs
      PROVE  FALSE
  BY <1>1, <1>2
<1>3. ASSUME NEW v \in Writers, Begin(v)
      PROVE  FALSE
  BY <1>1, <1>3, WritersAssumption DEF Begin, LockFree, Nobody
<1>4. ASSUME NEW v \in Writers, Finish(v)
      PROVE  v = w
  BY <1>1, <1>4 DEF Finish, At
<1>5. ASSUME BulkRun
      PROVE  FALSE
  <2> DEFINE me   == writer[w].run
             kept == [k \in DOMAIN runs |->
                        IF runs[k].bulk /\ runs[k].range = bulk.range
                        THEN [runs[k] EXCEPT !.status = "deleted"] ELSE runs[k]]
             run  == [range |-> bulk.range, status |-> "ready", bulk |-> TRUE,
                      audits |-> bulk.audits, completed |-> Now,
                      started |-> Min({bulk.audits[s].floor : s \in Datasets})]
  <2>1. runs' = Append(kept, run)
    BY <1>5, Zenon DEF BulkRun
  <2>2. me \in DOMAIN runs /\ kept[me] = runs[me] /\ DOMAIN kept = DOMAIN runs
        /\ DOMAIN runs = 1 .. Len(runs) /\ Len(runs) \in Nat
    BY <1>1 DEF Recordings, LoadIInv, IngestIInv, IngestTypes
  <2> HIDE DEF run, kept, me
  <2>3. runs'[me] = kept[me]
    <3>1. Len(kept) = Len(runs)
      BY <2>2
    <3>2. me \in 1 .. Len(kept)
      BY <2>2, <3>1
    <3>3. QED
      BY <2>1, <2>2, <3>1, <3>2
  <2>4. QED
    BY <1>1, <2>2, <2>3 DEF me
<1>6. QED
  <2>1. CASE \E v \in Writers : \/ Begin(v) \/ Fetch(v) \/ Store(v) \/ Audit(v)
                                \/ TaskFails(v) \/ Finish(v) \/ Crash(v)
    BY <1>2, <1>3, <1>4, <2>1 DEF Fetch, Store, Audit, TaskFails, Crash
  <2>2. CASE \/ BulkStart \/ BulkFetch \/ BulkStore \/ BulkCheck \/ BulkFails
             \/ \E s \in Datasets : BulkMark(s)
    BY <1>2, <2>2 DEF BulkStart, BulkFetch, BulkStore, BulkCheck, BulkFails, BulkMark
  <2>3. QED
    BY <1>5, <2>1, <2>2 DEF IngestNext

(* A backfill that recorded every dataset it asked for, and whose rows are *)
(* all there is in its range, can be read from then on, whatever failed,   *)
(* crashed or was imported before.                                         *)
THEOREM ReadyIsLoadableCorrect == IngestSpec => ReadyIsLoadable
<1> DEFINE Read(w, r) ==
       LET k == writer[w].run
           own == /\ Rows("daily", r) # {} /\ \A d \in Rows("daily", r) : bars[d].by = k
                  /\ Rows("adjust", r) # {} /\ \A d \in Rows("adjust", r) : factors[d].by = k
       IN  At(w, "finish") /\ Asked(w) = r /\ own /\ runs'[k].status \in {"ready", "partial"}
             /\ {runs'[k].audits[s].state : s \in Datasets} = {"ok"}
           => Load(r)' = "full"
<1>1. IngestInit => LoadIInv
  BY LoadInitial
<1>2. LoadIInv /\ [IngestNext]_store => LoadIInv'
  BY LoadStep
<1>3. LoadIInv /\ [IngestNext]_store => [\A w \in Writers, r \in Ranges : Read(w, r)]_store
  <2> SUFFICES ASSUME LoadIInv, IngestNext, NEW w \in Writers, NEW r \in Ranges,
                      At(w, "finish"), Asked(w) = r,
                      Rows("daily", r) # {}, \A d \in Rows("daily", r) : bars[d].by = writer[w].run,
                      Rows("adjust", r) # {}, \A d \in Rows("adjust", r) : factors[d].by = writer[w].run,
                      runs'[writer[w].run].status \in {"ready", "partial"},
                      {runs'[writer[w].run].audits[s].state : s \in Datasets} = {"ok"}
               PROVE  Load(r)' = "full"
    BY Zenon
  <2>1. Finish(w)
    BY OnlyFinishRecords
  <2>2. LoadIInv'
    BY LoadStep
  <2>3. \A s \in Datasets : /\ Rows(s, r) # {}
                            /\ \A d \in Rows(s, r) : Table(s)[d].by = writer[w].run
    BY DEF Datasets, Table
  <2>4. QED
    BY <2>1, <2>2, <2>3, FinishLoads DEF LoadIInv
<1>4. QED
  BY <1>1, <1>2, <1>3, PTL DEF IngestSpec, ReadyIsLoadable, Read
=============================================================================
