-------------------------- MODULE StrategyVersions --------------------------
(***************************************************************************)
(* The strategies a user saves: services/strategy.py with its tables, the  *)
(* readers of a version (the signals of strategy_signals and the sandbox,  *)
(* the configuration of a backtest) and the page that edits a strategy.    *)
(*                                                                         *)
(* A strategy has a head and versions that are only ever appended.  A      *)
(* transaction that locks the head is one action; the copy of a strategy   *)
(* locks nothing and reads the head and the version one after the other.   *)
(* A change of a definition carries the version it expects.  In the page   *)
(* the values of the form are those of its first rendering, whereas the    *)
(* version it expects comes from the query, which fetches again whenever   *)
(* the window is focused or the network returns.                           *)
(*                                                                         *)
(* The fingerprint of a definition is the definition itself.  Names,       *)
(* descriptions and categories are left out, and so is what the source of  *)
(* a custom strategy does.  base, in the rows of versions and in the page, *)
(* is the version that the author of the values had read; the code does    *)
(* not keep it.  LatestRow is a faulty variant of the definition after it. *)
(***************************************************************************)
EXTENDS Naturals, FiniteSets

CONSTANTS
  StrategyIds, Pages, Calls,
  Sources,            \* the sources validate_source accepts
  Catalog,            \* built-in type -> its parameters and their defaults
  Drafts,             \* definitions that strategies are created with
  Changes,            \* bodies of updates, with the fields that were set
  MaxValue,           \* parameters range over 1 .. MaxValue
  MaxRevisions,       \* bound: versions of a strategy
  MaxSandboxes        \* strategy_sandbox_max_concurrency

(* What the schema of a request lets through, and what the parameters of    *)
(* the built-in types declare about themselves                              *)
ASSUME DraftsAssumption ==
  /\ \A d \in Drafts :
       /\ d = [kind |-> d.kind, type |-> d.type, params |-> d.params, source |-> d.source]
       /\ d.kind \in {"builtin", "custom"}
  /\ \A change \in Changes :
       "kind" \in DOMAIN change => change.kind \in {"builtin", "custom"}
ASSUME CatalogAssumption ==
  \A type \in DOMAIN Catalog : \A k \in DOMAIN Catalog[type] : Catalog[type][k] \in 1 .. MaxValue

VARIABLES
  head,        \* table strategies
  versions,    \* table strategy_versions, a set of rows
  copying,     \* the head that a copy in progress has read
  call,        \* requests that use a version
  page         \* edit pages

strategies == <<head, versions, copying, call, page>>

Absent   == [status |-> "absent"]
NoCopy   == [of |-> "none"]
NoCall   == [pc |-> "idle"]
NoPage   == [open |-> FALSE, of |-> "none"]
NoParams == <<>>
Custom   == "custom_python"

StrategiesInit ==
  /\ head = [s \in StrategyIds |-> Absent]
  /\ versions = {} /\ copying = NoCopy
  /\ call = [c \in Calls |-> NoCall]
  /\ page = [p \in Pages |-> NoPage]

Exists(s) == head[s].status \notin {"absent", "deleted"}
VersionsOf(s) == {v \in versions : v.of = s}
Row(s, n) == CHOOSE v \in VersionsOf(s) : v.version = n
-----------------------------------------------------------------------------
(* validate_params: what was not given has its default. *)
Filled(type, params) ==
  [k \in DOMAIN Catalog[type] |-> IF k \in DOMAIN params THEN params[k] ELSE Catalog[type][k]]

ParamsValid(type, params) ==
  /\ DOMAIN params \subseteq DOMAIN Catalog[type]
  /\ \A k \in DOMAIN params : params[k] \in 1 .. MaxValue
  /\ type = "dual_ma" => Filled(type, params).fast < Filled(type, params).slow

(* validate_definition, and the definition it returns *)
Validated(d) ==
  CASE d.kind = "builtin" -> /\ d.type \in DOMAIN Catalog /\ d.source = "none"
                             /\ ParamsValid(d.type, d.params)
    [] d.kind = "custom"  -> d.type \in {"none", Custom} /\ d.source \in Sources

Normal(d) ==
  CASE d.kind = "builtin" -> [d EXCEPT !.params = Filled(d.type, d.params)]
    [] d.kind = "custom"  -> [d EXCEPT !.type = Custom]

(* The head has no source; the row of its version does. *)
HeadOf(d, n, status) ==
  [status |-> status, kind |-> d.kind, type |-> d.type, params |-> d.params,
   sha |-> d, version |-> n]

RowOf(s, h, source, base) ==
  [of |-> s, version |-> h.version, base |-> base, sha |-> h.sha,
   definition |-> [kind |-> h.kind, type |-> h.type, params |-> h.params, source |-> source]]
-----------------------------------------------------------------------------
(* create_strategy *)
Create(s, d) ==
  /\ head[s] = Absent /\ Validated(d)
  /\ LET h == HeadOf(Normal(d), 1, "draft") IN
     /\ head' = [head EXCEPT ![s] = h]
     /\ versions' = versions \cup {RowOf(s, h, Normal(d).source, 0)}
  /\ UNCHANGED <<copying, call, page>>

(* The definition that the fields of a change make of the current one *)
Changed(s, change) ==
  LET h == head[s]
      kind == IF "kind" \in DOMAIN change THEN change.kind ELSE h.kind
      moves == kind # h.kind
      type == IF "type" \in DOMAIN change THEN change.type
              ELSE IF moves \/ kind = "custom" THEN "none" ELSE h.type
  IN [kind |-> kind, type |-> type,
      params |-> IF "params" \in DOMAIN change THEN change.params
                 ELSE IF moves \/ type \notin {"none", h.type} THEN NoParams ELSE h.params,
      source |-> IF "source" \in DOMAIN change THEN change.source
                 ELSE IF ~moves /\ h.kind = "custom" THEN Row(s, h.version).definition.source
                 ELSE "none"]

(* update_strategy: 404, 409 and 400 change nothing, and neither does a    *)
(* definition that is the current one.                                     *)
Accepted(s, change, expected) ==
  /\ Exists(s) /\ expected = head[s].version /\ Validated(Changed(s, change))

Update(s, change, base) ==
  LET d == Normal(Changed(s, change))
      h == HeadOf(d, head[s].version + 1, "draft")
  IN IF d = head[s].sha THEN UNCHANGED <<head, versions>>
     ELSE /\ head[s].version < MaxRevisions
          /\ head' = [head EXCEPT ![s] = h]
          /\ versions' = versions \cup {RowOf(s, h, d.source, base)}

(* A client that names the version it has read *)
UpdateDirectly(s, change) ==
  /\ Exists(s) /\ Accepted(s, change, head[s].version)
  /\ Update(s, change, head[s].version)
  /\ UNCHANGED <<copying, call, page>>

(* set_status and delete_strategy carry no version. *)
SetStatus(s, status) ==
  /\ Exists(s) /\ head' = [head EXCEPT ![s].status = status]
  /\ UNCHANGED <<versions, copying, call, page>>

(* duplicate_strategy: the head ... *)
CopyRead(s) ==
  /\ copying = NoCopy /\ Exists(s)
  /\ copying' = [of |-> s, head |-> head[s]]
  /\ UNCHANGED <<head, versions, call, page>>

(* ... and the source of the version it named. *)
LatestRow(s, n) == Row(s, head[s].version)
CopiedRow(s, n) == Row(s, n)

CopyWrite(s) ==
  /\ copying # NoCopy /\ head[s] = Absent
  /\ LET h == [copying.head EXCEPT !.version = 1, !.status = "draft"]
         source == CopiedRow(copying.of, copying.head.version).definition.source
     IN /\ head' = [head EXCEPT ![s] = h]
        /\ versions' = versions \cup {RowOf(s, h, source, 0)}
  /\ copying' = NoCopy
  /\ UNCHANGED <<call, page>>
-----------------------------------------------------------------------------
(* get_version, and what its readers keep of it *)
Reads(c, s, n, pc) ==
  call' = [call EXCEPT ![c] = [pc |-> pc, of |-> s, version |-> n, sha |-> Row(s, n).sha,
                               definition |-> Row(s, n).definition]]

Readable(c, s, n) ==
  call[c].pc = "idle" /\ Exists(s) /\ \E v \in VersionsOf(s) : v.version = n

Sandboxes == {c \in Calls : call[c].pc = "running"}

(* run_version_signals; run_source refuses when every slot is taken. *)
RunSignals(c, s, n) ==
  /\ Readable(c, s, n)
  /\ \/ Row(s, n).definition.kind = "builtin" /\ Reads(c, s, n, "done")
     \/ /\ Row(s, n).definition.kind = "custom" /\ Cardinality(Sandboxes) < MaxSandboxes
        /\ Reads(c, s, n, "running")
  /\ UNCHANGED <<head, versions, copying, page>>

(* The subprocess ends, fails or is killed; the slot is free either way. *)
SandboxEnds(c) ==
  /\ call[c].pc = "running"
  /\ \/ call' = [call EXCEPT ![c].pc = "done"]
     \/ call' = [call EXCEPT ![c] = NoCall]
  /\ UNCHANGED <<head, versions, copying, page>>

(* _config_from_run_request runs no custom strategy. *)
RunBacktest(c, s, n) ==
  /\ Readable(c, s, n) /\ Row(s, n).definition.kind = "builtin"
  /\ Reads(c, s, n, "done")
  /\ UNCHANGED <<head, versions, copying, page>>
-----------------------------------------------------------------------------
(* EditStrategyPage: the form takes its values from the data at hand, which *)
(* may be those of an earlier visit.                                        *)
Form(data) == [type |-> data.type, params |-> data.params]

OpenPage(p, s) ==
  /\ ~page[p].open /\ Exists(s) /\ page[p].of \in {"none", s}
  /\ LET data == IF page[p].of = s THEN page[p].data ELSE head[s] IN
     /\ data.kind = "builtin"
     /\ page' = [page EXCEPT ![p] = [open |-> TRUE, of |-> s, data |-> data,
                                     form |-> Form(data), base |-> data.version]]
  /\ UNCHANGED <<head, versions, copying, call>>

(* refetchOnWindowFocus, refetchOnReconnect: the form goes away when the    *)
(* strategy does, or when it is no built-in any more.                       *)
Refetch(p) ==
  /\ page[p].of # "none"
  /\ LET s == page[p].of IN
     page' = [page EXCEPT ![p] =
       IF ~Exists(s) THEN NoPage
       ELSE [page[p] EXCEPT !.data = head[s], !.open = page[p].open /\ head[s].kind = "builtin"]]
  /\ UNCHANGED <<head, versions, copying, call>>

SelectType(p, type) ==
  /\ page[p].open
  /\ page' = [page EXCEPT ![p].form = [type |-> type, params |-> Catalog[type]]]
  /\ UNCHANGED <<head, versions, copying, call>>

SetParam(p, k, value) ==
  /\ page[p].open /\ k \in DOMAIN page[p].form.params
  /\ page' = [page EXCEPT ![p].form.params[k] = value]
  /\ UNCHANGED <<head, versions, copying, call>>

(* The query is fetched again before the page is left. *)
Save(p) ==
  /\ page[p].open
  /\ LET s == page[p].of IN
     /\ Accepted(s, page[p].form, page[p].data.version)
     /\ Update(s, page[p].form, page[p].base)
     /\ page' = [page EXCEPT ![p].open = FALSE, ![p].data = head'[s]]
  /\ UNCHANGED <<copying, call>>

Leave(p) ==
  /\ page[p].open /\ page' = [page EXCEPT ![p].open = FALSE]
  /\ UNCHANGED <<head, versions, copying, call>>
-----------------------------------------------------------------------------
StrategiesNext ==
  \/ \E s \in StrategyIds :
       \/ \E d \in Drafts : Create(s, d)
       \/ \E change \in Changes : UpdateDirectly(s, change)
       \/ \E status \in {"active", "disabled", "deleted"} : SetStatus(s, status)
       \/ CopyRead(s) \/ CopyWrite(s)
       \/ \E p \in Pages : OpenPage(p, s)
       \/ \E c \in Calls, n \in 1 .. MaxRevisions : RunSignals(c, s, n) \/ RunBacktest(c, s, n)
  \/ \E c \in Calls : SandboxEnds(c)
  \/ \E p \in Pages :
       \/ Refetch(p) \/ Save(p) \/ Leave(p)
       \/ \E type \in DOMAIN Catalog : SelectType(p, type)
       \/ \E k \in UNION {DOMAIN Catalog[type] : type \in DOMAIN Catalog},
             value \in 1 .. MaxValue : SetParam(p, k, value)

StrategiesSpec == StrategiesInit /\ [][StrategiesNext]_strategies
-----------------------------------------------------------------------------
(* A head says what the last of its versions says, which are numbered      *)
(* without a gap; the fingerprint of a version, which a copy takes over    *)
(* from what it read of another strategy, is that of its content, and the  *)
(* content passes the validation it is put through whenever it is run.     *)
HeadsAgree ==
  /\ \A s \in StrategyIds : head[s] # Absent =>
       LET last == Row(s, head[s].version) IN
       /\ {v.version : v \in VersionsOf(s)} = 1 .. head[s].version
       /\ Cardinality(VersionsOf(s)) = head[s].version
       /\ last.sha = head[s].sha /\ last.definition.params = head[s].params
  /\ \A v \in versions :
       /\ v.sha = v.definition
       /\ Validated(v.definition) /\ Normal(v.definition) = v.definition

(* What a backtest or a signal says it was computed from is what its       *)
(* version says for ever, whatever became of the strategy meanwhile.       *)
VersionsFaithful ==
  /\ [](HeadsAgree /\ \A c \in Calls : call[c].pc # "idle" =>
          \E v \in versions : /\ v.of = call[c].of /\ v.version = call[c].version
                              /\ v.sha = call[c].sha /\ v.definition = call[c].definition)
  /\ [][versions \subseteq versions']_strategies

(* A definition that is written over another was made by someone who had    *)
(* read that other one: "an update of a definition carries the current      *)
(* expectedVersion, a stale write is answered 409" (backend/README.md:231). *)
NoLostEdit == \A v \in versions : v.version > 1 => v.base = v.version - 1
=============================================================================
