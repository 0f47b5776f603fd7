------------------------- MODULE ConversationProofs -------------------------
(***************************************************************************)
(* Decision runs for any number of keys, requests, claims, crashes and     *)
(* stalls; the stream of an answer for every set of phrases and every      *)
(* length of text; and the socket of a client for every set of topics.     *)
(*                                                                         *)
(* Decision runs: the inductive invariant is about claims.  No two         *)
(* requests have the same token, a request that holds the claim of a run   *)
(* and is about to bind evidence finds none bound, and one that is about   *)
(* to decide finds some.                                                   *)
(*                                                                         *)
(* Stream: a phrase that ends in what was not shown yet begins at most its *)
(* length before the end, which is held back, so no phrase can begin in    *)
(* what was shown and end in what comes.                                   *)
(*                                                                         *)
(* Socket: for each topic the last message about it under way, or what the *)
(* server has if there is none, is what the client wants.                  *)
(*                                                                         *)
(* Reports: what the generator of a report has run, judged and stored is   *)
(* known from where it is, and with it what its row may say.               *)
(*                                                                         *)
(* Turns: an object of the registry is referenced exactly by the requests  *)
(* between taking and leaving it, all of one session and process, so that  *)
(* only one of them reads and appends.                                     *)
(***************************************************************************)
EXTENDS MCConversations, FiniteSetTheorems, SequenceTheorems, WellFoundedInduction, TLAPS

Claiming == {"claimed", "preview", "bind", "decide", "failing"}

TokensInv ==
  /\ \A k \in Keys : runs[k].token <= claims
  /\ \A c \in Callers : caller[c].token <= claims
  /\ \A c \in Callers : caller[c].pc \in Claiming => caller[c].token # 0
  /\ \A c, d \in Callers :
       caller[c].token # 0 /\ caller[c].token = caller[d].token => c = d

(* The evidence of run k calls for an alarm of this kind. *)
Justified(k, kind) ==
  /\ Decided(k)
  /\ kind = "severe_disagreement" => evidence[runs[k].alloc].severe
  /\ kind = "risk_veto" => evidence[runs[k].alloc].veto

LocalOK(c) ==
  /\ caller[c].pc = "bind" => caller[c].alloc \in 1 .. Len(evidence)
  /\ caller[c].pc \in {"preview", "bind"} /\ HoldsClaim(c) => Run(c).alloc = 0
  /\ caller[c].pc = "decide" /\ HoldsClaim(c) => Run(c).alloc # 0
  /\ caller[c].alarms # {} => caller[c].pc = "notify"
  /\ \A kind \in caller[c].alarms : Justified(caller[c].key, kind)

LocalInv == \A c \in Callers : LocalOK(c)

AlarmInv == \A k \in Keys, kind \in Kinds : <<k, kind>> \in notified => Justified(k, kind)

IInv == TypeOK /\ OneAuditChain /\ TokensInv /\ LocalInv /\ AlarmInv
-----------------------------------------------------------------------------
LEMMA InitIInv == Init => IInv
<1> SUFFICES ASSUME Init
             PROVE  IInv
  OBVIOUS
<1>1. /\ runs = [k \in Keys |-> NoRun] /\ events = [k \in Keys |-> <<>>]
      /\ evidence = <<>> /\ notified = {} /\ caller = [c \in Callers |-> Idle]
      /\ claims = 0 /\ stalls = 0 /\ crashes = 0
  BY DEF Init
<1>2. NoRun \in RunRows /\ Idle \in LocalStates
  BY BoundsAssumption DEF NoRun, RunRows, Idle, LocalStates, Statuses
<1>3. \A c \in Callers : /\ caller[c].pc = "idle" /\ caller[c].token = 0
                         /\ caller[c].alarms = {}
  BY <1>1 DEF Idle
<1>4. \A k \in Keys : /\ runs[k].status = "none" /\ runs[k].token = 0
                      /\ runs[k].alloc = 0 /\ events[k] = <<>> /\ ~runs[k].severe
  BY <1>1 DEF NoRun
<1>5. TypeOK
  BY <1>1, <1>2, <1>3, <1>4, BoundsAssumption DEF TypeOK, Busy
<1>6. OneAuditChain
  BY <1>4 DEF OneAuditChain, Decided, Verdicts
<1>7. TokensInv /\ LocalInv /\ AlarmInv
  BY <1>1, <1>3, <1>4 DEF TokensInv, LocalInv, LocalOK, AlarmInv, Claiming
<1>8. QED
  BY <1>5, <1>6, <1>7 DEF IInv

(* A run with a verdict is bound to evidence. *)
LEMMA DecidedIsBound ==
  ASSUME IInv, NEW k \in Keys, Decided(k)
  PROVE  runs[k].alloc \in 1 .. Len(evidence)
<1>1. events[k] = <<runs[k].alloc>> /\ events[k] \in Seq(1 .. MaxEvidence)
  BY DEF IInv, OneAuditChain, TypeOK
<1>2. runs[k].alloc \in 1 .. MaxEvidence /\ runs[k].alloc <= Len(evidence)
  BY <1>1 DEF IInv, TypeOK
<1>3. Len(evidence) \in Nat
  BY DEF IInv, TypeOK
<1>4. QED
  BY <1>2, <1>3, BoundsAssumption

(* A step of one request that changes no run.  It may add evidence, and    *)
(* store an alarm that it was about to raise.                              *)
LEMMA LocalStep ==
  ASSUME IInv, NEW c \in Callers, NEW v \in LocalStates,
         caller' = [caller EXCEPT ![c] = v],
         UNCHANGED <<runs, events, claims, stalls>>,
         \/ evidence' = evidence
         \/ Len(evidence) < MaxEvidence
              /\ \E found \in Findings : evidence' = Append(evidence, found),
         notified' \subseteq notified \cup ({caller[c].key} \X caller[c].alarms),
         crashes' \in 0 .. MaxCrashes,
         v.pc # "idle" => v.key \in Keys,
         v.token \in {0, caller[c].token},
         v.pc \in Claiming => v.token # 0,
         v.pc = "bind" => v.alloc \in 1 .. Len(evidence'),
         v.pc \in {"preview", "bind"} /\ runs[v.key].token = v.token
           => runs[v.key].alloc = 0,
         v.pc = "decide" /\ runs[v.key].token = v.token => runs[v.key].alloc # 0,
         v.alarms # {} => v.pc = "notify",
         \A kind \in v.alarms : Justified(v.key, kind)
  PROVE  IInv'
<1>1. TypeOK /\ Len(evidence) \in Nat
  BY DEF IInv, TypeOK
<1>2. /\ caller' \in [Callers -> LocalStates] /\ caller'[c] = v
      /\ \A d \in Callers : d # c => caller'[d] = caller[d]
  BY <1>1 DEF TypeOK
<1>3. /\ evidence' \in Seq(Findings) /\ Len(evidence') <= MaxEvidence
      /\ Len(evidence) <= Len(evidence') /\ Len(evidence') \in Nat
      /\ \A a \in 1 .. Len(evidence) : evidence'[a] = evidence[a]
  <2>1. CASE evidence' = evidence
    BY <1>1, <2>1 DEF TypeOK
  <2>2. CASE Len(evidence) < MaxEvidence
             /\ \E found \in Findings : evidence' = Append(evidence, found)
    <3>1. PICK found \in Findings : evidence' = Append(evidence, found)
      BY <2>2
    <3>2. evidence \in Seq(Findings) /\ MaxEvidence \in Nat
      BY <1>1, BoundsAssumption DEF TypeOK
    <3>3. evidence' \in Seq(Findings) /\ Len(evidence') = Len(evidence) + 1
      BY <3>1, <3>2
    <3>4. \A a \in 1 .. Len(evidence) : evidence'[a] = evidence[a]
      BY <3>1, <3>2
    <3>5. QED
      BY <1>1, <2>2, <3>2, <3>3, <3>4
  <2>3. QED
    BY <2>1, <2>2
<1>4. /\ \A kind \in caller[c].alarms : Justified(caller[c].key, kind)
      /\ caller[c].alarms # {} => caller[c].key \in Keys
      /\ caller[c].alarms \subseteq Kinds
  BY <1>1 DEF IInv, LocalInv, LocalOK, TypeOK, Busy, LocalStates
<1>5. TypeOK'
  <2>1. \A d \in Callers : Busy(d)' => caller'[d].key \in Keys
    BY <1>1, <1>2 DEF TypeOK, Busy
  <2>2. \A k \in Keys : runs'[k].alloc <= Len(evidence')
    BY <1>1, <1>3, BoundsAssumption DEF TypeOK, RunRows
  <2>3. notified' \subseteq Keys \X Kinds
    BY <1>1, <1>4 DEF TypeOK
  <2>4. QED
    BY <1>1, <1>2, <1>3, <2>1, <2>2, <2>3 DEF TypeOK
<1>6. \A k \in Keys : Decided(k) => evidence'[runs[k].alloc] = evidence[runs[k].alloc]
  BY <1>3, DecidedIsBound
<1>7. OneAuditChain'
  BY <1>6 DEF IInv, OneAuditChain, Decided
<1>8. TokensInv'
  BY <1>1, <1>2 DEF IInv, TokensInv, TypeOK, LocalStates
<1>9. \A k \in Keys, kind \in Kinds : Justified(k, kind) => Justified(k, kind)'
  BY <1>6 DEF Justified, Decided
<1>10. LocalInv'
  <2> SUFFICES ASSUME NEW d \in Callers
               PROVE  LocalOK(d)'
    BY DEF LocalInv
  <2>1. /\ caller'[d].alarms \subseteq Kinds
        /\ caller'[d].alarms # {} => caller'[d].pc = "notify"
        /\ caller'[d].pc = "notify" => caller'[d].key \in Keys
    BY <1>1, <1>2 DEF IInv, LocalInv, LocalOK, TypeOK, Busy, LocalStates
  <2>2. \A kind \in caller'[d].alarms : Justified(caller'[d].key, kind)
    BY <1>2 DEF IInv, LocalInv, LocalOK
  <2>3. (\A kind \in caller[d].alarms : Justified(caller[d].key, kind))'
    <3>1. \A kind \in caller'[d].alarms, k \in Keys :
            k = caller'[d].key => Justified(k, kind)'
      BY <1>9, <2>1, <2>2
    <3>2. \A kind \in caller'[d].alarms : caller'[d].key \in Keys
      BY <2>1
    <3>3. QED
      BY <3>1, <3>2 DEF Justified, Decided
  <2>4. CASE d = c
    BY <1>2, <2>1, <2>3, <2>4 DEF LocalOK, HoldsClaim, Run
  <2>5. CASE d # c
    <3>1. LocalOK(d) /\ caller'[d] = caller[d]
      BY <1>2, <2>5 DEF IInv, LocalInv
    <3>2. caller[d].pc = "bind" => caller[d].alloc \in 1 .. Len(evidence')
      BY <1>1, <1>3, <3>1 DEF LocalOK, TypeOK, LocalStates
    <3>3. QED
      BY <2>1, <2>3, <3>1, <3>2 DEF LocalOK, HoldsClaim, Run
  <2>6. QED
    BY <2>4, <2>5
<1>11. AlarmInv'
  <2> SUFFICES ASSUME NEW k \in Keys, NEW kind \in Kinds, <<k, kind>> \in notified'
               PROVE  Justified(k, kind)'
    BY DEF AlarmInv
  <2>1. Justified(k, kind)
    BY <1>4 DEF IInv, AlarmInv
  <2>2. QED
    BY <1>9, <2>1
<1>12. QED
  BY <1>5, <1>7, <1>8, <1>10, <1>11 DEF IInv

(* A step of one request that rewrites a run without verdict, with no      *)
(* token, its own or a new one.                                            *)
LEMMA RunStep ==
  ASSUME IInv, NEW k \in Keys, ~Decided(k), NEW rec \in RunRows,
         NEW c \in Callers, NEW v \in LocalStates,
         runs' = [runs EXCEPT ![k] = rec],
         caller' = [caller EXCEPT ![c] = v],
         UNCHANGED <<evidence, notified, stalls, crashes>>,
         claims' = claims \/ (claims < MaxClaims /\ claims' = claims + 1),
         rec.token # 0 <=> rec.status = "running",
         rec.alloc <= Len(evidence),
         \/ rec.status \notin Verdicts /\ ~rec.severe /\ events' = events
         \/ /\ rec.status \in Verdicts /\ rec.alloc \in 1 .. Len(evidence)
            /\ events' = [events EXCEPT ![k] = <<rec.alloc>>]
            /\ rec.severe = evidence[rec.alloc].severe
            /\ rec.status = "vetoed" <=> evidence[rec.alloc].veto,
         rec.token \in {0, caller[c].token} \/ (claims' = claims + 1 /\ rec.token = claims'),
         v.token \in {0, caller[c].token} \/ (claims' = claims + 1 /\ v.token = claims'),
         v.pc # "idle" => v.key \in Keys,
         v.pc \in Claiming => v.token # 0,
         v.pc \notin {"preview", "bind"},
         v.pc = "decide" => v.key = k /\ rec.alloc # 0,
         v.alarms = {}
  PROVE  IInv'
<1>1. /\ TypeOK /\ Len(evidence) \in Nat /\ claims \in Nat /\ claims' \in Nat
      /\ claims <= claims' /\ claims' <= MaxClaims /\ MaxClaims \in Nat
  BY BoundsAssumption DEF IInv, TypeOK
<1>2. /\ caller' \in [Callers -> LocalStates] /\ caller'[c] = v
      /\ \A d \in Callers : d # c => caller'[d] = caller[d]
  BY <1>1 DEF TypeOK
<1>3. /\ runs' \in [Keys -> RunRows] /\ runs'[k] = rec
      /\ \A j \in Keys : j # k => runs'[j] = runs[j]
  BY <1>1 DEF TypeOK
<1>4. /\ events' \in [Keys -> Seq(1 .. MaxEvidence)]
      /\ events'[k] = IF rec.status \in Verdicts THEN <<rec.alloc>> ELSE <<>>
      /\ \A j \in Keys : j # k => events'[j] = events[j]
  <2>1. CASE rec.status \notin Verdicts /\ events' = events
    BY <1>1, <2>1 DEF IInv, OneAuditChain, TypeOK
  <2>2. CASE rec.status \in Verdicts
    <3>1. rec.alloc \in 1 .. MaxEvidence
      BY <1>1, <2>2, BoundsAssumption DEF TypeOK
    <3>2. <<rec.alloc>> \in Seq(1 .. MaxEvidence)
      BY <3>1
    <3>3. events' = [events EXCEPT ![k] = <<rec.alloc>>]
      BY <2>2
    <3>4. QED
      BY <1>1, <2>2, <3>2, <3>3 DEF TypeOK
  <2>3. QED
    BY <2>1, <2>2
<1>5. TypeOK'
  <2>1. \A d \in Callers : Busy(d)' => caller'[d].key \in Keys
    BY <1>1, <1>2 DEF TypeOK, Busy
  <2>2. \A j \in Keys : runs'[j].alloc <= Len(evidence')
    BY <1>1, <1>3 DEF TypeOK
  <2>3. \A j \in Keys : runs'[j].token # 0 <=> runs'[j].status = "running"
    BY <1>1, <1>3 DEF TypeOK
  <2>4. QED
    BY <1>1, <1>2, <1>3, <1>4, <2>1, <2>2, <2>3 DEF TypeOK
<1>6. OneAuditChain'
  <2> SUFFICES ASSUME NEW j \in Keys
               PROVE  (IF Decided(j)
                       THEN /\ events[j] = <<runs[j].alloc>>
                            /\ runs[j].severe = evidence[runs[j].alloc].severe
                            /\ runs[j].status = "vetoed" <=> evidence[runs[j].alloc].veto
                       ELSE events[j] = <<>> /\ ~runs[j].severe)'
    BY DEF OneAuditChain
  <2>1. CASE j = k
    BY <1>3, <1>4, <2>1 DEF Decided
  <2>2. CASE j # k
    BY <1>3, <1>4, <2>2 DEF IInv, OneAuditChain, Decided
  <2>3. QED
    BY <2>1, <2>2
<1>7. \A d \in Callers : d # c => rec.token = 0 \/ rec.token # caller[d].token
  BY <1>1, SMTT(60) DEF IInv, TokensInv, TypeOK, LocalStates, RunRows
<1>8. TokensInv'
  <2>1. \A d \in Callers : caller[d].token \in Nat /\ caller[d].token <= claims
    BY <1>1 DEF IInv, TokensInv, TypeOK, LocalStates
  <2>2. v.token <= claims' /\ \A d \in Callers : caller'[d].token <= claims'
    BY <1>1, <1>2, <2>1
  <2>3. \A j \in Keys : runs[j].token \in Nat /\ runs[j].token <= claims
    BY <1>1 DEF IInv, TokensInv, TypeOK, RunRows
  <2>4. rec.token <= claims' /\ \A j \in Keys : runs'[j].token <= claims'
    BY <1>1, <1>3, <2>1, <2>3
  <2>5. \A d \in Callers : caller'[d].pc \in Claiming => caller'[d].token # 0
    BY <1>2 DEF IInv, TokensInv
  <2>6. \A d \in Callers : d # c => v.token = 0 \/ v.token # caller[d].token
    BY <1>1, <2>1 DEF IInv, TokensInv
  <2>7. \A d, e \in Callers :
          caller'[d].token # 0 /\ caller'[d].token = caller'[e].token => d = e
    BY <1>2, <2>6 DEF IInv, TokensInv
  <2>8. QED
    BY <2>2, <2>4, <2>5, <2>7 DEF TokensInv
<1>9. \A j \in Keys, kind \in Kinds : Justified(j, kind) => j # k /\ Justified(j, kind)'
  BY <1>3 DEF Justified, Decided
<1>10. LocalInv'
  <2> SUFFICES ASSUME NEW d \in Callers
               PROVE  LocalOK(d)'
    BY DEF LocalInv
  <2>1. CASE d = c
    BY <1>2, <1>3, <2>1 DEF LocalOK, HoldsClaim, Run
  <2>2. CASE d # c
    <3>1. LocalOK(d) /\ caller'[d] = caller[d]
      BY <1>2, <2>2 DEF IInv, LocalInv
    <3>2. /\ caller[d].alarms \subseteq Kinds
          /\ caller[d].pc # "idle" => caller[d].key \in Keys
          /\ caller[d].pc \in Claiming => caller[d].token # 0
      BY <1>1 DEF IInv, TokensInv, TypeOK, Busy, LocalStates
    <3>3. \A kind \in caller[d].alarms : Justified(caller[d].key, kind)'
      BY <1>9, <3>1, <3>2 DEF LocalOK
    <3>4. (\A kind \in caller[d].alarms : Justified(caller[d].key, kind))'
      BY <3>1, <3>3 DEF Justified, Decided
    <3>5. caller[d].pc \in {"preview", "bind", "decide"}
            => caller[d].key # k \/ rec.token # caller[d].token
      BY <1>7, <2>2, <3>2 DEF Claiming
    <3>6. caller[d].pc \in {"preview", "bind", "decide"} /\ HoldsClaim(d)'
            => HoldsClaim(d) /\ Run(d)' = Run(d)
      BY <1>3, <3>1, <3>2, <3>5 DEF HoldsClaim, Run
    <3>7. QED
      BY <3>1, <3>4, <3>6 DEF LocalOK
  <2>3. QED
    BY <2>1, <2>2
<1>11. AlarmInv'
  BY <1>9 DEF IInv, AlarmInv
<1>12. QED
  BY <1>5, <1>6, <1>8, <1>10, <1>11 DEF IInv

(* The age of a run matters to nothing but the guard of Reserve.           *)
LEMMA LeaseStep ==
  ASSUME IInv, NEW k \in Keys, LeaseRunsOut(k)
  PROVE  IInv'
<1>1. /\ TypeOK /\ runs[k] \in RunRows
      /\ runs' = [runs EXCEPT ![k] = [runs[k] EXCEPT !.fresh = FALSE]]
      /\ UNCHANGED <<events, evidence, notified, caller, claims, crashes>>
  BY DEF IInv, TypeOK, LeaseRunsOut, SetRun
<1>2. stalls' \in 0 .. MaxStalls
  BY <1>1, BoundsAssumption DEF LeaseRunsOut, TypeOK
<1>3. [runs[k] EXCEPT !.fresh = FALSE] \in RunRows
  BY <1>1 DEF RunRows
<1>4. /\ runs' \in [Keys -> RunRows]
      /\ \A j \in Keys : /\ runs'[j].status = runs[j].status
                         /\ runs'[j].token = runs[j].token
                         /\ runs'[j].alloc = runs[j].alloc
                         /\ runs'[j].severe = runs[j].severe
  BY <1>1, <1>3 DEF TypeOK, RunRows
<1>5. TypeOK'
  BY <1>1, <1>2, <1>4 DEF TypeOK, Busy
<1>6. OneAuditChain' /\ AlarmInv'
  BY <1>1, <1>4 DEF IInv, OneAuditChain, AlarmInv, Justified, Decided
<1>7. TokensInv'
  BY <1>1, <1>4 DEF IInv, TokensInv
<1>8. LocalInv'
  <2> SUFFICES ASSUME NEW d \in Callers
               PROVE  LocalOK(d)'
    BY DEF LocalInv
  <2>1. LocalOK(d) /\ caller' = caller /\ evidence' = evidence
    BY <1>1 DEF IInv, LocalInv
  <2>2. Busy(d) \/ (caller[d].pc = "idle" /\ caller[d].alarms = {})
    BY <2>1 DEF LocalOK, Busy
  <2>3. CASE Busy(d)
    <3>1. caller[d].key \in Keys
      BY <1>1, <2>3 DEF TypeOK
    <3>2. QED
      BY <1>4, <2>1, <3>1 DEF LocalOK, HoldsClaim, Run, Justified, Decided
  <2>4. CASE caller[d].pc = "idle" /\ caller[d].alarms = {}
    BY <2>1, <2>4 DEF LocalOK
  <2>5. QED
    BY <2>2, <2>3, <2>4
<1>9. QED
  BY <1>5, <1>6, <1>7, <1>8 DEF IInv
-----------------------------------------------------------------------------
LEMMA CallerFacts ==
  ASSUME IInv, NEW c \in Callers
  PROVE  /\ caller[c] \in LocalStates /\ LocalOK(c) /\ crashes \in 0 .. MaxCrashes
         /\ caller[c].pc # "idle" => caller[c].key \in Keys
         /\ caller[c].pc \in Claiming => caller[c].token # 0
         /\ caller[c].pc # "notify" => caller[c].alarms = {}
         /\ caller[c].key \in Keys => Run(c) \in RunRows
         /\ Idle \in LocalStates
<1>1. TypeOK /\ TokensInv /\ LocalOK(c)
  BY DEF IInv, LocalInv
<1>2. caller[c] \in LocalStates /\ crashes \in 0 .. MaxCrashes
  BY <1>1 DEF TypeOK
<1>3. caller[c].pc # "idle" => caller[c].key \in Keys
  BY <1>1 DEF TypeOK, Busy
<1>4. caller[c].pc \in Claiming => caller[c].token # 0
  BY <1>1 DEF TokensInv
<1>5. caller[c].pc # "notify" => caller[c].alarms = {}
  BY <1>1 DEF LocalOK
<1>6. caller[c].key \in Keys => Run(c) \in RunRows
  BY <1>1 DEF TypeOK, Run
<1>7. Idle \in LocalStates
  BY BoundsAssumption DEF Idle, LocalStates
<1>8. QED
  BY <1>1, <1>2, <1>3, <1>4, <1>5, <1>6, <1>7

(* The steps of a request that touch neither runs nor events.              *)
LEMMA ReadClaimStep ==
  ASSUME IInv, NEW c \in Callers, ReadClaim(c)
  PROVE  IInv'
<1> DEFINE next == IF ~HoldsClaim(c) THEN "failing"
                 ELSE IF Run(c).alloc = 0 THEN "preview" ELSE "decide"
           v  == [caller[c] EXCEPT !.pc = next]
<1>1. /\ caller' = [caller EXCEPT ![c] = v] /\ caller[c].pc = "claimed"
      /\ UNCHANGED <<runs, events, evidence, notified, claims, stalls, crashes>>
  BY DEF ReadClaim, Goes
<1>2. next \in {"failing", "preview", "decide"}
  OBVIOUS
<1>3. v.pc = next /\ v.key = caller[c].key /\ v.token = caller[c].token /\ v.alarms = {}
      /\ v \in LocalStates
  BY <1>1, <1>2, CallerFacts DEF LocalStates
<1>4. /\ v.pc = "preview" /\ runs[v.key].token = v.token => runs[v.key].alloc = 0
      /\ v.pc = "decide" /\ runs[v.key].token = v.token => runs[v.key].alloc # 0
  BY <1>3 DEF Run
<1>5. v.token # 0 /\ v.key \in Keys
  BY <1>1, <1>3, CallerFacts DEF Claiming
<1> HIDE DEF v, next
<1>6. QED
  BY <1>1, <1>2, <1>3, <1>4, <1>5, CallerFacts, LocalStep

LEMMA PreviewStep ==
  ASSUME IInv, NEW c \in Callers, Preview(c)
  PROVE  IInv'
<1> DEFINE v == [caller[c] EXCEPT !.pc = "bind", !.alloc = Len(evidence) + 1]
<1>1. /\ caller' = [caller EXCEPT ![c] = v] /\ caller[c].pc = "preview"
      /\ Len(evidence) < MaxEvidence
      /\ \E found \in Findings : evidence' = Append(evidence, found)
      /\ UNCHANGED <<runs, events, notified, claims, stalls, crashes>>
  BY DEF Preview
<1>2. evidence \in Seq(Findings) /\ Len(evidence) \in Nat
  BY DEF IInv, TypeOK
<1>3. Len(evidence') = Len(evidence) + 1
  BY <1>1, <1>2
<1>4. /\ v.pc = "bind" /\ v.key = caller[c].key /\ v.token = caller[c].token
      /\ v.alarms = {} /\ v.alloc \in 1 .. Len(evidence') /\ v \in LocalStates
  <2>1. caller[c] \in LocalStates /\ caller[c].alarms = {}
    BY <1>1, CallerFacts
  <2>2. Len(evidence) + 1 \in 0 .. MaxEvidence /\ Len(evidence) + 1 \in 1 .. Len(evidence')
    BY <1>1, <1>2, <1>3, BoundsAssumption
  <2>3. v.pc = "bind" /\ v.key = caller[c].key /\ v.token = caller[c].token
        /\ v.alarms = {} /\ v.alloc = Len(evidence) + 1
    BY <2>1 DEF LocalStates
  <2>4. v \in LocalStates
    BY <2>1, <2>2 DEF LocalStates
  <2>5. QED
    BY <2>2, <2>3, <2>4
<1>5. v.token # 0 /\ v.key \in Keys
  BY <1>1, <1>4, CallerFacts DEF Claiming
<1>6. runs[v.key].token = v.token => runs[v.key].alloc = 0
  BY <1>1, <1>4, CallerFacts DEF LocalOK, Run, HoldsClaim
<1> HIDE DEF v
<1>7. QED
  BY <1>1, <1>4, <1>5, <1>6, CallerFacts, LocalStep

LEMMA ReadStep ==
  ASSUME IInv, NEW c \in Callers, Read(c)
  PROVE  IInv'
<1> DEFINE v == IF Run(c).status = "running" THEN Idle
                ELSE [caller[c] EXCEPT !.pc = "notify", !.alarms = Alarms(caller[c].key)]
<1>1. /\ caller' = [caller EXCEPT ![c] = v] /\ caller[c].pc = "read"
      /\ UNCHANGED <<runs, events, evidence, notified, claims, stalls, crashes>>
  BY DEF Read
<1>2. PICK k \in Keys : k = caller[c].key
  BY <1>1, CallerFacts
<1>3. \A kind \in Alarms(k) : Justified(k, kind)
  <2>1. ~Decided(k) => ~runs[k].severe
    BY DEF IInv, OneAuditChain
  <2>2. Decided(k) => runs[k].severe = evidence[runs[k].alloc].severe
                      /\ (runs[k].status = "vetoed" <=> evidence[runs[k].alloc].veto)
    BY DEF IInv, OneAuditChain
  <2>3. QED
    BY <2>1, <2>2 DEF Alarms, Justified, Decided, Verdicts
<1>4. Alarms(k) \subseteq Kinds
  BY DEF Alarms, Kinds
<1>5. /\ v.pc \in {"idle", "notify"} /\ v \in LocalStates
      /\ v.pc # "idle" => v.key \in Keys
      /\ v.token \in {0, caller[c].token}
      /\ v.alarms # {} => v.pc = "notify"
      /\ \A kind \in v.alarms : v.key = k /\ kind \in Alarms(k)
  <2>1. CASE Run(c).status = "running"
    BY <2>1, CallerFacts DEF Idle
  <2>2. CASE Run(c).status # "running"
    BY <1>2, <1>4, <2>2, CallerFacts DEF LocalStates
  <2>3. QED
    BY <2>1, <2>2
<1>6. \A kind \in v.alarms : Justified(v.key, kind)
  BY <1>3, <1>5
<1> HIDE DEF v
<1>7. QED
  BY <1>1, <1>5, <1>6, CallerFacts, LocalStep DEF Claiming

LEMMA NotifyStep ==
  ASSUME IInv, NEW c \in Callers, Notify(c)
  PROVE  IInv'
<1> DEFINE kind == IF "severe_disagreement" \in caller[c].alarms
                   THEN "severe_disagreement" ELSE "risk_veto"
           v    == [caller[c] EXCEPT !.alarms = @ \ {kind}]
<1>1. /\ caller' = [caller EXCEPT ![c] = v] /\ caller[c].pc = "notify"
      /\ notified' = notified \cup {<<caller[c].key, kind>>} /\ caller[c].alarms # {}
      /\ UNCHANGED <<runs, events, evidence, claims, stalls, crashes>>
  BY DEF Notify
<1>2. caller[c].alarms \subseteq Kinds
  BY CallerFacts DEF LocalStates
<1>3. kind \in caller[c].alarms
  BY <1>1, <1>2 DEF Kinds
<1>4. /\ v.pc = "notify" /\ v.key = caller[c].key /\ v.token = caller[c].token
      /\ v.alarms \subseteq caller[c].alarms /\ v \in LocalStates
  BY <1>1, CallerFacts DEF LocalStates
<1>5. \A other \in v.alarms : Justified(v.key, other)
  BY <1>4, CallerFacts DEF LocalOK
<1>6. v.key \in Keys
  BY <1>1, <1>4, CallerFacts
<1> HIDE DEF v, kind
<1>7. notified' \subseteq notified \cup ({caller[c].key} \X caller[c].alarms)
  BY <1>1, <1>3
<1>8. QED
  BY <1>1, <1>4, <1>5, <1>6, <1>7, CallerFacts, LocalStep DEF Claiming

LEMMA IdleStep ==
  ASSUME IInv, NEW c \in Callers, caller' = [caller EXCEPT ![c] = Idle],
         UNCHANGED <<runs, events, evidence, notified, claims, stalls>>,
         crashes' \in 0 .. MaxCrashes
  PROVE  IInv'
<1>1. Idle.pc = "idle" /\ Idle.token = 0 /\ Idle.alarms = {}
  BY DEF Idle
<1>2. QED
  BY <1>1, CallerFacts, LocalStep DEF Claiming

LEMMA RaisesStep ==
  ASSUME IInv, NEW c \in Callers, Raises(c)
  PROVE  IInv'
<1> DEFINE v == [caller[c] EXCEPT !.pc = "failing"]
<1>1. /\ caller[c].pc # "idle"
      /\ UNCHANGED <<runs, events, evidence, notified, claims, stalls, crashes>>
  BY DEF Raises
<1>2. CASE caller' = [caller EXCEPT ![c] = Idle]
  BY <1>1, <1>2, IdleStep, CallerFacts
<1>3. CASE /\ caller' = [caller EXCEPT ![c] = v]
           /\ caller[c].pc # "notify" /\ caller[c].token # 0
  <2>1. /\ v.pc = "failing" /\ v.key = caller[c].key /\ v.token = caller[c].token
        /\ v.alarms = {} /\ v \in LocalStates /\ v.key \in Keys
    BY <1>1, <1>3, CallerFacts DEF LocalStates
  <2> HIDE DEF v
  <2>2. QED
    BY <1>1, <1>3, <2>1, CallerFacts, LocalStep
<1>4. QED
  BY <1>2, <1>3 DEF Raises

(* The steps that rewrite a run.                                           *)
LEMMA ReserveStep ==
  ASSUME IInv, NEW c \in Callers, NEW k \in Keys, Reserve(c, k)
  PROVE  IInv'
<1>1. caller[c].pc = "idle" /\ UNCHANGED <<events, evidence, notified, stalls, crashes>>
  BY DEF Reserve
<1>2. TypeOK /\ runs[k] \in RunRows /\ Idle \in LocalStates
  BY CallerFacts DEF IInv, TypeOK
<1>3. CASE MayReserve(k)
  <2> DEFINE rec == [runs[k] EXCEPT !.status = "running", !.token = claims + 1,
                                    !.fresh = TRUE]
             v   == [Idle EXCEPT !.pc = "claimed", !.key = k, !.token = claims + 1]
  <2>1. /\ claims < MaxClaims /\ claims' = claims + 1
        /\ runs' = [runs EXCEPT ![k] = rec] /\ caller' = [caller EXCEPT ![c] = v]
    BY <1>3 DEF Reserve, SetRun
  <2>2. ~Decided(k)
    BY <1>3 DEF MayReserve, Decided, Verdicts
  <2>3. ~runs[k].severe /\ runs[k].alloc <= Len(evidence) /\ claims \in Nat
    BY <1>2, <2>2 DEF IInv, OneAuditChain, TypeOK
  <2>4. claims + 1 \in 0 .. MaxClaims /\ claims + 1 # 0
    BY <2>1, <2>3, BoundsAssumption
  <2>5. /\ rec.status = "running" /\ rec.token = claims + 1 /\ rec.alloc = runs[k].alloc
        /\ ~rec.severe /\ rec \in RunRows
    BY <1>2, <2>3, <2>4 DEF RunRows, Statuses
  <2>6. /\ v.pc = "claimed" /\ v.key = k /\ v.token = claims + 1 /\ v.alarms = {}
        /\ v \in LocalStates
    <3>1. v.pc = "claimed" /\ v.key = k /\ v.token = claims + 1 /\ v.alarms = {}
      BY DEF Idle
    <3>2. v \in LocalStates
      BY <1>2, <2>4 DEF LocalStates
    <3>3. QED
      BY <3>1, <3>2
  <2>7. rec.status \notin Verdicts
    BY <2>5 DEF Verdicts
  <2> HIDE DEF rec, v
  <2>8. QED
    BY <1>1, <2>1, <2>2, <2>3, <2>4, <2>5, <2>6, <2>7, RunStep
<1>4. CASE ~MayReserve(k)
  <2> DEFINE v == [Idle EXCEPT !.pc = "read", !.key = k]
  <2>1. caller' = [caller EXCEPT ![c] = v] /\ UNCHANGED <<runs, claims>>
    BY <1>4 DEF Reserve
  <2>2. v.pc = "read" /\ v.key = k /\ v.token = 0 /\ v.alarms = {} /\ v \in LocalStates
    <3>1. v.pc = "read" /\ v.key = k /\ v.token = 0 /\ v.alarms = {}
      BY DEF Idle
    <3>2. v \in LocalStates
      BY <1>2 DEF LocalStates
    <3>3. QED
      BY <3>1, <3>2
  <2> HIDE DEF v
  <2>3. QED
    BY <1>1, <2>1, <2>2, CallerFacts, LocalStep DEF Claiming
<1>5. QED
  BY <1>3, <1>4

(* A request fails, or goes on, without changing its run.                  *)
LEMMA GoesStep ==
  ASSUME IInv, NEW c \in Callers, Goes(c, "failing"),
         caller[c].pc \in {"bind", "decide"},
         UNCHANGED <<runs, events, evidence, notified, claims, stalls, crashes>>
  PROVE  IInv'
<1> DEFINE v == [caller[c] EXCEPT !.pc = "failing"]
<1>1. caller' = [caller EXCEPT ![c] = v]
  BY DEF Goes
<1>2. /\ v.pc = "failing" /\ v.key = caller[c].key /\ v.token = caller[c].token
      /\ v.alarms = {} /\ v \in LocalStates /\ v.key \in Keys /\ v.token # 0
  BY CallerFacts DEF LocalStates, Claiming
<1> HIDE DEF v
<1>3. QED
  BY <1>1, <1>2, CallerFacts, LocalStep

(* What is true of the run of a request that holds its claim.              *)
LEMMA ClaimFacts ==
  ASSUME IInv, NEW c \in Callers, caller[c].pc \in Claiming, HoldsClaim(c)
  PROVE  /\ caller[c].key \in Keys /\ Run(c) = runs[caller[c].key]
         /\ ~Decided(caller[c].key) /\ Run(c) \in RunRows
         /\ Run(c).token = caller[c].token /\ Run(c).token # 0
         /\ Run(c).status = "running" /\ Run(c).alloc <= Len(evidence)
         /\ Run(c).alloc \in Nat /\ ~Run(c).severe
<1>1. caller[c].key \in Keys /\ caller[c].token # 0 /\ Run(c) \in RunRows
  BY CallerFacts DEF Claiming
<1>2. Run(c) = runs[caller[c].key] /\ Run(c).token = caller[c].token
  BY DEF Run, HoldsClaim
<1>3. Run(c).status = "running" /\ Run(c).alloc <= Len(evidence)
  BY <1>1, <1>2 DEF IInv, TypeOK
<1>4. ~Decided(caller[c].key)
  BY <1>2, <1>3 DEF Decided, Verdicts
<1>5. ~Run(c).severe
  BY <1>1, <1>2, <1>4 DEF IInv, OneAuditChain
<1>6. QED
  BY <1>1, <1>2, <1>3, <1>4, <1>5 DEF RunRows

LEMMA BindStep ==
  ASSUME IInv, NEW c \in Callers, Bind(c)
  PROVE  IInv'
<1>1. caller[c].pc = "bind" /\ UNCHANGED <<events, evidence, notified, claims, stalls, crashes>>
  BY DEF Bind
<1>2. CASE HoldsClaim(c)
  <2> DEFINE rec == [Run(c) EXCEPT !.alloc = caller[c].alloc, !.fresh = TRUE]
             v   == [caller[c] EXCEPT !.pc = "decide"]
  <2>1. PICK k \in Keys : k = caller[c].key
    BY <1>1, CallerFacts
  <2>2. runs' = [runs EXCEPT ![k] = rec] /\ caller' = [caller EXCEPT ![c] = v]
    BY <1>2, <2>1 DEF Bind, MayBind, SetRun, Goes
  <2>3. /\ ~Decided(k) /\ Run(c) \in RunRows /\ Run(c).token = caller[c].token
        /\ Run(c).token # 0 /\ Run(c).status = "running" /\ ~Run(c).severe
    BY <1>1, <1>2, <2>1, ClaimFacts DEF Claiming
  <2>4. /\ caller[c].alloc \in 1 .. Len(evidence) /\ caller[c].alloc \in 0 .. MaxEvidence
        /\ Len(evidence) \in Nat
    BY <1>1, CallerFacts DEF LocalOK, LocalStates, IInv, TypeOK
  <2>5. /\ rec.status = "running" /\ rec.token = caller[c].token
        /\ rec.alloc = caller[c].alloc /\ ~rec.severe /\ rec \in RunRows
    BY <2>3, <2>4 DEF RunRows
  <2>6. /\ v.pc = "decide" /\ v.key = k /\ v.token = caller[c].token /\ v.alarms = {}
        /\ v \in LocalStates
    BY <1>1, <2>1, CallerFacts DEF LocalStates
  <2>7. rec.status \notin Verdicts /\ rec.token # 0 /\ rec.alloc <= Len(evidence)
        /\ rec.alloc # 0
    BY <2>3, <2>4, <2>5 DEF Verdicts
  <2> HIDE DEF rec, v
  <2>8. QED
    BY <1>1, <2>2, <2>3, <2>5, <2>6, <2>7, RunStep
<1>3. CASE ~HoldsClaim(c)
  BY <1>1, <1>3, GoesStep DEF Bind, MayBind
<1>4. QED
  BY <1>2, <1>3

LEMMA DecideStep ==
  ASSUME IInv, NEW c \in Callers, NEW lost \in BOOLEAN, Decide(c, lost)
  PROVE  IInv'
<1>1. caller[c].pc = "decide" /\ UNCHANGED <<evidence, notified, claims, stalls, crashes>>
  BY DEF Decide
<1>2. CASE MayDecide(c)
  <2> DEFINE found == evidence[Run(c).alloc]
             rec   == WithVerdict(Run(c), found)
             next    == IF lost THEN "failing" ELSE "read"
             v     == [caller[c] EXCEPT !.pc = next]
  <2>1. PICK k \in Keys : k = caller[c].key
    BY <1>1, CallerFacts
  <2>2. /\ runs' = [runs EXCEPT ![k] = rec] /\ caller' = [caller EXCEPT ![c] = v]
        /\ events' = [events EXCEPT ![k] = Append(events[k], Run(c).alloc)]
    BY <1>2, <2>1 DEF Decide, SetRun, Goes
  <2>3. /\ ~Decided(k) /\ Run(c) \in RunRows /\ Run(c).alloc \in Nat
        /\ Run(c).alloc <= Len(evidence)
    BY <1>1, <1>2, <2>1, ClaimFacts DEF Claiming, MayDecide
  <2>4. Run(c).alloc \in 1 .. Len(evidence)
    <3>1. Run(c).alloc # 0
      BY <1>1, <1>2, CallerFacts DEF LocalOK, MayDecide
    <3>2. Len(evidence) \in Nat
      BY DEF IInv, TypeOK
    <3>3. QED
      BY <2>3, <3>1, <3>2
  <2>5. found \in Findings
    BY <2>4 DEF IInv, TypeOK
  <2>6. /\ rec.status = IF found.veto THEN "vetoed" ELSE "approved_candidate"
        /\ rec.token = 0 /\ rec.alloc = Run(c).alloc /\ rec.severe = found.severe
        /\ rec \in RunRows
    <3>1. /\ (IF found.veto THEN "vetoed" ELSE "approved_candidate") \in Statuses
          /\ found.severe \in BOOLEAN /\ 0 \in 0 .. MaxClaims
      BY <2>5, BoundsAssumption DEF Statuses, Verdicts, Findings
    <3> HIDE DEF found
    <3>2. rec \in RunRows
      BY <2>3, <3>1 DEF WithVerdict, RunRows
    <3>3. /\ rec.status = IF found.veto THEN "vetoed" ELSE "approved_candidate"
          /\ rec.token = 0 /\ rec.alloc = Run(c).alloc /\ rec.severe = found.severe
      BY <2>3 DEF WithVerdict, RunRows
    <3>4. QED
      BY <3>2, <3>3
  <2>7. rec.status \in Verdicts /\ rec.status # "running"
        /\ (rec.status = "vetoed" <=> evidence[rec.alloc].veto)
    BY <2>5, <2>6 DEF Verdicts, Findings
  <2>8. events' = [events EXCEPT ![k] = <<rec.alloc>>]
    <3>1. events[k] = <<>>
      BY <2>3 DEF IInv, OneAuditChain
    <3>2. Append(events[k], Run(c).alloc) = <<rec.alloc>>
      BY <3>1, <2>6
    <3>3. QED
      BY <2>2, <3>2
  <2>9. /\ v.pc \in {"failing", "read"} /\ v.key = k /\ v.token = caller[c].token
        /\ v.alarms = {} /\ v \in LocalStates /\ v.token # 0
    BY <1>1, <2>1, CallerFacts DEF LocalStates, Claiming
  <2>10. rec.severe = evidence[rec.alloc].severe /\ rec.alloc \in 1 .. Len(evidence)
         /\ rec.alloc <= Len(evidence)
    BY <2>3, <2>4, <2>6
  <2> HIDE DEF rec, v, found, next
  <2>11. QED
    BY <1>1, <2>2, <2>3, <2>6, <2>7, <2>8, <2>9, <2>10, RunStep
<1>3. CASE ~MayDecide(c)
  BY <1>1, <1>3, GoesStep DEF Decide
<1>4. QED
  BY <1>2, <1>3

LEMMA MarkFailedStep ==
  ASSUME IInv, NEW c \in Callers, MarkFailed(c)
  PROVE  IInv'
<1>1. /\ caller[c].pc = "failing" /\ caller' = [caller EXCEPT ![c] = Idle]
      /\ UNCHANGED <<events, evidence, notified, claims, stalls, crashes>>
  BY DEF MarkFailed
<1>2. CASE MayMark(c)
  <2> DEFINE rec == [Run(c) EXCEPT !.status = "failed", !.token = 0, !.fresh = FALSE]
  <2>1. PICK k \in Keys : k = caller[c].key
    BY <1>1, CallerFacts
  <2>2. runs' = [runs EXCEPT ![k] = rec]
    BY <1>2, <2>1 DEF MarkFailed, SetRun
  <2>3. ~Decided(k) /\ Run(c) \in RunRows /\ ~Run(c).severe /\ Run(c).alloc <= Len(evidence)
    BY <1>1, <1>2, <2>1, ClaimFacts DEF Claiming, MayMark
  <2>4. /\ rec.status = "failed" /\ rec.token = 0 /\ rec.alloc = Run(c).alloc
        /\ ~rec.severe /\ rec \in RunRows
    <3>1. "failed" \in Statuses /\ 0 \in 0 .. MaxClaims
      BY BoundsAssumption DEF Statuses
    <3>2. rec \in RunRows
      BY <2>3, <3>1 DEF RunRows
    <3>3. /\ rec.status = "failed" /\ rec.token = 0 /\ rec.alloc = Run(c).alloc
          /\ rec.severe = Run(c).severe
      BY <2>3 DEF RunRows
    <3>4. QED
      BY <2>3, <3>2, <3>3
  <2>5. rec.status \notin Verdicts /\ rec.status # "running" /\ rec.alloc <= Len(evidence)
    BY <2>3, <2>4 DEF Verdicts
  <2>6. Idle.pc = "idle" /\ Idle.token = 0 /\ Idle.alarms = {} /\ Idle \in LocalStates
    BY CallerFacts DEF Idle
  <2> HIDE DEF rec
  <2>7. QED
    BY <1>1, <2>2, <2>3, <2>4, <2>5, <2>6, RunStep DEF Claiming
<1>3. CASE ~MayMark(c)
  BY <1>1, <1>3, IdleStep, CallerFacts DEF MarkFailed
<1>4. QED
  BY <1>2, <1>3
-----------------------------------------------------------------------------
LEMMA NextIInv == IInv /\ [Next]_vars => IInv'
<1> SUFFICES ASSUME IInv, [Next]_vars
             PROVE  IInv'
  OBVIOUS
<1>1. CASE UNCHANGED vars
  BY <1>1, SMTT(60) DEF vars, IInv, TypeOK, Busy, OneAuditChain, Decided, TokensInv,
                        LocalInv, LocalOK, HoldsClaim, Run, Justified, AlarmInv
<1>2. ASSUME NEW c \in Callers, Continues(c)
      PROVE  IInv'
  <2>1. CASE ReadClaim(c)
    BY <2>1, ReadClaimStep
  <2>2. CASE Preview(c)
    BY <2>2, PreviewStep
  <2>3. CASE Bind(c)
    BY <2>3, BindStep
  <2>4. ASSUME NEW lost \in BOOLEAN, Decide(c, lost)
        PROVE  IInv'
    BY <2>4, DecideStep
  <2>5. CASE Read(c)
    BY <2>5, ReadStep
  <2>6. CASE Notify(c)
    BY <2>6, NotifyStep
  <2>7. CASE Return(c)
    BY <2>7, IdleStep, CallerFacts DEF Return
  <2>8. CASE MarkFailed(c)
    BY <2>8, MarkFailedStep
  <2>9. CASE Raises(c)
    BY <2>9, RaisesStep
  <2>10. QED
    BY <1>2, <2>1, <2>2, <2>3, <2>4, <2>5, <2>6, <2>7, <2>8, <2>9 DEF Continues
<1>3. ASSUME NEW c \in Callers, Crash(c)
      PROVE  IInv'
  <2>1. /\ caller' = [caller EXCEPT ![c] = Idle] /\ crashes < MaxCrashes
        /\ crashes' = crashes + 1
        /\ UNCHANGED <<runs, events, evidence, notified, claims, stalls>>
    BY <1>3 DEF Crash
  <2>2. crashes' \in 0 .. MaxCrashes
    BY <2>1, CallerFacts, BoundsAssumption
  <2>3. QED
    BY <2>1, <2>2, IdleStep
<1>4. ASSUME NEW c \in Callers, NEW k \in Keys, Reserve(c, k)
      PROVE  IInv'
  BY <1>4, ReserveStep
<1>5. ASSUME NEW k \in Keys, LeaseRunsOut(k)
      PROVE  IInv'
  BY <1>5, LeaseStep
<1>6. QED
  BY <1>1, <1>2, <1>3, <1>4, <1>5 DEF Next

(* What a step may do to a run: nothing once it has a verdict, and its     *)
(* evidence changes only while there is none.                              *)
LEMMA RunChanges ==
  ASSUME IInv, [Next]_vars, NEW k \in Keys
  PROVE  /\ Decided(k) => runs'[k] = runs[k] /\ events'[k] = events[k]
         /\ runs[k].alloc # 0 => runs'[k].alloc = runs[k].alloc
<1>1. TypeOK /\ runs[k] \in RunRows
  BY DEF IInv, TypeOK
<1>2. CASE runs' = runs /\ events' = events
  BY <1>2
<1>3. ASSUME NEW c \in Callers, NEW j \in Keys, Reserve(c, j), MayReserve(j)
      PROVE  /\ Decided(k) => runs'[k] = runs[k] /\ events'[k] = events[k]
             /\ runs'[k].alloc = runs[k].alloc
  <2>1. events' = events /\ runs' = [runs EXCEPT ![j] = [runs[j] EXCEPT
          !.status = "running", !.token = claims + 1, !.fresh = TRUE]]
    BY <1>3 DEF Reserve, SetRun
  <2>2. ~Decided(j)
    BY <1>3 DEF MayReserve, Decided, Verdicts
  <2>3. QED
    BY <1>1, <2>1, <2>2 DEF TypeOK, RunRows
<1>4. ASSUME NEW c \in Callers, Bind(c), HoldsClaim(c)
      PROVE  /\ Decided(k) => runs'[k] = runs[k] /\ events'[k] = events[k]
             /\ runs[k].alloc # 0 => runs'[k].alloc = runs[k].alloc
  <2>1. /\ caller[c].pc = "bind" /\ events' = events
        /\ runs' = [runs EXCEPT ![caller[c].key] =
                      [Run(c) EXCEPT !.alloc = caller[c].alloc, !.fresh = TRUE]]
    BY <1>4 DEF Bind, MayBind, SetRun
  <2>2. ~Decided(caller[c].key) /\ Run(c) = runs[caller[c].key]
    BY <1>4, <2>1, ClaimFacts DEF Claiming
  <2>3. Run(c).alloc = 0
    BY <1>4, <2>1, CallerFacts DEF LocalOK
  <2>4. CASE k = caller[c].key
    BY <2>2, <2>3, <2>4
  <2>5. CASE k # caller[c].key
    BY <1>1, <2>1, <2>5 DEF TypeOK
  <2>6. QED
    BY <2>4, <2>5
<1>5. ASSUME NEW c \in Callers, NEW lost \in BOOLEAN, Decide(c, lost), MayDecide(c)
      PROVE  /\ Decided(k) => runs'[k] = runs[k] /\ events'[k] = events[k]
             /\ runs'[k].alloc = runs[k].alloc
  <2>1. /\ caller[c].pc = "decide"
        /\ events' = [events EXCEPT ![caller[c].key] = Append(@, Run(c).alloc)]
        /\ runs' = [runs EXCEPT ![caller[c].key] =
                      WithVerdict(Run(c), evidence[Run(c).alloc])]
    BY <1>5 DEF Decide, SetRun
  <2>2. ~Decided(caller[c].key) /\ Run(c) = runs[caller[c].key]
    BY <1>5, <2>1, ClaimFacts DEF Claiming, MayDecide
  <2>3. CASE k = caller[c].key
    BY <1>1, <2>1, <2>2, <2>3 DEF TypeOK, WithVerdict, RunRows
  <2>4. CASE k # caller[c].key
    BY <1>1, <2>1, <2>4 DEF TypeOK
  <2>5. QED
    BY <2>3, <2>4
<1>6. ASSUME NEW c \in Callers, MarkFailed(c), MayMark(c)
      PROVE  /\ Decided(k) => runs'[k] = runs[k] /\ events'[k] = events[k]
             /\ runs'[k].alloc = runs[k].alloc
  <2>1. /\ caller[c].pc = "failing" /\ events' = events
        /\ runs' = [runs EXCEPT ![caller[c].key] =
                      [Run(c) EXCEPT !.status = "failed", !.token = 0, !.fresh = FALSE]]
    BY <1>6 DEF MarkFailed, SetRun
  <2>2. ~Decided(caller[c].key) /\ Run(c) = runs[caller[c].key]
    BY <1>6, <2>1, ClaimFacts DEF Claiming, MayMark
  <2>3. QED
    BY <1>1, <2>1, <2>2 DEF TypeOK, RunRows
<1>7. ASSUME NEW j \in Keys, LeaseRunsOut(j)
      PROVE  /\ Decided(k) => runs'[k] = runs[k] /\ events'[k] = events[k]
             /\ runs'[k].alloc = runs[k].alloc
  <2>1. /\ runs[j].status = "running" /\ events' = events
        /\ runs' = [runs EXCEPT ![j] = [runs[j] EXCEPT !.fresh = FALSE]]
    BY <1>7 DEF LeaseRunsOut, SetRun
  <2>2. QED
    BY <1>1, <2>1 DEF TypeOK, RunRows, Decided, Verdicts
<1>8. ASSUME NEW c \in Callers, Continues(c)
      PROVE  /\ Decided(k) => runs'[k] = runs[k] /\ events'[k] = events[k]
             /\ runs[k].alloc # 0 => runs'[k].alloc = runs[k].alloc
  <2>1. CASE \/ ReadClaim(c) \/ Preview(c) \/ Read(c) \/ Notify(c) \/ Return(c)
             \/ Raises(c)
    BY <1>2, <2>1 DEF ReadClaim, Preview, Read, Notify, Return, Raises
  <2>2. CASE Bind(c)
    BY <1>2, <1>4, <2>2 DEF Bind, MayBind
  <2>3. ASSUME NEW lost \in BOOLEAN, Decide(c, lost)
        PROVE  /\ Decided(k) => runs'[k] = runs[k] /\ events'[k] = events[k]
               /\ runs[k].alloc # 0 => runs'[k].alloc = runs[k].alloc
    <3>1. CASE MayDecide(c)
      BY <1>5, <2>3, <3>1
    <3>2. CASE ~MayDecide(c)
      BY <1>2, <2>3, <3>2 DEF Decide
    <3>3. QED
      BY <3>1, <3>2
  <2>4. CASE MarkFailed(c)
    BY <1>2, <1>6, <2>4 DEF MarkFailed
  <2>5. QED
    BY <1>8, <2>1, <2>2, <2>3, <2>4 DEF Continues
<1>9. CASE \/ UNCHANGED vars
           \/ \E c \in Callers : Crash(c)
           \/ \E c \in Callers, j \in Keys : Reserve(c, j) /\ ~MayReserve(j)
  BY <1>2, <1>9 DEF vars, Crash, Reserve
<1>10. QED
  BY <1>3, <1>7, <1>8, <1>9 DEF Next
-----------------------------------------------------------------------------
THEOREM Invariance == Spec => []IInv
<1>1. QED
  BY InitIInv, NextIInv, PTL DEF Spec

(* Rows, tokens and counters keep their types, and a run has a claim token *)
(* exactly while it is running.                                            *)
THEOREM TypeCorrect == Spec => []TypeOK
<1>1. IInv => TypeOK
  BY DEF IInv
<1>2. QED
  BY <1>1, Invariance, PTL

(* Every verdict of decision_chain.py has one chain of audit events, and   *)
(* both say what the evidence says that the run is bound to.               *)
THEOREM OneAuditChainCorrect == Spec => []OneAuditChain
<1>1. IInv => OneAuditChain
  BY DEF IInv
<1>2. QED
  BY <1>1, Invariance, PTL

(* No alarm of decision_chain.py lacks a verdict that calls for it.        *)
THEOREM AlarmsJustifiedCorrect == Spec => []AlarmsJustified
<1>1. IInv => AlarmsJustified
  <2> SUFFICES ASSUME IInv, NEW k \in Keys
               PROVE  /\ <<k, "severe_disagreement">> \in notified =>
                           Decided(k) /\ evidence[runs[k].alloc].severe
                      /\ <<k, "risk_veto">> \in notified =>
                           Decided(k) /\ evidence[runs[k].alloc].veto
    BY DEF AlarmsJustified
  <2>1. \A kind \in Kinds : <<k, kind>> \in notified => Justified(k, kind)
    BY DEF IInv, AlarmInv
  <2>2. QED
    BY <2>1 DEF Kinds, Justified
<1>2. QED
  BY <1>1, Invariance, PTL

(* No request, however late or repeated, replaces the evidence of a run.   *)
THEOREM EvidenceStableCorrect == Spec => EvidenceStable
<1>1. IInv /\ [Next]_vars =>
        [\A k \in Keys : runs[k].alloc # 0 => runs'[k].alloc = runs[k].alloc]_vars
  BY RunChanges
<1>2. QED
  BY <1>1, Invariance, PTL DEF Spec, EvidenceStable

(* No request changes a run or its events after the verdict.               *)
THEOREM VerdictFinalCorrect == Spec => VerdictFinal
<1>1. IInv /\ [Next]_vars =>
        [\A k \in Keys : Decided(k) => runs'[k] = runs[k] /\ events'[k] = events[k]]_vars
  BY RunChanges
<1>2. QED
  BY <1>1, Invariance, PTL DEF Spec, VerdictFinal
-----------------------------------------------------------------------------
(* The stream of an answer *)
Written == Letters \cup {Disclaimer}
Shown   == Written \cup {Notice, Sorry}

(* The phrase stands in words after the first i letters. *)
Occurs(flag, words, i) ==
  /\ i + Len(flag) <= Len(words)
  /\ \A j \in 1 .. Len(flag) : words[i + j] = flag[j]

LEMMA FlagType ==
  ASSUME NEW flag \in Flags
  PROVE  flag \in Seq(Letters) /\ Len(flag) \in Nat \ {0} /\ \A j \in 1 .. Len(flag) : flag[j] \in Letters
<1>1. flag \in Seq(Letters) /\ flag # <<>>
  BY FlagsAssumption
<1>2. QED
  BY <1>1

LEMMA PartOf ==
  ASSUME NEW S, NEW s \in Seq(S), NEW a \in Nat, NEW b \in Nat, a <= b, b <= Len(s)
  PROVE  /\ SubSeq(s, a + 1, b) \in Seq(S) /\ Len(SubSeq(s, a + 1, b)) = b - a
         /\ \A j \in 1 .. b - a : SubSeq(s, a + 1, b)[j] = s[a + j]
<1>1. a + 1 \in 1 .. Len(s) + 1 /\ b \in (a + 1) - 1 .. Len(s)
  OBVIOUS
<1>2. QED
  BY <1>1, SubSeqProperties

LEMMA AdviceOccurs ==
  ASSUME NEW words \in Seq(Shown)
  PROVE  HasAdvice(words) <=> \E flag \in Flags, i \in Nat : Occurs(flag, words, i)
<1>1. ASSUME NEW flag \in Flags, NEW i \in Nat, i + Len(flag) <= Len(words)
      PROVE  SubSeq(words, i + 1, i + Len(flag)) = flag <=> Occurs(flag, words, i)
  <2>1. flag \in Seq(Letters) /\ Len(flag) \in Nat \ {0} /\ Len(words) \in Nat
    BY FlagType
  <2> DEFINE word == SubSeq(words, i + 1, i + Len(flag))
  <2>2. /\ word \in Seq(Shown) /\ Len(word) = Len(flag)
        /\ \A j \in 1 .. Len(flag) : word[j] = words[i + j]
    BY <1>1, <2>1
  <2>3. word = flag <=> \A j \in 1 .. Len(flag) : word[j] = flag[j]
    <3>1. word \in Seq(Shown \cup Letters) /\ flag \in Seq(Shown \cup Letters)
      BY <2>1, <2>2 DEF Shown, Written
    <3> HIDE DEF word
    <3>2. QED
      BY <2>1, <2>2, <3>1, SeqEqual
  <2>4. QED
    BY <1>1, <2>2, <2>3 DEF Occurs
<1>2. ASSUME NEW flag \in Flags, NEW i \in Nat, Occurs(flag, words, i)
      PROVE  i \in 0 .. Len(words)
  BY <1>2, FlagType DEF Occurs
<1>3. ASSUME HasAdvice(words)
      PROVE  \E flag \in Flags, i \in Nat : Occurs(flag, words, i)
  <2>1. PICK flag \in Flags, i \in 0 .. Len(words) :
          i + Len(flag) <= Len(words) /\ SubSeq(words, i + 1, i + Len(flag)) = flag
    BY <1>3 DEF HasAdvice
  <2>2. i \in Nat
    OBVIOUS
  <2>3. QED
    BY <1>1, <2>1, <2>2
<1>4. ASSUME NEW flag \in Flags, NEW i \in Nat, Occurs(flag, words, i)
      PROVE  HasAdvice(words)
  <2>1. i + Len(flag) <= Len(words)
    BY <1>4 DEF Occurs
  <2>2. QED
    BY <1>1, <1>2, <1>4, <2>1 DEF HasAdvice
<1>5. QED
  BY <1>3, <1>4

LEMMA HoldType == Hold \in Nat /\ \A flag \in Flags : Len(flag) <= Hold + 1
<1> DEFINE S == {Len(flag) : flag \in Flags}
<1>1. PICK longest \in Flags : \A flag \in Flags : Len(flag) <= Len(longest)
  BY FlagsAssumption
<1>2. Len(longest) \in S /\ S \subseteq Nat \ {0} /\ \A n \in S : Len(longest) >= n
  BY <1>1, FlagType
<1> HIDE DEF S
<1>3. \E x \in S : \A y \in S : x >= y
  BY <1>2
<1>4. Max(S) \in S /\ \A y \in S : Max(S) >= y
  BY <1>3 DEF Max
<1>5. \A flag \in Flags : Len(flag) \in S
  BY DEF S
<1>6. Hold = Max(S) - 1
  BY DEF Hold, S
<1>7. Max(S) \in Nat \ {0}
  BY <1>2, <1>4
<1>8. Hold \in Nat /\ Hold + 1 = Max(S)
  BY <1>6, <1>7
<1>9. QED
  BY <1>2, <1>4, <1>5, <1>8
-----------------------------------------------------------------------------
(* Where the stream is: what was emitted, then what is held back, is what  *)
(* came so far; and it has no advice, wherever the pieces were cut.        *)
StreamInv ==
  \E n \in 0 .. read :
    /\ emitted = SubSeq(text, 1, n) /\ buffer = SubSeq(text, n + 1, read)
    /\ n # 0 => read - n = Hold
    /\ ~HasAdvice(SubSeq(text, 1, read))

GuardTypes ==
  /\ text \in Seq(Written) /\ read \in 0 .. Len(text)
  /\ emitted \in Seq(Shown) /\ pc \in {"stream", "whole", "end"}

GuardIInv ==
  /\ GuardTypes /\ ShownIsSafe
  /\ pc = "stream" => StreamInv
  /\ pc = "whole" => read = 0 /\ emitted = <<>>

(* Advice in the front of a text is advice in the text, and so is advice   *)
(* in a part of it.                                                        *)
LEMMA AdviceOfPart ==
  ASSUME NEW words \in Seq(Shown), NEW m \in 1 .. Len(words) + 1, NEW n \in 0 .. Len(words),
         m <= n + 1, HasAdvice(SubSeq(words, m, n))
  PROVE  HasAdvice(words)
<1> DEFINE word == SubSeq(words, m, n)
<1>1. word \in Seq(Shown) /\ Len(word) = n - m + 1 /\ Len(words) \in Nat
      /\ \A j \in 1 .. n - m + 1 : word[j] = words[m - 1 + j]
  OBVIOUS
<1>2. PICK flag \in Flags, i \in Nat : Occurs(flag, word, i)
  BY <1>1, AdviceOccurs
<1> HIDE DEF word
<1>3. Occurs(flag, words, m - 1 + i)
  <2>1. Len(flag) \in Nat /\ i + Len(flag) <= n - m + 1
    BY <1>1, <1>2, FlagType DEF Occurs
  <2>2. (m - 1 + i) + Len(flag) <= Len(words)
    BY <1>1, <2>1
  <2>3. ASSUME NEW j \in 1 .. Len(flag)
        PROVE  words[(m - 1 + i) + j] = flag[j]
    <3>1. i + j \in 1 .. n - m + 1 /\ (m - 1 + i) + j = m - 1 + (i + j)
      BY <2>1
    <3>2. QED
      BY <1>1, <1>2, <3>1 DEF Occurs
  <2>4. QED
    BY <2>2, <2>3 DEF Occurs
<1>4. QED
  BY <1>1, <1>3, AdviceOccurs

(* Advice that is not all in what came before ends in what came since, and *)
(* begins in what was held back.                                           *)
LEMMA AdviceIsHeld ==
  ASSUME NEW words \in Seq(Shown), NEW m \in Nat, NEW n \in Nat, NEW upto \in Nat,
         n <= m, m <= upto, upto <= Len(words), n # 0 => m - n >= Hold,
         ~HasAdvice(SubSeq(words, 1, m)), HasAdvice(SubSeq(words, 1, upto))
  PROVE  HasAdvice(SubSeq(words, n + 1, upto))
<1> DEFINE before == SubSeq(words, 1, m)
           all    == SubSeq(words, 1, upto)
           held   == SubSeq(words, n + 1, upto)
<1>1. /\ before \in Seq(Shown) /\ Len(before) = m /\ \A j \in 1 .. m : before[j] = words[j]
      /\ all \in Seq(Shown) /\ Len(all) = upto /\ \A j \in 1 .. upto : all[j] = words[j]
      /\ held \in Seq(Shown) /\ Len(held) = upto - n
      /\ \A j \in 1 .. upto - n : held[j] = words[n + j]
  <2>1. before \in Seq(Shown) /\ Len(before) = m /\ \A j \in 1 .. m : before[j] = words[j]
    OBVIOUS
  <2>2. all \in Seq(Shown) /\ Len(all) = upto /\ \A j \in 1 .. upto : all[j] = words[j]
    OBVIOUS
  <2>3. n + 1 \in 1 .. Len(words) + 1 /\ upto \in n .. Len(words)
    OBVIOUS
  <2>4. held \in Seq(Shown) /\ Len(held) = upto - n
        /\ \A j \in 1 .. upto - n : held[j] = words[n + j]
    BY <2>3
  <2>5. QED
    BY <2>1, <2>2, <2>4
<1> HIDE DEF before, all, held
<1>2. PICK flag \in Flags, i \in Nat : Occurs(flag, all, i)
  BY <1>1, AdviceOccurs DEF all
<1>3. Len(flag) \in Nat \ {0} /\ Len(flag) <= Hold + 1 /\ i + Len(flag) <= upto /\ Hold \in Nat
  BY <1>1, <1>2, FlagType, HoldType DEF Occurs
<1>4. \A j \in 1 .. Len(flag) : i + j \in 1 .. upto /\ words[i + j] = flag[j]
  <2>1. \A j \in 1 .. Len(flag) : all[i + j] = flag[j]
    BY <1>2 DEF Occurs
  <2>2. \A j \in 1 .. Len(flag) : i + j \in 1 .. upto
    BY <1>3
  <2>3. QED
    BY <1>1, <2>1, <2>2
<1>5. i + Len(flag) > m
  <2> SUFFICES ASSUME i + Len(flag) <= m
               PROVE  FALSE
    BY <1>3
  <2>1. \A j \in 1 .. Len(flag) : i + j \in 1 .. m
    BY <1>3
  <2>2. Occurs(flag, before, i)
    BY <1>1, <1>4, <2>1 DEF Occurs
  <2>3. QED
    BY <1>1, <2>2, AdviceOccurs DEF before
<1>6. n <= i
  BY <1>3, <1>5
<1>7. Occurs(flag, held, i - n)
  <2>1. (i - n) + Len(flag) <= Len(held)
    BY <1>1, <1>3
  <2>2. ASSUME NEW j \in 1 .. Len(flag)
        PROVE  held[(i - n) + j] = flag[j]
    <3>1. (i - n) + j \in 1 .. upto - n /\ n + ((i - n) + j) = i + j
      BY <1>3, <1>6
    <3>2. QED
      BY <1>1, <1>4, <3>1
  <2>3. QED
    BY <2>1, <2>2 DEF Occurs
<1>8. i - n \in Nat
  BY <1>6
<1>9. QED
  BY <1>1, <1>7, <1>8, AdviceOccurs DEF held

(* Sentences of the platform after a text without advice add none.         *)
LEMMA NoAdviceAdded ==
  ASSUME NEW words \in Seq(Shown), NEW x \in {Disclaimer, Notice, Sorry}, ~HasAdvice(words)
  PROVE  ~HasAdvice(words \o <<x>>)
<1> DEFINE all == words \o <<x>>
<1> SUFFICES ASSUME HasAdvice(all)
             PROVE  FALSE
  OBVIOUS
<1>1. x \in Shown /\ x \notin Letters
  BY LettersAssumption DEF Shown, Written
<1>2. /\ all \in Seq(Shown) /\ Len(all) = Len(words) + 1 /\ Len(words) \in Nat
      /\ all[Len(words) + 1] = x /\ \A j \in 1 .. Len(words) : all[j] = words[j]
  BY <1>1
<1> HIDE DEF all
<1>3. PICK flag \in Flags, i \in Nat : Occurs(flag, all, i)
  BY <1>2, AdviceOccurs
<1>4. Len(flag) \in Nat \ {0} /\ \A j \in 1 .. Len(flag) : flag[j] \in Letters
  BY FlagType
<1>5. i + Len(flag) <= Len(words) + 1 /\ \A j \in 1 .. Len(flag) : all[i + j] = flag[j]
  BY <1>2, <1>3 DEF Occurs
<1>6. i + Len(flag) # Len(words) + 1
  BY <1>1, <1>2, <1>4, <1>5
<1>7. i + Len(flag) <= Len(words) /\ \A j \in 1 .. Len(flag) : i + j \in 1 .. Len(words)
  BY <1>2, <1>4, <1>5, <1>6
<1>8. Occurs(flag, words, i)
  BY <1>2, <1>5, <1>7 DEF Occurs
<1>9. QED
  BY <1>8, AdviceOccurs

LEMMA NoAdviceInFront ==
  ASSUME NEW words \in Seq(Shown), NEW m \in 0 .. Len(words), NEW n \in 0 .. m,
         ~HasAdvice(SubSeq(words, 1, m))
  PROVE  ~HasAdvice(SubSeq(words, 1, n))
<1>1. SubSeq(words, 1, m) \in Seq(Shown) /\ Len(SubSeq(words, 1, m)) = m
  OBVIOUS
<1>2. SubSeq(SubSeq(words, 1, m), 1, n) = SubSeq(words, 1, n)
  <2>1. SubSeq(words, 1, n) \in Seq(Shown) /\ Len(SubSeq(words, 1, n)) = n
        /\ \A j \in 1 .. n : SubSeq(words, 1, n)[j] = words[j]
    OBVIOUS
  <2>2. \A j \in 1 .. m : SubSeq(words, 1, m)[j] = words[j]
    OBVIOUS
  <2> DEFINE front == SubSeq(words, 1, m)
  <2>3. SubSeq(front, 1, n) \in Seq(Shown) /\ Len(SubSeq(front, 1, n)) = n
        /\ \A j \in 1 .. n : SubSeq(front, 1, n)[j] = front[j]
    <3> HIDE DEF front
    <3>1. front \in Seq(Shown) /\ Len(front) = m
      BY <1>1 DEF front
    <3>2. QED
      BY <3>1
  <2>4. \A j \in 1 .. n : SubSeq(front, 1, n)[j] = SubSeq(words, 1, n)[j]
    BY <2>1, <2>2, <2>3
  <2>5. QED
    BY <2>1, <2>3, <2>4, SeqEqual
<1> DEFINE front == SubSeq(words, 1, m)
<1>3. /\ front \in Seq(Shown) /\ 1 \in 1 .. Len(front) + 1 /\ n \in 0 .. Len(front)
      /\ 1 <= n + 1 /\ SubSeq(front, 1, n) = SubSeq(words, 1, n) /\ ~HasAdvice(front)
  BY <1>1, <1>2
<1> HIDE DEF front
<1>4. QED
  BY <1>3, AdviceOfPart

LEMMA NoAdviceEmpty == ~HasAdvice(<<>>)
<1>1. <<>> \in Seq(Shown) /\ Len(<<>>) = 0
  OBVIOUS
<1>2. ASSUME NEW flag \in Flags, NEW i \in Nat
      PROVE  ~Occurs(flag, <<>>, i)
  BY FlagType DEF Occurs
<1>3. QED
  BY <1>1, <1>2, AdviceOccurs

(* The note that ends what was shown. *)
LEMMA Closed ==
  ASSUME NEW words \in Seq(Shown), ~HasAdvice(words)
  PROVE  /\ words \o TailNote(words) \in Seq(Shown)
         /\ ~HasAdvice(words \o TailNote(words))
         /\ HasDisclaimer(words \o TailNote(words))
         /\ IsPrefix(words, words \o TailNote(words))
<1>1. CASE HasDisclaimer(words)
  <2>1. words \o TailNote(words) = words
    BY <1>1 DEF TailNote
  <2>2. QED
    BY <1>1, <2>1 DEF IsPrefix
<1>2. CASE ~HasDisclaimer(words)
  <2> DEFINE all == words \o <<Disclaimer>>
  <2>1. words \o TailNote(words) = all
    BY <1>2 DEF TailNote
  <2>2. Disclaimer \in Shown
    BY DEF Shown, Written
  <2>3. all \in Seq(Shown) /\ Len(all) = Len(words) + 1 /\ Len(words) \in Nat
        /\ all[Len(words) + 1] = Disclaimer /\ \A j \in 1 .. Len(words) : all[j] = words[j]
    BY <2>2
  <2>4. ~HasAdvice(all)
    BY NoAdviceAdded
  <2> HIDE DEF all
  <2>5. HasDisclaimer(all)
    BY <2>3 DEF HasDisclaimer, Contains
  <2>6. IsPrefix(words, all)
    <3>1. SubSeq(words, 1, Len(words)) = SubSeq(all, 1, Len(words))
      <4>1. SubSeq(all, 1, Len(words)) \in Seq(Shown) /\ Len(SubSeq(all, 1, Len(words))) = Len(words)
            /\ \A j \in 1 .. Len(words) : SubSeq(all, 1, Len(words))[j] = words[j]
        BY <2>3
      <4>2. SubSeq(words, 1, Len(words)) = words
        OBVIOUS
      <4>3. QED
        BY <4>1, <4>2, SeqEqual
    <3>2. QED
      BY <2>3, <3>1 DEF IsPrefix
  <2>7. QED
    BY <2>1, <2>3, <2>4, <2>5, <2>6
<1>3. QED
  BY <1>1, <1>2

LEMMA WholeIsSafe ==
  ASSUME NEW words \in Seq(Shown)
  PROVE  /\ EnforceCompliance(words) \in Seq(Shown)
         /\ ~HasAdvice(EnforceCompliance(words)) /\ HasDisclaimer(EnforceCompliance(words))
         /\ ~HasAdvice(words) => IsPrefix(words, EnforceCompliance(words))
<1> DEFINE base == IF words = <<>> THEN <<Sorry>> ELSE IF HasAdvice(words) THEN <<Notice>> ELSE words
<1>1. EnforceCompliance(words) = base \o TailNote(base)
  BY DEF EnforceCompliance
<1>2. base \in Seq(Shown) /\ ~HasAdvice(base)
  <2>1. <<>> \in Seq(Shown) /\ <<Sorry>> \in Seq(Shown) /\ <<Notice>> \in Seq(Shown)
    BY DEF Shown
  <2>2. ~HasAdvice(<<Sorry>>) /\ ~HasAdvice(<<Notice>>)
    <3>1. <<>> \o <<Sorry>> = <<Sorry>> /\ <<>> \o <<Notice>> = <<Notice>>
      OBVIOUS
    <3>2. QED
      BY <2>1, <3>1, NoAdviceEmpty, NoAdviceAdded
  <2>3. QED
    BY <2>1, <2>2
<1>3. ASSUME ~HasAdvice(words)
      PROVE  IsPrefix(words, base \o TailNote(base))
  <2>1. CASE words = <<>>
    <3>1. base \o TailNote(base) \in Seq(Shown)
      BY <1>2, Closed
    <3> HIDE DEF base
    <3>2. Len(words) = 0 /\ Len(base \o TailNote(base)) \in Nat
      BY <2>1, <3>1
    <3>3. SubSeq(words, 1, 0) = <<>> /\ SubSeq(base \o TailNote(base), 1, 0) = <<>>
      BY <2>1, <3>1
    <3>4. QED
      BY <3>2, <3>3 DEF IsPrefix
  <2>2. CASE words # <<>>
    BY <1>2, <1>3, <2>2, Closed
  <2>3. QED
    BY <2>1, <2>2
<1> HIDE DEF base
<1>4. QED
  BY <1>1, <1>2, <1>3, Closed
-----------------------------------------------------------------------------
LEMMA InitGuardIInv == GuardInit => GuardIInv
<1> SUFFICES ASSUME GuardInit
             PROVE  GuardIInv
  OBVIOUS
<1>1. text \in Seq(Written)
  BY LettersAssumption DEF GuardInit, Text, BoundedSeq, SeqOf, Written
<1>2. GuardTypes
  BY <1>1 DEF GuardInit, GuardTypes
<1>3. SubSeq(text, 1, 0) = <<>>
  BY <1>1
<1>4. StreamInv
  <2>1. 0 \in 0 .. read /\ read = 0 /\ emitted = SubSeq(text, 1, 0) /\ buffer = SubSeq(text, 0 + 1, read)
    BY <1>3 DEF GuardInit
  <2>2. ~HasAdvice(SubSeq(text, 1, read))
    BY <1>3, <2>1, NoAdviceEmpty
  <2>3. QED
    BY <2>1, <2>2 DEF StreamInv
<1>5. ShownIsSafe
  BY NoAdviceEmpty DEF GuardInit, ShownIsSafe
<1>6. QED
  BY <1>2, <1>4, <1>5 DEF GuardIInv, GuardInit

LEMMA PieceInv ==
  ASSUME GuardIInv, Piece
  PROVE  GuardIInv'
<1>1. PICK upto \in read + 1 .. Len(text) :
        LET all  == buffer \o SubSeq(text, read + 1, upto)
            kept == IF Len(all) > Hold THEN SubSeq(all, Len(all) - Hold + 1, Len(all)) ELSE all
        IN  /\ pc = "stream" /\ read' = upto /\ UNCHANGED text
            /\ IF HasAdvice(all)
               THEN /\ emitted' = emitted \o <<Notice>> \o TailNote(emitted)
                    /\ buffer' = <<>> /\ pc' = "end"
               ELSE /\ emitted' = emitted \o SubSeq(all, 1, Len(all) - Len(kept))
                    /\ buffer' = kept /\ UNCHANGED pc
  BY DEF Piece
<1>2. /\ text \in Seq(Written) /\ text \in Seq(Shown) /\ Len(text) \in Nat /\ read \in 0 .. Len(text)
      /\ emitted \in Seq(Shown) /\ ~HasAdvice(emitted) /\ upto \in Nat /\ read \in Nat
      /\ upto <= Len(text) /\ read <= upto /\ text' = text /\ pc = "stream"
  BY <1>1 DEF GuardIInv, GuardTypes, ShownIsSafe, Shown
<1>3. PICK n \in 0 .. read :
        /\ emitted = SubSeq(text, 1, n) /\ buffer = SubSeq(text, n + 1, read)
        /\ n # 0 => read - n = Hold
        /\ ~HasAdvice(SubSeq(text, 1, read))
  BY <1>1 DEF GuardIInv, StreamInv
<1> DEFINE all  == SubSeq(text, n + 1, upto)
           kept == IF Len(all) > Hold THEN SubSeq(all, Len(all) - Hold + 1, Len(all)) ELSE all
<1>4. buffer \o SubSeq(text, read + 1, upto) = all
  <2>1. n + 1 \in 1 .. Len(text) + 1 /\ read \in (n + 1) - 1 .. Len(text) /\ upto \in read .. Len(text)
    BY <1>2
  <2>2. QED
    BY <1>2, <1>3, <2>1, ConcatAdjacentSubSeq
<1>5. /\ all \in Seq(Shown) /\ Len(all) = upto - n
      /\ \A j \in 1 .. upto - n : all[j] = text[n + j]
  <2>1. n \in Nat /\ upto \in Nat /\ n <= upto /\ upto <= Len(text)
    BY <1>2
  <2>2. QED
    BY <1>2, <2>1, PartOf
<1>6. CASE HasAdvice(all)
  <2>1. emitted' = emitted \o <<Notice>> \o TailNote(emitted) /\ pc' = "end" /\ read' = upto
    BY <1>1, <1>4, <1>6
  <2>2. HasAdvice(text)
    <3>1. n + 1 \in 1 .. Len(text) + 1 /\ upto \in 0 .. Len(text) /\ n + 1 <= upto + 1
      BY <1>2
    <3>2. QED
      BY <1>2, <1>6, <3>1, AdviceOfPart
  <2> DEFINE noted == emitted \o <<Notice>>
  <2>3. noted \in Seq(Shown) /\ Len(noted) = Len(emitted) + 1 /\ Len(emitted) \in Nat
        /\ \A j \in 1 .. Len(emitted) : noted[j] = emitted[j]
    <3>1. Notice \in Shown
      BY DEF Shown
    <3>2. QED
      BY <1>2, <3>1
  <2>4. ~HasAdvice(noted)
    BY <1>2, NoAdviceAdded
  <2>5. HasDisclaimer(emitted) => HasDisclaimer(noted)
    BY <2>3 DEF HasDisclaimer, Contains
  <2> HIDE DEF noted
  <2>6. emitted' \in Seq(Shown) /\ ~HasAdvice(emitted') /\ HasDisclaimer(emitted')
    <3>1. CASE HasDisclaimer(emitted)
      <4>1. noted \o <<>> = noted
        BY <2>3
      <4>2. emitted' = noted
        BY <2>1, <3>1, <4>1 DEF noted, TailNote
      <4>3. QED
        BY <2>3, <2>4, <2>5, <3>1, <4>2
    <3>2. CASE ~HasDisclaimer(emitted)
      <4>1. emitted' = noted \o <<Disclaimer>>
        BY <2>1, <3>2 DEF noted, TailNote
      <4>2. Disclaimer \in Shown
        BY DEF Shown, Written
      <4>3. noted \o <<Disclaimer>> \in Seq(Shown)
            /\ Len(noted \o <<Disclaimer>>) = Len(noted) + 1
            /\ (noted \o <<Disclaimer>>)[Len(noted) + 1] = Disclaimer
        BY <2>3, <4>2
      <4>4. HasDisclaimer(noted \o <<Disclaimer>>)
        BY <2>3, <4>3 DEF HasDisclaimer, Contains
      <4>5. QED
        BY <2>3, <2>4, <4>1, <4>3, <4>4, NoAdviceAdded
    <3>3. QED
      BY <3>1, <3>2
  <2>7. GuardTypes'
    BY <1>2, <2>1, <2>6 DEF GuardTypes
  <2>8. ShownIsSafe'
    <3>1. HasAdvice(text')
      BY <1>2, <2>2
    <3>2. QED
      BY <2>6, <3>1 DEF ShownIsSafe, HasAdvice, HasDisclaimer
  <2>9. QED
    BY <2>1, <2>7, <2>8 DEF GuardIInv
<1>7. CASE ~HasAdvice(all)
  <2>1. /\ emitted' = emitted \o SubSeq(all, 1, Len(all) - Len(kept))
        /\ buffer' = kept /\ read' = upto /\ pc' = "stream"
    BY <1>1, <1>2, <1>4, <1>7
  <2>2. ~HasAdvice(SubSeq(text, 1, upto))
    <3>1. n \in Nat /\ n <= read /\ (n # 0 => read - n >= Hold)
      BY <1>2, <1>3, HoldType
    <3>2. QED
      BY <1>2, <1>3, <1>7, <3>1, AdviceIsHeld
  <2>3. Hold \in Nat /\ n \in Nat /\ Len(all) \in Nat
    BY <1>2, <1>5, HoldType
  <2> HIDE DEF all
  <2>4. \E m \in 0 .. upto :
          /\ emitted' = SubSeq(text, 1, m) /\ buffer' = SubSeq(text, m + 1, upto)
          /\ m # 0 => upto - m = Hold
    <3>1. CASE Len(all) > Hold
      <4> DEFINE m == upto - Hold
      <4>1. m \in n .. upto /\ m \in 0 .. upto /\ upto - m = Hold /\ m - n = Len(all) - Hold
        BY <1>2, <1>5, <2>3, <3>1
      <4>2. kept = SubSeq(all, Len(all) - Hold + 1, Len(all)) /\ Len(kept) = Hold
        <5>1. Len(all) - Hold + 1 \in 1 .. Len(all) + 1 /\ Len(all) \in Len(all) - Hold .. Len(all)
          BY <2>3, <3>1
        <5>2. Len(SubSeq(all, Len(all) - Hold + 1, Len(all))) = Hold
          BY <1>5, <2>3, <5>1
        <5>3. QED
          BY <3>1, <5>2
      <4>3. buffer' = SubSeq(text, m + 1, upto)
        <5>1. SubSeq(text, m + 1, upto) \in Seq(Shown) /\ Len(SubSeq(text, m + 1, upto)) = Hold
              /\ \A j \in 1 .. Hold : SubSeq(text, m + 1, upto)[j] = text[m + j]
          <6>1. m \in Nat /\ upto \in Nat /\ m <= upto /\ upto <= Len(text)
            BY <1>2, <4>1
          <6> HIDE DEF m
          <6>2. QED
            BY <1>2, <4>1, <6>1, PartOf
        <5>2. kept \in Seq(Shown) /\ \A j \in 1 .. Hold : kept[j] = all[m - n + j]
          <6>1. SubSeq(all, Len(all) - Hold + 1, Len(all)) \in Seq(Shown)
                /\ \A j \in 1 .. Hold :
                     SubSeq(all, Len(all) - Hold + 1, Len(all))[j] = all[Len(all) - Hold + j]
            <7>1. /\ Len(all) - Hold \in Nat /\ Len(all) \in Nat /\ Len(all) - Hold <= Len(all)
                  /\ all \in Seq(Shown) /\ Len(all) - (Len(all) - Hold) = Hold
              BY <1>5, <2>3, <3>1
            <7> DEFINE first == Len(all) - Hold
            <7>2. first + 1 = Len(all) - Hold + 1
              BY <2>3
            <7> HIDE DEF first
            <7>3. SubSeq(all, first + 1, Len(all)) \in Seq(Shown)
                  /\ \A j \in 1 .. Len(all) - first : SubSeq(all, first + 1, Len(all))[j] = all[first + j]
              BY <7>1, PartOf DEF first
            <7>4. QED
              BY <7>1, <7>2, <7>3 DEF first
          <6>2. QED
            BY <4>1, <4>2, <6>1
        <5>3. \A j \in 1 .. Hold : m - n + j \in 1 .. upto - n /\ n + (m - n + j) = m + j
          BY <1>2, <2>3, <4>1
        <5> HIDE DEF kept, m
        <5>4. \A j \in 1 .. Hold : kept[j] = SubSeq(text, m + 1, upto)[j]
          BY <1>5, <5>1, <5>2, <5>3
        <5>5. QED
          BY <2>1, <4>2, <5>1, <5>2, <5>4, SeqEqual
      <4>4. emitted' = SubSeq(text, 1, m)
        <5>1. emitted' = SubSeq(text, 1, n) \o SubSeq(all, 1, m - n)
          BY <1>3, <2>1, <4>1, <4>2
        <5>2. SubSeq(all, 1, m - n) = SubSeq(text, n + 1, m)
          <6>1. m - n \in 0 .. Len(all)
            BY <1>2, <1>5, <2>3, <3>1, <4>1
          <6>2. SubSeq(all, 1, m - n) \in Seq(Shown) /\ Len(SubSeq(all, 1, m - n)) = m - n
                /\ \A j \in 1 .. m - n : SubSeq(all, 1, m - n)[j] = all[j]
            <7> HIDE DEF m
            <7>1. QED
              BY <1>5, <6>1
          <6>3. n + 1 \in 1 .. Len(text) + 1 /\ m \in n .. Len(text)
            BY <1>2, <2>3, <4>1
          <6> HIDE DEF m
          <6>4. SubSeq(text, n + 1, m) \in Seq(Shown) /\ Len(SubSeq(text, n + 1, m)) = m - n
                /\ \A j \in 1 .. m - n : SubSeq(text, n + 1, m)[j] = text[n + j]
            BY <1>2, <2>3, <4>1, <6>3, PartOf
          <6>5. \A j \in 1 .. m - n : SubSeq(all, 1, m - n)[j] = SubSeq(text, n + 1, m)[j]
            <7>1. \A j \in 1 .. m - n : j \in 1 .. upto - n
              BY <1>2, <4>1, <6>1
            <7>2. \A j \in 1 .. m - n : all[j] = text[n + j]
              BY <1>5, <7>1, Zenon
            <7>3. QED
              BY <6>2, <6>4, <7>2, Zenon
          <6>6. QED
            BY <6>2, <6>4, <6>5, SeqEqual
        <5>3. 1 \in 1 .. Len(text) + 1 /\ n \in 1 - 1 .. Len(text) /\ m \in n .. Len(text)
          BY <1>2, <2>3, <4>1
        <5> HIDE DEF m
        <5>4. SubSeq(text, 1, n) \o SubSeq(text, n + 1, m) = SubSeq(text, 1, m)
          BY <1>2, <5>3, ConcatAdjacentSubSeq
        <5>5. QED
          BY <5>1, <5>2, <5>4
      <4>5. QED
        BY <4>1, <4>3, <4>4
    <3>2. CASE Len(all) <= Hold
      <4>1. kept = all
        BY <2>3, <3>2
      <4>2. SubSeq(all, 1, Len(all) - Len(all)) = <<>>
        BY <1>5, <2>3
      <4>3. emitted' = emitted
        <5>1. emitted' = emitted \o <<>>
          BY <2>1, <4>1, <4>2
        <5>2. QED
          BY <1>2, <5>1
      <4>4. n = 0
        BY <1>1, <1>2, <1>3, <1>5, <2>3, <3>2
      <4>5. QED
        <5>1. emitted' = SubSeq(text, 1, 0) /\ buffer' = SubSeq(text, 0 + 1, upto)
          BY <1>3, <2>1, <4>1, <4>3, <4>4 DEF all
        <5>2. 0 \in 0 .. upto
          BY <1>2
        <5>3. QED
          BY <5>1, <5>2
    <3>3. Len(all) > Hold \/ Len(all) <= Hold
      BY <2>3
    <3>4. QED
      BY <3>1, <3>2, <3>3
  <2>5. PICK m \in 0 .. upto :
          /\ emitted' = SubSeq(text, 1, m) /\ buffer' = SubSeq(text, m + 1, upto)
          /\ m # 0 => upto - m = Hold
    BY <2>4
  <2>6. ~HasAdvice(emitted')
    BY <1>2, <2>2, <2>5, NoAdviceInFront
  <2>7. StreamInv'
    BY <1>2, <2>1, <2>2, <2>5 DEF StreamInv, HasAdvice
  <2>8. GuardTypes'
    <3>1. m \in 0 .. Len(text)
      BY <1>2
    <3>2. SubSeq(text, 1, m) \in Seq(Shown)
      BY <1>2, <3>1
    <3>3. emitted' \in Seq(Shown)
      BY <2>5, <3>2
    <3>4. read' \in 0 .. Len(text) /\ pc' = "stream"
      <4>1. read' = upto /\ pc' = "stream"
        BY <2>1
      <4>2. QED
        BY <1>2, <4>1
    <3>5. QED
      BY <1>2, <3>3, <3>4 DEF GuardTypes
  <2>9. QED
    BY <2>1, <2>6, <2>7, <2>8 DEF GuardIInv, ShownIsSafe, HasAdvice
<1>8. QED
  BY <1>6, <1>7

LEMMA EndsInv ==
  ASSUME GuardIInv, StreamEnds \/ WholeText
  PROVE  GuardIInv'
<1>1. text \in Seq(Written) /\ text \in Seq(Shown) /\ Len(text) \in Nat /\ read \in 0 .. Len(text)
  BY DEF GuardIInv, GuardTypes, Shown
<1>2. /\ emitted' \in Seq(Shown) /\ ~HasAdvice(emitted') /\ HasDisclaimer(emitted')
      /\ ~HasAdvice(text) => IsPrefix(text, emitted')
      /\ text' = text /\ pc' = "end" /\ read' \in 0 .. Len(text)
  <2>1. CASE StreamEnds
    <3>1. /\ pc = "stream" /\ read = Len(text) /\ pc' = "end" /\ text' = text /\ read' = read
          /\ emitted' = IF emitted \o buffer = <<>> THEN EnforceCompliance(<<>>)
                        ELSE (emitted \o buffer) \o TailNote(emitted \o buffer)
      BY <2>1 DEF StreamEnds
    <3>2. PICK n \in 0 .. read :
            /\ emitted = SubSeq(text, 1, n) /\ buffer = SubSeq(text, n + 1, read)
            /\ ~HasAdvice(SubSeq(text, 1, read))
      BY <3>1 DEF GuardIInv, StreamInv
    <3>3. SubSeq(text, 1, read) = text
      BY <1>1, <3>1
    <3>4. emitted \o buffer = text
      <4>1. 1 \in 1 .. Len(text) + 1 /\ n \in 1 - 1 .. Len(text) /\ read \in n .. Len(text)
        BY <1>1
      <4>2. QED
        BY <1>1, <3>2, <3>3, <4>1, ConcatAdjacentSubSeq
    <3>5. CASE text = <<>>
      BY <1>1, <3>1, <3>2, <3>3, <3>4, <3>5, WholeIsSafe
    <3>6. CASE text # <<>>
      BY <1>1, <3>1, <3>2, <3>3, <3>4, <3>6, Closed
    <3>7. QED
      BY <3>5, <3>6
  <2>2. CASE WholeText
    BY <1>1, <2>2, WholeIsSafe DEF WholeText
  <2>3. QED
    BY <2>1, <2>2
<1>3. GuardTypes'
  BY <1>1, <1>2 DEF GuardTypes
<1>4. ShownIsSafe'
  BY <1>2 DEF ShownIsSafe, HasAdvice, HasDisclaimer, IsPrefix
<1>5. QED
  BY <1>2, <1>3, <1>4 DEF GuardIInv

(* What a client is shown of a text that _guarded_model_stream passes on   *)
(* never contains a phrase of advice, whatever the pieces it comes in; it  *)
(* ends with a disclaimer, and a text without advice is shown as it is.    *)
THEOREM ShownIsSafeCorrect == GuardSpec => []ShownIsSafe
<1>1. GuardIInv /\ [GuardNext]_guard => GuardIInv'
  <2> SUFFICES ASSUME GuardIInv, [GuardNext]_guard
               PROVE  GuardIInv'
    OBVIOUS
  <2>1. CASE Piece
    BY <2>1, PieceInv
  <2>2. CASE StreamEnds \/ WholeText
    BY <2>2, EndsInv
  <2>3. CASE UNCHANGED guard
    BY <2>3 DEF guard, GuardIInv, GuardTypes, StreamInv, ShownIsSafe, HasAdvice, HasDisclaimer, IsPrefix
  <2>4. QED
    BY <2>1, <2>2, <2>3 DEF GuardNext
<1>2. GuardIInv => ShownIsSafe
  BY DEF GuardIInv
<1>3. QED
  BY <1>1, <1>2, InitGuardIInv, PTL DEF GuardSpec
-----------------------------------------------------------------------------
(* The socket of a client *)
Messages == [subscribes : BOOLEAN, topics : SUBSET Topics]
SocketRows ==
  [state : {"none", "connecting", "open", "deaf", "closing", "closed"}, ticket : Nat,
   verified : BOOLEAN, code : {0, AuthCode}, sent : Seq(Messages), subs : SUBSET Topics]

SocketTypes ==
  /\ current \in 0 .. MaxSockets /\ topics \in SUBSET Topics
  /\ socket \in [1 .. MaxSockets -> SocketRows]
  /\ ticket \in Nat /\ tickets \in Nat

(* Sockets are numbered as they are made, and the current one was made. *)
Numbered ==
  /\ \E k \in 0 .. MaxSockets : \A i \in 1 .. MaxSockets : socket[i].state = "none" <=> i > k
  /\ \A i \in 1 .. MaxSockets :
       socket[i].state \in {"none", "connecting"} => socket[i].sent = <<>> /\ socket[i].subs = {}
  /\ current # 0 => socket[current].state # "none"

(* What the server will have of topic t once it has read all of sent: the  *)
(* last message about t decides, or, if there is none, what it has now.    *)
Unmentioned(t, sent) == \A n \in DOMAIN sent : t \notin sent[n].topics
Decides(t, sent, n)  ==
  t \in sent[n].topics /\ \A m \in DOMAIN sent : m > n => t \notin sent[m].topics

WillHave(t, s, wanted) ==
  /\ Unmentioned(t, s.sent) => (t \in s.subs <=> t \in wanted)
  /\ \A n \in DOMAIN s.sent : Decides(t, s.sent, n) => (s.sent[n].subscribes <=> t \in wanted)

Promised ==
  current # 0 /\ socket[current].state = "open" =>
    \A t \in Topics : WillHave(t, socket[current], topics)

SocketIInv == SocketTypes /\ Numbered /\ Promised
-----------------------------------------------------------------------------
(* A message about t decides; one about other topics changes nothing.      *)
LEMMA WillHaveAppended ==
  ASSUME NEW s \in SocketRows, NEW message \in Messages, NEW t \in Topics,
         NEW before, NEW after,
         WillHave(t, s, before),
         IF t \in message.topics THEN t \in after <=> message.subscribes
         ELSE t \in after <=> t \in before
  PROVE  WillHave(t, [s EXCEPT !.sent = Append(@, message)], after)
<1> DEFINE new == Append(s.sent, message)
<1>1. s.sent \in Seq(Messages) /\ new \in Seq(Messages) /\ Len(new) = Len(s.sent) + 1
      /\ Len(s.sent) \in Nat
  BY DEF SocketRows
<1>2. /\ DOMAIN new = 1 .. Len(s.sent) + 1 /\ DOMAIN s.sent = 1 .. Len(s.sent)
      /\ new[Len(s.sent) + 1] = message
      /\ \A n \in DOMAIN s.sent : new[n] = s.sent[n] /\ n \in DOMAIN new
  BY <1>1
<1>3. /\ [s EXCEPT !.sent = Append(@, message)].sent = new
      /\ [s EXCEPT !.sent = Append(@, message)].subs = s.subs
  BY DEF SocketRows
<1> HIDE DEF new
<1>4. CASE t \in message.topics
  <2>1. Len(s.sent) + 1 \in DOMAIN new /\ ~Unmentioned(t, new)
    BY <1>1, <1>2, <1>4 DEF Unmentioned
  <2>2. \A n \in DOMAIN new : Decides(t, new, n) => n = Len(s.sent) + 1
    BY <1>1, <1>2, <1>4, <2>1 DEF Decides
  <2>3. t \in after <=> message.subscribes
    BY <1>4
  <2>4. \A n \in DOMAIN new : Decides(t, new, n) => (new[n].subscribes <=> t \in after)
    BY <2>2, <2>3, <1>2
  <2>5. QED
    BY <2>1, <2>4, <1>3 DEF WillHave
<1>5. CASE t \notin message.topics
  <2>1. t \in after <=> t \in before
    BY <1>5
  <2>2. Unmentioned(t, new) => Unmentioned(t, s.sent)
    BY <1>2 DEF Unmentioned
  <2>3. \A n \in DOMAIN new : Decides(t, new, n) => n \in DOMAIN s.sent /\ Decides(t, s.sent, n)
    BY <1>1, <1>2, <1>5 DEF Decides
  <2>4. \A n \in DOMAIN new : Decides(t, new, n) => (new[n].subscribes <=> t \in after)
    BY <2>1, <2>3, <1>2 DEF WillHave
  <2>5. Unmentioned(t, new) => (t \in s.subs <=> t \in after)
    BY <2>1, <2>2 DEF WillHave
  <2>6. QED
    BY <2>4, <2>5, <1>3 DEF WillHave
<1>6. QED
  BY <1>4, <1>5

(* The server reads the first message. *)
LEMMA WillHaveHandled ==
  ASSUME NEW s \in SocketRows, NEW t \in Topics, NEW wanted,
         s.sent # <<>>, WillHave(t, s, wanted)
  PROVE  WillHave(t, [s EXCEPT !.sent = Tail(@),
                               !.subs = IF Head(s.sent).subscribes THEN @ \cup Head(s.sent).topics
                                        ELSE @ \ Head(s.sent).topics], wanted)
<1> DEFINE new  == Tail(s.sent)
           subs == IF s.sent[1].subscribes THEN s.subs \cup s.sent[1].topics
                   ELSE s.subs \ s.sent[1].topics
           handled == [s EXCEPT !.sent = Tail(@),
                        !.subs = IF Head(s.sent).subscribes THEN @ \cup Head(s.sent).topics
                                 ELSE @ \ Head(s.sent).topics]
<1>1. s.sent \in Seq(Messages) /\ new \in Seq(Messages) /\ Len(new) = Len(s.sent) - 1
      /\ Len(s.sent) \in Nat \ {0} /\ s.subs \in SUBSET Topics
  BY DEF SocketRows
<1>2. /\ DOMAIN new = 1 .. Len(s.sent) - 1 /\ DOMAIN s.sent = 1 .. Len(s.sent)
      /\ \A n \in DOMAIN new : new[n] = s.sent[n + 1]
      /\ Head(s.sent) = s.sent[1]
  BY <1>1
<1>3. handled.sent = new /\ handled.subs = subs
  BY <1>2 DEF SocketRows
<1>4. 1 \in DOMAIN s.sent /\ \A n \in DOMAIN new : n + 1 \in DOMAIN s.sent
  BY <1>1, <1>2
<1>5. \A n \in DOMAIN s.sent : n = 1 \/ (n - 1 \in DOMAIN new /\ new[n - 1] = s.sent[n])
  BY <1>1, <1>2
<1>6. s.sent[1] \in Messages
  BY <1>1, <1>4
<1> HIDE DEF new, handled
<1>7. \A n \in DOMAIN new : Decides(t, new, n) => Decides(t, s.sent, n + 1)
  <2> SUFFICES ASSUME NEW n \in DOMAIN new, Decides(t, new, n)
               PROVE  Decides(t, s.sent, n + 1)
    OBVIOUS
  <2>1. t \in s.sent[n + 1].topics
    BY <1>2 DEF Decides
  <2>2. ASSUME NEW m \in DOMAIN s.sent, m > n + 1
        PROVE  t \notin s.sent[m].topics
    <3>1. m - 1 \in DOMAIN new /\ new[m - 1] = s.sent[m] /\ m - 1 > n
      BY <1>1, <1>2, <1>5, <2>2
    <3>2. QED
      BY <3>1 DEF Decides
  <2>3. QED
    BY <2>1, <2>2 DEF Decides
<1>8. \A n \in DOMAIN new : Decides(t, new, n) => (new[n].subscribes <=> t \in wanted)
  BY <1>2, <1>4, <1>7 DEF WillHave
<1>9. ASSUME Unmentioned(t, new)
      PROVE  t \in subs <=> t \in wanted
  <2>1. \A m \in DOMAIN s.sent : m > 1 => t \notin s.sent[m].topics
    BY <1>1, <1>2, <1>5, <1>9 DEF Unmentioned
  <2>2. CASE t \in s.sent[1].topics
    <3>1. s.sent[1].subscribes <=> t \in wanted
      BY <1>4, <2>1, <2>2 DEF WillHave, Decides
    <3>2. QED
      BY <3>1, <2>2
  <2>3. CASE t \notin s.sent[1].topics
    <3>1. Unmentioned(t, s.sent)
      BY <1>1, <1>2, <2>1, <2>3 DEF Unmentioned
    <3>2. QED
      BY <3>1, <2>3 DEF WillHave
  <2>4. QED
    BY <2>2, <2>3
<1>10. QED
  BY <1>3, <1>8, <1>9 DEF WillHave, handled
-----------------------------------------------------------------------------
(* new differs from the sockets in their states at most, and opens none. *)
Kept(new) ==
  \A i \in 1 .. MaxSockets :
    /\ new[i].sent = socket[i].sent /\ new[i].subs = socket[i].subs
    /\ new[i].state = "none" <=> socket[i].state = "none"
    /\ new[i].state = "connecting" => socket[i].state = "connecting"
    /\ new[i].state = "open" => socket[i].state = "open"

LEMMA KeptSame == ASSUME SocketIInv PROVE Kept(socket)
BY DEF Kept

LEMMA KeptClosing ==
  ASSUME SocketIInv, NEW i \in 1 .. MaxSockets
  PROVE  Kept(Closing(socket, i)) /\ Closing(socket, i) \in [1 .. MaxSockets -> SocketRows]
<1>1. socket[i] \in SocketRows
  BY DEF SocketIInv, SocketTypes
<1>2. CASE i \in Alive
  <2>1. Closing(socket, i) = [socket EXCEPT ![i] = [@ EXCEPT !.state = "closing"]]
    BY <1>2 DEF Closing
  <2>2. [socket[i] EXCEPT !.state = "closing"] \in SocketRows
    BY <1>1 DEF SocketRows
  <2>3. QED
    BY <1>1, <1>2, <2>1, <2>2 DEF SocketIInv, SocketTypes, Kept, Alive, Made, SocketRows
<1>3. CASE i \notin Alive
  BY <1>3, KeptSame DEF Closing, SocketIInv, SocketTypes
<1>4. QED
  BY <1>2, <1>3

LEMMA KeptInv ==
  ASSUME SocketIInv, Kept(socket'), topics' = topics, current' \in {0, current}
  PROVE  Numbered' /\ Promised'
<1>1. Numbered'
  <2>1. \E k \in 0 .. MaxSockets : \A i \in 1 .. MaxSockets : socket'[i].state = "none" <=> i > k
    BY DEF SocketIInv, Numbered, Kept
  <2>2. \A i \in 1 .. MaxSockets : socket'[i].state \in {"none", "connecting"} =>
          socket'[i].sent = <<>> /\ socket'[i].subs = {}
    BY DEF SocketIInv, Numbered, Kept
  <2>3. current' # 0 => socket'[current'].state # "none"
    BY DEF SocketIInv, SocketTypes, Numbered, Kept
  <2>4. QED
    BY <2>1, <2>2, <2>3 DEF Numbered
<1>2. ASSUME current' # 0, socket'[current'].state = "open", NEW t \in Topics
      PROVE  WillHave(t, socket'[current'], topics')
  <2>1. current' = current /\ current \in 1 .. MaxSockets
    BY <1>2 DEF SocketIInv, SocketTypes
  <2>2. socket[current].state = "open" /\ socket'[current].sent = socket[current].sent
        /\ socket'[current].subs = socket[current].subs
    BY <1>2, <2>1 DEF Kept
  <2>3. WillHave(t, socket[current], topics)
    BY <1>2, <2>1, <2>2 DEF SocketIInv, Promised
  <2>4. QED
    BY <2>1, <2>2, <2>3 DEF WillHave
<1>3. QED
  BY <1>1, <1>2 DEF Promised

(* The number of the next socket is the one after those that were made.    *)
LEMMA NextNumber ==
  ASSUME SocketIInv
  PROVE  /\ Cardinality(Made) \in Nat
         /\ \A i \in 1 .. MaxSockets : socket[i].state = "none" <=> i > Cardinality(Made)
<1>1. PICK k \in 0 .. MaxSockets : \A i \in 1 .. MaxSockets : socket[i].state = "none" <=> i > k
  BY DEF SocketIInv, Numbered
<1>2. Made = 1 .. k
  BY <1>1, SocketsAssumption DEF Made
<1>3. Cardinality(1 .. k) = k
  BY <1>1, FS_Interval, SocketsAssumption
<1>4. QED
  BY <1>1, <1>2, <1>3, SocketsAssumption

LEMMA OpensInv ==
  ASSUME SocketIInv, NEW sockets \in [1 .. MaxSockets -> SocketRows], Kept(sockets),
         NEW t \in Nat, Opens(sockets, t), topics' = topics
  PROVE  /\ current' \in 0 .. MaxSockets /\ socket' \in [1 .. MaxSockets -> SocketRows]
         /\ Numbered' /\ Promised'
<1> DEFINE i == Cardinality(Made) + 1
<1>1. i \in 1 .. MaxSockets
  BY NextNumber, SocketsAssumption DEF Opens
<1>2. current' = i
  BY DEF Opens
<1>3. socket' = [sockets EXCEPT ![i] = [sockets[i] EXCEPT !.state = "connecting", !.ticket = t]]
  BY <1>1 DEF Opens
<1>4. [sockets[i] EXCEPT !.state = "connecting", !.ticket = t] \in SocketRows
  BY <1>1 DEF SocketRows
<1>5. socket' \in [1 .. MaxSockets -> SocketRows]
  BY <1>1, <1>3, <1>4
<1>6. \A j \in 1 .. MaxSockets : socket[j].state = "none" <=> j > i - 1
  BY NextNumber
<1>7. /\ socket'[i].state = "connecting" /\ socket'[i].sent = sockets[i].sent
      /\ socket'[i].subs = sockets[i].subs
      /\ \A j \in 1 .. MaxSockets : j # i => socket'[j] = sockets[j]
  BY <1>1, <1>3 DEF SocketRows
<1> HIDE DEF i
<1>8. socket[i].sent = <<>> /\ socket[i].subs = {}
  BY <1>1, <1>6 DEF SocketIInv, Numbered
<1>9. \A j \in 1 .. MaxSockets : socket'[j].state = "none" <=> j > i
  BY <1>1, <1>6, <1>7 DEF Kept
<1>10. \A j \in 1 .. MaxSockets :
         socket'[j].state \in {"none", "connecting"} => socket'[j].sent = <<>> /\ socket'[j].subs = {}
  <2> TAKE j \in 1 .. MaxSockets
  <2>1. CASE j = i
    BY <1>1, <1>7, <1>8, <2>1 DEF Kept
  <2>2. CASE j # i
    BY <1>7, <2>2 DEF Kept, SocketIInv, Numbered
  <2>3. QED
    BY <2>1, <2>2
<1>11. Numbered'
  BY <1>1, <1>2, <1>7, <1>9, <1>10 DEF Numbered
<1>12. Promised'
  BY <1>2, <1>7 DEF Promised
<1>13. QED
  BY <1>1, <1>2, <1>5, <1>11, <1>12

(* A message is added to what the current socket sends. *)
LEMMA SendsInv ==
  ASSUME SocketIInv, NEW message \in Messages, current \in 1 .. MaxSockets,
         socket[current].state \in {"open", "deaf"},
         socket' = [socket EXCEPT ![current].sent = Append(@, message)],
         current' = current, topics' \in SUBSET Topics,
         \A t \in Topics : IF t \in message.topics THEN t \in topics' <=> message.subscribes
                           ELSE t \in topics' <=> t \in topics
  PROVE  socket' \in [1 .. MaxSockets -> SocketRows] /\ Numbered' /\ Promised'
<1> DEFINE new == [socket[current] EXCEPT !.sent = Append(@, message)]
<1>1. socket[current] \in SocketRows
  BY DEF SocketIInv, SocketTypes
<1>2. socket' = [socket EXCEPT ![current] = new]
  OBVIOUS
<1>3. new \in SocketRows /\ new.state = socket[current].state
  <2>1. Append(socket[current].sent, message) \in Seq(Messages)
    BY <1>1 DEF SocketRows
  <2>2. QED
    BY <1>1, <2>1 DEF SocketRows
<1>4. ASSUME NEW t \in Topics, socket[current].state = "open"
      PROVE  WillHave(t, new, topics')
  <2>1. WillHave(t, socket[current], topics)
    BY <1>4 DEF SocketIInv, Promised
  <2>2. IF t \in message.topics THEN t \in topics' <=> message.subscribes
        ELSE t \in topics' <=> t \in topics
    OBVIOUS
  <2>3. QED
    BY <1>1, <2>1, <2>2, WillHaveAppended
<1> HIDE DEF new
<1>5. socket' \in [1 .. MaxSockets -> SocketRows] /\ socket'[current] = new
      /\ \A j \in 1 .. MaxSockets : j # current => socket'[j] = socket[j]
  BY <1>2, <1>3 DEF SocketIInv, SocketTypes
<1>6. Numbered'
  BY <1>3, <1>5 DEF SocketIInv, SocketTypes, Numbered
<1>7. Promised'
  BY <1>3, <1>4, <1>5 DEF Promised
<1>8. QED
  BY <1>5, <1>6, <1>7
-----------------------------------------------------------------------------
LEMMA InitSocketIInv == SocketInit => SocketIInv
<1> SUFFICES ASSUME SocketInit
             PROVE  SocketIInv
  OBVIOUS
<1>1. NoSocket \in SocketRows
  BY DEF NoSocket, SocketRows
<1>2. SocketTypes
  BY <1>1, SocketsAssumption DEF SocketInit, SocketTypes
<1>3. \A i \in 1 .. MaxSockets : socket[i] = NoSocket
  BY DEF SocketInit
<1>4. Numbered
  <2>1. \A i \in 1 .. MaxSockets : socket[i].state = "none" <=> i > 0
    BY <1>3 DEF NoSocket
  <2>2. QED
    BY <1>3, <2>1, SocketsAssumption DEF SocketInit, Numbered, NoSocket
<1>5. Promised
  BY DEF SocketInit, Promised
<1>6. QED
  BY <1>2, <1>4, <1>5 DEF SocketIInv

(* The actions of the client. *)
LEMMA ClientSteps ==
  ASSUME SocketIInv,
         Connect \/ Close \/ Reconnect \/ PongTimeout \/
           \E topic \in Topics : Subscribe(topic) \/ Unsubscribe(topic)
  PROVE  SocketIInv'
<1>1. CASE Connect
  <2>1. PICK t \in {tickets + 1} \cup {s \in {tickets} : s # 0 /\ s \notin expired} :
          /\ tickets' = t /\ topics' = topics
          /\ \/ UNCHANGED <<current, ticket, socket>>
             \/ /\ ticket' = t
                /\ Opens(IF current = 0 THEN socket ELSE Closing(socket, current), t)
    BY <1>1 DEF Connect
  <2>2. t \in Nat
    BY DEF SocketIInv, SocketTypes
  <2>3. CASE UNCHANGED <<current, ticket, socket>>
    BY <2>1, <2>2, <2>3, KeptSame, KeptInv DEF SocketIInv, SocketTypes
  <2>4. CASE /\ ticket' = t
             /\ Opens(IF current = 0 THEN socket ELSE Closing(socket, current), t)
    <3> DEFINE sockets == IF current = 0 THEN socket ELSE Closing(socket, current)
    <3>1. sockets \in [1 .. MaxSockets -> SocketRows] /\ Kept(sockets)
      <4>1. CASE current = 0
        BY <4>1, KeptSame DEF SocketIInv, SocketTypes
      <4>2. CASE current \in 1 .. MaxSockets
        BY <4>2, KeptClosing
      <4>3. QED
        BY <4>1, <4>2 DEF SocketIInv, SocketTypes
    <3>2. Opens(sockets, t)
      BY <2>4
    <3> HIDE DEF sockets
    <3>3. QED
      BY <2>1, <2>2, <2>4, <3>1, <3>2, OpensInv DEF SocketIInv, SocketTypes
  <2>5. QED
    BY <2>1, <2>3, <2>4
<1>2. CASE Close
  <2>1. /\ current' = 0 /\ UNCHANGED <<ticket, topics, tickets>>
        /\ socket' = IF current = 0 THEN socket ELSE Closing(socket, current)
    BY <1>2 DEF Close
  <2>2. socket' \in [1 .. MaxSockets -> SocketRows] /\ Kept(socket')
    <3>1. CASE current = 0
      BY <2>1, <3>1, KeptSame DEF SocketIInv, SocketTypes
    <3>2. CASE current \in 1 .. MaxSockets
      BY <2>1, <3>2, KeptClosing
    <3>3. QED
      BY <3>1, <3>2 DEF SocketIInv, SocketTypes
  <2>3. QED
    BY <2>1, <2>2, KeptInv, SocketsAssumption DEF SocketIInv, SocketTypes
<1>3. CASE Reconnect
  <2>1. Opens(socket, ticket) /\ UNCHANGED <<ticket, topics, tickets>>
    BY <1>3 DEF Reconnect
  <2>2. socket \in [1 .. MaxSockets -> SocketRows] /\ ticket \in Nat
    BY DEF SocketIInv, SocketTypes
  <2>3. QED
    BY <2>1, <2>2, KeptSame, OpensInv DEF SocketIInv, SocketTypes
<1>4. CASE PongTimeout
  <2>1. /\ UNCHANGED <<current, ticket, topics, tickets>>
        /\ current \in 1 .. MaxSockets /\ socket' = Closing(socket, current)
    BY <1>4 DEF PongTimeout, clientVars, SocketIInv, SocketTypes
  <2>2. QED
    BY <2>1, KeptClosing, KeptInv DEF SocketIInv, SocketTypes
<1>5. ASSUME NEW topic \in Topics, Subscribe(topic) \/ Unsubscribe(topic)
      PROVE  SocketIInv'
  <2> DEFINE message == [subscribes |-> Subscribe(topic), topics |-> {topic}]
  <2>1. PICK b \in BOOLEAN :
          /\ socket' = Sends(socket, [subscribes |-> b, topics |-> {topic}])
          /\ topics' = IF b THEN topics \cup {topic} ELSE topics \ {topic}
          /\ UNCHANGED <<current, ticket, tickets>>
    <3>1. CASE Subscribe(topic)
      <4>1. /\ socket' = Sends(socket, [subscribes |-> TRUE, topics |-> {topic}])
            /\ topics' = topics \cup {topic} /\ UNCHANGED <<current, ticket, tickets>>
        BY <3>1 DEF Subscribe
      <4>2. QED
        BY <4>1
    <3>2. CASE Unsubscribe(topic)
      <4>1. /\ socket' = Sends(socket, [subscribes |-> FALSE, topics |-> {topic}])
            /\ topics' = topics \ {topic} /\ UNCHANGED <<current, ticket, tickets>>
        BY <3>2 DEF Unsubscribe
      <4>2. QED
        BY <4>1
    <3>3. QED
      BY <1>5, <3>1, <3>2
  <2> DEFINE m == [subscribes |-> b, topics |-> {topic}]
  <2>2. m \in Messages /\ m.subscribes = b /\ m.topics = {topic}
    BY DEF Messages
  <2>3. topics' \in SUBSET Topics
    BY <2>1 DEF SocketIInv, SocketTypes
  <2>4. CASE IsOpen
    <3>1. socket' = [socket EXCEPT ![current].sent = Append(@, m)]
      BY <2>1, <2>4 DEF Sends
    <3>2. current \in 1 .. MaxSockets /\ socket[current].state \in {"open", "deaf"}
      BY <2>4 DEF IsOpen, SocketIInv, SocketTypes
    <3>3. \A t \in Topics : IF t \in m.topics THEN t \in topics' <=> m.subscribes
                            ELSE t \in topics' <=> t \in topics
      BY <2>1, <2>2
    <3> HIDE DEF m
    <3>4. socket' \in [1 .. MaxSockets -> SocketRows] /\ Numbered' /\ Promised'
      BY <2>1, <2>2, <2>3, <3>1, <3>2, <3>3, SendsInv
    <3>5. QED
      BY <2>1, <2>3, <3>4 DEF SocketIInv, SocketTypes
  <2>5. CASE ~IsOpen
    <3>1. socket' = socket
      BY <2>1, <2>5 DEF Sends
    <3>2. current # 0 => socket[current].state # "open"
      BY <2>5 DEF IsOpen
    <3>3. QED
      BY <2>1, <2>3, <3>1, <3>2 DEF SocketIInv, SocketTypes, Numbered, Promised
  <2>6. QED
    BY <2>4, <2>5
<1>6. QED
  BY <1>1, <1>2, <1>3, <1>4, <1>5

(* A socket opens: the current one had sent nothing, and subscribes again. *)
LEMMA OpenedInv ==
  ASSUME SocketIInv, NEW i \in Made, OnOpen(i)
  PROVE  SocketIInv'
<1> DEFINE opened == [socket EXCEPT ![i].state = "open"]
<1>1. /\ socket[i].state = "connecting" /\ UNCHANGED <<current, ticket, topics, tickets>>
      /\ socket' = Resubscribed(opened) /\ i \in 1 .. MaxSockets /\ socket[i] \in SocketRows
  BY DEF OnOpen, Made, SocketIInv, SocketTypes
<1>2. opened = [socket EXCEPT ![i] = [socket[i] EXCEPT !.state = "open"]]
  OBVIOUS
<1>3. [socket[i] EXCEPT !.state = "open"] \in SocketRows
  BY <1>1 DEF SocketRows
<1>4. /\ opened \in [1 .. MaxSockets -> SocketRows]
      /\ opened[i].state = "open" /\ opened[i].sent = <<>> /\ opened[i].subs = {}
      /\ \A j \in 1 .. MaxSockets : j # i => opened[j] = socket[j]
  BY <1>1, <1>2, <1>3 DEF SocketIInv, SocketTypes, Numbered, SocketRows
<1> HIDE DEF opened
<1>5. current \in 0 .. MaxSockets /\ topics \in SUBSET Topics
  BY DEF SocketIInv, SocketTypes
<1>6. ASSUME current \in 1 .. MaxSockets, topics = {}
      PROVE  opened[current].state = "open" => \A t \in Topics : WillHave(t, opened[current], topics)
  <2>1. CASE current = i
    BY <1>4, <1>6, <2>1 DEF WillHave
  <2>2. CASE current # i
    BY <1>4, <1>6, <2>2 DEF SocketIInv, Promised
  <2>3. QED
    BY <2>1, <2>2
<1>7. CASE topics # {} /\ current # 0 /\ opened[current].state \in {"open", "deaf"}
  <2> DEFINE message == [subscribes |-> TRUE, topics |-> topics]
             new == [opened[current] EXCEPT !.sent = Append(@, message)]
  <2>1. current \in 1 .. MaxSockets /\ opened[current] \in SocketRows
    BY <1>4, <1>5, <1>7
  <2>2. socket' = [opened EXCEPT ![current] = new]
    BY <1>1, <1>7 DEF Resubscribed
  <2>3. message \in Messages /\ message.subscribes = TRUE /\ message.topics = topics
    BY <1>5 DEF Messages
  <2> HIDE DEF message
  <2>4. new \in SocketRows /\ new.state = opened[current].state
    <3>1. Append(opened[current].sent, message) \in Seq(Messages)
      BY <2>1, <2>3 DEF SocketRows
    <3>2. QED
      BY <2>1, <3>1 DEF SocketRows
  <2>5. ASSUME opened[current].state = "open", NEW t \in Topics
        PROVE  WillHave(t, new, topics)
    <3>1. PICK before \in SUBSET topics : WillHave(t, opened[current], before)
      <4>1. CASE current = i
        <5>1. WillHave(t, opened[current], {})
          BY <1>4, <4>1 DEF WillHave
        <5>2. QED
          BY <4>1, <5>1
      <4>2. CASE current # i
        <5>1. WillHave(t, opened[current], topics)
          BY <1>4, <2>1, <2>5, <4>2 DEF SocketIInv, Promised
        <5>2. QED
          BY <5>1
      <4>3. QED
        BY <4>1, <4>2
    <3>2. CASE t \in topics
      BY <2>1, <2>3, <3>1, <3>2, WillHaveAppended
    <3>3. CASE t \notin topics
      BY <2>1, <2>3, <3>1, <3>3, WillHaveAppended
    <3>4. QED
      BY <3>2, <3>3
  <2> HIDE DEF new
  <2>6. /\ socket' \in [1 .. MaxSockets -> SocketRows] /\ socket'[current] = new
        /\ \A j \in 1 .. MaxSockets : j # current => socket'[j] = opened[j]
    BY <1>4, <2>1, <2>2, <2>4
  <2>7. Numbered'
    <3>1. \A j \in 1 .. MaxSockets : socket'[j].state = opened[j].state
      BY <2>1, <2>4, <2>6
    <3>2. \A j \in 1 .. MaxSockets : opened[j].state = "none" <=> socket[j].state = "none"
      BY <1>1, <1>4
    <3>3. \E k \in 0 .. MaxSockets : \A j \in 1 .. MaxSockets : socket'[j].state = "none" <=> j > k
      BY <3>1, <3>2 DEF SocketIInv, Numbered
    <3>4. \A j \in 1 .. MaxSockets : socket'[j].state \in {"none", "connecting"} =>
            socket'[j] = socket[j]
      BY <1>4, <1>7, <2>1, <2>6, <3>1
    <3>5. QED
      BY <1>1, <1>7, <2>1, <3>1, <3>3, <3>4 DEF SocketIInv, Numbered
  <2>8. Promised'
    BY <1>1, <2>4, <2>5, <2>6 DEF Promised
  <2>9. QED
    BY <1>1, <1>5, <2>6, <2>7, <2>8 DEF SocketIInv, SocketTypes
<1>8. CASE ~(topics # {} /\ current # 0 /\ opened[current].state \in {"open", "deaf"})
  <2>1. socket' = opened
    BY <1>1, <1>8 DEF Resubscribed
  <2>2. Numbered'
    <3>1. \A j \in 1 .. MaxSockets : opened[j].state = "none" <=> socket[j].state = "none"
      BY <1>1, <1>4
    <3>2. \E k \in 0 .. MaxSockets : \A j \in 1 .. MaxSockets : opened[j].state = "none" <=> j > k
      BY <3>1 DEF SocketIInv, Numbered
    <3>3. \A j \in 1 .. MaxSockets : opened[j].state \in {"none", "connecting"} =>
            opened[j] = socket[j]
      BY <1>4
    <3>4. current # 0 => opened[current].state # "none"
      BY <1>5, <3>1 DEF SocketIInv, Numbered
    <3>5. QED
      BY <1>1, <2>1, <3>2, <3>3, <3>4 DEF SocketIInv, Numbered
  <2>3. Promised'
    BY <1>1, <1>5, <1>6, <1>8, <2>1 DEF Promised
  <2>4. QED
    BY <1>1, <1>4, <1>5, <2>1, <2>2, <2>3 DEF SocketIInv, SocketTypes
<1>9. QED
  BY <1>7, <1>8

(* The actions of the server and of the network. *)
LEMMA ServerSteps ==
  ASSUME SocketIInv,
         \/ \E i \in Made : OnClose(i) \/ Verify(i) \/ Handle(i) \/ Break(i)
         \/ \E t \in 1 .. tickets : Expire(t)
  PROVE  SocketIInv'
<1>1. ASSUME NEW i \in Made, OnClose(i) \/ Verify(i) \/ Break(i)
      PROVE  SocketIInv'
  <2>1. i \in 1 .. MaxSockets /\ socket[i] \in SocketRows /\ socket[i].state # "none"
    BY DEF Made, SocketIInv, SocketTypes
  <2>2. UNCHANGED <<ticket, topics, tickets>> /\ current' \in {0, current}
    BY <1>1 DEF OnClose, Verify, Break, clientVars
  <2>3. PICK new \in SocketRows :
          /\ socket' = [socket EXCEPT ![i] = new]
          /\ new.sent = socket[i].sent /\ new.subs = socket[i].subs
          /\ new.state \notin {"none", "connecting"}
          /\ new.state = "open" => socket[i].state = "open"
    <3>1. CASE OnClose(i)
      <4>1. socket' = [socket EXCEPT ![i] = [socket[i] EXCEPT !.state = "closed"]]
        BY <3>1 DEF OnClose
      <4> DEFINE rec == [socket[i] EXCEPT !.state = "closed"]
      <4>2. /\ rec \in SocketRows /\ rec.sent = socket[i].sent /\ rec.subs = socket[i].subs
            /\ rec.state = "closed"
        BY <2>1 DEF SocketRows
      <4> HIDE DEF rec
      <4>3. QED
        BY <4>1, <4>2 DEF rec
    <3>2. CASE Verify(i)
      <4>1. CASE socket[i].ticket \in expired
        <5>1. socket' = [socket EXCEPT ![i] =
                [socket[i] EXCEPT !.state = "closing", !.code = AuthCode]]
          BY <3>2, <4>1 DEF Verify
        <5> DEFINE rec == [socket[i] EXCEPT !.state = "closing", !.code = AuthCode]
        <5>2. /\ rec \in SocketRows /\ rec.sent = socket[i].sent /\ rec.subs = socket[i].subs
              /\ rec.state = "closing"
          BY <2>1 DEF SocketRows
        <5> HIDE DEF rec
        <5>3. QED
          BY <5>1, <5>2 DEF rec
      <4>2. CASE socket[i].ticket \notin expired
        <5>1. socket' = [socket EXCEPT ![i] = [socket[i] EXCEPT !.verified = TRUE]]
              /\ socket[i].state = "open"
          BY <3>2, <4>2 DEF Verify
        <5> DEFINE rec == [socket[i] EXCEPT !.verified = TRUE]
        <5>2. /\ rec \in SocketRows /\ rec.sent = socket[i].sent /\ rec.subs = socket[i].subs
              /\ rec.state = socket[i].state
          BY <2>1 DEF SocketRows
        <5> HIDE DEF rec
        <5>3. QED
          BY <2>1, <5>1, <5>2 DEF rec
      <4>3. QED
        BY <4>1, <4>2
    <3>3. CASE Break(i)
      <4>1. PICK state \in {"closing", "deaf"} :
              socket' = [socket EXCEPT ![i] = [socket[i] EXCEPT !.state = state]]
        BY <3>3 DEF Break
      <4> DEFINE rec == [socket[i] EXCEPT !.state = state]
      <4>2. /\ rec \in SocketRows /\ rec.sent = socket[i].sent /\ rec.subs = socket[i].subs
            /\ rec.state = state
        BY <2>1 DEF SocketRows
      <4> HIDE DEF rec
      <4>3. QED
        BY <4>1, <4>2 DEF rec
    <3>4. QED
      BY <1>1, <3>1, <3>2, <3>3
  <2>4. socket' \in [1 .. MaxSockets -> SocketRows]
    BY <2>1, <2>3 DEF SocketIInv, SocketTypes
  <2>5. Kept(socket')
    BY <2>1, <2>3 DEF Kept, SocketIInv, SocketTypes
  <2>6. QED
    BY <2>2, <2>4, <2>5, KeptInv, SocketsAssumption DEF SocketIInv, SocketTypes
<1>2. ASSUME NEW i \in Made, Handle(i)
      PROVE  SocketIInv'
  <2> DEFINE m == Head(socket[i].sent)
             new == [socket[i] EXCEPT !.sent = Tail(@),
                       !.subs = IF m.subscribes THEN @ \cup m.topics ELSE @ \ m.topics]
  <2>1. /\ i \in 1 .. MaxSockets /\ socket[i] \in SocketRows
        /\ socket[i].state = "open" /\ socket[i].sent # <<>>
        /\ UNCHANGED <<current, ticket, topics, tickets>>
    BY <1>2 DEF Made, SocketIInv, SocketTypes, Handle, clientVars
  <2>2. socket' = [socket EXCEPT ![i] = new]
    BY <1>2 DEF Handle
  <2>3. new \in SocketRows /\ new.state = "open"
    <3>1. socket[i].sent \in Seq(Messages) /\ socket[i].subs \in SUBSET Topics
      BY <2>1 DEF SocketRows
    <3>2. Tail(socket[i].sent) \in Seq(Messages) /\ m \in Messages
      BY <2>1, <3>1
    <3>3. m.topics \in SUBSET Topics
      BY <3>2 DEF Messages
    <3> HIDE DEF m
    <3>4. (IF m.subscribes THEN socket[i].subs \cup m.topics ELSE socket[i].subs \ m.topics)
            \in SUBSET Topics
      BY <3>1, <3>3
    <3>5. QED
      BY <2>1, <3>2, <3>4 DEF SocketRows
  <2>4. \A t \in Topics : WillHave(t, socket[i], topics) => WillHave(t, new, topics)
    BY <2>1, WillHaveHandled
  <2> HIDE DEF new
  <2>5. /\ socket' \in [1 .. MaxSockets -> SocketRows] /\ socket'[i] = new
        /\ \A j \in 1 .. MaxSockets : j # i => socket'[j] = socket[j]
    BY <2>1, <2>2, <2>3 DEF SocketIInv, SocketTypes
  <2>6. Numbered'
    <3>1. \A j \in 1 .. MaxSockets : socket'[j].state = socket[j].state
      BY <2>1, <2>3, <2>5
    <3>2. \A j \in 1 .. MaxSockets :
            socket'[j].state \in {"none", "connecting"} => socket'[j] = socket[j]
      BY <2>3, <2>5
    <3>3. \E k \in 0 .. MaxSockets : \A j \in 1 .. MaxSockets : socket'[j].state = "none" <=> j > k
      BY <3>1 DEF SocketIInv, Numbered
    <3>4. current \in 0 .. MaxSockets
      BY DEF SocketIInv, SocketTypes
    <3>5. \A j \in 1 .. MaxSockets : socket'[j].state \in {"none", "connecting"} =>
            socket'[j].sent = <<>> /\ socket'[j].subs = {}
      BY <3>1, <3>2 DEF SocketIInv, Numbered
    <3>6. current' # 0 => socket'[current'].state # "none"
      BY <2>1, <3>1, <3>4 DEF SocketIInv, Numbered
    <3>7. QED
      BY <3>3, <3>5, <3>6 DEF Numbered
  <2>7. Promised'
    <3>1. current \in 0 .. MaxSockets
      BY DEF SocketIInv, SocketTypes
    <3>2. CASE current = i
      BY <2>1, <2>4, <2>5, <3>2 DEF SocketIInv, Promised
    <3>3. CASE current # i
      BY <2>1, <2>5, <3>1, <3>3 DEF SocketIInv, Promised
    <3>4. QED
      BY <3>2, <3>3
  <2>8. QED
    BY <2>1, <2>5, <2>6, <2>7 DEF SocketIInv, SocketTypes
<1>3. ASSUME NEW t \in 1 .. tickets, Expire(t)
      PROVE  SocketIInv'
  BY <1>3, KeptSame, KeptInv DEF Expire, clientVars, SocketIInv, SocketTypes
<1>4. QED
  BY <1>1, <1>2, <1>3

(* However often connections are lost and made again, once the server has  *)
(* handled what the current socket sent, it has exactly the topics that    *)
(* the pages want (onopen of marketSocket.ts subscribes again).            *)
THEOREM TopicsRestoredCorrect == SocketSpec => []TopicsRestored
<1>1. SocketIInv /\ [SocketNext]_socketVars => SocketIInv'
  <2> SUFFICES ASSUME SocketIInv, [SocketNext]_socketVars
               PROVE  SocketIInv'
    OBVIOUS
  <2>1. CASE UNCHANGED socketVars
    BY <2>1, KeptSame, KeptInv DEF socketVars, SocketIInv, SocketTypes
  <2>2. CASE \/ Connect \/ Close \/ Reconnect \/ PongTimeout
             \/ \E topic \in Topics : Subscribe(topic) \/ Unsubscribe(topic)
    BY <2>2, ClientSteps
  <2>3. CASE \E i \in Made : OnOpen(i)
    BY <2>3, OpenedInv
  <2>4. CASE \/ \E i \in Made : OnClose(i) \/ Verify(i) \/ Handle(i) \/ Break(i)
             \/ \E t \in 1 .. tickets : Expire(t)
    BY <2>4, ServerSteps
  <2>5. QED
    BY <2>1, <2>2, <2>3, <2>4 DEF SocketNext
<1>2. SocketIInv => TopicsRestored
  <2> SUFFICES ASSUME SocketIInv, current # 0, socket[current].state = "open",
                      socket[current].sent = <<>>
               PROVE  socket[current].subs = topics
    BY DEF TopicsRestored
  <2>1. \A t \in Topics : t \in socket[current].subs <=> t \in topics
    BY DEF SocketIInv, Promised, WillHave, Unmentioned
  <2>2. socket[current].subs \in SUBSET Topics /\ topics \in SUBSET Topics
    BY DEF SocketIInv, SocketTypes, SocketRows
  <2>3. QED
    BY <2>1, <2>2
<1>3. QED
  BY <1>1, <1>2, InitSocketIInv, PTL DEF SocketSpec
-----------------------------------------------------------------------------
(* The panel (ChatPanel).  A generation belongs to one call at most; the   *)
(* load that is current is the choice the user made last, and the load of  *)
(* the page when it opens is current only until the user does something.   *)
PanelSessions == Stored \cup Fresh \cup {None}
PanelPcs   == {"idle", "list", "detail", "consent", "asked", "stream", "stored", "done"}
PanelCalls == [kind : {"none", "mount", "load", "send", "report", "remove", "toggle"}, pc : PanelPcs,
               gen : Nat, session : PanelSessions, sidThen : PanelSessions]

PanelTypes ==
  /\ generation \in Nat \ {0} /\ interacted \in BOOLEAN
  /\ call \in [Calls -> PanelCalls]
  /\ server \subseteq PanelSessions /\ sid \in PanelSessions

OneCurrent ==
  /\ \A c \in Calls : call[c].gen <= generation
  /\ \A c, d \in Calls : call[c].gen = call[d].gen => call[c].gen = 0 \/ c = d

UntilFirstChoice ==
  /\ generation = 1 <=> ~interacted
  /\ \A c \in Calls : /\ call[c].kind = "mount" => call[c].gen = 1
                      /\ call[c].kind = "load"  => call[c].gen > 1
                      /\ call[c].pc = "consent" => call[c].kind \in {"mount", "load"}
                      /\ call[c].pc = "idle"    => call[c].gen = 0

LoadIsChoice ==
  \A c \in Calls :
    call[c].kind = "load" /\ call[c].gen = generation /\ call[c].pc \in {"detail", "consent"} =>
      chosen = call[c].session

PanelIInv == PanelTypes /\ OneCurrent /\ UntilFirstChoice /\ LoadIsChoice
-----------------------------------------------------------------------------
LEMMA PanelInit == Panel!Init => PanelIInv
<1> SUFFICES ASSUME Panel!Init PROVE PanelIInv
  OBVIOUS
<1>1. /\ call = [c \in Calls |->
                  IF c # Panel!Mount THEN Panel!Free
                  ELSE [kind |-> "mount", pc |-> "list", gen |-> 1, session |-> None, sidThen |-> None]]
      /\ generation = 1 /\ interacted = FALSE /\ server = Stored /\ sid = None
  BY Zenon DEF Panel!Init
<1>2. Panel!Free \in PanelCalls /\ Panel!Free.kind = "none" /\ Panel!Free.pc = "idle" /\ Panel!Free.gen = 0
  BY DEF Panel!Free, PanelCalls, PanelPcs, PanelSessions
<1>3. [kind |-> "mount", pc |-> "list", gen |-> 1, session |-> None, sidThen |-> None] \in PanelCalls
  BY DEF PanelCalls, PanelPcs, PanelSessions
<1>6. call \in [Calls -> PanelCalls]
  BY <1>1, <1>2, <1>3
<1>9. generation = 1 /\ interacted = FALSE
  BY DEF Panel!Init
<1>10. generation \in Nat \ {0}
  BY <1>9
<1>7. generation \in Nat \ {0} /\ interacted \in BOOLEAN
  BY <1>9, <1>10, Zenon
<1>8. server \subseteq PanelSessions /\ sid \in PanelSessions
  BY <1>1 DEF PanelSessions
<1>4. PanelTypes
  BY <1>6, <1>7, <1>8 DEF PanelTypes
<1>5. \A c \in Calls : \/ call[c].kind = "none" /\ call[c].pc = "idle" /\ call[c].gen = 0
                       \/ call[c].kind = "mount" /\ call[c].pc = "list" /\ call[c].gen = 1 /\ c = Panel!Mount
  BY <1>1, <1>2
<1> QED  BY <1>1, <1>4, <1>5 DEF PanelIInv, OneCurrent, UntilFirstChoice, LoadIsChoice

(* A call goes on: what it was made for stays, and if it is a load or the  *)
(* first one it names the session it found.                                *)
LEMMA CallMoves ==
  ASSUME PanelIInv, NEW c \in Calls, NEW new \in PanelCalls, call' = [call EXCEPT ![c] = new],
         new.kind = call[c].kind, new.gen = call[c].gen, call[c].pc # "idle", new.pc # "idle",
         new.kind = "load" => new.session = call[c].session /\ call[c].pc \in {"detail", "consent"},
         new.pc = "consent" => new.kind \in {"mount", "load"},
         server' \subseteq PanelSessions, sid' \in PanelSessions,
         UNCHANGED <<generation, interacted>>,
         chosen' # chosen =>
           \A d \in Calls : call[d].gen = generation /\ call[d].kind = "load" => new.pc = "done" /\ d = c
  PROVE  PanelIInv'
<1>1. call'[c] = new /\ \A d \in Calls \ {c} : call'[d] = call[d]
  BY DEF PanelIInv, PanelTypes
<1>2. PanelTypes'
  BY DEF PanelIInv, PanelTypes
<1>3. OneCurrent' /\ UntilFirstChoice'
  BY <1>1 DEF PanelIInv, OneCurrent, UntilFirstChoice
<1>4. LoadIsChoice'
  BY <1>1 DEF PanelIInv, LoadIsChoice
<1> QED  BY <1>2, <1>3, <1>4 DEF PanelIInv

(* A call begins, with a generation of its own or none. *)
LEMMA CallBegins ==
  ASSUME PanelIInv, NEW c \in Calls, NEW new \in PanelCalls, call' = [call EXCEPT ![c] = new],
         call[c].pc = "idle", new.pc \in {"detail", "asked"}, new.kind \notin {"none", "mount"},
         \/ new.gen = generation + 1 /\ generation' = generation + 1 /\ interacted' = TRUE
         \/ new.gen = 0 /\ new.kind # "load" /\ UNCHANGED <<generation, interacted, chosen>>,
         new.kind = "load" => chosen' = new.session,
         UNCHANGED <<server, sid>>
  PROVE  PanelIInv'
<1>1. call'[c] = new /\ \A d \in Calls \ {c} : call'[d] = call[d]
  BY DEF PanelIInv, PanelTypes
<1>7. call' \in [Calls -> PanelCalls]
  BY DEF PanelIInv, PanelTypes
<1>8. generation \in Nat \ {0} /\ interacted \in BOOLEAN
  BY DEF PanelIInv, PanelTypes
<1>9. generation' \in Nat \ {0} /\ interacted' \in BOOLEAN
  <2>1. CASE generation' = generation + 1 /\ interacted' = TRUE
    BY <1>8, <2>1
  <2>2. CASE UNCHANGED <<generation, interacted>>
    BY <1>8, <2>2
  <2> QED  BY <2>1, <2>2
<1>2. PanelTypes'
  BY <1>7, <1>9 DEF PanelIInv, PanelTypes
<1>3. generation \in Nat \ {0} /\ \A d \in Calls : call[d].gen \in Nat
  BY DEF PanelIInv, PanelTypes, PanelCalls
<1>4. OneCurrent'
  BY <1>1, <1>3 DEF PanelIInv, OneCurrent
<1>5. UntilFirstChoice'
  BY <1>1, <1>3 DEF PanelIInv, UntilFirstChoice
<1>6. LoadIsChoice'
  BY <1>1, <1>3 DEF PanelIInv, LoadIsChoice, OneCurrent
<1> QED  BY <1>2, <1>4, <1>5, <1>6 DEF PanelIInv
-----------------------------------------------------------------------------
LEMMA CallTypes ==
  ASSUME NEW q \in PanelCalls, NEW to \in PanelPcs
  PROVE  /\ [q EXCEPT !.pc = to] \in PanelCalls
         /\ [q EXCEPT !.pc = to].pc = to /\ [q EXCEPT !.pc = to].kind = q.kind
         /\ [q EXCEPT !.pc = to].gen = q.gen /\ [q EXCEPT !.pc = to].session = q.session
BY DEF PanelCalls

LEMMA CallFinds ==
  ASSUME PanelIInv, NEW c \in Calls, NEW to \in PanelPcs, NEW s \in PanelSessions,
         call' = [call EXCEPT ![c].pc = to, ![c].session = s]
  PROVE  \E n \in PanelCalls : /\ call' = [call EXCEPT ![c] = n] /\ n.pc = to
                               /\ n.kind = call[c].kind /\ n.gen = call[c].gen
<1>. DEFINE m == [call[c] EXCEPT !.pc = to]
            n == [m EXCEPT !.session = s]
<1>1. /\ m \in PanelCalls /\ m.pc = to /\ m.kind = call[c].kind /\ m.gen = call[c].gen
  BY DEF PanelCalls, PanelIInv, PanelTypes
<1>2. call' = [call EXCEPT ![c] = n]
  BY DEF PanelIInv, PanelTypes
<1>. HIDE DEF m
<1>3. n \in PanelCalls /\ n.pc = m.pc /\ n.kind = m.kind /\ n.gen = m.gen
  BY <1>1 DEF PanelCalls
<1>. HIDE DEF n
<1> QED  BY <1>1, <1>2, <1>3

(* The steps that only move a call on. *)
LEMMA CallGoesOn ==
  ASSUME PanelIInv, NEW c \in Calls, NEW to \in {"detail", "consent", "stream", "stored", "done"},
         Panel!Moves(c, to), call[c].pc # "idle",
         call[c].kind = "load" => call[c].pc \in {"detail", "consent"},
         to = "consent" => call[c].kind \in {"mount", "load"},
         server' \subseteq PanelSessions, sid' \in PanelSessions,
         UNCHANGED <<generation, interacted>>,
         chosen' # chosen =>
           \A d \in Calls : call[d].gen = generation /\ call[d].kind = "load" => to = "done" /\ d = c
  PROVE  PanelIInv'
<1>. DEFINE new == [call[c] EXCEPT !.pc = to]
<1>1. /\ new \in PanelCalls /\ new.pc = to /\ new.kind = call[c].kind /\ new.gen = call[c].gen
      /\ new.session = call[c].session
  <2>1. call[c] \in PanelCalls /\ to \in PanelPcs
    BY DEF PanelIInv, PanelTypes, PanelPcs
  <2> QED  BY <2>1, CallTypes, Zenon
<1>2. call' = [call EXCEPT ![c] = new]
  BY DEF Panel!Moves, PanelIInv, PanelTypes
<1>. HIDE DEF new
<1> QED  BY <1>1, <1>2, CallMoves

(* Whoever is current and no load leaves no load current. *)
LEMMA CurrentAlone ==
  ASSUME PanelIInv, NEW c \in Calls, call[c].gen = generation, call[c].kind # "load"
  PROVE  \A d \in Calls : ~(call[d].gen = generation /\ call[d].kind = "load")
BY DEF PanelIInv, PanelTypes, OneCurrent

LEMMA PanelUser ==
  ASSUME PanelIInv, NEW c \in Calls,
         Panel!LoadSession(c) \/ Panel!Send(c) \/ Panel!LoadReport(c) \/ Panel!Remove(c) \/ Panel!Toggle(c)
  PROVE  PanelIInv'
<1>1. generation + 1 \in Nat /\ sid \in PanelSessions /\ server \subseteq PanelSessions /\ None \in PanelSessions
  BY DEF PanelIInv, PanelTypes, PanelSessions
<1>2. CASE \E kind \in {"load", "send", "report"}, to \in {"detail", "asked"}, s \in PanelSessions :
             /\ Panel!Begins(c, kind, to, s) /\ (kind = "load" => chosen' = s) /\ UNCHANGED <<server, sid>>
  <2>1. PICK kind \in {"load", "send", "report"}, to \in {"detail", "asked"}, s \in PanelSessions :
             /\ Panel!Begins(c, kind, to, s) /\ (kind = "load" => chosen' = s) /\ UNCHANGED <<server, sid>>
    BY <1>2
  <2>. DEFINE new == [kind |-> kind, pc |-> to, gen |-> generation + 1, session |-> s, sidThen |-> sid]
  <2>2. new \in PanelCalls
    BY <1>1 DEF PanelCalls, PanelPcs
  <2>3. /\ call' = [call EXCEPT ![c] = new] /\ call[c].pc = "idle"
        /\ generation' = generation + 1 /\ interacted' = TRUE
    BY <2>1 DEF Panel!Begins
  <2> QED  BY <2>1, <2>2, <2>3, CallBegins
<1>3. CASE Panel!Remove(c) \/ Panel!Toggle(c)
  <2>1. PICK kind \in {"remove", "toggle"}, s \in PanelSessions, t \in PanelSessions :
          /\ call' = [call EXCEPT ![c] = [kind |-> kind, pc |-> "asked", gen |-> 0, session |-> s,
                                          sidThen |-> t]]
          /\ call[c].pc = "idle" /\ UNCHANGED <<generation, interacted, chosen, server, sid>>
    <3>1. CASE Panel!Remove(c)
      BY <1>1, <3>1 DEF Panel!Remove
    <3>2. CASE Panel!Toggle(c)
      BY <1>1, <3>2 DEF Panel!Toggle
    <3> QED  BY <1>3, <3>1, <3>2
  <2>. DEFINE new == [kind |-> kind, pc |-> "asked", gen |-> 0, session |-> s, sidThen |-> t]
  <2>2. new \in PanelCalls
    BY DEF PanelCalls, PanelPcs
  <2> QED  BY <2>1, <2>2, CallBegins
<1>4. CASE Panel!LoadSession(c)
  BY <1>1, <1>2, <1>4 DEF Panel!LoadSession
<1>5. CASE Panel!Send(c) \/ Panel!LoadReport(c)
  BY <1>1, <1>2, <1>5 DEF Panel!Send, Panel!LoadReport
<1> QED  BY <1>3, <1>4, <1>5

LEMMA PanelAnswer ==
  ASSUME PanelIInv, NEW c \in Calls,
         \/ Panel!Listed(c) \/ Panel!Detail(c) \/ Panel!Consent(c) \/ Panel!Named(c) \/ Panel!Stores(c)
         \/ Panel!SendOver(c) \/ Panel!Invalid(c) \/ Panel!Report(c) \/ Panel!Removed(c)
         \/ Panel!Toggled(c)
  PROVE  PanelIInv'
<1>1. /\ call[c] \in PanelCalls /\ sid \in PanelSessions /\ server \subseteq PanelSessions
      /\ None \in PanelSessions /\ Stored \cup Fresh \subseteq PanelSessions
  BY DEF PanelIInv, PanelTypes, PanelSessions
<1>2. call[c].session \in PanelSessions
  BY <1>1 DEF PanelCalls
<1>3. CASE Panel!Listed(c)
  <2>1. CASE Panel!Moves(c, "done")
    BY <1>1, <1>3, <2>1, CallGoesOn DEF Panel!Listed, Panel!At
  <2>2. CASE \E s \in server : call' = [call EXCEPT ![c].pc = "detail", ![c].session = s]
    <3>1. PICK s \in server : call' = [call EXCEPT ![c].pc = "detail", ![c].session = s]
      BY <2>2
    <3>2. PICK new \in PanelCalls : /\ call' = [call EXCEPT ![c] = new] /\ new.pc = "detail"
                                    /\ new.kind = call[c].kind /\ new.gen = call[c].gen
      BY <1>1, <3>1, CallFinds DEF PanelPcs
    <3> QED  BY <1>1, <1>3, <3>2, CallMoves DEF Panel!Listed, Panel!At
  <2> QED  BY <1>3, <2>1, <2>2 DEF Panel!Listed
<1>4. CASE Panel!Detail(c)
  BY <1>1, <1>4, CallGoesOn DEF Panel!Detail
<1>5. CASE Panel!Consent(c)
  <2>1. call[c].kind \in {"mount", "load"}
    BY <1>5 DEF Panel!Consent, PanelIInv, UntilFirstChoice
  <2>2. chosen' # chosen => \A d \in Calls : ~(call[d].gen = generation /\ call[d].kind = "load")
    <3>1. chosen' # chosen => generation = 1
      BY <1>5 DEF Panel!Consent, PanelIInv, UntilFirstChoice
    <3> QED  BY <3>1 DEF PanelIInv, UntilFirstChoice
  <2> QED  BY <1>1, <1>2, <1>5, <2>1, <2>2, CallGoesOn DEF Panel!Consent
<1>6. CASE Panel!Named(c)
  <2>1. PICK s \in Fresh \cup server : /\ call' = [call EXCEPT ![c].pc = "stream", ![c].session = s]
                                       /\ sid' = s
    BY <1>6 DEF Panel!Named
  <2>2. s \in PanelSessions
    BY <1>1
  <2>3. PICK new \in PanelCalls : /\ call' = [call EXCEPT ![c] = new] /\ new.pc = "stream"
                                  /\ new.kind = call[c].kind /\ new.gen = call[c].gen
    BY <2>1, <2>2, CallFinds DEF PanelPcs
  <2>5. \A d \in Calls : ~(call[d].gen = generation /\ call[d].kind = "load")
    BY <1>6, CurrentAlone DEF Panel!Named, Panel!At, Panel!Current
  <2> QED  BY <1>1, <1>6, <2>1, <2>2, <2>3, <2>5, CallMoves DEF Panel!Named, Panel!At
<1>7. CASE Panel!Stores(c)
  BY <1>1, <1>2, <1>7, CallGoesOn DEF Panel!Stores, Panel!At
<1>8. CASE Panel!SendOver(c) \/ Panel!Invalid(c)
  <2>1. chosen' # chosen => \A d \in Calls : ~(call[d].gen = generation /\ call[d].kind = "load")
    BY <1>8, CurrentAlone DEF Panel!SendOver, Panel!Invalid, Panel!At, Panel!Current
  <2> QED  BY <1>1, <1>8, <2>1, CallGoesOn DEF Panel!SendOver, Panel!Invalid, Panel!At
<1>9. CASE Panel!Report(c) \/ Panel!Removed(c) \/ Panel!Toggled(c)
  BY <1>1, <1>9, CallGoesOn DEF Panel!Report, Panel!Removed, Panel!Toggled, Panel!At
<1> QED  BY <1>3, <1>4, <1>5, <1>6, <1>7, <1>8, <1>9
LEMMA PanelNext == PanelIInv /\ [Panel!Next]_(Panel!panel) => PanelIInv'
<1> SUFFICES ASSUME PanelIInv, [Panel!Next]_(Panel!panel) PROVE PanelIInv'
  OBVIOUS
<1>1. CASE UNCHANGED Panel!panel
  <2>1. UNCHANGED <<generation, interacted, sid, chosen, call, server>>
    BY <1>1 DEF Panel!panel
  <2> QED  BY <2>1 DEF PanelIInv, PanelTypes, OneCurrent, UntilFirstChoice, LoadIsChoice
<1>2. CASE Panel!NewConversation
  <2>1. /\ generation' = generation + 1 /\ interacted' = TRUE /\ sid' = None
        /\ UNCHANGED <<call, server>>
    BY <1>2 DEF Panel!NewConversation
  <2>2. generation \in Nat \ {0} /\ \A c \in Calls : call[c].gen \in Nat /\ call[c].gen <= generation
    BY DEF PanelIInv, PanelTypes, PanelCalls, OneCurrent
  <2>3. generation' \in Nat \ {0} /\ generation' # 1 /\ None \in PanelSessions
    BY <2>1, <2>2 DEF PanelSessions
  <2>4. PanelTypes'
    BY <2>1, <2>3 DEF PanelIInv, PanelTypes
  <2>5. OneCurrent' /\ LoadIsChoice'
    BY <2>1, <2>2 DEF PanelIInv, OneCurrent, LoadIsChoice
  <2>6. UntilFirstChoice'
    BY <2>1, <2>3 DEF PanelIInv, UntilFirstChoice
  <2> QED  BY <2>4, <2>5, <2>6 DEF PanelIInv
<1> QED  BY <1>1, <1>2, PanelUser, PanelAnswer DEF Panel!Next

(* Whatever the order of the answers, the panel never turns to another      *)
(* session than the one that was chosen last (ChatPanel).                   *)
THEOREM LastChoiceShownCorrect == Panel!Spec => LastChoiceShown
<1>1. ASSUME PanelIInv, Panel!Next, shown' # shown
      PROVE  shown' \in {None, chosen'}
  <2>1. CASE \E c \in Calls : Panel!Consent(c)
    <3>1. PICK c \in Calls : Panel!Consent(c)
      BY <2>1
    <3>2. call[c].gen = generation /\ shown' = call[c].session /\ call[c].pc = "consent"
      BY <1>1, <3>1 DEF Panel!Consent, Panel!Applied, Panel!Current
    <3>3. call[c].kind \in {"mount", "load"}
      BY <1>1, <3>2 DEF PanelIInv, UntilFirstChoice
    <3>4. CASE call[c].kind = "mount"
      <4>1. ~interacted
        BY <1>1, <3>2, <3>4 DEF PanelIInv, UntilFirstChoice
      <4> QED  BY <3>1, <3>2, <3>4, <4>1 DEF Panel!Consent
    <3>5. CASE call[c].kind = "load"
      <4>1. chosen = call[c].session /\ chosen' = chosen
        BY <1>1, <3>1, <3>2, <3>5 DEF PanelIInv, LoadIsChoice, Panel!Consent
      <4> QED  BY <3>2, <4>1
    <3> QED  BY <3>3, <3>4, <3>5
  <2>2. CASE \E c \in Calls : Panel!Named(c) \/ Panel!SendOver(c) \/ Panel!Invalid(c) \/ Panel!Removed(c)
    BY <1>1, <2>2 DEF Panel!Named, Panel!SendOver, Panel!Invalid, Panel!Removed
  <2>3. CASE Panel!NewConversation
    BY <2>3 DEF Panel!NewConversation
  <2>4. \/ \E c \in Calls : \/ Panel!Consent(c) \/ Panel!Named(c) \/ Panel!SendOver(c)
                            \/ Panel!Invalid(c) \/ Panel!Removed(c)
        \/ Panel!NewConversation
    BY <1>1 DEF Panel!Next, Panel!Listed, Panel!LoadSession, Panel!Detail, Panel!Send, Panel!Stores,
                Panel!LoadReport, Panel!Report, Panel!Remove, Panel!Toggle, Panel!Toggled
  <2> QED  BY <2>1, <2>2, <2>3, <2>4
<1> QED  BY <1>1, PanelInit, PanelNext, PTL DEF Panel!Spec, LastChoiceShown, Panel!LastChoiceShown
-----------------------------------------------------------------------------
(* Decision protocol: what the actors compute.  The limits are limits of   *)
(* sums over the instruments, so the laws of sums come first: that the     *)
(* function which the fold of the community modules chooses exists and is  *)
(* the only one, by induction over finite sets.  The induction is about a  *)
(* set of the sets for which the law holds: a set can be instantiated, a   *)
(* predicate cannot.                                                       *)
Chosen(s) == CHOOSE x \in s : TRUE

Steps(f, g, U) == g = [s \in U |-> IF s = {} THEN 0 ELSE f[Chosen(s)] + g[s \ {Chosen(s)}]]

Partial(f, g, S) == Steps(f, g, SUBSET S)

LEMMA ChosenIsMember == ASSUME NEW s, s # {} PROVE Chosen(s) \in s
  BY DEF Chosen

(* Induction over the naturals, about a set instead of a predicate. *)
LEMMA NatInductionOnSet ==
  ASSUME NEW G, 0 \in G, \A n \in Nat : n \in G => n + 1 \in G
  PROVE  Nat \subseteq G
<1> SUFFICES ASSUME Nat \ G # {} PROVE FALSE
  OBVIOUS
<1>1. PICK m \in Nat \ G : \A x \in Nat \ G : ~(<<x, m>> \in OpToRel(<, Nat))
  BY NatLessThanWellFounded, WFMin
<1>2. m - 1 \in Nat
  OBVIOUS
<1>3. <<m - 1, m>> \in Nat \X Nat /\ <<m - 1, m>>[1] < <<m - 1, m>>[2]
  BY <1>2
<1>4. <<m - 1, m>> \in OpToRel(<, Nat)
  BY <1>3, Zenon DEF OpToRel
<1>5. m - 1 \in G
  BY <1>1, <1>2, <1>4
<1> QED BY <1>2, <1>5

(* ... and over a finite set from which the chosen elements are removed.   *)
LEMMA FiniteInduction ==
  ASSUME NEW S, IsFiniteSet(S), NEW G, {} \in G,
         \A s \in SUBSET S : s # {} /\ s \ {Chosen(s)} \in G => s \in G
  PROVE  \A s \in SUBSET S : s \in G
<1> DEFINE Good == {n \in Nat : \A s \in SUBSET S : Cardinality(s) = n => s \in G}
<1>1. 0 \in Good
  BY FS_Subset, FS_EmptySet
<1>2. ASSUME NEW n \in Nat, n \in Good PROVE n + 1 \in Good
  <2> SUFFICES ASSUME NEW s \in SUBSET S, Cardinality(s) = n + 1 PROVE s \in G
    OBVIOUS
  <2>1. s # {} /\ IsFiniteSet(s)
    BY FS_Subset, FS_EmptySet
  <2>2. Chosen(s) \in s
    BY <2>1, ChosenIsMember
  <2>a. Cardinality(s \ {Chosen(s)}) = Cardinality(s) - 1
    BY <2>1, <2>2, FS_RemoveElement
  <2>3. Cardinality(s \ {Chosen(s)}) = n
    BY <2>a
  <2>4. s \ {Chosen(s)} \in G
    BY <1>2, <2>3
  <2> QED BY <2>1, <2>4
<1> HIDE DEF Good
<1>3. Nat \subseteq Good
  BY <1>1, <1>2, NatInductionOnSet
<1>4. ASSUME NEW s \in SUBSET S PROVE s \in G
  <2>1. Cardinality(s) \in Nat
    BY FS_Subset, FS_CardinalityType
  <2> QED BY <1>3, <2>1 DEF Good
<1> QED BY <1>4

LEMMA SumByChoice ==
  ASSUME NEW f, NEW S, \E g : Partial(f, g, S)
  PROVE  \E g : Partial(f, g, S) /\ Protocol!SumOver(f, S) = g[S]
<1>1. Protocol!SumOver(f, S) = (CHOOSE g : Partial(f, g, S))[S]
  BY DEF Protocol!SumOver, Protocol!FoldFunctionOnSet, Protocol!MapThenFoldSet, Chosen, Steps, Partial
<1> QED BY <1>1

(* The function that the fold chooses exists ... *)
LEMMA StepsExist ==
  ASSUME NEW f, NEW S, IsFiniteSet(S)
  PROVE  \E g : Partial(f, g, S)
<1> DEFINE Small(n) == {s \in SUBSET S : Cardinality(s) <= n}
           Good     == {n \in Nat : \E g : Steps(f, g, Small(n))}
<1>0. \A s \in SUBSET S : IsFiniteSet(s) /\ Cardinality(s) \in Nat /\ (Cardinality(s) = 0 <=> s = {})
  BY FS_Subset, FS_CardinalityType, FS_EmptySet
<1>1. 0 \in Good
  <2>1. Steps(f, [s \in Small(0) |-> 0], Small(0))
    BY <1>0 DEF Steps
  <2> QED BY <2>1
<1>2. ASSUME NEW n \in Nat, n \in Good PROVE n + 1 \in Good
  <2>1. PICK g : Steps(f, g, Small(n))
    BY <1>2
  <2> DEFINE h == [s \in Small(n + 1) |-> IF s = {} THEN 0 ELSE f[Chosen(s)] + g[s \ {Chosen(s)}]]
  <2>2. ASSUME NEW s \in Small(n + 1), s # {} PROVE s \ {Chosen(s)} \in Small(n)
    <3>1. Chosen(s) \in s
      BY <2>2, ChosenIsMember
    <3>2. Cardinality(s \ {Chosen(s)}) = Cardinality(s) - 1
      BY <1>0, <3>1, FS_RemoveElement
    <3> QED BY <1>0, <3>2
  <2>a. Small(n) \subseteq Small(n + 1)
    BY <1>0
  <2>b. \A s \in Small(n) : g[s] = IF s = {} THEN 0 ELSE f[Chosen(s)] + g[s \ {Chosen(s)}]
    BY <2>1 DEF Steps
  <2>3. \A s \in Small(n) : h[s] = g[s]
    BY <2>a, <2>b
  <2> HIDE DEF Small
  <2>4. h = [s \in Small(n + 1) |-> IF s = {} THEN 0 ELSE f[Chosen(s)] + h[s \ {Chosen(s)}]]
    BY <2>2, <2>3
  <2> HIDE DEF h
  <2> QED BY <2>4 DEF Steps
<1> HIDE DEF Good
<1>3. Nat \subseteq Good
  BY <1>1, <1>2, NatInductionOnSet
<1>4. PICK g : Steps(f, g, Small(Cardinality(S)))
  BY <1>0, <1>3 DEF Good
<1>5. Small(Cardinality(S)) = SUBSET S
  BY FS_Subset
<1> QED BY <1>4, <1>5 DEF Partial

(* ... and is the only one. *)
LEMMA StepsUnique ==
  ASSUME NEW f, NEW S, NEW T, T \subseteq S, IsFiniteSet(T)
  PROVE  \A g, h : Partial(f, g, S) /\ Partial(f, h, T) => g[T] = h[T]
<1> SUFFICES ASSUME NEW g, NEW h, Partial(f, g, S), Partial(f, h, T)
             PROVE  g[T] = h[T]
  OBVIOUS
<1> DEFINE Good == {s \in SUBSET T : g[s] = h[s]}
<1>1. {} \in Good
  BY DEF Partial, Steps
<1>2. ASSUME NEW s \in SUBSET T, s # {}, s \ {Chosen(s)} \in Good PROVE s \in Good
  BY <1>2 DEF Partial, Steps
<1> HIDE DEF Good
<1>3. T \in Good
  BY <1>1, <1>2, FiniteInduction
<1> QED BY <1>3 DEF Good

(* The laws of sums. *)
LEMMA SumSteps ==
  ASSUME NEW f, NEW S, IsFiniteSet(S)
  PROVE  Protocol!SumOver(f, S) =
           IF S = {} THEN 0 ELSE f[Chosen(S)] + Protocol!SumOver(f, S \ {Chosen(S)})
<1>1. PICK g : Partial(f, g, S) /\ Protocol!SumOver(f, S) = g[S]
  BY StepsExist, SumByChoice
<1>2. CASE S = {}
  BY <1>1, <1>2 DEF Partial, Steps
<1>3. CASE S # {}
  <2> DEFINE T == S \ {Chosen(S)}
  <2>1. IsFiniteSet(T) /\ T \subseteq S
    BY FS_Subset
  <2>2. PICK h : Partial(f, h, T) /\ Protocol!SumOver(f, T) = h[T]
    BY <2>1, StepsExist, SumByChoice
  <2> HIDE DEF T
  <2>a. Partial(f, g, S) /\ Partial(f, h, T)
    BY <1>1, <2>2
  <2>3. g[T] = h[T]
    BY <2>1, <2>a, StepsUnique
  <2>4. g[S] = f[Chosen(S)] + g[T]
    BY <1>1, <1>3 DEF Partial, Steps, T
  <2> QED BY <1>1, <1>3, <2>2, <2>3, <2>4 DEF T
<1> QED BY <1>2, <1>3

LEMMA SumsCompare ==
  ASSUME NEW S, IsFiniteSet(S), NEW f, NEW g, NEW t \in Nat, NEW l \in Nat,
         \A x \in S : f[x] \in Nat /\ g[x] \in Nat /\ t * g[x] <= l * f[x]
  PROVE  /\ Protocol!SumOver(f, S) \in Nat /\ Protocol!SumOver(g, S) \in Nat
         /\ t * Protocol!SumOver(g, S) <= l * Protocol!SumOver(f, S)
<1> DEFINE G == {s \in SUBSET S : /\ Protocol!SumOver(f, s) \in Nat /\ Protocol!SumOver(g, s) \in Nat
                                  /\ t * Protocol!SumOver(g, s) <= l * Protocol!SumOver(f, s)}
<1>1. {} \in G
  <2>1. Protocol!SumOver(f, {}) = 0 /\ Protocol!SumOver(g, {}) = 0
    BY FS_EmptySet, SumSteps
  <2> QED BY <2>1
<1>2. ASSUME NEW s \in SUBSET S, s # {}, s \ {Chosen(s)} \in G PROVE s \in G
  <2> DEFINE x == Chosen(s)
             F == Protocol!SumOver(f, s \ {x})
             H == Protocol!SumOver(g, s \ {x})
  <2>1. x \in S /\ IsFiniteSet(s)
    BY <1>2, ChosenIsMember, FS_Subset
  <2>2. Protocol!SumOver(f, s) = f[x] + F /\ Protocol!SumOver(g, s) = g[x] + H
    BY <1>2, <2>1, SumSteps
  <2>3. F \in Nat /\ H \in Nat /\ t * H <= l * F
    BY <1>2
  <2> HIDE DEF x, F, H
  <2>4. f[x] \in Nat /\ g[x] \in Nat /\ t * g[x] <= l * f[x]
    BY <2>1
  <2>5. t * (g[x] + H) = t * g[x] + t * H /\ l * (f[x] + F) = l * f[x] + l * F
    BY <2>3, <2>4
  <2>6. t * g[x] \in Nat /\ t * H \in Nat /\ l * f[x] \in Nat /\ l * F \in Nat
    BY <2>3, <2>4
  <2>7. t * (g[x] + H) <= l * (f[x] + F)
    BY <2>3, <2>4, <2>5, <2>6
  <2> QED BY <2>2, <2>3, <2>4, <2>7
<1> HIDE DEF G
<1>3. S \in G
  BY <1>1, <1>2, FiniteInduction
<1> QED BY <1>3 DEF G

LEMMA SumIsNat ==
  ASSUME NEW S, IsFiniteSet(S), NEW f, \A x \in S : f[x] \in Nat
  PROVE  Protocol!SumOver(f, S) \in Nat
<1>1. \A x \in S : 1 * f[x] <= 1 * f[x]
  OBVIOUS
<1> QED BY <1>1, SumsCompare

LEMMA SumGrows ==
  ASSUME NEW S, IsFiniteSet(S), NEW f, NEW g,
         \A x \in S : f[x] \in Nat /\ g[x] \in Nat /\ g[x] <= f[x]
  PROVE  Protocol!SumOver(g, S) <= Protocol!SumOver(f, S)
<1>1. \A x \in S : 1 * g[x] <= 1 * f[x]
  OBVIOUS
<1>2. /\ Protocol!SumOver(f, S) \in Nat /\ Protocol!SumOver(g, S) \in Nat
      /\ 1 * Protocol!SumOver(g, S) <= 1 * Protocol!SumOver(f, S)
  BY <1>1, SumsCompare
<1> QED BY <1>2

LEMMA Quotient ==
  ASSUME NEW w \in Nat, NEW limit \in Nat, NEW total \in Nat, total > 0
  PROVE  /\ (w * limit) \div total \in Nat
         /\ total * ((w * limit) \div total) <= limit * w
         /\ limit <= total => (w * limit) \div total <= w
<1> DEFINE q == (w * limit) \div total
<1>1. w * limit \in Nat /\ w * limit = limit * w
  OBVIOUS
<1>2. q \in Nat /\ total * q <= w * limit
  BY <1>1
<1> HIDE DEF q
<1>3. ASSUME limit <= total, q > w PROVE FALSE
  <2>1. total * q >= total * (w + 1)
    BY <1>2, <1>3
  <2>2. total * (w + 1) = total * w + total
    OBVIOUS
  <2>3. w * limit <= w * total
    BY <1>3
  <2> QED BY <1>2, <2>1, <2>2, <2>3
<1> QED BY <1>1, <1>2, <1>3 DEF q

LEMMA Cancels ==
  ASSUME NEW t \in Nat, t > 0, NEW a \in Nat, NEW l \in Nat, t * a <= l * t
  PROVE  a <= l
<1> SUFFICES ASSUME a >= l + 1 PROVE FALSE
  OBVIOUS
<1>1. t * a >= t * (l + 1)
  OBVIOUS
<1>2. t * (l + 1) = l * t + t
  OBVIOUS
<1> QED BY <1>1, <1>2

(* What a share of a total leaves. *)
LEMMA SharesWithin ==
  ASSUME NEW S, IsFiniteSet(S), NEW f, NEW g, NEW limit \in Nat,
         \A x \in S : f[x] \in Nat,
         Protocol!SumOver(f, S) > limit,
         \A x \in S : g[x] = (f[x] * limit) \div Protocol!SumOver(f, S)
  PROVE  /\ \A x \in S : g[x] \in Nat /\ g[x] <= f[x]
         /\ Protocol!SumOver(g, S) \in Nat /\ Protocol!SumOver(g, S) <= limit
<1> DEFINE t == Protocol!SumOver(f, S)
<1>1. t \in Nat /\ t > 0 /\ limit <= t
  BY SumIsNat
<1>2. \A x \in S : g[x] = (f[x] * limit) \div t
  OBVIOUS
<1> HIDE DEF t
<1>3. ASSUME NEW x \in S
      PROVE  g[x] \in Nat /\ t * g[x] <= limit * f[x] /\ g[x] <= f[x]
  BY <1>1, <1>2, Quotient
<1>4. /\ Protocol!SumOver(g, S) \in Nat /\ t * Protocol!SumOver(g, S) <= limit * Protocol!SumOver(f, S)
  BY <1>1, <1>3, SumsCompare
<1>5. Protocol!SumOver(g, S) <= limit
  BY <1>1, <1>4, Cancels DEF t
<1> QED BY <1>3, <1>4, <1>5

(* g is no more than f anywhere. *)
Below(g, f) == \A c \in Codes : g[c] <= f[c]

Weights == [Codes -> Nat]

LEMMA ScaledBelow ==
  ASSUME IsFiniteSet(Codes), NEW w \in Weights, NEW limit \in Nat
  PROVE  /\ Protocol!Scaled(w, limit) \in Weights /\ Below(Protocol!Scaled(w, limit), w)
         /\ Protocol!SumOver(Protocol!Scaled(w, limit), Codes) <= limit
<1> DEFINE v == [c \in Codes |-> (w[c] * limit) \div Protocol!SumOver(w, Codes)]
<1>0. DOMAIN w = Codes /\ \A c \in Codes : w[c] \in Nat
  BY DEF Weights
<1>1. Protocol!Scaled(w, limit) = IF Protocol!SumOver(w, Codes) <= limit THEN w ELSE v
  BY <1>0 DEF Protocol!Scaled
<1>a. Protocol!SumOver(w, Codes) \in Nat
  BY <1>0, SumIsNat
<1>2. CASE Protocol!SumOver(w, Codes) <= limit
  BY <1>0, <1>1, <1>2 DEF Below
<1>3. CASE Protocol!SumOver(w, Codes) > limit
  <2>1. \A c \in Codes : v[c] = (w[c] * limit) \div Protocol!SumOver(w, Codes)
    OBVIOUS
  <2>2. Protocol!Scaled(w, limit) = v /\ v = [c \in Codes |-> v[c]]
    BY <1>1, <1>3, <1>a
  <2> HIDE DEF v
  <2>3. /\ \A x \in Codes : v[x] \in Nat /\ v[x] <= w[x]
        /\ Protocol!SumOver(v, Codes) <= limit
    BY <1>0, <1>3, <2>1, SharesWithin
  <2>4. v \in Weights
    BY <2>2, <2>3 DEF Weights
  <2> QED BY <2>2, <2>3, <2>4 DEF Below
<1> QED BY <1>2, <1>3, <1>a

LEMMA InputsTyped ==
  ASSUME inputs \in Protocol!Evidence
  PROVE  /\ IsFiniteSet(Codes) /\ Capital \in Nat /\ Capital > 0
         /\ inputs.held \in [Codes -> Nat] /\ inputs.assets \in Nat
         /\ \A c \in Codes : inputs.industry[c] \in Industries
<1>1. /\ inputs.held \in Holdings /\ inputs.assets \in Assets
      /\ \A c \in Codes : inputs.industry[c] \in Industries
  BY DEF Protocol!Evidence
<1>2. IsFiniteSet(Codes) /\ Capital \in Nat /\ Capital > 0
  BY EvidenceAssumption
<1>3. Assets \subseteq Nat /\ Holdings \subseteq [Codes -> Nat]
  BY EvidenceAssumption
<1>4. inputs.assets \in Nat /\ inputs.held \in [Codes -> Nat]
  BY <1>1, <1>3
<1> QED BY <1>1, <1>2, <1>4

LEMMA ForecastTyped ==
  ASSUME inputs \in Protocol!Evidence, NEW c \in Codes
  PROVE  LET f == inputs.forecast[c] IN
         /\ f.up \in Int /\ 0 <= f.up /\ f.up <= 1000 /\ f.hash \in BOOLEAN
         /\ f.low \in Int /\ f.median \in Int /\ f.high \in Int
         /\ f.low <= f.median /\ f.median <= f.high
<1> DEFINE f == inputs.forecast[c]
<1>1. f \in Forecasts
  BY DEF Protocol!Evidence
<1> HIDE DEF f
<1>2. f.up \in 0 .. 1000
  BY <1>1, EvidenceAssumption
<1>3. /\ f.hash \in BOOLEAN /\ f.low \in Int /\ f.median \in Int /\ f.high \in Int
      /\ f.low <= f.median /\ f.median <= f.high
  BY <1>1, EvidenceAssumption
<1>4. 0 <= f.up /\ f.up <= 1000 /\ f.up \in Int
  BY <1>2
<1> QED BY <1>3, <1>4 DEF f

(* The weight before any limit. *)
Edge(c) ==
  LET f == inputs.forecast[c] IN
  IF f.median > 0
  THEN (Protocol!Greatest(0, f.up - 500) * 2 * Protocol!Multiplier[Protocol!Regime]) \div 10
  ELSE 0

LEMMA EdgeFacts ==
  ASSUME inputs \in Protocol!Evidence, NEW c \in Codes
  PROVE  /\ Edge(c) \in Nat
         /\ Edge(c) > 0 => inputs.forecast[c].up > 500 /\ inputs.forecast[c].median > 0
<1> DEFINE f == inputs.forecast[c]
           g == Protocol!Greatest(0, f.up - 500)
           m == Protocol!Multiplier[Protocol!Regime]
<1>1. m \in {100, 110, 25}
  BY DEF Protocol!Multiplier, Protocol!Regime
<1>2. f.up \in Int /\ f.median \in Int /\ g \in Nat /\ (g > 0 => f.up > 500)
  <2>1. f.up \in Int /\ f.median \in Int
    BY ForecastTyped
  <2> QED BY <2>1 DEF Protocol!Greatest
<1>3. Edge(c) = IF f.median > 0 THEN (g * 2 * m) \div 10 ELSE 0
  BY DEF Edge
<1> HIDE DEF f, g, m
<1>4. (g * 2 * m) \div 10 \in Nat /\ (g = 0 => (g * 2 * m) \div 10 = 0)
  BY <1>1, <1>2
<1> QED BY <1>2, <1>3, <1>4 DEF f

Edges == [c \in Codes |-> Edge(c)]

LEMMA SleeveFacts ==
  ASSUME inputs \in Protocol!Evidence
  PROVE  Edges \in Weights /\ Protocol!Sleeve \in Weights /\ Below(Protocol!Sleeve, Edges)
<1>1. Edges \in Weights
  BY EdgeFacts DEF Edges, Weights
<1>2. Protocol!Sleeve = Protocol!Scaled(Edges, 2500)
  BY DEF Protocol!Sleeve, Edges, Edge, Protocol!MaxStrategyRisk
<1> QED BY <1>1, <1>2, ScaledBelow, InputsTyped

LEMMA SingleFacts ==
  ASSUME NEW w \in Weights
  PROVE  /\ Protocol!SingleNames(w) \in Weights /\ Below(Protocol!SingleNames(w), w)
         /\ \A c \in Codes : Protocol!SingleNames(w)[c] <= Protocol!MaxSingleName
  BY DEF Protocol!SingleNames, Weights, Below, Protocol!Least, Protocol!MaxSingleName

Peers(i) == {d \in Codes : inputs.industry[d] = i}

LEMMA MaxIndustryIsNat == Protocol!MaxIndustry \in Nat
  BY DEF Protocol!MaxIndustry

LEMMA IndustryFacts ==
  ASSUME inputs \in Protocol!Evidence, NEW w \in Weights
  PROVE  /\ Protocol!ByIndustry(w) \in Weights /\ Below(Protocol!ByIndustry(w), w)
         /\ \A i \in Industries : Protocol!SumOver(Protocol!ByIndustry(w), Peers(i)) <= Protocol!MaxIndustry
<1> DEFINE v == Protocol!ByIndustry(w)
           T(i) == Protocol!SumOver(w, Peers(i))
<1> USE MaxIndustryIsNat
<1>0. /\ \A c \in Codes : w[c] \in Nat
      /\ IsFiniteSet(Codes) /\ \A i : IsFiniteSet(Peers(i)) /\ Peers(i) \subseteq Codes
  BY InputsTyped, FS_Subset DEF Weights, Peers
<1>1. v = [c \in Codes |-> IF T(inputs.industry[c]) > Protocol!MaxIndustry
                          THEN (w[c] * Protocol!MaxIndustry) \div T(inputs.industry[c]) ELSE w[c]]
  BY DEF Protocol!ByIndustry, Peers
<1>2. ASSUME NEW i
      PROVE  /\ \A c \in Peers(i) : v[c] \in Nat /\ v[c] <= w[c]
             /\ Protocol!SumOver(v, Peers(i)) <= Protocol!MaxIndustry
  <2>1. T(i) \in Nat
    BY <1>0, SumIsNat
  <2>2. \A c \in Peers(i) : v[c] =
              IF T(i) > Protocol!MaxIndustry THEN (w[c] * Protocol!MaxIndustry) \div T(i) ELSE w[c]
    <3>1. \A c \in Peers(i) : c \in Codes /\ inputs.industry[c] = i
      BY DEF Peers
    <3> HIDE DEF T
    <3> QED BY <1>1, <3>1
  <2>3. IsFiniteSet(Peers(i)) /\ \A c \in Peers(i) : w[c] \in Nat
    BY <1>0
  <2> HIDE DEF v
  <2>4. CASE T(i) > Protocol!MaxIndustry
    <3>1. \A c \in Peers(i) : v[c] = (w[c] * Protocol!MaxIndustry) \div Protocol!SumOver(w, Peers(i))
      BY <2>2, <2>4
    <3>2. Protocol!SumOver(w, Peers(i)) > Protocol!MaxIndustry /\ Protocol!MaxIndustry \in Nat
      BY <2>4
    <3> DEFINE S == Peers(i)
    <3>3. /\ IsFiniteSet(S) /\ Protocol!SumOver(w, S) > Protocol!MaxIndustry
          /\ \A c \in S : w[c] \in Nat
          /\ \A c \in S : v[c] = (w[c] * Protocol!MaxIndustry) \div Protocol!SumOver(w, S)
      BY <2>3, <3>1, <3>2
    <3> HIDE DEF S, T
    <3>4. /\ \A c \in S : v[c] \in Nat /\ v[c] <= w[c]
          /\ Protocol!SumOver(v, S) <= Protocol!MaxIndustry
      BY <3>2, <3>3, SharesWithin
    <3> QED BY <3>4 DEF S
  <2>5. CASE T(i) <= Protocol!MaxIndustry
    <3>1. \A c \in Peers(i) : v[c] = w[c]
      BY <2>1, <2>2, <2>5
    <3>2. Protocol!SumOver(v, Peers(i)) <= T(i) /\ Protocol!SumOver(v, Peers(i)) \in Nat
      BY <2>3, <3>1, SumGrows, SumIsNat
    <3> QED BY <2>1, <2>3, <2>5, <3>1, <3>2
  <2> QED BY <2>1, <2>4, <2>5
<1>3. \A c \in Codes : c \in Peers(inputs.industry[c])
  BY DEF Peers
<1>4. \A c \in Codes : v[c] \in Nat /\ v[c] <= w[c]
  BY <1>2, <1>3
<1> HIDE DEF T
<1>5. v \in Weights
  BY <1>1, <1>4 DEF Weights
<1> QED BY <1>2, <1>4, <1>5 DEF Below

LEMMA BelowSums ==
  ASSUME NEW g \in Weights, NEW f \in Weights, Below(g, f), NEW S, S \subseteq Codes, IsFiniteSet(S)
  PROVE  /\ Protocol!SumOver(g, S) \in Nat /\ Protocol!SumOver(f, S) \in Nat
         /\ Protocol!SumOver(g, S) <= Protocol!SumOver(f, S)
<1>1. \A x \in S : f[x] \in Nat /\ g[x] \in Nat /\ g[x] <= f[x]
  BY DEF Weights, Below
<1> QED BY <1>1, SumIsNat, SumGrows

LEMMA LossFacts ==
  ASSUME inputs \in Protocol!Evidence, NEW w \in Weights
  PROVE  Protocol!Losses(w) \in Weights /\ Protocol!SumOver(Protocol!Losses(w), Codes) \in Nat
<1>1. DOMAIN w = Codes
  BY DEF Weights
<1>2. ASSUME NEW c \in Codes
      PROVE  (w[c] * Protocol!LossRate(c)) \div 1000 \in Nat
  <2>1. Protocol!LossRate(c) \in Nat
    BY ForecastTyped DEF Protocol!LossRate, Protocol!Greatest
  <2>2. w[c] * Protocol!LossRate(c) \in Nat
    BY <2>1 DEF Weights
  <2> QED BY <2>2
<1>3. Protocol!Losses(w) \in Weights
  BY <1>1, <1>2 DEF Protocol!Losses, Weights
<1> QED BY <1>3, BelowSums, InputsTyped DEF Below, Weights

LEMMA WithinLossFacts ==
  ASSUME inputs \in Protocol!Evidence, NEW w \in Weights
  PROVE  Protocol!WithinLoss(w) \in Weights /\ Below(Protocol!WithinLoss(w), w)
<1> DEFINE loss  == Protocol!SumOver(Protocol!Losses(w), Codes)
           total == Protocol!SumOver(w, Codes)
           limit == (total * Protocol!MaxLoss) \div loss
<1>1. loss \in Nat /\ Protocol!MaxLoss \in Nat
  BY LossFacts DEF Protocol!MaxLoss
<1>2. total \in Nat
  BY SumIsNat, InputsTyped DEF Weights
<1>3. CASE loss > Protocol!MaxLoss
  <2>1. limit \in Nat
    BY <1>1, <1>2, <1>3, Quotient
  <2>2. Protocol!WithinLoss(w) = Protocol!Scaled(w, limit)
    BY <1>3 DEF Protocol!WithinLoss
  <2> HIDE DEF limit
  <2> QED BY <2>1, <2>2, ScaledBelow, InputsTyped
<1>4. CASE ~(loss > Protocol!MaxLoss)
  BY <1>4 DEF Protocol!WithinLoss, Below, Weights
<1> QED BY <1>3, <1>4

LEMMA BelowBelow ==
  ASSUME NEW u \in Weights, NEW v \in Weights, NEW w \in Weights, Below(u, v), Below(v, w)
  PROVE  Below(u, w)
  BY DEF Below, Weights

LEMMA BoundedFacts ==
  ASSUME inputs \in Protocol!Evidence
  PROVE  /\ Protocol!Bounded \in Weights /\ Below(Protocol!Bounded, Edges)
         /\ \A c \in Codes : Protocol!Bounded[c] <= Protocol!MaxSingleName
         /\ Protocol!SumOver(Protocol!Bounded, Codes) <= Protocol!MaxGross
         /\ \A i \in Industries : Protocol!SumOver(Protocol!Bounded, Peers(i)) <= Protocol!MaxIndustry
<1> DEFINE a == Protocol!SingleNames(Protocol!Sleeve)
           b == Protocol!ByIndustry(a)
           d == Protocol!Scaled(b, Protocol!MaxGross)
           e == Protocol!WithinLoss(d)
<1>0. /\ IsFiniteSet(Codes) /\ Protocol!MaxGross \in Nat /\ Protocol!MaxSingleName \in Nat
      /\ Protocol!MaxIndustry \in Nat
      /\ \A i : IsFiniteSet(Peers(i)) /\ Peers(i) \subseteq Codes
  BY InputsTyped, FS_Subset DEF Protocol!MaxGross, Protocol!MaxSingleName, Protocol!MaxIndustry, Peers
<1>1. Protocol!Sleeve \in Weights /\ Edges \in Weights /\ Below(Protocol!Sleeve, Edges)
  BY SleeveFacts
<1>2. a \in Weights /\ Below(a, Protocol!Sleeve) /\ \A c \in Codes : a[c] <= Protocol!MaxSingleName
  BY <1>1, SingleFacts
<1> HIDE DEF a
<1>3. /\ b \in Weights /\ Below(b, a)
      /\ \A i \in Industries : Protocol!SumOver(b, Peers(i)) <= Protocol!MaxIndustry
  BY <1>2, IndustryFacts
<1> HIDE DEF b
<1>4. d \in Weights /\ Below(d, b) /\ Protocol!SumOver(d, Codes) <= Protocol!MaxGross
  BY <1>0, <1>3, ScaledBelow
<1> HIDE DEF d
<1>5. e \in Weights /\ Below(e, d)
  BY <1>4, WithinLossFacts
<1> HIDE DEF e
<1>6. Below(e, b) /\ Below(e, a) /\ Below(e, Protocol!Sleeve) /\ Below(e, Edges)
  <2>1. Below(e, b)
    BY <1>3, <1>4, <1>5, BelowBelow
  <2>2. Below(e, a)
    BY <1>2, <1>3, <1>5, <2>1, BelowBelow
  <2>3. Below(e, Protocol!Sleeve)
    BY <1>1, <1>2, <1>5, <2>2, BelowBelow
  <2>4. Below(e, Edges)
    BY <1>1, <1>5, <2>3, BelowBelow
  <2> QED BY <2>1, <2>2, <2>3, <2>4
<1>7. \A c \in Codes : e[c] <= Protocol!MaxSingleName
  BY <1>0, <1>2, <1>5, <1>6 DEF Below, Weights
<1>8. Protocol!SumOver(e, Codes) <= Protocol!MaxGross
  <2>1. /\ Protocol!SumOver(e, Codes) \in Nat /\ Protocol!SumOver(d, Codes) \in Nat
        /\ Protocol!SumOver(e, Codes) <= Protocol!SumOver(d, Codes)
    BY <1>0, <1>4, <1>5, BelowSums
  <2> QED BY <1>0, <1>4, <2>1
<1>9. ASSUME NEW i \in Industries PROVE Protocol!SumOver(e, Peers(i)) <= Protocol!MaxIndustry
  <2>1. /\ Protocol!SumOver(e, Peers(i)) \in Nat /\ Protocol!SumOver(b, Peers(i)) \in Nat
        /\ Protocol!SumOver(e, Peers(i)) <= Protocol!SumOver(b, Peers(i))
    BY <1>0, <1>3, <1>5, <1>6, BelowSums
  <2> QED BY <1>0, <1>3, <2>1
<1>10. Protocol!Bounded = e
  BY DEF Protocol!Bounded, e, d, b, a
<1> QED BY <1>5, <1>6, <1>7, <1>8, <1>9, <1>10

(* What the researcher checks of weights. *)
WithinLimits(w) ==
  /\ w \in Weights /\ \A c \in Codes : w[c] <= Protocol!MaxSingleName
  /\ Protocol!SumOver(w, Codes) <= Protocol!MaxGross
  /\ \A i \in Industries : Protocol!SumOver(w, Peers(i)) <= Protocol!MaxIndustry

(* AllocationValid, of any allocation *)
ValidFor(a) ==
  /\ a.risk \in {"normal", "warning", "no_new_positions", "force_reduce"}
  /\ DOMAIN a.weights \subseteq Codes /\ DOMAIN a.amounts = DOMAIN a.weights
  /\ \A c \in DOMAIN a.weights : /\ a.weights[c] \in 0 .. Protocol!MaxSingleName
                                 /\ a.amounts[c] = a.weights[c] * Capital
  /\ a.gross = Protocol!SumOver(a.weights, DOMAIN a.weights) /\ a.gross <= Protocol!MaxGross
  /\ a.loss \in 0 .. Protocol!MaxLoss
  /\ \A i \in Industries :
       Protocol!SumOver(a.weights, {c \in DOMAIN a.weights : inputs.industry[c] = i}) <= Protocol!MaxIndustry

LEMMA AllocatedValid ==
  ASSUME inputs \in Protocol!Evidence, NEW w, WithinLimits(w), NEW risk, NEW alloc,
         alloc = Protocol!Allocated(w, risk),
         risk \in {"normal", "warning", "no_new_positions", "force_reduce"}
  PROVE  ValidFor(alloc)
<1>1. DOMAIN w = Codes /\ \A c \in Codes : w[c] \in Nat
  BY DEF WithinLimits, Weights
<1>2. /\ alloc.weights = w /\ alloc.risk = risk
      /\ alloc.amounts = [c \in Codes |-> w[c] * Capital]
      /\ alloc.gross = Protocol!SumOver(w, Codes)
      /\ alloc.loss = Protocol!Least(Protocol!SumOver(Protocol!Losses(w), Codes), Protocol!MaxLoss)
  BY <1>1 DEF Protocol!Allocated
<1>3. alloc.loss \in 0 .. Protocol!MaxLoss
  BY <1>2, LossFacts DEF Protocol!Least, Protocol!MaxLoss, WithinLimits
<1>4. \A i \in Industries : Protocol!SumOver(w, {c \in Codes : inputs.industry[c] = i}) <= Protocol!MaxIndustry
  BY DEF WithinLimits, Peers
<1>5. \A c \in Codes : w[c] \in 0 .. Protocol!MaxSingleName
  BY <1>1 DEF WithinLimits, Protocol!MaxSingleName
<1>6. Protocol!SumOver(w, Codes) <= Protocol!MaxGross
  BY DEF WithinLimits
<1> QED BY <1>1, <1>2, <1>3, <1>4, <1>5, <1>6 DEF ValidFor

LEMMA DrawdownTyped == inputs \in Protocol!Evidence => Protocol!Drawdown \in Int
<1> SUFFICES ASSUME inputs \in Protocol!Evidence PROVE Protocol!Drawdown \in Int
  OBVIOUS
<1> DEFINE top == Protocol!Greatest(inputs.assets, Capital)
<1>1. top \in Nat /\ top > 0 /\ inputs.assets \in Nat
  BY InputsTyped DEF Protocol!Greatest
<1> HIDE DEF top
<1>2. ((top - inputs.assets) * 1000) \div top \in Int
  BY <1>1
<1>3. Protocol!Drawdown = IF inputs.kill THEN 200
                 ELSE Protocol!Greatest(0, ((top - inputs.assets) * 1000) \div top)
  BY DEF Protocol!Drawdown, top
<1> QED BY <1>2, <1>3 DEF Protocol!Greatest

LEMMA ReducedValid ==
  ASSUME inputs \in Protocol!Evidence, NEW S, S \subseteq Codes, NEW alloc,
         alloc = Protocol!Allocated([c \in S |-> 0], "force_reduce")
  PROVE  ValidFor(alloc)
<1> DEFINE z == [c \in S |-> 0]
<1>0. IsFiniteSet(S) /\ DOMAIN z = S /\ \A c \in S : z[c] = 0
  BY InputsTyped, FS_Subset
<1>1. DOMAIN Protocol!Losses(z) = S /\ \A c \in S : Protocol!Losses(z)[c] = 0
  <2>1. \A c \in S : Protocol!LossRate(c) \in Int
    BY ForecastTyped DEF Protocol!LossRate, Protocol!Greatest
  <2> QED BY <1>0, <2>1 DEF Protocol!Losses
<1>2. ASSUME NEW f, \A c \in S : f[c] = 0, NEW T, T \subseteq S
      PROVE  Protocol!SumOver(f, T) = 0
  <2>1. IsFiniteSet(T) /\ 1 \in Nat /\ 0 \in Nat
    BY <1>0, <1>2, FS_Subset
  <2>2. \A c \in T : f[c] \in Nat /\ f[c] <= 0
    BY <1>2
  <2>3. \A c \in T : 1 * f[c] <= 0 * f[c]
    BY <2>2
  <2>4. Protocol!SumOver(f, T) \in Nat /\ 1 * Protocol!SumOver(f, T) <= 0 * Protocol!SumOver(f, T)
    BY <2>1, <2>2, <2>3, SumsCompare
  <2> QED BY <2>4
<1>3. Protocol!SumOver(z, S) = 0 /\ Protocol!SumOver(Protocol!Losses(z), S) = 0
  BY <1>0, <1>1, <1>2
<1>4. \A i : Protocol!SumOver(z, {c \in S : inputs.industry[c] = i}) = 0
  BY <1>0, <1>2
<1> HIDE DEF z
<1>5. /\ alloc.weights = z /\ alloc.risk = "force_reduce"
      /\ alloc.amounts = [c \in S |-> z[c] * Capital]
      /\ alloc.gross = Protocol!SumOver(z, S)
      /\ alloc.loss = Protocol!Least(Protocol!SumOver(Protocol!Losses(z), S), Protocol!MaxLoss)
  BY <1>0 DEF Protocol!Allocated, z
<1>6. alloc.loss \in 0 .. Protocol!MaxLoss /\ Protocol!SumOver(z, S) <= Protocol!MaxGross
  BY <1>3, <1>5 DEF Protocol!Least, Protocol!MaxLoss, Protocol!MaxGross
<1>7. \A c \in S : z[c] \in 0 .. Protocol!MaxSingleName
  BY <1>0 DEF Protocol!MaxSingleName
<1>8. \A i \in Industries : Protocol!SumOver(z, {c \in S : inputs.industry[c] = i}) <= Protocol!MaxIndustry
  BY <1>4 DEF Protocol!MaxIndustry
<1> QED BY <1>0, <1>5, <1>6, <1>7, <1>8 DEF ValidFor

(* What preview stores the researcher never refuses. *)
LEMMA PreviewValid ==
  ASSUME inputs \in Protocol!Evidence, NEW alloc, alloc = Protocol!AllocatePortfolio
  PROVE  ValidFor(alloc)
<1> DEFINE m == [c \in Codes |-> Protocol!Least(Protocol!Bounded[c], inputs.held[c])]
<1>1. WithinLimits(Protocol!Bounded)
  BY BoundedFacts DEF WithinLimits
<1>2. WithinLimits(m)
  <2>0. /\ IsFiniteSet(Codes) /\ Protocol!MaxGross \in Nat /\ Protocol!MaxSingleName \in Nat
        /\ Protocol!MaxIndustry \in Nat
        /\ \A i : IsFiniteSet(Peers(i)) /\ Peers(i) \subseteq Codes
    BY InputsTyped, FS_Subset DEF Protocol!MaxGross, Protocol!MaxSingleName, Protocol!MaxIndustry, Peers
  <2>1. \A c \in Codes :
          /\ Protocol!Bounded[c] \in Nat /\ inputs.held[c] \in Nat
          /\ Protocol!Bounded[c] <= Protocol!MaxSingleName
    BY BoundedFacts, InputsTyped DEF Weights
  <2>2. \A c \in Codes : m[c] \in Nat /\ m[c] <= Protocol!Bounded[c] /\ m[c] <= Protocol!MaxSingleName
    BY <2>0, <2>1 DEF Protocol!Least
  <2>3. m \in Weights /\ Below(m, Protocol!Bounded) /\ Protocol!Bounded \in Weights
    BY <2>2, BoundedFacts DEF Weights, Below
  <2> HIDE DEF m
  <2>4. Protocol!SumOver(m, Codes) <= Protocol!MaxGross
    <3>1. /\ Protocol!SumOver(m, Codes) \in Nat /\ Protocol!SumOver(Protocol!Bounded, Codes) \in Nat
          /\ Protocol!SumOver(m, Codes) <= Protocol!SumOver(Protocol!Bounded, Codes)
      BY <2>0, <2>3, BelowSums
    <3> QED BY <2>0, <3>1, BoundedFacts
  <2>5. ASSUME NEW i \in Industries PROVE Protocol!SumOver(m, Peers(i)) <= Protocol!MaxIndustry
    <3>1. /\ Protocol!SumOver(m, Peers(i)) \in Nat /\ Protocol!SumOver(Protocol!Bounded, Peers(i)) \in Nat
          /\ Protocol!SumOver(m, Peers(i)) <= Protocol!SumOver(Protocol!Bounded, Peers(i))
      BY <2>0, <2>3, BelowSums
    <3> QED BY <2>0, <3>1, BoundedFacts
  <2> QED BY <2>2, <2>3, <2>4, <2>5 DEF WithinLimits
<1>3. CASE Protocol!Drawdown >= 200
  <2>1. alloc = Protocol!Allocated([c \in {d \in Codes : inputs.held[d] > 0} |-> 0], "force_reduce")
    BY <1>3 DEF Protocol!AllocatePortfolio
  <2> QED BY <2>1, ReducedValid
<1>4. CASE ~(Protocol!Drawdown >= 200)
  <2>1. \/ alloc = Protocol!Allocated(m, "no_new_positions")
        \/ alloc = Protocol!Allocated(Protocol!Bounded, "warning")
        \/ alloc = Protocol!Allocated(Protocol!Bounded, "normal")
    BY <1>4 DEF Protocol!AllocatePortfolio
  <2> HIDE DEF m
  <2> QED BY <1>1, <1>2, <2>1, AllocatedValid
<1> QED BY <1>3, <1>4

(* A portfolio that may take positions has weights only where there is an  *)
(* edge.                                                                   *)
LEMMA WeightHasEdge ==
  ASSUME inputs \in Protocol!Evidence, NEW alloc, alloc = Protocol!AllocatePortfolio,
         alloc.risk \notin {"force_reduce", "no_new_positions"},
         NEW c \in Codes, c \in DOMAIN alloc.weights, alloc.weights[c] > 0
  PROVE  /\ inputs.forecast[c].up > 500 /\ inputs.forecast[c].median > 0
         /\ Protocol!Drawdown < 180
<1>1. /\ Protocol!Bounded \in Weights /\ Edges \in Weights /\ Below(Protocol!Bounded, Edges)
  BY BoundedFacts, SleeveFacts
<1>2. Protocol!Drawdown \in Int
  BY DrawdownTyped
<1>3. ~(Protocol!Drawdown >= 200) /\ ~(Protocol!Drawdown \in 180 .. 199)
  BY DEF Protocol!AllocatePortfolio, Protocol!Allocated
<1>4. alloc.weights = Protocol!Bounded
  BY <1>3 DEF Protocol!AllocatePortfolio, Protocol!Allocated
<1>5. Protocol!Bounded[c] > 0
  BY <1>1, <1>4 DEF Weights
<1>6. Edge(c) > 0
  BY <1>1, <1>5 DEF Below, Weights, Edges
<1> QED BY <1>2, <1>3, <1>4, <1>5, <1>6, EdgeFacts

(* What preview has stored is within the limits, and has weights only      *)
(* where there is an edge.                                                 *)
AllocationSound ==
  /\ Protocol!AllocationValid
  /\ allocation.risk \in {"force_reduce", "no_new_positions"} \/
     \A c \in Codes : Protocol!Target(c) > 0
            => /\ inputs.forecast[c].up > 500 /\ inputs.forecast[c].median > 0
               /\ allocation.weights[c] > 0 /\ Protocol!Drawdown < 180

ClaimsFollow ==
  \A c \in Codes : research[c].target = Protocol!Target(c) /\ research[c].direction \in {"up", "down"}

ReviewsAvoid == \A c \in Codes : reviews[c].concerns # {} => reviews[c].direction = "avoid"

(* A round in which every concern is a conflict that stays. *)
Heard(round) == \A c \in Codes : reviews[c].concerns # {} => round[c].conflict /\ ~round[c].resolved

CommitteeSays ==
  \A c \in committee.approved :
    /\ c \in Codes /\ research[c].target > 0
    /\ committee.answered[c] # {} => reviews[c].concerns # {}
    /\ reviews[c].concerns # {} => c \in committee.severe

OfficerSays ==
  \A c \in officer.candidates :
    c \in committee.approved /\ allocation.risk \notin {"force_reduce", "no_new_positions"}

(* What each actor has said, from its turn on. *)
SaidInv ==
  /\ inputs \in Protocol!Evidence
  /\ stage \in {"preview", "researcher", "contrarian", "examine", "committee", "officer", "done"}
  /\ stage # "preview" => AllocationSound
  /\ stage \notin {"preview", "researcher"} => ClaimsFollow
  /\ stage \notin {"preview", "researcher", "contrarian"} => ReviewsAvoid
  /\ stage \in {"preview", "researcher", "contrarian"} => rounds = <<>>
  /\ stage = "examine" => rounds = <<>> \/ \E x : rounds = <<x>> /\ Heard(x)
  /\ stage \in {"committee", "officer", "done"} => \E x, y : rounds = <<x, y>> /\ Heard(x)
  /\ stage \in {"officer", "done"} => CommitteeSays
  /\ stage = "done" => OfficerSays

LEMMA ActorsQuote ==
  ASSUME SaidInv
  PROVE  /\ \A c \in Codes :
               Protocol!Claims[c].target = Protocol!Target(c) /\ Protocol!Claims[c].direction \in {"up", "down"}
         /\ \A c \in Codes : Protocol!Reviews[c].concerns # {} => Protocol!Reviews[c].direction = "avoid"
  BY DEF Protocol!Claims, Protocol!Reviews

LEMMA ExchangeHeard ==
  ASSUME ClaimsFollow, ReviewsAvoid
  PROVE  Heard([c \in Codes |-> Protocol!Exchange(research[c], reviews[c])])
<1> SUFFICES ASSUME NEW c \in Codes, reviews[c].concerns # {}
             PROVE  LET x == Protocol!Exchange(research[c], reviews[c]) IN x.conflict /\ ~x.resolved
  BY DEF Heard
<1>1. Protocol!Conflict(research[c], reviews[c])
  BY DEF ClaimsFollow, ReviewsAvoid, Protocol!Conflict
<1> HIDE DEF Protocol!Conflict
<1> QED BY <1>1, Zenon DEF Protocol!Exchange

LEMMA PreviewSaid == SaidInv /\ Protocol!Preview => SaidInv'
<1> SUFFICES ASSUME SaidInv, Protocol!Preview PROVE SaidInv'
  OBVIOUS
<1>1. /\ stage = "preview" /\ stage' = "researcher" /\ inputs' = inputs /\ rounds' = <<>>
      /\ allocation' = Protocol!AllocatePortfolio /\ inputs \in Protocol!Evidence
  BY DEF Protocol!Preview, SaidInv
<1>2. Protocol!AllocationValid'
  <2>1. ValidFor(allocation')
    BY <1>1, PreviewValid
  <2> QED BY <1>1, <2>1 DEF ValidFor, Protocol!AllocationValid
<1>3. AllocationSound'
  <2> SUFFICES ASSUME allocation'.risk \notin {"force_reduce", "no_new_positions"},
                      NEW c \in Codes, Protocol!Target(c)' > 0
               PROVE  (/\ inputs.forecast[c].up > 500 /\ inputs.forecast[c].median > 0
                       /\ allocation.weights[c] > 0 /\ Protocol!Drawdown < 180)'
    BY <1>2 DEF AllocationSound
  <2>1. c \in DOMAIN allocation'.weights /\ allocation'.weights[c] > 0
    BY DEF Protocol!Target
  <2>2. /\ inputs.forecast[c].up > 500 /\ inputs.forecast[c].median > 0
        /\ Protocol!Drawdown < 180
    BY <1>1, <2>1, WeightHasEdge
  <2> QED BY <1>1, <2>1, <2>2 DEF Protocol!Drawdown
<1> QED BY <1>1, <1>3 DEF SaidInv

LEMMA ResearcherSaid == SaidInv /\ Protocol!Researcher => SaidInv'
<1> SUFFICES ASSUME SaidInv, Protocol!Researcher PROVE SaidInv'
  OBVIOUS
<1>1. Protocol!ForecastsValid /\ AllocationSound /\ inputs \in Protocol!Evidence
  <2>1. inputs \in Protocol!Evidence /\ AllocationSound
    BY DEF SaidInv, Protocol!Researcher
  <2>2. ASSUME NEW c \in Codes
        PROVE  LET f == inputs.forecast[c] IN
               f.up \in 0 .. 1000 /\ f.low <= f.median /\ f.median <= f.high
    <3> DEFINE f == inputs.forecast[c]
    <3>1. f.up \in Int /\ 0 <= f.up /\ f.up <= 1000 /\ f.low <= f.median /\ f.median <= f.high
      BY <2>1, ForecastTyped
    <3> HIDE DEF f
    <3>2. f.up \in 0 .. 1000 /\ f.low <= f.median /\ f.median <= f.high
      BY <3>1
    <3> QED BY <3>2 DEF f
  <2> QED BY <2>1, <2>2 DEF Protocol!ForecastsValid
<1>2. /\ research' = Protocol!Claims /\ stage' = "contrarian" /\ rounds' = rounds /\ rounds = <<>>
      /\ UNCHANGED <<inputs, allocation>>
  BY <1>1 DEF Protocol!Researcher, AllocationSound, SaidInv
<1>3. ClaimsFollow'
  BY <1>2, ActorsQuote DEF ClaimsFollow, Protocol!Target
<1>4. AllocationSound'
  BY <1>1, <1>2 DEF AllocationSound, Protocol!AllocationValid, Protocol!Target, Protocol!Drawdown
<1> QED BY <1>1, <1>2, <1>3, <1>4 DEF SaidInv

(* Steps after which what was said before stays. *)
LEMMA SoundStays ==
  ASSUME AllocationSound, UNCHANGED <<inputs, allocation>>
  PROVE  AllocationSound'
  BY DEF AllocationSound, Protocol!AllocationValid, Protocol!Target, Protocol!Drawdown

LEMMA ContrarianSaid == SaidInv /\ Protocol!ContrarianBlind => SaidInv'
<1> SUFFICES ASSUME SaidInv, Protocol!ContrarianBlind PROVE SaidInv'
  OBVIOUS
<1>1. /\ stage = "contrarian" /\ stage' = "examine" /\ reviews' = Protocol!Reviews /\ rounds' = rounds
      /\ UNCHANGED <<inputs, allocation, research>>
      /\ inputs \in Protocol!Evidence /\ AllocationSound /\ ClaimsFollow /\ rounds = <<>>
  BY DEF Protocol!ContrarianBlind, SaidInv
<1>2. AllocationSound' /\ ClaimsFollow'
  BY <1>1, SoundStays DEF ClaimsFollow, Protocol!Target
<1>3. ReviewsAvoid'
  BY <1>1, ActorsQuote DEF ReviewsAvoid
<1> QED BY <1>1, <1>2, <1>3 DEF SaidInv

LEMMA AppendToOne == ASSUME NEW x, NEW y PROVE Append(<<x>>, y) = <<x, y>>
<1>1. /\ Len(<<x>>) = 1 /\ <<x>>[1] = x /\ <<x>> \in Seq({x, y})
  OBVIOUS
<1>2. Append(<<x>>, y) \in Seq({x, y}) /\ Len(Append(<<x>>, y)) = 2
  BY <1>1
<1>3. Append(<<x>>, y)[1] = x /\ Append(<<x>>, y)[2] = y
  BY <1>1
<1>4. <<x, y>> \in Seq({x, y}) /\ Len(<<x, y>>) = 2
  OBVIOUS
<1>5. \A i \in 1 .. 2 : Append(<<x>>, y)[i] = <<x, y>>[i]
  <2>1. \A i \in 1 .. 2 : i = 1 \/ i = 2
    OBVIOUS
  <2> QED BY <1>3, <2>1
<1> QED BY <1>2, <1>4, <1>5, SeqEqual

LEMMA ExamineSaid == SaidInv /\ Protocol!CrossExamine => SaidInv'
<1> SUFFICES ASSUME SaidInv, Protocol!CrossExamine PROVE SaidInv'
  OBVIOUS
<1> DEFINE found == [c \in Codes |-> Protocol!Exchange(research[c], reviews[c])]
<1>1. /\ stage = "examine" /\ rounds' = Append(rounds, found)
      /\ stage' = IF Len(rounds') = 2 THEN "committee" ELSE "examine"
      /\ UNCHANGED <<inputs, allocation, research, reviews>>
      /\ inputs \in Protocol!Evidence /\ AllocationSound /\ ClaimsFollow /\ ReviewsAvoid
      /\ rounds = <<>> \/ \E x : rounds = <<x>> /\ Heard(x)
  BY DEF Protocol!CrossExamine, SaidInv
<1>2. AllocationSound' /\ ClaimsFollow' /\ ReviewsAvoid'
  BY <1>1, SoundStays DEF ClaimsFollow, Protocol!Target, ReviewsAvoid
<1>3. PICK y : y = found /\ Heard(y)
  BY <1>1, ExchangeHeard
<1> HIDE DEF found
<1>4. \A x : Heard(x) => Heard(x)'
  BY <1>1 DEF Heard
<1>5. CASE rounds = <<>>
  <2>1. rounds' = <<y>>
    BY <1>1, <1>3, <1>5
  <2>2. Len(<<y>>) = 1
    OBVIOUS
  <2> QED BY <1>1, <1>2, <1>3, <1>4, <2>1, <2>2 DEF SaidInv
<1>6. ASSUME NEW x, rounds = <<x>>, Heard(x) PROVE SaidInv'
  <2>1. rounds' = <<x, y>>
    BY <1>1, <1>3, <1>6, AppendToOne
  <2>2. Len(<<x, y>>) = 2
    OBVIOUS
  <2>3. stage' = "committee" /\ Heard(x)'
    BY <1>1, <1>4, <1>6, <2>1, <2>2
  <2> QED BY <1>1, <1>2, <2>1, <2>3 DEF SaidInv
<1> QED BY <1>1, <1>5, <1>6

LEMMA CommitteeSaid == SaidInv /\ Protocol!InvestmentCommittee => SaidInv'
<1> SUFFICES ASSUME SaidInv, Protocol!InvestmentCommittee PROVE SaidInv'
  OBVIOUS
<1>1. /\ stage = "committee" /\ stage' = "officer" /\ rounds' = rounds
      /\ committee'.approved = {c \in Codes : Protocol!Approves(c)}
      /\ committee'.answered = [c \in Codes |-> IF Protocol!Approves(c) THEN reviews[c].concerns ELSE {}]
      /\ committee'.severe = {c \in Codes : Protocol!Severe(c)}
      /\ UNCHANGED <<inputs, allocation, research, reviews>>
      /\ inputs \in Protocol!Evidence /\ AllocationSound /\ ClaimsFollow /\ ReviewsAvoid
      /\ \E x, y : rounds = <<x, y>> /\ Heard(x)
  BY DEF Protocol!InvestmentCommittee, SaidInv
<1>2. AllocationSound' /\ ClaimsFollow' /\ ReviewsAvoid' /\ \A x : Heard(x) => Heard(x)'
  BY <1>1, SoundStays DEF ClaimsFollow, Protocol!Target, ReviewsAvoid, Heard
<1>3. ASSUME NEW c \in Codes, reviews[c].concerns # {} PROVE Protocol!Severe(c)
  <2>1. PICK x, y : rounds = <<x, y>> /\ Heard(x)
    BY <1>1
  <2>2. 1 \in DOMAIN rounds /\ rounds[1][c].conflict /\ ~rounds[1][c].resolved
    BY <1>3, <2>1 DEF Heard
  <2> QED BY <2>2 DEF Protocol!Severe, Protocol!Conflicts
<1>4. CommitteeSays'
  <2>1. \A c \in Codes : Protocol!Approves(c) => research[c].target > 0
    BY DEF Protocol!Approves
  <2> HIDE DEF Protocol!Approves, Protocol!Severe
  <2> QED BY <1>1, <1>3, <2>1 DEF CommitteeSays
<1> QED BY <1>1, <1>2, <1>4 DEF SaidInv

LEMMA OfficerSaid == SaidInv /\ Protocol!RiskOfficer => SaidInv'
<1> SUFFICES ASSUME SaidInv, Protocol!RiskOfficer PROVE SaidInv'
  OBVIOUS
<1>1. /\ stage = "officer" /\ stage' = "done"
      /\ UNCHANGED <<inputs, allocation, research, reviews, rounds, committee>>
      /\ inputs \in Protocol!Evidence /\ AllocationSound /\ ClaimsFollow /\ ReviewsAvoid /\ CommitteeSays
      /\ \E x, y : rounds = <<x, y>> /\ Heard(x)
  BY DEF Protocol!RiskOfficer, SaidInv
<1>2. AllocationSound' /\ ClaimsFollow' /\ ReviewsAvoid' /\ CommitteeSays' /\ \A x : Heard(x) => Heard(x)'
  BY <1>1, SoundStays DEF ClaimsFollow, Protocol!Target, ReviewsAvoid, Heard, CommitteeSays
<1>3. OfficerSays'
  BY <1>1 DEF Protocol!RiskOfficer, OfficerSays
<1> QED BY <1>1, <1>2, <1>3 DEF SaidInv

LEMMA SaidIsSound == SaidInv => Protocol!DecisionSound
<1> SUFFICES ASSUME SaidInv PROVE Protocol!DecisionSound
  OBVIOUS
<1>1. Protocol!AllocationAccepted
  BY DEF SaidInv, Protocol!AllocationAccepted
<1>2. Protocol!NoTradeConditionsHold
  <2> SUFFICES ASSUME stage = "done", NEW c \in officer.candidates
               PROVE  /\ inputs.forecast[c].up > 500 /\ inputs.forecast[c].median > 0
                      /\ allocation.weights[c] > 0 /\ Protocol!Drawdown < 180
    BY DEF Protocol!NoTradeConditionsHold
  <2>1. /\ c \in committee.approved /\ allocation.risk \notin {"force_reduce", "no_new_positions"}
        /\ CommitteeSays /\ ClaimsFollow /\ AllocationSound
    BY DEF SaidInv, OfficerSays
  <2>2. c \in Codes /\ Protocol!Target(c) > 0
    BY <2>1 DEF CommitteeSays, ClaimsFollow
  <2> QED BY <2>1, <2>2 DEF AllocationSound
<1>3. Protocol!OverrulingIsSevere
  BY DEF SaidInv, Protocol!OverrulingIsSevere, CommitteeSays
<1> QED BY <1>1, <1>2, <1>3 DEF Protocol!DecisionSound

(* However the actors argue, what is decided follows from the evidence:    *)
(* the researcher never refuses what preview stored, a candidate that the  *)
(* officer leaves has an edge, a positive median and a target below the    *)
(* drawdown limit, and overruling the contrarian is severe.  Any           *)
(* instruments, forecasts, industries, holdings and capital.               *)
THEOREM DecisionSoundCorrect == Protocol!DecisionSpec => []DecisionSound
<1>1. Protocol!DecisionInit => SaidInv
  BY DEF Protocol!DecisionInit, Protocol!Undecided, SaidInv
<1>2. SaidInv /\ [Protocol!DecisionNext]_(Protocol!decision) => SaidInv'
  <2> SUFFICES ASSUME SaidInv, [Protocol!DecisionNext]_(Protocol!decision) PROVE SaidInv'
    OBVIOUS
  <2>1. CASE Protocol!DecisionNext
    BY <2>1, PreviewSaid, ResearcherSaid, ContrarianSaid, ExamineSaid, CommitteeSaid, OfficerSaid
       DEF Protocol!DecisionNext
  <2>2. CASE UNCHANGED Protocol!decision
    <3>1. UNCHANGED <<inputs, stage, allocation, research, reviews, rounds, committee, officer>>
      BY <2>2 DEF Protocol!decision
    <3>2. AllocationSound => AllocationSound'
      BY <3>1, SoundStays
    <3>3. /\ (ClaimsFollow => ClaimsFollow') /\ (ReviewsAvoid => ReviewsAvoid')
          /\ (CommitteeSays => CommitteeSays') /\ (OfficerSays => OfficerSays')
          /\ \A x : Heard(x) => Heard(x)'
      BY <3>1 DEF ClaimsFollow, Protocol!Target, ReviewsAvoid, CommitteeSays, OfficerSays, Heard
    <3> QED BY <3>1, <3>2, <3>3 DEF SaidInv
  <2> QED BY <2>1, <2>2
<1> QED BY <1>1, <1>2, SaidIsSound, PTL DEF Protocol!DecisionSpec, DecisionSound
-----------------------------------------------------------------------------
ReportPcs ==
  {"idle", "named", "assemble", "lost", "graph", "judge", "revise", "review", "plan", "planned",
   "asking", "joining", "closing", "text", "end", "broken", "done", "dead"}

Writers == Engines \cup {"single"}

ReportTexts == [by : Writers \cup {"nobody"}, size : {"none", "part", "full"}]

ReportRows == [status : {"none", "generating", "ready", "failed", "partial"}, text : ReportTexts]

Generators ==
  [kind : Report!Kinds, engine : Writers, pc : ReportPcs, within : {"nothing", "try", "handler"},
   ran : SUBSET (Report!Analysts \cup {"planner", "editor"}), revisions : Nat, judged : Nat,
   passed : BOOLEAN,
   asked : [Questions -> {"no", "waiting", "running", "answered", "used", "cancelled"}],
   late : BOOLEAN, text : ReportTexts, saved : BOOLEAN]

(* The draft of generator x went through the whole graph. *)
Judged(x) ==
  /\ Report!Analysts \subseteq x.ran /\ x.judged = x.revisions
  /\ x.passed \/ x.revisions = MaxRevisions

Researching == {"plan", "planned", "asking", "joining", "closing"}
Drafting    == {"graph", "judge", "revise", "review"}

DraftOK(x) ==
  /\ x.kind = "research" => x.engine = "single"
  /\ x.pc \in Researching => x.kind = "research"
  /\ x.pc \in Drafting => x.engine = "graph"
  /\ x.pc \in Researching \cup Drafting => x.within = "try"
  /\ x.pc \in {"text", "end"} => x.within # "nothing"
  /\ x.pc \in {"judge", "revise"} => Report!Analysts \subseteq x.ran
  /\ x.revisions <= MaxRevisions
  /\ x.pc = "revise" => x.revisions < MaxRevisions
  /\ x.pc = "review" => Judged(x)
  /\ x.pc = "text" /\ x.engine = "graph" /\ x.within = "try" => Judged(x)
  /\ x.text.by = "graph" =>
       /\ x.engine = "graph" /\ x.within = "try"
       /\ x.pc \in {"text", "end", "done", "dead"} /\ Judged(x)

(* ... and its row y, after n faults. *)
RowOK(x, y, n) ==
  /\ y.status = "ready" => x.saved /\ y.text.size = "full"
  /\ x.saved => y.status # "generating" /\ x.pc \in {"end", "done", "dead"}
  /\ x.pc \in {"idle", "named"} => y.status # "generating"
  /\ n = 0 =>
       /\ x.within # "handler" /\ x.pc \notin {"lost", "broken", "dead"}
       /\ x.pc \in {"end", "done"} => y.status # "generating"

ReportsInv ==
  /\ gen \in [Ids -> Generators] /\ row \in [Ids -> ReportRows] /\ faults \in Nat
  /\ \A g \in Ids : DraftOK(gen[g]) /\ RowOK(gen[g], row[g], faults)

(* What a step of generator g comes to. *)
ReportBecomes(g, x, y) ==
  /\ gen' = [gen EXCEPT ![g] = x] /\ row' = [row EXCEPT ![g] = y]
  /\ faults' \in Nat /\ faults' >= faults
  /\ x \in Generators /\ y \in ReportRows
  /\ DraftOK(x) /\ RowOK(x, y, faults')
  /\ row[g].status = "ready" => y = row[g]

ReportsKept == ReportsInv' /\ \A g \in Ids : row[g].status = "ready" => row'[g] = row[g]

LEMMA RowLater ==
  ASSUME NEW x, NEW y, NEW n \in Nat, NEW m \in Nat, m >= n, RowOK(x, y, n)
  PROVE  RowOK(x, y, m)
  BY DEF RowOK

LEMMA StepKeeps ==
  ASSUME ReportsInv, NEW g \in Ids, NEW x, NEW y, ReportBecomes(g, x, y)
  PROVE  ReportsKept
<1>1. /\ gen' \in [Ids -> Generators] /\ row' \in [Ids -> ReportRows] /\ faults' \in Nat
  BY DEF ReportsInv, ReportBecomes
<1>2. ASSUME NEW h \in Ids
      PROVE  /\ DraftOK(gen'[h]) /\ RowOK(gen'[h], row'[h], faults')
             /\ row[h].status = "ready" => row'[h] = row[h]
  <2>1. CASE h = g
    BY <2>1 DEF ReportsInv, ReportBecomes
  <2>2. CASE h # g
    <3>1. gen'[h] = gen[h] /\ row'[h] = row[h]
      BY <2>2 DEF ReportsInv, ReportBecomes
    <3>2. RowOK(gen[h], row[h], faults')
      BY RowLater DEF ReportsInv, ReportBecomes
    <3> QED BY <3>1, <3>2 DEF ReportsInv
  <2> QED BY <2>1, <2>2
<1> QED BY <1>1, <1>2 DEF ReportsInv, ReportsKept

(* Only the generator moves. *)
LEMMA MoveKeeps ==
  ASSUME ReportsInv, NEW g \in Ids, NEW x \in Generators, Report!Goes(g, x), UNCHANGED row,
         faults' \in Nat, faults' >= faults, DraftOK(x), RowOK(x, row[g], faults')
  PROVE  ReportsKept
<1>1. ReportBecomes(g, x, row[g])
  BY DEF ReportBecomes, Report!Goes, ReportsInv
<1> QED BY <1>1, StepKeeps

LEMMA FaultCounts ==
  ASSUME ReportsInv, Report!Fault
  PROVE  faults' \in Nat /\ faults' > 0 /\ faults' >= faults
  BY DEF ReportsInv, Report!Fault

LEMMA PersistRow ==
  ASSUME ReportsInv, NEW g \in Ids, NEW state \in {"generating", "ready", "failed", "partial"},
         Report!Persist(g, state)
  PROVE  \E y \in ReportRows : /\ row' = [row EXCEPT ![g] = y]
                               /\ y.status = state /\ y.text = gen[g].text
<1> DEFINE y == [status |-> state, text |-> gen[g].text]
<1>1. y \in ReportRows
  BY DEF ReportsInv, Generators, ReportRows
<1> QED BY <1>1 DEF Report!Persist

(* A step of the generator that stores nothing and meets no fault, ... *)
LEMMA QuietStep ==
  ASSUME ReportsInv, NEW g \in Ids,
         \/ Report!Ask(g) \/ Report!Node(g) \/ Report!Judge(g) \/ Report!Revise(g) \/ Report!Review(g)
         \/ Report!Plan(g) \/ Report!Pool(g) \/ Report!Start(g) \/ Report!Answer(g) \/ Report!Deadline(g)
         \/ Report!Take(g) \/ Report!Join(g) \/ Report!Write(g) \/ Report!End(g)
  PROVE  ReportsKept
<1> DEFINE x == gen[g]
<1>0. /\ x \in Generators /\ DraftOK(x) /\ RowOK(x, row[g], faults) /\ faults \in Nat
      /\ MaxRevisions \in Nat
  BY ReportsAssumption DEF ReportsInv
<1>m. ASSUME NEW new \in Generators, Report!Goes(g, new), UNCHANGED <<row, faults>>,
             DraftOK(new), RowOK(new, row[g], faults)
      PROVE  ReportsKept
  BY <1>0, <1>m, MoveKeeps
<1>1. CASE Report!Ask(g)
  <2>1. PICK kind \in Report!Kinds, engine \in Engines :
          /\ x.pc = "idle" /\ (kind = "research" => engine = "single")
          /\ Report!Goes(g, [x EXCEPT !.kind = kind, !.engine = engine, !.pc = "named"])
          /\ UNCHANGED <<row, faults>>
    BY <1>1 DEF Report!Ask, Report!At
  <2> DEFINE new == [x EXCEPT !.kind = kind, !.engine = engine, !.pc = "named"]
  <2>2. /\ new \in Generators /\ new.kind = kind /\ new.engine = engine /\ new.pc = "named"
        /\ new.within = x.within /\ new.ran = x.ran /\ new.revisions = x.revisions
        /\ new.text = x.text /\ new.saved = x.saved
    BY <1>0 DEF Generators, Writers, ReportPcs
  <2>3. DraftOK(new)
    BY <1>0, <2>1, <2>2 DEF DraftOK, Researching, Drafting
  <2>4. RowOK(new, row[g], faults)
    BY <1>0, <2>1, <2>2 DEF RowOK
  <2> QED BY <1>m, <2>1, <2>2, <2>3, <2>4
<1>2. CASE Report!Node(g)
  <2>1. PICK n \in Report!Analysts \cup {"planner", "editor"} :
          /\ x.pc = "graph" /\ Report!Needs(n) \subseteq x.ran
          /\ Report!Goes(g, [x EXCEPT !.ran = @ \cup {n}, !.pc = IF n = "editor" THEN "judge" ELSE "graph"])
          /\ UNCHANGED <<row, faults>>
    BY <1>2 DEF Report!Node, Report!At
  <2> DEFINE new == [x EXCEPT !.ran = @ \cup {n}, !.pc = IF n = "editor" THEN "judge" ELSE "graph"]
  <2>2. /\ new \in Generators /\ new.pc \in {"graph", "judge"}
        /\ new.pc = "judge" => Report!Analysts \subseteq x.ran
        /\ x.ran \subseteq new.ran
        /\ new.kind = x.kind /\ new.engine = x.engine
        /\ new.within = x.within /\ new.revisions = x.revisions
        /\ new.text = x.text /\ new.saved = x.saved
    BY <1>0, <2>1 DEF Generators, ReportPcs, Report!Needs, Report!Analysts
  <2>3. DraftOK(new)
    BY <1>0, <2>1, <2>2 DEF DraftOK, Researching, Drafting
  <2>4. RowOK(new, row[g], faults)
    BY <1>0, <2>1, <2>2 DEF RowOK
  <2> QED BY <1>m, <2>1, <2>2, <2>3, <2>4
<1>3. CASE Report!Judge(g)
  <2>1. PICK pass \in BOOLEAN :
          /\ x.pc = "judge" /\ UNCHANGED <<row, faults>>
          /\ Report!Goes(g, [x EXCEPT !.judged = x.revisions, !.passed = pass,
                                    !.pc = Report!AfterReview(g, pass)])
    BY <1>3 DEF Report!Judge, Report!At
  <2> DEFINE new == [x EXCEPT !.judged = x.revisions, !.passed = pass, !.pc = Report!AfterReview(g, pass)]
  <2>a. Report!AfterReview(g, pass) = IF ~pass /\ x.revisions < MaxRevisions THEN "revise" ELSE "review"
    BY DEF Report!AfterReview
  <2>2. /\ new \in Generators /\ new.pc = Report!AfterReview(g, pass) /\ new.passed = pass
        /\ new.judged = x.revisions /\ new.revisions = x.revisions /\ new.ran = x.ran
        /\ new.kind = x.kind /\ new.engine = x.engine /\ new.within = x.within
        /\ new.text = x.text /\ new.saved = x.saved
    BY <1>0, <2>a DEF Generators, ReportPcs
  <2>b. x.revisions \in Nat
    BY <1>0 DEF Generators
  <2>3. DraftOK(new)
    BY <1>0, <2>1, <2>2, <2>a, <2>b DEF DraftOK, Researching, Drafting, Judged
  <2>4. RowOK(new, row[g], faults)
    BY <1>0, <2>1, <2>2, <2>a DEF RowOK
  <2> QED BY <1>m, <2>1, <2>2, <2>3, <2>4
<1>4. CASE Report!Revise(g)
  <2> DEFINE new == [x EXCEPT !.revisions = @ + 1, !.pc = "judge"]
  <2>1. x.pc = "revise" /\ Report!Goes(g, new) /\ UNCHANGED <<row, faults>>
    BY <1>4 DEF Report!Revise, Report!AfterRevision, Report!At
  <2>a. x.revisions \in Nat /\ x.revisions + 1 \in Nat
    BY <1>0 DEF Generators
  <2>2. /\ new \in Generators /\ new.pc = "judge" /\ new.revisions = x.revisions + 1
        /\ new.ran = x.ran
        /\ new.kind = x.kind /\ new.engine = x.engine /\ new.within = x.within
        /\ new.text = x.text /\ new.saved = x.saved
    BY <1>0, <2>a DEF Generators, ReportPcs
  <2>3. DraftOK(new)
    BY <1>0, <2>1, <2>2, <2>a DEF DraftOK, Researching, Drafting
  <2>4. RowOK(new, row[g], faults)
    BY <1>0, <2>1, <2>2 DEF RowOK
  <2> QED BY <1>m, <2>1, <2>2, <2>3, <2>4
(* What moves the generator on and leaves the draft as it is. *)
<1>n. ASSUME NEW new \in Generators, Report!Goes(g, new), UNCHANGED <<row, faults>>,
             new.kind = x.kind, new.engine = x.engine, new.within = x.within, new.ran = x.ran,
             new.revisions = x.revisions, new.judged = x.judged, new.passed = x.passed,
             new.text = x.text, new.saved = x.saved,
             \/ new.pc = x.pc
             \/ x.pc \in Researching /\ new.pc \in Researching \cup {"text"}
             \/ x.pc = "review" /\ new.pc = "text"
             \/ x.pc = "end" /\ new.pc = "done"
      PROVE  ReportsKept
  <2>3. DraftOK(new)
    BY <1>0, <1>n DEF DraftOK, Researching, Drafting, Judged
  <2>4. RowOK(new, row[g], faults)
    BY <1>0, <1>n DEF RowOK, Researching
  <2> QED BY <1>m, <1>n, <2>3, <2>4
<1>5. CASE Report!Review(g) \/ Report!Pool(g) \/ Report!Join(g) \/ Report!End(g)
  <2>1. PICK next \in {"text", "asking", "done"} :
          /\ Report!Goes(g, [x EXCEPT !.pc = next]) /\ UNCHANGED <<row, faults>>
          /\ \/ x.pc = "review" /\ next = "text"
             \/ x.pc \in Researching /\ next \in Researching \cup {"text"}
             \/ x.pc = "end" /\ next = "done"
    BY <1>5 DEF Report!Review, Report!Pool, Report!Join, Report!End, Report!At, Researching
  <2> DEFINE new == [x EXCEPT !.pc = next]
  <2>2. /\ new \in Generators /\ new.pc = next /\ new.kind = x.kind /\ new.engine = x.engine
        /\ new.within = x.within /\ new.ran = x.ran /\ new.revisions = x.revisions
        /\ new.judged = x.judged /\ new.passed = x.passed /\ new.text = x.text /\ new.saved = x.saved
    BY <1>0 DEF Generators, ReportPcs
  <2> QED BY <1>n, <2>1, <2>2
<1>6. CASE Report!Plan(g) \/ Report!Start(g) \/ Report!Answer(g) \/ Report!Deadline(g) \/ Report!Take(g)
  <2>1. \E asked \in [Questions -> {"no", "waiting", "running", "answered", "used", "cancelled"}],
           late \in BOOLEAN, next \in Researching :
          /\ Report!Goes(g, [x EXCEPT !.asked = asked, !.late = late, !.pc = next])
          /\ UNCHANGED <<row, faults>> /\ x.pc \in Researching
    <3> DEFINE States == {"no", "waiting", "running", "answered", "used", "cancelled"}
               Asks(asked, late, next) ==
                 /\ Report!Goes(g, [x EXCEPT !.asked = asked, !.late = late, !.pc = next])
                 /\ UNCHANGED <<row, faults>> /\ x.pc \in Researching
    <3>0. x.asked \in [Questions -> States] /\ x.late \in BOOLEAN
      BY <1>0 DEF Generators
    <3>1. CASE Report!Plan(g)
      <4>1. PICK plan : /\ x.pc = "plan" /\ UNCHANGED <<row, faults>>
                        /\ Report!Goes(g, [x EXCEPT !.pc = "planned",
                             !.asked = [q \in Questions |-> IF q \in plan THEN "waiting" ELSE "no"]])
        BY <3>1 DEF Report!Plan, Report!At
      <4> DEFINE asked == [q \in Questions |-> IF q \in plan THEN "waiting" ELSE "no"]
      <4>2. [x EXCEPT !.pc = "planned", !.asked = asked]
              = [x EXCEPT !.asked = asked, !.late = x.late, !.pc = "planned"]
        BY <1>0 DEF Generators
      <4>3. asked \in [Questions -> States] /\ Asks(asked, x.late, "planned")
        BY <4>1, <4>2 DEF Researching
      <4> QED BY <3>0, <4>3 DEF Researching
    <3>2. CASE Report!Start(g) \/ Report!Answer(g)
      <4>1. PICK q \in Questions, state \in {"running", "answered"} :
              /\ x.pc \in Researching /\ UNCHANGED <<row, faults>>
              /\ Report!Goes(g, [x EXCEPT !.asked[q] = state])
        BY <3>2 DEF Report!Start, Report!Answer, Report!Works, Report!Asked, Researching
      <4> DEFINE asked == [x.asked EXCEPT ![q] = state]
      <4>2. [x EXCEPT !.asked[q] = state] = [x EXCEPT !.asked = asked, !.late = x.late, !.pc = x.pc]
        BY <1>0 DEF Generators
      <4>3. asked \in [Questions -> States] /\ Asks(asked, x.late, x.pc)
        BY <3>0, <4>1, <4>2
      <4> QED BY <3>0, <4>1, <4>3
    <3>3. CASE Report!Deadline(g)
      <4>1. x.pc = "asking" /\ Report!Goes(g, [x EXCEPT !.late = TRUE]) /\ UNCHANGED <<row, faults>>
        BY <3>3 DEF Report!Deadline, Report!At
      <4>2. [x EXCEPT !.late = TRUE] = [x EXCEPT !.asked = x.asked, !.late = TRUE, !.pc = x.pc]
        BY <1>0 DEF Generators
      <4>3. Asks(x.asked, TRUE, x.pc) /\ x.pc \in Researching
        BY <4>1, <4>2 DEF Researching
      <4> QED BY <3>0, <4>3
    <3>4. CASE Report!Take(g)
      <4> DEFINE cancelled == [q \in Questions |-> IF x.asked[q] = "waiting" THEN "cancelled"
                                                   ELSE x.asked[q]]
      <4>1. PICK q \in Questions, next \in {"asking", "joining"} :
              /\ x.pc = "asking" /\ UNCHANGED <<row, faults>>
              /\ \/ Report!Goes(g, [x EXCEPT !.asked = cancelled, !.pc = "joining"])
                 \/ Report!Goes(g, [x EXCEPT !.asked[q] = "used", !.pc = next])
        BY <3>4, <3>0 DEF Report!Take, Report!At, Report!Asked
      <4> DEFINE used == [x.asked EXCEPT ![q] = "used"]
      <4>2. /\ [x EXCEPT !.asked = cancelled, !.pc = "joining"]
                 = [x EXCEPT !.asked = cancelled, !.late = x.late, !.pc = "joining"]
            /\ [x EXCEPT !.asked[q] = "used", !.pc = next]
                 = [x EXCEPT !.asked = used, !.late = x.late, !.pc = next]
        BY <1>0 DEF Generators
      <4>3. /\ cancelled \in [Questions -> States] /\ used \in [Questions -> States]
            /\ next \in Researching /\ "joining" \in Researching
            /\ Asks(cancelled, x.late, "joining") \/ Asks(used, x.late, next)
        BY <3>0, <4>1, <4>2 DEF Researching
      <4> QED BY <3>0, <4>3
    <3> QED BY <1>6, <3>1, <3>2, <3>3, <3>4
  <2>2. PICK asked \in [Questions -> {"no", "waiting", "running", "answered", "used", "cancelled"}],
             late \in BOOLEAN, next \in Researching :
          /\ Report!Goes(g, [x EXCEPT !.asked = asked, !.late = late, !.pc = next])
          /\ UNCHANGED <<row, faults>> /\ x.pc \in Researching
    BY <2>1
  <2> DEFINE new == [x EXCEPT !.asked = asked, !.late = late, !.pc = next]
  <2>3. /\ new \in Generators /\ new.pc = next /\ new.kind = x.kind /\ new.engine = x.engine
        /\ new.within = x.within /\ new.ran = x.ran /\ new.revisions = x.revisions
        /\ new.judged = x.judged /\ new.passed = x.passed /\ new.text = x.text /\ new.saved = x.saved
    BY <1>0 DEF Generators, ReportPcs, Researching
  <2> QED BY <1>n, <2>2, <2>3
<1>7. CASE Report!Write(g)
  <2> DEFINE engine == IF x.within = "handler" THEN "single" ELSE x.engine
  <2>1. PICK size \in {"part", "full"} :
          /\ x.pc = "text" /\ UNCHANGED <<row, faults>>
          /\ Report!Goes(g, [x EXCEPT !.text = [by |-> engine, size |-> size]])
    BY <1>7 DEF Report!Write, Report!At
  <2> DEFINE new == [x EXCEPT !.text = [by |-> engine, size |-> size]]
  <2>2. /\ new \in Generators /\ new.text.by = engine /\ new.pc = x.pc
        /\ new.kind = x.kind /\ new.engine = x.engine
        /\ new.within = x.within /\ new.ran = x.ran /\ new.revisions = x.revisions
        /\ new.judged = x.judged /\ new.passed = x.passed /\ new.saved = x.saved
        /\ x.within \in {"nothing", "try", "handler"}
    BY <1>0 DEF Generators, ReportTexts, Writers
  <2>3. DraftOK(new)
    BY <1>0, <2>1, <2>2 DEF DraftOK, Researching, Drafting, Judged
  <2>4. RowOK(new, row[g], faults)
    BY <1>0, <2>1, <2>2 DEF RowOK
  <2> QED BY <1>m, <2>1, <2>2, <2>3, <2>4
<1> QED BY <1>1, <1>2, <1>3, <1>4, <1>5, <1>6, <1>7

(* ... and one that ends, whatever it stores: what is stored as ready is   *)
(* complete, and what was stored as an outcome is not stored again.        *)
LEMMA EndStep ==
  ASSUME ReportsInv, NEW g \in Ids, NEW next \in {"end", "done"},
         next = "end" => gen[g].pc = "text",
         \/ Report!Goes(g, [gen[g] EXCEPT !.pc = next]) /\ UNCHANGED row
              /\ \/ Report!Fault
                 \/ UNCHANGED faults /\ gen[g].saved
                 \/ UNCHANGED faults /\ (row[g].status # "generating" \/ faults # 0)
         \/ \E state \in {"ready", "failed", "partial"} :
              /\ Report!Save(g, state, next) /\ (state = "ready" => gen[g].text.size = "full")
  PROVE  ReportsKept
<1> DEFINE x == gen[g]
           new == [x EXCEPT !.pc = next]
           kept == [x EXCEPT !.pc = next, !.saved = TRUE]
<1>0. /\ x \in Generators /\ row[g] \in ReportRows /\ DraftOK(x) /\ RowOK(x, row[g], faults)
      /\ faults \in Nat
  BY DEF ReportsInv
<1>1. /\ new \in Generators /\ new.pc = next /\ new.kind = x.kind /\ new.engine = x.engine
      /\ new.within = x.within /\ new.ran = x.ran /\ new.revisions = x.revisions
      /\ new.judged = x.judged /\ new.passed = x.passed /\ new.text = x.text /\ new.saved = x.saved
  BY <1>0 DEF Generators, ReportPcs
<1>2. /\ kept \in Generators /\ kept.pc = next /\ kept.kind = x.kind /\ kept.engine = x.engine
      /\ kept.within = x.within /\ kept.ran = x.ran /\ kept.revisions = x.revisions
      /\ kept.judged = x.judged /\ kept.passed = x.passed /\ kept.text = x.text /\ kept.saved
  BY <1>0 DEF Generators, ReportPcs
<1>3. DraftOK(new) /\ DraftOK(kept)
  BY <1>0, <1>1, <1>2 DEF DraftOK, Researching, Drafting, Judged
<1> HIDE DEF new, kept
<1>4. CASE /\ Report!Goes(g, new) /\ UNCHANGED row
           /\ \/ Report!Fault
              \/ UNCHANGED faults /\ x.saved
              \/ UNCHANGED faults /\ (row[g].status # "generating" \/ faults # 0)
  <2>1. faults' \in Nat /\ faults' >= faults /\ (Report!Fault => faults' > 0)
    BY <1>0, <1>4, FaultCounts
  <2>2. RowOK(new, row[g], faults')
    BY <1>0, <1>1, <1>4, <2>1 DEF RowOK
  <2> QED BY <1>1, <1>3, <1>4, <2>1, <2>2, MoveKeeps
<1>5. CASE \E state \in {"ready", "failed", "partial"} :
             /\ Report!Save(g, state, next) /\ (state = "ready" => x.text.size = "full")
  <2>1. PICK state \in {"ready", "failed", "partial"} :
          /\ Report!Save(g, state, next) /\ (state = "ready" => x.text.size = "full")
    BY <1>5
  <2>2. CASE ~x.saved /\ Report!Persist(g, state) /\ UNCHANGED faults /\ Report!Goes(g, kept)
    <3>1. PICK y \in ReportRows : /\ row' = [row EXCEPT ![g] = y]
                                  /\ y.status = state /\ y.text = x.text
      BY <2>2, PersistRow
    <3>2. RowOK(kept, y, faults')
      BY <1>0, <1>2, <2>1, <2>2, <3>1 DEF RowOK
    <3>3. row[g].status # "ready"
      BY <1>0, <2>2 DEF RowOK
    <3>4. ReportBecomes(g, kept, y)
      BY <1>0, <1>2, <1>3, <2>2, <3>1, <3>2, <3>3 DEF ReportBecomes, Report!Goes
    <3> QED BY <3>4, StepKeeps
  <2>3. CASE ~(~x.saved /\ Report!Persist(g, state) /\ UNCHANGED faults /\ Report!Goes(g, kept))
    BY <1>4, <2>1, <2>3 DEF Report!Save, new, kept
  <2> QED BY <2>2, <2>3
<1> QED BY <1>4, <1>5 DEF new

LEMMA OpenStep ==
  ASSUME ReportsInv, NEW g \in Ids, Report!Open(g)
  PROVE  ReportsKept
<1> DEFINE x == gen[g]
           next == IF x.kind = "brief" THEN "assemble" ELSE "plan"
           new == [x EXCEPT !.pc = next, !.within = IF next = "plan" THEN "try" ELSE "nothing"]
<1>0. /\ x \in Generators /\ row[g] \in ReportRows /\ DraftOK(x) /\ RowOK(x, row[g], faults)
      /\ faults \in Nat /\ x.pc = "named" /\ x.kind \in {"brief", "research"}
  BY DEF ReportsInv, Report!Open, Report!At, Generators, Report!Kinds
<1>1. /\ new \in Generators /\ new.pc = next /\ new.kind = x.kind /\ new.engine = x.engine
      /\ new.within = IF next = "plan" THEN "try" ELSE "nothing"
      /\ new.ran = x.ran /\ new.revisions = x.revisions
      /\ new.judged = x.judged /\ new.passed = x.passed /\ new.text = x.text /\ new.saved = x.saved
  BY <1>0 DEF Generators, ReportPcs
<1>2. DraftOK(new)
  BY <1>0, <1>1 DEF DraftOK, Researching, Drafting, Judged
<1> HIDE DEF new
<1>3. CASE Report!Persist(g, "generating") /\ UNCHANGED faults /\ Report!Goes(g, new)
  <2>1. PICK y \in ReportRows : /\ row' = [row EXCEPT ![g] = y]
                                /\ y.status = "generating" /\ y.text = x.text
    BY <1>3, PersistRow
  <2>2. RowOK(new, y, faults') /\ row[g].status # "ready"
    BY <1>0, <1>1, <1>3, <2>1 DEF RowOK
  <2>3. ReportBecomes(g, new, y)
    BY <1>0, <1>1, <1>2, <1>3, <2>1, <2>2 DEF ReportBecomes, Report!Goes
  <2> QED BY <2>3, StepKeeps
<1>4. CASE Report!Fault /\ UNCHANGED row /\ Report!Goes(g, [x EXCEPT !.pc = "done"])
  BY <1>4, EndStep
<1> QED BY <1>3, <1>4 DEF Report!Open, new

LEMMA LostStep ==
  ASSUME ReportsInv, NEW g \in Ids, Report!StoreLost(g)
  PROVE  ReportsKept
<1> DEFINE x == gen[g]
           new == [x EXCEPT !.pc = "done"]
<1>0. /\ x \in Generators /\ row[g] \in ReportRows /\ DraftOK(x) /\ RowOK(x, row[g], faults)
      /\ faults \in Nat /\ x.pc = "lost"
  BY DEF ReportsInv, Report!StoreLost, Report!At
<1>1. CASE Report!Fault /\ UNCHANGED row
  BY <1>1, EndStep DEF Report!StoreLost
<1>2. CASE Report!Persist(g, "failed") /\ UNCHANGED faults
  <2>1. PICK y \in ReportRows : /\ row' = [row EXCEPT ![g] = y]
                                /\ y.status = "failed" /\ y.text = x.text
    BY <1>2, PersistRow
  <2>2. /\ new \in Generators /\ new.pc = "done" /\ new.kind = x.kind /\ new.engine = x.engine
        /\ new.within = x.within /\ new.ran = x.ran /\ new.revisions = x.revisions
        /\ new.judged = x.judged /\ new.passed = x.passed /\ new.text = x.text /\ new.saved = x.saved
    BY <1>0 DEF Generators, ReportPcs
  <2>3. DraftOK(new) /\ RowOK(new, y, faults') /\ row[g].status # "ready"
    BY <1>0, <1>2, <2>1, <2>2 DEF DraftOK, RowOK, Researching, Drafting, Judged
  <2>4. ReportBecomes(g, new, y)
    BY <1>0, <1>2, <2>1, <2>2, <2>3 DEF ReportBecomes, Report!Goes, Report!StoreLost
  <2> QED BY <2>4, StepKeeps
<1> QED BY <1>1, <1>2 DEF Report!StoreLost

LEMMA AssembleStep ==
  ASSUME ReportsInv, NEW g \in Ids, Report!Assemble(g)
  PROVE  ReportsKept
<1> DEFINE x == gen[g]
           next == IF x.engine = "graph" THEN "graph" ELSE "text"
           new == [x EXCEPT !.pc = next, !.within = "try"]
           gone == [x EXCEPT !.pc = "lost"]
<1>0. /\ x \in Generators /\ row[g] \in ReportRows /\ DraftOK(x) /\ RowOK(x, row[g], faults)
      /\ faults \in Nat /\ x.pc = "assemble" /\ UNCHANGED row
  BY DEF ReportsInv, Report!Assemble, Report!At
<1>1. CASE Report!Goes(g, new) /\ UNCHANGED faults
  <2>1. /\ new \in Generators /\ new.pc = next /\ new.kind = x.kind /\ new.engine = x.engine
        /\ new.within = "try" /\ new.ran = x.ran /\ new.revisions = x.revisions
        /\ new.judged = x.judged /\ new.passed = x.passed /\ new.text = x.text /\ new.saved = x.saved
    BY <1>0 DEF Generators, ReportPcs
  <2>2. DraftOK(new) /\ RowOK(new, row[g], faults)
    BY <1>0, <2>1 DEF DraftOK, RowOK, Researching, Drafting, Judged
  <2> QED BY <1>0, <1>1, <2>1, <2>2, MoveKeeps
<1>2. CASE Report!Fault /\ Report!Goes(g, gone)
  <2>1. /\ gone \in Generators /\ gone.pc = "lost" /\ gone.kind = x.kind /\ gone.engine = x.engine
        /\ gone.within = x.within /\ gone.ran = x.ran /\ gone.revisions = x.revisions
        /\ gone.judged = x.judged /\ gone.passed = x.passed /\ gone.text = x.text
        /\ gone.saved = x.saved
    BY <1>0 DEF Generators, ReportPcs
  <2>2. faults' \in Nat /\ faults' > 0 /\ faults' >= faults
    BY <1>2, FaultCounts
  <2>3. DraftOK(gone) /\ RowOK(gone, row[g], faults')
    BY <1>0, <2>1, <2>2 DEF DraftOK, RowOK, Researching, Drafting, Judged
  <2> QED BY <1>0, <1>2, <2>1, <2>2, <2>3, MoveKeeps
<1> QED BY <1>1, <1>2 DEF Report!Assemble

LEMMA FailureStep ==
  ASSUME ReportsInv, NEW g \in Ids, Report!ModelFails(g)
  PROVE  ReportsKept
<1> DEFINE x == gen[g]
           new(next) == [x EXCEPT !.pc = next, !.within = "handler"]
<1>0. /\ x \in Generators /\ row[g] \in ReportRows /\ DraftOK(x) /\ RowOK(x, row[g], faults)
      /\ faults \in Nat /\ x.pc \in {"graph", "judge", "revise", "text"} /\ UNCHANGED row
      /\ x.engine = "graph" /\ x.within = "try" => x.pc # "text"
  BY DEF ReportsInv, Report!ModelFails
<1>1. PICK next \in {"text", "broken"} :
        Report!Goes(g, new(next)) /\ (next = "text" => x.engine = "graph" /\ x.within = "try")
  BY DEF Report!ModelFails
<1>2. /\ new(next) \in Generators /\ new(next).pc = next /\ new(next).kind = x.kind
      /\ new(next).engine = x.engine /\ new(next).within = "handler" /\ new(next).ran = x.ran
      /\ new(next).revisions = x.revisions /\ new(next).judged = x.judged
      /\ new(next).passed = x.passed /\ new(next).text = x.text /\ new(next).saved = x.saved
  BY <1>0 DEF Generators, ReportPcs
<1>3. faults' \in Nat /\ faults' > 0 /\ faults' >= faults
  BY FaultCounts DEF Report!ModelFails
<1>4. DraftOK(new(next)) /\ RowOK(new(next), row[g], faults')
  BY <1>0, <1>2, <1>3 DEF DraftOK, RowOK, Researching, Drafting, Judged
<1> QED BY <1>0, <1>1, <1>2, <1>3, <1>4, MoveKeeps

LEMMA LeaveStep ==
  ASSUME ReportsInv, NEW g \in Ids, Report!Leave(g)
  PROVE  ReportsKept
<1> DEFINE x == gen[g]
           new == [x EXCEPT !.pc = "closing"]
<1>0. /\ x \in Generators /\ row[g] \in ReportRows /\ DraftOK(x) /\ RowOK(x, row[g], faults)
      /\ faults \in Nat
  BY DEF ReportsInv
<1>1. CASE x.within # "try" /\ Report!Goes(g, [x EXCEPT !.pc = "done"]) /\ UNCHANGED <<row, faults>>
  <2>1. x.pc \in {"named", "lost", "text", "end"} \cup Researching \cup Drafting
    BY DEF Report!Leave, Report!Suspended, Report!At, Researching, Drafting
  <2>2. x.pc \in {"named", "lost"} \/ x.within = "handler"
    BY <1>0, <1>1, <2>1 DEF DraftOK, Generators
  <2>3. row[g].status # "generating" \/ faults # 0
    BY <1>0, <2>2 DEF RowOK
  <2> QED BY <1>1, <2>3, EndStep
<1>2. CASE x.pc \in {"asking", "joining"} /\ Report!Goes(g, new) /\ UNCHANGED <<row, faults>>
  <2>1. /\ new \in Generators /\ new.pc = "closing" /\ new.kind = x.kind /\ new.engine = x.engine
        /\ new.within = x.within /\ new.ran = x.ran /\ new.revisions = x.revisions
        /\ new.judged = x.judged /\ new.passed = x.passed /\ new.text = x.text /\ new.saved = x.saved
    BY <1>0 DEF Generators, ReportPcs
  <2>2. DraftOK(new) /\ RowOK(new, row[g], faults)
    BY <1>0, <1>2, <2>1 DEF DraftOK, RowOK, Researching, Drafting, Judged
  <2> QED BY <1>0, <1>2, <2>1, <2>2, MoveKeeps
<1>3. CASE Report!Save(g, Report!Remains(g), "done")
  BY <1>3, EndStep DEF Report!Remains
<1> QED BY <1>1, <1>2, <1>3 DEF Report!Leave

LEMMA CrashStep ==
  ASSUME ReportsInv, Report!Crash
  PROVE  ReportsKept
<1>0. faults' \in Nat /\ faults' > 0 /\ faults' >= faults /\ row' = row
  BY FaultCounts DEF Report!Crash
<1>1. ASSUME NEW g \in Ids
      PROVE  gen'[g] \in Generators /\ DraftOK(gen'[g]) /\ RowOK(gen'[g], row[g], faults')
  <2> DEFINE x == gen[g]
             new == [x EXCEPT !.pc = "dead"]
  <2>0. /\ x \in Generators /\ DraftOK(x) /\ RowOK(x, row[g], faults) /\ faults \in Nat
        /\ gen'[g] = IF x.pc = "idle" THEN x ELSE new
    BY DEF ReportsInv, Report!Crash, Report!At
  <2>1. /\ new \in Generators /\ new.pc = "dead" /\ new.kind = x.kind /\ new.engine = x.engine
        /\ new.within = x.within /\ new.ran = x.ran /\ new.revisions = x.revisions
        /\ new.judged = x.judged /\ new.passed = x.passed /\ new.text = x.text /\ new.saved = x.saved
    BY <2>0 DEF Generators, ReportPcs
  <2>2. DraftOK(new) /\ RowOK(new, row[g], faults')
    BY <1>0, <2>0, <2>1 DEF DraftOK, RowOK, Researching, Drafting, Judged
  <2>3. RowOK(x, row[g], faults')
    BY <1>0, <2>0, RowLater
  <2> QED BY <2>0, <2>1, <2>2, <2>3
<1>2. gen' = [g \in Ids |-> gen'[g]]
  BY DEF Report!Crash
<1> QED BY <1>0, <1>1, <1>2 DEF ReportsInv, ReportsKept

LEMMA ReportsInit == Report!Init => ReportsInv
<1> SUFFICES ASSUME Report!Init PROVE ReportsInv
  OBVIOUS
<1>1. Report!Idle \in Generators /\ Report!NoRow \in ReportRows
  BY DEF Report!Idle, Report!NoText, Report!NoRow, Generators, ReportRows, ReportTexts, Writers,
         ReportPcs, Report!Kinds
<1>2. DraftOK(Report!Idle) /\ RowOK(Report!Idle, Report!NoRow, 0)
  BY ReportsAssumption
     DEF Report!Idle, Report!NoText, Report!NoRow, DraftOK, RowOK, Researching, Drafting
<1> QED BY <1>1, <1>2 DEF Report!Init, ReportsInv

LEMMA ReportsNext ==
  ASSUME ReportsInv, [Report!Next]_(Report!reports)
  PROVE  ReportsKept
<1>1. ASSUME NEW g \in Ids, Report!Finish(g) PROVE ReportsKept
  BY <1>1, EndStep DEF Report!Finish, Report!At
<1>2. ASSUME NEW g \in Ids, Report!Broken(g) \/ Report!Close(g) PROVE ReportsKept
  BY <1>2, EndStep DEF Report!Broken, Report!Close, Report!Remains
<1>3. CASE UNCHANGED Report!reports
  BY <1>3 DEF Report!reports, ReportsInv, ReportsKept
<1>4. CASE Report!Crash
  BY <1>4, CrashStep
<1>5. ASSUME NEW g \in Ids,
             \/ Report!Ask(g) \/ Report!Node(g) \/ Report!Judge(g) \/ Report!Revise(g) \/ Report!Review(g)
             \/ Report!Plan(g) \/ Report!Pool(g) \/ Report!Start(g) \/ Report!Answer(g) \/ Report!Deadline(g)
             \/ Report!Take(g) \/ Report!Join(g) \/ Report!Write(g) \/ Report!End(g)
      PROVE  ReportsKept
  BY <1>5, QuietStep
<1>6. ASSUME NEW g \in Ids,
             Report!Open(g) \/ Report!StoreLost(g) \/ Report!Assemble(g) \/ Report!ModelFails(g) \/ Report!Leave(g)
      PROVE  ReportsKept
  BY <1>6, OpenStep, LostStep, AssembleStep, FailureStep, LeaveStep
<1> QED BY <1>1, <1>2, <1>3, <1>4, <1>5, <1>6 DEF Report!Next

(* What comes of a report, whatever fails, leaves or crashes: a draft of   *)
(* the graph is shown only after every analyst ran and the judge passed    *)
(* its last revision, or no revision was left; a ready report stays as it  *)
(* is, with its full text; without a fault none is left as generating.     *)
(* Any reports, engines, questions, revisions and faults.                  *)
THEOREM OutcomesKeptCorrect == Report!Spec => OutcomesKept
<1>1. ReportsInv => Report!JudgedBeforeShown
  BY DEF ReportsInv, DraftOK, Judged, Report!JudgedBeforeShown
<1>2. ReportsInv => \A g \in Ids : row[g].status = "ready" => row[g].text.size = "full"
  BY DEF ReportsInv, RowOK
<1>3. ReportsInv => Report!EndsMarked
  BY DEF ReportsInv, RowOK, Report!EndsMarked, Report!At
<1>4. ReportsInv /\ [Report!Next]_(Report!reports) => ReportsInv'
  BY ReportsNext DEF ReportsKept
<1>5. ReportsInv /\ [Report!Next]_(Report!reports)
        => [\A g \in Ids : row[g].status = "ready" => row'[g] = row[g]]_(Report!reports)
  BY ReportsNext DEF ReportsKept
<1> QED BY ReportsInit, <1>1, <1>2, <1>3, <1>4, <1>5, PTL DEF Report!Spec, OutcomesKept,
                                                              Report!OutcomesKept
-----------------------------------------------------------------------------
ChatPcs == {"idle", "register", "try", "read", "generate", "commit", "unlock", "leave", "done"}
InTurn  == {"try", "read", "generate", "commit", "unlock", "leave"}
LockedPcs  == {"read", "generate", "commit", "unlock"}
KnowsPcs   == {"generate", "commit"}

ChatRequests ==
  [pc : ChatPcs, process : Processes \cup {None}, session : Turn!Sessions \cup {None},
   isNew : BOOLEAN, object : Requests \cup {None}, basis : Seq(Requests)]

ChatTypes ==
  /\ sessions \subseteq Turn!Sessions /\ turns \in [Turn!Sessions -> Seq(Requests)]
  /\ registry \in [Processes -> [Turn!Sessions -> Requests \cup {None}]]
  /\ lock \in [Requests -> Requests \cup {None}] /\ refs \in [Requests -> Int]
  /\ req \in [Requests -> ChatRequests]
  /\ \A r \in Requests :
       req[r].pc # "idle" => req[r].process \in Processes /\ req[r].session \in Turn!Sessions

(* Who refers to an object. *)
ObjectUsers(o) == {r \in Requests : req[r].object = o /\ req[r].pc \in InTurn}

HomeInv ==
  \A p \in Processes, s \in Turn!Sessions, o \in Requests : registry[p][s] = o =>
    /\ req[o].process = p /\ req[o].session = s /\ req[o].pc \notin {"idle", "register"}
    /\ ObjectUsers(o) # {}

UserInv ==
  \A r \in Requests : req[r].pc \in InTurn =>
    req[r].object \in Requests /\ Turn!Registered(r) = req[r].object

RefsInv == \A o \in Requests : refs[o] = Cardinality(ObjectUsers(o))

RegistryInv == HomeInv /\ UserInv /\ RefsInv

LockInv == \A r \in Requests : req[r].pc \in LockedPcs => lock[req[r].object] = r

StoredInv == \A s \in Turn!Sessions : \A q \in Turn!Turns(s) : req[q].pc # "idle"

BasisInv ==
  \A r \in Requests : req[r].pc \in KnowsPcs =>
    \A q \in Turn!Turns(req[r].session) : req[q].process = req[r].process =>
      \E i \in DOMAIN req[r].basis : req[r].basis[i] = q

TurnsInv == StoredInv /\ BasisInv

ChatInv == ChatTypes /\ RegistryInv /\ LockInv /\ TurnsInv

LEMMA UsersFinite == \A o : IsFiniteSet(ObjectUsers(o)) /\ Cardinality(ObjectUsers(o)) \in Nat
<1>1. \A o : ObjectUsers(o) \subseteq Requests
  BY DEF ObjectUsers
<1> QED BY <1>1, TurnsAssumption, FS_Subset, FS_CardinalityType

(* What a step of request r may leave of it. *)
TurnBecomes(r, x) ==
  /\ x \in ChatRequests /\ Turn!Goes(r, x)
  /\ x.pc # "idle" /\ x.process \in Processes /\ x.session \in Turn!Sessions
  /\ \/ req[r].pc = "idle" /\ x.pc = "register"
     \/ /\ req[r].pc # "idle" /\ x.process = req[r].process /\ x.session = req[r].session
        /\ x.pc # "register"

LEMMA GoalTypes ==
  ASSUME ChatTypes, NEW r \in Requests, NEW x, TurnBecomes(r, x)
  PROVE  /\ req' \in [Requests -> ChatRequests]
         /\ req'[r] = x /\ \A q \in Requests \ {r} : req'[q] = req[q]
         /\ \A q \in Requests :
              req'[q].pc # "idle" => req'[q].process \in Processes /\ req'[q].session \in Turn!Sessions
<1>1. /\ req' \in [Requests -> ChatRequests]
      /\ req'[r] = x /\ \A q \in Requests \ {r} : req'[q] = req[q]
  BY DEF TurnBecomes, Turn!Goes, ChatTypes
<1> QED BY <1>1 DEF ChatTypes, TurnBecomes

(* A step that leaves the registry alone. *)
LEMMA RegistryStays ==
  ASSUME ChatTypes, RegistryInv, NEW r \in Requests, NEW x, TurnBecomes(r, x),
         x.object = req[r].object, x.pc \in InTurn <=> req[r].pc \in InTurn,
         UNCHANGED <<registry, refs>>
  PROVE  RegistryInv'
<1>1. /\ req'[r] = x /\ \A q \in Requests \ {r} : req'[q] = req[q]
  BY GoalTypes
<1>2. \A o : ObjectUsers(o)' = ObjectUsers(o)
  BY <1>1 DEF ObjectUsers
<1>3. HomeInv'
  <2> SUFFICES ASSUME NEW p \in Processes, NEW s \in Turn!Sessions, NEW o \in Requests,
                      registry[p][s] = o
               PROVE  /\ req'[o].process = p /\ req'[o].session = s
                      /\ req'[o].pc \notin {"idle", "register"} /\ ObjectUsers(o)' # {}
    BY DEF HomeInv
  <2>2. /\ req[o].process = p /\ req[o].session = s /\ req[o].pc \notin {"idle", "register"}
        /\ ObjectUsers(o) # {}
    BY DEF RegistryInv, HomeInv
  <2>3. CASE o = r
    BY <1>1, <1>2, <2>2, <2>3 DEF TurnBecomes
  <2>4. CASE o # r
    BY <1>1, <1>2, <2>2, <2>4
  <2> QED BY <2>3, <2>4
<1>4. UserInv'
  <2> SUFFICES ASSUME NEW q \in Requests, req'[q].pc \in InTurn
               PROVE  /\ req'[q].object \in Requests
                      /\ registry[req'[q].process][req'[q].session] = req'[q].object
    BY DEF UserInv, Turn!Registered
  <2>1. CASE q = r
    BY <1>1, <2>1 DEF RegistryInv, UserInv, Turn!Registered, TurnBecomes, InTurn
  <2>2. CASE q # r
    BY <1>1, <2>2 DEF RegistryInv, UserInv, Turn!Registered
  <2> QED BY <2>1, <2>2
<1>5. RefsInv'
  BY <1>2 DEF RegistryInv, RefsInv
<1> QED BY <1>3, <1>4, <1>5 DEF RegistryInv

(* try_acquire_turn finds the object or creates it. *)
LEMMA RegisterRegistry ==
  ASSUME ChatTypes, RegistryInv, NEW r \in Requests, Turn!Register(r)
  PROVE  \E x : /\ TurnBecomes(r, x) /\ x.pc = "try" /\ x.object \in Requests /\ x.basis = req[r].basis
                /\ registry' \in [Processes -> [Turn!Sessions -> Requests \cup {None}]]
                /\ refs' \in [Requests -> Int] /\ RegistryInv'
<1> DEFINE p0 == req[r].process
           s0 == req[r].session
<1>a. PICK object : object = IF Turn!Registered(r) = None THEN r ELSE Turn!Registered(r)
  OBVIOUS
<1> DEFINE x == [req[r] EXCEPT !.pc = "try", !.object = object]
<1>0. /\ req[r] \in ChatRequests /\ req[r].pc = "register" /\ p0 \in Processes /\ s0 \in Turn!Sessions
      /\ registry \in [Processes -> [Turn!Sessions -> Requests \cup {None}]]
      /\ Turn!Registered(r) = registry[p0][s0]
  BY DEF Turn!Register, Turn!At, ChatTypes, Turn!Registered
<1>1. object \in Requests /\ registry[p0][s0] \in {None, object}
  BY <1>0, <1>a
<1>2. /\ x \in ChatRequests /\ x.pc = "try" /\ x.object = object /\ x.process = p0
      /\ x.session = s0 /\ x.basis = req[r].basis
  BY <1>0, <1>1 DEF ChatRequests, ChatPcs
<1>3. /\ Turn!Goes(r, x) /\ refs' = [refs EXCEPT ![object] = @ + 1]
      /\ registry' = [registry EXCEPT ![p0][s0] = object]
  BY <1>a DEF Turn!Register
<1> HIDE DEF x
<1>4. TurnBecomes(r, x)
  BY <1>0, <1>2, <1>3 DEF TurnBecomes
<1>5. /\ req'[r] = x /\ \A q \in Requests \ {r} : req'[q] = req[q]
  BY <1>4, GoalTypes
<1>6. /\ registry' \in [Processes -> [Turn!Sessions -> Requests \cup {None}]]
      /\ registry'[p0][s0] = object
      /\ \A p \in Processes, s \in Turn!Sessions :
           p # p0 \/ s # s0 => registry'[p][s] = registry[p][s]
  BY <1>0, <1>1, <1>3
<1>7. refs' \in [Requests -> Int] /\ refs'[object] = refs[object] + 1
      /\ \A o \in Requests \ {object} : refs'[o] = refs[o]
  BY <1>1, <1>3 DEF ChatTypes
<1>8. /\ ObjectUsers(object)' = ObjectUsers(object) \cup {r} /\ r \notin ObjectUsers(object)
      /\ \A o \in Requests \ {object} : ObjectUsers(o)' = ObjectUsers(o)
  BY <1>0, <1>2, <1>5 DEF ObjectUsers, InTurn
<1>9. HomeInv'
  <2> SUFFICES ASSUME NEW p \in Processes, NEW s \in Turn!Sessions, NEW o \in Requests,
                      registry'[p][s] = o
               PROVE  /\ req'[o].process = p /\ req'[o].session = s
                      /\ req'[o].pc \notin {"idle", "register"} /\ ObjectUsers(o)' # {}
    BY DEF HomeInv
  <2>1. CASE p = p0 /\ s = s0
    <3>1. o = object
      BY <1>6, <2>1
    <3>2. CASE object = r
      BY <1>2, <1>5, <1>8, <2>1, <3>1, <3>2
    <3>3. CASE object # r
      <4>1. registry[p][s] = object
        BY <1>0, <1>a, <2>1, <3>3
      <4>2. /\ req[object].process = p /\ req[object].session = s
            /\ req[object].pc \notin {"idle", "register"}
        BY <1>1, <4>1 DEF RegistryInv, HomeInv
      <4> QED BY <1>1, <1>5, <1>8, <3>1, <3>3, <4>2
    <3> QED BY <3>2, <3>3
  <2>2. CASE p # p0 \/ s # s0
    <3>1. registry[p][s] = o
      BY <1>6, <2>2
    <3>2. /\ req[o].process = p /\ req[o].session = s /\ req[o].pc \notin {"idle", "register"}
          /\ ObjectUsers(o) # {}
      BY <3>1 DEF RegistryInv, HomeInv
    <3>3. o # r /\ ObjectUsers(o)' # {}
      BY <1>0, <1>8, <3>2
    <3> QED BY <1>5, <3>2, <3>3
  <2> QED BY <2>1, <2>2
<1>10. UserInv'
  <2> SUFFICES ASSUME NEW q \in Requests, req'[q].pc \in InTurn
               PROVE  /\ req'[q].object \in Requests
                      /\ registry'[req'[q].process][req'[q].session] = req'[q].object
    BY DEF UserInv, Turn!Registered
  <2>1. CASE q = r
    BY <1>1, <1>2, <1>5, <1>6, <2>1
  <2>2. CASE q # r
    <3>1. /\ req'[q] = req[q] /\ req[q].object \in Requests
          /\ registry[req[q].process][req[q].session] = req[q].object
          /\ req[q].process \in Processes /\ req[q].session \in Turn!Sessions
      BY <1>5, <2>2 DEF RegistryInv, UserInv, Turn!Registered, ChatTypes, InTurn
    <3>2. registry'[req[q].process][req[q].session] = registry[req[q].process][req[q].session]
      BY <1>1, <1>6, <3>1, TurnsAssumption
    <3> QED BY <3>1, <3>2
  <2> QED BY <2>1, <2>2
<1>11. RefsInv'
  <2> SUFFICES ASSUME NEW o \in Requests PROVE refs'[o] = Cardinality(ObjectUsers(o)')
    BY DEF RefsInv
  <2>1. CASE o = object
    <3>1. Cardinality(ObjectUsers(object) \cup {r}) = Cardinality(ObjectUsers(object)) + 1
      BY <1>8, UsersFinite, FS_AddElement
    <3> QED BY <1>1, <1>7, <1>8, <2>1, <3>1 DEF RegistryInv, RefsInv
  <2>2. CASE o # object
    BY <1>7, <1>8, <2>2 DEF RegistryInv, RefsInv
  <2> QED BY <2>1, <2>2
<1> QED BY <1>1, <1>2, <1>4, <1>6, <1>7, <1>9, <1>10, <1>11 DEF RegistryInv

(* release_turn removes the object if nobody else refers to it. *)
LEMMA UnregisterRegistry ==
  ASSUME ChatTypes, RegistryInv, NEW r \in Requests, Turn!Unregister(r)
  PROVE  \E x : /\ TurnBecomes(r, x) /\ x.pc = "done" /\ x.object = req[r].object
                /\ x.basis = req[r].basis
                /\ registry' \in [Processes -> [Turn!Sessions -> Requests \cup {None}]]
                /\ refs' \in [Requests -> Int] /\ RegistryInv'
<1>a. PICK p0, s0, object, x :
        /\ p0 = req[r].process /\ s0 = req[r].session /\ object = req[r].object
        /\ x = [req[r] EXCEPT !.pc = "done"]
  OBVIOUS
<1>0. /\ req[r] \in ChatRequests /\ req[r].pc = "leave" /\ p0 \in Processes /\ s0 \in Turn!Sessions
      /\ registry \in [Processes -> [Turn!Sessions -> Requests \cup {None}]]
  BY <1>a DEF Turn!Unregister, Turn!At, ChatTypes
<1>1. object \in Requests /\ registry[p0][s0] = object /\ Turn!Registered(r) = object
  BY <1>0, <1>a DEF RegistryInv, UserInv, Turn!Registered, InTurn
<1>2. /\ x \in ChatRequests /\ x.pc = "done" /\ x.object = object /\ x.process = p0
      /\ x.session = s0 /\ x.basis = req[r].basis
  BY <1>0, <1>a DEF ChatRequests, ChatPcs
<1>3. /\ Turn!Goes(r, x) /\ refs' = [refs EXCEPT ![object] = @ - 1]
      /\ registry' = IF refs[object] = 1 THEN [registry EXCEPT ![p0][s0] = None] ELSE registry
  BY <1>1, <1>a DEF Turn!Unregister, Turn!Moves, Turn!Removes
<1>4. TurnBecomes(r, x)
  BY <1>0, <1>2, <1>3, <1>a DEF TurnBecomes
<1>5. /\ req'[r] = x /\ \A q \in Requests \ {r} : req'[q] = req[q]
  BY <1>4, GoalTypes
<1>6. /\ registry' \in [Processes -> [Turn!Sessions -> Requests \cup {None}]]
      /\ registry'[p0][s0] = IF refs[object] = 1 THEN None ELSE object
      /\ \A p \in Processes, s \in Turn!Sessions :
           p # p0 \/ s # s0 => registry'[p][s] = registry[p][s]
  BY <1>0, <1>1, <1>3
<1>7. refs' \in [Requests -> Int] /\ refs'[object] = refs[object] - 1
      /\ \A o \in Requests \ {object} : refs'[o] = refs[o]
  BY <1>1, <1>3 DEF ChatTypes
<1>8. /\ ObjectUsers(object)' = ObjectUsers(object) \ {r} /\ r \in ObjectUsers(object)
      /\ \A o \in Requests \ {object} : ObjectUsers(o)' = ObjectUsers(o)
  <2>1. x.pc \notin InTurn /\ req[r].pc \in InTurn /\ req[r].object = object
    BY <1>0, <1>2, <1>a DEF InTurn
  <2> QED BY <1>5, <2>1 DEF ObjectUsers
<1>b. /\ Cardinality(ObjectUsers(object) \ {r}) = Cardinality(ObjectUsers(object)) - 1
      /\ refs[object] = Cardinality(ObjectUsers(object))
      /\ Cardinality(ObjectUsers(object) \ {r}) = 0 <=> ObjectUsers(object) \ {r} = {}
  BY <1>1, <1>8, UsersFinite, FS_RemoveElement, FS_EmptySet DEF RegistryInv, RefsInv
<1>c. refs[object] = 1 <=> ObjectUsers(object) \ {r} = {}
  BY <1>b, UsersFinite
<1>d. req[object].process = p0 /\ req[object].session = s0
  BY <1>0, <1>1 DEF RegistryInv, HomeInv
<1>9. HomeInv'
  <2> SUFFICES ASSUME NEW p \in Processes, NEW s \in Turn!Sessions, NEW o \in Requests,
                      registry'[p][s] = o
               PROVE  /\ req'[o].process = p /\ req'[o].session = s
                      /\ req'[o].pc \notin {"idle", "register"} /\ ObjectUsers(o)' # {}
    BY DEF HomeInv
  <2>1. registry[p][s] = o
    BY <1>1, <1>6, TurnsAssumption
  <2>2. /\ req[o].process = p /\ req[o].session = s /\ req[o].pc \notin {"idle", "register"}
        /\ ObjectUsers(o) # {}
    BY <2>1 DEF RegistryInv, HomeInv
  <2>3. ObjectUsers(o)' # {}
    <3>1. CASE o = object
      <4>1. p = p0 /\ s = s0
        BY <1>d, <2>2, <3>1
      <4>2. refs[object] # 1
        BY <1>6, <4>1, TurnsAssumption
      <4> QED BY <1>8, <1>c, <3>1, <4>2
    <3>2. CASE o # object
      BY <1>8, <2>2, <3>2
    <3> QED BY <3>1, <3>2
  <2>4. /\ req'[o].process = req[o].process /\ req'[o].session = req[o].session
        /\ req'[o].pc \notin {"idle", "register"}
    BY <1>2, <1>5, <1>a, <2>2
  <2> QED BY <2>2, <2>3, <2>4
<1>10. UserInv'
  <2> SUFFICES ASSUME NEW q \in Requests, req'[q].pc \in InTurn
               PROVE  /\ req'[q].object \in Requests
                      /\ registry'[req'[q].process][req'[q].session] = req'[q].object
    BY DEF UserInv, Turn!Registered
  <2>1. q # r
    BY <1>2, <1>5 DEF InTurn
  <2>2. /\ req'[q] = req[q] /\ req[q].object \in Requests
        /\ registry[req[q].process][req[q].session] = req[q].object
        /\ req[q].process \in Processes /\ req[q].session \in Turn!Sessions
    BY <1>5, <2>1 DEF RegistryInv, UserInv, Turn!Registered, ChatTypes, InTurn
  <2>3. CASE req[q].process = p0 /\ req[q].session = s0
    <3>1. req[q].object = object /\ q \in ObjectUsers(object) \ {r}
      BY <1>1, <2>1, <2>2, <2>3 DEF ObjectUsers
    <3>2. registry'[p0][s0] = object
      BY <1>6, <1>c, <3>1
    <3> QED BY <2>2, <2>3, <3>1, <3>2
  <2>4. CASE req[q].process # p0 \/ req[q].session # s0
    BY <1>6, <2>2, <2>4
  <2> QED BY <2>3, <2>4
<1>11. RefsInv'
  <2> SUFFICES ASSUME NEW o \in Requests PROVE refs'[o] = Cardinality(ObjectUsers(o)')
    BY DEF RefsInv
  <2>1. CASE o = object
    BY <1>7, <1>8, <1>b, <2>1
  <2>2. CASE o # object
    BY <1>7, <1>8, <2>2 DEF RegistryInv, RefsInv
  <2> QED BY <2>1, <2>2
<1> QED BY <1>2, <1>4, <1>6, <1>7, <1>9, <1>10, <1>11, <1>a DEF RegistryInv

(* Two requests that have passed the lock of one session in one process    *)
(* are the same.                                                           *)
LEMMA OneHasPassed ==
  ASSUME ChatInv, NEW r \in Requests, NEW q \in Requests,
         req[r].pc \in LockedPcs, req[q].pc \in LockedPcs,
         \/ req[r].object = req[q].object
         \/ req[r].process = req[q].process /\ req[r].session = req[q].session
  PROVE  r = q
<1>1. req[r].pc \in InTurn /\ req[q].pc \in InTurn
  BY DEF LockedPcs, InTurn
<1>2. req[r].object = req[q].object
  BY <1>1 DEF ChatInv, RegistryInv, UserInv, Turn!Registered
<1> QED BY <1>2 DEF ChatInv, LockInv

LEMMA LockStays ==
  ASSUME ChatInv, NEW r \in Requests, NEW x, TurnBecomes(r, x), UNCHANGED lock,
         x.pc \in LockedPcs => req[r].pc \in LockedPcs /\ x.object = req[r].object
  PROVE  LockInv'
  BY GoalTypes DEF ChatInv, LockInv

LEMMA TurnsStay ==
  ASSUME ChatInv, NEW r \in Requests, NEW x, TurnBecomes(r, x), UNCHANGED turns,
         x.pc \in KnowsPcs => \/ req[r].pc \in KnowsPcs /\ x.basis = req[r].basis
                           \/ x.basis = turns[x.session]
  PROVE  TurnsInv'
<1>1. /\ req'[r] = x /\ \A q \in Requests \ {r} : req'[q] = req[q]
      /\ \A s : Turn!Turns(s)' = Turn!Turns(s)
  BY GoalTypes DEF ChatInv, Turn!Turns
<1>2. \A s \in Turn!Sessions : \A q \in Turn!Turns(s) : q \in Requests /\ req[q].pc # "idle"
  BY DEF ChatInv, ChatTypes, TurnsInv, StoredInv, Turn!Turns
<1>3. \A s \in Turn!Sessions : \A q \in Turn!Turns(s) :
        req'[q].process = req[q].process /\ req'[q].pc # "idle"
  BY <1>1, <1>2 DEF TurnBecomes
<1>4. StoredInv'
  BY <1>1, <1>3 DEF StoredInv
<1>5. BasisInv'
  <2> SUFFICES ASSUME NEW u \in Requests, req'[u].pc \in KnowsPcs,
                      NEW q \in Turn!Turns(req'[u].session), req'[q].process = req'[u].process
               PROVE  \E i \in DOMAIN req'[u].basis : req'[u].basis[i] = q
    BY <1>1 DEF BasisInv
  <2>1. req'[u].session \in Turn!Sessions
    BY GoalTypes DEF KnowsPcs, ChatInv
  <2>2. CASE u # r
    BY <1>1, <1>3, <2>1, <2>2 DEF ChatInv, TurnsInv, BasisInv
  <2>3. CASE u = r /\ req[r].pc \in KnowsPcs /\ x.basis = req[r].basis
    <3>1. x.session = req[r].session /\ x.process = req[r].process
      BY <2>3 DEF TurnBecomes, KnowsPcs
    <3> QED BY <1>1, <1>3, <2>1, <2>3, <3>1 DEF ChatInv, TurnsInv, BasisInv
  <2>4. CASE u = r /\ x.basis = turns[x.session]
    BY <1>1, <2>4 DEF Turn!Turns
  <2> QED BY <1>1, <2>2, <2>3, <2>4
<1> QED BY <1>4, <1>5 DEF TurnsInv

LaterPcs == ChatPcs \ {"idle", "register"}
TurnAt(r, next, basis) == [req[r] EXCEPT !.pc = next, !.basis = basis]

LEMMA TurnMoves ==
  ASSUME ChatTypes, NEW r \in Requests, NEW next \in LaterPcs,
         NEW basis \in Seq(Requests), req[r].pc # "idle",
         NEW x, x = TurnAt(r, next, basis), Turn!Goes(r, x)
  PROVE  /\ TurnBecomes(r, x) /\ x.pc = next /\ x.basis = basis /\ x.object = req[r].object
         /\ x.session = req[r].session
<1>1. /\ req[r] \in ChatRequests /\ req[r].process \in Processes /\ req[r].session \in Turn!Sessions
  BY DEF ChatTypes
<1>2. /\ x \in ChatRequests /\ x.pc = next /\ x.basis = basis /\ x.object = req[r].object
      /\ x.process = req[r].process /\ x.session = req[r].session
  BY <1>1 DEF ChatRequests, TurnAt, LaterPcs
<1> QED BY <1>1, <1>2 DEF TurnBecomes, LaterPcs

(* The steps that leave the registry alone. *)
LEMMA PrivateStep ==
  ASSUME ChatInv, NEW r \in Requests,
         Turn!Prepare(r) \/ Turn!TryLock(r) \/ Turn!ReadHistory(r) \/ Turn!Generate(r) \/ Turn!Unlock(r)
  PROVE  ChatInv'
<1>0. /\ ChatTypes /\ RegistryInv /\ req[r] \in ChatRequests /\ UNCHANGED <<turns, registry, refs>>
      /\ sessions' = sessions
  BY DEF ChatInv, ChatTypes, Turn!Prepare, Turn!TryLock, Turn!ReadHistory, Turn!Generate, Turn!Unlock
<1>k. ASSUME NEW x, TurnBecomes(r, x), RegistryInv', LockInv', TurnsInv',
             lock' \in [Requests -> Requests \cup {None}]
      PROVE  ChatInv'
  BY <1>0, <1>k, GoalTypes DEF ChatInv, ChatTypes
<1>t. lock \in [Requests -> Requests \cup {None}]
  BY <1>0 DEF ChatTypes
<1>p. ASSUME NEW next \in ChatPcs
      PROVE  /\ [req[r] EXCEPT !.pc = next] = [req[r] EXCEPT !.pc = next, !.basis = req[r].basis]
             /\ req[r].basis \in Seq(Requests)
  BY <1>0 DEF ChatRequests
<1>1. CASE Turn!Prepare(r)
  <2>1. PICK p \in Processes, s \in Turn!Sessions, new \in BOOLEAN :
          Turn!Goes(r, [req[r] EXCEPT !.pc = "register", !.process = p, !.session = s, !.isNew = new])
    BY <1>0, <1>1 DEF Turn!Prepare, ChatTypes, Turn!Sessions
  <2> DEFINE x == [req[r] EXCEPT !.pc = "register", !.process = p, !.session = s, !.isNew = new]
  <2>2. /\ x \in ChatRequests /\ x.pc = "register" /\ x.process = p /\ x.session = s
        /\ x.object = req[r].object /\ x.basis = req[r].basis /\ req[r].pc = "idle"
    BY <1>0, <1>1 DEF ChatRequests, ChatPcs, Turn!Prepare, Turn!At
  <2> HIDE DEF x
  <2>3. TurnBecomes(r, x)
    BY <2>1, <2>2 DEF TurnBecomes, x
  <2>4. RegistryInv'
    BY <1>0, <2>2, <2>3, RegistryStays DEF InTurn
  <2>5. LockInv' /\ UNCHANGED lock
    BY <1>1, <2>2, <2>3, LockStays DEF Turn!Prepare, LockedPcs
  <2>6. TurnsInv'
    BY <1>0, <2>2, <2>3, TurnsStay DEF KnowsPcs
  <2> QED BY <1>k, <1>t, <2>3, <2>4, <2>5, <2>6
<1>2. CASE Turn!TryLock(r)
  <2>1. PICK next \in {"read", "leave"} :
          /\ req[r].pc = "try" /\ Turn!Goes(r, [req[r] EXCEPT !.pc = next])
          /\ next = "read" => /\ lock[req[r].object] = None
                            /\ lock' = [lock EXCEPT ![req[r].object] = r]
          /\ next = "leave" => lock' = lock
    BY <1>2 DEF Turn!TryLock, Turn!Moves, Turn!At
  <2>a. PICK x : x = TurnAt(r, next, req[r].basis) /\ x = [req[r] EXCEPT !.pc = next]
    BY <1>p DEF ChatPcs, TurnAt
  <2>c. Turn!Goes(r, x)
    BY <2>1, <2>a
  <2>e. next \in LaterPcs
    BY <2>1 DEF ChatPcs, LaterPcs
  <2>d. req[r].pc # "idle" /\ req[r].basis \in Seq(Requests)
    BY <1>p, <2>1 DEF ChatPcs
  <2>m. TurnAt(r, next, req[r].basis) = x /\ ChatTypes
    BY <1>0, <2>a
  <2>2. /\ TurnBecomes(r, x) /\ x.pc = next /\ x.object = req[r].object /\ x.basis = req[r].basis
    BY ONLY <2>m, <2>c, <2>d, <2>e, TurnMoves
  <2>3. RegistryInv'
    BY <1>0, <2>1, <2>2, RegistryStays DEF InTurn
  <2>4. TurnsInv'
    BY <1>0, <2>1, <2>2, TurnsStay DEF KnowsPcs
  <2>5. LockInv' /\ lock' \in [Requests -> Requests \cup {None}]
    <3>1. CASE next = "leave"
      BY <1>t, <2>1, <2>2, <3>1, LockStays DEF LockedPcs
    <3>2. CASE next = "read"
      <4>1. /\ req'[r] = x /\ \A q \in Requests \ {r} : req'[q] = req[q]
        BY <1>0, <2>2, GoalTypes
      <4>2. req[r].object \in Requests
        BY <1>0, <2>1 DEF RegistryInv, UserInv, InTurn
      <4>3. \A q \in Requests : req[q].pc \in LockedPcs => lock[req[q].object] = q
        BY DEF ChatInv, LockInv
      <4>4. \A q \in Requests \ {r} : req[q].pc \in LockedPcs => req[q].object # req[r].object
        BY <2>1, <3>2, <4>3, TurnsAssumption
      <4>5. \A q \in Requests : req[q].pc \in LockedPcs => req[q].object \in Requests
        BY <1>0 DEF RegistryInv, UserInv, InTurn, LockedPcs
      <4> QED BY <1>t, <2>1, <2>2, <3>2, <4>1, <4>2, <4>3, <4>4, <4>5 DEF LockInv
    <3> QED BY <2>1, <3>1, <3>2
  <2> QED BY <1>k, <2>2, <2>3, <2>4, <2>5
<1>3. CASE Turn!ReadHistory(r)
  <2>1. PICK next \in {"generate", "unlock"}, basis \in {req[r].basis, turns[req[r].session]} :
          /\ req[r].pc = "read" /\ Turn!Goes(r, [req[r] EXCEPT !.pc = next, !.basis = basis])
          /\ next = "generate" => basis = turns[req[r].session]
    <3>1. /\ req[r].pc = "read"
          /\ \/ \E next \in {"generate", "unlock"} :
                  Turn!Goes(r, [req[r] EXCEPT !.pc = next, !.basis = turns[req[r].session]])
             \/ Turn!Goes(r, [req[r] EXCEPT !.pc = "unlock"])
      BY <1>3 DEF Turn!ReadHistory, Turn!Moves, Turn!At
    <3> QED BY <1>p, <3>1 DEF ChatPcs
  <2>a. PICK x : x = TurnAt(r, next, basis) /\ x = [req[r] EXCEPT !.pc = next, !.basis = basis]
    BY DEF TurnAt
  <2>b. req[r].basis \in Seq(Requests) /\ turns[req[r].session] \in Seq(Requests)
    BY <1>0, <1>p, <2>1 DEF ChatTypes, ChatPcs
  <2>2. basis \in Seq(Requests)
    BY <2>b
  <2>c. Turn!Goes(r, x)
    BY <2>1, <2>a
  <2>e. next \in LaterPcs
    BY <2>1 DEF ChatPcs, LaterPcs
  <2>d. req[r].pc # "idle" /\ basis \in Seq(Requests)
    BY <2>1, <2>2
  <2>m. TurnAt(r, next, basis) = x /\ ChatTypes
    BY <1>0, <2>a
  <2>3. /\ TurnBecomes(r, x) /\ x.pc = next /\ x.object = req[r].object /\ x.basis = basis
        /\ x.session = req[r].session
    BY ONLY <2>m, <2>c, <2>d, <2>e, TurnMoves
  <2>4. RegistryInv'
    BY <1>0, <2>1, <2>3, RegistryStays DEF InTurn
  <2>5. LockInv' /\ UNCHANGED lock
    BY <1>3, <2>1, <2>3, LockStays DEF LockedPcs, Turn!ReadHistory
  <2>6. TurnsInv'
    BY <1>0, <2>1, <2>3, TurnsStay DEF KnowsPcs
  <2> QED BY <1>k, <1>t, <2>3, <2>4, <2>5, <2>6
<1>4. CASE Turn!Generate(r)
  <2>1. PICK next \in {"commit", "unlock"} :
          req[r].pc = "generate" /\ Turn!Goes(r, [req[r] EXCEPT !.pc = next]) /\ UNCHANGED lock
    BY <1>4 DEF Turn!Generate, Turn!Moves, Turn!At
  <2>a. PICK x : x = TurnAt(r, next, req[r].basis) /\ x = [req[r] EXCEPT !.pc = next]
    BY <1>p DEF ChatPcs, TurnAt
  <2>c. Turn!Goes(r, x)
    BY <2>1, <2>a
  <2>e. next \in LaterPcs
    BY <2>1 DEF ChatPcs, LaterPcs
  <2>d. req[r].pc # "idle" /\ req[r].basis \in Seq(Requests)
    BY <1>p, <2>1 DEF ChatPcs
  <2>m. TurnAt(r, next, req[r].basis) = x /\ ChatTypes
    BY <1>0, <2>a
  <2>2. /\ TurnBecomes(r, x) /\ x.pc = next /\ x.object = req[r].object /\ x.basis = req[r].basis
    BY ONLY <2>m, <2>c, <2>d, <2>e, TurnMoves
  <2>3. RegistryInv'
    BY <1>0, <2>1, <2>2, RegistryStays DEF InTurn
  <2>4. LockInv'
    BY <2>1, <2>2, LockStays DEF LockedPcs
  <2>5. TurnsInv'
    BY <1>0, <2>1, <2>2, TurnsStay DEF KnowsPcs
  <2> QED BY <1>k, <1>t, <2>1, <2>2, <2>3, <2>4, <2>5
<1>5. CASE Turn!Unlock(r)
  <2>1. /\ req[r].pc = "unlock" /\ Turn!Goes(r, [req[r] EXCEPT !.pc = "leave"])
        /\ lock' = [lock EXCEPT ![req[r].object] = None]
    BY <1>5 DEF Turn!Unlock, Turn!Moves, Turn!At
  <2>a. PICK x : x = TurnAt(r, "leave", req[r].basis) /\ x = [req[r] EXCEPT !.pc = "leave"]
    BY <1>p DEF ChatPcs, TurnAt
  <2>c. Turn!Goes(r, x)
    BY <2>1, <2>a
  <2>e. "leave" \in LaterPcs
    BY <2>1 DEF ChatPcs, LaterPcs
  <2>d. req[r].pc # "idle" /\ req[r].basis \in Seq(Requests)
    BY <1>p, <2>1 DEF ChatPcs
  <2>2. /\ TurnBecomes(r, x) /\ x.pc = "leave" /\ x.object = req[r].object /\ x.basis = req[r].basis
    BY <1>0, <2>a, <2>c, <2>d, <2>e, TurnMoves
  <2>3. RegistryInv'
    BY <1>0, <2>1, <2>2, RegistryStays DEF InTurn
  <2>4. TurnsInv'
    BY <1>0, <2>1, <2>2, TurnsStay DEF KnowsPcs
  <2>5. LockInv' /\ lock' \in [Requests -> Requests \cup {None}]
    <3>1. /\ req'[r] = x /\ \A q \in Requests \ {r} : req'[q] = req[q]
      BY <1>0, <2>2, GoalTypes
    <3>2. \A q \in Requests \ {r} : req[q].pc \in LockedPcs => req[q].object # req[r].object
      BY <2>1, OneHasPassed DEF LockedPcs
    <3>3. \A q \in Requests : req[q].pc \in LockedPcs =>
            lock[req[q].object] = q /\ req[q].object \in Requests
      BY <1>0 DEF ChatInv, LockInv, RegistryInv, UserInv, InTurn, LockedPcs
    <3> QED BY <1>t, <2>1, <2>2, <3>1, <3>2, <3>3 DEF LockInv, LockedPcs
  <2> QED BY <1>k, <2>2, <2>3, <2>4, <2>5
<1> QED BY <1>1, <1>2, <1>3, <1>4, <1>5

LEMMA SharedStep ==
  ASSUME ChatInv, NEW r \in Requests, Turn!Register(r) \/ Turn!Unregister(r)
  PROVE  ChatInv'
<1>0. /\ ChatTypes /\ RegistryInv /\ UNCHANGED <<turns, sessions, lock>>
  BY DEF ChatInv, Turn!Register, Turn!Unregister
<1>1. PICK x : /\ TurnBecomes(r, x) /\ x.pc \in {"try", "done"}
               /\ registry' \in [Processes -> [Turn!Sessions -> Requests \cup {None}]]
               /\ refs' \in [Requests -> Int] /\ RegistryInv'
  BY <1>0, RegisterRegistry, UnregisterRegistry
<1>2. LockInv' /\ TurnsInv'
  BY <1>0, <1>1, LockStays, TurnsStay DEF LockedPcs, KnowsPcs
<1> QED BY <1>0, <1>1, <1>2, GoalTypes DEF ChatInv, ChatTypes

LEMMA CommitStep ==
  ASSUME ChatInv, NEW r \in Requests, Turn!Commit(r)
  PROVE  ChatInv'
<1>0. /\ ChatTypes /\ RegistryInv /\ req[r] \in ChatRequests /\ UNCHANGED <<lock, registry, refs>>
      /\ req[r].pc = "commit" /\ req[r].session \in Turn!Sessions
  BY DEF ChatInv, ChatTypes, Turn!Commit, Turn!At
<1>a. PICK s, x : s = req[r].session /\ x = [req[r] EXCEPT !.pc = "unlock"]
  OBVIOUS
<1>1. /\ x \in ChatRequests /\ x.pc = "unlock" /\ x.object = req[r].object
      /\ x.basis = req[r].basis /\ x.process = req[r].process /\ x.session = s
  BY <1>0, <1>a DEF ChatRequests, ChatPcs
<1>2. TurnBecomes(r, x)
  BY <1>0, <1>1, <1>a DEF TurnBecomes, Turn!Commit, Turn!Moves, ChatTypes
<1>3. RegistryInv' /\ LockInv'
  BY <1>0, <1>1, <1>2, RegistryStays, LockStays DEF InTurn, LockedPcs
<1>4. CASE UNCHANGED <<sessions, turns>>
  <2>1. TurnsInv'
    BY <1>1, <1>2, <1>4, TurnsStay DEF KnowsPcs
  <2> QED BY <1>0, <1>2, <1>3, <1>4, <2>1, GoalTypes DEF ChatInv, ChatTypes
<1>5. CASE sessions' = sessions \cup {s} /\ turns' = [turns EXCEPT ![s] = Append(@, r)]
  <2>1. /\ req'[r] = x /\ \A q \in Requests \ {r} : req'[q] = req[q]
    BY <1>0, <1>2, GoalTypes
  <2>2. turns[s] \in Seq(Requests) /\ s \in Turn!Sessions
    BY <1>0, <1>a DEF ChatTypes
  <2>3. /\ turns' \in [Turn!Sessions -> Seq(Requests)] /\ turns'[s] = Append(turns[s], r)
        /\ \A t \in Turn!Sessions \ {s} : turns'[t] = turns[t]
    BY <1>0, <1>5, <2>2 DEF ChatTypes
  <2>4. \A i \in DOMAIN turns'[s] :
          turns'[s][i] = r \/ (i \in DOMAIN turns[s] /\ turns'[s][i] = turns[s][i])
    BY <2>2, <2>3
  <2>5. /\ \A q \in Turn!Turns(s)' : q = r \/ q \in Turn!Turns(s)
        /\ \A t \in Turn!Sessions \ {s} : Turn!Turns(t)' = Turn!Turns(t)
    BY <2>3, <2>4 DEF Turn!Turns
  <2>6. \A t \in Turn!Sessions : \A q \in Turn!Turns(t) : q \in Requests
    BY <1>0 DEF ChatTypes, Turn!Turns
  <2>7. StoredInv'
    BY <1>1, <2>1, <2>2, <2>5, <2>6 DEF StoredInv, ChatInv, TurnsInv
  <2>8. BasisInv'
    <3> SUFFICES ASSUME NEW u \in Requests, req'[u].pc \in KnowsPcs, NEW t, t = req'[u].session,
                        NEW q \in Turn!Turns(t)', req'[q].process = req'[u].process
                 PROVE  \E i \in DOMAIN req'[u].basis : req'[u].basis[i] = q
      BY DEF BasisInv
    <3>1. u # r /\ req'[u] = req[u] /\ t \in Turn!Sessions /\ t = req[u].session /\ req[u].pc \in KnowsPcs
      BY <1>0, <1>1, <2>1 DEF KnowsPcs, ChatTypes
    <3>2. q \in Turn!Turns(t)
      <4> SUFFICES ASSUME q \notin Turn!Turns(t) PROVE FALSE
        OBVIOUS
      <4>1. q = r /\ t = s
        BY <2>5, <3>1
      <4>2. req[u].process = req[r].process /\ req[u].session = req[r].session
        BY <1>1, <1>a, <2>1, <3>1, <4>1
      <4> QED BY <1>0, <3>1, <4>2, OneHasPassed DEF KnowsPcs, LockedPcs
    <3>3. q \in Requests /\ req'[q].process = req[q].process
      BY <1>1, <2>1, <2>6, <3>1, <3>2
    <3> QED BY <3>1, <3>2, <3>3 DEF ChatInv, TurnsInv, BasisInv
  <2> QED BY <1>0, <1>2, <1>3, <1>5, <2>2, <2>3, <2>7, <2>8, GoalTypes
          DEF ChatInv, ChatTypes, TurnsInv
<1> QED BY <1>4, <1>5, <1>a DEF Turn!Commit

LEMMA DeleteStep ==
  ASSUME ChatInv, NEW s \in Turn!Sessions, Turn!DeleteSession(s)
  PROVE  ChatInv'
<1>1. /\ turns' \in [Turn!Sessions -> Seq(Requests)] /\ sessions' \subseteq Turn!Sessions
      /\ \A t \in Turn!Sessions : turns'[t] = turns[t] \/ turns'[t] = <<>>
      /\ UNCHANGED <<registry, lock, refs, req>>
  BY DEF Turn!DeleteSession, ChatInv, ChatTypes
<1>2. \A t \in Turn!Sessions : Turn!Turns(t)' \subseteq Turn!Turns(t)
  BY <1>1 DEF Turn!Turns
<1>3. TurnsInv'
  BY <1>1, <1>2 DEF TurnsInv, StoredInv, BasisInv, ChatInv, ChatTypes, KnowsPcs
<1>4. ChatTypes'
  BY <1>1 DEF ChatInv, ChatTypes
<1>5. RegistryInv' /\ LockInv'
  BY <1>1 DEF ChatInv, RegistryInv, HomeInv, UserInv, RefsInv, ObjectUsers, Turn!Registered, LockInv
<1> QED BY <1>3, <1>4, <1>5 DEF ChatInv

LEMMA ChatInit == Turn!Init => ChatInv
<1> SUFFICES ASSUME Turn!Init PROVE ChatInv
  OBVIOUS
<1>1. Turn!Idle \in ChatRequests /\ Turn!Idle.pc = "idle"
  BY DEF Turn!Idle, ChatRequests, ChatPcs
<1>2. ChatTypes
  BY <1>1 DEF Turn!Init, ChatTypes, Turn!Sessions
<1>3. \A o : ObjectUsers(o) = {}
  BY <1>1 DEF Turn!Init, ObjectUsers, InTurn
<1>4. RegistryInv
  BY <1>1, <1>3, FS_EmptySet, TurnsAssumption
     DEF Turn!Init, RegistryInv, HomeInv, UserInv, RefsInv, InTurn
<1>5. LockInv /\ TurnsInv
  BY <1>1 DEF Turn!Init, LockInv, TurnsInv, StoredInv, BasisInv, Turn!Turns, LockedPcs, KnowsPcs
<1> QED BY <1>2, <1>4, <1>5 DEF ChatInv

LEMMA ChatNext == ChatInv /\ [Turn!Next]_(Turn!chat) => ChatInv'
<1> SUFFICES ASSUME ChatInv, [Turn!Next]_(Turn!chat) PROVE ChatInv'
  OBVIOUS
<1>1. ASSUME NEW r \in Requests,
             Turn!Prepare(r) \/ Turn!TryLock(r) \/ Turn!ReadHistory(r) \/ Turn!Generate(r) \/ Turn!Unlock(r)
      PROVE  ChatInv'
  BY <1>1, PrivateStep
<1>2. ASSUME NEW r \in Requests, Turn!Register(r) \/ Turn!Unregister(r) PROVE ChatInv'
  BY <1>2, SharedStep
<1>3. ASSUME NEW r \in Requests, Turn!Commit(r) PROVE ChatInv'
  BY <1>3, CommitStep
<1>4. ASSUME NEW s \in Turn!Sessions, Turn!DeleteSession(s) PROVE ChatInv'
  BY <1>4, DeleteStep
<1>5. CASE UNCHANGED Turn!chat
  BY <1>5 DEF Turn!chat, ChatInv, ChatTypes, RegistryInv, HomeInv, UserInv, RefsInv, ObjectUsers,
              Turn!Registered,
              LockInv, TurnsInv, StoredInv, BasisInv, Turn!Turns
<1> QED BY <1>1, <1>2, <1>3, <1>4, <1>5 DEF Turn!Next

(* A turn is appended by a request that has read what its process stored.  *)
LEMMA AppendKnows ==
  ASSUME ChatInv, [Turn!Next]_(Turn!chat), NEW r \in Requests, NEW s, s = req[r].session, s # None,
         turns'[s] # turns[s], turns'[s] = Append(turns[s], r)
  PROVE  \A q \in Turn!Turns(s) : req[q].process = req[r].process =>
           \E i \in DOMAIN req[r].basis : req[r].basis[i] = q
<1>1. s \in Turn!Sessions /\ turns[s] \in Seq(Requests)
  BY DEF ChatInv, ChatTypes, ChatRequests
<1>2. Append(turns[s], r) # <<>> /\ \A q : Append(turns[s], q) = Append(turns[s], r) => q = r
  <2>1. ASSUME NEW q
        PROVE  LET n == Len(turns[s]) + 1 IN
               Append(turns[s], q)[n] = q /\ Len(Append(turns[s], q)) = n
    BY <1>1
  <2>2. Append(turns[s], r) # <<>>
    BY <1>1
  <2>3. \A q : Append(turns[s], q) = Append(turns[s], r) => q = r
    BY <2>1
  <2> QED BY <2>2, <2>3
<1>3. PICK u \in Requests : Turn!Commit(u)
  <2>1. ASSUME NEW t \in Turn!Sessions, Turn!DeleteSession(t) PROVE FALSE
    BY <1>1, <1>2, <2>1 DEF Turn!DeleteSession, ChatInv, ChatTypes
  <2> QED
    BY <2>1 DEF Turn!Next, Turn!chat, Turn!Prepare, Turn!Register, Turn!TryLock, Turn!ReadHistory,
                Turn!Generate, Turn!Unlock, Turn!Unregister
<1>4. turns' = [turns EXCEPT ![req[u].session] = Append(@, u)] /\ req[u].pc = "commit"
  BY <1>3 DEF Turn!Commit, Turn!At
<1>5. req[u].session = s /\ u = r
  <2>1. turns'[s] = IF s = req[u].session THEN Append(turns[s], u) ELSE turns[s]
    BY <1>1, <1>4 DEF ChatInv, ChatTypes
  <2> QED BY <1>2, <2>1
<1> QED BY <1>4, <1>5 DEF ChatInv, TurnsInv, BasisInv, KnowsPcs

(* An answer rests on every turn that its process had stored before, and   *)
(* the registry of locks keeps nothing of a session no request is in, for  *)
(* any number of requests and processes.                                   *)
THEOREM EarlierTurnsKnownCorrect == Turn!Spec => EarlierTurnsKnown
<1>1. ChatInv => Turn!RegistryEmpties
  <2> SUFFICES ASSUME ChatInv, NEW p \in Processes, NEW s \in Turn!Sessions, registry[p][s] # None
               PROVE  \E r \in Requests :
                        req[r].process = p /\ req[r].session = s /\ req[r].pc # "done"
    BY DEF Turn!RegistryEmpties
  <2>1. PICK o \in Requests : registry[p][s] = o
    BY DEF ChatInv, ChatTypes
  <2>2. PICK r \in ObjectUsers(o) : req[o].process = p /\ req[o].session = s
    BY <2>1 DEF ChatInv, RegistryInv, HomeInv
  <2>3. r \in Requests /\ req[r].pc \in InTurn /\ req[r].object = o
    BY DEF ObjectUsers
  <2>4. /\ registry[req[r].process][req[r].session] = o
        /\ req[r].process \in Processes /\ req[r].session \in Turn!Sessions
    BY <2>3 DEF ChatInv, RegistryInv, UserInv, Turn!Registered, ChatTypes, InTurn
  <2>5. req[o].process = req[r].process /\ req[o].session = req[r].session
    BY <2>4 DEF ChatInv, RegistryInv, HomeInv
  <2> QED BY <2>2, <2>3, <2>5 DEF InTurn
<1>2. ChatInv /\ [Turn!Next]_(Turn!chat) =>
        [\A r \in Requests :
          LET s == req[r].session IN
          s # None /\ turns'[s] # turns[s] /\ turns'[s] = Append(turns[s], r) =>
            \A q \in Turn!Turns(s) : req[q].process = req[r].process =>
              \E i \in DOMAIN req[r].basis : req[r].basis[i] = q]_(Turn!chat)
  BY AppendKnows
<1> QED BY ChatInit, ChatNext, <1>1, <1>2, PTL DEF Turn!Spec, EarlierTurnsKnown, Turn!EarlierTurnsKnown
=============================================================================
