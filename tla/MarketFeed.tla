----------------------------- MODULE MarketFeed -----------------------------
(***************************************************************************)
(* Fetching live quotes in one process: _fetch_with_timeout and its        *)
(* callers in services/market.py.                                          *)
(*                                                                         *)
(* The sources are tried in turn.  A call of a source runs on a thread of  *)
(* a small pool, because it may hang; the caller waits for it for a        *)
(* limited time and then leaves it behind, in the pool or still in its     *)
(* queue.  While somebody waits for a source, nobody else calls it.        *)
(*                                                                         *)
(* A call returns well within its time, or it hangs: it returns late, or   *)
(* never.  So the time of a call is over only if it hangs, or waits for a  *)
(* thread while all of them hang.                                          *)
(*                                                                         *)
(* The cache that processes share is left out, and what the quotes say:    *)
(* an answer has quotes or is empty, and an error is like an empty         *)
(* answer.                                                                 *)
(*                                                                         *)
(* BusyWhileCalled is a faulty variant of the definition after it; the     *)
(* specification does not use it.                                          *)
(***************************************************************************)
EXTENDS Naturals, Sequences, FiniteSets, FiniteSetsExt

CONSTANTS
  Kinds,     \* quotes of the stocks, of the indices
  Requests,  \* bound: requests that find no quotes and fetch them
  Sources,   \* the number of sources, tried from 1 on
  Hanging,   \* the sources whose calls may hang
  PoolSize,  \* threads of the pool
  MaxHangs,  \* bound: calls that hang at a time
  MaxQueue   \* bound: calls left behind in the queue; more are forgotten

VARIABLES
  caller,    \* the refresh job of each kind, and the requests
  queue,     \* calls that wait for a thread: who made it, of which source
  left,      \* calls that hang on a thread and that nobody waits for
  warm       \* kinds of which there are quotes

feed == <<caller, queue, left, warm>>

Callers == Kinds \cup Requests
Keys    == Kinds \X (1 .. Sources)
Nobody  == "nobody"

Key(c) == <<caller[c].kind, caller[c].source>>
On(calls) == Cardinality({c \in Callers : caller[c].call \in calls})
Threads == MapThenSumSet(LAMBDA k : left[k], Keys) + On({"running", "hung"})
Hung    == MapThenSumSet(LAMBDA k : left[k], Keys) + On({"hung"})

(* The started_at of a key in _rt_inflight, until its call is over or it   *)
(* is too old.                                                             *)
BusyWhileCalled(k) ==
  left[k] > 0 \/ \E c \in Callers : Key(c) = k /\ caller[c].window
Busy(k) == \E c \in Callers : Key(c) = k /\ caller[c].window

Init ==
  /\ caller = [c \in Callers |-> [pc |-> "idle", source |-> 1, call |-> "none", window |-> FALSE,
                                  kind |-> IF c \in Kinds THEN c ELSE CHOOSE k \in Kinds : TRUE]]
  /\ queue = <<>> /\ warm = {}
  /\ left = [k \in Keys |-> 0]

(* refresh_quotes_job, refresh_indices_job; _ensure_stocks and             *)
(* _ensure_indices fetch only if there are no quotes.                      *)
Begin(c) ==
  \E kind \in Kinds :
    /\ caller[c].pc = "idle"
    /\ IF c \in Kinds THEN kind = c ELSE kind \notin warm
    /\ caller' = [caller EXCEPT ![c] = [@ EXCEPT !.pc = "try", !.source = 1, !.kind = kind]]
    /\ UNCHANGED <<queue, left, warm>>

Rest(c) == IF c \in Kinds THEN "idle" ELSE "done"

(* _fetch_quotes, _fetch_indices: on to the next source, or without quotes.*)
NextSource(c) ==
  [caller EXCEPT ![c] = [@ EXCEPT !.call = "none", !.window = FALSE,
                                  !.source = IF @ < Sources THEN @ + 1 ELSE 1,
                                  !.pc = IF caller[c].source < Sources THEN "try" ELSE Rest(c)]]

Skip(c) ==
  /\ caller[c].pc = "try" /\ Busy(Key(c))
  /\ caller' = NextSource(c)
  /\ UNCHANGED <<queue, left, warm>>

Submit(c) ==
  /\ caller[c].pc = "try" /\ ~Busy(Key(c))
  /\ caller' = [caller EXCEPT ![c] = [@ EXCEPT !.pc = "wait", !.call = "queued", !.window = TRUE]]
  /\ queue' = Append(queue, <<c, Key(c)>>)
  /\ UNCHANGED <<left, warm>>

(* A thread of the pool takes the call that has waited longest; nobody     *)
(* sees the answer of one that was left behind.                            *)
ThreadTakes ==
  /\ queue # <<>> /\ Threads < PoolSize
  /\ queue' = Tail(queue)
  /\ LET c == Head(queue)[1]
         k == Head(queue)[2]
     IN  \/ c # Nobody /\ caller' = [caller EXCEPT ![c].call = "running"] /\ UNCHANGED left
         \/ c = Nobody /\ UNCHANGED <<caller, left>>
         \/ c = Nobody /\ k[2] \in Hanging /\ Hung < MaxHangs
              /\ left' = [left EXCEPT ![k] = @ + 1] /\ UNCHANGED caller
  /\ UNCHANGED warm

Answers(c) ==
  /\ caller[c].call = "running"
  /\ caller' = [caller EXCEPT ![c] = [@ EXCEPT !.pc = "store", !.call = "none", !.window = FALSE]]
  /\ UNCHANGED <<queue, left, warm>>

IsEmpty(c) ==
  /\ caller[c].call = "running"
  /\ caller' = NextSource(c)
  /\ UNCHANGED <<queue, left, warm>>

Hangs(c) ==
  /\ caller[c].call = "running" /\ caller[c].source \in Hanging /\ Hung < MaxHangs
  /\ caller' = [caller EXCEPT ![c].call = "hung"]
  /\ UNCHANGED <<queue, left, warm>>

(* The window of a key ends a moment before the wait of the caller. *)
IsOver(c) == \/ caller[c].call = "hung"
             \/ caller[c].call = "queued" /\ Hung = PoolSize

WindowEnds(c) ==
  /\ IsOver(c) /\ caller[c].window
  /\ caller' = [caller EXCEPT ![c].window = FALSE]
  /\ UNCHANGED <<queue, left, warm>>

Abandoned(c) ==
  LET others == SelectSeq(queue, LAMBDA entry : entry[1] # c)
      full   == Len(SelectSeq(queue, LAMBDA entry : entry[1] = Nobody)) = MaxQueue
  IN  IF full THEN others
      ELSE [i \in DOMAIN queue |-> IF queue[i][1] = c THEN <<Nobody, queue[i][2]>> ELSE queue[i]]

TimesOut(c) ==
  /\ IsOver(c) /\ ~caller[c].window
  /\ caller' = NextSource(c)
  /\ queue' = Abandoned(c)
  /\ left' = IF caller[c].call = "hung" THEN [left EXCEPT ![Key(c)] = @ + 1] ELSE left
  /\ UNCHANGED warm

(* What was left behind returns after all, and nobody sees it. *)
LeftReturns(k) ==
  /\ left[k] > 0 /\ left' = [left EXCEPT ![k] = @ - 1]
  /\ UNCHANGED <<caller, queue, warm>>

Store(c) ==
  /\ caller[c].pc = "store" /\ caller' = [caller EXCEPT ![c].pc = Rest(c)]
  /\ warm' = warm \cup {caller[c].kind}
  /\ UNCHANGED <<queue, left>>

Proceeds(c) == \/ Skip(c) \/ Submit(c) \/ Answers(c) \/ IsEmpty(c)
               \/ WindowEnds(c) \/ TimesOut(c) \/ Store(c)

Next ==
  \/ \E c \in Callers : Begin(c) \/ Proceeds(c) \/ Hangs(c)
  \/ ThreadTakes
  \/ \E k \in Keys : LeftReturns(k)

Spec == Init /\ [][Next]_feed

(* The scheduler starts the refresh jobs again and again, each of them at  *)
(* most once at a time, and time passes.  That a call which hangs returns  *)
(* is not assumed.  Of the last source it is: called again and again, it   *)
(* answers.                                                                *)
Fairness ==
  /\ WF_feed(ThreadTakes)
  /\ \A c \in Callers : WF_feed(Proceeds(c))
  /\ \A k \in Kinds : /\ WF_feed(Begin(k))
                       /\ SF_feed(caller[k].source = Sources /\ Answers(k))

FairSpec == Spec /\ Fairness
-----------------------------------------------------------------------------
(* The refresh of each kind brings quotes again and again although calls   *)
(* hang for ever, as long as a thread of the pool is left: a source that   *)
(* hangs is called again later, and does not keep the next one from being  *)
(* called.                                                                 *)
RefreshGoesOn == \A k \in Kinds : []<><<Store(k)>>_feed
=============================================================================
