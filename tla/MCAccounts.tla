----------------------------- MODULE MCAccounts -----------------------------
(* What a user's account is promised: step-up authentication, the training *)
(* data of one session with two turns and one version, and the strategies  *)
(* the user saves, edits and tests.  The first two meet in the deletion of *)
(* the account only, where what a grant is worth is what GrantContract     *)
(* says, and the third meets neither; so each behaviour moves one of them, *)
(* and part says which.  Training data are looked at twice, with both      *)
(* turns and one remover (turns) and with one turn and two removers        *)
(* (outbox), and strategies four times: with their readers (versions), an  *)
(* edit page (edits), the page that runs backtests (tests), and its        *)
(* searches over candidates (grids).                                       *)
EXTENDS StepUp, TrainingData, BacktestPage

CONSTANTS w2, s1, t2, x1, x2

VARIABLE part

OneSession == [t \in Turns |-> s1]

(* Two of the built-in types, and what is made of them *)
TwoTypes == [dual_ma |-> [fast |-> 1, slow |-> 2], momentum |-> [lookback |-> 1]]
OneDraft == {[kind |-> "builtin", type |-> "momentum", params |-> <<>>, source |-> "none"]}
SomeChanges == {[params |-> [lookback |-> 2]], [params |-> [fast |-> 2]], [type |-> "dual_ma"],
                [kind |-> "custom", source |-> "a"], [kind |-> "builtin", type |-> "momentum"]}
BothValues == {{1, 2}}

AccountsInit ==
  /\ part \in {"turns", "outbox", "step-up", "versions", "edits", "tests", "grids"}
  /\ Init /\ TrainingInit /\ StrategiesInit /\ BenchInit

(* Strategies that change while they are tested *)
SavesFirst ==
  /\ StrategiesNext /\ UNCHANGED <<copying, call, page, head[x2]>>
  /\ head'[x1].status \in {"draft", "deleted"}

AccountsNext ==
  /\ UNCHANGED part
  /\ \/ part = "turns" /\ TrainingNext /\ UNCHANGED <<vars, strategies, bench, remover[w2]>>
     \/ part = "outbox" /\ TrainingNext /\ UNCHANGED <<vars, strategies, bench, turn[t2]>>
     \/ part = "step-up" /\ Next /\ UNCHANGED <<trainingVars, strategies, bench>>
     \/ part = "versions" /\ StrategiesNext /\ UNCHANGED <<vars, trainingVars, bench, page>>
     \/ part = "edits" /\ StrategiesNext
          /\ UNCHANGED <<vars, trainingVars, bench, copying, call>>
     \/ part = "tests" /\ SavesFirst /\ UNCHANGED <<vars, trainingVars, bench>>
     \/ part = "tests" /\ BenchNext
          /\ UNCHANGED <<vars, trainingVars, strategies, form.candidates, search, job>>
     \/ part = "grids" /\ BenchNext /\ UNCHANGED <<vars, trainingVars, strategies, run>>

AccountsSpec ==
  /\ AccountsInit /\ [][AccountsNext]_<<part, vars, trainingVars, strategies, bench>>
  /\ part \in {"turns", "outbox"} => RemovalFairness
=============================================================================
