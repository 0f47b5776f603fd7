--------------------------- MODULE GrantContract ---------------------------
(***************************************************************************)
(* What step-up authentication promises about a grant: it is issued for    *)
(* one purpose, it is used for that purpose and at most once, and it may   *)
(* lapse before it is used.                                                *)
(***************************************************************************)
CONSTANTS Grants, Purposes

VARIABLE grant   \* grant -> state, and the purpose it is waiting for

Spent(how) == [state |-> how, purpose |-> "none"]
NoGrant    == Spent("none")

Init == grant = [g \in Grants |-> NoGrant]

Issue(g, p) ==
  grant[g] = NoGrant /\ grant' = [grant EXCEPT ![g] = [state |-> "issued", purpose |-> p]]

Usable(g, p) == grant[g] = [state |-> "issued", purpose |-> p]

Lapsed(G) == [g \in Grants |-> IF g \in G THEN Spent("lapsed") ELSE grant[g]]

(* A grant may be used for something that makes others lapse. *)
Use(g, p, G) == Usable(g, p) /\ grant' = [Lapsed(G) EXCEPT ![g] = Spent("consumed")]
Consume(g, p) == Use(g, p, {})

(* Some grants lapse: by age, or because they are revoked together. *)
Issued   == {g \in Grants : grant[g].state = "issued"}
Lapse(G) == G \subseteq Issued /\ grant' = Lapsed(G)

Next ==
  \/ \E g \in Grants, p \in Purposes : Issue(g, p) \/ \E G \in SUBSET Issued : Use(g, p, G)
  \/ \E G \in SUBSET Issued : Lapse(G)

Spec == Init /\ [][Next]_grant
=============================================================================
