-------------------------- MODULE MCRelateCampaign --------------------------
(* Constants of RelateCampaign for TLC *)
EXTENDS RelateCampaign, TLC

(* One policy finds every pair similar, the other all but the last.  *)
EveryPair == [p \in Policies |-> Pairs]
MostPairs == [p \in Policies |-> IF p = "wide" THEN Pairs ELSE Pairs \ {<<2, 3>>}]

(* The index shows that the second claim is of an earlier revision than    *)
(* the other two, ...                                                      *)
Turned ==
  [i \in Indexes |-> [d \in Directed |->
     IF i = 1 THEN "none"
     ELSE IF d[1] = 2 THEN "before"
     ELSE IF d[2] = 2 THEN "after"
     ELSE "same"]]

(* ... or that the others are of two branches that left the first one's    *)
(* revision.                                                               *)
Branched ==
  [i \in Indexes |-> [d \in Directed |->
     IF d[1] = 1 THEN "before" ELSE IF d[2] = 1 THEN "after" ELSE "concurrent"]]

(* What was superseded or opened by hand, not by a campaign's verdicts, and *)
(* a bound on it                                                           *)
ByHand ==
  {d \in Directed : successor[d[1]] = d[2] /\ verdict[d] # "supersedes"}
    \cup {q \in Pairs : dispute[q] # "none"
                          /\ "conflicts" \notin {verdict[q], verdict[Reverse(q)]}}

OneByHand == Cardinality(ByHand) <= 1
=============================================================================
