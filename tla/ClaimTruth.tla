----------------------------- MODULE ClaimTruth -----------------------------
(***************************************************************************)
(* What the claim journal promises to its readers, with no journal, keys,  *)
(* operations or threads: a claim appears once, is replaced at most once   *)
(* and for good by a claim that exists; a conflict opens once between      *)
(* claims that exist and is settled at most once.                          *)
(***************************************************************************)
CONSTANTS Claims, Conflicts, None

VARIABLES
  status,     \* of a claim: "absent", "current", "superseded"
  successor,  \* the claim that replaced it
  dispute     \* of a conflict: "none", "open", "resolved", "ignored"

vars == <<status, successor, dispute>>

Init ==
  /\ status = [c \in Claims |-> "absent"]
  /\ successor = [c \in Claims |-> None]
  /\ dispute = [k \in Conflicts |-> "none"]

Record(c) ==
  /\ status[c] = "absent"
  /\ status' = [status EXCEPT ![c] = "current"]
  /\ UNCHANGED <<successor, dispute>>

Supersede(old, new) ==
  /\ old # new
  /\ status[old] = "current"
  /\ status[new] # "absent"
  /\ status' = [status EXCEPT ![old] = "superseded"]
  /\ successor' = [successor EXCEPT ![old] = new]
  /\ UNCHANGED dispute

Open(k) ==
  /\ dispute[k] = "none"
  /\ \A c \in k : status[c] # "absent"
  /\ dispute' = [dispute EXCEPT ![k] = "open"]
  /\ UNCHANGED <<status, successor>>

Settle(k, r) ==
  /\ dispute[k] = "open"
  /\ dispute' = [dispute EXCEPT ![k] = r]
  /\ UNCHANGED <<status, successor>>

Next ==
  \/ \E c \in Claims : Record(c)
  \/ \E old, new \in Claims : Supersede(old, new)
  \/ \E k \in Conflicts : Open(k)
  \/ \E k \in Conflicts, r \in {"resolved", "ignored"} : Settle(k, r)

Spec == Init /\ [][Next]_vars
=============================================================================
