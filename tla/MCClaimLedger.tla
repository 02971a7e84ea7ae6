--------------------------- MODULE MCClaimLedger ---------------------------
(***************************************************************************)
(* Small instances of ClaimLedger.  Body d1 holds the claims a and b, body *)
(* d2 the claim c; the three share a subject and differ in text.           *)
(***************************************************************************)
EXTENDS ClaimLedger, TLC

CONSTANTS a, b, c, d1, d2, p1, p2, MaxJournal

(* Exploration stops at states whose journal has more than MaxJournal events. *)
BoundedJournal == Len(journal) <= MaxJournal

(* Threads of the server are interchangeable. *)
Threads == Permutations(Slots)

TwoBodies == (d1 :> <<a, b>>) @@ (d2 :> <<c>>)

OneSubject == [x \in Claims |-> "launch"]
Distinct == [x \in Claims |-> x]

(* Paths a CLI ingest is given: one file, a directory, a repeated file *)
CliTrees == {<<d1>>, <<d2, d1, d2>>}

(* The revisions of d1 and d2, as the temporal policy relates them *)
Revisions(relation, inverse) ==
  [q \in Claims \X Claims |->
     CASE (q[1] = c) = (q[2] = c) -> "same"
       [] q[2] = c -> relation
       [] OTHER -> inverse]

Unbound == [q \in Claims \X Claims |-> "none"]
D1BeforeD2 == Revisions("before", "after")
Concurrent == Revisions("concurrent", "concurrent")
=============================================================================
