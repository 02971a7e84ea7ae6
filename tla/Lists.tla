--------------------------------- MODULE Lists ---------------------------------
(***************************************************************************)
(* Sequences made of others.  Each is a recursive function in the place of *)
(* a community operator (SelectSeq, FlattenSeq) whose definition takes an  *)
(* operator or is RECURSIVE, which the proofs could not unfold.            *)
(***************************************************************************)
EXTENDS Naturals, Sequences

\* The elements of s that are in S, in their order.
Only(s, S) ==
  LET only[n \in 0..Len(s)] ==
        IF n = 0 THEN <<>>
        ELSE IF s[n] \in S THEN Append(only[n - 1], s[n]) ELSE only[n - 1]
  IN only[Len(s)]

\* The sequences of s, one after the other.
Joined(s) ==
  LET joined[n \in 0..Len(s)] == IF n = 0 THEN <<>> ELSE joined[n - 1] \o s[n]
  IN joined[Len(s)]

================================================================================
