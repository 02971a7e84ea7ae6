---------------------------- MODULE Knowledge_proofs ----------------------------
(***************************************************************************)
(* Indexing and reconciling, for any claims, code, paths, files, commits,   *)
(* bounds and number of workers.  The lemmas go from the operators of the   *)
(* model (sequences, commits, events, queues, a capture, a batch) to the    *)
(* journal they make, and from there to the inductive invariant IInv:       *)
(*   - every event of the journal names what is before it (Grounded), is    *)
(*     its only one (Distinct) and says what is so (Truthful);              *)
(*   - so will the queue of a command, whatever part of it a crash leaves;  *)
(*   - a command keeps what its earlier phases have put into the journal.   *)
(***************************************************************************)
EXTENDS Knowledge, FiniteSetTheorems, SequenceTheorems, WellFoundedInduction, TLAPS

-----------------------------------------------------------------------------
(* Numbers *)

LEMMA NumberInduction ==
    ASSUME NEW S, 0 \in S, \A n \in Nat : n \in S => n + 1 \in S
    PROVE  Nat \subseteq S
  <1>1. PICK T : T = {n \in Nat : n \notin S}  OBVIOUS
  <1> SUFFICES ASSUME T # {} PROVE FALSE  BY <1>1
  <1>2. IsWellFoundedOn(OpToRel(<, Nat), Nat)  BY Zenon, NatLessThanWellFounded
  <1>3. PICK x \in T : \A y \in T : ~ (<<y, x>> \in OpToRel(<, Nat))
    BY Zenon, <1>1, <1>2, WFMin
  <1>4. x \in Nat /\ x # 0  BY Zenon, <1>1, <1>3
  <1>5. x - 1 \in Nat /\ x - 1 < x /\ (x - 1) + 1 = x  BY <1>4
  <1>6. <<x - 1, x>> \in OpToRel(<, Nat)  BY <1>4, <1>5 DEF OpToRel
  <1>7. x - 1 \in S  BY Zenon, <1>1, <1>3, <1>5, <1>6
  <1>8. QED  BY Zenon, <1>1, <1>3, <1>5, <1>7

(* A set of positions up to n has a greatest, if it is not empty.          *)
LEMMA LatestPosition ==
    ASSUME NEW n \in Nat, NEW S \in SUBSET (1..n), S # {}
    PROVE  Max(S) \in S /\ \A y \in S : Max(S) >= y
  <1>1. PICK M : M = {k \in Nat : \A T \in SUBSET (1..k) :
                        T # {} => \E x \in T : \A y \in T : x >= y}
    OBVIOUS
  <1>2. 0 \in M
    <2>1. 1..0 = {}  OBVIOUS
    <2>2. QED  BY <1>1, <2>1
  <1>3. ASSUME NEW k \in Nat, k \in M PROVE k + 1 \in M
    <2>1. ASSUME NEW T \in SUBSET (1..k + 1), T # {}
          PROVE  \E x \in T : \A y \in T : x >= y
      <3>1. CASE k + 1 \in T
        <4>1. \A y \in T : k + 1 >= y  OBVIOUS
        <4>2. QED  BY <3>1, <4>1
      <3>2. CASE k + 1 \notin T
        <4>1. T \in SUBSET (1..k)  BY <3>2
        <4>2. QED  BY <1>1, <1>3, <2>1, <4>1
      <3>3. QED  BY <3>1, <3>2
    <2>2. k + 1 \in Nat  OBVIOUS
    <2>3. QED  BY <1>1, <2>1, <2>2
  <1>4. n \in M  BY <1>2, <1>3, NumberInduction
  <1>5. \E x \in S : \A y \in S : x >= y  BY <1>1, <1>4
  <1>6. QED  BY <1>5 DEF Max

(* A recursive function over the numbers up to N, of values in S: it is,   *)
(* and its values are in S.                                                *)
IsRun(f, N, start, step) ==
  f[0] = start /\ \A n \in 1..N : f[n] = step[<<n, f[n - 1]>>]

LEMMA Recursion ==
    ASSUME NEW N \in Nat, NEW S, NEW start \in S, NEW step \in [(1..N) \X S -> S]
    PROVE  \E f \in [0..N -> S] : IsRun(f, N, start, step)
  <1>1. PICK M : M = {n \in Nat : n <= N => \E f \in [0..n -> S] : IsRun(f, n, start, step)}
    OBVIOUS
  <1>2. 0 \in M
    <2>1. PICK f : f = [i \in 0..0 |-> start]  OBVIOUS
    <2>2. f \in [0..0 -> S] /\ f[0] = start  BY <2>1
    <2>3. 1..0 = {}  OBVIOUS
    <2>4. IsRun(f, 0, start, step)  BY <2>2, <2>3 DEF IsRun
    <2>5. QED  BY <1>1, <2>2, <2>4
  <1>3. ASSUME NEW n \in Nat, n \in M PROVE n + 1 \in M
    <2> SUFFICES ASSUME n + 1 <= N
                 PROVE  \E f \in [0..n + 1 -> S] : IsRun(f, n + 1, start, step)
      BY <1>1
    <2>1. PICK f \in [0..n -> S] : IsRun(f, n, start, step)
      <3>1. n <= N  OBVIOUS
      <3>2. QED  BY <1>1, <1>3, <3>1
    <2>2. PICK g : g = [i \in 0..n + 1 |-> IF i \in 0..n THEN f[i] ELSE step[<<n + 1, f[n]>>]]
      OBVIOUS
    <2>3. step[<<n + 1, f[n]>>] \in S
      <3>1. n + 1 \in 1..N /\ f[n] \in S  OBVIOUS
      <3>2. QED  BY <3>1
    <2>4. g \in [0..n + 1 -> S]  BY <2>2, <2>3
    <2>5. \A i \in 0..n : g[i] = f[i]  BY <2>2
    <2>6. g[n + 1] = step[<<n + 1, f[n]>>]
      <3>1. n + 1 \in 0..n + 1 /\ n + 1 \notin 0..n  OBVIOUS
      <3>2. QED  BY <2>2, <3>1
    <2>7. ASSUME NEW i \in 1..n + 1 PROVE g[i] = step[<<i, g[i - 1]>>]
      <3>1. CASE i \in 1..n
        <4>1. i \in 0..n /\ i - 1 \in 0..n  BY <3>1
        <4>2. f[i] = step[<<i, f[i - 1]>>]  BY <2>1, <3>1 DEF IsRun
        <4>3. QED  BY <2>5, <4>1, <4>2
      <3>2. CASE i = n + 1
        <4>1. i - 1 = n /\ n \in 0..n  BY <3>2
        <4>2. g[i - 1] = f[n]  BY <2>5, <4>1
        <4>3. QED  BY <2>6, <3>2, <4>2
      <3>3. QED  BY <3>1, <3>2
    <2>8. g[0] = start
      <3>1. 0 \in 0..n  OBVIOUS
      <3>2. f[0] = start  BY <2>1 DEF IsRun
      <3>3. QED  BY <2>5, <3>1, <3>2
    <2>9. IsRun(g, n + 1, start, step)  BY <2>7, <2>8 DEF IsRun
    <2>10. QED  BY <2>4, <2>9
  <1>4. N \in M  BY <1>2, <1>3, NumberInduction
  <1>5. QED  BY <1>1, <1>4

-----------------------------------------------------------------------------
(* Sequences made of others *)

OnlyRun(k, s, S) ==
  /\ k[0] = <<>>
  /\ \A n \in 1..Len(s) : k[n] = IF s[n] \in S THEN Append(k[n - 1], s[n]) ELSE k[n - 1]

LEMMA OnlyUnfolds ==
    ASSUME NEW T, NEW s \in Seq(T), NEW S
    PROVE  \E k : Only(s, S) = k[Len(s)] /\ OnlyRun(k, s, S)
  <1> DEFINE k == CHOOSE only : only = [n \in 0..Len(s) |->
                    IF n = 0 THEN <<>>
                    ELSE IF s[n] \in S THEN Append(only[n - 1], s[n]) ELSE only[n - 1]]
  <1>1. PICK step : step = [p \in (1..Len(s)) \X Seq(T) |->
                              IF s[p[1]] \in S THEN Append(p[2], s[p[1]]) ELSE p[2]]
    OBVIOUS
  <1>2. step \in [(1..Len(s)) \X Seq(T) -> Seq(T)]
    <2>1. ASSUME NEW p \in (1..Len(s)) \X Seq(T)
          PROVE  (IF s[p[1]] \in S THEN Append(p[2], s[p[1]]) ELSE p[2]) \in Seq(T)
      <3>1. s[p[1]] \in T /\ p[2] \in Seq(T)  OBVIOUS
      <3>2. QED  BY <3>1
    <2>2. QED  BY <1>1, <2>1
  <1>3. Len(s) \in Nat /\ <<>> \in Seq(T)  OBVIOUS
  <1>4. PICK f \in [0..Len(s) -> Seq(T)] : IsRun(f, Len(s), <<>>, step)
    BY <1>2, <1>3, Recursion
  <1>5. f = [n \in 0..Len(s) |->
               IF n = 0 THEN <<>>
               ELSE IF s[n] \in S THEN Append(f[n - 1], s[n]) ELSE f[n - 1]]
    <2>1. ASSUME NEW n \in 0..Len(s)
          PROVE  f[n] = IF n = 0 THEN <<>>
                        ELSE IF s[n] \in S THEN Append(f[n - 1], s[n]) ELSE f[n - 1]
      <3>1. CASE n = 0  BY <1>4, <3>1 DEF IsRun
      <3>2. CASE n # 0
        <4>1. n \in 1..Len(s) /\ n - 1 \in 0..Len(s)  BY <1>3, <3>2
        <4>2. <<n, f[n - 1]>> \in (1..Len(s)) \X Seq(T)  BY <4>1
        <4>3. f[n] = step[<<n, f[n - 1]>>]  BY <1>4, <4>1 DEF IsRun
        <4>4. QED  BY <1>1, <3>2, <4>2, <4>3
      <3>3. QED  BY <3>1, <3>2
    <2>2. f = [n \in 0..Len(s) |-> f[n]]  OBVIOUS
    <2>3. QED  BY <2>1, <2>2
  <1>6. k = [n \in 0..Len(s) |->
               IF n = 0 THEN <<>>
               ELSE IF s[n] \in S THEN Append(k[n - 1], s[n]) ELSE k[n - 1]]
    BY <1>5, Zenon
  <1>7. Only(s, S) = k[Len(s)]  BY Zenon DEF Only
  <1> HIDE DEF k
  <1>8. k[0] = <<>>
    <2>1. 0 \in 0..Len(s)  BY <1>3
    <2>2. QED  BY <1>6, <2>1
  <1>9. ASSUME NEW n \in 1..Len(s)
        PROVE  k[n] = IF s[n] \in S THEN Append(k[n - 1], s[n]) ELSE k[n - 1]
    <2>1. n \in 0..Len(s) /\ n # 0  BY <1>3
    <2>2. QED  BY <1>6, <2>1
  <1>10. OnlyRun(k, s, S)  BY <1>8, <1>9 DEF OnlyRun
  <1>11. QED  BY <1>7, <1>10

(* What Only keeps: the elements of s that are in S.                       *)
LEMMA OnlyKeeps ==
    ASSUME NEW T, NEW s \in Seq(T), NEW S
    PROVE  /\ Only(s, S) \in Seq(T)
           /\ Range(Only(s, S)) = Range(s) \cap S
  <1>1. PICK k : Only(s, S) = k[Len(s)] /\ OnlyRun(k, s, S)  BY OnlyUnfolds
  <1>2. PICK M : M = {n \in Nat : n <= Len(s) =>
                        k[n] \in Seq(T) /\ Range(k[n]) = {s[i] : i \in 1..n} \cap S}
    OBVIOUS
  <1>3. 0 \in M
    <2>1. k[0] = <<>>  BY <1>1 DEF OnlyRun
    <2>2. <<>> \in Seq(T) /\ Range(<<>>) = {}  BY DEF Range
    <2>3. 1..0 = {}  OBVIOUS
    <2>4. {s[i] : i \in 1..0} = {}  BY <2>3
    <2>5. QED  BY <1>2, <2>1, <2>2, <2>4
  <1>4. ASSUME NEW n \in Nat, n \in M PROVE n + 1 \in M
    <2> SUFFICES ASSUME n + 1 <= Len(s)
                 PROVE  /\ k[n + 1] \in Seq(T)
                        /\ Range(k[n + 1]) = {s[i] : i \in 1..n + 1} \cap S
      BY <1>2
    <2>1. k[n] \in Seq(T) /\ Range(k[n]) = {s[i] : i \in 1..n} \cap S  BY <1>2, <1>4
    <2>2. k[n + 1] = IF s[n + 1] \in S THEN Append(k[n], s[n + 1]) ELSE k[n]
      <3>1. n + 1 \in 1..Len(s) /\ (n + 1) - 1 = n  OBVIOUS
      <3>2. QED  BY <1>1, <3>1 DEF OnlyRun
    <2>3. s[n + 1] \in T  OBVIOUS
    <2>4. {s[i] : i \in 1..n + 1} = {s[i] : i \in 1..n} \cup {s[n + 1]}
      <3>1. 1..n + 1 = (1..n) \cup {n + 1}  OBVIOUS
      <3>2. QED  BY <3>1
    <2>5. CASE s[n + 1] \in S
      <3>1. k[n + 1] = Append(k[n], s[n + 1])  BY <2>2, <2>5
      <3>2. PICK u : u = k[n]  OBVIOUS
      <3>3. PICK x : x = s[n + 1]  OBVIOUS
      <3>4. u \in Seq(T) /\ x \in T  BY <2>1, <2>3, <3>2, <3>3
      <3>5. Append(u, x) \in Seq(T) /\ Range(Append(u, x)) = Range(u) \cup {x}
        <4>1. /\ Append(u, x) \in Seq(T) /\ Len(Append(u, x)) = Len(u) + 1
              /\ \A i \in 1..Len(u) : Append(u, x)[i] = u[i]
              /\ Append(u, x)[Len(u) + 1] = x
          BY <3>4
        <4>2. DOMAIN u = 1..Len(u) /\ DOMAIN Append(u, x) = 1..(Len(u) + 1)  BY <3>4, <4>1
        <4>3. Len(u) \in Nat  BY <3>4
        <4>4. QED  BY <4>1, <4>2, <4>3 DEF Range
      <3>6. QED  BY <2>1, <2>4, <2>5, <3>1, <3>2, <3>3, <3>5
    <2>6. CASE s[n + 1] \notin S  BY <2>1, <2>2, <2>4, <2>6
    <2>7. QED  BY <2>5, <2>6
  <1>5. Len(s) \in M  BY <1>3, <1>4, NumberInduction
  <1>6. Range(s) = {s[i] : i \in 1..Len(s)}  BY DEF Range
  <1>7. QED  BY <1>1, <1>2, <1>5, <1>6

(* The ranges of two sequences make that of one after the other.           *)
LEMMA RangeOfBoth ==
    ASSUME NEW T, NEW u \in Seq(T), NEW v \in Seq(T)
    PROVE  u \o v \in Seq(T) /\ Range(u \o v) = Range(u) \cup Range(v)
  <1>1. /\ u \o v \in Seq(T) /\ Len(u \o v) = Len(u) + Len(v)
        /\ \A i \in 1..Len(u) + Len(v) :
             (u \o v)[i] = IF i <= Len(u) THEN u[i] ELSE v[i - Len(u)]
    OBVIOUS
  <1>2. Len(u) \in Nat /\ Len(v) \in Nat  OBVIOUS
  <1>3. /\ DOMAIN u = 1..Len(u) /\ DOMAIN v = 1..Len(v)
        /\ DOMAIN (u \o v) = 1..Len(u) + Len(v)
    BY <1>1
  <1>4. ASSUME NEW i \in 1..Len(u) PROVE u[i] \in Range(u \o v)
    <2>1. i \in 1..Len(u) + Len(v) /\ i <= Len(u)  BY <1>2
    <2>2. QED  BY <1>1, <1>3, <2>1 DEF Range
  <1>5. ASSUME NEW i \in 1..Len(v) PROVE v[i] \in Range(u \o v)
    <2>1. /\ i + Len(u) \in 1..Len(u) + Len(v) /\ ~(i + Len(u) <= Len(u))
          /\ (i + Len(u)) - Len(u) = i
      BY <1>2
    <2>2. (u \o v)[i + Len(u)] = v[i]  BY <1>1, <2>1
    <2>3. QED  BY <1>3, <2>1, <2>2 DEF Range
  <1>6. ASSUME NEW i \in 1..Len(u) + Len(v) PROVE (u \o v)[i] \in Range(u) \cup Range(v)
    <2>1. CASE i <= Len(u)
      <3>1. i \in 1..Len(u)  BY <1>2, <2>1
      <3>2. QED  BY <1>1, <1>3, <2>1, <3>1 DEF Range
    <2>2. CASE ~(i <= Len(u))
      <3>1. i - Len(u) \in 1..Len(v)  BY <1>2, <2>2
      <3>2. QED  BY <1>1, <1>3, <2>2, <3>1 DEF Range
    <2>3. QED  BY <2>1, <2>2
  <1>7. QED  BY <1>1, <1>3, <1>4, <1>5, <1>6 DEF Range

JoinedRun(k, s) ==
  k[0] = <<>> /\ \A n \in 1..Len(s) : k[n] = k[n - 1] \o s[n]

LEMMA JoinedUnfolds ==
    ASSUME NEW T, NEW s \in Seq(Seq(T))
    PROVE  \E k : Joined(s) = k[Len(s)] /\ JoinedRun(k, s)
  <1> DEFINE k == CHOOSE joined : joined = [n \in 0..Len(s) |->
                    IF n = 0 THEN <<>> ELSE joined[n - 1] \o s[n]]
  <1>1. PICK step : step = [p \in (1..Len(s)) \X Seq(T) |-> p[2] \o s[p[1]]]
    OBVIOUS
  <1>2. step \in [(1..Len(s)) \X Seq(T) -> Seq(T)]
    <2>1. ASSUME NEW p \in (1..Len(s)) \X Seq(T)
          PROVE  (p[2] \o s[p[1]]) \in Seq(T)
      <3>1. s[p[1]] \in Seq(T) /\ p[2] \in Seq(T)  OBVIOUS
      <3>2. QED  BY <3>1
    <2>2. QED  BY <1>1, <2>1
  <1>3. Len(s) \in Nat /\ <<>> \in Seq(T)  OBVIOUS
  <1>4. PICK f \in [0..Len(s) -> Seq(T)] : IsRun(f, Len(s), <<>>, step)
    BY <1>2, <1>3, Recursion
  <1>5. f = [n \in 0..Len(s) |-> IF n = 0 THEN <<>> ELSE f[n - 1] \o s[n]]
    <2>1. ASSUME NEW n \in 0..Len(s)
          PROVE  f[n] = IF n = 0 THEN <<>> ELSE f[n - 1] \o s[n]
      <3>1. CASE n = 0  BY <1>4, <3>1 DEF IsRun
      <3>2. CASE n # 0
        <4>1. n \in 1..Len(s) /\ n - 1 \in 0..Len(s)  BY <1>3, <3>2
        <4>2. <<n, f[n - 1]>> \in (1..Len(s)) \X Seq(T)  BY <4>1
        <4>3. f[n] = step[<<n, f[n - 1]>>]  BY <1>4, <4>1 DEF IsRun
        <4>4. QED  BY <1>1, <3>2, <4>2, <4>3
      <3>3. QED  BY <3>1, <3>2
    <2>2. f = [n \in 0..Len(s) |-> f[n]]  OBVIOUS
    <2>3. QED  BY <2>1, <2>2
  <1>6. k = [n \in 0..Len(s) |-> IF n = 0 THEN <<>> ELSE k[n - 1] \o s[n]]
    BY <1>5, Zenon
  <1>7. Joined(s) = k[Len(s)]  BY Zenon DEF Joined
  <1> HIDE DEF k
  <1>8. k[0] = <<>>
    <2>1. 0 \in 0..Len(s)  BY <1>3
    <2>2. QED  BY <1>6, <2>1
  <1>9. ASSUME NEW n \in 1..Len(s) PROVE k[n] = k[n - 1] \o s[n]
    <2>1. n \in 0..Len(s) /\ n # 0  BY <1>3
    <2>2. QED  BY <1>6, <2>1
  <1>10. JoinedRun(k, s)  BY <1>8, <1>9 DEF JoinedRun
  <1>11. QED  BY <1>7, <1>10

(* What Joined holds: all that its sequences hold.                         *)
LEMMA JoinedHolds ==
    ASSUME NEW T, NEW s \in Seq(Seq(T))
    PROVE  /\ Joined(s) \in Seq(T)
           /\ \A x : x \in Range(Joined(s)) <=> \E i \in 1..Len(s) : x \in Range(s[i])
  <1>1. PICK k : Joined(s) = k[Len(s)] /\ JoinedRun(k, s)  BY JoinedUnfolds
  <1>2. PICK M : M = {n \in Nat : n <= Len(s) =>
                        /\ k[n] \in Seq(T)
                        /\ \A x : x \in Range(k[n]) <=> \E i \in 1..n : x \in Range(s[i])}
    OBVIOUS
  <1>3. 0 \in M
    <2>1. k[0] = <<>>  BY <1>1 DEF JoinedRun
    <2>2. <<>> \in Seq(T) /\ Range(<<>>) = {}  BY DEF Range
    <2>3. 1..0 = {}  OBVIOUS
    <2>4. QED  BY <1>2, <2>1, <2>2, <2>3
  <1>4. ASSUME NEW n \in Nat, n \in M PROVE n + 1 \in M
    <2> SUFFICES ASSUME n + 1 <= Len(s)
                 PROVE  /\ k[n + 1] \in Seq(T)
                        /\ \A x : x \in Range(k[n + 1]) <=>
                                    \E i \in 1..n + 1 : x \in Range(s[i])
      BY <1>2
    <2>1. /\ k[n] \in Seq(T)
          /\ \A x : x \in Range(k[n]) <=> \E i \in 1..n : x \in Range(s[i])
      BY <1>2, <1>4
    <2>2. k[n + 1] = k[n] \o s[n + 1]
      <3>1. n + 1 \in 1..Len(s) /\ (n + 1) - 1 = n  OBVIOUS
      <3>2. QED  BY <1>1, <3>1 DEF JoinedRun
    <2>3. s[n + 1] \in Seq(T)  OBVIOUS
    <2>4. 1..n + 1 = (1..n) \cup {n + 1}  OBVIOUS
    <2>5. k[n + 1] \in Seq(T) /\ Range(k[n + 1]) = Range(k[n]) \cup Range(s[n + 1])
      BY <2>1, <2>2, <2>3, RangeOfBoth
    <2>6. QED  BY <2>1, <2>4, <2>5
  <1>5. Len(s) \in M  BY SMTT(40), <1>3, <1>4, NumberInduction
  <1>6. QED  BY <1>1, <1>2, <1>5

-----------------------------------------------------------------------------
(* Order between commits and between snapshots *)

Generations == Cardinality(DOMAIN Parent)

AboveRun(k, commit, missing) ==
  /\ k[0] = commit
  /\ \A n \in 1..Generations :
       k[n] = IF k[n - 1] \in missing THEN k[n - 1] ELSE Parent[k[n - 1]]

LEMMA AboveUnfolds ==
    ASSUME NEW commit \in DOMAIN Parent, NEW missing
    PROVE  \E k : /\ Above(commit, missing) = {k[n] : n \in 0..Generations}
                  /\ AboveRun(k, commit, missing)
  <1> DEFINE k == CHOOSE up : up = [n \in 0..Cardinality(DOMAIN Parent) |->
                    IF n = 0 THEN commit
                    ELSE IF up[n - 1] \in missing THEN up[n - 1] ELSE Parent[up[n - 1]]]
  <1>1. Generations \in Nat
    BY HistoryAssumption, FS_CardinalityType DEF Generations
  <1>2. PICK S : S = DOMAIN Parent  OBVIOUS
  <1>3. PICK step : step = [p \in (1..Generations) \X S |->
                              IF p[2] \in missing THEN p[2] ELSE Parent[p[2]]]
    OBVIOUS
  <1>4. step \in [(1..Generations) \X S -> S]
    <2>1. ASSUME NEW p \in (1..Generations) \X S
          PROVE  (IF p[2] \in missing THEN p[2] ELSE Parent[p[2]]) \in S
      <3>1. p[2] \in S  OBVIOUS
      <3>2. Parent[p[2]] \in S  BY <1>2, <3>1, HistoryAssumption DEF Range
      <3>3. QED  BY <3>1, <3>2
    <2>2. QED  BY <1>3, <2>1
  <1>5. commit \in S  BY <1>2
  <1>6. PICK f \in [0..Generations -> S] : IsRun(f, Generations, commit, step)
    BY <1>1, <1>4, <1>5, Recursion
  <1>7. f = [n \in 0..Generations |->
               IF n = 0 THEN commit
               ELSE IF f[n - 1] \in missing THEN f[n - 1] ELSE Parent[f[n - 1]]]
    <2>1. ASSUME NEW n \in 0..Generations
          PROVE  f[n] = IF n = 0 THEN commit
                        ELSE IF f[n - 1] \in missing THEN f[n - 1] ELSE Parent[f[n - 1]]
      <3>1. CASE n = 0  BY <1>6, <3>1 DEF IsRun
      <3>2. CASE n # 0
        <4>1. n \in 1..Generations /\ n - 1 \in 0..Generations  BY <1>1, <3>2
        <4>2. <<n, f[n - 1]>> \in (1..Generations) \X S  BY <4>1
        <4>3. f[n] = step[<<n, f[n - 1]>>]  BY <1>6, <4>1 DEF IsRun
        <4>4. QED  BY <1>3, <3>2, <4>2, <4>3
      <3>3. QED  BY <3>1, <3>2
    <2>2. f = [n \in 0..Generations |-> f[n]]  OBVIOUS
    <2>3. QED  BY <2>1, <2>2
  <1>8. k = [n \in 0..Generations |->
               IF n = 0 THEN commit
               ELSE IF k[n - 1] \in missing THEN k[n - 1] ELSE Parent[k[n - 1]]]
    BY <1>7, Zenon DEF Generations
  <1>9. Above(commit, missing) = {k[n] : n \in 0..Generations}
    BY Zenon DEF Above, Generations
  <1> HIDE DEF k
  <1>10. k[0] = commit
    <2>1. 0 \in 0..Generations  BY <1>1
    <2>2. QED  BY <1>8, <2>1
  <1>11. ASSUME NEW n \in 1..Generations
         PROVE  k[n] = IF k[n - 1] \in missing THEN k[n - 1] ELSE Parent[k[n - 1]]
    <2>1. n \in 0..Generations /\ n # 0  BY <1>1
    <2>2. QED  BY <1>8, <2>1
  <1>12. AboveRun(k, commit, missing)  BY <1>10, <1>11 DEF AboveRun
  <1>13. QED  BY <1>9, <1>12

(* A clone that lacks commits sees a part of what a whole one sees above a *)
(* commit, and all of it if it meets none that it lacks.                   *)
LEMMA AboveIsPart ==
    ASSUME NEW commit \in DOMAIN Parent, NEW missing
    PROVE  /\ commit \in Above(commit, missing)
           /\ Above(commit, missing) \subseteq Above(commit, {})
           /\ Above(commit, missing) \cap missing = {} =>
                Above(commit, missing) = Above(commit, {})
  <1>1. PICK k : /\ Above(commit, missing) = {k[n] : n \in 0..Generations}
                 /\ AboveRun(k, commit, missing)
    BY AboveUnfolds
  <1>2. PICK f : /\ Above(commit, {}) = {f[n] : n \in 0..Generations}
                 /\ AboveRun(f, commit, {})
    BY AboveUnfolds
  <1>3. Generations \in Nat
    BY HistoryAssumption, FS_CardinalityType DEF Generations
  <1>4. PICK M : M = {n \in Nat : n <= Generations =>
                        \/ k[n] = f[n]
                        \/ k[n] \in missing /\ \E i \in 0..n : k[n] = f[i]}
    OBVIOUS
  <1>5. 0 \in M  BY <1>1, <1>2, <1>4 DEF AboveRun
  <1>6. ASSUME NEW n \in Nat, n \in M PROVE n + 1 \in M
    <2> SUFFICES ASSUME n + 1 <= Generations
                 PROVE  \/ k[n + 1] = f[n + 1]
                        \/ k[n + 1] \in missing /\ \E i \in 0..n + 1 : k[n + 1] = f[i]
      BY <1>4
    <2>1. n + 1 \in 1..Generations /\ (n + 1) - 1 = n /\ n <= Generations  BY <1>3
    <2>2. k[n + 1] = IF k[n] \in missing THEN k[n] ELSE Parent[k[n]]
      BY <1>1, <2>1 DEF AboveRun
    <2>3. f[n + 1] = Parent[f[n]]  BY <1>2, <2>1 DEF AboveRun
    <2>4. \/ k[n] = f[n]
          \/ k[n] \in missing /\ \E i \in 0..n : k[n] = f[i]
      BY <1>4, <1>6, <2>1
    <2>5. CASE k[n] \in missing
      <3>1. PICK i \in 0..n : k[n] = f[i]
        <4>1. n \in 0..n  OBVIOUS
        <4>2. QED  BY <2>4, <4>1
      <3>2. i \in 0..n + 1  OBVIOUS
      <3>3. QED  BY <2>2, <2>5, <3>1, <3>2
    <2>6. CASE k[n] \notin missing  BY <2>2, <2>3, <2>4, <2>6
    <2>7. QED  BY <2>5, <2>6
  <1>7. Nat \subseteq M  BY <1>5, <1>6, NumberInduction
  <1>8. \A n \in 0..Generations :
          \/ k[n] = f[n]
          \/ k[n] \in missing /\ \E i \in 0..n : k[n] = f[i]
    BY <1>3, <1>4, <1>7
  <1>9. commit \in Above(commit, missing)
    <2>1. 0 \in 0..Generations  BY <1>3
    <2>2. QED  BY <1>1, <2>1 DEF AboveRun
  <1>10. ASSUME NEW n \in 0..Generations PROVE k[n] \in Above(commit, {})
    <2>1. CASE k[n] = f[n]  BY <1>2, <2>1
    <2>2. ASSUME NEW i \in 0..n, k[n] = f[i] PROVE k[n] \in Above(commit, {})
      <3>1. i \in 0..Generations  BY <1>3
      <3>2. QED  BY <1>2, <2>2, <3>1
    <2>3. QED  BY <1>8, <2>1, <2>2
  <1>11. ASSUME Above(commit, missing) \cap missing = {}
         PROVE  Above(commit, {}) \subseteq Above(commit, missing)
    <2>1. ASSUME NEW n \in 0..Generations PROVE f[n] \in Above(commit, missing)
      <3>1. k[n] \in Above(commit, missing)  BY <1>1
      <3>2. k[n] \notin missing  BY <1>11, <3>1
      <3>3. QED  BY <1>8, <3>1, <3>2
    <2>2. QED  BY <1>2, <2>1
  <1>12. QED  BY <1>1, <1>9, <1>10, <1>11

LEMMA SnapshotIsNamed ==
    ASSUME NEW commit \in Commits, NEW w \in Worktrees
    PROVE  /\ SnapshotOf(commit, w) \in Trees
           /\ SnapshotOf(commit, w) \in Commits \X Worktrees
           /\ Identity(SnapshotOf(commit, w)[1], SnapshotOf(commit, w)[2]) = Identity(commit, w)
  <1>1. PICK t : t = <<commit, w>>  OBVIOUS
  <1>2. t \in Commits \X Worktrees /\ t[1] = commit /\ t[2] = w  BY <1>1
  <1>3. PICK n : n = SnapshotOf(commit, w)  OBVIOUS
  <1>4. n = CHOOSE u \in Commits \X Worktrees : Identity(u[1], u[2]) = Identity(t[1], t[2])
    BY <1>1, <1>2, <1>3 DEF SnapshotOf, Named
  <1>5. \E u \in Commits \X Worktrees : Identity(u[1], u[2]) = Identity(t[1], t[2])
    BY <1>2
  <1>6. n \in Commits \X Worktrees /\ Identity(n[1], n[2]) = Identity(t[1], t[2])
    BY <1>4, <1>5, Zenon
  <1>7. n \in Trees  BY <1>3 DEF Trees
  <1>8. QED  BY <1>2, <1>3, <1>6, <1>7

LEMMA TreesAreNamed ==
    ASSUME NEW t \in Trees
    PROVE  t \in Commits \X Worktrees /\ t[1] \in DOMAIN Parent
  <1>1. PICK commit \in Commits, w \in Worktrees : t = SnapshotOf(commit, w)  BY DEF Trees
  <1>2. t \in Commits \X Worktrees  BY <1>1, SnapshotIsNamed
  <1>3. t[1] \in Commits  BY <1>2
  <1>4. QED  BY <1>2, <1>3, TreesAssumption

(* What is recorded of a pair is what the whole history says of it.        *)
FactSound(l, r, rel) ==
  /\ rel \in Orders \ {"unknown"}
  /\ rel = "before" <=> WentInto(l, r)
  /\ rel = "after" <=> WentInto(r, l)
  /\ rel = "same" => l[1] = r[1] /\ l \notin DirtyTrees /\ r \notin DirtyTrees

LEMMA WalksAreSound ==
    ASSUME NEW a \in DOMAIN Parent, NEW c \in DOMAIN Parent, NEW missing
    PROVE  /\ Walk(a, c, missing) \in {"found", "absent", "unknown"}
           /\ Walk(a, c, missing) = "found" => a \in Above(c, {})
           /\ Walk(a, c, missing) = "absent" => a \notin Above(c, {})
           /\ missing = {} => Walk(a, c, missing) # "unknown"
  <1>1. PICK A : A = Above(c, missing)  OBVIOUS
  <1>2. A \subseteq Above(c, {}) /\ (A \cap missing = {} => A = Above(c, {}))
    BY <1>1, AboveIsPart
  <1>3. Walk(a, c, missing) = IF a \in A THEN "found"
                              ELSE IF A \cap missing # {} THEN "unknown" ELSE "absent"
    BY <1>1 DEF Walk
  <1>4. QED  BY <1>2, <1>3

LEMMA CommitsAreCompared ==
    ASSUME NEW l \in DOMAIN Parent, NEW r \in DOMAIN Parent, NEW missing
    PROVE  /\ CompareCommits(l, r, missing) \in Orders
           /\ CompareCommits(l, r, missing) = "same" <=> l = r
           /\ CompareCommits(l, r, missing) = "before" => l \in Above(r, {}) /\ r \notin Above(l, {})
           /\ CompareCommits(l, r, missing) = "after" => r \in Above(l, {}) /\ l \notin Above(r, {})
           /\ CompareCommits(l, r, missing) = "concurrent" =>
                l \notin Above(r, {}) /\ r \notin Above(l, {})
           /\ missing = {} => CompareCommits(l, r, missing) # "unknown"
  <1>1. PICK there : there = Walk(l, r, missing)  OBVIOUS
  <1>2. PICK back : back = Walk(r, l, missing)  OBVIOUS
  <1>3. /\ there \in {"found", "absent", "unknown"}
        /\ there = "found" => l \in Above(r, {})
        /\ there = "absent" => l \notin Above(r, {})
        /\ missing = {} => there # "unknown"
    BY <1>1, WalksAreSound
  <1>4. /\ back \in {"found", "absent", "unknown"}
        /\ back = "found" => r \in Above(l, {})
        /\ back = "absent" => r \notin Above(l, {})
        /\ missing = {} => back # "unknown"
    BY <1>2, WalksAreSound
  <1>5. l \in Above(r, {}) /\ r \in Above(l, {}) => l = r  BY HistoryAssumption
  <1>6. CompareCommits(l, r, missing) =
          IF l = r THEN "same"
          ELSE CASE there = "found" -> "before"
                 [] there = "unknown" -> "unknown"
                 [] there = "absent" ->
                      CASE back = "found" -> "after"
                        [] back = "unknown" -> "unknown"
                        [] back = "absent" -> "concurrent"
    BY <1>1, <1>2 DEF CompareCommits
  <1>7. CASE l = r  BY <1>6, <1>7 DEF Orders
  <1>8. CASE l # r
    <2>1. CASE there = "found"
      <3>1. CompareCommits(l, r, missing) = "before"  BY <1>6, <1>8, <2>1
      <3>2. QED  BY <1>3, <1>5, <1>8, <2>1, <3>1 DEF Orders
    <2>2. CASE there = "unknown"
      <3>1. CompareCommits(l, r, missing) = "unknown"  BY <1>6, <1>8, <2>2
      <3>2. QED  BY <1>3, <1>8, <2>2, <3>1 DEF Orders
    <2>3. CASE there = "absent"
      <3>1. CASE back = "found"
        <4>1. CompareCommits(l, r, missing) = "after"  BY <1>6, <1>8, <2>3, <3>1
        <4>2. QED  BY <1>3, <1>4, <1>8, <2>3, <3>1, <4>1 DEF Orders
      <3>2. CASE back = "unknown"
        <4>1. CompareCommits(l, r, missing) = "unknown"  BY <1>6, <1>8, <2>3, <3>2
        <4>2. QED  BY <1>4, <1>8, <3>2, <4>1 DEF Orders
      <3>3. CASE back = "absent"
        <4>1. CompareCommits(l, r, missing) = "concurrent"  BY <1>6, <1>8, <2>3, <3>3
        <4>2. QED  BY <1>3, <1>4, <1>8, <2>3, <3>3, <4>1 DEF Orders
      <3>4. QED  BY <1>4, <3>1, <3>2, <3>3
    <2>4. QED  BY <1>3, <2>1, <2>2, <2>3
  <1>9. QED  BY <1>7, <1>8

LEMMA FactsAreSound ==
    ASSUME NEW l \in Trees, NEW r \in Trees, NEW missing
    PROVE  /\ OverlayAware(l, r, missing) # "unknown" =>
                FactSound(l, r, OverlayAware(l, r, missing))
           /\ missing = {} => OverlayAware(l, r, missing) # "unknown"
  <1>1. PICK rel : rel = CompareCommits(l[1], r[1], missing)  OBVIOUS
  <1>2. l[1] \in DOMAIN Parent /\ r[1] \in DOMAIN Parent  BY TreesAreNamed
  <1>3. PICK p \in DOMAIN Parent : p = l[1]  BY <1>2
  <1>4. PICK q \in DOMAIN Parent : q = r[1]  BY <1>2
  <1>5. rel = CompareCommits(p, q, missing)  BY <1>1, <1>3, <1>4
  <1>6. /\ rel \in Orders
        /\ rel = "same" <=> p = q
        /\ rel = "before" => p \in Above(q, {}) /\ q \notin Above(p, {})
        /\ rel = "after" => q \in Above(p, {}) /\ p \notin Above(q, {})
        /\ rel = "concurrent" => p \notin Above(q, {}) /\ q \notin Above(p, {})
        /\ missing = {} => rel # "unknown"
    BY <1>5, CommitsAreCompared
  <1>7. p \in Above(p, {})  BY AboveIsPart
  <1>8. PICK dl \in BOOLEAN : dl <=> l \in DirtyTrees  BY Zenon
  <1>9. PICK dr \in BOOLEAN : dr <=> r \in DirtyTrees  BY Zenon
  <1>10. OverlayAware(l, r, missing) =
           IF rel = "same"
           THEN CASE <<dl, dr>> = <<FALSE, TRUE>> -> "before"
                  [] <<dl, dr>> = <<TRUE, FALSE>> -> "after"
                  [] <<dl, dr>> = <<TRUE, TRUE>> -> "concurrent"
                  [] <<dl, dr>> = <<FALSE, FALSE>> -> "same"
           ELSE IF (rel = "before" /\ dl) \/ (rel = "after" /\ dr) THEN "concurrent" ELSE rel
    BY <1>1, <1>8, <1>9 DEF OverlayAware
  <1>11. /\ WentInto(l, r) <=> ~dl /\ p \in Above(q, {}) /\ (p = q => dr)
         /\ WentInto(r, l) <=> ~dr /\ q \in Above(p, {}) /\ (q = p => dl)
    <2>1. History[l] = Above(p, {}) /\ History[r] = Above(q, {})
      BY <1>3, <1>4 DEF History
    <2>2. QED  BY <1>3, <1>4, <1>8, <1>9, <2>1 DEF WentInto
  <1>12. CASE rel = "same"
    <2>1. p = q  BY <1>6, <1>12
    <2>2. CASE dl = FALSE /\ dr = TRUE
      <3>1. OverlayAware(l, r, missing) = "before"  BY <1>10, <1>12, <2>2
      <3>2. QED  BY <1>7, <1>11, <2>1, <2>2, <3>1 DEF FactSound, Orders
    <2>3. CASE dl = TRUE /\ dr = FALSE
      <3>1. OverlayAware(l, r, missing) = "after"  BY <1>10, <1>12, <2>3
      <3>2. QED  BY <1>7, <1>11, <2>1, <2>3, <3>1 DEF FactSound, Orders
    <2>4. CASE dl = TRUE /\ dr = TRUE
      <3>1. OverlayAware(l, r, missing) = "concurrent"  BY <1>10, <1>12, <2>4
      <3>2. QED  BY <1>11, <2>4, <3>1 DEF FactSound, Orders
    <2>5. CASE dl = FALSE /\ dr = FALSE
      <3>1. OverlayAware(l, r, missing) = "same"  BY <1>10, <1>12, <2>5
      <3>2. QED
        BY <1>3, <1>4, <1>8, <1>9, <1>11, <2>1, <2>5, <3>1 DEF FactSound, Orders
    <2>6. QED  BY <2>2, <2>3, <2>4, <2>5
  <1>13. CASE rel # "same"
    <2>1. p # q  BY <1>6, <1>13
    <2>2. CASE (rel = "before" /\ dl) \/ (rel = "after" /\ dr)
      <3>1. OverlayAware(l, r, missing) = "concurrent"  BY <1>10, <1>13, <2>2
      <3>2. ~WentInto(l, r) /\ ~WentInto(r, l)  BY <1>6, <1>11, <2>2
      <3>3. QED  BY <3>1, <3>2 DEF FactSound, Orders
    <2>3. CASE ~((rel = "before" /\ dl) \/ (rel = "after" /\ dr))
      <3>1. OverlayAware(l, r, missing) = rel  BY <1>10, <1>13, <2>3
      <3>2. rel # "unknown" =>
              (rel = "before" <=> WentInto(l, r)) /\ (rel = "after" <=> WentInto(r, l))
        BY <1>6, <1>11, <2>1, <2>3 DEF Orders
      <3>3. QED  BY <1>6, <1>13, <3>1, <3>2 DEF FactSound, Orders
    <2>4. QED  BY <2>2, <2>3
  <1>14. QED  BY <1>12, <1>13

-----------------------------------------------------------------------------
(* Events *)

Constructors == {"snapshot", "occurrence", "accepted", "linked", "relation", "superseded", "index"}

LEMMA EventForms ==
    ASSUME NEW e \in Events
    PROVE  /\ e.kind \in Constructors
           /\ e.kind = "snapshot" => \E t \in Trees : e = Snapshot(t)
           /\ e.kind = "occurrence" =>
                \E t \in Trees, of \in Claims \cup Codes : e = Occurrence(t, of)
           /\ e.kind = "accepted" =>
                \E c \in Claims, t \in Trees, of \in Codes : e = Accepted(c, t, of)
           /\ e.kind = "linked" =>
                \/ \E c \in Claims, t \in Trees : e = Linked(c, t, c, "deterministic")
                \/ \E c \in Claims, t \in Trees, of \in Codes : e = Linked(c, t, of, "semantic")
           /\ e.kind = "relation" =>
                \E l \in Trees, r \in Trees, rel \in Orders : e = Relation(l, r, rel)
           /\ e.kind = "superseded" =>
                \E old \in Claims, new \in Claims : e = Superseded(old, new)
           /\ e.kind = "index" =>
                \E id \in IndexIds, coverage \in SUBSET Gaps : e = IndexRecorded(id, coverage)
  <1>1. ASSUME \E t \in Trees : e = Snapshot(t)
        PROVE  e.kind = "snapshot"
    BY <1>1 DEF Snapshot, Event
  <1>2. ASSUME \E t \in Trees, of \in Claims \cup Codes : e = Occurrence(t, of)
        PROVE  e.kind = "occurrence"
    BY <1>2 DEF Occurrence, Event
  <1>3. ASSUME \E c \in Claims, t \in Trees, of \in Codes : e = Accepted(c, t, of)
        PROVE  e.kind = "accepted"
    BY <1>3 DEF Accepted, Event
  <1>4. ASSUME \E c \in Claims, t \in Trees : e = Linked(c, t, c, "deterministic")
        PROVE  e.kind = "linked"
    BY <1>4 DEF Linked, Event
  <1>5. ASSUME \E c \in Claims, t \in Trees, of \in Codes : e = Linked(c, t, of, "semantic")
        PROVE  e.kind = "linked"
    BY <1>5 DEF Linked, Event
  <1>6. ASSUME \E l \in Trees, r \in Trees, rel \in Orders : e = Relation(l, r, rel)
        PROVE  e.kind = "relation"
    BY <1>6 DEF Relation, Event
  <1>7. ASSUME \E old \in Claims, new \in Claims : e = Superseded(old, new)
        PROVE  e.kind = "superseded"
    BY <1>7 DEF Superseded, Event
  <1>8. ASSUME \E id \in IndexIds, coverage \in SUBSET Gaps : e = IndexRecorded(id, coverage)
        PROVE  e.kind = "index"
    BY <1>8 DEF IndexRecorded, Event
  <1>9. \/ \E t \in Trees : e = Snapshot(t)
        \/ \E t \in Trees, of \in Claims \cup Codes : e = Occurrence(t, of)
        \/ \E c \in Claims, t \in Trees, of \in Codes : e = Accepted(c, t, of)
        \/ \E c \in Claims, t \in Trees : e = Linked(c, t, c, "deterministic")
        \/ \E c \in Claims, t \in Trees, of \in Codes : e = Linked(c, t, of, "semantic")
        \/ \E l \in Trees, r \in Trees, rel \in Orders : e = Relation(l, r, rel)
        \/ \E old \in Claims, new \in Claims : e = Superseded(old, new)
        \/ \E id \in IndexIds, coverage \in SUBSET Gaps : e = IndexRecorded(id, coverage)
    BY DEF Events
  <1>10. QED  BY <1>1, <1>2, <1>3, <1>4, <1>5, <1>6, <1>7, <1>8, <1>9 DEF Constructors

(* What an event names has to be before it.                                *)
Caused(e, earlier) ==
  /\ e.kind = "linked" => \E f \in earlier : Same(f, Occurrence(e.key[2], e.key[3]))
  /\ e.kind = "linked" /\ e.data = "semantic" =>
       \E f \in earlier : Same(f, Accepted(e.key[1], e.key[2], e.key[3]))
  /\ e.kind = "occurrence" => \E f \in earlier : Same(f, Snapshot(e.key[1]))

FirstEvents(s, n) == {s[j] : j \in 1..n}

(* Every event of a sequence comes after what it names, or has it in base. *)
Grounded(base, s) ==
  \A i \in 1..Len(s) : Caused(s[i], base \cup FirstEvents(s, i - 1))

(* No two are the same event: one is appended once.                        *)
Distinct(s) == \A i, j \in 1..Len(s) : Same(s[i], s[j]) => i = j

LEMMA CausedByMore ==
    ASSUME NEW e, NEW X, NEW Y, Caused(e, X),
           \A f \in X : \E g \in Y : Same(g, f)
    PROVE  Caused(e, Y)
  <1>1. ASSUME NEW c, \E f \in X : Same(f, c) PROVE \E g \in Y : Same(g, c)
    BY <1>1 DEF Same
  <1>2. QED  BY <1>1, Zenon DEF Caused

(* A journal after some of the events of a queue.                          *)
Extended(u, events, n) ==
  /\ u \in Seq(Events)
  /\ Len(journal) <= Len(u) /\ \A i \in 1..Len(journal) : u[i] = journal[i]
  /\ \A i \in 1..Len(u) : u[i] \in Range(journal) \cup FirstEvents(events, n)
  /\ \A j \in 1..n : \E i \in 1..Len(u) : Same(u[i], events[j])
  /\ Distinct(u)
  /\ Grounded({}, u)

LEMMA FirstOfLonger ==
    ASSUME NEW s, NEW n \in Nat
    PROVE  FirstEvents(s, n + 1) = FirstEvents(s, n) \cup {s[n + 1]}
  <1>1. 1..n + 1 = (1..n) \cup {n + 1}  OBVIOUS
  <1>2. QED  BY <1>1 DEF FirstEvents

LEMMA AppendedHolds ==
    ASSUME journal \in Seq(Events), NEW events \in Seq(Events), NEW n \in Nat,
           n + 1 <= Len(events), Grounded(Range(journal), events),
           NEW u, Extended(u, events, n), NEW v,
           v = IF \E i \in DOMAIN u : Same(u[i], events[n + 1]) THEN u
               ELSE Append(u, events[n + 1])
    PROVE  Extended(v, events, n + 1)
  <1>1. PICK e : e = events[n + 1]  OBVIOUS
  <1>2. e \in Events  BY <1>1
  <1>3. u \in Seq(Events) /\ Len(u) \in Nat /\ DOMAIN u = 1..Len(u) /\ Len(journal) \in Nat
    BY DEF Extended
  <1>4. FirstEvents(events, n + 1) = FirstEvents(events, n) \cup {e}
    BY <1>1, FirstOfLonger
  <1>5. \A j \in 1..n + 1 : j \in 1..n \/ j = n + 1  OBVIOUS
  <1>6. CASE \E i \in DOMAIN u : Same(u[i], e)
    <2>1. v = u  BY <1>1, <1>6
    <2>2. \A j \in 1..n + 1 : \E i \in 1..Len(u) : Same(u[i], events[j])
      BY <1>1, <1>3, <1>5, <1>6 DEF Extended
    <2>3. QED  BY <1>4, <2>1, <2>2 DEF Extended
  <1>7. CASE ~\E i \in DOMAIN u : Same(u[i], e)
    <2>1. v = Append(u, e)  BY <1>1, <1>7
    <2>2. /\ v \in Seq(Events) /\ Len(v) = Len(u) + 1
          /\ \A i \in 1..Len(u) : v[i] = u[i]
          /\ v[Len(u) + 1] = e
      BY <1>2, <1>3, <2>1
    <2>3. \A i \in 1..Len(v) : i \in 1..Len(u) \/ i = Len(u) + 1  BY <1>3, <2>2
    <2>4. Len(journal) <= Len(v) /\ \A i \in 1..Len(journal) : v[i] = journal[i]
      <3>1. Len(journal) <= Len(u) /\ \A i \in 1..Len(journal) : u[i] = journal[i]
        BY DEF Extended
      <3>2. \A i \in 1..Len(journal) : i \in 1..Len(u)  BY <1>3, <3>1
      <3>3. QED  BY <1>3, <2>2, <3>1, <3>2
    <2>5. \A i \in 1..Len(v) : v[i] \in Range(journal) \cup FirstEvents(events, n + 1)
      BY <1>4, <2>2, <2>3 DEF Extended
    <2>6. \A j \in 1..n + 1 : \E i \in 1..Len(v) : Same(v[i], events[j])
      <3>1. ASSUME NEW j \in 1..n PROVE \E i \in 1..Len(v) : Same(v[i], events[j])
        <4>1. PICK i \in 1..Len(u) : Same(u[i], events[j])  BY DEF Extended
        <4>2. i \in 1..Len(v) /\ v[i] = u[i]  BY <1>3, <2>2
        <4>3. QED  BY <4>1, <4>2
      <3>2. Len(u) + 1 \in 1..Len(v) /\ Same(v[Len(u) + 1], events[n + 1])
        BY <1>1, <1>3, <2>2 DEF Same
      <3>3. QED  BY <1>5, <3>1, <3>2
    <2>7. Distinct(v)
      <3>1. \A i \in 1..Len(u) : ~Same(u[i], e) /\ ~Same(e, u[i])
        BY <1>3, <1>7 DEF Same
      <3>2. Distinct(u)  BY DEF Extended
      <3>3. QED  BY <2>2, <2>3, <3>1, <3>2 DEF Distinct
    <2>8. Grounded({}, v)
      <3>1. ASSUME NEW i \in 1..Len(u) PROVE Caused(v[i], {} \cup FirstEvents(v, i - 1))
        <4>1. \A j \in 1..i - 1 : j \in 1..Len(u)  BY <1>3
        <4>2. FirstEvents(v, i - 1) = FirstEvents(u, i - 1)
          BY <2>2, <4>1, Zenon DEF FirstEvents
        <4>3. Caused(u[i], {} \cup FirstEvents(u, i - 1))  BY DEF Extended, Grounded
        <4>4. QED  BY <2>2, <4>2, <4>3
      <3>2. Caused(e, FirstEvents(v, Len(u)))
        <4>1. Caused(e, Range(journal) \cup FirstEvents(events, n))
          <5>1. n + 1 \in 1..Len(events) /\ (n + 1) - 1 = n  OBVIOUS
          <5>2. Caused(events[n + 1], Range(journal) \cup FirstEvents(events, (n + 1) - 1))
            BY <5>1 DEF Grounded
          <5>3. QED  BY <1>1, <5>1, <5>2
        <4>2. ASSUME NEW f \in Range(journal) \cup FirstEvents(events, n)
              PROVE  \E g \in FirstEvents(v, Len(u)) : Same(g, f)
          <5>1. ASSUME NEW i \in 1..Len(u), Same(u[i], f)
                PROVE  \E g \in FirstEvents(v, Len(u)) : Same(g, f)
            BY <2>2, <5>1 DEF FirstEvents
          <5>2. CASE f \in Range(journal)
            <6>1. PICK i \in 1..Len(journal) : f = journal[i]  BY <5>2 DEF Range
            <6>2. i \in 1..Len(u) /\ u[i] = f  BY <1>3, <6>1 DEF Extended
            <6>3. QED  BY <5>1, <6>2 DEF Same
          <5>3. CASE f \in FirstEvents(events, n)
            <6>1. PICK j \in 1..n : f = events[j]  BY <5>3 DEF FirstEvents
            <6>2. QED  BY <5>1, <6>1 DEF Extended
          <5>4. QED  BY <5>2, <5>3
        <4>3. PICK Y : Y = FirstEvents(v, Len(u))  OBVIOUS
        <4>4. Caused(e, Y)  BY <4>1, <4>2, <4>3, CausedByMore
        <4>5. QED  BY <4>3, <4>4
      <3>3. Caused(v[Len(u) + 1], {} \cup FirstEvents(v, (Len(u) + 1) - 1))
        <4>1. (Len(u) + 1) - 1 = Len(u)  BY <1>3
        <4>2. QED  BY <2>2, <3>2, <4>1
      <3>4. QED  BY <2>3, <3>1, <3>3 DEF Grounded
    <2>9. QED  BY <2>2, <2>4, <2>5, <2>6, <2>7, <2>8 DEF Extended
  <1>8. QED  BY <1>6, <1>7

AfterRun(k, events) ==
  /\ k[0] = journal
  /\ \A n \in 1..Len(events) :
       k[n] = IF \E i \in DOMAIN k[n - 1] : Same(k[n - 1][i], events[n]) THEN k[n - 1]
              ELSE Append(k[n - 1], events[n])

LEMMA AfterUnfolds ==
    ASSUME NEW T, journal \in Seq(T), NEW events \in Seq(T)
    PROVE  \E k : After(events) = k[Len(events)] /\ AfterRun(k, events)
  <1> DEFINE k == CHOOSE held : held = [n \in 0..Len(events) |->
                    IF n = 0 THEN journal
                    ELSE IF \E i \in DOMAIN held[n - 1] : Same(held[n - 1][i], events[n])
                         THEN held[n - 1]
                         ELSE Append(held[n - 1], events[n])]
  <1>1. PICK step : step = [p \in (1..Len(events)) \X Seq(T) |->
                              IF \E i \in DOMAIN p[2] : Same(p[2][i], events[p[1]]) THEN p[2]
                              ELSE Append(p[2], events[p[1]])]
    OBVIOUS
  <1>2. step \in [(1..Len(events)) \X Seq(T) -> Seq(T)]
    <2>1. ASSUME NEW p \in (1..Len(events)) \X Seq(T)
          PROVE  (IF \E i \in DOMAIN p[2] : Same(p[2][i], events[p[1]]) THEN p[2]
                  ELSE Append(p[2], events[p[1]])) \in Seq(T)
      <3>1. events[p[1]] \in T /\ p[2] \in Seq(T)  OBVIOUS
      <3>2. QED  BY <3>1
    <2>2. QED  BY <1>1, <2>1
  <1>3. Len(events) \in Nat /\ journal \in Seq(T)  OBVIOUS
  <1>4. PICK s : s = journal  OBVIOUS
  <1>5. PICK f \in [0..Len(events) -> Seq(T)] : IsRun(f, Len(events), s, step)
    BY <1>2, <1>3, <1>4, Recursion
  <1>6. f = [n \in 0..Len(events) |->
               IF n = 0 THEN journal
               ELSE IF \E i \in DOMAIN f[n - 1] : Same(f[n - 1][i], events[n]) THEN f[n - 1]
                    ELSE Append(f[n - 1], events[n])]
    <2>1. ASSUME NEW n \in 0..Len(events)
          PROVE  f[n] = IF n = 0 THEN journal
                        ELSE IF \E i \in DOMAIN f[n - 1] : Same(f[n - 1][i], events[n])
                             THEN f[n - 1]
                             ELSE Append(f[n - 1], events[n])
      <3>1. CASE n = 0  BY <1>4, <1>5, <3>1 DEF IsRun
      <3>2. CASE n # 0
        <4>1. n \in 1..Len(events) /\ n - 1 \in 0..Len(events)  BY <1>3, <3>2
        <4>2. PICK p : p = <<n, f[n - 1]>>  OBVIOUS
        <4>3. p \in (1..Len(events)) \X Seq(T) /\ p[1] = n /\ p[2] = f[n - 1]
          BY <4>1, <4>2
        <4>4. f[n] = step[p]  BY <1>5, <4>1, <4>2 DEF IsRun
        <4>5. step[p] = IF \E i \in DOMAIN p[2] : Same(p[2][i], events[p[1]]) THEN p[2]
                        ELSE Append(p[2], events[p[1]])
          BY <1>1, <4>3
        <4>6. QED  BY <3>2, <4>3, <4>4, <4>5
      <3>3. QED  BY <3>1, <3>2
    <2>2. f = [n \in 0..Len(events) |-> f[n]]  OBVIOUS
    <2>3. QED  BY <2>1, <2>2
  <1>7. k = [n \in 0..Len(events) |->
               IF n = 0 THEN journal
               ELSE IF \E i \in DOMAIN k[n - 1] : Same(k[n - 1][i], events[n]) THEN k[n - 1]
                    ELSE Append(k[n - 1], events[n])]
    BY <1>6, Zenon
  <1>8. After(events) = k[Len(events)]  BY Zenon DEF After
  <1> HIDE DEF k
  <1>9. k[0] = journal
    <2>1. 0 \in 0..Len(events)  BY <1>3
    <2>2. QED  BY <1>7, <2>1
  <1>10. ASSUME NEW n \in 1..Len(events)
         PROVE  k[n] = IF \E i \in DOMAIN k[n - 1] : Same(k[n - 1][i], events[n]) THEN k[n - 1]
                       ELSE Append(k[n - 1], events[n])
    <2>1. n \in 0..Len(events) /\ n # 0  BY <1>3
    <2>2. QED  BY <1>7, <2>1
  <1>11. AfterRun(k, events)  BY <1>9, <1>10 DEF AfterRun
  <1>12. QED  BY <1>8, <1>11

(* A phase's appends keep the journal, hold all of the queue and nothing   *)
(* else, repeat no key and put nothing before what it names.               *)
LEMMA AfterHolds ==
    ASSUME journal \in Seq(Events), Distinct(journal), Grounded({}, journal),
           NEW events \in Seq(Events), Grounded(Range(journal), events)
    PROVE  Extended(After(events), events, Len(events))
  <1>1. PICK k : After(events) = k[Len(events)] /\ AfterRun(k, events)  BY AfterUnfolds
  <1>2. PICK M : M = {n \in Nat : n <= Len(events) => Extended(k[n], events, n)}  OBVIOUS
  <1>3. 0 \in M
    <2>1. k[0] = journal  BY <1>1 DEF AfterRun
    <2>2. 1..0 = {} /\ DOMAIN journal = 1..Len(journal) /\ Len(journal) \in Nat  OBVIOUS
    <2>3. Extended(journal, events, 0)  BY <2>2 DEF Extended, Range
    <2>4. QED  BY <1>2, <2>1, <2>3
  <1>4. ASSUME NEW n \in Nat, n \in M PROVE n + 1 \in M
    <2> SUFFICES ASSUME n + 1 <= Len(events) PROVE Extended(k[n + 1], events, n + 1)
      BY <1>2
    <2>1. n + 1 \in 1..Len(events) /\ (n + 1) - 1 = n /\ n <= Len(events)  OBVIOUS
    <2>2. PICK u : u = k[n]  OBVIOUS
    <2>3. PICK v : v = k[n + 1]  OBVIOUS
    <2>4. Extended(u, events, n)  BY <1>2, <1>4, <2>1, <2>2
    <2>5. v = IF \E i \in DOMAIN u : Same(u[i], events[n + 1]) THEN u
              ELSE Append(u, events[n + 1])
      BY <1>1, <2>1, <2>2, <2>3 DEF AfterRun
    <2>6. Extended(v, events, n + 1)  BY <2>1, <2>4, <2>5, AppendedHolds
    <2>7. QED  BY <2>3, <2>6
  <1>5. Len(events) \in M  BY <1>3, <1>4, NumberInduction
  <1>6. QED  BY <1>1, <1>2, <1>5

-----------------------------------------------------------------------------
(* Queues whose events come after what they name *)

Has(s, e) == \E i \in 1..Len(s) : Same(s[i], e)

LEMMA NothingToName ==
    ASSUME NEW e, NEW X, e.kind \notin {"linked", "occurrence"}
    PROVE  Caused(e, X)
  <1>1. QED  BY DEF Caused

LEMMA GroundedOnMore ==
    ASSUME NEW s, NEW X, NEW Y, Grounded(X, s),
           \A f \in X : \E g \in Y : Same(g, f)
    PROVE  Grounded(Y, s)
  <1> SUFFICES ASSUME NEW i \in 1..Len(s)
               PROVE  Caused(s[i], Y \cup FirstEvents(s, i - 1))
    BY DEF Grounded
  <1>1. PICK e : e = s[i]  OBVIOUS
  <1>2. PICK F : F = FirstEvents(s, i - 1)  OBVIOUS
  <1>3. Caused(e, X \cup F)  BY <1>1, <1>2 DEF Grounded
  <1>4. \A f \in X \cup F : \E g \in Y \cup F : Same(g, f)
    <2>1. ASSUME NEW f \in F PROVE \E g \in Y \cup F : Same(g, f)  BY DEF Same
    <2>2. QED  BY <2>1
  <1>5. PICK A : A = X \cup F  OBVIOUS
  <1>6. PICK B : B = Y \cup F  OBVIOUS
  <1>7. Caused(e, B)  BY <1>3, <1>4, <1>5, <1>6, CausedByMore
  <1>8. QED  BY <1>1, <1>2, <1>6, <1>7

LEMMA GroundedBoth ==
    ASSUME NEW T, NEW u \in Seq(T), NEW v \in Seq(T), NEW X,
           Grounded(X, u), Grounded(X \cup Range(u), v)
    PROVE  Grounded(X, u \o v)
  <1>1. PICK w : w = u \o v  OBVIOUS
  <1>2. /\ w \in Seq(T) /\ Len(w) = Len(u) + Len(v)
        /\ \A i \in 1..Len(u) + Len(v) :
             w[i] = IF i <= Len(u) THEN u[i] ELSE v[i - Len(u)]
    BY <1>1
  <1>3. Len(u) \in Nat /\ Len(v) \in Nat  OBVIOUS
  <1>4. ASSUME NEW i \in 1..Len(u) + Len(v)
        PROVE  Caused(w[i], X \cup FirstEvents(w, i - 1))
    <2>1. CASE i <= Len(u)
      <3>1. w[i] = u[i] /\ i \in 1..Len(u)  BY <1>2, <1>3, <2>1
      <3>2. \A j \in 1..i - 1 : w[j] = u[j]  BY <1>2, <1>3, <2>1
      <3>3. FirstEvents(w, i - 1) = FirstEvents(u, i - 1)  BY <3>2, Zenon DEF FirstEvents
      <3>4. Caused(u[i], X \cup FirstEvents(u, i - 1))  BY <3>1 DEF Grounded
      <3>5. QED  BY <3>1, <3>3, <3>4
    <2>2. CASE ~(i <= Len(u))
      <3>1. PICK k : k = i - Len(u)  OBVIOUS
      <3>2. w[i] = v[k] /\ k \in 1..Len(v)  BY <1>2, <1>3, <2>2, <3>1
      <3>3. PICK e : e = v[k]  OBVIOUS
      <3>4. PICK A : A = (X \cup Range(u)) \cup FirstEvents(v, k - 1)  OBVIOUS
      <3>5. PICK B : B = X \cup FirstEvents(w, i - 1)  OBVIOUS
      <3>6. Caused(e, A)  BY <3>2, <3>3, <3>4 DEF Grounded
      <3>7. ASSUME NEW f \in A PROVE \E g \in B : Same(g, f)
        <4>1. CASE f \in X  BY <3>5, <4>1 DEF Same
        <4>2. CASE f \in FirstEvents(v, k - 1)
          <5>1. PICK j \in 1..k - 1 : f = v[j]  BY <4>2 DEF FirstEvents
          <5>2. /\ j + Len(u) \in 1..i - 1 /\ j + Len(u) \in 1..Len(u) + Len(v)
                /\ ~(j + Len(u) <= Len(u)) /\ (j + Len(u)) - Len(u) = j
            BY <1>3, <3>1, <3>2
          <5>3. w[j + Len(u)] = f  BY <1>2, <5>1, <5>2
          <5>4. f \in B  BY <3>5, <5>2, <5>3 DEF FirstEvents
          <5>5. QED  BY <5>4 DEF Same
        <4>3. CASE f \in Range(u)
          <5>1. PICK j \in 1..Len(u) : f = u[j]  BY <4>3 DEF Range
          <5>2. j \in 1..i - 1 /\ j \in 1..Len(u) + Len(v) /\ j <= Len(u)
            BY <1>3, <2>2
          <5>3. w[j] = f  BY <1>2, <5>1, <5>2
          <5>4. f \in B  BY <3>5, <5>2, <5>3 DEF FirstEvents
          <5>5. QED  BY <5>4 DEF Same
        <4>4. QED  BY <3>4, <4>1, <4>2, <4>3
      <3>8. Caused(e, B)  BY <3>6, <3>7, CausedByMore
      <3>9. QED  BY <3>2, <3>3, <3>5, <3>8
    <2>3. QED  BY <2>1, <2>2
  <1>5. QED  BY <1>1, <1>2, <1>4 DEF Grounded

LEMMA GroundedJoined ==
    ASSUME NEW T, NEW s \in Seq(Seq(T)), NEW X,
           \A i \in 1..Len(s) : Grounded(X, s[i])
    PROVE  Grounded(X, Joined(s))
  <1>1. PICK k : Joined(s) = k[Len(s)] /\ JoinedRun(k, s)  BY JoinedUnfolds
  <1>2. PICK M : M = {n \in Nat : n <= Len(s) => k[n] \in Seq(T) /\ Grounded(X, k[n])}
    OBVIOUS
  <1>3. 0 \in M
    <2>1. k[0] = <<>>  BY <1>1 DEF JoinedRun
    <2>2. <<>> \in Seq(T) /\ Len(<<>>) = 0 /\ 1..0 = {}  OBVIOUS
    <2>3. Grounded(X, <<>>)  BY <2>2 DEF Grounded
    <2>4. Grounded(X, k[0])  BY <2>1, <2>3, Zenon
    <2>5. k[0] \in Seq(T)  BY <2>1
    <2>6. QED  BY <1>2, <2>4, <2>5
  <1>4. ASSUME NEW n \in Nat, n \in M PROVE n + 1 \in M
    <2> SUFFICES ASSUME n + 1 <= Len(s)
                 PROVE  k[n + 1] \in Seq(T) /\ Grounded(X, k[n + 1])
      BY <1>2
    <2>1. k[n] \in Seq(T) /\ Grounded(X, k[n])  BY <1>2, <1>4
    <2>2. n + 1 \in 1..Len(s) /\ (n + 1) - 1 = n  OBVIOUS
    <2>3. k[n + 1] = k[n] \o s[n + 1]  BY <1>1, <2>2 DEF JoinedRun
    <2>4. PICK u : u = k[n]  OBVIOUS
    <2>5. PICK v : v = s[n + 1]  OBVIOUS
    <2>6. u \in Seq(T) /\ v \in Seq(T) /\ Grounded(X, u) /\ Grounded(X, v)
      <3>1. s[n + 1] \in Seq(T)  BY <2>2
      <3>2. Grounded(X, s[n + 1])  BY <2>2
      <3>3. QED  BY <2>1, <2>4, <2>5, <3>1, <3>2, Zenon
    <2>7. u \o v \in Seq(T)  BY <2>6
    <2>8. Grounded(X, u \o v)
      <3>1. \A f \in X : \E g \in X \cup Range(u) : Same(g, f)  BY DEF Same
      <3>2. PICK Y : Y = X \cup Range(u)  OBVIOUS
      <3>3. Grounded(Y, v)  BY <2>6, <3>1, <3>2, GroundedOnMore
      <3>4. QED  BY <2>6, <3>2, <3>3, GroundedBoth
    <2>9. QED  BY <2>3, <2>4, <2>5, <2>7, <2>8
  <1>5. Nat \subseteq M  BY <1>3, <1>4, NumberInduction
  <1>6. Len(s) \in Nat  OBVIOUS
  <1>7. QED  BY <1>1, <1>2, <1>5, <1>6

(* The first n of a sequence.                                              *)
LEMMA FirstOfKeeps ==
    ASSUME NEW T, NEW s \in Seq(T), NEW n \in Nat
    PROVE  /\ FirstOf(n, s) \in Seq(T)
           /\ Len(FirstOf(n, s)) <= Len(s)
           /\ \A i \in 1..Len(FirstOf(n, s)) : FirstOf(n, s)[i] = s[i]
           /\ Len(s) <= n => FirstOf(n, s) = s
  <1>1. PICK m : m = IF Len(s) < n THEN Len(s) ELSE n  OBVIOUS
  <1>2. m \in 0..Len(s) /\ (Len(s) <= n => m = Len(s))  BY <1>1
  <1>3. FirstOf(n, s) = SubSeq(s, 1, m)  BY <1>1 DEF FirstOf
  <1>4. PICK u : u = SubSeq(s, 1, m)  OBVIOUS
  <1>5. u \in Seq(T) /\ Len(u) = m /\ \A i \in 1..m : u[i] = s[i]  BY <1>2, <1>4
  <1>6. Len(s) <= n => u = s  BY <1>2, <1>5
  <1>7. QED  BY <1>2, <1>3, <1>4, <1>5, <1>6

LEMMA GroundedFirst ==
    ASSUME NEW T, NEW s \in Seq(T), NEW n \in Nat, NEW X, Grounded(X, s)
    PROVE  Grounded(X, FirstOf(n, s))
  <1>1. PICK u : u = FirstOf(n, s)  OBVIOUS
  <1>2. Len(u) <= Len(s) /\ (\A i \in 1..Len(u) : u[i] = s[i]) /\ Len(u) \in Nat
    BY <1>1, FirstOfKeeps
  <1>3. ASSUME NEW i \in 1..Len(u) PROVE Caused(u[i], X \cup FirstEvents(u, i - 1))
    <2>1. i \in 1..Len(s) /\ u[i] = s[i]  BY <1>2
    <2>2. \A j \in 1..i - 1 : u[j] = s[j]  BY <1>2
    <2>3. FirstEvents(u, i - 1) = FirstEvents(s, i - 1)  BY <2>2, Zenon DEF FirstEvents
    <2>4. Caused(s[i], X \cup FirstEvents(s, i - 1))  BY <2>1 DEF Grounded
    <2>5. QED  BY <2>1, <2>3, <2>4
  <1>4. QED  BY <1>1, <1>3 DEF Grounded

LEMMA ListOf ==
    ASSUME NEW n \in Nat, NEW S, NEW f, f = [i \in 1..n |-> f[i]],
           \A i \in 1..n : f[i] \in S
    PROVE  f \in Seq(S) /\ Len(f) = n
  <1>1. f \in [1..n -> S]  OBVIOUS
  <1>2. QED  BY <1>1

-----------------------------------------------------------------------------
(* What an index plans *)

LEMMA EventsMade ==
    /\ \A t \in Trees : Snapshot(t) \in Events
    /\ \A t \in Trees, of \in Claims \cup Codes : Occurrence(t, of) \in Events
    /\ \A c \in Claims, t \in Trees, of \in Codes : Accepted(c, t, of) \in Events
    /\ \A c \in Claims, t \in Trees : Linked(c, t, c, "deterministic") \in Events
    /\ \A c \in Claims, t \in Trees, of \in Codes : Linked(c, t, of, "semantic") \in Events
    /\ \A l \in Trees, r \in Trees, rel \in Orders : Relation(l, r, rel) \in Events
    /\ \A old \in Claims, new \in Claims : Superseded(old, new) \in Events
    /\ \A id \in IndexIds, coverage \in SUBSET Gaps : IndexRecorded(id, coverage) \in Events
  <1>1. ASSUME NEW t \in Trees PROVE Snapshot(t) \in Events  BY DEF Events
  <1>2. ASSUME NEW t \in Trees, NEW of \in Claims \cup Codes
        PROVE  Occurrence(t, of) \in Events
    BY DEF Events
  <1>3. ASSUME NEW c \in Claims, NEW t \in Trees, NEW of \in Codes
        PROVE  Accepted(c, t, of) \in Events /\ Linked(c, t, of, "semantic") \in Events
    BY DEF Events
  <1>4. ASSUME NEW c \in Claims, NEW t \in Trees
        PROVE  Linked(c, t, c, "deterministic") \in Events
    BY DEF Events
  <1>5. ASSUME NEW l \in Trees, NEW r \in Trees, NEW rel \in Orders
        PROVE  Relation(l, r, rel) \in Events
    BY DEF Events
  <1>6. ASSUME NEW old \in Claims, NEW new \in Claims PROVE Superseded(old, new) \in Events
    BY DEF Events
  <1>7. ASSUME NEW id \in IndexIds, NEW coverage \in SUBSET Gaps
        PROVE  IndexRecorded(id, coverage) \in Events
    BY DEF Events
  <1>8. QED  BY <1>1, <1>2, <1>3, <1>4, <1>5, <1>6, <1>7

LEMMA RowsAreHeld ==
    ASSUME NEW t \in Trees, claims \subseteq Claims
    PROVE  Rows(t) \in Seq(Claims) /\ Range(Rows(t)) = claims \cap TextOf[t]
  <1>1. PICK S : S = claims \cap TextOf[t]  OBVIOUS
  <1>2. Rows(t) = Only(ClaimOrder, S)  BY <1>1 DEF Rows
  <1>3. ClaimOrder \in Seq(Claims) /\ Range(ClaimOrder) = Claims  BY ClaimsAssumption
  <1>4. /\ Only(ClaimOrder, S) \in Seq(Claims)
        /\ Range(Only(ClaimOrder, S)) = Range(ClaimOrder) \cap S
    BY <1>3, OnlyKeeps
  <1>5. S \subseteq Claims  BY <1>1
  <1>6. QED  BY <1>1, <1>2, <1>3, <1>4, <1>5

LEMMA RowIsGrounded ==
    ASSUME NEW t \in Trees, NEW c \in Claims
    PROVE  /\ RowEvents(t, c) \in Seq(Events)
           /\ Range(RowEvents(t, c)) = {Occurrence(t, c), Linked(c, t, c, "deterministic")}
           /\ Grounded({Snapshot(t)}, RowEvents(t, c))
  <1>1. PICK a : a = Occurrence(t, c)  OBVIOUS
  <1>2. PICK b : b = Linked(c, t, c, "deterministic")  OBVIOUS
  <1>3. PICK z : z = Snapshot(t)  OBVIOUS
  <1>4. RowEvents(t, c) = <<a, b>>  BY <1>1, <1>2 DEF RowEvents
  <1>5. a \in Events /\ b \in Events  BY <1>1, <1>2, EventsMade
  <1>6. PICK s : s = <<a, b>>  OBVIOUS
  <1>7. s \in Seq(Events) /\ Len(s) = 2 /\ s[1] = a /\ s[2] = b  BY <1>5, <1>6
  <1>8. Range(s) = {a, b}  BY <1>7 DEF Range
  <1>9. Caused(s[1], {z} \cup FirstEvents(s, 1 - 1))
    <2>1. a.kind = "occurrence" /\ a.key = <<t, c>>  BY <1>1 DEF Occurrence, Event
    <2>2. Same(z, Snapshot(a.key[1]))  BY <1>3, <2>1 DEF Same
    <2>3. QED  BY <1>7, <2>1, <2>2 DEF Caused
  <1>10. Caused(s[2], {z} \cup FirstEvents(s, 2 - 1))
    <2>1. b.kind = "linked" /\ b.key = <<c, t, c>> /\ b.data = "deterministic"
      BY <1>2 DEF Linked, Event
    <2>2. Same(a, Occurrence(b.key[2], b.key[3]))  BY <1>1, <2>1 DEF Same
    <2>3. a \in FirstEvents(s, 2 - 1)  BY <1>7 DEF FirstEvents
    <2>4. QED  BY <1>7, <2>1, <2>2, <2>3 DEF Caused
  <1>11. \A i \in 1..Len(s) : i = 1 \/ i = 2  BY <1>7
  <1>12. Grounded({z}, s)  BY <1>9, <1>10, <1>11 DEF Grounded
  <1>13. QED  BY <1>1, <1>2, <1>3, <1>4, <1>6, <1>7, <1>8, <1>12

LEMMA RowsArePlanned ==
    ASSUME NEW t \in Trees, claims \subseteq Claims
    PROVE  /\ PlannedRows(t) \in Seq(Events)
           /\ Grounded({Snapshot(t)}, PlannedRows(t))
           /\ \A e \in Range(PlannedRows(t)) : e.kind \in {"occurrence", "linked"}
           /\ \A c \in claims \cap TextOf[t] :
                Linked(c, t, c, "deterministic") \in Range(PlannedRows(t))
  <1>1. PICK r : r = Rows(t)  OBVIOUS
  <1>2. r \in Seq(Claims) /\ Range(r) = claims \cap TextOf[t]  BY <1>1, RowsAreHeld
  <1>3. PICK s : s = [i \in DOMAIN r |-> RowEvents(t, r[i])]  OBVIOUS
  <1>4. PlannedRows(t) = Joined(s)  BY <1>1, <1>3 DEF PlannedRows
  <1>5. DOMAIN r = 1..Len(r) /\ Len(r) \in Nat /\ \A i \in 1..Len(r) : r[i] \in Claims
    BY <1>2
  <1>6. s \in Seq(Seq(Events)) /\ Len(s) = Len(r)
    <2>1. \A i \in 1..Len(r) : s[i] \in Seq(Events)  BY <1>3, <1>5, RowIsGrounded
    <2>2. s = [i \in 1..Len(r) |-> s[i]]  BY <1>3, <1>5
    <2>3. QED  BY <1>5, <2>1, <2>2, ListOf
  <1>7. \A i \in 1..Len(s) : s[i] = RowEvents(t, r[i])  BY <1>3, <1>5, <1>6
  <1>8. /\ Joined(s) \in Seq(Events)
        /\ \A x : x \in Range(Joined(s)) <=> \E i \in 1..Len(s) : x \in Range(s[i])
    BY <1>6, JoinedHolds
  <1>9. Grounded({Snapshot(t)}, Joined(s))
    <2>1. \A i \in 1..Len(s) : Grounded({Snapshot(t)}, s[i])
      BY <1>5, <1>6, <1>7, RowIsGrounded
    <2>2. PICK X : X = {Snapshot(t)}  OBVIOUS
    <2>3. Grounded(X, Joined(s))  BY <1>6, <2>1, <2>2, GroundedJoined
    <2>4. QED  BY <2>2, <2>3
  <1>10. ASSUME NEW e \in Range(Joined(s)) PROVE e.kind \in {"occurrence", "linked"}
    <2>1. PICK i \in 1..Len(s) : e \in Range(s[i])  BY <1>8
    <2>2. e \in {Occurrence(t, r[i]), Linked(r[i], t, r[i], "deterministic")}
      <3>1. r[i] \in Claims  BY <1>5, <1>6
      <3>2. QED  BY <1>7, <2>1, <3>1, RowIsGrounded
    <2>3. QED  BY <2>2 DEF Occurrence, Linked, Event
  <1>11. ASSUME NEW c \in claims \cap TextOf[t]
         PROVE  Linked(c, t, c, "deterministic") \in Range(Joined(s))
    <2>1. PICK i \in 1..Len(r) : r[i] = c  BY <1>2, <1>5 DEF Range
    <2>2. Linked(c, t, c, "deterministic") \in Range(s[i])
      <3>1. c \in Claims /\ s[i] = RowEvents(t, c)  BY <1>6, <1>7, <2>1
      <3>2. QED  BY <3>1, RowIsGrounded
    <2>3. QED  BY <1>6, <1>8, <2>1, <2>2
  <1>12. QED  BY <1>4, <1>8, <1>9, <1>10, <1>11

LEMMA SnapshotsAreTrees ==
    ASSUME journal \in Seq(Events), NEW i \in 1..Len(journal), journal[i].kind = "snapshot"
    PROVE  /\ journal[i].key[1] \in Trees
           /\ journal[i] = Snapshot(journal[i].key[1])
  <1>1. PICK e \in Events : e = journal[i]  OBVIOUS
  <1>2. PICK t \in Trees : e = Snapshot(t)  BY <1>1, EventForms
  <1>3. e.key[1] = t  BY <1>2 DEF Snapshot, Event
  <1>4. QED  BY <1>1, <1>2, <1>3

(* An index records of its snapshot and an earlier one only what is so,    *)
(* and if the clone lacks nothing it records something.                    *)
LEMMA RelationsArePlanned ==
    ASSUME NEW t \in Trees, journal \in Seq(Events)
    PROVE  /\ PlannedRelations(t) \in Seq(Events)
           /\ \A X : Grounded(X, PlannedRelations(t))
           /\ \A e \in Range(PlannedRelations(t)) :
                e.kind = "relation" /\ FactSound(e.key[1], e.key[2], e.data)
           /\ lacking = {} =>
                \A i \in Compared : \/ journal[i].key[1] = t
                                    \/ Has(PlannedRelations(t),
                                           Relation(journal[i].key[1], t, None))
  <1> DEFINE Planned(prior) ==
        LET rel == OverlayAware(prior, t, lacking)
        IN IF prior # t /\ Journaled(rel) THEN <<Relation(prior, t, rel)>> ELSE <<>>
  <1>1. PICK compared : compared = Compared  OBVIOUS
  <1>2. PICK s : s = [i \in DOMAIN journal |->
                        IF i \in compared THEN Planned(journal[i].key[1]) ELSE <<>>]
    OBVIOUS
  <1>3. PlannedRelations(t) = Joined(s)  BY <1>1, <1>2 DEF PlannedRelations
  <1>4. DOMAIN journal = 1..Len(journal) /\ Len(journal) \in Nat  OBVIOUS
  <1>5. ASSUME NEW i \in compared
        PROVE  i \in 1..Len(journal) /\ journal[i].key[1] \in Trees
    <2>1. i \in 1..Len(journal) /\ journal[i].kind = "snapshot"
      BY <1>1 DEF Compared, Through, Frontier
    <2>2. QED  BY <2>1, SnapshotsAreTrees
  <1>6. ASSUME NEW prior \in Trees
        PROVE  /\ Planned(prior) \in Seq(Events)
               /\ \A X : Grounded(X, Planned(prior))
               /\ \A e \in Range(Planned(prior)) :
                    e.kind = "relation" /\ FactSound(e.key[1], e.key[2], e.data)
               /\ lacking = {} =>
                    prior = t \/ Has(Planned(prior), Relation(prior, t, None))
    <2>1. PICK rel : rel = OverlayAware(prior, t, lacking)  OBVIOUS
    <2>2. /\ rel # "unknown" => FactSound(prior, t, rel)
          /\ lacking = {} => rel # "unknown"
      <3>1. PICK missing : missing = lacking  OBVIOUS
      <3>2. rel = OverlayAware(prior, t, missing)  BY <2>1, <3>1
      <3>3. QED  BY <3>1, <3>2, FactsAreSound
    <2>3. CASE prior # t /\ rel # "unknown"
      <3>1. PICK e : e = Relation(prior, t, rel)  OBVIOUS
      <3>2. PICK u : u = <<e>>  OBVIOUS
      <3>3. Planned(prior) = u  BY <2>1, <2>3, <3>1, <3>2 DEF Journaled
      <3>4. FactSound(prior, t, rel) /\ rel \in Orders  BY <2>2, <2>3 DEF FactSound
      <3>5. e \in Events  BY <3>1, <3>4, EventsMade
      <3>6. e.kind = "relation" /\ e.key = <<prior, t>> /\ e.data = rel
        BY <3>1 DEF Relation, Event
      <3>7. u \in Seq(Events) /\ Len(u) = 1 /\ u[1] = e /\ Range(u) = {e}
        BY <3>2, <3>5 DEF Range
      <3>8. ASSUME NEW X PROVE Grounded(X, u)
        <4>1. \A i \in 1..Len(u) : u[i] = e  BY <3>7
        <4>2. \A Y : Caused(e, Y)  BY <3>6, NothingToName
        <4>3. QED  BY <4>1, <4>2 DEF Grounded
      <3>9. Same(e, Relation(prior, t, None))  BY <3>1 DEF Same, Relation, Event
      <3>10. Has(u, Relation(prior, t, None))
        <4>1. 1 \in 1..Len(u) /\ Same(u[1], Relation(prior, t, None))  BY <3>7, <3>9
        <4>2. QED  BY <4>1 DEF Has
      <3>11. FactSound(e.key[1], e.key[2], e.data)  BY <3>4, <3>6
      <3>12. QED  BY <3>3, <3>6, <3>7, <3>8, <3>10, <3>11
    <2>4. CASE ~(prior # t /\ rel # "unknown")
      <3>1. Planned(prior) = <<>>  BY <2>1, <2>4 DEF Journaled
      <3>2. PICK u : u = <<>>  OBVIOUS
      <3>3. u \in Seq(Events) /\ Len(u) = 0 /\ Range(u) = {} /\ 1..Len(u) = {}
        BY <3>2 DEF Range
      <3>4. \A X : Grounded(X, u)  BY <3>3 DEF Grounded
      <3>5. lacking = {} => prior = t  BY <2>2, <2>4
      <3>6. QED  BY <3>1, <3>2, <3>3, <3>4, <3>5
    <2>5. QED  BY <2>3, <2>4
  <1> HIDE DEF Planned
  <1>7. ASSUME NEW i \in 1..Len(journal)
        PROVE  /\ s[i] \in Seq(Events)
               /\ \A X : Grounded(X, s[i])
               /\ \A e \in Range(s[i]) :
                    e.kind = "relation" /\ FactSound(e.key[1], e.key[2], e.data)
    <2>1. CASE i \in compared
      <3>1. PICK prior \in Trees : prior = journal[i].key[1]  BY <1>5, <2>1
      <3>2. s[i] = Planned(prior)  BY <1>2, <1>4, <2>1, <3>1
      <3>3. QED  BY <1>6, <3>2
    <2>2. CASE i \notin compared
      <3>1. s[i] = <<>>  BY <1>2, <1>4, <2>2
      <3>2. PICK u : u = <<>>  OBVIOUS
      <3>3. u \in Seq(Events) /\ Len(u) = 0 /\ Range(u) = {} /\ 1..Len(u) = {}
        BY <3>2 DEF Range
      <3>4. \A X : Grounded(X, u)  BY <3>3 DEF Grounded
      <3>5. QED  BY <3>1, <3>2, <3>3, <3>4
    <2>3. QED  BY <2>1, <2>2
  <1>8. s \in Seq(Seq(Events)) /\ Len(s) = Len(journal)
    <2>1. s = [i \in 1..Len(journal) |-> s[i]]  BY <1>2, <1>4
    <2>2. \A i \in 1..Len(journal) : s[i] \in Seq(Events)  BY <1>7
    <2>3. QED  BY <1>4, <2>1, <2>2, ListOf
  <1>9. /\ Joined(s) \in Seq(Events)
        /\ \A x : x \in Range(Joined(s)) <=> \E i \in 1..Len(s) : x \in Range(s[i])
    BY <1>8, JoinedHolds
  <1>10. ASSUME NEW X PROVE Grounded(X, Joined(s))
    <2>1. \A i \in 1..Len(s) : Grounded(X, s[i])  BY <1>7, <1>8
    <2>2. QED  BY <1>8, <2>1, GroundedJoined
  <1>11. ASSUME NEW e \in Range(Joined(s))
         PROVE  e.kind = "relation" /\ FactSound(e.key[1], e.key[2], e.data)
    <2>1. PICK i \in 1..Len(s) : e \in Range(s[i])  BY <1>9
    <2>2. QED  BY <1>7, <1>8, <2>1
  <1>12. ASSUME lacking = {}, NEW i \in Compared, journal[i].key[1] # t
         PROVE  Has(Joined(s), Relation(journal[i].key[1], t, None))
    <2>1. i \in compared /\ i \in 1..Len(journal)  BY <1>1, <1>5
    <2>2. PICK prior \in Trees : prior = journal[i].key[1]  BY <1>5, <2>1
    <2>3. s[i] = Planned(prior)  BY <1>2, <1>4, <2>1, <2>2
    <2>4. Has(s[i], Relation(prior, t, None))  BY <1>6, <1>12, <2>2, <2>3
    <2>5. PICK j \in 1..Len(s[i]) : Same(s[i][j], Relation(prior, t, None))
      BY <2>4 DEF Has
    <2>6. s[i] \in Seq(Events)  BY <1>7, <2>1
    <2>7. s[i][j] \in Range(s[i])  BY <2>5, <2>6 DEF Range
    <2>8. s[i][j] \in Range(Joined(s))  BY <1>8, <1>9, <2>1, <2>7
    <2>9. PICK k \in 1..Len(Joined(s)) : Joined(s)[k] = s[i][j]
      BY <1>9, <2>8 DEF Range
    <2>10. QED  BY <2>2, <2>5, <2>9 DEF Has
  <1>13. QED  BY <1>3, <1>9, <1>10, <1>11, <1>12

LEMMA EvidenceIsPlanned ==
    ASSUME NEW t \in Trees, journal \in Seq(Events), claims \subseteq Claims,
           NEW q, q = <<Snapshot(t)>> \o PlannedRows(t) \o PlannedRelations(t)
    PROVE  /\ q \in Seq(Events)
           /\ \A X : Grounded(X, q)
           /\ \A e \in Range(q) :
                /\ e.kind \in {"snapshot", "occurrence", "linked", "relation"}
                /\ e.kind = "snapshot" => e = Snapshot(t)
                /\ e.kind = "relation" => FactSound(e.key[1], e.key[2], e.data)
           /\ Snapshot(t) \in Range(q)
           /\ \A c \in claims \cap TextOf[t] : Linked(c, t, c, "deterministic") \in Range(q)
           /\ \A e : Has(PlannedRelations(t), e) => Has(q, e)
  <1>1. PICK z : z = Snapshot(t)  OBVIOUS
  <1>2. z \in Events /\ z.kind = "snapshot"  BY <1>1, EventsMade DEF Snapshot, Event
  <1>3. PICK a : a = <<z>>  OBVIOUS
  <1>4. PICK b : b = PlannedRows(t)  OBVIOUS
  <1>5. PICK d : d = PlannedRelations(t)  OBVIOUS
  <1>6. a \in Seq(Events) /\ Len(a) = 1 /\ a[1] = z /\ Range(a) = {z}
    BY <1>2, <1>3 DEF Range
  <1>7. /\ b \in Seq(Events) /\ Grounded({z}, b)
        /\ \A e \in Range(b) : e.kind \in {"occurrence", "linked"}
        /\ \A c \in claims \cap TextOf[t] : Linked(c, t, c, "deterministic") \in Range(b)
    BY <1>1, <1>4, RowsArePlanned
  <1>8. /\ d \in Seq(Events) /\ \A X : Grounded(X, d)
        /\ \A e \in Range(d) : e.kind = "relation" /\ FactSound(e.key[1], e.key[2], e.data)
    BY <1>5, RelationsArePlanned
  <1>9. PICK ab : ab = a \o b  OBVIOUS
  <1>10. ab \in Seq(Events) /\ Range(ab) = Range(a) \cup Range(b)
    BY <1>6, <1>7, <1>9, RangeOfBoth
  <1>11. q = ab \o d  BY <1>1, <1>3, <1>4, <1>5, <1>9
  <1>12. q \in Seq(Events) /\ Range(q) = Range(ab) \cup Range(d)
    <2>1. ab \in Seq(Events) /\ d \in Seq(Events)  BY <1>8, <1>10
    <2>2. ab \o d \in Seq(Events) /\ Range(ab \o d) = Range(ab) \cup Range(d)
      BY <2>1, RangeOfBoth
    <2>3. QED  BY <1>11, <2>2, Zenon
  <1>13. ASSUME NEW X PROVE Grounded(X, q)
    <2>1. Grounded(X, a)
      <3>1. \A i \in 1..Len(a) : a[i] = z  BY <1>6
      <3>2. \A Y : Caused(z, Y)  BY <1>2, NothingToName
      <3>3. QED  BY <3>1, <3>2 DEF Grounded
    <2>2. PICK Y : Y = X \cup Range(a)  OBVIOUS
    <2>3. \A f \in {z} : \E g \in Y : Same(g, f)  BY <1>6, <2>2 DEF Same
    <2>4. PICK Z : Z = {z}  OBVIOUS
    <2>5. Grounded(Z, b) /\ \A f \in Z : \E g \in Y : Same(g, f)  BY <1>7, <2>3, <2>4
    <2>6. Grounded(Y, b)  BY <2>5, GroundedOnMore
    <2>7. Grounded(X, ab)  BY <1>6, <1>7, <1>9, <2>1, <2>2, <2>6, GroundedBoth
    <2>8. Grounded(X \cup Range(ab), d)  BY <1>8
    <2>9. QED  BY <1>8, <1>10, <1>11, <2>7, <2>8, GroundedBoth
  <1>14. ASSUME NEW e, Has(d, e) PROVE Has(q, e)
    <2>1. PICK i \in 1..Len(d) : Same(d[i], e)  BY <1>14 DEF Has
    <2>2. d[i] \in Range(d)  BY <1>8, <2>1 DEF Range
    <2>3. d[i] \in Range(q)  BY <1>12, <2>2
    <2>4. PICK j \in 1..Len(q) : q[j] = d[i]  BY <1>12, <2>3 DEF Range
    <2>5. QED  BY <2>1, <2>4 DEF Has
  <1>15. ASSUME NEW e \in Range(q)
         PROVE  /\ e.kind \in {"snapshot", "occurrence", "linked", "relation"}
                /\ e.kind = "snapshot" => e = Snapshot(t)
                /\ e.kind = "relation" => FactSound(e.key[1], e.key[2], e.data)
    <2>1. CASE e = z  BY <1>1, <1>2, <2>1
    <2>2. CASE e \in Range(b)
      <3>1. e.kind \in {"occurrence", "linked"}  BY <1>7, <2>2
      <3>2. QED  BY <3>1
    <2>3. CASE e \in Range(d)
      <3>1. e.kind = "relation" /\ FactSound(e.key[1], e.key[2], e.data)  BY <1>8, <2>3
      <3>2. QED  BY <3>1
    <2>4. QED  BY <1>6, <1>10, <1>12, <2>1, <2>2, <2>3
  <1>16. Snapshot(t) \in Range(q)  BY <1>1, <1>6, <1>10, <1>12
  <1>17. \A c \in claims \cap TextOf[t] : Linked(c, t, c, "deterministic") \in Range(q)
    BY <1>7, <1>10, <1>12
  <1>18. \A e : Has(PlannedRelations(t), e) => Has(q, e)  BY <1>5, <1>14
  <1>19. QED  BY <1>12, <1>13, <1>15, <1>16, <1>17, <1>18

-----------------------------------------------------------------------------
(* What a reconcile publishes *)

LEMMA AcceptanceIsGrounded ==
    ASSUME NEW p \in Candidates, tree \in Trees
    PROVE  /\ AcceptedEvents(p) \in Seq(Events)
           /\ Grounded({Snapshot(tree)}, AcceptedEvents(p))
           /\ Range(AcceptedEvents(p)) =
                {Occurrence(tree, p[2]), Accepted(p[1], tree, p[2]),
                 Linked(p[1], tree, p[2], "semantic")}
  <1>1. PICK t \in Trees : t = tree  OBVIOUS
  <1>2. PICK c \in Claims : c = p[1]  BY DEF Candidates
  <1>3. PICK of \in Codes : of = p[2]  BY DEF Candidates
  <1>4. PICK a : a = Occurrence(t, of)  OBVIOUS
  <1>5. PICK b : b = Accepted(c, t, of)  OBVIOUS
  <1>6. PICK d : d = Linked(c, t, of, "semantic")  OBVIOUS
  <1>7. PICK z : z = Snapshot(t)  OBVIOUS
  <1>8. PICK s : s = <<a, b, d>>  OBVIOUS
  <1>9. AcceptedEvents(p) = s
    BY <1>1, <1>2, <1>3, <1>4, <1>5, <1>6, <1>8 DEF AcceptedEvents
  <1>10. a \in Events /\ b \in Events /\ d \in Events  BY <1>4, <1>5, <1>6, EventsMade
  <1>11. s \in Seq(Events) /\ Len(s) = 3 /\ s[1] = a /\ s[2] = b /\ s[3] = d
    BY <1>8, <1>10
  <1>12. Range(s) = {a, b, d}
    <2>1. 1..3 = {1, 2, 3}  OBVIOUS
    <2>2. QED  BY <1>11, <2>1 DEF Range
  <1>13. a.kind = "occurrence" /\ a.key = <<t, of>>  BY <1>4 DEF Occurrence, Event
  <1>14. b.kind = "accepted"  BY <1>5 DEF Accepted, Event
  <1>15. d.kind = "linked" /\ d.key = <<c, t, of>>  BY <1>6 DEF Linked, Event
  <1>16. Caused(s[1], {z} \cup FirstEvents(s, 1 - 1))
    <2>1. Same(z, Snapshot(a.key[1]))  BY <1>7, <1>13 DEF Same
    <2>2. QED  BY <1>11, <1>13, <2>1 DEF Caused
  <1>17. Caused(s[2], {z} \cup FirstEvents(s, 2 - 1))
    <2>1. \A Y : Caused(b, Y)  BY <1>14, NothingToName
    <2>2. QED  BY <1>11, <2>1
  <1>18. Caused(s[3], {z} \cup FirstEvents(s, 3 - 1))
    <2>1. a \in FirstEvents(s, 3 - 1) /\ b \in FirstEvents(s, 3 - 1)
      BY <1>11 DEF FirstEvents
    <2>2. Same(a, Occurrence(d.key[2], d.key[3]))  BY <1>4, <1>15 DEF Same
    <2>3. Same(b, Accepted(d.key[1], d.key[2], d.key[3]))  BY <1>5, <1>15 DEF Same
    <2>4. QED  BY <1>11, <1>15, <2>1, <2>2, <2>3 DEF Caused
  <1>19. \A i \in 1..Len(s) : i = 1 \/ i = 2 \/ i = 3  BY <1>11
  <1>20. Grounded({z}, s)  BY <1>16, <1>17, <1>18, <1>19 DEF Grounded
  <1>21. QED
    BY <1>1, <1>2, <1>3, <1>4, <1>5, <1>6, <1>7, <1>9, <1>11, <1>12, <1>20

LEMMA AcceptancesArePlanned ==
    ASSUME tree \in Trees, jobs \in Seq(Candidates),
           NEW q, q = Joined([i \in DOMAIN jobs |->
                                IF outcome[i] = "accepted"
                                THEN AcceptedEvents(jobs[i]) ELSE <<>>])
    PROVE  /\ q \in Seq(Events)
           /\ Grounded({Snapshot(tree)}, q)
           /\ \A e \in Range(q) : e.kind \in {"occurrence", "accepted", "linked"}
           /\ \A i \in DOMAIN jobs : outcome[i] = "accepted" =>
                Linked(jobs[i][1], tree, jobs[i][2], "semantic") \in Range(q)
  <1>1. PICK s : s = [i \in DOMAIN jobs |-> IF outcome[i] = "accepted"
                                            THEN AcceptedEvents(jobs[i]) ELSE <<>>]
    OBVIOUS
  <1>2. q = Joined(s)  BY <1>1
  <1>3. DOMAIN jobs = 1..Len(jobs) /\ Len(jobs) \in Nat
        /\ \A i \in 1..Len(jobs) : jobs[i] \in Candidates
    OBVIOUS
  <1>4. PICK Z : Z = {Snapshot(tree)}  OBVIOUS
  <1>5. ASSUME NEW i \in 1..Len(jobs)
        PROVE  /\ s[i] \in Seq(Events) /\ Grounded(Z, s[i])
               /\ \A e \in Range(s[i]) : e.kind \in {"occurrence", "accepted", "linked"}
               /\ outcome[i] = "accepted" =>
                    Linked(jobs[i][1], tree, jobs[i][2], "semantic") \in Range(s[i])
    <2>1. CASE outcome[i] = "accepted"
      <3>1. PICK p \in Candidates : p = jobs[i]  BY <1>3
      <3>2. s[i] = AcceptedEvents(p)  BY <1>1, <1>3, <2>1, <3>1
      <3>3. PICK u : u = AcceptedEvents(p)  OBVIOUS
      <3>4. /\ u \in Seq(Events) /\ Grounded(Z, u)
            /\ Range(u) = {Occurrence(tree, p[2]), Accepted(p[1], tree, p[2]),
                           Linked(p[1], tree, p[2], "semantic")}
        BY <1>4, <3>3, AcceptanceIsGrounded
      <3>5. \A e \in Range(u) : e.kind \in {"occurrence", "accepted", "linked"}
        BY <3>4 DEF Occurrence, Accepted, Linked, Event
      <3>6. QED  BY <3>1, <3>2, <3>3, <3>4, <3>5
    <2>2. CASE outcome[i] # "accepted"
      <3>1. s[i] = <<>>  BY <1>1, <1>3, <2>2
      <3>2. PICK u : u = <<>>  OBVIOUS
      <3>3. u \in Seq(Events) /\ Len(u) = 0 /\ Range(u) = {} /\ 1..Len(u) = {}
        BY <3>2 DEF Range
      <3>4. Grounded(Z, u)  BY <3>3 DEF Grounded
      <3>5. QED  BY <2>2, <3>1, <3>2, <3>3, <3>4
    <2>3. QED  BY <2>1, <2>2
  <1>6. s \in Seq(Seq(Events)) /\ Len(s) = Len(jobs)
    <2>1. s = [i \in 1..Len(jobs) |-> s[i]]  BY <1>1, <1>3
    <2>2. \A i \in 1..Len(jobs) : s[i] \in Seq(Events)  BY <1>5
    <2>3. QED  BY <1>3, <2>1, <2>2, ListOf
  <1>7. /\ Joined(s) \in Seq(Events)
        /\ \A x : x \in Range(Joined(s)) <=> \E i \in 1..Len(s) : x \in Range(s[i])
    BY <1>6, JoinedHolds
  <1>8. Grounded(Z, Joined(s))
    <2>1. \A i \in 1..Len(s) : Grounded(Z, s[i])  BY <1>5, <1>6
    <2>2. QED  BY <1>6, <2>1, GroundedJoined
  <1>9. ASSUME NEW e \in Range(Joined(s))
        PROVE  e.kind \in {"occurrence", "accepted", "linked"}
    <2>1. PICK i \in 1..Len(s) : e \in Range(s[i])  BY <1>7
    <2>2. QED  BY <1>5, <1>6, <2>1
  <1>10. ASSUME NEW i \in DOMAIN jobs, outcome[i] = "accepted"
         PROVE  Linked(jobs[i][1], tree, jobs[i][2], "semantic") \in Range(Joined(s))
    <2>1. i \in 1..Len(jobs) /\ i \in 1..Len(s)  BY <1>3, <1>6
    <2>2. QED  BY <1>5, <1>7, <1>10, <2>1
  <1>11. QED  BY <1>2, <1>4, <1>7, <1>8, <1>9, <1>10

-----------------------------------------------------------------------------
(* What a capture takes *)

Takings == [sources : [Range(Paths) -> Files], gaps : SUBSET (Range(Paths) \X Gaps)]

LEMMA FileForms ==
    /\ Absent \in Files
    /\ \A file \in Files :
         /\ file.type \in FileTypes /\ file.size \in Nat
         /\ file.says \subseteq Claims /\ file.code \in Seq(Codes)
         /\ file.type # "regular" => file.says = {} /\ file.code = <<>>
         /\ file.type \notin {"regular", "lfs"} => file.size = 0
         /\ file.type = "absent" <=> file = Absent
  <1>1. Absent \in [type : FileTypes, size : Nat, says : SUBSET Claims, code : Seq(Codes)]
    BY DEF Absent, FileTypes
  <1>2. Absent \in Files
    <2>1. Absent.type = "absent" /\ Absent.size = 0 /\ Absent.says = {} /\ Absent.code = <<>>
      BY DEF Absent
    <2>2. QED  BY <1>1, <2>1 DEF Files
  <1>3. ASSUME NEW file \in Files
        PROVE  /\ file.type \in FileTypes /\ file.size \in Nat
               /\ file.says \subseteq Claims /\ file.code \in Seq(Codes)
               /\ file.type # "regular" => file.says = {} /\ file.code = <<>>
               /\ file.type \notin {"regular", "lfs"} => file.size = 0
    BY DEF Files
  <1>4. ASSUME NEW file \in Files PROVE file.type = "absent" <=> file = Absent
    <2>1. file \in [type : FileTypes, size : Nat, says : SUBSET Claims, code : Seq(Codes)]
      BY DEF Files
    <2>2. file = [type |-> file.type, size |-> file.size, says |-> file.says,
                  code |-> file.code]
      BY <2>1
    <2>3. file.type = "absent" => file = Absent
      BY <1>3, <2>2 DEF Absent
    <2>4. file = Absent => file.type = "absent"  BY DEF Absent
    <2>5. QED  BY <2>3, <2>4
  <1>5. QED  BY <1>2, <1>3, <1>4

LEMMA TakingForms ==
    ASSUME NEW got \in Takings, NEW p \in Range(Paths)
    PROVE  /\ \A kind \in Gaps :
                /\ Gap(got, p, kind) \in Takings
                /\ Gap(got, p, kind).sources = got.sources
                /\ Gap(got, p, kind).gaps = got.gaps \cup {<<p, kind>>}
           /\ \A file \in Files :
                /\ [got EXCEPT !.sources[p] = file] \in Takings
                /\ [got EXCEPT !.sources[p] = file].sources =
                     [got.sources EXCEPT ![p] = file]
                /\ [got EXCEPT !.sources[p] = file].gaps = got.gaps
           /\ Omit(got, p) = [got EXCEPT !.sources[p] = Absent]
  <1>1. got.sources \in [Range(Paths) -> Files] /\ got.gaps \in SUBSET (Range(Paths) \X Gaps)
    BY DEF Takings
  <1>2. got = [sources |-> got.sources, gaps |-> got.gaps]  BY DEF Takings
  <1>3. ASSUME NEW kind \in Gaps
        PROVE  /\ Gap(got, p, kind) \in Takings
               /\ Gap(got, p, kind).sources = got.sources
               /\ Gap(got, p, kind).gaps = got.gaps \cup {<<p, kind>>}
    <2>1. PICK g : g = got.gaps \cup {<<p, kind>>}  OBVIOUS
    <2>2. g \in SUBSET (Range(Paths) \X Gaps)  BY <1>1, <2>1
    <2>3. Gap(got, p, kind) = [sources |-> got.sources, gaps |-> g]
      BY SMTT(40), <1>2, <2>1 DEF Gap
    <2>4. QED  BY <1>1, <2>1, <2>2, <2>3 DEF Takings
  <1>4. ASSUME NEW file \in Files
        PROVE  /\ [got EXCEPT !.sources[p] = file] \in Takings
               /\ [got EXCEPT !.sources[p] = file].sources =
                    [got.sources EXCEPT ![p] = file]
               /\ [got EXCEPT !.sources[p] = file].gaps = got.gaps
    <2>1. PICK f : f = [got.sources EXCEPT ![p] = file]  OBVIOUS
    <2>2. f \in [Range(Paths) -> Files]  BY <1>1, <2>1
    <2>3. [got EXCEPT !.sources[p] = file] = [sources |-> f, gaps |-> got.gaps]
      BY <1>2, <2>1
    <2>4. QED  BY <1>1, <2>1, <2>2, <2>3 DEF Takings
  <1>5. QED  BY <1>3, <1>4 DEF Omit

Marked(got, p) == \E kind \in Gaps : <<p, kind>> \in got.gaps

(* A step of a capture at a path: what was left out stays marked, other    *)
(* paths keep their files.                                                 *)
Stepped(got, after, p) ==
  /\ after \in Takings
  /\ got.gaps \subseteq after.gaps
  /\ \A q \in Range(Paths) \ {p} : after.sources[q] = got.sources[q]

Placed(got, p, file) == [got EXCEPT !.sources[p] = file]

LEMMA StaysForm ==
    ASSUME NEW got \in Takings, NEW p \in Range(Paths)
    PROVE  Stepped(got, got, p)
  <1>1. QED  BY DEF Stepped

LEMMA PlacedForm ==
    ASSUME NEW got \in Takings, NEW p \in Range(Paths), NEW file \in Files,
           NEW after, after = Placed(got, p, file)
    PROVE  /\ Stepped(got, after, p) /\ after.sources[p] = file
           /\ after.sources = [got.sources EXCEPT ![p] = file]
  <1>1. got.sources \in [Range(Paths) -> Files]  BY DEF Takings
  <1>2. /\ after \in Takings /\ after.sources = [got.sources EXCEPT ![p] = file]
        /\ after.gaps = got.gaps
    BY TakingForms DEF Placed
  <1>3. QED  BY <1>1, <1>2 DEF Stepped

LEMMA MarkedForm ==
    ASSUME NEW got \in Takings, NEW p \in Range(Paths), NEW kind \in Gaps,
           NEW after, after = Gap(got, p, kind)
    PROVE  Stepped(got, after, p) /\ Marked(after, p) /\ after.sources = got.sources
  <1>1. after \in Takings /\ after.sources = got.sources
        /\ after.gaps = got.gaps \cup {<<p, kind>>}
    BY TakingForms
  <1>2. <<p, kind>> \in after.gaps /\ got.gaps \subseteq after.gaps  BY <1>1
  <1>3. QED  BY <1>1, <1>2 DEF Stepped, Marked

LEMMA OmittedForm ==
    ASSUME NEW got \in Takings, NEW p \in Range(Paths), NEW kind \in Gaps,
           NEW after, after = Gap(Omit(got, p), p, kind)
    PROVE  /\ Stepped(got, after, p) /\ Marked(after, p)
           /\ after.sources = [got.sources EXCEPT ![p] = Absent]
  <1>1. PICK without : without = Omit(got, p)  OBVIOUS
  <1>2. without = Placed(got, p, Absent)  BY <1>1, Zenon DEF Omit, Placed
  <1>3. PICK file \in Files : file = Absent  BY FileForms
  <1>4. without = Placed(got, p, file)  BY <1>2, <1>3
  <1>5. Stepped(got, without, p) /\ without.sources = [got.sources EXCEPT ![p] = file]
    BY <1>4, PlacedForm
  <1>6. without \in Takings  BY <1>5 DEF Stepped
  <1>7. after = Gap(without, p, kind)  BY <1>1
  <1>8. Stepped(without, after, p) /\ Marked(after, p) /\ after.sources = without.sources
    BY <1>6, <1>7, MarkedForm
  <1>9. Stepped(got, after, p)  BY <1>5, <1>8 DEF Stepped
  <1>10. QED  BY <1>3, <1>5, <1>8, <1>9

(* The sources after an insertion depend on those before it alone.         *)
LeavesOut(sources, p, file) ==
  \/ file.type = "lfs" \/ file.size > MaxFileBytes
  \/ OverBudget([sources |-> sources, gaps |-> {}], p, file)

LEMMA InsertForms ==
    ASSUME NEW got \in Takings, NEW p \in Range(Paths), NEW file \in Files,
           NEW after, after = Insert(got, p, file)
    PROVE  /\ Stepped(got, after, p)
           /\ after.sources = IF LeavesOut(got.sources, p, file)
                              THEN [got.sources EXCEPT ![p] = Absent]
                              ELSE [got.sources EXCEPT ![p] = file]
           /\ after.sources[p] = file \/ Marked(after, p)
  <1>1. file.size \in Nat /\ MaxFileBytes \in Nat
    BY FileForms, CaptureLimitsAssumption
  <1>2. PICK b \in BOOLEAN : b <=> OverBudget(got, p, file)  BY Zenon
  <1>3. b <=> OverBudget([sources |-> got.sources, gaps |-> {}], p, file)
    <2>1. PICK u : u = [sources |-> got.sources, gaps |-> {}]  OBVIOUS
    <2>2. u.sources = got.sources  BY <2>1
    <2>3. Held(u) = Held(got)  BY <2>2, Zenon DEF Held
    <2>4. OverBudget(u, p, file) <=> OverBudget(got, p, file)
      BY <2>2, <2>3, Zenon DEF OverBudget
    <2>5. QED  BY <1>2, <2>1, <2>4
  <1>4. after = CASE file.type = "lfs" -> Gap(Omit(got, p), p, "lfs pointer")
                  [] file.type # "lfs" /\ file.size > MaxFileBytes ->
                       Gap(Omit(got, p), p, "too large")
                  [] file.type # "lfs" /\ file.size <= MaxFileBytes ->
                       IF b THEN Gap(Omit(got, p), p, "budget")
                       ELSE Placed(got, p, file)
    BY <1>2, Zenon DEF Insert, Placed
  <1>5. CASE file.type = "lfs"
    <2>1. after = Gap(Omit(got, p), p, "lfs pointer")  BY Zenon, <1>4, <1>5
    <2>2. "lfs pointer" \in Gaps  BY DEF Gaps
    <2>3. LeavesOut(got.sources, p, file)  BY <1>5 DEF LeavesOut
    <2>4. /\ Stepped(got, after, p) /\ Marked(after, p)
          /\ after.sources = [got.sources EXCEPT ![p] = Absent]
      BY Zenon, <2>1, <2>2, OmittedForm
    <2>5. QED  BY <2>3, <2>4
  <1>6. CASE file.type # "lfs" /\ file.size > MaxFileBytes
    <2>1. after = Gap(Omit(got, p), p, "too large")
      <3>1. file.type # "lfs" /\ ~(file.size <= MaxFileBytes)  BY <1>1, <1>6
      <3>2. PICK big \in BOOLEAN : big <=> file.size > MaxFileBytes  BY Zenon
      <3>3. PICK lfs \in BOOLEAN : lfs <=> file.type = "lfs"  BY Zenon
      <3>4. PICK fits \in BOOLEAN : fits <=> file.size <= MaxFileBytes  BY Zenon
      <3>5. after = CASE lfs -> Gap(Omit(got, p), p, "lfs pointer")
                      [] ~lfs /\ big -> Gap(Omit(got, p), p, "too large")
                      [] ~lfs /\ fits -> IF b THEN Gap(Omit(got, p), p, "budget")
                                         ELSE Placed(got, p, file)
        BY Zenon, <1>4, <3>2, <3>3, <3>4
      <3>6. ~lfs /\ big /\ ~fits  BY <1>6, <3>1, <3>2, <3>3, <3>4
      <3>7. QED  BY Zenon, <3>5, <3>6
    <2>2. "too large" \in Gaps  BY DEF Gaps
    <2>3. LeavesOut(got.sources, p, file)  BY <1>6 DEF LeavesOut
    <2>4. /\ Stepped(got, after, p) /\ Marked(after, p)
          /\ after.sources = [got.sources EXCEPT ![p] = Absent]
      BY Zenon, <2>1, <2>2, OmittedForm
    <2>5. QED  BY <2>3, <2>4
  <1>7. CASE file.type # "lfs" /\ file.size <= MaxFileBytes /\ b
    <2>1. after = Gap(Omit(got, p), p, "budget")
      <3>1. ~(file.size > MaxFileBytes)  BY <1>1, <1>7
      <3>2. QED  BY Zenon, <1>4, <1>7, <3>1
    <2>2. "budget" \in Gaps  BY DEF Gaps
    <2>3. LeavesOut(got.sources, p, file)  BY <1>3, <1>7 DEF LeavesOut
    <2>4. /\ Stepped(got, after, p) /\ Marked(after, p)
          /\ after.sources = [got.sources EXCEPT ![p] = Absent]
      BY <2>1, <2>2, OmittedForm
    <2>5. QED  BY <2>3, <2>4
  <1>8. CASE file.type # "lfs" /\ file.size <= MaxFileBytes /\ ~b
    <2>1. ~(file.size > MaxFileBytes)  BY <1>1, <1>8
    <2>2. after = Placed(got, p, file)  BY Zenon, <1>4, <1>8, <2>1
    <2>3. ~LeavesOut(got.sources, p, file)  BY <1>3, <1>8, <2>1 DEF LeavesOut
    <2>4. /\ Stepped(got, after, p) /\ after.sources[p] = file
          /\ after.sources = [got.sources EXCEPT ![p] = file]
      BY <2>2, PlacedForm
    <2>5. QED  BY <2>3, <2>4
  <1>9. QED  BY <1>1, <1>5, <1>6, <1>7, <1>8

(* A file that makes claims is taken, or its path is marked.               *)
Takes(after, p, file) ==
  p \in Scoped /\ file.says # {} => after.sources[p] = file \/ Marked(after, p)

LEMMA OutOfScopeForms ==
    ASSUME NEW got \in Takings, NEW p \in Range(Paths),
           NEW after, after = OutOfScope(got, p)
    PROVE  Stepped(got, after, p) /\ after.sources = got.sources
  <1>1. CASE p \in Bare
    <2>1. PICK kind \in Gaps : kind = "out of scope"  BY DEF Gaps
    <2>2. after = Gap(got, p, kind)  BY Zenon, <1>1, <2>1 DEF OutOfScope
    <2>3. QED  BY <2>2, MarkedForm
  <1>2. CASE p \notin Bare
    <2>1. after = got  BY <1>2 DEF OutOfScope
    <2>2. QED  BY <2>1, StaysForm
  <1>3. QED  BY <1>1, <1>2

LEMMA AddCommittedForms ==
    ASSUME NEW got \in Takings, NEW p \in Range(Paths),
           NEW file \in Files, file.type # "directory",
           NEW after, after = AddCommitted(got, p, file)
    PROVE  Stepped(got, after, p) /\ Takes(after, p, file)
  <1>1. /\ file.type \in FileTypes \ {"directory"}
        /\ file.type # "regular" => file.says = {}
        /\ file.type = "absent" <=> file = Absent
        /\ file.size \in Nat /\ MaxFileBytes \in Nat
    BY FileForms, CaptureLimitsAssumption
  <1>2. PICK type : type = file.type  OBVIOUS
  <1>3. PICK scoped \in BOOLEAN : scoped <=> p \in Scoped  BY Zenon
  <1>4. PICK big \in BOOLEAN : big <=> file.size > MaxFileBytes  BY Zenon
  <1>5. after = CASE type = "absent" -> got
                  [] type # "absent" /\ ~scoped -> OutOfScope(got, p)
                  [] type \in {"gitlink", "link"} /\ scoped -> Gap(got, p, type)
                  [] type \in {"regular", "lfs"} /\ scoped ->
                       IF big THEN Gap(got, p, "too large") ELSE Insert(got, p, file)
    BY Zenon, <1>1, <1>2, <1>3, <1>4 DEF AddCommitted
  <1>6. type \in {"absent", "regular", "link", "lfs", "gitlink"}
    BY <1>1, <1>2 DEF FileTypes
  <1>7. CASE type = "absent"
    <2>1. after = got  BY <1>5, <1>7
    <2>2. QED  BY <1>1, <1>2, <1>7, <2>1, StaysForm DEF Takes
  <1>8. CASE type # "absent" /\ ~scoped
    <2>1. after = OutOfScope(got, p)  BY <1>5, <1>8
    <2>2. QED  BY <1>3, <1>8, <2>1, OutOfScopeForms DEF Takes
  <1>9. CASE type \in {"gitlink", "link"} /\ scoped
    <2>1. after = Gap(got, p, type)  BY Zenon, <1>5, <1>9
    <2>2. type \in Gaps  BY Zenon, <1>9 DEF Gaps
    <2>3. QED  BY <2>1, <2>2, MarkedForm DEF Takes
  <1>10. CASE type \in {"regular", "lfs"} /\ scoped /\ big
    <2>1. after = Gap(got, p, "too large")  BY Zenon, <1>5, <1>10
    <2>2. "too large" \in Gaps  BY DEF Gaps
    <2>3. QED  BY Zenon, <2>1, <2>2, MarkedForm DEF Takes
  <1>11. CASE type \in {"regular", "lfs"} /\ scoped /\ ~big
    <2>1. after = Insert(got, p, file)  BY <1>5, <1>11
    <2>2. QED  BY <2>1, InsertForms DEF Takes
  <1>12. QED  BY <1>6, <1>7, <1>8, <1>9, <1>10, <1>11

LEMMA AddUnmergedForms ==
    ASSUME NEW got \in Takings, NEW p \in Range(Paths),
           NEW after, after = AddUnmerged(got, p)
    PROVE  /\ Stepped(got, after, p) /\ Marked(after, p)
           /\ after.sources = IF p \in Scoped THEN [got.sources EXCEPT ![p] = Absent]
                              ELSE got.sources
  <1>1. "conflict" \in Gaps  BY DEF Gaps
  <1>2. CASE p \in Scoped
    <2>1. after = Gap(Omit(got, p), p, "conflict")  BY <1>2 DEF AddUnmerged
    <2>2. /\ Stepped(got, after, p) /\ Marked(after, p)
          /\ after.sources = [got.sources EXCEPT ![p] = Absent]
      BY <1>1, <2>1, OmittedForm
    <2>3. QED  BY <1>2, <2>2
  <1>3. CASE p \notin Scoped
    <2>1. after = Gap(got, p, "conflict")  BY <1>3 DEF AddUnmerged
    <2>2. Stepped(got, after, p) /\ Marked(after, p) /\ after.sources = got.sources
      BY <1>1, <2>1, MarkedForm
    <2>3. QED  BY <1>3, <2>2
  <1>4. QED  BY <1>2, <1>3

ChangedSources(sources, p, file) ==
  IF p \notin Scoped \/ file.type \in {"gitlink", "directory"} THEN sources
  ELSE IF file.type \in {"absent", "link"} \/ LeavesOut(sources, p, file)
       THEN [sources EXCEPT ![p] = Absent]
       ELSE [sources EXCEPT ![p] = file]

LEMMA AddChangedForms ==
    ASSUME NEW got \in Takings, NEW p \in Range(Paths), NEW file \in Files,
           NEW after, after = AddChanged(got, p, file)
    PROVE  /\ Stepped(got, after, p) /\ Takes(after, p, file)
           /\ after.sources = ChangedSources(got.sources, p, file)
  <1>1. /\ file.type \in FileTypes
        /\ file.type # "regular" => file.says = {}
        /\ file.type = "absent" <=> file = Absent
    BY FileForms
  <1>2. PICK type : type = file.type  OBVIOUS
  <1>3. PICK scoped \in BOOLEAN : scoped <=> p \in Scoped  BY Zenon
  <1>4. after = CASE ~scoped -> OutOfScope(got, p)
                  [] type = "absent" /\ scoped -> Omit(got, p)
                  [] type = "link" /\ scoped -> Gap(Omit(got, p), p, "link")
                  [] type \in {"gitlink", "directory"} /\ scoped -> got
                  [] type \in {"regular", "lfs"} /\ scoped -> Insert(got, p, file)
    BY <1>1, <1>2, <1>3 DEF AddChanged
  <1>5. type \in {"absent", "regular", "link", "lfs", "gitlink", "directory"}
    BY <1>1, <1>2 DEF FileTypes
  <1>6. CASE ~scoped
    <2>1. after = OutOfScope(got, p)  BY <1>4, <1>6
    <2>2. Stepped(got, after, p) /\ after.sources = got.sources  BY <2>1, OutOfScopeForms
    <2>3. QED  BY <1>3, <1>6, <2>2 DEF Takes, ChangedSources
  <1>7. CASE type = "absent" /\ scoped
    <2>1. after = Omit(got, p)  BY <1>4, <1>7
    <2>2. after = Placed(got, p, file)  BY <1>1, <1>2, <1>7, <2>1, Zenon DEF Omit, Placed
    <2>3. /\ Stepped(got, after, p) /\ after.sources[p] = file
          /\ after.sources = [got.sources EXCEPT ![p] = file]
      BY <2>2, PlacedForm
    <2>4. QED  BY <1>1, <1>2, <1>3, <1>7, <2>3 DEF Takes, ChangedSources
  <1>8. CASE type = "link" /\ scoped
    <2>1. after = Gap(Omit(got, p), p, "link") /\ "link" \in Gaps  BY <1>4, <1>8 DEF Gaps
    <2>2. /\ Stepped(got, after, p) /\ Marked(after, p)
          /\ after.sources = [got.sources EXCEPT ![p] = Absent]
      BY <2>1, OmittedForm
    <2>3. QED  BY <1>2, <1>3, <1>8, <2>2 DEF Takes, ChangedSources
  <1>9. CASE type \in {"gitlink", "directory"} /\ scoped
    <2>1. after = got  BY <1>4, <1>9
    <2>2. QED  BY <1>1, <1>2, <1>9, <2>1, StaysForm DEF Takes, ChangedSources
  <1>10. CASE type \in {"regular", "lfs"} /\ scoped
    <2>1. after = Insert(got, p, file)  BY <1>4, <1>10
    <2>2. /\ Stepped(got, after, p)
          /\ after.sources = IF LeavesOut(got.sources, p, file)
                             THEN [got.sources EXCEPT ![p] = Absent]
                             ELSE [got.sources EXCEPT ![p] = file]
          /\ after.sources[p] = file \/ Marked(after, p)
      BY <2>1, InsertForms
    <2>3. type \notin {"gitlink", "directory", "absent", "link"}  BY <1>10
    <2>4. QED  BY <1>2, <1>3, <1>10, <2>2, <2>3 DEF Takes, ChangedSources
  <1>11. QED  BY <1>5, <1>6, <1>7, <1>8, <1>9, <1>10

-----------------------------------------------------------------------------
(* A capture, path by path *)

CommittedStep(commit, got, p) == AddCommitted(got, p, HeadFiles[commit][p])

MergedStep(w, got, p) ==
  IF p \in Checkout[w].unmerged THEN AddUnmerged(got, p) ELSE got

ChangedStep(commit, w, got, p) ==
  IF p \in Changed(commit, w) THEN AddChanged(got, p, Checkout[w].files[p]) ELSE got

LEMMA CommittedStepForms ==
    ASSUME NEW commit \in Commits, NEW got \in Takings, NEW p \in Range(Paths),
           NEW after, after = CommittedStep(commit, got, p)
    PROVE  Stepped(got, after, p) /\ Takes(after, p, HeadFiles[commit][p])
  <1>1. PICK file \in Files : file = HeadFiles[commit][p] /\ file.type # "directory"
    BY FilesAssumption
  <1>2. after = AddCommitted(got, p, file)  BY <1>1 DEF CommittedStep
  <1>3. QED  BY <1>1, <1>2, AddCommittedForms

MergedSources(sources, p, w) ==
  IF p \in Scoped /\ p \in Checkout[w].unmerged THEN [sources EXCEPT ![p] = Absent]
  ELSE sources

LEMMA MergedStepForms ==
    ASSUME NEW w \in Worktrees, NEW got \in Takings, NEW p \in Range(Paths),
           NEW after, after = MergedStep(w, got, p)
    PROVE  /\ Stepped(got, after, p)
           /\ p \in Checkout[w].unmerged => Marked(after, p)
           /\ p \notin Checkout[w].unmerged => after = got
           /\ after.sources = MergedSources(got.sources, p, w)
  <1>1. CASE p \in Checkout[w].unmerged
    <2>1. after = AddUnmerged(got, p)  BY <1>1 DEF MergedStep
    <2>2. /\ Stepped(got, after, p) /\ Marked(after, p)
          /\ after.sources = IF p \in Scoped THEN [got.sources EXCEPT ![p] = Absent]
                             ELSE got.sources
      BY <2>1, AddUnmergedForms
    <2>3. QED  BY <1>1, <2>2 DEF MergedSources
  <1>2. CASE p \notin Checkout[w].unmerged
    <2>1. after = got  BY <1>2 DEF MergedStep
    <2>2. QED  BY <1>2, <2>1, StaysForm DEF MergedSources
  <1>3. QED  BY <1>1, <1>2

LEMMA ChangedStepForms ==
    ASSUME NEW commit, NEW w \in Worktrees, NEW got \in Takings, NEW p \in Range(Paths),
           NEW after, after = ChangedStep(commit, w, got, p)
    PROVE  /\ Stepped(got, after, p)
           /\ p \in Changed(commit, w) => Takes(after, p, Checkout[w].files[p])
           /\ p \notin Changed(commit, w) => after = got
           /\ after.sources = IF p \in Changed(commit, w)
                              THEN ChangedSources(got.sources, p, Checkout[w].files[p])
                              ELSE got.sources
  <1>1. CASE p \in Changed(commit, w)
    <2>1. PICK file \in Files : file = Checkout[w].files[p]  BY FilesAssumption
    <2>2. after = AddChanged(got, p, file)  BY <1>1, <2>1 DEF ChangedStep
    <2>3. /\ Stepped(got, after, p) /\ Takes(after, p, file)
          /\ after.sources = ChangedSources(got.sources, p, file)
      BY <2>2, AddChangedForms
    <2>4. QED  BY <1>1, <2>1, <2>3
  <1>2. CASE p \notin Changed(commit, w)
    <2>1. after = got  BY <1>2 DEF ChangedStep
    <2>2. QED  BY <1>2, <2>1, StaysForm
  <1>3. QED  BY <1>1, <1>2

LEMMA NothingIsTaken ==
    Nothing \in Takings
  <1>1. QED  BY FileForms DEF Nothing, Takings

LEMMA CommittedRuns ==
    ASSUME NEW commit \in Commits
    PROVE  \E k : /\ Committed(commit) = k[Len(Paths)] /\ k[0] = Nothing
                  /\ \A n \in 1..Len(Paths) : k[n] = CommittedStep(commit, k[n - 1], Paths[n])
  <1> DEFINE k == CHOOSE got : got = [n \in 0..Len(Paths) |->
                    IF n = 0 THEN Nothing
                    ELSE AddCommitted(got[n - 1], Paths[n], HeadFiles[commit][Paths[n]])]
  <1>1. PICK step : step = [p \in (1..Len(Paths)) \X Takings |-> CommittedStep(commit, p[2], Paths[p[1]])]
    OBVIOUS
  <1>2. Len(Paths) \in Nat /\ \A n \in 1..Len(Paths) : Paths[n] \in Range(Paths)
    BY FilesAssumption DEF Range
  <1>3. step \in [(1..Len(Paths)) \X Takings -> Takings]
    <2>1. ASSUME NEW p \in (1..Len(Paths)) \X Takings
          PROVE  CommittedStep(commit, p[2], Paths[p[1]]) \in Takings
      <3>1. PICK got \in Takings : p[2] = got  OBVIOUS
      <3>2. PICK q \in Range(Paths) : q = Paths[p[1]]  BY <1>2
      <3>3. CommittedStep(commit, got, q) \in Takings  BY CommittedStepForms DEF Stepped
      <3>4. QED  BY <3>1, <3>2, <3>3
    <2>2. QED  BY <1>1, <2>1
  <1>4. PICK s \in Takings : s = Nothing  BY NothingIsTaken
  <1>5. PICK f \in [0..Len(Paths) -> Takings] : IsRun(f, Len(Paths), s, step)
    BY <1>2, <1>3, Recursion
  <1>6. f = [n \in 0..Len(Paths) |->
               IF n = 0 THEN Nothing ELSE CommittedStep(commit, f[n - 1], Paths[n])]
    <2>1. ASSUME NEW n \in 0..Len(Paths)
          PROVE  f[n] = IF n = 0 THEN Nothing ELSE CommittedStep(commit, f[n - 1], Paths[n])
      <3>1. CASE n = 0  BY <1>4, <1>5, <3>1 DEF IsRun
      <3>2. CASE n # 0
        <4>1. n \in 1..Len(Paths) /\ n - 1 \in 0..Len(Paths)  BY <1>2, <3>2
        <4>2. PICK p : p = <<n, f[n - 1]>>  OBVIOUS
        <4>3. p \in (1..Len(Paths)) \X Takings /\ p[1] = n /\ p[2] = f[n - 1]
          BY <4>1, <4>2
        <4>4. f[n] = step[p]  BY <1>5, <4>1, <4>2 DEF IsRun
        <4>5. step[p] = CommittedStep(commit, p[2], Paths[p[1]])  BY <1>1, <4>3
        <4>6. QED  BY <3>2, <4>3, <4>4, <4>5
      <3>3. QED  BY <3>1, <3>2
    <2>2. f = [n \in 0..Len(Paths) |-> f[n]]  OBVIOUS
    <2>3. QED  BY <2>1, <2>2
  <1>7. k = [n \in 0..Len(Paths) |->
               IF n = 0 THEN Nothing
               ELSE AddCommitted(k[n - 1], Paths[n], HeadFiles[commit][Paths[n]])]
    BY <1>6, Zenon DEF CommittedStep
  <1>8. Committed(commit) = k[Len(Paths)]  BY Zenon DEF Committed
  <1> HIDE DEF k
  <1>9. k[0] = Nothing
    <2>1. 0 \in 0..Len(Paths)  BY <1>2
    <2>2. QED  BY <1>7, <2>1
  <1>10. ASSUME NEW n \in 1..Len(Paths) PROVE k[n] = CommittedStep(commit, k[n - 1], Paths[n])
    <2>1. n \in 0..Len(Paths) /\ n # 0  BY <1>2
    <2>2. k[n] = AddCommitted(k[n - 1], Paths[n], HeadFiles[commit][Paths[n]])
      BY <1>7, <2>1
    <2>3. QED  BY <2>2, Zenon DEF CommittedStep
  <1>11. QED  BY <1>8, <1>9, <1>10

(* All steps of a run, and so what it ends with.                           *)
LEMMA RunIsTaken ==
    ASSUME NEW k, k[0] \in Takings,
           \A n \in 1..Len(Paths) : k[n - 1] \in Takings => Stepped(k[n - 1], k[n], Paths[n])
    PROVE  /\ \A n \in 0..Len(Paths) : k[n] \in Takings
           /\ \A n \in 0..Len(Paths) : k[n].gaps \subseteq k[Len(Paths)].gaps
  <1>1. Len(Paths) \in Nat  BY FilesAssumption
  <1>2. PICK M : M = {n \in Nat : n <= Len(Paths) => k[n] \in Takings}  OBVIOUS
  <1>3. 0 \in M  BY <1>2
  <1>4. ASSUME NEW n \in Nat, n \in M PROVE n + 1 \in M
    <2> SUFFICES ASSUME n + 1 <= Len(Paths) PROVE k[n + 1] \in Takings  BY <1>2
    <2>1. n + 1 \in 1..Len(Paths) /\ (n + 1) - 1 = n /\ k[n] \in Takings
      BY <1>1, <1>2, <1>4
    <2>2. Stepped(k[n], k[n + 1], Paths[n + 1])  BY <2>1
    <2>3. QED  BY <2>2 DEF Stepped
  <1>5. Nat \subseteq M  BY <1>3, <1>4, NumberInduction
  <1>6. \A n \in 0..Len(Paths) : k[n] \in Takings  BY <1>1, <1>2, <1>5
  <1>7. PICK N : N = {d \in Nat : d <= Len(Paths) =>
                       k[Len(Paths) - d].gaps \subseteq k[Len(Paths)].gaps}
    OBVIOUS
  <1>8. 0 \in N
    <2>1. Len(Paths) - 0 = Len(Paths)  BY <1>1
    <2>2. QED  BY <1>7, <2>1
  <1>9. ASSUME NEW d \in Nat, d \in N PROVE d + 1 \in N
    <2> SUFFICES ASSUME d + 1 <= Len(Paths)
                 PROVE  k[Len(Paths) - (d + 1)].gaps \subseteq k[Len(Paths)].gaps
      BY <1>7
    <2>1. PICK n : n = Len(Paths) - d  OBVIOUS
    <2>2. n \in 1..Len(Paths) /\ Len(Paths) - (d + 1) = n - 1 /\ n - 1 \in 0..Len(Paths)
      BY <1>1, <2>1
    <2>3. Stepped(k[n - 1], k[n], Paths[n])  BY <1>6, <2>2
    <2>4. k[n - 1].gaps \subseteq k[n].gaps  BY <2>3 DEF Stepped
    <2>5. k[n].gaps \subseteq k[Len(Paths)].gaps  BY <1>1, <1>7, <1>9, <2>1
    <2>6. QED  BY <2>2, <2>4, <2>5
  <1>10. Nat \subseteq N  BY <1>8, <1>9, NumberInduction
  <1>11. ASSUME NEW n \in 0..Len(Paths) PROVE k[n].gaps \subseteq k[Len(Paths)].gaps
    <2>1. Len(Paths) - n \in Nat /\ Len(Paths) - n <= Len(Paths)
          /\ Len(Paths) - (Len(Paths) - n) = n
      BY <1>1
    <2>2. QED  BY <1>7, <1>10, <2>1
  <1>12. QED  BY <1>6, <1>11

(* What a step left at its path, no later step at another path takes away. *)
LEMMA RunKeeps ==
    ASSUME NEW k, NEW file, NEW p \in Range(Paths), k[0] \in Takings,
           \A n \in 1..Len(Paths) :
             k[n - 1] \in Takings =>
               /\ Stepped(k[n - 1], k[n], Paths[n])
               /\ Paths[n] = p /\ Takes(k[n - 1], p, file) => Takes(k[n], p, file),
           \/ Takes(k[0], p, file)
           \/ \A n \in 1..Len(Paths) :
                k[n - 1] \in Takings /\ Paths[n] = p => Takes(k[n], p, file)
    PROVE  Takes(k[Len(Paths)], p, file)
  <1>1. Len(Paths) \in Nat  BY FilesAssumption
  <1>2. /\ \A n \in 0..Len(Paths) : k[n] \in Takings
        /\ \A n \in 1..Len(Paths) : k[n - 1] \in Takings
    <2>1. \A n \in 0..Len(Paths) : k[n] \in Takings  BY RunIsTaken
    <2>2. \A n \in 1..Len(Paths) : n - 1 \in 0..Len(Paths)  BY <1>1
    <2>3. QED  BY <2>1, <2>2
  <1>3. ASSUME NEW n \in 1..Len(Paths), Takes(k[n - 1], p, file) PROVE Takes(k[n], p, file)
    <2>1. CASE Paths[n] = p  BY <1>2, <1>3, <2>1
    <2>2. CASE Paths[n] # p
      <3>1. Stepped(k[n - 1], k[n], Paths[n])  BY <1>2
      <3>2. k[n].sources[p] = k[n - 1].sources[p]  BY <2>2, <3>1 DEF Stepped
      <3>3. Marked(k[n - 1], p) => Marked(k[n], p)  BY <3>1 DEF Stepped, Marked
      <3>4. QED  BY <1>3, <3>2, <3>3 DEF Takes
    <2>3. QED  BY <2>1, <2>2
  <1>4. PICK m \in 0..Len(Paths) : Takes(k[m], p, file)
    <2>1. CASE Takes(k[0], p, file)
      <3>1. 0 \in 0..Len(Paths)  BY <1>1
      <3>2. QED  BY <2>1, <3>1
    <2>2. CASE \A n \in 1..Len(Paths) :
                 k[n - 1] \in Takings /\ Paths[n] = p => Takes(k[n], p, file)
      <3>1. PICK n \in 1..Len(Paths) : Paths[n] = p  BY <1>1, FilesAssumption DEF Range
      <3>2. n \in 0..Len(Paths)  BY <1>1
      <3>3. QED  BY <1>2, <2>2, <3>1, <3>2
    <2>3. QED  BY <2>1, <2>2
  <1>5. PICK M : M = {d \in Nat : m + d <= Len(Paths) => Takes(k[m + d], p, file)}  OBVIOUS
  <1>6. 0 \in M
    <2>1. m + 0 = m  OBVIOUS
    <2>2. QED  BY <1>4, <1>5, <2>1
  <1>7. ASSUME NEW d \in Nat, d \in M PROVE d + 1 \in M
    <2> SUFFICES ASSUME m + (d + 1) <= Len(Paths) PROVE Takes(k[m + (d + 1)], p, file)
      BY <1>5
    <2>1. PICK n : n = m + (d + 1)  OBVIOUS
    <2>2. n \in 1..Len(Paths) /\ n - 1 = m + d /\ m + d <= Len(Paths)  BY <1>1, <2>1
    <2>3. Takes(k[n - 1], p, file)  BY <1>5, <1>7, <2>2
    <2>4. Takes(k[n], p, file)  BY <1>3, <2>2, <2>3
    <2>5. QED  BY <2>1, <2>4
  <1>8. Nat \subseteq M  BY SMTT(40), <1>6, <1>7, NumberInduction
  <1>9. PICK d \in Nat : m + d = Len(Paths)
    <2>1. Len(Paths) - m \in Nat /\ m + (Len(Paths) - m) = Len(Paths)  BY <1>1
    <2>2. QED  BY Zenon, <2>1
  <1>10. Takes(k[m + d], p, file)
    <2>1. m + d <= Len(Paths)  BY <1>1, <1>9
    <2>2. QED  BY <1>5, <1>8, <2>1
  <1>11. QED  BY <1>9, <1>10

LEMMA CommittedIsTaken ==
    ASSUME NEW commit \in Commits
    PROVE  /\ Committed(commit) \in Takings
           /\ \A p \in Range(Paths) : Takes(Committed(commit), p, HeadFiles[commit][p])
  <1>1. PICK k : /\ Committed(commit) = k[Len(Paths)] /\ k[0] = Nothing
                 /\ \A n \in 1..Len(Paths) : k[n] = CommittedStep(commit, k[n - 1], Paths[n])
    BY CommittedRuns
  <1>2. Len(Paths) \in Nat /\ \A n \in 1..Len(Paths) : Paths[n] \in Range(Paths)
    BY FilesAssumption DEF Range
  <1>3. k[0] \in Takings  BY <1>1, NothingIsTaken
  <1>4. ASSUME NEW n \in 1..Len(Paths), k[n - 1] \in Takings
        PROVE  /\ Stepped(k[n - 1], k[n], Paths[n])
               /\ Takes(k[n], Paths[n], HeadFiles[commit][Paths[n]])
    <2>1. PICK got \in Takings : got = k[n - 1]  BY <1>4
    <2>2. PICK p \in Range(Paths) : p = Paths[n]  BY <1>2
    <2>3. PICK after : after = k[n]  OBVIOUS
    <2>4. after = CommittedStep(commit, got, p)  BY <1>1, <2>1, <2>2, <2>3
    <2>5. Stepped(got, after, p) /\ Takes(after, p, HeadFiles[commit][p])
      BY <2>4, CommittedStepForms
    <2>6. QED  BY <2>1, <2>2, <2>3, <2>5
  <1>5. \A n \in 0..Len(Paths) : k[n] \in Takings  BY <1>3, <1>4, RunIsTaken
  <1>6. Len(Paths) \in 0..Len(Paths)  BY <1>2
  <1>7. ASSUME NEW p \in Range(Paths)
        PROVE  Takes(k[Len(Paths)], p, HeadFiles[commit][p])
    <2>1. PICK file : file = HeadFiles[commit][p]  OBVIOUS
    <2>2. \A n \in 1..Len(Paths) :
            k[n - 1] \in Takings =>
              /\ Stepped(k[n - 1], k[n], Paths[n])
              /\ Paths[n] = p => Takes(k[n], p, file)
      BY <1>4, <2>1
    <2>3. Takes(k[Len(Paths)], p, file)  BY <1>3, <2>2, RunKeeps
    <2>4. QED  BY <2>1, <2>3
  <1>8. QED  BY <1>1, <1>5, <1>6, <1>7

LEMMA MergedRuns ==
    ASSUME NEW commit \in Commits, NEW w \in Worktrees
    PROVE  \E k : /\ WithoutUnmerged(commit, w) = k[Len(Paths)] /\ k[0] = Committed(commit)
                  /\ \A n \in 1..Len(Paths) : k[n] = MergedStep(w, k[n - 1], Paths[n])
  <1> DEFINE k == CHOOSE got : got = [n \in 0..Len(Paths) |->
                    IF n = 0 THEN Committed(commit)
                    ELSE IF Paths[n] \in Checkout[w].unmerged THEN AddUnmerged(got[n - 1], Paths[n]) ELSE got[n - 1]]
  <1>1. PICK step : step = [p \in (1..Len(Paths)) \X Takings |-> MergedStep(w, p[2], Paths[p[1]])]
    OBVIOUS
  <1>2. Len(Paths) \in Nat /\ \A n \in 1..Len(Paths) : Paths[n] \in Range(Paths)
    BY FilesAssumption DEF Range
  <1>3. step \in [(1..Len(Paths)) \X Takings -> Takings]
    <2>1. ASSUME NEW p \in (1..Len(Paths)) \X Takings
          PROVE  MergedStep(w, p[2], Paths[p[1]]) \in Takings
      <3>1. PICK got \in Takings : p[2] = got  OBVIOUS
      <3>2. PICK q \in Range(Paths) : q = Paths[p[1]]  BY <1>2
      <3>3. MergedStep(w, got, q) \in Takings  BY MergedStepForms DEF Stepped
      <3>4. QED  BY <3>1, <3>2, <3>3
    <2>2. QED  BY <1>1, <2>1
  <1>4. PICK s \in Takings : s = Committed(commit)  BY CommittedIsTaken
  <1>5. PICK f \in [0..Len(Paths) -> Takings] : IsRun(f, Len(Paths), s, step)
    BY <1>2, <1>3, Recursion
  <1>6. f = [n \in 0..Len(Paths) |->
               IF n = 0 THEN Committed(commit) ELSE MergedStep(w, f[n - 1], Paths[n])]
    <2>1. ASSUME NEW n \in 0..Len(Paths)
          PROVE  f[n] = IF n = 0 THEN Committed(commit) ELSE MergedStep(w, f[n - 1], Paths[n])
      <3>1. CASE n = 0  BY <1>4, <1>5, <3>1 DEF IsRun
      <3>2. CASE n # 0
        <4>1. n \in 1..Len(Paths) /\ n - 1 \in 0..Len(Paths)  BY <1>2, <3>2
        <4>2. PICK p : p = <<n, f[n - 1]>>  OBVIOUS
        <4>3. p \in (1..Len(Paths)) \X Takings /\ p[1] = n /\ p[2] = f[n - 1]
          BY <4>1, <4>2
        <4>4. f[n] = step[p]  BY <1>5, <4>1, <4>2 DEF IsRun
        <4>5. step[p] = MergedStep(w, p[2], Paths[p[1]])  BY <1>1, <4>3
        <4>6. QED  BY <3>2, <4>3, <4>4, <4>5
      <3>3. QED  BY <3>1, <3>2
    <2>2. f = [n \in 0..Len(Paths) |-> f[n]]  OBVIOUS
    <2>3. QED  BY <2>1, <2>2
  <1>7. k = [n \in 0..Len(Paths) |->
               IF n = 0 THEN Committed(commit)
               ELSE IF Paths[n] \in Checkout[w].unmerged THEN AddUnmerged(k[n - 1], Paths[n]) ELSE k[n - 1]]
    BY <1>6, Zenon DEF MergedStep
  <1>8. WithoutUnmerged(commit, w) = k[Len(Paths)]  BY Zenon DEF WithoutUnmerged
  <1> HIDE DEF k
  <1>9. k[0] = Committed(commit)
    <2>1. 0 \in 0..Len(Paths)  BY <1>2
    <2>2. QED  BY <1>7, <2>1
  <1>10. ASSUME NEW n \in 1..Len(Paths) PROVE k[n] = MergedStep(w, k[n - 1], Paths[n])
    <2>1. n \in 0..Len(Paths) /\ n # 0  BY <1>2
    <2>2. k[n] = IF Paths[n] \in Checkout[w].unmerged THEN AddUnmerged(k[n - 1], Paths[n]) ELSE k[n - 1]
      BY <1>7, <2>1
    <2>3. QED  BY <2>2, Zenon DEF MergedStep
  <1>11. QED  BY <1>8, <1>9, <1>10

LEMMA MergedIsTaken ==
    ASSUME NEW commit \in Commits, NEW w \in Worktrees
    PROVE  /\ WithoutUnmerged(commit, w) \in Takings
           /\ \A p \in Range(Paths) :
                /\ Takes(WithoutUnmerged(commit, w), p, HeadFiles[commit][p])
                /\ p \in Checkout[w].unmerged => Marked(WithoutUnmerged(commit, w), p)
  <1>1. PICK k : /\ WithoutUnmerged(commit, w) = k[Len(Paths)] /\ k[0] = Committed(commit)
                 /\ \A n \in 1..Len(Paths) : k[n] = MergedStep(w, k[n - 1], Paths[n])
    BY MergedRuns
  <1>2. Len(Paths) \in Nat /\ \A n \in 1..Len(Paths) : Paths[n] \in Range(Paths)
    BY FilesAssumption DEF Range
  <1>3. k[0] \in Takings  BY <1>1, CommittedIsTaken
  <1>4. ASSUME NEW n \in 1..Len(Paths), k[n - 1] \in Takings
        PROVE  /\ Stepped(k[n - 1], k[n], Paths[n])
               /\ Paths[n] \in Checkout[w].unmerged => Marked(k[n], Paths[n])
               /\ Paths[n] \notin Checkout[w].unmerged => k[n] = k[n - 1]
    <2>1. PICK got \in Takings : got = k[n - 1]  BY <1>4
    <2>2. PICK p \in Range(Paths) : p = Paths[n]  BY <1>2
    <2>3. PICK after : after = k[n]  OBVIOUS
    <2>4. after = MergedStep(w, got, p)  BY <1>1, <2>1, <2>2, <2>3
    <2>5. /\ Stepped(got, after, p)
          /\ p \in Checkout[w].unmerged => Marked(after, p)
          /\ p \notin Checkout[w].unmerged => after = got
      BY <2>4, MergedStepForms
    <2>6. QED  BY <2>1, <2>2, <2>3, <2>5
  <1>5. /\ \A n \in 0..Len(Paths) : k[n] \in Takings
        /\ \A n \in 0..Len(Paths) : k[n].gaps \subseteq k[Len(Paths)].gaps
    BY <1>3, <1>4, RunIsTaken
  <1>6. Len(Paths) \in 0..Len(Paths)  BY <1>2
  <1>7. ASSUME NEW p \in Range(Paths)
        PROVE  Takes(k[Len(Paths)], p, HeadFiles[commit][p])
    <2>1. PICK file : file = HeadFiles[commit][p]  OBVIOUS
    <2>2. Takes(k[0], p, file)
      <3>1. PICK got : got = Committed(commit)  OBVIOUS
      <3>2. Takes(got, p, file)  BY <2>1, <3>1, CommittedIsTaken
      <3>3. QED  BY <1>1, <3>1, <3>2
    <2>3. \A n \in 1..Len(Paths) :
            k[n - 1] \in Takings =>
              /\ Stepped(k[n - 1], k[n], Paths[n])
              /\ Paths[n] = p /\ Takes(k[n - 1], p, file) => Takes(k[n], p, file)
      BY <1>4 DEF Takes
    <2>4. Takes(k[Len(Paths)], p, file)  BY <1>3, <2>2, <2>3, RunKeeps
    <2>5. QED  BY <2>1, <2>4
  <1>8. ASSUME NEW p \in Range(Paths), p \in Checkout[w].unmerged
        PROVE  Marked(k[Len(Paths)], p)
    <2>1. PICK n \in 1..Len(Paths) : Paths[n] = p  BY <1>2, FilesAssumption DEF Range
    <2>2. n \in 0..Len(Paths) /\ n - 1 \in 0..Len(Paths)  BY <1>2
    <2>3. Marked(k[n], p)  BY <1>4, <1>5, <1>8, <2>1, <2>2
    <2>4. k[n].gaps \subseteq k[Len(Paths)].gaps  BY <1>5, <2>2
    <2>5. QED  BY <2>3, <2>4 DEF Marked
  <1>9. QED  BY <1>1, <1>5, <1>6, <1>7, <1>8

LEMMA CapturedRuns ==
    ASSUME NEW commit \in Commits, NEW w \in Worktrees
    PROVE  \E k : /\ Captured(commit, w) = k[Len(Paths)] /\ k[0] = WithoutUnmerged(commit, w)
                  /\ \A n \in 1..Len(Paths) : k[n] = ChangedStep(commit, w, k[n - 1], Paths[n])
  <1> DEFINE k == CHOOSE got : got = [n \in 0..Len(Paths) |->
                    IF n = 0 THEN WithoutUnmerged(commit, w)
                    ELSE IF Paths[n] \in Changed(commit, w)
                         THEN AddChanged(got[n - 1], Paths[n], Checkout[w].files[Paths[n]]) ELSE got[n - 1]]
  <1>1. PICK step : step = [p \in (1..Len(Paths)) \X Takings |-> ChangedStep(commit, w, p[2], Paths[p[1]])]
    OBVIOUS
  <1>2. Len(Paths) \in Nat /\ \A n \in 1..Len(Paths) : Paths[n] \in Range(Paths)
    BY FilesAssumption DEF Range
  <1>3. step \in [(1..Len(Paths)) \X Takings -> Takings]
    <2>1. ASSUME NEW p \in (1..Len(Paths)) \X Takings
          PROVE  ChangedStep(commit, w, p[2], Paths[p[1]]) \in Takings
      <3>1. PICK got \in Takings : p[2] = got  OBVIOUS
      <3>2. PICK q \in Range(Paths) : q = Paths[p[1]]  BY <1>2
      <3>3. ChangedStep(commit, w, got, q) \in Takings  BY ChangedStepForms DEF Stepped
      <3>4. QED  BY <3>1, <3>2, <3>3
    <2>2. QED  BY <1>1, <2>1
  <1>4. PICK s \in Takings : s = WithoutUnmerged(commit, w)  BY MergedIsTaken
  <1>5. PICK f \in [0..Len(Paths) -> Takings] : IsRun(f, Len(Paths), s, step)
    BY <1>2, <1>3, Recursion
  <1>6. f = [n \in 0..Len(Paths) |->
               IF n = 0 THEN WithoutUnmerged(commit, w) ELSE ChangedStep(commit, w, f[n - 1], Paths[n])]
    <2>1. ASSUME NEW n \in 0..Len(Paths)
          PROVE  f[n] = IF n = 0 THEN WithoutUnmerged(commit, w) ELSE ChangedStep(commit, w, f[n - 1], Paths[n])
      <3>1. CASE n = 0  BY <1>4, <1>5, <3>1 DEF IsRun
      <3>2. CASE n # 0
        <4>1. n \in 1..Len(Paths) /\ n - 1 \in 0..Len(Paths)  BY <1>2, <3>2
        <4>2. PICK p : p = <<n, f[n - 1]>>  OBVIOUS
        <4>3. p \in (1..Len(Paths)) \X Takings /\ p[1] = n /\ p[2] = f[n - 1]
          BY <4>1, <4>2
        <4>4. f[n] = step[p]  BY <1>5, <4>1, <4>2 DEF IsRun
        <4>5. step[p] = ChangedStep(commit, w, p[2], Paths[p[1]])  BY <1>1, <4>3
        <4>6. QED  BY <3>2, <4>3, <4>4, <4>5
      <3>3. QED  BY <3>1, <3>2
    <2>2. f = [n \in 0..Len(Paths) |-> f[n]]  OBVIOUS
    <2>3. QED  BY <2>1, <2>2
  <1>7. k = [n \in 0..Len(Paths) |->
               IF n = 0 THEN WithoutUnmerged(commit, w)
               ELSE IF Paths[n] \in Changed(commit, w)
                         THEN AddChanged(k[n - 1], Paths[n], Checkout[w].files[Paths[n]]) ELSE k[n - 1]]
    BY <1>6, Zenon DEF ChangedStep
  <1>8. Captured(commit, w) = k[Len(Paths)]  BY Zenon DEF Captured
  <1> HIDE DEF k
  <1>9. k[0] = WithoutUnmerged(commit, w)
    <2>1. 0 \in 0..Len(Paths)  BY <1>2
    <2>2. QED  BY <1>7, <2>1
  <1>10. ASSUME NEW n \in 1..Len(Paths) PROVE k[n] = ChangedStep(commit, w, k[n - 1], Paths[n])
    <2>1. n \in 0..Len(Paths) /\ n # 0  BY <1>2
    <2>2. k[n] = IF Paths[n] \in Changed(commit, w)
                         THEN AddChanged(k[n - 1], Paths[n], Checkout[w].files[Paths[n]]) ELSE k[n - 1]
      BY <1>7, <2>1
    <2>3. QED  BY <2>2, Zenon DEF ChangedStep
  <1>11. QED  BY <1>8, <1>9, <1>10

LEMMA UnchangedFile ==
    ASSUME NEW a, NEW b, NEW c, ~(Cardinality({a, b, c}) > 1)
    PROVE  a = c
  <1> SUFFICES ASSUME a # c PROVE FALSE  OBVIOUS
  <1>1. IsFiniteSet({a}) /\ Cardinality({a}) = 1  BY FS_Singleton
  <1>2. IsFiniteSet({a} \cup {c}) /\ Cardinality({a} \cup {c}) = 2
    BY <1>1, FS_AddElement
  <1>3. IsFiniteSet(({a} \cup {c}) \cup {b})  BY <1>2, FS_AddElement
  <1>4. {a, b, c} = ({a} \cup {c}) \cup {b}  OBVIOUS
  <1>5. PICK S : S = {a, b, c}  OBVIOUS
  <1>6. PICK T : T = {a} \cup {c}  OBVIOUS
  <1>7. IsFiniteSet(S) /\ T \in SUBSET S  BY <1>3, <1>4, <1>5, <1>6
  <1>8. Cardinality(T) <= Cardinality(S)  BY <1>7, FS_Subset
  <1>9. Cardinality(S) \in Nat  BY <1>7, FS_CardinalityType
  <1>10. QED  BY <1>2, <1>5, <1>6, <1>8, <1>9

(* A capture takes what is on disk, or says that it left it out.           *)
LEMMA CapturedIsTaken ==
    ASSUME NEW commit \in Commits, NEW w \in Worktrees
    PROVE  /\ Captured(commit, w) \in Takings
           /\ \A p \in Range(Paths) : Takes(Captured(commit, w), p, Checkout[w].files[p])
  <1>1. PICK k : /\ Captured(commit, w) = k[Len(Paths)]
                 /\ k[0] = WithoutUnmerged(commit, w)
                 /\ \A n \in 1..Len(Paths) : k[n] = ChangedStep(commit, w, k[n - 1], Paths[n])
    BY CapturedRuns
  <1>2. Len(Paths) \in Nat /\ \A n \in 1..Len(Paths) : Paths[n] \in Range(Paths)
    BY FilesAssumption DEF Range
  <1>3. k[0] \in Takings  BY <1>1, MergedIsTaken
  <1>4. ASSUME NEW n \in 1..Len(Paths), k[n - 1] \in Takings
        PROVE  /\ Stepped(k[n - 1], k[n], Paths[n])
               /\ Paths[n] \in Changed(commit, w) =>
                    Takes(k[n], Paths[n], Checkout[w].files[Paths[n]])
               /\ Paths[n] \notin Changed(commit, w) => k[n] = k[n - 1]
    <2>1. PICK got \in Takings : got = k[n - 1]  BY <1>4
    <2>2. PICK p \in Range(Paths) : p = Paths[n]  BY <1>2
    <2>3. PICK after : after = k[n]  OBVIOUS
    <2>4. after = ChangedStep(commit, w, got, p)  BY <1>1, <2>1, <2>2, <2>3
    <2>5. /\ Stepped(got, after, p)
          /\ p \in Changed(commit, w) => Takes(after, p, Checkout[w].files[p])
          /\ p \notin Changed(commit, w) => after = got
      BY <2>4, ChangedStepForms
    <2>6. QED  BY <2>1, <2>2, <2>3, <2>5
  <1>5. /\ \A n \in 0..Len(Paths) : k[n] \in Takings
        /\ \A n \in 0..Len(Paths) : k[n].gaps \subseteq k[Len(Paths)].gaps
    BY <1>3, <1>4, RunIsTaken
  <1>6. Len(Paths) \in 0..Len(Paths) /\ 0 \in 0..Len(Paths)  BY <1>2
  <1>7. ASSUME NEW p \in Range(Paths)
        PROVE  Takes(k[Len(Paths)], p, Checkout[w].files[p])
    <2>1. PICK file : file = Checkout[w].files[p]  OBVIOUS
    <2>2. CASE p \in Changed(commit, w)
      <3>1. \A n \in 1..Len(Paths) :
              k[n - 1] \in Takings =>
                /\ Stepped(k[n - 1], k[n], Paths[n])
                /\ Paths[n] = p => Takes(k[n], p, file)
        BY <1>4, <2>1, <2>2
      <3>2. Takes(k[Len(Paths)], p, file)  BY <1>3, <3>1, RunKeeps
      <3>3. QED  BY <2>1, <3>2
    <2>3. CASE p \in Checkout[w].unmerged
      <3>1. PICK got : got = WithoutUnmerged(commit, w)  OBVIOUS
      <3>2. Marked(got, p)  BY <2>3, <3>1, MergedIsTaken
      <3>3. k[0].gaps \subseteq k[Len(Paths)].gaps  BY <1>5, <1>6
      <3>4. Marked(k[Len(Paths)], p)  BY <1>1, <3>1, <3>2, <3>3 DEF Marked
      <3>5. QED  BY <3>4 DEF Takes
    <2>4. CASE p \in Scoped /\ p \notin Changed(commit, w) /\ p \notin Checkout[w].unmerged
      <3>1. p \notin Status(commit, w)  BY <2>4 DEF Changed
      <3>2. file = HeadFiles[commit][p]
        <4>1. PICK c : c = HeadFiles[commit][p]  OBVIOUS
        <4>2. PICK i : i = Checkout[w].index[p]  OBVIOUS
        <4>3. ~(Cardinality({c, i, file}) > 1)  BY <2>1, <3>1, <4>1, <4>2 DEF Status
        <4>4. QED  BY <4>1, <4>3, UnchangedFile
      <3>3. Takes(k[0], p, file)
        <4>1. PICK got : got = WithoutUnmerged(commit, w)  OBVIOUS
        <4>2. Takes(got, p, file)  BY <3>2, <4>1, MergedIsTaken
        <4>3. QED  BY <1>1, <4>1, <4>2
      <3>4. \A n \in 1..Len(Paths) :
              k[n - 1] \in Takings =>
                /\ Stepped(k[n - 1], k[n], Paths[n])
                /\ Paths[n] = p /\ Takes(k[n - 1], p, file) => Takes(k[n], p, file)
        BY <1>4, <2>4
      <3>5. Takes(k[Len(Paths)], p, file)  BY <1>3, <3>3, <3>4, RunKeeps
      <3>6. QED  BY <2>1, <3>5
    <2>5. CASE p \notin Scoped  BY <2>5 DEF Takes
    <2>6. QED  BY <2>2, <2>3, <2>4, <2>5
  <1>8. QED  BY <1>1, <1>5, <1>6, <1>7

-----------------------------------------------------------------------------
(* A snapshot holds what a capture of any worktree that it names takes *)

LEMMA EntriesTell ==
    ASSUME NEW commit \in Commits, NEW v \in Worktrees, NEW w \in Worktrees,
           Identity(commit, v).overlay = Identity(commit, w).overlay,
           NEW p \in Scoped
    PROVE  /\ p \in Overlaid(commit, v) <=> p \in Overlaid(commit, w)
           /\ p \in Overlaid(commit, v) => OverlayEntry(p, v) = OverlayEntry(p, w)
  <1>1. PICK V : V = Overlaid(commit, v)  OBVIOUS
  <1>2. PICK W : W = Overlaid(commit, w)  OBVIOUS
  <1>3. PICK A : A = {<<q, OverlayEntry(q, v)>> : q \in V}  OBVIOUS
  <1>4. PICK B : B = {<<q, OverlayEntry(q, w)>> : q \in W}  OBVIOUS
  <1>5. A = B
    <2>1. A = Identity(commit, v).overlay  BY <1>1, <1>3 DEF Identity
    <2>2. B = Identity(commit, w).overlay  BY <1>2, <1>4 DEF Identity
    <2>3. QED  BY <2>1, <2>2
  <1>6. ASSUME NEW q \in V PROVE q \in W /\ OverlayEntry(q, v) = OverlayEntry(q, w)
    <2>1. <<q, OverlayEntry(q, v)>> \in B  BY <1>3, <1>5
    <2>2. PICK r \in W : <<q, OverlayEntry(q, v)>> = <<r, OverlayEntry(r, w)>>
      BY <1>4, <2>1
    <2>3. QED  BY <2>2
  <1>7. ASSUME NEW q \in W PROVE q \in V
    <2>1. <<q, OverlayEntry(q, w)>> \in A  BY <1>4, <1>5
    <2>2. PICK r \in V : <<q, OverlayEntry(q, w)>> = <<r, OverlayEntry(r, v)>>
      BY <1>3, <2>1
    <2>3. QED  BY <2>2
  <1>8. QED  BY <1>1, <1>2, <1>6, <1>7

(* What an entry says of its path: unmerged, or how a capture treats it.   *)
LEMMA EntryForms ==
    ASSUME NEW p \in Range(Paths), NEW w \in Worktrees
    PROVE  /\ p \in Checkout[w].unmerged <=> OverlayEntry(p, w).type = "conflict"
           /\ p \notin Checkout[w].unmerged =>
                /\ OverlayEntry(p, w).type = "link" <=> Checkout[w].files[p].type = "link"
                /\ OverlayEntry(p, w).type = "too large" <=>
                     /\ Checkout[w].files[p].type # "link"
                     /\ Checkout[w].files[p].size > MaxFileBytes
                /\ OverlayEntry(p, w).type \notin {"link", "too large"} =>
                     OverlayEntry(p, w) = Checkout[w].files[p]
  <1>1. PICK file \in Files : file = Checkout[w].files[p]  BY FilesAssumption
  <1>2. file.type \in {"absent", "regular", "link", "lfs", "gitlink", "directory"}
    BY FileForms DEF FileTypes
  <1>3. PICK unmerged \in BOOLEAN : unmerged <=> p \in Checkout[w].unmerged  BY Zenon
  <1>4. PICK big \in BOOLEAN : big <=> file.size > MaxFileBytes  BY Zenon
  <1>5. PICK entry : entry = OverlayEntry(p, w)  OBVIOUS
  <1>6. entry = IF unmerged THEN [Absent EXCEPT !.type = "conflict"]
                ELSE IF file.type = "link" THEN [Absent EXCEPT !.type = "link"]
                ELSE IF big THEN [Absent EXCEPT !.type = "too large"]
                ELSE file
    BY Zenon, <1>1, <1>3, <1>4, <1>5 DEF OverlayEntry
  <1>7. \A why : [Absent EXCEPT !.type = why].type = why  BY DEF Absent
  <1>8. CASE unmerged
    <2>1. entry.type = "conflict"  BY <1>6, <1>7, <1>8
    <2>2. QED  BY <1>3, <1>5, <1>8, <2>1
  <1>9. CASE ~unmerged /\ file.type = "link"
    <2>1. entry.type = "link"  BY <1>6, <1>7, <1>9
    <2>2. QED  BY <1>1, <1>3, <1>5, <1>9, <2>1
  <1>10. CASE ~unmerged /\ file.type # "link" /\ big
    <2>1. entry.type = "too large"  BY Zenon, <1>6, <1>7, <1>10
    <2>2. QED  BY Zenon, <1>1, <1>3, <1>4, <1>5, <1>10, <2>1
  <1>11. CASE ~unmerged /\ file.type # "link" /\ ~big
    <2>1. entry = file  BY <1>6, <1>11
    <2>2. entry.type \notin {"conflict", "link", "too large"}  BY Zenon, <1>2, <1>11, <2>1
    <2>3. QED  BY Zenon, <1>1, <1>3, <1>4, <1>5, <1>11, <2>1, <2>2
  <1>12. QED  BY Zenon, <1>8, <1>9, <1>10, <1>11

(* Two worktrees of one snapshot change the sources alike.                 *)
LEMMA ChangesAlike ==
    ASSUME NEW commit \in Commits, NEW v \in Worktrees, NEW w \in Worktrees,
           Identity(commit, v).overlay = Identity(commit, w).overlay,
           NEW p \in Range(Paths), NEW sources
    PROVE  /\ p \in Scoped => (p \in Checkout[v].unmerged <=> p \in Checkout[w].unmerged)
           /\ (IF p \in Changed(commit, v)
               THEN ChangedSources(sources, p, Checkout[v].files[p]) ELSE sources) =
              (IF p \in Changed(commit, w)
               THEN ChangedSources(sources, p, Checkout[w].files[p]) ELSE sources)
  <1>1. CASE p \notin Scoped
    <2>1. \A file : ChangedSources(sources, p, file) = sources  BY <1>1 DEF ChangedSources
    <2>2. QED  BY <1>1, <2>1
  <1>2. CASE p \in Scoped
    <2>1. PICK f \in Files : f = Checkout[v].files[p]  BY FilesAssumption
    <2>2. PICK g \in Files : g = Checkout[w].files[p]  BY FilesAssumption
    <2>3. PICK e : e = OverlayEntry(p, v)  OBVIOUS
    <2>4. PICK d : d = OverlayEntry(p, w)  OBVIOUS
    <2>5. PICK uv \in BOOLEAN : uv <=> p \in Checkout[v].unmerged  BY Zenon
    <2>6. PICK uw \in BOOLEAN : uw <=> p \in Checkout[w].unmerged  BY Zenon
    <2>7. PICK sv \in BOOLEAN : sv <=> p \in Status(commit, v)  BY Zenon
    <2>8. PICK sw \in BOOLEAN : sw <=> p \in Status(commit, w)  BY Zenon
    <2>9. /\ (uv \/ (sv /\ f.type # "directory")) <=> (uw \/ (sw /\ g.type # "directory"))
          /\ uv \/ (sv /\ f.type # "directory") => e = d
      <3>1. p \in Overlaid(commit, v) <=> (uv \/ (sv /\ f.type # "directory"))
        BY <1>2, <2>1, <2>5, <2>7 DEF Overlaid
      <3>2. p \in Overlaid(commit, w) <=> (uw \/ (sw /\ g.type # "directory"))
        BY <1>2, <2>2, <2>6, <2>8 DEF Overlaid
      <3>3. /\ p \in Overlaid(commit, v) <=> p \in Overlaid(commit, w)
            /\ p \in Overlaid(commit, v) => e = d
        BY <1>2, <2>3, <2>4, EntriesTell
      <3>4. QED  BY <3>1, <3>2, <3>3
    <2>10. /\ uv <=> e.type = "conflict"
           /\ ~uv => /\ e.type = "link" <=> f.type = "link"
                     /\ e.type = "too large" <=> f.type # "link" /\ f.size > MaxFileBytes
                     /\ e.type \notin {"link", "too large"} => e = f
      BY Zenon, <2>1, <2>3, <2>5, EntryForms
    <2>11. /\ uw <=> d.type = "conflict"
           /\ ~uw => /\ d.type = "link" <=> g.type = "link"
                     /\ d.type = "too large" <=> g.type # "link" /\ g.size > MaxFileBytes
                     /\ d.type \notin {"link", "too large"} => d = g
      BY Zenon, <2>2, <2>4, <2>6, EntryForms
    <2>12. uv <=> uw  BY Zenon, <2>9, <2>10, <2>11
    <2>13. /\ p \in Changed(commit, v) <=> sv /\ ~uv
           /\ p \in Changed(commit, w) <=> sw /\ ~uw
      BY <1>2, <2>5, <2>6, <2>7, <2>8 DEF Changed
    <2>14. CASE uv  BY <2>5, <2>6, <2>12, <2>13, <2>14
    <2>15. CASE ~uv /\ ~(sv /\ f.type # "directory")
      <3>1. ~(sw /\ g.type # "directory")  BY <2>9, <2>12, <2>15
      <3>2. ~sv \/ f.type = "directory"  BY <2>15
      <3>3. ~sw \/ g.type = "directory"  BY <3>1
      <3>4. \A file : file.type = "directory" => ChangedSources(sources, p, file) = sources
        BY DEF ChangedSources
      <3>5. QED  BY <2>1, <2>2, <2>5, <2>6, <2>12, <2>13, <2>15, <3>2, <3>3, <3>4
    <2>16. CASE ~uv /\ sv /\ f.type # "directory"
      <3>1. sw /\ g.type # "directory" /\ e = d /\ ~uw  BY <2>9, <2>12, <2>16
      <3>2. p \in Changed(commit, v) /\ p \in Changed(commit, w)  BY <2>13, <2>16, <3>1
      <3>3. ChangedSources(sources, p, f) = ChangedSources(sources, p, g)
        <4>1. CASE e.type = "link"
          <5>1. f.type = "link" /\ g.type = "link"  BY <2>10, <2>11, <2>16, <3>1, <4>1
          <5>2. QED  BY <5>1 DEF ChangedSources
        <4>2. CASE e.type = "too large"
          <5>1. f.size > MaxFileBytes /\ g.size > MaxFileBytes
            BY Zenon, <2>10, <2>11, <2>16, <3>1, <4>2
          <5>2. f.type \in {"regular", "lfs"} /\ g.type \in {"regular", "lfs"}
            <6>1. f.size # 0 /\ g.size # 0  BY <5>1, FileForms, CaptureLimitsAssumption
            <6>2. QED  BY <6>1, FileForms
          <5>3. LeavesOut(sources, p, f) /\ LeavesOut(sources, p, g)
            BY <5>1 DEF LeavesOut
          <5>4. QED  BY <5>2, <5>3 DEF ChangedSources
        <4>3. CASE e.type \notin {"link", "too large"}
          <5>1. f = g  BY Zenon, <2>10, <2>11, <2>16, <3>1, <4>3
          <5>2. QED  BY <5>1
        <4>4. QED  BY Zenon, <4>1, <4>2, <4>3
      <3>4. QED  BY <2>1, <2>2, <2>5, <2>6, <2>12, <3>2, <3>3
    <2>17. QED  BY <2>14, <2>15, <2>16
  <1>3. QED  BY <1>1, <1>2

LEMMA SameCapture ==
    ASSUME NEW commit \in Commits, NEW v \in Worktrees, NEW w \in Worktrees,
           Identity(commit, v).overlay = Identity(commit, w).overlay
    PROVE  Captured(commit, v).sources = Captured(commit, w).sources
  <1>1. Len(Paths) \in Nat /\ \A n \in 1..Len(Paths) : Paths[n] \in Range(Paths)
    BY FilesAssumption DEF Range
  <1>2. WithoutUnmerged(commit, v).sources = WithoutUnmerged(commit, w).sources
    <2>1. PICK k : /\ WithoutUnmerged(commit, v) = k[Len(Paths)] /\ k[0] = Committed(commit)
                   /\ \A n \in 1..Len(Paths) : k[n] = MergedStep(v, k[n - 1], Paths[n])
      BY MergedRuns
    <2>2. PICK j : /\ WithoutUnmerged(commit, w) = j[Len(Paths)] /\ j[0] = Committed(commit)
                   /\ \A n \in 1..Len(Paths) : j[n] = MergedStep(w, j[n - 1], Paths[n])
      BY MergedRuns
    <2>3. PICK M : M = {n \in Nat : n <= Len(Paths) =>
                          /\ k[n] \in Takings /\ j[n] \in Takings
                          /\ k[n].sources = j[n].sources}
      OBVIOUS
    <2>4. 0 \in M
      <3>1. Committed(commit) \in Takings  BY CommittedIsTaken
      <3>2. QED  BY <2>1, <2>2, <2>3, <3>1
    <2>5. ASSUME NEW n \in Nat, n \in M PROVE n + 1 \in M
      <3> SUFFICES ASSUME n + 1 <= Len(Paths)
                   PROVE  /\ k[n + 1] \in Takings /\ j[n + 1] \in Takings
                          /\ k[n + 1].sources = j[n + 1].sources
        BY <2>3
      <3>1. n + 1 \in 1..Len(Paths) /\ (n + 1) - 1 = n /\ n <= Len(Paths)  BY <1>1
      <3>2. PICK a \in Takings : a = k[n]  BY <2>3, <2>5, <3>1
      <3>3. PICK b \in Takings : b = j[n]  BY <2>3, <2>5, <3>1
      <3>4. a.sources = b.sources  BY <2>3, <2>5, <3>1, <3>2, <3>3
      <3>5. PICK p \in Range(Paths) : p = Paths[n + 1]  BY <1>1, <3>1
      <3>6. PICK c : c = k[n + 1]  OBVIOUS
      <3>7. PICK d : d = j[n + 1]  OBVIOUS
      <3>8. c = MergedStep(v, a, p)  BY <2>1, <3>1, <3>2, <3>5, <3>6
      <3>9. d = MergedStep(w, b, p)  BY <2>2, <3>1, <3>3, <3>5, <3>7
      <3>10. Stepped(a, c, p) /\ c.sources = MergedSources(a.sources, p, v)
        BY <3>8, MergedStepForms
      <3>11. Stepped(b, d, p) /\ d.sources = MergedSources(b.sources, p, w)
        BY <3>9, MergedStepForms
      <3>12. \A sources : MergedSources(sources, p, v) = MergedSources(sources, p, w)
        <4>1. p \in Scoped => (p \in Checkout[v].unmerged <=> p \in Checkout[w].unmerged)
          BY ChangesAlike
        <4>2. QED  BY <4>1 DEF MergedSources
      <3>13. c.sources = d.sources  BY <3>4, <3>10, <3>11, <3>12
      <3>14. c \in Takings /\ d \in Takings  BY <3>10, <3>11 DEF Stepped
      <3>15. QED  BY <3>6, <3>7, <3>13, <3>14
    <2>6. Nat \subseteq M  BY <2>4, <2>5, NumberInduction
    <2>7. QED  BY <1>1, <2>1, <2>2, <2>3, <2>6
  <1>3. PICK k : /\ Captured(commit, v) = k[Len(Paths)]
                 /\ k[0] = WithoutUnmerged(commit, v)
                 /\ \A n \in 1..Len(Paths) : k[n] = ChangedStep(commit, v, k[n - 1], Paths[n])
    BY CapturedRuns
  <1>4. PICK j : /\ Captured(commit, w) = j[Len(Paths)]
                 /\ j[0] = WithoutUnmerged(commit, w)
                 /\ \A n \in 1..Len(Paths) : j[n] = ChangedStep(commit, w, j[n - 1], Paths[n])
    BY CapturedRuns
  <1>5. PICK M : M = {n \in Nat : n <= Len(Paths) =>
                        /\ k[n] \in Takings /\ j[n] \in Takings
                        /\ k[n].sources = j[n].sources}
    OBVIOUS
  <1>6. 0 \in M
    <2>1. WithoutUnmerged(commit, v) \in Takings /\ WithoutUnmerged(commit, w) \in Takings
      BY MergedIsTaken
    <2>2. QED  BY <1>2, <1>3, <1>4, <1>5, <2>1
  <1>7. ASSUME NEW n \in Nat, n \in M PROVE n + 1 \in M
    <2> SUFFICES ASSUME n + 1 <= Len(Paths)
                 PROVE  /\ k[n + 1] \in Takings /\ j[n + 1] \in Takings
                        /\ k[n + 1].sources = j[n + 1].sources
      BY <1>5
    <2>1. n + 1 \in 1..Len(Paths) /\ (n + 1) - 1 = n /\ n <= Len(Paths)  BY <1>1
    <2>2. PICK a \in Takings : a = k[n]  BY <1>5, <1>7, <2>1
    <2>3. PICK b \in Takings : b = j[n]  BY <1>5, <1>7, <2>1
    <2>4. a.sources = b.sources  BY <1>5, <1>7, <2>1, <2>2, <2>3
    <2>5. PICK p \in Range(Paths) : p = Paths[n + 1]  BY <1>1, <2>1
    <2>6. PICK c : c = k[n + 1]  OBVIOUS
    <2>7. PICK d : d = j[n + 1]  OBVIOUS
    <2>8. c = ChangedStep(commit, v, a, p)  BY <1>3, <2>1, <2>2, <2>5, <2>6
    <2>9. d = ChangedStep(commit, w, b, p)  BY <1>4, <2>1, <2>3, <2>5, <2>7
    <2>10. PICK x : x = IF p \in Changed(commit, v)
                        THEN ChangedSources(a.sources, p, Checkout[v].files[p])
                        ELSE a.sources
      OBVIOUS
    <2>11. PICK y : y = IF p \in Changed(commit, w)
                        THEN ChangedSources(b.sources, p, Checkout[w].files[p])
                        ELSE b.sources
      OBVIOUS
    <2>12. Stepped(a, c, p) /\ c.sources = x  BY <2>8, <2>10, ChangedStepForms
    <2>13. Stepped(b, d, p) /\ d.sources = y  BY <2>9, <2>11, ChangedStepForms
    <2>14. x = y
      <3>1. PICK sources : sources = a.sources  OBVIOUS
      <3>2. (IF p \in Changed(commit, v)
             THEN ChangedSources(sources, p, Checkout[v].files[p]) ELSE sources) =
            (IF p \in Changed(commit, w)
             THEN ChangedSources(sources, p, Checkout[w].files[p]) ELSE sources)
        BY ChangesAlike, Zenon
      <3>3. QED  BY <2>4, <2>10, <2>11, <3>1, <3>2
    <2>15. c.sources = d.sources  BY <2>12, <2>13, <2>14
    <2>16. c \in Takings /\ d \in Takings  BY <2>12, <2>13 DEF Stepped
    <2>17. QED  BY <2>6, <2>7, <2>15, <2>16
  <1>8. Nat \subseteq M  BY <1>6, <1>7, NumberInduction
  <1>9. QED  BY <1>1, <1>3, <1>4, <1>5, <1>8

LEMMA TreesHold ==
    ASSUME NEW t \in Trees
    PROVE  TextOf[t] \subseteq Claims /\ CodeOf[t] \in Seq(Codes)
  <1>1. PICK commit \in Commits, w \in Worktrees : t[1] = commit /\ t[2] = w
    BY TreesAreNamed
  <1>2. PICK got \in Takings : got = Captured(t[1], t[2])
    <2>1. Captured(commit, w) \in Takings  BY CapturedIsTaken
    <2>2. QED  BY <1>1, <2>1
  <1>3. PICK sources : sources = got.sources  OBVIOUS
  <1>4. SourcesOf[t] = sources /\ sources \in [Range(Paths) -> Files]
    BY <1>2, <1>3 DEF SourcesOf, Takings
  <1>5. \A p \in Range(Paths) :
          sources[p].says \subseteq Claims /\ sources[p].code \in Seq(Codes)
    BY <1>4, FileForms
  <1>6. TextOf[t] \subseteq Claims
    <2>1. TextOf[t] = UNION {sources[p].says : p \in Range(Paths)}  BY <1>4 DEF TextOf
    <2>2. QED  BY <1>5, <2>1
  <1>7. CodeOf[t] \in Seq(Codes)
    <2>1. PICK s : s = [i \in DOMAIN Paths |-> sources[Paths[i]].code]  OBVIOUS
    <2>2. CodeOf[t] = Joined(s)  BY <1>4, <2>1 DEF CodeOf
    <2>3. DOMAIN Paths = 1..Len(Paths) /\ Len(Paths) \in Nat
          /\ \A i \in 1..Len(Paths) : Paths[i] \in Range(Paths)
      BY FilesAssumption DEF Range
    <2>4. s \in Seq(Seq(Codes))
      <3>1. \A i \in 1..Len(Paths) : s[i] \in Seq(Codes)  BY <1>5, <2>1, <2>3
      <3>2. s = [i \in 1..Len(Paths) |-> s[i]]  BY <2>1, <2>3
      <3>3. QED  BY <2>3, <3>1, <3>2, ListOf
    <2>5. Joined(s) \in Seq(Codes)  BY <2>4, JoinedHolds
    <2>6. QED  BY <2>2, <2>5
  <1>8. QED  BY <1>6, <1>7

LEMMA GapsAreKnown ==
    ASSUME NEW w \in Worktrees
    PROVE  GapsOf[w] \subseteq Gaps
  <1>1. PICK commit \in Commits : commit = Checkout[w].commit  BY CheckoutAssumption
  <1>2. PICK got \in Takings : got = Captured(commit, w)  BY CapturedIsTaken
  <1>3. GapsOf[w] = {gap[2] : gap \in got.gaps}  BY <1>1, <1>2 DEF GapsOf, GapsIn
  <1>4. got.gaps \subseteq Range(Paths) \X Gaps  BY DEF Takings
  <1>5. QED  BY <1>3, <1>4

(* The claims of a worktree's files are in its snapshot, but for the files *)
(* its gaps name.                                                          *)
LEMMA DiskIsHeld ==
    ASSUME NEW w \in Worktrees, NEW p \in Scoped \ Skipped[w],
           NEW c \in Checkout[w].files[p].says,
           NEW t, t = SnapshotOf(Checkout[w].commit, w)
    PROVE  c \in TextOf[t]
  <1>1. PICK commit \in Commits : commit = Checkout[w].commit  BY CheckoutAssumption
  <1>2. t \in Trees /\ t \in Commits \X Worktrees /\ Identity(t[1], t[2]) = Identity(commit, w)
    <2>1. t = SnapshotOf(commit, w)  BY <1>1
    <2>2. QED  BY <2>1, SnapshotIsNamed
  <1>3. PICK v \in Worktrees : v = t[2]  BY <1>2
  <1>4. t[1] = commit
    <2>1. Identity(t[1], t[2]).commit = t[1] /\ Identity(commit, w).commit = commit
      BY DEF Identity
    <2>2. QED  BY <1>2, <2>1
  <1>5. Identity(commit, v) = Identity(commit, w)  BY <1>2, <1>3, <1>4
  <1>6. Captured(commit, v).sources = Captured(commit, w).sources  BY <1>5, SameCapture
  <1>7. PICK got : got = Captured(commit, w)  OBVIOUS
  <1>8. p \in Range(Paths)  BY PathsAssumption
  <1>9. PICK file : file = Checkout[w].files[p]  OBVIOUS
  <1>10. got \in Takings /\ Takes(got, p, file)  BY <1>7, <1>8, <1>9, CapturedIsTaken
  <1>11. ~Marked(got, p)
    <2>1. Skipped[w] = {gap[1] : gap \in got.gaps}  BY <1>1, <1>7 DEF Skipped, GapsIn
    <2>2. ASSUME NEW kind \in Gaps, <<p, kind>> \in got.gaps PROVE p \in Skipped[w]
      <3>1. PICK gap \in got.gaps : gap = <<p, kind>>  BY <2>2
      <3>2. gap[1] = p  BY <3>1
      <3>3. QED  BY <2>1, <3>2
    <2>3. QED  BY <2>2 DEF Marked
  <1>12. file.says # {}  BY <1>9
  <1>13. got.sources[p] = file  BY <1>10, <1>11, <1>12 DEF Takes
  <1>14. SourcesOf[t] = got.sources  BY <1>2, <1>3, <1>4, <1>6, <1>7 DEF SourcesOf
  <1>15. TextOf[t] = UNION {got.sources[q].says : q \in Range(Paths)}
    BY <1>2, <1>14 DEF TextOf
  <1>16. QED  BY <1>8, <1>9, <1>13, <1>15

-----------------------------------------------------------------------------
(* A batch *)

LEMMA PausesAreNumbers ==
    \A n \in 0..RetryMax : Doubling[n] \in Nat
  <1> DEFINE k == CHOOSE d : d = [n \in 0..RetryMax |-> IF n = 0 THEN Backoff ELSE 2 * d[n - 1]]
  <1>1. RetryMax \in Nat /\ Backoff \in Nat  BY RetryAssumption
  <1>2. PICK step : step = [p \in (1..RetryMax) \X Nat |-> 2 * p[2]]  OBVIOUS
  <1>3. step \in [(1..RetryMax) \X Nat -> Nat]  BY <1>2
  <1>4. PICK f \in [0..RetryMax -> Nat] : IsRun(f, RetryMax, Backoff, step)
    BY <1>1, <1>3, Recursion
  <1>5. f = [n \in 0..RetryMax |-> IF n = 0 THEN Backoff ELSE 2 * f[n - 1]]
    <2>1. ASSUME NEW n \in 0..RetryMax
          PROVE  f[n] = IF n = 0 THEN Backoff ELSE 2 * f[n - 1]
      <3>1. CASE n = 0  BY <1>4, <3>1 DEF IsRun
      <3>2. CASE n # 0
        <4>1. n \in 1..RetryMax /\ n - 1 \in 0..RetryMax  BY <1>1, <3>2
        <4>2. PICK p : p = <<n, f[n - 1]>>  OBVIOUS
        <4>3. p \in (1..RetryMax) \X Nat /\ p[2] = f[n - 1]  BY <4>1, <4>2
        <4>4. f[n] = step[p]  BY <1>4, <4>1, <4>2 DEF IsRun
        <4>5. step[p] = 2 * p[2]  BY <1>2, <4>3
        <4>6. QED  BY <3>2, <4>3, <4>4, <4>5
      <3>3. QED  BY <3>1, <3>2
    <2>2. f = [n \in 0..RetryMax |-> f[n]]  OBVIOUS
    <2>3. QED  BY <2>1, <2>2
  <1>6. k = [n \in 0..RetryMax |-> IF n = 0 THEN Backoff ELSE 2 * k[n - 1]]
    BY <1>5, Zenon
  <1>7. Doubling = k  BY Zenon DEF Doubling
  <1> HIDE DEF k
  <1>8. PICK M : M = {n \in Nat : n <= RetryMax => k[n] \in Nat}  OBVIOUS
  <1>9. 0 \in M
    <2>1. 0 \in 0..RetryMax  BY <1>1
    <2>2. k[0] = Backoff  BY <1>6, <2>1
    <2>3. QED  BY <1>1, <1>8, <2>2
  <1>10. ASSUME NEW n \in Nat, n \in M PROVE n + 1 \in M
    <2> SUFFICES ASSUME n + 1 <= RetryMax PROVE k[n + 1] \in Nat  BY <1>8
    <2>1. n + 1 \in 0..RetryMax /\ n + 1 # 0 /\ (n + 1) - 1 = n /\ n <= RetryMax  BY <1>1
    <2>2. k[n + 1] = 2 * k[n]  BY <1>6, <2>1
    <2>3. k[n] \in Nat  BY <1>8, <1>10, <2>1
    <2>4. QED  BY <2>2, <2>3
  <1>11. Nat \subseteq M  BY <1>9, <1>10, NumberInduction
  <1>12. QED  BY <1>1, <1>7, <1>8, <1>11

LEMMA DelaysAreNumbers ==
    ASSUME NEW attempt \in 1..RetryMax, NEW pause \in {0} \cup RetryAfters
    PROVE  RetryDelay(attempt, pause) \in Nat
  <1>1. PICK d : d = Doubling[attempt - 1]  OBVIOUS
  <1>2. d \in Nat
    <2>1. attempt - 1 \in 0..RetryMax  BY RetryAssumption
    <2>2. QED  BY <1>1, <2>1, PausesAreNumbers
  <1>3. MaxBackoff \in Nat /\ pause \in Nat  BY RetryAssumption
  <1>4. PICK asked \in Nat : asked = IF pause = 0 THEN d ELSE pause  BY <1>2, <1>3
  <1>5. RetryDelay(attempt, pause) = IF asked < MaxBackoff THEN asked ELSE MaxBackoff
    BY <1>1, <1>4 DEF RetryDelay
  <1>6. QED  BY <1>3, <1>4, <1>5

Waiting(n) ==
  [at : {"idle", "resolving", "calling", "paused"}, job : 0..n, retries : 0..RetryMax, wake : Nat, due : Nat]

(* Where a worker stands in a batch: its deadline is within the batch's    *)
(* bound, and it waits for nothing beyond its deadline but for the         *)
(* resolution of a name, which it began before it.                         *)
WorkerInv(state) ==
  state.at # "idle" =>
    /\ state.job \in 1..taken
    /\ state.due < Budget + Timeout
    /\ state.at = "calling" => clock <= state.due
    /\ state.at = "paused" => clock <= state.wake /\ state.wake < state.due
    /\ state.at = "resolving" => clock <= state.wake /\ state.wake < state.due + Resolving

InTime == clock < Budget + Timeout + Resolving

Served(i) == outcome[i] # Unknown \/ \E w \in Workers : worker[w].at # "idle" /\ worker[w].job = i

ReconcileInv ==
  /\ ReconcileTypeOK
  /\ InTime
  /\ \A w \in Workers : WorkerInv(worker[w])
  /\ \A i \in 1..taken : Served(i)

LEMMA BoundsAreNumbers ==
    /\ Budget \in Nat /\ Timeout \in Nat \ {0} /\ RetryMax \in Nat /\ Resolving \in Nat
    /\ Idle.at = "idle" /\ \A n \in Nat : Idle \in Waiting(n)
  <1>1. RetryMax \in Nat /\ Resolving \in Nat  BY RetryAssumption
  <1>2. ASSUME NEW n \in Nat PROVE Idle \in Waiting(n)
    <2>1. 0 \in 0..n /\ 0 \in 0..RetryMax  BY <1>1
    <2>2. QED  BY <2>1 DEF Idle, Waiting
  <1>3. QED  BY <1>1, <1>2, BudgetAssumption DEF Idle

LEMMA BatchBegins ==
    ASSUME NEW candidates \in Seq(Candidates), Begin(candidates),
           cache' = cache, cache \in [Candidates -> Verdicts \cup {Unknown}]
    PROVE  ReconcileInv'
  <1>1. Len(candidates) \in Nat  OBVIOUS
  <1>2. /\ jobs' = candidates /\ taken' = 0
        /\ outcome' = [i \in 1..Len(candidates) |-> Unknown]
        /\ worker' = [w \in Workers |-> Idle] /\ clock' = 0
    BY DEF Begin
  <1>3. \A w \in Workers : worker'[w] = Idle  BY <1>2
  <1>4. ReconcileTypeOK'
    <2>1. taken' \in 0..Len(jobs') /\ clock' \in Nat /\ jobs' \in Seq(Candidates)
      BY <1>1, <1>2
    <2>2. outcome' \in [1..Len(jobs') -> Verdicts \cup {Failed, Unknown}]  BY <1>2
    <2>3. worker' \in [Workers -> Waiting(Len(jobs'))]
      <3>1. PICK n \in Nat : n = Len(jobs')  BY <1>1, <1>2
      <3>2. Idle \in Waiting(n)  BY BoundsAreNumbers
      <3>3. QED  BY <1>2, <3>1, <3>2
    <2>4. QED  BY <2>1, <2>2, <2>3 DEF ReconcileTypeOK, Waiting
  <1>5. InTime'  BY <1>2, BoundsAreNumbers DEF InTime
  <1>6. \A w \in Workers : WorkerInv(worker[w])'
    BY <1>3, BoundsAreNumbers DEF WorkerInv
  <1>7. 1..taken' = {}  BY <1>2
  <1>8. QED  BY <1>4, <1>5, <1>6, <1>7 DEF ReconcileInv

(* A step of one worker that leaves the clock alone.                       *)
LEMMA WorkerSteps ==
    ASSUME ReconcileInv, NEW w \in Workers, NEW state \in Waiting(Len(jobs)),
           worker' = [worker EXCEPT ![w] = state],
           jobs' = jobs, clock' = clock, taken' \in {taken, taken + 1}, taken' <= Len(jobs),
           outcome' \in [1..Len(jobs) -> Verdicts \cup {Failed, Unknown}],
           cache' \in [Candidates -> Verdicts \cup {Unknown}],
           WorkerInv(state)',
           \A i \in 1..taken' :
             \/ outcome'[i] # Unknown
             \/ state.at # "idle" /\ state.job = i
             \/ i \in 1..taken /\ outcome'[i] = outcome[i]
                  /\ ~(worker[w].at # "idle" /\ worker[w].job = i)
    PROVE  ReconcileInv'
  <1>1. /\ jobs \in Seq(Candidates) /\ taken \in 0..Len(jobs) /\ clock \in Nat
        /\ worker \in [Workers -> Waiting(Len(jobs))] /\ Len(jobs) \in Nat
    BY DEF ReconcileInv, ReconcileTypeOK, Waiting
  <1>2. worker'[w] = state /\ \A u \in Workers \ {w} : worker'[u] = worker[u]  BY <1>1
  <1>3. ReconcileTypeOK'
    <2>1. worker' \in [Workers -> Waiting(Len(jobs'))]  BY <1>1
    <2>2. taken' \in 0..Len(jobs')  BY <1>1
    <2>3. QED  BY <1>1, <2>1, <2>2 DEF ReconcileTypeOK, Waiting
  <1>4. InTime'
    <2>1. InTime  BY DEF ReconcileInv
    <2>2. QED  BY <2>1 DEF InTime
  <1>5. ASSUME NEW u \in Workers PROVE WorkerInv(worker[u])'
    <2>1. CASE u = w  BY <1>2, <2>1 DEF WorkerInv
    <2>2. CASE u # w
      <3>1. WorkerInv(worker[u]) /\ worker'[u] = worker[u]  BY <1>2, <2>2 DEF ReconcileInv
      <3>2. QED  BY <1>1, <3>1 DEF WorkerInv
    <2>3. QED  BY <2>1, <2>2
  <1>6. ASSUME NEW i \in 1..taken' PROVE Served(i)'
    <2>1. CASE outcome'[i] # Unknown  BY <2>1 DEF Served
    <2>2. CASE state.at # "idle" /\ state.job = i  BY <1>2, <2>2 DEF Served
    <2>3. CASE i \in 1..taken /\ outcome'[i] = outcome[i] /\ outcome[i] = Unknown
                 /\ ~(worker[w].at # "idle" /\ worker[w].job = i)
      <3>1. Served(i)  BY <2>3 DEF ReconcileInv
      <3>2. PICK u \in Workers : worker[u].at # "idle" /\ worker[u].job = i
        BY <2>3, <3>1 DEF Served
      <3>3. u # w /\ worker'[u] = worker[u]  BY <1>2, <2>3, <3>2
      <3>4. QED  BY <3>2, <3>3 DEF Served
    <2>4. QED  BY <2>1, <2>2, <2>3
  <1>7. QED  BY <1>3, <1>4, <1>5, <1>6 DEF ReconcileInv

LEMMA BatchSteps ==
    ASSUME ReconcileInv, BatchStep
    PROVE  ReconcileInv' /\ jobs' = jobs
  <1>1. /\ jobs \in Seq(Candidates) /\ taken \in 0..Len(jobs) /\ clock \in Nat
        /\ worker \in [Workers -> Waiting(Len(jobs))] /\ Len(jobs) \in Nat
        /\ outcome \in [1..Len(jobs) -> Verdicts \cup {Failed, Unknown}]
        /\ cache \in [Candidates -> Verdicts \cup {Unknown}]
        /\ InTime
        /\ \A w \in Workers : WorkerInv(worker[w])
        /\ \A i \in 1..taken : Served(i)
    BY DEF ReconcileInv, ReconcileTypeOK, Waiting
  <1>2. /\ Budget \in Nat /\ Timeout \in Nat \ {0} /\ RetryMax \in Nat /\ Resolving \in Nat
        /\ Idle.at = "idle" /\ \A n \in Nat : Idle \in Waiting(n)
    BY BoundsAreNumbers
  <1>3. Failed # Unknown /\ \A v \in Verdicts : v # Unknown  BY DEF Failed, Unknown, Verdicts
  <1>4. ASSUME Tick PROVE ReconcileInv' /\ jobs' = jobs
    <2>1. /\ ~Finished /\ clock' = clock + 1
          /\ jobs' = jobs /\ taken' = taken /\ outcome' = outcome /\ worker' = worker
          /\ cache' = cache
          /\ \A w \in Workers : Waits(w)
      BY <1>4 DEF Tick
    <2>2. ReconcileTypeOK'  BY <1>1, <2>1 DEF ReconcileTypeOK, Waiting
    <2>3. ASSUME NEW w \in Workers, worker[w].at # "idle"
          PROVE  WorkerInv(worker[w])' /\ clock + 1 < Budget + Timeout + Resolving
      <3>1. /\ worker[w].at \in {"resolving", "calling", "paused"}
            /\ worker[w].wake \in Nat /\ worker[w].due \in Nat
        BY <1>1, <2>3 DEF Waiting
      <3>2. WorkerInv(worker[w])  BY <1>1
      <3>3. worker[w].job \in 1..taken /\ worker[w].due < Budget + Timeout
        BY <2>3, <3>2 DEF WorkerInv
      <3>4. CASE worker[w].at = "calling"
        <4>1. clock < worker[w].due  BY <2>1, <3>4 DEF Waits
        <4>2. QED  BY <1>1, <1>2, <2>1, <3>1, <3>3, <3>4, <4>1 DEF WorkerInv
      <3>5. CASE worker[w].at = "paused"
        <4>1. clock < worker[w].wake  BY <2>1, <3>5 DEF Waits
        <4>2. worker[w].wake < worker[w].due  BY <2>3, <3>2, <3>5 DEF WorkerInv
        <4>3. QED  BY <1>1, <1>2, <2>1, <3>1, <3>3, <3>5, <4>1, <4>2 DEF WorkerInv
      <3>6. CASE worker[w].at = "resolving"
        <4>1. clock < worker[w].wake  BY <2>1, <3>6 DEF Waits
        <4>2. worker[w].wake < worker[w].due + Resolving  BY <2>3, <3>2, <3>6 DEF WorkerInv
        <4>3. QED  BY <1>1, <1>2, <2>1, <3>1, <3>3, <3>6, <4>1, <4>2 DEF WorkerInv
      <3>7. QED  BY <3>1, <3>4, <3>5, <3>6
    <2>4. \A w \in Workers : WorkerInv(worker[w])'
      <3>1. ASSUME NEW w \in Workers PROVE WorkerInv(worker[w])'
        <4>1. CASE worker[w].at = "idle"  BY <2>1, <4>1 DEF WorkerInv
        <4>2. QED  BY <2>3, <4>1
      <3>2. QED  BY <3>1
    <2>5. InTime'
      <3>1. PICK w \in Workers : worker[w].at # "idle"
        <4>1. ASSUME \A u \in Workers : worker[u].at = "idle" PROVE FALSE
          <5>1. PICK u \in Workers : TRUE  BY WorkersAssumption
          <5>2. taken = Len(jobs)  BY <2>1, <4>1 DEF Waits
          <5>3. QED  BY <2>1, <4>1, <5>2 DEF Finished
        <4>2. QED  BY <4>1
      <3>2. clock + 1 < Budget + Timeout + Resolving  BY <2>3, <3>1
      <3>3. QED  BY <2>1, <3>2 DEF InTime
    <2>6. \A i \in 1..taken' : Served(i)'
      <3>1. ASSUME NEW i \in 1..taken PROVE Served(i)'
        <4>1. Served(i)  BY <1>1
        <4>2. QED  BY <2>1, <4>1 DEF Served
      <3>2. QED  BY <2>1, <3>1
    <2>7. QED  BY <2>1, <2>2, <2>4, <2>5, <2>6 DEF ReconcileInv
  <1>5. ASSUME NEW w \in Workers, CanTake(w),
               taken' = taken + 1, NEW result \in Verdicts \cup {Failed},
               outcome' = [outcome EXCEPT ![taken + 1] = result],
               jobs' = jobs, worker' = worker, clock' = clock, cache' = cache
        PROVE  ReconcileInv' /\ jobs' = jobs
    <2>1. worker[w].at = "idle" /\ taken < Len(jobs)  BY <1>5 DEF CanTake
    <2>2. PICK state \in Waiting(Len(jobs)) : state = worker[w]  BY <1>1
    <2>3. worker' = [worker EXCEPT ![w] = state]  BY <1>1, <1>5, <2>2
    <2>4. WorkerInv(state)'  BY <2>1, <2>2 DEF WorkerInv
    <2>5. outcome' \in [1..Len(jobs) -> Verdicts \cup {Failed, Unknown}]  BY <1>1, <1>5
    <2>6. ASSUME NEW i \in 1..taken'
          PROVE  \/ outcome'[i] # Unknown
                 \/ i \in 1..taken /\ outcome'[i] = outcome[i]
                      /\ ~(worker[w].at # "idle" /\ worker[w].job = i)
      <3>1. taken + 1 \in 1..Len(jobs)  BY <1>1, <2>1
      <3>2. CASE i = taken + 1
        <4>1. outcome'[i] = result  BY <1>1, <1>5, <3>1, <3>2
        <4>2. QED  BY <1>3, <1>5, <4>1
      <3>3. CASE i # taken + 1
        <4>1. i \in 1..taken /\ i \in 1..Len(jobs)  BY <1>1, <1>5, <2>1, <3>3
        <4>2. outcome'[i] = outcome[i]  BY <1>1, <1>5, <3>3, <4>1
        <4>3. QED  BY <2>1, <4>1, <4>2
      <3>4. QED  BY <3>2, <3>3
    <2>7. taken' \in {taken, taken + 1} /\ taken' <= Len(jobs)  BY <1>1, <1>5, <2>1
    <2>8. ReconcileInv'  BY <1>1, <1>5, <2>3, <2>4, <2>5, <2>6, <2>7, WorkerSteps
    <2>9. QED  BY <1>5, <2>8
  <1>6. ASSUME NEW w \in Workers, SkipJob(w) PROVE ReconcileInv' /\ jobs' = jobs
    <2>1. PICK result \in Verdicts \cup {Failed} : result = Failed  OBVIOUS
    <2>2. /\ CanTake(w) /\ taken' = taken + 1
          /\ outcome' = [outcome EXCEPT ![taken + 1] = result]
          /\ jobs' = jobs /\ worker' = worker /\ clock' = clock /\ cache' = cache
      BY <1>6, <2>1 DEF SkipJob
    <2>3. QED  BY <1>5, <2>2
  <1>7. ASSUME NEW w \in Workers, Recall(w) PROVE ReconcileInv' /\ jobs' = jobs
    <2>1. /\ CanTake(w) /\ taken' = taken + 1 /\ cache[jobs[taken + 1]] # Unknown
          /\ outcome' = [outcome EXCEPT ![taken + 1] = cache[jobs[taken + 1]]]
          /\ jobs' = jobs /\ worker' = worker /\ clock' = clock /\ cache' = cache
      BY <1>7 DEF Recall
    <2>2. taken + 1 \in 1..Len(jobs)  BY <1>1, <2>1 DEF CanTake
    <2>3. jobs[taken + 1] \in Candidates  BY <1>1, <2>2
    <2>4. PICK result \in Verdicts \cup {Failed} : result = cache[jobs[taken + 1]]
      BY <1>1, <2>1, <2>3
    <2>5. outcome' = [outcome EXCEPT ![taken + 1] = result]  BY <2>1, <2>4
    <2>6. QED  BY <1>5, <2>1, <2>5
  <1>8. ASSUME NEW w \in Workers, Call(w) PROVE ReconcileInv' /\ jobs' = jobs
    <2>1. PICK state : state = [at |-> "resolving", job |-> taken + 1, retries |-> 0,
                                wake |-> clock + Resolving, due |-> clock + Timeout]
      OBVIOUS
    <2>2. /\ worker[w].at = "idle" /\ taken < Len(jobs) /\ clock < Budget
          /\ taken' = taken + 1 /\ worker' = [worker EXCEPT ![w] = state]
          /\ jobs' = jobs /\ outcome' = outcome /\ clock' = clock /\ cache' = cache
      BY <1>8, <2>1 DEF Call, CanTake, InBudget, Deadline
    <2>3. state \in Waiting(Len(jobs))
      <3>1. taken + 1 \in 0..Len(jobs) /\ 0 \in 0..RetryMax /\ clock + Timeout \in Nat
            /\ clock + Resolving \in Nat
        BY <1>1, <1>2, <2>2
      <3>2. QED  BY <1>1, <2>1, <3>1 DEF Waiting
    <2>4. WorkerInv(state)'
      <3>1. /\ state.at = "resolving" /\ state.job = taken + 1
            /\ state.due = clock + Timeout /\ state.wake = clock + Resolving
        BY <2>1
      <3>2. taken + 1 \in 1..taken'  BY <1>1, <2>2
      <3>3. /\ clock + Timeout < Budget + Timeout /\ clock <= clock + Resolving
            /\ clock + Resolving < clock + Timeout + Resolving
        BY <1>1, <1>2, <2>2
      <3>4. QED  BY <2>2, <3>1, <3>2, <3>3 DEF WorkerInv
    <2>5. ASSUME NEW i \in 1..taken'
          PROVE  \/ state.at # "idle" /\ state.job = i
                 \/ i \in 1..taken /\ outcome'[i] = outcome[i]
                      /\ ~(worker[w].at # "idle" /\ worker[w].job = i)
      <3>1. i = taken + 1 \/ i \in 1..taken  BY <1>1, <2>2
      <3>2. QED  BY <2>1, <2>2, <3>1
    <2>6. taken' \in {taken, taken + 1} /\ taken' <= Len(jobs)  BY <1>1, <2>2
    <2>7. ReconcileInv'  BY <1>1, <2>2, <2>3, <2>4, <2>5, <2>6, WorkerSteps
    <2>8. QED  BY <2>2, <2>7
  <1>9. ASSUME NEW w \in Workers, worker[w].at # "idle",
               NEW result \in Verdicts \cup {Failed}, Settle(w, result),
               cache' \in [Candidates -> Verdicts \cup {Unknown}]
        PROVE  ReconcileInv' /\ jobs' = jobs
    <2>1. PICK job : job = worker[w].job  OBVIOUS
    <2>2. /\ outcome' = [outcome EXCEPT ![job] = result]
          /\ worker' = [worker EXCEPT ![w] = Idle]
          /\ jobs' = jobs /\ taken' = taken /\ clock' = clock
      BY <1>9, <2>1 DEF Settle
    <2>3. job \in 1..taken /\ job \in 1..Len(jobs)
      <3>1. WorkerInv(worker[w])  BY <1>1
      <3>2. job \in 1..taken  BY <1>9, <2>1, <3>1 DEF WorkerInv
      <3>3. QED  BY <1>1, <3>2
    <2>4. PICK state \in Waiting(Len(jobs)) : state = Idle  BY <1>1, <1>2
    <2>5. worker' = [worker EXCEPT ![w] = state]  BY <2>2, <2>4
    <2>6. WorkerInv(state)'  BY <1>2, <2>4 DEF WorkerInv
    <2>7. outcome' \in [1..Len(jobs) -> Verdicts \cup {Failed, Unknown}]
      BY <1>1, <1>9, <2>2
    <2>8. ASSUME NEW i \in 1..taken'
          PROVE  \/ outcome'[i] # Unknown
                 \/ i \in 1..taken /\ outcome'[i] = outcome[i]
                      /\ ~(worker[w].at # "idle" /\ worker[w].job = i)
      <3>1. i \in 1..taken /\ i \in 1..Len(jobs)  BY <1>1, <2>2
      <3>2. CASE i = job
        <4>1. outcome'[i] = result  BY <1>1, <2>2, <2>3, <3>2
        <4>2. QED  BY <1>3, <1>9, <4>1
      <3>3. CASE i # job
        <4>1. outcome'[i] = outcome[i]  BY <1>1, <2>2, <3>1, <3>3
        <4>2. QED  BY <2>1, <3>1, <3>3, <4>1
      <3>4. QED  BY <3>2, <3>3
    <2>9. taken' \in {taken, taken + 1} /\ taken' <= Len(jobs)  BY <1>1, <2>2
    <2>10. ReconcileInv'  BY <1>9, <2>2, <2>5, <2>6, <2>7, <2>8, <2>9, WorkerSteps
    <2>11. QED  BY <2>2, <2>10
  <1>10. ASSUME NEW w \in Workers, Answer(w) PROVE ReconcileInv' /\ jobs' = jobs
    <2>1. PICK result \in Verdicts :
            /\ Settle(w, result)
            /\ cache' = [cache EXCEPT ![jobs[worker[w].job]] = result]
      BY <1>10 DEF Answer
    <2>2. worker[w].at # "idle"  BY <1>10 DEF Answer
    <2>3. cache' \in [Candidates -> Verdicts \cup {Unknown}]
      <3>1. PICK job : job = jobs[worker[w].job]  OBVIOUS
      <3>2. cache' = [cache EXCEPT ![job] = result]  BY <2>1, <3>1
      <3>3. QED  BY <1>1, <3>2
    <2>4. QED  BY <1>9, <2>1, <2>2, <2>3
  <1>11. ASSUME NEW w \in Workers, Refused(w) PROVE ReconcileInv' /\ jobs' = jobs
    <2>1. PICK result \in Verdicts \cup {Failed} : result = Failed  OBVIOUS
    <2>2. worker[w].at # "idle" /\ Settle(w, result) /\ cache' = cache
      BY <1>11, <2>1 DEF Refused
    <2>3. QED  BY <1>1, <1>9, <2>2
  <1>12. ASSUME NEW w \in Workers, worker[w].at # "idle",
                NEW state \in Waiting(Len(jobs)),
                worker' = [worker EXCEPT ![w] = state],
                state.at # "idle", state.job = worker[w].job, state.due = worker[w].due,
                state.at = "calling" => clock <= state.due,
                state.at = "paused" => clock <= state.wake /\ state.wake < state.due,
                state.at = "resolving" =>
                  clock <= state.wake /\ state.wake < state.due + Resolving,
                jobs' = jobs, taken' = taken, outcome' = outcome, clock' = clock,
                cache' = cache
         PROVE  ReconcileInv' /\ jobs' = jobs
    <2>1. WorkerInv(worker[w])  BY <1>1
    <2>2. WorkerInv(state)'  BY <1>12, <2>1 DEF WorkerInv
    <2>3. ASSUME NEW i \in 1..taken'
          PROVE  \/ state.at # "idle" /\ state.job = i
                 \/ i \in 1..taken /\ outcome'[i] = outcome[i]
                      /\ ~(worker[w].at # "idle" /\ worker[w].job = i)
      BY <1>12
    <2>4. taken' \in {taken, taken + 1} /\ taken' <= Len(jobs)  BY <1>1, <1>12
    <2>5. ReconcileInv'  BY <1>1, <1>12, <2>2, <2>3, <2>4, WorkerSteps
    <2>6. QED  BY <1>12, <2>5
  <1>13. ASSUME NEW w \in Workers, Retry(w) PROVE ReconcileInv' /\ jobs' = jobs
    <2>1. worker[w].at = "calling" /\ worker[w].retries < RetryMax  BY <1>13 DEF Retry
    <2>2. /\ jobs' = jobs /\ taken' = taken /\ outcome' = outcome /\ clock' = clock
          /\ cache' = cache
      BY <1>13 DEF Retry
    <2>3. PICK pause \in {0} \cup RetryAfters :
            /\ Fits(w, RetryDelay(worker[w].retries + 1, pause))
            /\ worker' = [worker EXCEPT ![w].at = "paused", ![w].retries = @ + 1,
                            ![w].wake = clock + RetryDelay(worker[w].retries + 1, pause)]
      BY <1>13 DEF Retry
    <2>4. PICK s : s = worker[w]  OBVIOUS
    <2>5. s \in Waiting(Len(jobs)) /\ s.retries \in 0..RetryMax /\ s.due \in Nat
      BY <1>1, <2>4 DEF Waiting
    <2>6. PICK delay : delay = RetryDelay(s.retries + 1, pause)  OBVIOUS
    <2>7. delay \in Nat
      <3>1. PICK attempt \in 1..RetryMax : attempt = s.retries + 1
        BY <1>2, <2>1, <2>4, <2>5
      <3>2. delay = RetryDelay(attempt, pause)  BY <2>6, <3>1
      <3>3. QED  BY <3>2, DelaysAreNumbers
    <2>8. delay < s.due - clock  BY <2>3, <2>4, <2>6 DEF Fits, Remaining
    <2>9. PICK state : state = [at |-> "paused", job |-> s.job, retries |-> s.retries + 1,
                                wake |-> clock + delay, due |-> s.due]
      OBVIOUS
    <2>10. worker' = [worker EXCEPT ![w] = state]
      <3>1. s = [at |-> s.at, job |-> s.job, retries |-> s.retries, wake |-> s.wake,
                 due |-> s.due]
        BY <2>5 DEF Waiting
      <3>2. worker' = [worker EXCEPT ![w] = [s EXCEPT !.at = "paused",
                         !.retries = s.retries + 1, !.wake = clock + delay]]
        BY <1>1, <2>3, <2>4, <2>6
      <3>3. PICK tries : tries = s.retries + 1  OBVIOUS
      <3>4. PICK wake : wake = clock + delay  OBVIOUS
      <3>5. state = [at |-> "paused", job |-> s.job, retries |-> tries, wake |-> wake,
                     due |-> s.due]
        BY <2>9, <3>3, <3>4
      <3>6. [s EXCEPT !.at = "paused", !.retries = tries, !.wake = wake] = state
        <4>1. PICK one : one = [s EXCEPT !.at = "paused"]  OBVIOUS
        <4>2. one = [at |-> "paused", job |-> s.job, retries |-> s.retries, wake |-> s.wake,
                     due |-> s.due]
          BY <3>1, <4>1
        <4>3. PICK two : two = [one EXCEPT !.retries = tries]  OBVIOUS
        <4>4. two = [at |-> "paused", job |-> s.job, retries |-> tries, wake |-> s.wake,
                     due |-> s.due]
          BY <4>2, <4>3
        <4>5. [two EXCEPT !.wake = wake] = state  BY <3>5, <4>4
        <4>6. [s EXCEPT !.at = "paused", !.retries = tries, !.wake = wake]
                = [two EXCEPT !.wake = wake]
          BY <4>1, <4>3
        <4>7. QED  BY <4>5, <4>6
      <3>7. worker' = [worker EXCEPT ![w] = [s EXCEPT !.at = "paused",
                         !.retries = tries, !.wake = wake]]
        BY <3>2, <3>3, <3>4
      <3>8. QED  BY <3>6, <3>7
    <2>11. state \in Waiting(Len(jobs))
      <3>1. s.retries + 1 \in 0..RetryMax /\ clock + delay \in Nat /\ s.job \in 0..Len(jobs)
        BY <1>1, <1>2, <2>1, <2>4, <2>5, <2>7 DEF Waiting
      <3>2. QED  BY <2>5, <2>9, <3>1 DEF Waiting
    <2>12. /\ state.at = "paused" /\ state.job = worker[w].job
           /\ state.due = worker[w].due /\ clock <= state.wake /\ state.wake < state.due
      <3>1. clock + delay < s.due /\ clock <= clock + delay  BY <1>1, <2>5, <2>7, <2>8
      <3>2. QED  BY <2>4, <2>9, <3>1
    <2>13. worker[w].at # "idle" /\ state.at # "idle"  BY <2>1, <2>12
    <2>14. QED  BY <1>12, <2>2, <2>10, <2>11, <2>12, <2>13
  <1>14. ASSUME NEW w \in Workers, Again(w) PROVE ReconcileInv' /\ jobs' = jobs
    <2>1. worker[w].at = "paused" /\ worker[w].wake <= clock  BY <1>14 DEF Again
    <2>2. /\ jobs' = jobs /\ taken' = taken /\ outcome' = outcome /\ clock' = clock
          /\ cache' = cache
      BY <1>14 DEF Again
    <2>3. PICK s : s = worker[w]  OBVIOUS
    <2>4. s \in Waiting(Len(jobs)) /\ s.wake \in Nat /\ s.due \in Nat
      BY <1>1, <2>3 DEF Waiting
    <2>5. PICK wake : wake = clock + Resolving  OBVIOUS
    <2>6. PICK state : state = [at |-> "resolving", job |-> s.job, retries |-> s.retries,
                                wake |-> wake, due |-> s.due]
      OBVIOUS
    <2>7. worker' = [worker EXCEPT ![w] = state]
      <3>1. s = [at |-> s.at, job |-> s.job, retries |-> s.retries, wake |-> s.wake,
                 due |-> s.due]
        BY <2>4 DEF Waiting
      <3>2. worker' = [worker EXCEPT ![w] = [s EXCEPT !.at = "resolving", !.wake = wake]]
        BY <1>1, <1>14, <2>3, <2>5 DEF Again
      <3>3. [s EXCEPT !.at = "resolving", !.wake = wake] = state
        <4>1. PICK one : one = [s EXCEPT !.at = "resolving"]  OBVIOUS
        <4>2. one = [at |-> "resolving", job |-> s.job, retries |-> s.retries,
                     wake |-> s.wake, due |-> s.due]
          BY <3>1, <4>1
        <4>3. [one EXCEPT !.wake = wake] = state  BY <2>6, <4>2
        <4>4. [s EXCEPT !.at = "resolving", !.wake = wake] = [one EXCEPT !.wake = wake]
          BY <4>1
        <4>5. QED  BY <4>3, <4>4
      <3>4. QED  BY <3>2, <3>3
    <2>8. state \in Waiting(Len(jobs))
      <3>1. wake \in Nat  BY <1>1, <1>2, <2>5
      <3>2. QED  BY <2>4, <2>6, <3>1 DEF Waiting
    <2>9. /\ state.at = "resolving" /\ state.job = worker[w].job
          /\ state.due = worker[w].due /\ state.wake = wake
      BY <2>3, <2>6
    <2>10. clock <= wake /\ wake < s.due + Resolving
      <3>1. WorkerInv(s)  BY <1>1, <2>3
      <3>2. clock <= s.wake /\ s.wake < s.due  BY <2>1, <2>3, <3>1 DEF WorkerInv
      <3>3. clock < s.due  BY <1>1, <2>1, <2>3, <2>4, <3>2
      <3>4. QED  BY <1>1, <1>2, <2>4, <2>5, <3>3
    <2>11. /\ worker[w].at # "idle" /\ state.at # "idle" /\ state.at # "paused"
           /\ state.at # "calling"
      BY <2>1, <2>9
    <2>12. clock <= state.wake /\ state.wake < state.due + Resolving
      BY <2>3, <2>9, <2>10
    <2>13. QED  BY <1>12, <2>2, <2>7, <2>8, <2>9, <2>11, <2>12
  <1>15. ASSUME NEW w \in Workers, Resolved(w) PROVE ReconcileInv' /\ jobs' = jobs
    <2>1. worker[w].at = "resolving"  BY <1>15 DEF Resolved
    <2>2. CASE clock < worker[w].due
      <3>1. /\ jobs' = jobs /\ taken' = taken /\ outcome' = outcome /\ clock' = clock
            /\ cache' = cache /\ worker' = [worker EXCEPT ![w].at = "calling"]
        BY <1>15, <2>2 DEF Resolved
      <3>2. PICK s : s = worker[w]  OBVIOUS
      <3>3. s \in Waiting(Len(jobs)) /\ s.due \in Nat  BY <1>1, <3>2 DEF Waiting
      <3>4. PICK state : state = [at |-> "calling", job |-> s.job, retries |-> s.retries,
                                  wake |-> s.wake, due |-> s.due]
        OBVIOUS
      <3>5. worker' = [worker EXCEPT ![w] = state]
        <4>1. s = [at |-> s.at, job |-> s.job, retries |-> s.retries, wake |-> s.wake,
                   due |-> s.due]
          BY <3>3 DEF Waiting
        <4>2. worker' = [worker EXCEPT ![w] = [s EXCEPT !.at = "calling"]]
          BY <1>1, <3>1, <3>2
        <4>3. [s EXCEPT !.at = "calling"] = state  BY <3>4, <4>1
        <4>4. QED  BY <4>2, <4>3
      <3>6. state \in Waiting(Len(jobs))  BY <3>3, <3>4 DEF Waiting
      <3>7. /\ state.at = "calling" /\ state.job = worker[w].job
            /\ state.due = worker[w].due
        BY <3>2, <3>4
      <3>8. clock <= state.due  BY <1>1, <2>2, <3>2, <3>3, <3>7
      <3>9. /\ worker[w].at # "idle" /\ state.at # "idle" /\ state.at # "paused"
            /\ state.at # "resolving"
        BY <2>1, <3>7
      <3>10. QED  BY <1>12, <3>1, <3>5, <3>6, <3>7, <3>8, <3>9
    <2>3. CASE ~(clock < worker[w].due)
      <3>1. PICK result \in Verdicts \cup {Failed} : result = Failed  OBVIOUS
      <3>2. Settle(w, result) /\ cache' = cache  BY <1>15, <2>3, <3>1 DEF Resolved
      <3>3. worker[w].at # "idle"  BY <2>1
      <3>4. QED  BY <1>1, <1>9, <3>2, <3>3
    <2>4. QED  BY <2>2, <2>3
  <1>16. QED
    BY <1>4, <1>6, <1>7, <1>8, <1>10, <1>11, <1>13, <1>14, <1>15 DEF BatchStep

LEMMA BatchStarts ==
    ASSUME ReconcileInit
    PROVE  ReconcileInv
  <1>1. /\ jobs = <<>> /\ taken = 0 /\ outcome = <<>> /\ clock = 0
        /\ worker = [w \in Workers |-> Idle]
        /\ cache = [c \in Candidates |-> Unknown]
    BY DEF ReconcileInit
  <1>2. jobs \in Seq(Candidates) /\ Len(jobs) = 0  BY <1>1
  <1>3. ReconcileTypeOK
    <2>1. outcome \in [1..Len(jobs) -> Verdicts \cup {Failed, Unknown}]
      <3>1. 1..Len(jobs) = {}  BY <1>2
      <3>2. outcome = [i \in {} |-> Unknown]  BY <1>1
      <3>3. QED  BY <3>1, <3>2
    <2>2. worker \in [Workers -> Waiting(Len(jobs))]
      <3>1. PICK n \in Nat : n = Len(jobs)  BY <1>2
      <3>2. Idle \in Waiting(n)  BY BoundsAreNumbers
      <3>3. QED  BY <1>1, <3>1, <3>2
    <2>3. cache \in [Candidates -> Verdicts \cup {Unknown}]  BY <1>1
    <2>4. taken \in 0..Len(jobs) /\ clock \in Nat  BY <1>1, <1>2
    <2>5. QED  BY <1>2, <2>1, <2>2, <2>3, <2>4 DEF ReconcileTypeOK, Waiting
  <1>4. InTime  BY <1>1, BoundsAreNumbers DEF InTime
  <1>5. \A w \in Workers : WorkerInv(worker[w])  BY <1>1, BoundsAreNumbers DEF WorkerInv
  <1>6. 1..taken = {}  BY <1>1
  <1>7. QED  BY <1>3, <1>4, <1>5, <1>6 DEF ReconcileInv

LEMMA BatchStays ==
    ASSUME ReconcileInv, UNCHANGED reconcileVars
    PROVE  ReconcileInv'
  <1>1. /\ jobs' = jobs /\ taken' = taken /\ outcome' = outcome /\ worker' = worker
        /\ clock' = clock /\ cache' = cache
    BY DEF reconcileVars, batch
  <1>2. QED
    BY <1>1 DEF ReconcileInv, ReconcileTypeOK, InTime, WorkerInv, Served

LEMMA BatchEndsEmpty ==
    ASSUME ReconcileInv, Begin(<<>>), UNCHANGED cache
    PROVE  ReconcileInv'
  <1>1. <<>> \in Seq(Candidates)  OBVIOUS
  <1>2. cache \in [Candidates -> Verdicts \cup {Unknown}]  BY DEF ReconcileInv, ReconcileTypeOK
  <1>3. QED  BY <1>1, <1>2, BatchBegins

LEMMA FinishedIsServed ==
    ASSUME ReconcileInv, Finished
    PROVE  \A i \in DOMAIN jobs : outcome[i] # Unknown
  <1>1. jobs \in Seq(Candidates) /\ taken = Len(jobs)
    BY DEF ReconcileInv, ReconcileTypeOK, Finished
  <1>2. ASSUME NEW i \in DOMAIN jobs PROVE outcome[i] # Unknown
    <2>1. i \in 1..taken  BY <1>1
    <2>2. Served(i)  BY <2>1 DEF ReconcileInv
    <2>3. QED  BY <2>2 DEF Served, Finished
  <1>3. QED  BY <1>2

LEMMA HoldsIsHas ==
    ASSUME journal \in Seq(Events), NEW e
    PROVE  Holds(e) <=> Has(journal, e)
  <1>1. DOMAIN journal = 1..Len(journal)  OBVIOUS
  <1>2. QED  BY <1>1 DEF Holds, Positions, Has

LEMMA MemberIsHad ==
    ASSUME NEW T, NEW s \in Seq(T), NEW e \in Range(s)
    PROVE  Has(s, e)
  <1>1. PICK i \in 1..Len(s) : s[i] = e  BY DEF Range
  <1>2. QED  BY <1>1 DEF Has, Same

LEMMA SameIsHad ==
    ASSUME NEW s, NEW e, NEW f, Same(e, f), Has(s, e)
    PROVE  Has(s, f)
  BY DEF Has, Same

-----------------------------------------------------------------------------
(* A journal that grows *)

(* The second sequence is the first with more of a set after it.           *)
Grows(u, v, S) ==
  /\ Len(u) <= Len(v)
  /\ \A i \in 1..Len(u) : v[i] = u[i]
  /\ \A i \in 1..Len(v) : i > Len(u) => v[i] \in S

LEMMA HadBefore ==
    ASSUME NEW T, NEW u \in Seq(T), NEW v \in Seq(T), NEW S, Grows(u, v, S), NEW e, Has(u, e)
    PROVE  Has(v, e)
  <1>1. PICK i \in 1..Len(u) : Same(u[i], e)  BY DEF Has
  <1>2. Len(u) \in Nat /\ Len(v) \in Nat  OBVIOUS
  <1>3. i \in 1..Len(v) /\ v[i] = u[i]  BY <1>1, <1>2 DEF Grows
  <1>4. QED  BY <1>1, <1>3 DEF Has

LEMMA HadSince ==
    ASSUME NEW T, NEW u \in Seq(T), NEW v \in Seq(T), NEW S, Grows(u, v, S), NEW e, Has(v, e),
           \A f \in S : ~Same(f, e)
    PROVE  Has(u, e)
  <1>1. PICK i \in 1..Len(v) : Same(v[i], e)  BY DEF Has
  <1>2. Len(u) \in Nat /\ Len(v) \in Nat  OBVIOUS
  <1>3. ~(i > Len(u))  BY <1>1 DEF Grows
  <1>4. i \in 1..Len(u) /\ v[i] = u[i]  BY <1>1, <1>2, <1>3 DEF Grows
  <1>5. QED  BY <1>1, <1>4 DEF Has

(* Every event tells what is so: an order holds by the whole history, and  *)
(* an index without gaps holds all the code of its tree.                   *)
Truthful(e) ==
  /\ e.kind = "relation" => FactSound(e.key[1], e.key[2], e.data)
  /\ e.kind = "index" /\ e.data = {} => e.key[1].occs = Range(CodeOf[e.key[1].tree])

(* What the events of the journal, and those to come, may be.              *)
JournalInv ==
  /\ journal \in Seq(Events) /\ queue \in Seq(Events)
  /\ Distinct(journal)
  /\ Grounded({}, journal) /\ Grounded(Range(journal), queue)
  /\ \A e \in Range(journal) \cup Range(queue) : Truthful(e)

LEMMA Appending ==
    ASSUME JournalInv, NEW events \in Seq(Events), Range(events) \subseteq Range(queue),
           Grounded(Range(journal), events), journal' = After(events)
    PROVE  /\ journal' \in Seq(Events) /\ Distinct(journal') /\ Grounded({}, journal')
           /\ \A e \in Range(journal') : Truthful(e)
           /\ Grows(journal, journal', Range(events))
           /\ \A e \in Range(events) : Has(journal', e)
  <1>1. /\ journal \in Seq(Events) /\ Distinct(journal) /\ Grounded({}, journal)
        /\ \A e \in Range(journal) \cup Range(queue) : Truthful(e)
    BY DEF JournalInv
  <1>2. Extended(journal', events, Len(events))  BY <1>1, AfterHolds
  <1>3. /\ journal' \in Seq(Events) /\ Distinct(journal') /\ Grounded({}, journal')
        /\ Len(journal) <= Len(journal')
        /\ \A i \in 1..Len(journal) : journal'[i] = journal[i]
        /\ \A i \in 1..Len(journal') : journal'[i] \in Range(journal) \cup FirstEvents(events, Len(events))
        /\ \A j \in 1..Len(events) : \E i \in 1..Len(journal') : Same(journal'[i], events[j])
    BY <1>2 DEF Extended
  <1>4. PICK u : u = journal'  OBVIOUS
  <1>5. u \in Seq(Events)  BY <1>3, <1>4
  <1>6. Len(journal) \in Nat /\ Len(u) \in Nat  BY <1>1, <1>5
  <1>7. FirstEvents(events, Len(events)) = Range(events)
    <2>1. DOMAIN events = 1..Len(events)  OBVIOUS
    <2>2. QED  BY <2>1 DEF FirstEvents, Range
  <1>8. \A i \in 1..Len(u) : u[i] \in Range(journal) \cup Range(events)
    BY <1>3, <1>4, <1>7
  <1>9. ASSUME NEW i \in 1..Len(u), i > Len(journal) PROVE u[i] \in Range(events)
    <2>1. SUFFICES ASSUME u[i] \in Range(journal) PROVE FALSE  BY <1>8
    <2>2. PICK j \in 1..Len(journal) : journal[j] = u[i]  BY <1>1, <2>1 DEF Range
    <2>3. j \in 1..Len(u) /\ u[j] = journal[j] /\ j # i  BY <1>3, <1>4, <1>6, <1>9
    <2>4. Same(u[j], u[i])  BY <2>2, <2>3 DEF Same
    <2>5. QED  BY <1>3, <1>4, <2>3, <2>4 DEF Distinct
  <1>10. ASSUME NEW e \in Range(u) PROVE Truthful(e)
    <2>1. PICK i \in 1..Len(u) : u[i] = e  BY <1>5 DEF Range
    <2>2. e \in Range(journal) \cup Range(queue)  BY <1>8, <2>1
    <2>3. QED  BY <1>1, <2>2
  <1>11. ASSUME NEW e \in Range(events) PROVE Has(u, e)
    <2>1. PICK j \in 1..Len(events) : events[j] = e  BY DEF Range
    <2>2. QED  BY <1>3, <1>4, <2>1 DEF Has
  <1>12. Grows(journal, u, Range(events))
    BY <1>3, <1>4, <1>9 DEF Grows
  <1>13. QED  BY <1>3, <1>4, <1>10, <1>11, <1>12

(* The whole queue, and a part of it after a crash.                        *)
LEMMA AppendingAll ==
    ASSUME JournalInv, AppendAll
    PROVE  /\ journal' \in Seq(Events) /\ Distinct(journal') /\ Grounded({}, journal')
           /\ \A e \in Range(journal') : Truthful(e)
           /\ Grows(journal, journal', Range(queue))
           /\ \A e \in Range(queue) : Has(journal', e)
  <1>1. /\ queue \in Seq(Events) /\ Grounded(Range(journal), queue)  BY DEF JournalInv
  <1>2. journal' = After(queue)  BY DEF AppendAll
  <1>3. PICK events : events = queue  OBVIOUS
  <1>4. events \in Seq(Events) /\ Range(events) = Range(queue)
        /\ Grounded(Range(journal), events) /\ journal' = After(events)
    BY <1>1, <1>2, <1>3
  <1>5. QED  BY <1>4, Appending

LEMMA AppendingSome ==
    ASSUME JournalInv, NEW n \in Nat, journal' = After(FirstOf(n, queue))
    PROVE  /\ journal' \in Seq(Events) /\ Distinct(journal') /\ Grounded({}, journal')
           /\ \A e \in Range(journal') : Truthful(e)
  <1>1. /\ queue \in Seq(Events) /\ Grounded(Range(journal), queue)  BY DEF JournalInv
  <1>2. PICK events : events = FirstOf(n, queue)  OBVIOUS
  <1>3. /\ events \in Seq(Events) /\ Len(events) <= Len(queue)
        /\ \A i \in 1..Len(events) : events[i] = queue[i]
    BY <1>1, <1>2, FirstOfKeeps
  <1>4. ASSUME NEW e \in Range(events) PROVE e \in Range(queue)
    <2>1. PICK i \in 1..Len(events) : events[i] = e  BY <1>3 DEF Range
    <2>2. Len(events) \in Nat /\ Len(queue) \in Nat /\ DOMAIN queue = 1..Len(queue)
      BY <1>1, <1>3
    <2>3. i \in DOMAIN queue /\ queue[i] = e  BY <1>3, <2>1, <2>2
    <2>4. QED  BY <2>3 DEF Range
  <1>5. Grounded(Range(journal), events)  BY <1>1, <1>2, GroundedFirst
  <1>6. journal' = After(events)  BY <1>2
  <1>7. QED  BY <1>3, <1>4, <1>5, <1>6, Appending

LEMMA NothingToAppend ==
    /\ <<>> \in Seq(Events) /\ Range(<<>>) = {}
    /\ \A X : Grounded(X, <<>>)
  <1>1. Len(<<>>) = 0 /\ DOMAIN <<>> = {}  OBVIOUS
  <1>2. 1..0 = {}  OBVIOUS
  <1>3. QED  BY <1>1, <1>2 DEF Grounded, Range

(* With nothing left to append, the journal's part is all there is.        *)
LEMMA JournalSettles ==
    ASSUME queue' = <<>>, journal' \in Seq(Events), Distinct(journal'),
           Grounded({}, journal'), \A e \in Range(journal') : Truthful(e)
    PROVE  JournalInv'
  <1>1. PICK u : u = journal'  OBVIOUS
  <1>2. PICK v : v = queue'  OBVIOUS
  <1>3. v \in Seq(Events) /\ Range(v) = {} /\ Grounded(Range(u), v)
    BY <1>2, NothingToAppend
  <1>4. \A e \in Range(u) \cup Range(v) : Truthful(e)  BY <1>1, <1>3
  <1>5. QED  BY <1>1, <1>2, <1>3, <1>4 DEF JournalInv

-----------------------------------------------------------------------------
(* What a command reads in a journal *)

ComparedIn(s) ==
  LET snapshots == {i \in 1..Len(s) : s[i].kind = "snapshot"}
  IN {i \in snapshots : Cardinality({j \in snapshots : i <= j}) <= MaxCompared}

OrderedIn(s, t, found) ==
  \A i \in ComparedIn(s) : s[i].key[1] = t \/ Has(found, Relation(s[i].key[1], t, None))

BindingsIn(s, n, c) ==
  {i \in {j \in 1..n : s[j].kind = "linked"} : s[i].key[1] = c /\ s[i].data = "deterministic"}

BoundIn(s, n, c) ==
  IF BindingsIn(s, n, c) = {} THEN None ELSE s[Max(BindingsIn(s, n, c))].key[2]

FactsIn(s, n, l, r) ==
  {s[i].data : i \in {j \in {k \in 1..n : s[k].kind = "relation"} : s[j].key = <<l, r>>}}

OrderIn(s, n, l, r) ==
  IF l = r THEN "same"
  ELSE IF FactsIn(s, n, l, r) # {} THEN CHOOSE rel \in FactsIn(s, n, l, r) : TRUE
  ELSE IF FactsIn(s, n, r, l) # {} THEN Invert(CHOOSE rel \in FactsIn(s, n, r, l) : TRUE)
  ELSE "unknown"

LEMMA ReadingsOfJournal ==
    /\ Compared = ComparedIn(journal)
    /\ \A n, c : BoundTo(c, n) = BoundIn(journal, n, c)
    /\ \A n, l, r : OrderThrough(n, l, r) = OrderIn(journal, n, l, r)
  <1>1. Compared = ComparedIn(journal)  BY DEF Compared, ComparedIn, Through, Frontier
  <1>2. ASSUME NEW n, NEW c PROVE BoundTo(c, n) = BoundIn(journal, n, c)
    BY DEF BoundTo, BoundIn, BindingsIn, Through
  <1>3. ASSUME NEW n, NEW l, NEW r PROVE OrderThrough(n, l, r) = OrderIn(journal, n, l, r)
    BY DEF OrderThrough, OrderIn, FactsIn, Through
  <1>4. QED  BY <1>1, <1>2, <1>3

LEMMA ComparedBefore ==
    ASSUME NEW u \in Seq(Events), NEW v \in Seq(Events), NEW S, Grows(u, v, S),
           NEW i \in ComparedIn(v), i <= Len(u)
    PROVE  i \in ComparedIn(u) /\ v[i] = u[i]
  <1>1. Len(u) \in Nat /\ Len(v) \in Nat  OBVIOUS
  <1>2. PICK U : U = {j \in 1..Len(u) : u[j].kind = "snapshot"}  OBVIOUS
  <1>3. PICK V : V = {j \in 1..Len(v) : v[j].kind = "snapshot"}  OBVIOUS
  <1>4. i \in V /\ Cardinality({j \in V : i <= j}) <= MaxCompared  BY <1>3 DEF ComparedIn
  <1>5. i \in 1..Len(u) /\ v[i] = u[i] /\ i \in U
    BY <1>1, <1>2, <1>3, <1>4 DEF Grows
  <1>6. PICK A : A = {j \in U : i <= j}  OBVIOUS
  <1>7. PICK B : B = {j \in V : i <= j}  OBVIOUS
  <1>8. U \subseteq V  BY <1>1, <1>2, <1>3 DEF Grows
  <1>9. A \subseteq B  BY <1>6, <1>7, <1>8
  <1>10. IsFiniteSet(B)
    <2>1. IsFiniteSet(1..Len(v))  BY <1>1, FS_Interval
    <2>2. B \subseteq 1..Len(v)  BY <1>3, <1>7
    <2>3. QED  BY <2>1, <2>2, FS_Subset
  <1>11. IsFiniteSet(A) /\ Cardinality(A) <= Cardinality(B)  BY <1>9, <1>10, FS_Subset
  <1>12. Cardinality(A) \in Nat /\ Cardinality(B) \in Nat
    BY <1>10, <1>11, FS_CardinalityType
  <1>13. MaxCompared \in Nat  BY LimitsAssumption
  <1>14. Cardinality(A) <= MaxCompared  BY <1>4, <1>7, <1>11, <1>12, <1>13
  <1>15. QED  BY <1>2, <1>5, <1>6, <1>14 DEF ComparedIn

(* The snapshots compared stay ordered with the tree as the journal grows, *)
(* if it grows by no other snapshot and has what was to be appended.       *)
LEMMA OrderedStill ==
    ASSUME NEW u \in Seq(Events), NEW v \in Seq(Events), NEW S, Grows(u, v, S),
           NEW t, NEW found, OrderedIn(u, t, found),
           \A e \in S : e.kind = "snapshot" => e.key[1] = t,
           \A e : Has(found, e) => Has(v, e)
    PROVE  OrderedIn(v, t, v)
  <1>1. SUFFICES ASSUME NEW i \in ComparedIn(v), v[i].key[1] # t
                 PROVE  Has(v, Relation(v[i].key[1], t, None))
    BY DEF OrderedIn
  <1>2. i \in 1..Len(v) /\ v[i].kind = "snapshot"  BY DEF ComparedIn
  <1>3. Len(u) \in Nat /\ Len(v) \in Nat  OBVIOUS
  <1>4. ~(i > Len(u))  BY <1>1, <1>2 DEF Grows
  <1>5. i \in ComparedIn(u) /\ v[i] = u[i]  BY <1>2, <1>3, <1>4, ComparedBefore
  <1>6. Has(found, Relation(u[i].key[1], t, None))  BY <1>1, <1>5 DEF OrderedIn
  <1>7. QED  BY <1>5, <1>6

LEMMA ClaimIsBound ==
    ASSUME NEW s \in Seq(Events), NEW n \in 0..Len(s), NEW c \in Claims
    PROVE  /\ BoundIn(s, n, c) # None => BoundIn(s, n, c) \in Trees
           /\ (\E i \in 1..n, t \in Trees : Same(s[i], Linked(c, t, c, "deterministic")))
                => BoundIn(s, n, c) # None
  <1>1. n \in Nat /\ Len(s) \in Nat /\ n <= Len(s)  OBVIOUS
  <1>2. \A i \in 1..n : s[i] \in Events  BY <1>1
  <1>3. PICK B : B = BindingsIn(s, n, c)  OBVIOUS
  <1>4. B \subseteq 1..n  BY <1>3 DEF BindingsIn
  <1>5. ASSUME B # {} PROVE BoundIn(s, n, c) \in Trees
    <2>1. PICK m \in B : m = Max(B)  BY <1>1, <1>4, <1>5, LatestPosition
    <2>2. BoundIn(s, n, c) = s[m].key[2]  BY <1>3, <1>5, <2>1 DEF BoundIn
    <2>3. PICK e \in Events : e = s[m]  BY <1>2, <1>4
    <2>4. e.kind = "linked"  BY <1>3, <2>1, <2>3 DEF BindingsIn
    <2>5. \/ \E d \in Claims, t \in Trees : e = Linked(d, t, d, "deterministic")
          \/ \E d \in Claims, t \in Trees, of \in Codes : e = Linked(d, t, of, "semantic")
      BY <2>4, EventForms
    <2>6. PICK d \in Claims, t \in Trees, of \in Claims \cup Codes,
               method \in {"deterministic", "semantic"} : e = Linked(d, t, of, method)
      BY <2>5
    <2>7. e.key = <<d, t, of>>  BY <2>6 DEF Linked, Event
    <2>8. e.key[2] = t  BY <2>7
    <2>9. QED  BY <2>2, <2>3, <2>8
  <1>6. ASSUME B = {} PROVE BoundIn(s, n, c) = None  BY <1>3, <1>6 DEF BoundIn
  <1>7. ASSUME NEW i \in 1..n, NEW t \in Trees, Same(s[i], Linked(c, t, c, "deterministic"))
        PROVE  i \in B
    <2>1. PICK e \in Events : e = s[i]  BY <1>2
    <2>2. e.kind = "linked" /\ e.key = <<c, t, c>>
      BY <1>7, <2>1 DEF Same, Linked, Event
    <2>3. e.data = "deterministic"
      <3>1. \/ \E d \in Claims, w \in Trees : e = Linked(d, w, d, "deterministic")
            \/ \E d \in Claims, w \in Trees, of \in Codes : e = Linked(d, w, of, "semantic")
        BY <2>2, EventForms
      <3>2. ASSUME NEW d \in Claims, NEW w \in Trees, e = Linked(d, w, d, "deterministic")
            PROVE  e.data = "deterministic"
        BY <3>2 DEF Linked, Event
      <3>3. ASSUME NEW d \in Claims, NEW w \in Trees, NEW of \in Codes,
                   e = Linked(d, w, of, "semantic")
            PROVE  FALSE
        <4>1. e.key = <<d, w, of>>  BY <3>3 DEF Linked, Event
        <4>2. of = c  BY <2>2, <4>1
        <4>3. QED  BY <4>2, ClaimsAssumption
      <3>4. QED  BY <3>1, <3>2, <3>3
    <2>4. e.key[1] = c  BY <2>2
    <2>5. QED  BY <1>3, <2>1, <2>2, <2>3, <2>4 DEF BindingsIn
  <1>8. None \notin Trees  BY TreesAssumption
  <1>9. QED  BY <1>5, <1>6, <1>7, <1>8

LEMMA OrdersAreInverted ==
    ASSUME NEW rel \in Orders
    PROVE  /\ Invert(rel) \in Orders
           /\ Invert(rel) = "before" <=> rel = "after"
           /\ Invert(rel) = "same" <=> rel = "same"
           /\ Invert(rel) = "unknown" <=> rel = "unknown"
  <1>1. CASE rel = "before"  BY <1>1 DEF Invert, Orders
  <1>2. CASE rel = "after"  BY <1>2 DEF Invert, Orders
  <1>3. CASE rel \notin {"before", "after"}
    <2>1. Invert(rel) = rel  BY <1>3 DEF Invert
    <2>2. QED  BY <1>3, <2>1
  <1>4. QED  BY <1>1, <1>2, <1>3

LEMMA FactsAreTold ==
    ASSUME NEW s \in Seq(Events), \A e \in Range(s) : Truthful(e),
           NEW n \in 0..Len(s), NEW l \in Trees, NEW r \in Trees,
           NEW rel \in FactsIn(s, n, l, r)
    PROVE  FactSound(l, r, rel)
  <1>1. PICK i \in 1..n : s[i].kind = "relation" /\ s[i].key = <<l, r>> /\ rel = s[i].data
    BY DEF FactsIn
  <1>2. i \in 1..Len(s)  OBVIOUS
  <1>3. PICK e \in Range(s) : e = s[i]  BY <1>2 DEF Range
  <1>4. FactSound(e.key[1], e.key[2], e.data)  BY <1>1, <1>3 DEF Truthful
  <1>5. e.key[1] = l /\ e.key[2] = r /\ e.data = rel  BY <1>1, <1>3
  <1>6. QED  BY <1>4, <1>5

(* All of one tree is in another, or they hold the same.                   *)
IsIn(from, into) ==
  \/ from = into \/ WentInto(from, into)
  \/ from[1] = into[1] /\ {from, into} \cap DirtyTrees = {}

LEMMA OrderIsTold ==
    ASSUME NEW s \in Seq(Events), \A e \in Range(s) : Truthful(e),
           NEW n \in 0..Len(s), NEW l \in Trees, NEW r \in Trees
    PROVE  /\ OrderIn(s, n, l, r) \in Orders
           /\ OrderIn(s, n, l, r) \in {"same", "before"} => IsIn(l, r)
           /\ (\E i \in 1..n : Same(s[i], Relation(l, r, None))) => OrderIn(s, n, l, r) # "unknown"
  <1>1. PICK F : F = FactsIn(s, n, l, r)  OBVIOUS
  <1>2. PICK G : G = FactsIn(s, n, r, l)  OBVIOUS
  <1>3. \A rel \in F : FactSound(l, r, rel)  BY <1>1, FactsAreTold
  <1>4. \A rel \in G : FactSound(r, l, rel)  BY <1>2, FactsAreTold
  <1>5. PICK order : order = OrderIn(s, n, l, r)  OBVIOUS
  <1>6. {"same", "unknown"} \subseteq Orders  BY DEF Orders
  <1>7. ASSUME NEW i \in 1..n, Same(s[i], Relation(l, r, None)) PROVE F # {}
    <2>1. s[i].kind = "relation" /\ s[i].key = <<l, r>>  BY <1>7 DEF Same, Relation, Event
    <2>2. s[i].data \in F  BY <1>1, <2>1 DEF FactsIn
    <2>3. QED  BY <2>2
  <1>8. CASE l = r
    <2>1. order = "same"  BY <1>5, <1>8 DEF OrderIn
    <2>2. QED  BY <1>5, <1>6, <1>8, <2>1 DEF IsIn
  <1>9. CASE l # r /\ F # {}
    <2>1. order = CHOOSE rel \in F : TRUE  BY <1>1, <1>5, <1>9 DEF OrderIn
    <2>2. order \in F  BY <1>9, <2>1
    <2>3. FactSound(l, r, order)  BY <1>3, <2>2
    <2>4. order \in Orders /\ order # "unknown"  BY <2>3 DEF FactSound
    <2>5. order = "before" => IsIn(l, r)  BY <2>3 DEF FactSound, IsIn
    <2>6. order = "same" => IsIn(l, r)  BY <2>3 DEF FactSound, IsIn
    <2>7. QED  BY <1>5, <2>4, <2>5, <2>6
  <1>10. CASE l # r /\ F = {} /\ G # {}
    <2>1. PICK rel \in G : rel = CHOOSE x \in G : TRUE  BY <1>10
    <2>2. order = Invert(rel)  BY <1>1, <1>2, <1>5, <1>10, <2>1 DEF OrderIn
    <2>3. FactSound(r, l, rel)  BY <1>4, <2>1
    <2>4. rel \in Orders /\ rel # "unknown"  BY <2>3 DEF FactSound
    <2>5. /\ order \in Orders /\ order # "unknown"
          /\ order = "before" => rel = "after"
          /\ order = "same" => rel = "same"
      BY <2>2, <2>4, OrdersAreInverted
    <2>6. order = "before" => IsIn(l, r)  BY <2>3, <2>5 DEF FactSound, IsIn
    <2>7. order = "same" => IsIn(l, r)  BY <2>3, <2>5 DEF FactSound, IsIn
    <2>8. QED  BY <1>5, <2>5, <2>6, <2>7
  <1>11. CASE l # r /\ F = {} /\ G = {}
    <2>1. order = "unknown"  BY <1>1, <1>2, <1>5, <1>11 DEF OrderIn
    <2>2. QED  BY <1>5, <1>6, <1>7, <1>11, <2>1
  <1>12. QED  BY <1>8, <1>9, <1>10, <1>11

(* The replacement of a claim by a newer one that is allowed.              *)
LEMMA AllowedIsIn ==
    ASSUME NEW s \in Seq(Events), \A e \in Range(s) : Truthful(e),
           s = journal, NEW n \in 0..Len(s), NEW old \in Claims, NEW new \in Claims,
           BoundIn(s, n, new) # None, Allows(ClaimOrderThrough(n, old, new))
    PROVE  BoundIn(s, n, old) # None /\ IsIn(BoundIn(s, n, old), BoundIn(s, n, new))
  <1>1. PICK left : left = BoundIn(s, n, old)  OBVIOUS
  <1>2. PICK right : right = BoundIn(s, n, new)  OBVIOUS
  <1>3. left = BoundTo(old, n) /\ right = BoundTo(new, n)
    BY <1>1, <1>2, ReadingsOfJournal
  <1>4. PICK order : order = ClaimOrderThrough(n, old, new)  OBVIOUS
  <1>5. order \in {"untimed", "same", "before"}  BY <1>4 DEF Allows
  <1>6. right # None /\ right \in Trees  BY <1>2, ClaimIsBound
  <1>7. ASSUME left = None PROVE FALSE
    <2>1. order = "unknown"  BY <1>3, <1>4, <1>6, <1>7 DEF ClaimOrderThrough
    <2>2. QED  BY <1>5, <2>1
  <1>8. left \in Trees  BY <1>1, <1>7, ClaimIsBound
  <1>9. order = OrderThrough(n, left, right)
    BY <1>3, <1>4, <1>6, <1>7 DEF ClaimOrderThrough
  <1>10. order = OrderIn(s, n, left, right)  BY <1>9, ReadingsOfJournal
  <1>11. order \in Orders /\ (order \in {"same", "before"} => IsIn(left, right))
    BY <1>6, <1>8, <1>10, OrderIsTold
  <1>12. order \in {"same", "before"}  BY <1>5, <1>11 DEF Orders
  <1>13. QED  BY <1>1, <1>2, <1>7, <1>11, <1>12

-----------------------------------------------------------------------------
(* Finite sets in a sequence *)

LEMMA FiniteSetIsListed ==
    ASSUME NEW S, IsFiniteSet(S)
    PROVE  SetToSeq(S) \in Seq(S) /\ Range(SetToSeq(S)) \subseteq S
  <1>1. PICK n \in Nat : n = Cardinality(S)  BY FS_CardinalityType
  <1>2. ExistsBijection(1..n, S)  BY <1>1, FS_CardinalityType
  <1>3. \E f \in [1..n -> S] : IsInjective(f)
    BY <1>2 DEF ExistsBijection, Bijection, Injection
  <1>4. PICK s : s = SetToSeq(S)  OBVIOUS
  <1>5. s = CHOOSE f \in [1..n -> S] : IsInjective(f)  BY <1>1, <1>4 DEF SetToSeq
  <1>6. s \in [1..n -> S]  BY <1>3, <1>5
  <1>7. s = [i \in 1..n |-> s[i]] /\ \A i \in 1..n : s[i] \in S  BY <1>6
  <1>8. s \in Seq(S) /\ Len(s) = n  BY <1>7, ListOf
  <1>9. Range(s) \subseteq S  BY <1>8 DEF Range
  <1>10. QED  BY <1>4, <1>8, <1>9

LEMMA ClaimsAreFinite ==
    IsFiniteSet(Claims \X Claims)
  <1>1. ClaimOrder \in Seq(Claims) /\ Range(ClaimOrder) = Claims  BY ClaimsAssumption
  <1>2. PICK n \in Nat : n = Len(ClaimOrder)  BY <1>1
  <1>3. ClaimOrder \in [1..n -> Claims]  BY <1>1, <1>2
  <1>4. \A c \in Claims : \E i \in 1..n : ClaimOrder[i] = c  BY <1>1, <1>2 DEF Range
  <1>5. ClaimOrder \in Surjection(1..n, Claims)  BY <1>3, <1>4 DEF Surjection
  <1>6. IsFiniteSet(1..n)  BY FS_Interval
  <1>7. IsFiniteSet(Claims)  BY <1>5, <1>6, FS_Surjection
  <1>8. QED  BY <1>7, FS_Product

LEMMA ReplacementsAreListed ==
    ASSUME NEW S \in SUBSET (Claims \X Claims),
           NEW q, q = SetToSeq({Superseded(p[2], p[1]) : p \in S})
    PROVE  /\ q \in Seq(Events)
           /\ \A e \in Range(q) : \E p \in S : e = Superseded(p[2], p[1])
  <1>1. PICK T : T = {Superseded(p[2], p[1]) : p \in S}  OBVIOUS
  <1>2. PICK f : f = [p \in S |-> Superseded(p[2], p[1])]  OBVIOUS
  <1>3. f \in [S -> T]  BY <1>1, <1>2
  <1>4. \A t \in T : \E p \in S : f[p] = t  BY <1>1, <1>2
  <1>5. f \in Surjection(S, T)  BY <1>3, <1>4 DEF Surjection
  <1>6. IsFiniteSet(S)  BY ClaimsAreFinite, FS_Subset
  <1>7. IsFiniteSet(T)  BY <1>5, <1>6, FS_Surjection
  <1>8. q \in Seq(T) /\ Range(q) \subseteq T  BY <1>1, <1>7, FiniteSetIsListed
  <1>9. T \subseteq Events
    <2>1. ASSUME NEW p \in S PROVE Superseded(p[2], p[1]) \in Events
      <3>1. p[1] \in Claims /\ p[2] \in Claims  OBVIOUS
      <3>2. QED  BY <3>1, EventsMade
    <2>2. QED  BY <1>1, <2>1
  <1>10. q \in Seq(Events)  BY <1>8, <1>9
  <1>11. QED  BY <1>1, <1>8, <1>10

LEMMA PlainIsGrounded ==
    ASSUME NEW q \in Seq(Events), \A e \in Range(q) : e.kind \notin {"linked", "occurrence"},
           NEW X
    PROVE  Grounded(X, q)
  <1>1. ASSUME NEW i \in 1..Len(q) PROVE Caused(q[i], X \cup FirstEvents(q, i - 1))
    <2>1. q[i] \in Range(q)  BY DEF Range
    <2>2. q[i].kind \notin {"linked", "occurrence"}  BY <2>1
    <2>3. QED  BY <2>2, NothingToName
  <1>2. QED  BY <1>1 DEF Grounded

(* A journal's events are as many as their kinds and keys.                 *)
LEMMA KeysAreDistinct ==
    ASSUME NEW s \in Seq(Events), Distinct(s)
    PROVE  Cardinality({<<e.kind, e.key>> : e \in Range(s)}) = Len(s)
  <1>1. PICK n \in Nat : n = Len(s)  OBVIOUS
  <1>2. PICK T : T = {<<e.kind, e.key>> : e \in Range(s)}  OBVIOUS
  <1>3. PICK f : f = [i \in 1..n |-> <<s[i].kind, s[i].key>>]  OBVIOUS
  <1>4. \A i \in 1..n : s[i] \in Range(s)  BY <1>1 DEF Range
  <1>5. f \in [1..n -> T]  BY <1>2, <1>3, <1>4
  <1>6. ASSUME NEW i \in 1..n, NEW j \in 1..n, f[i] = f[j] PROVE i = j
    <2>1. s[i].kind = s[j].kind /\ s[i].key = s[j].key  BY <1>3, <1>6
    <2>2. QED  BY <1>1, <2>1 DEF Distinct, Same
  <1>7. DOMAIN f = 1..n  BY <1>3
  <1>8. f \in Injection(1..n, T)  BY <1>5, <1>6, <1>7 DEF Injection, IsInjective
  <1>9. ASSUME NEW t \in T PROVE \E i \in 1..n : f[i] = t
    <2>1. PICK e \in Range(s) : t = <<e.kind, e.key>>  BY <1>2
    <2>2. PICK i \in 1..n : s[i] = e  BY <1>1 DEF Range
    <2>3. QED  BY <1>3, <2>1, <2>2
  <1>10. f \in Surjection(1..n, T)  BY <1>5, <1>9 DEF Surjection
  <1>11. f \in Bijection(1..n, T)  BY <1>8, <1>10 DEF Bijection
  <1>12. ExistsBijection(1..n, T)  BY <1>11 DEF ExistsBijection
  <1>13. Cardinality(T) = n  BY <1>12, FS_CountingElements
  <1>14. QED  BY <1>1, <1>2, <1>13

-----------------------------------------------------------------------------
(* The plan of a batch *)

PlannedFor(c, occs) ==
  LET kept == FirstOf(PerClaim, Matching(c, occs))
  IN [i \in DOMAIN kept |-> <<c, kept[i]>>]

LEMMA ClaimIsPlanned ==
    ASSUME NEW c \in Claims, NEW occs
    PROVE  /\ PlannedFor(c, occs) \in Seq(Candidates)
           /\ Len(Matching(c, occs)) \in Nat
           /\ Len(Matching(c, occs)) <= PerClaim =>
                \A of \in occs \cap Range(Ranked[c]) : <<c, of>> \in Range(PlannedFor(c, occs))
  <1>1. PICK all : all = Matching(c, occs)  OBVIOUS
  <1>2. Ranked[c] \in Seq(Codes)  BY ClaimsAssumption
  <1>3. all \in Seq(Codes) /\ Range(all) = Range(Ranked[c]) \cap occs
    BY <1>1, <1>2, OnlyKeeps DEF Matching
  <1>4. PerClaim \in Nat  BY LimitsAssumption
  <1>5. PICK kept : kept = FirstOf(PerClaim, all)  OBVIOUS
  <1>6. kept \in Seq(Codes) /\ (Len(all) <= PerClaim => kept = all)
    BY <1>3, <1>4, <1>5, FirstOfKeeps
  <1>7. PICK n \in Nat : n = Len(kept)  BY <1>6
  <1>8. DOMAIN kept = 1..n /\ \A i \in 1..n : kept[i] \in Codes  BY <1>6, <1>7
  <1>9. PICK f : f = [i \in 1..n |-> <<c, kept[i]>>]  OBVIOUS
  <1>10. PlannedFor(c, occs) = f  BY <1>1, <1>5, <1>8, <1>9 DEF PlannedFor
  <1>11. f = [i \in 1..n |-> f[i]] /\ \A i \in 1..n : f[i] = <<c, kept[i]>>  BY <1>9
  <1>12. ASSUME NEW i \in 1..n PROVE f[i] \in Candidates
    <2>1. PICK of \in Codes : of = kept[i]  BY <1>8
    <2>2. f[i] = <<c, of>>  BY <1>11, <2>1
    <2>3. QED  BY <2>2 DEF Candidates
  <1>13. f \in Seq(Candidates) /\ Len(f) = n  BY <1>11, <1>12, ListOf
  <1>14. ASSUME Len(all) <= PerClaim, NEW of \in occs \cap Range(Ranked[c])
         PROVE  <<c, of>> \in Range(f)
    <2>1. of \in Range(kept)  BY <1>3, <1>6, <1>14
    <2>2. PICK i \in 1..n : kept[i] = of  BY <1>8, <2>1 DEF Range
    <2>3. f[i] = <<c, of>> /\ i \in DOMAIN f  BY <1>11, <1>13, <2>2
    <2>4. QED  BY <2>3 DEF Range
  <1>15. Len(all) \in Nat  BY <1>3
  <1>16. QED  BY <1>1, <1>10, <1>13, <1>14, <1>15

LEMMA CandidatesArePlanned ==
    ASSUME Current \subseteq Claims, NEW occs
    PROVE  /\ PlanCandidates(occs) \in Seq(Candidates)
           /\ \A c \in Current : Len(Matching(c, occs)) <= PerClaim =>
                \A of \in occs \cap Range(Ranked[c]) : <<c, of>> \in Range(PlanCandidates(occs))
  <1>1. PICK rc : rc = ReconciledClaims  OBVIOUS
  <1>2. rc \in Seq(Claims) /\ Range(rc) = Current
    <2>1. ClaimOrder \in Seq(Claims) /\ Range(ClaimOrder) = Claims  BY ClaimsAssumption
    <2>2. PICK S : S = Current  OBVIOUS
    <2>3. rc = Only(ClaimOrder, S)  BY <1>1, <2>2 DEF ReconciledClaims
    <2>4. rc \in Seq(Claims) /\ Range(rc) = Range(ClaimOrder) \cap S
      BY <2>1, <2>3, OnlyKeeps
    <2>5. QED  BY <2>1, <2>2, <2>4
  <1>3. PICK n \in Nat : n = Len(rc)  BY <1>2
  <1>4. DOMAIN rc = 1..n /\ \A i \in 1..n : rc[i] \in Claims  BY <1>2, <1>3
  <1>5. PICK s : s = [i \in 1..n |-> PlannedFor(rc[i], occs)]  OBVIOUS
  <1>6. PlanCandidates(occs) = Joined(s)
    BY <1>1, <1>4, <1>5 DEF PlanCandidates, PlannedFor
  <1>7. s = [i \in 1..n |-> s[i]] /\ \A i \in 1..n : s[i] = PlannedFor(rc[i], occs)
    BY <1>5
  <1>8. \A i \in 1..n : s[i] \in Seq(Candidates)  BY <1>4, <1>7, ClaimIsPlanned
  <1>9. s \in Seq(Seq(Candidates)) /\ Len(s) = n  BY <1>7, <1>8, ListOf
  <1>10. /\ Joined(s) \in Seq(Candidates)
         /\ \A x : x \in Range(Joined(s)) <=> \E i \in 1..Len(s) : x \in Range(s[i])
    BY <1>9, JoinedHolds
  <1>11. ASSUME NEW c \in Current, Len(Matching(c, occs)) <= PerClaim,
                NEW of \in occs \cap Range(Ranked[c])
         PROVE  <<c, of>> \in Range(Joined(s))
    <2>1. PICK i \in 1..n : rc[i] = c  BY <1>2, <1>4 DEF Range
    <2>2. c \in Claims  OBVIOUS
    <2>3. <<c, of>> \in Range(PlannedFor(c, occs))  BY <1>11, <2>2, ClaimIsPlanned
    <2>4. <<c, of>> \in Range(s[i])  BY <1>7, <2>1, <2>3
    <2>5. QED  BY <1>9, <1>10, <2>4
  <1>12. QED  BY <1>6, <1>10, <1>11

Unlinked(plan, t) == {p \in Range(plan) : ~HasLink(p[1], t, p[2])}

LEMMA BatchIsPlanned ==
    ASSUME Current \subseteq Claims, NEW occs, NEW t, NEW plan, NEW q,
           plan = FirstOf(MaxCandidates, PlanCandidates(occs)),
           q = Only(plan, Unlinked(plan, t))
    PROVE  /\ q \in Seq(Candidates)
           /\ ~PlanTruncated(occs) =>
                \A c \in Current : \A of \in occs \cap Range(Ranked[c]) :
                  HasLink(c, t, of) \/ \E i \in DOMAIN q : q[i] = <<c, of>>
  <1>1. PICK all : all = PlanCandidates(occs)  OBVIOUS
  <1>2. all \in Seq(Candidates)  BY <1>1, CandidatesArePlanned
  <1>3. MaxCandidates \in Nat  BY LimitsAssumption
  <1>4. plan \in Seq(Candidates) /\ (Len(all) <= MaxCandidates => plan = all)
    BY <1>1, <1>2, <1>3, FirstOfKeeps
  <1>5. PICK S : S = Unlinked(plan, t)  OBVIOUS
  <1>6. q \in Seq(Candidates) /\ Range(q) = Range(plan) \cap S
    BY <1>4, <1>5, OnlyKeeps
  <1>7. ASSUME ~PlanTruncated(occs), NEW c \in Current, NEW of \in occs \cap Range(Ranked[c]),
               ~HasLink(c, t, of)
        PROVE  \E i \in DOMAIN q : q[i] = <<c, of>>
    <2>1. ~(Len(Matching(c, occs)) > PerClaim) /\ ~(Len(all) > MaxCandidates)
      BY <1>1, <1>7 DEF PlanTruncated
    <2>2. Len(Matching(c, occs)) \in Nat  BY ClaimIsPlanned
    <2>3. PerClaim \in Nat  BY LimitsAssumption
    <2>4. Len(Matching(c, occs)) <= PerClaim  BY <2>1, <2>2, <2>3
    <2>5. Len(all) <= MaxCandidates  BY <1>2, <1>3, <2>1
    <2>6. PICK p : p = <<c, of>>  OBVIOUS
    <2>7. p \in Range(plan)  BY <1>1, <1>4, <2>4, <2>5, <2>6, CandidatesArePlanned
    <2>8. p[1] = c /\ p[2] = of  BY <2>6
    <2>9. p \in S  BY <1>5, <1>7, <2>7, <2>8 DEF Unlinked
    <2>10. p \in Range(q)  BY <1>6, <2>7, <2>9
    <2>11. QED  BY <2>6, <2>10 DEF Range
  <1>8. QED  BY <1>6, <1>7

-----------------------------------------------------------------------------
(* The inductive invariant *)

Phases ==
  {"idle", "capture", "evidence", "settle", "replace", "code", "record", "model",
   "publish", "report"}

(* The files on disk, and a command: it works on a tree unless it is idle. *)
CommandInv ==
  /\ worktree \in Worktrees /\ lacking \in {Missing, {}} /\ claims \subseteq Claims
  /\ DOMAIN artifacts \subseteq IndexIds /\ Range(artifacts) \subseteq SUBSET Gaps
  /\ pc \in Phases
  /\ tree \in Trees \cup {None} /\ (pc # "idle" => tree \in Trees)
  /\ deep \in BOOLEAN /\ partial \in BOOLEAN
  /\ newest \in 0..Len(journal)

(* What a phase may append.                                                *)
QueueInv ==
  \A e \in Range(queue) :
    /\ pc \in {"evidence", "replace", "record", "publish"}
    /\ pc = "replace" => e.kind = "superseded"
    /\ e.kind = "superseded" => pc = "replace"

(* Every claim of a tree is linked, and bound at a frontier.               *)
RowsIn(s, cs, t) ==
  \A c \in cs \cap TextOf[t] : Has(s, Linked(c, t, c, "deterministic"))

BoundAt(s, n, cs, t) == \A c \in cs \cap TextOf[t] : BoundIn(s, n, c) # None

(* The evidence of a tree, before it is appended and after.                *)
EvidenceReady ==
  /\ \A e \in Range(queue) : e.kind = "snapshot" => e.key[1] = tree
  /\ Has(queue, Snapshot(tree))
  /\ RowsIn(queue, claims, tree)
  /\ deep => OrderedIn(journal, tree, queue)

EvidenceHeld ==
  /\ Has(journal, Snapshot(tree))
  /\ RowsIn(journal, claims, tree)
  /\ deep => OrderedIn(journal, tree, journal)

(* A replacement: at the frontier both claims are bound, the old tree in   *)
(* the new one.                                                            *)
GivesWay(s, n, e) ==
  /\ BoundIn(s, n, e.key[1]) # None /\ BoundIn(s, n, e.key[2]) # None
  /\ IsIn(BoundIn(s, n, e.key[1]), BoundIn(s, n, e.key[2]))

(* What an index has done by each of its phases.                           *)
IndexInv ==
  /\ pc = "evidence" => EvidenceReady
  /\ pc \in {"settle", "replace", "code"} => EvidenceHeld
  /\ pc = "settle" => BoundAt(journal, newest, claims, tree)
  /\ pc = "replace" => \A e \in Range(queue) : GivesWay(journal, newest, e)

CurrentIn(s, cs) == {c \in cs : \A n \in Claims : ~Has(s, Superseded(c, n))}

(* Every candidate of a current claim is linked already or in the batch,   *)
(* and every accepted one gets its link.                                   *)
PlannedIn(s, cs, t, js) ==
  \A c \in CurrentIn(s, cs) : \A of \in Range(CodeOf[t]) \cap Range(Ranked[c]) :
    Has(s, Linked(c, t, of, None)) \/ \E i \in DOMAIN js : js[i] = <<c, of>>

AcceptedIn(s, t, js, results) ==
  \A i \in DOMAIN js : results[i] = "accepted" => Has(s, Linked(js[i][1], t, js[i][2], None))

(* What a reconcile has done by each of its phases.                        *)
BatchInv ==
  /\ pc \in {"model", "publish", "report"} =>
       Has(journal, Snapshot(tree)) /\ (~partial => PlannedIn(journal, claims, tree, jobs))
  /\ pc \in {"publish", "report"} => \A i \in DOMAIN jobs : outcome[i] # Unknown
  /\ pc = "publish" => AcceptedIn(queue, tree, jobs, outcome)
  /\ pc = "report" => AcceptedIn(journal, tree, jobs, outcome)

IInv ==
  CommandInv /\ JournalInv /\ QueueInv /\ IndexInv /\ BatchInv /\ ReconcileInv

-----------------------------------------------------------------------------
(* Every step keeps it *)

LEMMA InitHolds ==
    ASSUME Init
    PROVE  IInv
  <1>1. /\ worktree \in Worktrees /\ lacking = Missing /\ claims = {} /\ journal = <<>>
        /\ artifacts = <<>> /\ pc = "idle" /\ tree = None /\ deep = FALSE /\ queue = <<>>
        /\ newest = 0 /\ partial = FALSE /\ ReconcileInit
    BY DEF Init
  <1>2. CommandInv
    <2>1. DOMAIN artifacts = {} /\ Range(artifacts) = {}
      <3>1. DOMAIN artifacts = {}  BY <1>1
      <3>2. QED  BY <3>1 DEF Range
    <2>2. newest \in 0..Len(journal)
      <3>1. PICK n \in Nat : n = Len(journal)  BY <1>1
      <3>2. QED  BY <1>1, <3>1
    <2>3. /\ DOMAIN artifacts \subseteq IndexIds /\ Range(artifacts) \subseteq SUBSET Gaps
          /\ claims \subseteq Claims
      BY <1>1, <2>1
    <2>4. pc \in Phases /\ deep \in BOOLEAN /\ partial \in BOOLEAN  BY <1>1 DEF Phases
    <2>5. QED  BY <1>1, <2>2, <2>3, <2>4 DEF CommandInv
  <1>3. Range(queue) = {} /\ Range(journal) = {}  BY <1>1, NothingToAppend
  <1>4. JournalInv
    <2>1. journal \in Seq(Events) /\ queue \in Seq(Events)  BY <1>1, NothingToAppend
    <2>2. Grounded({}, journal) /\ Grounded(Range(journal), queue)
      BY <1>1, NothingToAppend
    <2>3. Distinct(journal)
      <3>1. 1..Len(journal) = {}  BY <1>1
      <3>2. QED  BY <3>1 DEF Distinct
    <2>4. QED  BY <1>3, <2>1, <2>2, <2>3 DEF JournalInv
  <1>5. QueueInv  BY <1>3 DEF QueueInv
  <1>6. IndexInv  BY <1>1 DEF IndexInv
  <1>7. BatchInv  BY <1>1 DEF BatchInv
  <1>8. ReconcileInv  BY <1>1, BatchStarts
  <1>9. QED  BY <1>2, <1>4, <1>5, <1>6, <1>7, <1>8 DEF IInv

(* The command ends, with whatever journal.                                *)
LEMMA FinishKeeps ==
    ASSUME IInv, Finish, UNCHANGED cache,
           worktree' \in Worktrees, lacking' \in {Missing, {}}, claims' \subseteq Claims,
           artifacts' = artifacts,
           journal' \in Seq(Events), Distinct(journal'), Grounded({}, journal'),
           \A e \in Range(journal') : Truthful(e)
    PROVE  IInv'
  <1>1. /\ pc' = "idle" /\ tree' = None /\ deep' = FALSE /\ queue' = <<>> /\ newest' = 0
        /\ partial' = FALSE /\ Begin(<<>>)
    BY DEF Finish
  <1>2. CommandInv'
    <2>1. DOMAIN artifacts \subseteq IndexIds /\ Range(artifacts) \subseteq SUBSET Gaps
      BY DEF IInv, CommandInv
    <2>2. newest' \in 0..Len(journal')
      <3>1. PICK n \in Nat : n = Len(journal')  OBVIOUS
      <3>2. QED  BY <1>1, <3>1
    <2>3. QED  BY <1>1, <2>1, <2>2 DEF CommandInv, Phases
  <1>3. JournalInv'  BY <1>1, JournalSettles
  <1>4. QueueInv'
    <2>1. Range(queue') = {}  BY <1>1, NothingToAppend
    <2>2. QED  BY <2>1 DEF QueueInv
  <1>5. IndexInv'  BY <1>1 DEF IndexInv
  <1>6. BatchInv'  BY <1>1 DEF BatchInv
  <1>7. ReconcileInv'
    <2>1. ReconcileInv  BY DEF IInv
    <2>2. QED  BY <1>1, <2>1, BatchEndsEmpty
  <1>8. QED  BY <1>2, <1>3, <1>4, <1>5, <1>6, <1>7 DEF IInv

LEMMA FinishKeepsJournal ==
    ASSUME IInv, Finish, UNCHANGED <<disk, claims, journal, artifacts, cache>>
    PROVE  IInv'
  <1>1. /\ worktree' = worktree /\ lacking' = lacking /\ claims' = claims
        /\ journal' = journal /\ artifacts' = artifacts /\ cache' = cache
    BY DEF disk
  <1>2. /\ worktree \in Worktrees /\ lacking \in {Missing, {}} /\ claims \subseteq Claims
    BY DEF IInv, CommandInv
  <1>3. /\ journal \in Seq(Events) /\ Distinct(journal) /\ Grounded({}, journal)
        /\ \A e \in Range(journal) : Truthful(e)
    BY DEF IInv, JournalInv
  <1>4. /\ journal' \in Seq(Events) /\ Distinct(journal') /\ Grounded({}, journal')
        /\ \A e \in Range(journal') : Truthful(e)
    BY <1>1, <1>3
  <1>5. QED  BY <1>1, <1>2, <1>4, FinishKeeps

(* The command stands still while the world changes.                       *)
LEMMA WorldKeeps ==
    ASSUME IInv, UNCHANGED <<journal, command, reconcileVars>>,
           claims' = claims \/ pc = "idle",
           worktree' \in Worktrees, lacking' \in {Missing, {}}, claims' \subseteq Claims,
           DOMAIN artifacts' \subseteq IndexIds, Range(artifacts') \subseteq SUBSET Gaps
    PROVE  IInv'
  <1>1. /\ journal' = journal /\ pc' = pc /\ tree' = tree /\ deep' = deep /\ queue' = queue
        /\ newest' = newest /\ partial' = partial
        /\ jobs' = jobs /\ outcome' = outcome
    BY DEF command, reconcileVars, batch
  <1>2. CommandInv'  BY <1>1 DEF IInv, CommandInv
  <1>3. JournalInv'  BY <1>1 DEF IInv, JournalInv
  <1>4. QueueInv'  BY <1>1 DEF IInv, QueueInv
  <1>5. IndexInv'
    <2>1. CASE pc = "idle"  BY <1>1, <2>1 DEF IndexInv
    <2>2. CASE claims' = claims
      <3>1. IndexInv  BY DEF IInv
      <3>2. EvidenceReady' <=> EvidenceReady  BY <1>1, <2>2 DEF EvidenceReady
      <3>3. EvidenceHeld' <=> EvidenceHeld  BY <1>1, <2>2 DEF EvidenceHeld
      <3>4. QED  BY <1>1, <2>2, <3>1, <3>2, <3>3 DEF IndexInv
    <2>3. QED  BY <2>1, <2>2
  <1>6. BatchInv'
    <2>1. CASE pc = "idle"  BY <1>1, <2>1 DEF BatchInv
    <2>2. CASE claims' = claims
      <3>1. BatchInv  BY DEF IInv
      <3>2. QED  BY <1>1, <2>2, <3>1 DEF BatchInv
    <2>3. QED  BY <2>1, <2>2
  <1>7. ReconcileInv'
    <2>1. ReconcileInv  BY DEF IInv
    <2>2. UNCHANGED reconcileVars  OBVIOUS
    <2>3. QED  BY <2>1, <2>2, BatchStays
  <1>8. QED  BY <1>2, <1>3, <1>4, <1>5, <1>6, <1>7 DEF IInv

LEMMA FinishSteps ==
    ASSUME IInv, CaptureRefused \/ SourceMoved \/ Reuse \/ Report
    PROVE  IInv'
  <1>1. Finish /\ UNCHANGED <<disk, claims, journal, artifacts, cache>>
    BY DEF CaptureRefused, SourceMoved, Reuse, Report
  <1>2. QED  BY <1>1, FinishKeepsJournal

LEMMA RecordIndexStep ==
    ASSUME IInv, RecordIndex
    PROVE  IInv'
  <1>1. JournalInv /\ worktree \in Worktrees /\ lacking \in {Missing, {}} /\ claims \subseteq Claims
    BY DEF IInv, CommandInv
  <1>2. /\ AppendAll /\ Finish
        /\ worktree' = worktree /\ lacking' = lacking /\ claims' = claims
        /\ artifacts' = artifacts /\ UNCHANGED cache
    BY DEF RecordIndex, disk
  <1>3. /\ journal' \in Seq(Events) /\ Distinct(journal') /\ Grounded({}, journal')
        /\ \A e \in Range(journal') : Truthful(e)
    BY <1>1, <1>2, AppendingAll
  <1>4. QED  BY <1>1, <1>2, <1>3, FinishKeeps

LEMMA InterruptStep ==
    ASSUME IInv, Interrupt
    PROVE  IInv'
  <1>1. JournalInv /\ worktree \in Worktrees /\ lacking \in {Missing, {}} /\ claims \subseteq Claims
    BY DEF IInv, CommandInv
  <1>2. /\ Finish
        /\ worktree' = worktree /\ lacking' = lacking /\ claims' = claims
        /\ artifacts' = artifacts /\ UNCHANGED cache
    BY DEF Interrupt, disk
  <1>3. PICK n \in 0..Len(queue) : journal' = After(FirstOf(n, queue))  BY DEF Interrupt
  <1>4. n \in Nat
    <2>1. queue \in Seq(Events)  BY <1>1 DEF JournalInv
    <2>2. Len(queue) \in Nat  BY <2>1
    <2>3. QED  BY <2>2
  <1>5. /\ journal' \in Seq(Events) /\ Distinct(journal') /\ Grounded({}, journal')
        /\ \A e \in Range(journal') : Truthful(e)
    BY <1>1, <1>3, <1>4, AppendingSome
  <1>6. QED  BY <1>1, <1>2, <1>5, FinishKeeps

LEMMA WorldSteps ==
    ASSUME IInv, Ingest \/ Edit \/ FetchHistory \/ LoseArtifact \/ UNCHANGED vars
    PROVE  IInv'
  <1>1. /\ worktree \in Worktrees /\ lacking \in {Missing, {}} /\ claims \subseteq Claims
        /\ DOMAIN artifacts \subseteq IndexIds /\ Range(artifacts) \subseteq SUBSET Gaps
    BY DEF IInv, CommandInv
  <1>2. CASE Ingest
    <2>1. /\ pc = "idle" /\ claims' = claims \cup Written(worktree)
          /\ worktree' = worktree /\ lacking' = lacking /\ artifacts' = artifacts
          /\ UNCHANGED <<journal, command, reconcileVars>>
      BY <1>2 DEF Ingest, disk
    <2>2. Written(worktree) \subseteq Claims
      <3>1. ASSUME NEW p \in Range(Paths) PROVE Checkout[worktree].files[p].says \subseteq Claims
        <4>1. PICK file \in Files : file = Checkout[worktree].files[p]
          BY <1>1, FilesAssumption
        <4>2. QED  BY <4>1, FileForms
      <3>2. QED  BY <3>1 DEF Written
    <2>3. QED  BY <1>1, <2>1, <2>2, WorldKeeps
  <1>3. CASE Edit
    <2>1. /\ claims' = claims /\ worktree' \in Worktrees /\ lacking' = lacking
          /\ artifacts' = artifacts /\ UNCHANGED <<journal, command, reconcileVars>>
      BY <1>3 DEF Edit
    <2>2. QED  BY <1>1, <2>1, WorldKeeps
  <1>4. CASE FetchHistory
    <2>1. /\ claims' = claims /\ worktree' = worktree /\ lacking' = {}
          /\ artifacts' = artifacts /\ UNCHANGED <<journal, command, reconcileVars>>
      BY <1>4 DEF FetchHistory
    <2>2. QED  BY <1>1, <2>1, WorldKeeps
  <1>5. CASE LoseArtifact
    <2>1. /\ claims' = claims /\ worktree' = worktree /\ lacking' = lacking
          /\ UNCHANGED <<journal, command, reconcileVars>>
      BY <1>5 DEF LoseArtifact, disk
    <2>2. PICK id \in DOMAIN artifacts :
            artifacts' = [other \in DOMAIN artifacts \ {id} |-> artifacts[other]]
      BY <1>5 DEF LoseArtifact
    <2>3. DOMAIN artifacts' \subseteq IndexIds /\ Range(artifacts') \subseteq SUBSET Gaps
      <3>1. DOMAIN artifacts' = DOMAIN artifacts \ {id}  BY <2>2
      <3>2. \A x \in DOMAIN artifacts' : artifacts'[x] = artifacts[x] /\ x \in DOMAIN artifacts
        BY <2>2, <3>1
      <3>3. QED  BY <1>1, <3>1, <3>2 DEF Range
    <2>4. QED  BY <1>1, <2>1, <2>3, WorldKeeps
  <1>6. CASE UNCHANGED vars
    <2>1. /\ claims' = claims /\ worktree' = worktree /\ lacking' = lacking
          /\ artifacts' = artifacts /\ UNCHANGED <<journal, command, reconcileVars>>
      BY <1>6 DEF vars, disk
    <2>2. QED  BY <1>1, <2>1, WorldKeeps
  <1>7. QED  BY <1>2, <1>3, <1>4, <1>5, <1>6

LEMMA StartIndexStep ==
    ASSUME IInv, StartIndex
    PROVE  IInv'
  <1>1. /\ pc = "idle" /\ pc' = "capture" /\ tree' = OnDisk
        /\ worktree' = worktree /\ lacking' = lacking /\ claims' = claims
        /\ journal' = journal /\ artifacts' = artifacts /\ deep' = deep /\ queue' = queue
        /\ newest' = newest /\ partial' = partial /\ UNCHANGED reconcileVars
    BY DEF StartIndex, disk
  <1>2. OnDisk \in Trees
    <2>1. worktree \in Worktrees  BY DEF IInv, CommandInv
    <2>2. PICK commit \in Commits : commit = Checkout[worktree].commit
      BY <2>1, CheckoutAssumption
    <2>3. QED  BY <2>1, <2>2, SnapshotIsNamed DEF OnDisk
  <1>3. CommandInv'  BY <1>1, <1>2 DEF IInv, CommandInv, Phases
  <1>4. JournalInv'  BY <1>1 DEF IInv, JournalInv
  <1>5. QueueInv'
    <2>1. Range(queue) = {}  BY <1>1 DEF IInv, QueueInv
    <2>2. QED  BY <1>1, <2>1 DEF QueueInv
  <1>6. IndexInv'  BY <1>1 DEF IndexInv
  <1>7. BatchInv'  BY <1>1 DEF BatchInv
  <1>8. ReconcileInv'
    <2>1. ReconcileInv  BY DEF IInv
    <2>2. QED  BY <1>1, <2>1, BatchStays
  <1>9. QED  BY <1>3, <1>4, <1>5, <1>6, <1>7, <1>8 DEF IInv

LEMMA CaptureTreeStep ==
    ASSUME IInv, CaptureTree
    PROVE  IInv'
  <1>1. /\ pc = "capture" /\ pc' = "evidence" /\ tree' = SnapshotOf(tree[1], worktree)
        /\ queue' = <<Snapshot(tree')>> \o PlannedRows(tree') \o PlannedRelations(tree')
        /\ deep' = (lacking = {})
        /\ worktree' = worktree /\ lacking' = lacking /\ claims' = claims
        /\ journal' = journal /\ artifacts' = artifacts
        /\ newest' = newest /\ partial' = partial /\ UNCHANGED reconcileVars
    BY DEF CaptureTree, disk
  <1>2. CommandInv /\ JournalInv /\ ReconcileInv  BY DEF IInv
  <1>3. PICK t \in Trees : t = tree'
    <2>1. worktree \in Worktrees /\ tree \in Trees  BY <1>1, <1>2 DEF CommandInv
    <2>2. PICK commit \in Commits : commit = tree[1]  BY <2>1, TreesAreNamed
    <2>3. tree' \in Trees  BY <1>1, <2>1, <2>2, SnapshotIsNamed
    <2>4. QED  BY <2>3
  <1>4. PICK q : q = queue'  OBVIOUS
  <1>5. q = <<Snapshot(t)>> \o PlannedRows(t) \o PlannedRelations(t)
    BY <1>1, <1>3, <1>4
  <1>6. journal \in Seq(Events) /\ claims \subseteq Claims  BY <1>2 DEF CommandInv, JournalInv
  <1>7. /\ q \in Seq(Events)
        /\ \A X : Grounded(X, q)
        /\ \A e \in Range(q) :
             /\ e.kind \in {"snapshot", "occurrence", "linked", "relation"}
             /\ e.kind = "snapshot" => e = Snapshot(t)
             /\ e.kind = "relation" => FactSound(e.key[1], e.key[2], e.data)
        /\ Snapshot(t) \in Range(q)
        /\ \A c \in claims \cap TextOf[t] : Linked(c, t, c, "deterministic") \in Range(q)
        /\ \A e : Has(PlannedRelations(t), e) => Has(q, e)
    BY <1>5, <1>6, EvidenceIsPlanned
  <1>8. CommandInv'
    <2>1. deep' \in BOOLEAN  BY <1>1
    <2>2. QED  BY <1>1, <1>2, <1>3, <2>1 DEF CommandInv, Phases
  <1>9. JournalInv'
    <2>1. \A e \in Range(q) : Truthful(e)  BY <1>7 DEF Truthful
    <2>2. Grounded(Range(journal), q)  BY <1>7
    <2>3. QED  BY <1>1, <1>2, <1>4, <1>7, <2>1, <2>2 DEF JournalInv
  <1>10. QueueInv'  BY <1>1, <1>4, <1>7 DEF QueueInv
  <1>11. EvidenceReady'
    <2>1. ASSUME NEW e \in Range(q), e.kind = "snapshot" PROVE e.key[1] = t
      <3>1. e = Snapshot(t)  BY <1>7, <2>1
      <3>2. QED  BY <3>1 DEF Snapshot, Event
    <2>2. Has(q, Snapshot(t))  BY <1>7, MemberIsHad
    <2>3. RowsIn(q, claims, t)
      <3>1. ASSUME NEW c \in claims \cap TextOf[t]
            PROVE  Has(q, Linked(c, t, c, "deterministic"))
        BY <1>7, MemberIsHad
      <3>2. QED  BY <3>1 DEF RowsIn
    <2>4. ASSUME lacking = {} PROVE OrderedIn(journal, t, q)
      <3>1. ASSUME NEW i \in ComparedIn(journal), journal[i].key[1] # t
            PROVE  Has(q, Relation(journal[i].key[1], t, None))
        <4>1. i \in Compared  BY ReadingsOfJournal
        <4>2. PICK e : e = Relation(journal[i].key[1], t, None)  OBVIOUS
        <4>3. Has(PlannedRelations(t), e)
          BY <1>6, <2>4, <3>1, <4>1, <4>2, RelationsArePlanned
        <4>4. QED  BY <1>7, <4>2, <4>3
      <3>2. QED  BY <3>1 DEF OrderedIn
    <2>5. QED  BY <1>1, <1>3, <1>4, <2>1, <2>2, <2>3, <2>4 DEF EvidenceReady
  <1>12. IndexInv'  BY <1>1, <1>11 DEF IndexInv
  <1>13. BatchInv'  BY <1>1 DEF BatchInv
  <1>14. ReconcileInv'  BY <1>1, <1>2, BatchStays
  <1>15. QED  BY <1>8, <1>9, <1>10, <1>12, <1>13, <1>14 DEF IInv

(* The journal has what was in the queue.                                  *)
LEMMA QueueIsHad ==
    ASSUME NEW s, NEW q \in Seq(Events), \A e \in Range(q) : Has(s, e), NEW e, Has(q, e)
    PROVE  Has(s, e)
  <1>1. PICK i \in 1..Len(q) : Same(q[i], e)  BY DEF Has
  <1>2. PICK f \in Range(q) : f = q[i]  BY DEF Range
  <1>3. Has(s, f) /\ Same(f, e)  BY <1>1, <1>2
  <1>4. QED  BY <1>3, SameIsHad

LEMMA FrontierOf ==
    ASSUME NEW s \in Seq(Events), NEW q \in Seq(Events), \A e \in Range(q) : Has(s, e),
           NEW held, Has(q, held),
           NEW n, n = Max({i \in DOMAIN s : \E e \in Range(q) : Same(s[i], e)})
    PROVE  n \in 0..Len(s) /\ \E i \in 1..n : Same(s[i], held)
  <1>1. PICK N : N = {i \in DOMAIN s : \E e \in Range(q) : Same(s[i], e)}  OBVIOUS
  <1>2. PICK m \in Nat : m = Len(s)  OBVIOUS
  <1>3. N \subseteq 1..m  BY <1>1, <1>2
  <1>4. PICK j \in 1..Len(q) : Same(q[j], held)  BY DEF Has
  <1>5. PICK f \in Range(q) : f = q[j]  BY DEF Range
  <1>6. PICK i \in 1..Len(s) : Same(s[i], f)  BY <1>5 DEF Has
  <1>7. i \in N  BY <1>1, <1>6
  <1>8. n \in N /\ n >= i  BY <1>1, <1>2, <1>3, <1>7, LatestPosition
  <1>9. Same(s[i], held)  BY <1>4, <1>5, <1>6 DEF Same
  <1>10. n \in 1..m /\ i \in 1..m  BY <1>3, <1>7, <1>8
  <1>11. i \in 1..n /\ n \in 0..m  BY <1>8, <1>10
  <1>12. QED  BY <1>2, <1>9, <1>11

LEMMA AppendEvidenceStep ==
    ASSUME IInv, AppendEvidence
    PROVE  IInv'
  <1>1. /\ pc = "evidence" /\ pc' = "settle" /\ AppendAll /\ queue' = <<>>
        /\ newest' = Max({n \in DOMAIN journal' : \E e \in Range(queue) : Same(journal'[n], e)})
        /\ worktree' = worktree /\ lacking' = lacking /\ claims' = claims
        /\ artifacts' = artifacts /\ tree' = tree /\ deep' = deep
        /\ partial' = partial /\ UNCHANGED reconcileVars
    BY DEF AppendEvidence, disk
  <1>2. CommandInv /\ JournalInv /\ ReconcileInv /\ EvidenceReady
    BY <1>1 DEF IInv, IndexInv
  <1>3. /\ journal' \in Seq(Events) /\ Distinct(journal') /\ Grounded({}, journal')
        /\ \A e \in Range(journal') : Truthful(e)
        /\ Grows(journal, journal', Range(queue))
        /\ \A e \in Range(queue) : Has(journal', e)
    BY <1>1, <1>2, AppendingAll
  <1>4. PICK v \in Seq(Events) : v = journal'  BY <1>3
  <1>5. PICK q \in Seq(Events) : q = queue  BY <1>2 DEF JournalInv
  <1>6. PICK n : n = newest'  OBVIOUS
  <1>7. tree \in Trees /\ claims \subseteq Claims  BY <1>1, <1>2 DEF CommandInv
  <1>8. \A e : Has(q, e) => Has(v, e)  BY <1>3, <1>4, <1>5, QueueIsHad
  <1>9. ASSUME NEW e, Has(q, e) PROVE n \in 0..Len(v) /\ \E i \in 1..n : Same(v[i], e)
    BY <1>1, <1>3, <1>4, <1>5, <1>6, <1>9, FrontierOf
  <1>10. Has(q, Snapshot(tree))  BY <1>2, <1>5 DEF EvidenceReady
  <1>11. n \in 0..Len(v)  BY <1>9, <1>10
  <1>12. CommandInv'  BY <1>1, <1>2, <1>4, <1>6, <1>11 DEF CommandInv, Phases
  <1>13. JournalInv'  BY <1>1, <1>3, JournalSettles
  <1>14. QueueInv'
    <2>1. Range(queue') = {}  BY <1>1, NothingToAppend
    <2>2. QED  BY <2>1 DEF QueueInv
  <1>15. RowsIn(v, claims, tree)
    <2>1. RowsIn(q, claims, tree)  BY <1>2, <1>5 DEF EvidenceReady
    <2>2. QED  BY <1>8, <2>1 DEF RowsIn
  <1>16. deep => OrderedIn(v, tree, v)
    <2>1. SUFFICES ASSUME deep PROVE OrderedIn(v, tree, v)  OBVIOUS
    <2>2. PICK u \in Seq(Events) : u = journal  BY <1>2 DEF JournalInv
    <2>3. OrderedIn(u, tree, q)  BY <1>2, <1>5, <2>1, <2>2 DEF EvidenceReady
    <2>4. PICK S : S = Range(q)  OBVIOUS
    <2>5. \A e \in S : e.kind = "snapshot" => e.key[1] = tree
      BY <1>2, <1>5, <2>4 DEF EvidenceReady
    <2>6. Grows(u, v, S)  BY <1>3, <1>4, <1>5, <2>2, <2>4
    <2>7. QED  BY <1>8, <2>3, <2>5, <2>6, OrderedStill
  <1>17. EvidenceHeld'
    BY <1>1, <1>4, <1>8, <1>10, <1>15, <1>16 DEF EvidenceHeld
  <1>18. BoundAt(v, n, claims, tree)
    <2>1. ASSUME NEW c \in claims \cap TextOf[tree] PROVE BoundIn(v, n, c) # None
      <3>1. PICK e : e = Linked(c, tree, c, "deterministic")  OBVIOUS
      <3>2. Has(q, e)  BY <1>2, <1>5, <3>1 DEF EvidenceReady, RowsIn
      <3>3. \E i \in 1..n : Same(v[i], e)  BY <1>9, <3>2
      <3>4. c \in Claims  BY <1>7
      <3>5. \E i \in 1..n, t \in Trees : Same(v[i], Linked(c, t, c, "deterministic"))
        BY <1>7, <3>1, <3>3
      <3>6. QED  BY <1>11, <3>4, <3>5, ClaimIsBound
    <2>2. QED  BY <2>1 DEF BoundAt
  <1>19. IndexInv'  BY <1>1, <1>4, <1>6, <1>17, <1>18 DEF IndexInv
  <1>20. BatchInv'  BY <1>1 DEF BatchInv
  <1>21. ReconcileInv'  BY <1>1, <1>2, BatchStays
  <1>22. QED  BY <1>12, <1>13, <1>14, <1>19, <1>20, <1>21 DEF IInv

(* Replacements are judged at the receipts' frontier.                      *)
LEMMA SettleReplacementsStep ==
    ASSUME IInv, SettleReplacements
    PROVE  IInv'
  <1>1. /\ pc = "settle" /\ pc' = "replace"
        /\ queue' = SetToSeq({Superseded(p[2], p[1]) : p \in Applied})
        /\ worktree' = worktree /\ lacking' = lacking /\ claims' = claims
        /\ journal' = journal /\ artifacts' = artifacts /\ tree' = tree /\ deep' = deep
        /\ newest' = newest /\ partial' = partial /\ UNCHANGED reconcileVars
    BY DEF SettleReplacements, disk
  <1>2. /\ CommandInv /\ JournalInv /\ ReconcileInv /\ EvidenceHeld
        /\ BoundAt(journal, newest, claims, tree)
    BY <1>1 DEF IInv, IndexInv
  <1>3. tree \in Trees /\ claims \subseteq Claims /\ newest \in 0..Len(journal)
    BY <1>1, <1>2 DEF CommandInv
  <1>4. PICK s \in Seq(Events) : s = journal  BY <1>2 DEF JournalInv
  <1>5. \A e \in Range(s) : Truthful(e)  BY <1>2, <1>4 DEF JournalInv
  <1>6. PICK n \in 0..Len(s) : n = newest  BY <1>3, <1>4
  <1>7. PICK S \in SUBSET (Claims \X Claims) : S = Applied
    BY ClaimsAssumption DEF Applied
  <1>8. PICK q : q = queue'  OBVIOUS
  <1>9. q \in Seq(Events) /\ \A e \in Range(q) : \E p \in S : e = Superseded(p[2], p[1])
    BY <1>1, <1>7, <1>8, ReplacementsAreListed
  <1>10. ASSUME NEW e \in Range(q) PROVE e.kind = "superseded" /\ GivesWay(s, n, e)
    <2>1. PICK p \in S : e = Superseded(p[2], p[1])  BY <1>9
    <2>2. PICK new \in Claims : new = p[1]  OBVIOUS
    <2>3. PICK old \in Claims : old = p[2]  OBVIOUS
    <2>4. e.kind = "superseded" /\ e.key = <<old, new>>
      BY <2>1, <2>2, <2>3 DEF Superseded, Event
    <2>5. e.key[1] = old /\ e.key[2] = new  BY <2>4
    <2>6. new \in Range(Rows(tree)) /\ Allows(ClaimOrderThrough(n, old, new))
      BY <1>6, <1>7, <2>2, <2>3 DEF Applied
    <2>7. new \in claims \cap TextOf[tree]  BY <1>3, <2>6, RowsAreHeld
    <2>8. BoundIn(s, n, new) # None  BY <1>2, <1>4, <1>6, <2>7 DEF BoundAt
    <2>9. BoundIn(s, n, old) # None /\ IsIn(BoundIn(s, n, old), BoundIn(s, n, new))
      BY <1>4, <1>5, <2>6, <2>8, AllowedIsIn
    <2>10. QED  BY <2>4, <2>5, <2>8, <2>9 DEF GivesWay
  <1>11. CommandInv'  BY <1>1, <1>2 DEF CommandInv, Phases
  <1>12. JournalInv'
    <2>1. \A e \in Range(q) : Truthful(e)  BY <1>10 DEF Truthful
    <2>2. Grounded(Range(journal), q)  BY <1>9, <1>10, PlainIsGrounded
    <2>3. QED  BY <1>1, <1>2, <1>8, <1>9, <2>1, <2>2 DEF JournalInv
  <1>13. QueueInv'  BY <1>1, <1>8, <1>10 DEF QueueInv
  <1>14. EvidenceHeld'  BY <1>1, <1>2 DEF EvidenceHeld
  <1>15. IndexInv'  BY <1>1, <1>4, <1>6, <1>8, <1>10, <1>14 DEF IndexInv
  <1>16. BatchInv'  BY <1>1 DEF BatchInv
  <1>17. ReconcileInv'  BY <1>1, <1>2, BatchStays
  <1>18. QED  BY <1>11, <1>12, <1>13, <1>15, <1>16, <1>17 DEF IInv

LEMMA AppendReplacementsStep ==
    ASSUME IInv, AppendReplacements
    PROVE  IInv'
  <1>1. /\ pc = "replace" /\ pc' = "code" /\ AppendAll /\ queue' = <<>>
        /\ worktree' = worktree /\ lacking' = lacking /\ claims' = claims
        /\ artifacts' = artifacts /\ tree' = tree /\ deep' = deep
        /\ newest' = newest /\ partial' = partial /\ UNCHANGED reconcileVars
    BY DEF AppendReplacements, disk
  <1>2. CommandInv /\ JournalInv /\ QueueInv /\ ReconcileInv /\ EvidenceHeld
    BY <1>1 DEF IInv, IndexInv
  <1>3. /\ journal' \in Seq(Events) /\ Distinct(journal') /\ Grounded({}, journal')
        /\ \A e \in Range(journal') : Truthful(e)
        /\ Grows(journal, journal', Range(queue))
    BY <1>1, <1>2, AppendingAll
  <1>4. PICK u \in Seq(Events) : u = journal  BY <1>2 DEF JournalInv
  <1>5. PICK v \in Seq(Events) : v = journal'  BY <1>3
  <1>6. PICK S : S = Range(queue)  OBVIOUS
  <1>7. Grows(u, v, S)  BY <1>3, <1>4, <1>5, <1>6
  <1>8. \A e : Has(u, e) => Has(v, e)  BY <1>7, HadBefore
  <1>9. CommandInv'
    <2>1. newest' \in 0..Len(journal')
      <3>1. newest \in 0..Len(u) /\ Len(u) <= Len(v)
        BY <1>2, <1>4, <1>7 DEF CommandInv, Grows
      <3>2. Len(u) \in Nat /\ Len(v) \in Nat  OBVIOUS
      <3>3. newest \in 0..Len(v)  BY <3>1, <3>2
      <3>4. QED  BY <1>1, <1>5, <3>3
    <2>2. QED  BY <1>1, <1>2, <2>1 DEF CommandInv, Phases
  <1>10. JournalInv'  BY <1>1, <1>3, JournalSettles
  <1>11. QueueInv'
    <2>1. Range(queue') = {}  BY <1>1, NothingToAppend
    <2>2. QED  BY <2>1 DEF QueueInv
  <1>12. EvidenceHeld'
    <2>1. Has(v, Snapshot(tree))  BY <1>2, <1>4, <1>8 DEF EvidenceHeld
    <2>2. RowsIn(v, claims, tree)
      <3>1. RowsIn(u, claims, tree)  BY <1>2, <1>4 DEF EvidenceHeld
      <3>2. QED  BY <1>8, <3>1 DEF RowsIn
    <2>3. deep => OrderedIn(v, tree, v)
      <3>1. SUFFICES ASSUME deep PROVE OrderedIn(v, tree, v)  OBVIOUS
      <3>2. OrderedIn(u, tree, u)  BY <1>2, <1>4, <3>1 DEF EvidenceHeld
      <3>3. \A e \in S : e.kind = "snapshot" => e.key[1] = tree
        BY <1>1, <1>2, <1>6 DEF QueueInv
      <3>4. QED  BY <1>7, <1>8, <3>2, <3>3, OrderedStill
    <2>4. QED  BY <1>1, <1>5, <2>1, <2>2, <2>3 DEF EvidenceHeld
  <1>13. IndexInv'  BY <1>1, <1>12 DEF IndexInv
  <1>14. BatchInv'  BY <1>1 DEF BatchInv
  <1>15. ReconcileInv'  BY <1>1, <1>2, BatchStays
  <1>16. QED  BY <1>9, <1>10, <1>11, <1>13, <1>14, <1>15 DEF IInv

LEMMA AnalysesAreSound ==
    ASSUME tree \in Trees, worktree \in Worktrees, NEW analysis \in Analyses
    PROVE  /\ analysis.occs \subseteq Codes /\ analysis.coverage \subseteq Gaps
           /\ analysis.coverage = {} => analysis.occs = Range(CodeOf[tree])
  <1>1. PICK found \in Seq(Codes) : found = CodeOf[tree]  BY TreesHold
  <1>2. PICK seen : seen = GapsOf[worktree]  OBVIOUS
  <1>3. seen \subseteq Gaps  BY <1>2, GapsAreKnown
  <1>4. \A s \in Seq(Codes) : Range(s) \subseteq Codes  BY DEF Range
  <1>5. CASE analysis = [occs |-> Range(found), coverage |-> seen]
    <2>1. analysis.occs = Range(found) /\ analysis.coverage = seen  BY <1>5
    <2>2. QED  BY <1>1, <1>3, <1>4, <2>1
  <1>6. ASSUME NEW n \in Cuts[tree[1]] \cap 0..Len(found),
               analysis = [occs |-> Range(FirstOf(n, found)), coverage |-> seen \cup {"budget"}]
        PROVE  /\ analysis.occs \subseteq Codes /\ analysis.coverage \subseteq Gaps
               /\ analysis.coverage # {}
    <2>1. n \in Nat
      <3>1. Len(found) \in Nat  OBVIOUS
      <3>2. QED  BY <3>1
    <2>2. PICK s \in Seq(Codes) : s = FirstOf(n, found)  BY <2>1, FirstOfKeeps
    <2>3. analysis.occs = Range(s) /\ analysis.coverage = seen \cup {"budget"}
      BY <1>6, <2>2
    <2>4. "budget" \in Gaps  BY DEF Gaps
    <2>5. QED  BY <1>3, <1>4, <2>3, <2>4
  <1>7. \/ analysis = [occs |-> Range(found), coverage |-> seen]
        \/ \E n \in Cuts[tree[1]] \cap 0..Len(found) :
             analysis = [occs |-> Range(FirstOf(n, found)), coverage |-> seen \cup {"budget"}]
    BY <1>1, <1>2 DEF Analyses
  <1>8. QED  BY <1>1, <1>5, <1>6, <1>7

LEMMA BuildStep ==
    ASSUME IInv, Build
    PROVE  IInv'
  <1>1. /\ pc = "code" /\ pc' = "record"
        /\ worktree' = worktree /\ lacking' = lacking /\ claims' = claims
        /\ journal' = journal /\ tree' = tree /\ deep' = deep
        /\ newest' = newest /\ partial' = partial /\ UNCHANGED reconcileVars
    BY DEF Build, disk
  <1>2. CommandInv /\ JournalInv /\ ReconcileInv  BY DEF IInv
  <1>3. tree \in Trees /\ worktree \in Worktrees  BY <1>1, <1>2 DEF CommandInv
  <1>4. PICK build \in Builds, analysis \in Analyses :
          LET id == [tree |-> tree, occs |-> analysis.occs, scip |-> build = "scip"]
          IN /\ artifacts' = [other \in DOMAIN artifacts \cup {id} |->
                                IF other = id THEN analysis.coverage ELSE artifacts[other]]
             /\ queue' = <<IndexRecorded(id, analysis.coverage)>>
    BY DEF Build
  <1>5. PICK id : id = [tree |-> tree, occs |-> analysis.occs, scip |-> build = "scip"]
    OBVIOUS
  <1>6. PICK coverage : coverage = analysis.coverage  OBVIOUS
  <1>7. /\ analysis.occs \subseteq Codes /\ coverage \subseteq Gaps
        /\ coverage = {} => analysis.occs = Range(CodeOf[tree])
    BY <1>3, <1>6, AnalysesAreSound
  <1>8. PICK scip \in BOOLEAN : scip <=> build = "scip"  BY Zenon
  <1>9. id = [tree |-> tree, occs |-> analysis.occs, scip |-> scip]
    BY <1>5, <1>8, Zenon
  <1>10. id \in IndexIds  BY <1>3, <1>7, <1>9 DEF IndexIds
  <1>11. id.tree = tree /\ id.occs = analysis.occs  BY <1>9
  <1>12. PICK f : f = [other \in DOMAIN artifacts \cup {id} |->
                         IF other = id THEN coverage ELSE artifacts[other]]
    OBVIOUS
  <1>13. artifacts' = f  BY <1>4, <1>5, <1>6, <1>12
  <1>14. PICK e \in Events : e = IndexRecorded(id, coverage)
    BY <1>7, <1>10, EventsMade
  <1>15. e.kind = "index" /\ e.key = <<id>> /\ e.data = coverage  BY <1>14 DEF IndexRecorded, Event
  <1>16. queue' = <<e>>  BY <1>4, <1>5, <1>6, <1>14
  <1>17. PICK q : q = <<e>>  OBVIOUS
  <1>18. q \in Seq(Events) /\ Range(q) = {e}
    <2>1. q \in Seq(Events) /\ Len(q) = 1 /\ q[1] = e  BY <1>17
    <2>2. DOMAIN q = {1}  BY <2>1
    <2>3. QED  BY <2>1, <2>2 DEF Range
  <1>19. CommandInv'
    <2>1. DOMAIN f = DOMAIN artifacts \cup {id}  BY <1>12
    <2>2. \A x \in DOMAIN f : f[x] = coverage \/ (x \in DOMAIN artifacts /\ f[x] = artifacts[x])
      BY <1>12, <2>1
    <2>3. DOMAIN f \subseteq IndexIds /\ Range(f) \subseteq SUBSET Gaps
      BY <1>2, <1>7, <1>10, <2>1, <2>2 DEF CommandInv, Range
    <2>4. QED  BY <1>1, <1>2, <1>13, <2>3 DEF CommandInv, Phases
  <1>20. JournalInv'
    <2>1. Truthful(e)
      <3>1. e.key[1] = id  BY <1>15
      <3>2. QED  BY <1>7, <1>11, <1>15, <3>1 DEF Truthful
    <2>2. Grounded(Range(journal), q)  BY <1>15, <1>18, PlainIsGrounded
    <2>3. QED  BY <1>1, <1>2, <1>16, <1>17, <1>18, <2>1, <2>2 DEF JournalInv
  <1>21. QueueInv'  BY <1>1, <1>15, <1>16, <1>17, <1>18 DEF QueueInv
  <1>22. IndexInv'  BY <1>1 DEF IndexInv
  <1>23. BatchInv'  BY <1>1 DEF BatchInv
  <1>24. ReconcileInv'  BY <1>1, <1>2, BatchStays
  <1>25. QED  BY <1>19, <1>20, <1>21, <1>22, <1>23, <1>24 DEF IInv

LEMMA CurrentAre ==
    ASSUME journal \in Seq(Events)
    PROVE  Current = CurrentIn(journal, claims)
  <1>1. \A e : Holds(e) <=> Has(journal, e)  BY HoldsIsHas
  <1>2. QED  BY <1>1 DEF Current, CurrentIn

LEMMA LatestTreeIsHeld ==
    ASSUME journal \in Seq(Events), Through(Frontier, "snapshot") # {}
    PROVE  LatestTree \in Trees /\ Has(journal, Snapshot(LatestTree))
  <1>1. PICK n \in Nat : n = Len(journal)  OBVIOUS
  <1>2. PICK S : S = Through(Frontier, "snapshot")  OBVIOUS
  <1>3. S \subseteq 1..n  BY <1>1, <1>2 DEF Through, Frontier
  <1>4. PICK m \in S : m = Max(S)  BY <1>1, <1>2, <1>3, LatestPosition
  <1>5. m \in 1..Len(journal) /\ journal[m].kind = "snapshot"
    BY <1>1, <1>2, <1>3 DEF Through
  <1>6. LatestTree = journal[m].key[1]  BY <1>2, <1>4 DEF LatestTree
  <1>7. journal[m].key[1] \in Trees /\ journal[m] = Snapshot(journal[m].key[1])
    BY <1>5, SnapshotsAreTrees
  <1>8. QED  BY <1>5, <1>6, <1>7 DEF Has, Same

LEMMA LatestIndexIsTold ==
    ASSUME JournalInv, NEW t, IndexesOf(t) # {}, LatestIndex(t).data = {}
    PROVE  LatestIndex(t).key[1].occs = Range(CodeOf[t])
  <1>1. PICK n \in Nat : n = Len(journal)  BY DEF JournalInv
  <1>2. PICK S : S = IndexesOf(t)  OBVIOUS
  <1>3. S \subseteq 1..n  BY <1>1, <1>2 DEF IndexesOf, Through, Frontier
  <1>4. PICK m \in S : m = Max(S)  BY <1>1, <1>2, <1>3, LatestPosition
  <1>5. /\ m \in 1..Len(journal) /\ journal[m].kind = "index"
        /\ journal[m].key[1].tree = t
    BY <1>1, <1>2, <1>3 DEF IndexesOf, Through
  <1>6. LatestIndex(t) = journal[m]  BY <1>2, <1>4 DEF LatestIndex
  <1>7. journal[m] \in Range(journal)  BY <1>5 DEF JournalInv, Range
  <1>8. Truthful(journal[m])  BY <1>7 DEF JournalInv
  <1>9. QED  BY <1>5, <1>6, <1>8 DEF Truthful

LEMMA StartReconcileStep ==
    ASSUME IInv, StartReconcile
    PROVE  IInv'
  <1>1. /\ pc = "idle" /\ pc' = "model" /\ tree' = LatestTree /\ queue' = <<>> /\ newest' = 0
        /\ worktree' = worktree /\ lacking' = lacking /\ claims' = claims
        /\ journal' = journal /\ artifacts' = artifacts /\ deep' = deep /\ cache' = cache
        /\ Through(Frontier, "snapshot") # {} /\ IndexesOf(LatestTree) # {}
    BY DEF StartReconcile, disk
  <1>2. CommandInv /\ JournalInv /\ ReconcileInv  BY DEF IInv
  <1>3. journal \in Seq(Events) /\ claims \subseteq Claims
    BY <1>2 DEF CommandInv, JournalInv
  <1>4. PICK t \in Trees : t = LatestTree  BY <1>1, <1>3, LatestTreeIsHeld
  <1>5. Has(journal, Snapshot(t))  BY <1>1, <1>3, <1>4, LatestTreeIsHeld
  <1>6. PICK index : index = LatestIndex(LatestTree)  OBVIOUS
  <1>7. PICK occs : occs = index.key[1].occs  OBVIOUS
  <1>8. PICK plan : plan = FirstOf(MaxCandidates, PlanCandidates(occs))  OBVIOUS
  <1>9. PICK q : q = Only(plan, Unlinked(plan, t))  OBVIOUS
  <1>10. Begin(q)
    BY <1>4, <1>6, <1>7, <1>8, <1>9 DEF StartReconcile, Unlinked
  <1>11. partial' = (index.data # {} \/ PlanTruncated(occs))
    BY <1>6, <1>7 DEF StartReconcile
  <1>12. Current = CurrentIn(journal, claims) /\ Current \subseteq Claims
    <2>1. Current = CurrentIn(journal, claims)  BY <1>3, CurrentAre
    <2>2. QED  BY <1>3, <2>1 DEF CurrentIn
  <1>13. /\ q \in Seq(Candidates)
         /\ ~PlanTruncated(occs) =>
              \A c \in Current : \A of \in occs \cap Range(Ranked[c]) :
                HasLink(c, t, of) \/ \E i \in DOMAIN q : q[i] = <<c, of>>
    BY <1>8, <1>9, <1>12, BatchIsPlanned
  <1>14. CommandInv'
    <2>1. partial' \in BOOLEAN  BY <1>11
    <2>2. newest' \in 0..Len(journal')
      <3>1. PICK n \in Nat : n = Len(journal)  BY <1>3
      <3>2. QED  BY <1>1, <3>1
    <2>3. QED  BY <1>1, <1>2, <1>4, <2>1, <2>2 DEF CommandInv, Phases
  <1>15. JournalInv'
    <2>1. /\ journal' \in Seq(Events) /\ Distinct(journal') /\ Grounded({}, journal')
          /\ \A e \in Range(journal') : Truthful(e)
      BY <1>1, <1>2 DEF JournalInv
    <2>2. QED  BY <1>1, <2>1, JournalSettles
  <1>16. QueueInv'
    <2>1. Range(queue') = {}  BY <1>1, NothingToAppend
    <2>2. QED  BY <2>1 DEF QueueInv
  <1>17. IndexInv'  BY <1>1 DEF IndexInv
  <1>18. BatchInv'
    <2>1. jobs' = q  BY <1>10 DEF Begin
    <2>2. ASSUME ~partial' PROVE PlannedIn(journal, claims, t, q)
      <3>1. index.data = {} /\ ~PlanTruncated(occs)  BY <1>11, <2>2
      <3>2. occs = Range(CodeOf[t])
        BY <1>1, <1>2, <1>4, <1>6, <1>7, <3>1, LatestIndexIsTold
      <3>3. \A c \in Current : \A of \in occs \cap Range(Ranked[c]) :
              HasLink(c, t, of) \/ \E i \in DOMAIN q : q[i] = <<c, of>>
        BY <1>13, <3>1
      <3>4. ASSUME NEW c, NEW of PROVE HasLink(c, t, of) <=> Has(journal, Linked(c, t, of, None))
        <4>1. PICK e : e = Linked(c, t, of, None)  OBVIOUS
        <4>2. Holds(e) <=> Has(journal, e)  BY <1>3, HoldsIsHas
        <4>3. QED  BY <4>1, <4>2 DEF HasLink
      <3>5. QED  BY <1>12, <3>2, <3>3, <3>4 DEF PlannedIn
    <2>3. QED  BY <1>1, <1>4, <1>5, <2>1, <2>2 DEF BatchInv
  <1>19. ReconcileInv'
    <2>1. cache \in [Candidates -> Verdicts \cup {Unknown}]
      BY <1>2 DEF ReconcileInv, ReconcileTypeOK
    <2>2. QED  BY <1>1, <1>10, <1>13, <2>1, BatchBegins
  <1>20. QED  BY <1>14, <1>15, <1>16, <1>17, <1>18, <1>19 DEF IInv

LEMMA AskModelStep ==
    ASSUME IInv, AskModel
    PROVE  IInv'
  <1>1. /\ pc = "model" /\ pc' = "model" /\ BatchStep
        /\ worktree' = worktree /\ lacking' = lacking /\ claims' = claims
        /\ journal' = journal /\ artifacts' = artifacts /\ tree' = tree /\ deep' = deep
        /\ queue' = queue /\ newest' = newest /\ partial' = partial
    BY DEF AskModel, disk, command
  <1>2. CommandInv /\ JournalInv /\ QueueInv /\ BatchInv /\ ReconcileInv  BY DEF IInv
  <1>3. ReconcileInv' /\ jobs' = jobs  BY <1>1, <1>2, BatchSteps
  <1>4. CommandInv'  BY <1>1, <1>2 DEF CommandInv
  <1>5. JournalInv'  BY <1>1, <1>2 DEF JournalInv
  <1>6. QueueInv'  BY <1>1, <1>2 DEF QueueInv
  <1>7. IndexInv'  BY <1>1 DEF IndexInv
  <1>8. BatchInv'  BY <1>1, <1>2, <1>3 DEF BatchInv
  <1>9. QED  BY <1>3, <1>4, <1>5, <1>6, <1>7, <1>8 DEF IInv

LEMMA AcceptProposalsStep ==
    ASSUME IInv, AcceptProposals
    PROVE  IInv'
  <1>1. /\ pc = "model" /\ pc' = "publish" /\ Finished
        /\ queue' = Joined([i \in DOMAIN jobs |->
                              IF outcome[i] = "accepted"
                              THEN AcceptedEvents(jobs[i]) ELSE <<>>])
        /\ worktree' = worktree /\ lacking' = lacking /\ claims' = claims
        /\ journal' = journal /\ artifacts' = artifacts /\ tree' = tree /\ deep' = deep
        /\ newest' = newest /\ partial' = partial /\ UNCHANGED reconcileVars
    BY DEF AcceptProposals, disk
  <1>2. CommandInv /\ JournalInv /\ BatchInv /\ ReconcileInv  BY DEF IInv
  <1>3. jobs' = jobs /\ outcome' = outcome  BY <1>1 DEF reconcileVars, batch
  <1>4. tree \in Trees /\ jobs \in Seq(Candidates)
    BY <1>1, <1>2 DEF CommandInv, ReconcileInv, ReconcileTypeOK
  <1>5. PICK q : q = queue'  OBVIOUS
  <1>6. /\ q \in Seq(Events)
        /\ Grounded({Snapshot(tree)}, q)
        /\ \A e \in Range(q) : e.kind \in {"occurrence", "accepted", "linked"}
        /\ \A i \in DOMAIN jobs : outcome[i] = "accepted" =>
             Linked(jobs[i][1], tree, jobs[i][2], "semantic") \in Range(q)
    BY <1>1, <1>4, <1>5, AcceptancesArePlanned
  <1>7. CommandInv'  BY <1>1, <1>2 DEF CommandInv, Phases
  <1>8. JournalInv'
    <2>1. \A e \in Range(q) : Truthful(e)  BY <1>6 DEF Truthful
    <2>2. Grounded(Range(journal), q)
      <3>1. Has(journal, Snapshot(tree))  BY <1>1, <1>2 DEF BatchInv
      <3>2. PICK i \in 1..Len(journal) : Same(journal[i], Snapshot(tree))  BY <3>1 DEF Has
      <3>3. journal[i] \in Range(journal)  BY <1>2 DEF JournalInv, Range
      <3>4. \A f \in {Snapshot(tree)} : \E g \in Range(journal) : Same(g, f)
        BY <3>2, <3>3
      <3>5. QED  BY <1>6, <3>4, GroundedOnMore
    <2>3. QED  BY <1>1, <1>2, <1>5, <1>6, <2>1, <2>2 DEF JournalInv
  <1>9. QueueInv'  BY <1>1, <1>5, <1>6 DEF QueueInv
  <1>10. IndexInv'  BY <1>1 DEF IndexInv
  <1>11. BatchInv'
    <2>1. \A i \in DOMAIN jobs : outcome[i] # Unknown  BY <1>1, <1>2, FinishedIsServed
    <2>2. AcceptedIn(q, tree, jobs, outcome)
      <3>1. ASSUME NEW i \in DOMAIN jobs, outcome[i] = "accepted"
            PROVE  Has(q, Linked(jobs[i][1], tree, jobs[i][2], None))
        <4>1. PICK e : e = Linked(jobs[i][1], tree, jobs[i][2], "semantic")  OBVIOUS
        <4>2. PICK f : f = Linked(jobs[i][1], tree, jobs[i][2], None)  OBVIOUS
        <4>3. Has(q, e)  BY <1>6, <3>1, <4>1, MemberIsHad
        <4>4. Same(e, f)  BY <4>1, <4>2 DEF Same, Linked, Event
        <4>5. QED  BY <4>2, <4>3, <4>4, SameIsHad
      <3>2. QED  BY <3>1 DEF AcceptedIn
    <2>3. /\ Has(journal, Snapshot(tree))
          /\ ~partial => PlannedIn(journal, claims, tree, jobs)
      BY <1>1, <1>2 DEF BatchInv
    <2>4. QED  BY <1>1, <1>3, <1>5, <2>1, <2>2, <2>3 DEF BatchInv
  <1>12. ReconcileInv'  BY <1>1, <1>2, BatchStays
  <1>13. QED  BY <1>7, <1>8, <1>9, <1>10, <1>11, <1>12 DEF IInv

LEMMA AppendAcceptedStep ==
    ASSUME IInv, AppendAccepted
    PROVE  IInv'
  <1>1. /\ pc = "publish" /\ pc' = "report" /\ AppendAll /\ queue' = <<>>
        /\ worktree' = worktree /\ lacking' = lacking /\ claims' = claims
        /\ artifacts' = artifacts /\ tree' = tree /\ deep' = deep
        /\ newest' = newest /\ partial' = partial /\ UNCHANGED reconcileVars
    BY DEF AppendAccepted, disk
  <1>2. CommandInv /\ JournalInv /\ BatchInv /\ ReconcileInv  BY DEF IInv
  <1>3. jobs' = jobs /\ outcome' = outcome  BY <1>1 DEF reconcileVars, batch
  <1>4. /\ journal' \in Seq(Events) /\ Distinct(journal') /\ Grounded({}, journal')
        /\ \A e \in Range(journal') : Truthful(e)
        /\ Grows(journal, journal', Range(queue))
        /\ \A e \in Range(queue) : Has(journal', e)
    BY <1>1, <1>2, AppendingAll
  <1>5. PICK u \in Seq(Events) : u = journal  BY <1>2 DEF JournalInv
  <1>6. PICK v \in Seq(Events) : v = journal'  BY <1>4
  <1>7. PICK q \in Seq(Events) : q = queue  BY <1>2 DEF JournalInv
  <1>8. PICK S : S = Range(queue)  OBVIOUS
  <1>9. Grows(u, v, S)  BY <1>4, <1>5, <1>6, <1>8
  <1>10. \A e : Has(u, e) => Has(v, e)  BY <1>9, HadBefore
  <1>11. \A e : Has(q, e) => Has(v, e)  BY <1>4, <1>6, <1>7, QueueIsHad
  <1>12. CommandInv'
    <2>1. newest' \in 0..Len(journal')
      <3>1. newest \in 0..Len(u) /\ Len(u) <= Len(v)
        BY <1>2, <1>5, <1>9 DEF CommandInv, Grows
      <3>2. Len(u) \in Nat /\ Len(v) \in Nat  OBVIOUS
      <3>3. newest \in 0..Len(v)  BY <3>1, <3>2
      <3>4. QED  BY <1>1, <1>6, <3>3
    <2>2. QED  BY <1>1, <1>2, <2>1 DEF CommandInv, Phases
  <1>13. JournalInv'  BY <1>1, <1>4, JournalSettles
  <1>14. QueueInv'
    <2>1. Range(queue') = {}  BY <1>1, NothingToAppend
    <2>2. QED  BY <2>1 DEF QueueInv
  <1>15. IndexInv'  BY <1>1 DEF IndexInv
  <1>16. BatchInv'
    <2>1. /\ Has(u, Snapshot(tree))
          /\ ~partial => PlannedIn(u, claims, tree, jobs)
          /\ \A i \in DOMAIN jobs : outcome[i] # Unknown
          /\ AcceptedIn(q, tree, jobs, outcome)
      BY <1>1, <1>2, <1>5, <1>7 DEF BatchInv
    <2>2. Has(v, Snapshot(tree))  BY <1>10, <2>1
    <2>3. ASSUME ~partial PROVE PlannedIn(v, claims, tree, jobs)
      <3>1. PlannedIn(u, claims, tree, jobs)  BY <2>1, <2>3
      <3>2. CurrentIn(v, claims) \subseteq CurrentIn(u, claims)  BY <1>10 DEF CurrentIn
      <3>3. QED  BY <1>10, <3>1, <3>2 DEF PlannedIn
    <2>4. AcceptedIn(v, tree, jobs, outcome)  BY <1>11, <2>1 DEF AcceptedIn
    <2>5. QED  BY <1>1, <1>3, <1>6, <2>1, <2>2, <2>3, <2>4 DEF BatchInv
  <1>17. ReconcileInv'  BY <1>1, <1>2, BatchStays
  <1>18. QED  BY <1>12, <1>13, <1>14, <1>15, <1>16, <1>17 DEF IInv

LEMMA NextHolds ==
    ASSUME IInv, [Next]_vars
    PROVE  IInv'
  <1>1. CASE StartIndex  BY <1>1, StartIndexStep
  <1>2. CASE StartReconcile  BY <1>2, StartReconcileStep
  <1>3. CASE CommandStep
    <2>1. CASE CaptureTree  BY <2>1, CaptureTreeStep
    <2>2. CASE CaptureRefused \/ SourceMoved \/ Reuse \/ Report  BY <2>2, FinishSteps
    <2>3. CASE AppendEvidence  BY <2>3, AppendEvidenceStep
    <2>4. CASE SettleReplacements  BY <2>4, SettleReplacementsStep
    <2>5. CASE AppendReplacements  BY <2>5, AppendReplacementsStep
    <2>6. CASE Build  BY <2>6, BuildStep
    <2>7. CASE RecordIndex  BY <2>7, RecordIndexStep
    <2>8. CASE AskModel  BY <2>8, AskModelStep
    <2>9. CASE AcceptProposals  BY <2>9, AcceptProposalsStep
    <2>10. CASE AppendAccepted  BY <2>10, AppendAcceptedStep
    <2>11. QED
      BY <1>3, <2>1, <2>2, <2>3, <2>4, <2>5, <2>6, <2>7, <2>8, <2>9, <2>10 DEF CommandStep
  <1>4. CASE Ingest \/ Edit \/ FetchHistory \/ LoseArtifact \/ UNCHANGED vars
    BY <1>4, WorldSteps
  <1>5. CASE Interrupt  BY <1>5, InterruptStep
  <1>6. QED  BY <1>1, <1>2, <1>3, <1>4, <1>5 DEF Next

-----------------------------------------------------------------------------
(* What it implies *)

LEMMA TypesHold ==
    ASSUME IInv
    PROVE  TypeOK
  <1>1. CommandInv /\ JournalInv /\ ReconcileInv  BY DEF IInv
  <1>2. Range(journal) \cup Range(queue) \subseteq Events
    <2>1. ASSUME NEW s \in Seq(Events) PROVE Range(s) \subseteq Events  BY DEF Range
    <2>2. QED  BY <1>1, <2>1 DEF JournalInv
  <1>3. Cardinality({<<e.kind, e.key>> : e \in Range(journal)}) = Len(journal)
    BY <1>1, KeysAreDistinct DEF JournalInv
  <1>4. ReconcileTypeOK  BY <1>1 DEF ReconcileInv
  <1>5. QED  BY <1>1, <1>2, <1>3, <1>4 DEF TypeOK, CommandInv, Phases, Frontier

LEMMA OrdersHold ==
    ASSUME IInv
    PROVE  OrderIsSound /\ OrderIsFound
  <1>1. CommandInv /\ JournalInv /\ IndexInv  BY DEF IInv
  <1>2. PICK s \in Seq(Events) : s = journal  BY <1>1 DEF JournalInv
  <1>3. \A e \in Range(s) : Truthful(e)  BY <1>1, <1>2 DEF JournalInv
  <1>4. PICK n \in Nat : n = Len(s)  OBVIOUS
  <1>5. OrderIsSound
    <2>1. ASSUME NEW i \in 1..n, s[i].kind = "relation"
          PROVE  FactSound(s[i].key[1], s[i].key[2], s[i].data)
      <3>1. s[i] \in Range(s)  BY <1>4 DEF Range
      <3>2. Truthful(s[i])  BY <1>3, <3>1
      <3>3. QED  BY <2>1, <3>2 DEF Truthful
    <2>2. ASSUME NEW i \in Through(Frontier, "relation")
          PROVE  i \in 1..n /\ s[i].kind = "relation"
      BY <1>2, <1>4 DEF Through, Frontier
    <2>3. \A i \in Through(Frontier, "relation") :
            FactSound(journal[i].key[1], journal[i].key[2], journal[i].data)
      BY <1>2, <2>1, <2>2
    <2>4. QED  BY <2>3 DEF OrderIsSound, FactSound
  <1>6. OrderIsFound
    <2>1. SUFFICES ASSUME pc = "code", deep, NEW i \in Compared
                   PROVE  OrderThrough(Frontier, journal[i].key[1], tree) # "unknown"
      BY DEF OrderIsFound
    <2>2. OrderedIn(s, tree, s)  BY <1>1, <1>2, <2>1 DEF IndexInv, EvidenceHeld
    <2>3. i \in ComparedIn(s)  BY <1>2, ReadingsOfJournal
    <2>4. i \in 1..Len(s) /\ s[i].kind = "snapshot"  BY <2>3 DEF ComparedIn
    <2>5. PICK l \in Trees : l = s[i].key[1]  BY <1>2, <2>4, SnapshotsAreTrees
    <2>6. tree \in Trees  BY <1>1, <2>1 DEF CommandInv
    <2>7. PICK order : order = OrderIn(s, n, l, tree)  OBVIOUS
    <2>8. order = OrderThrough(Frontier, journal[i].key[1], tree)
      BY <1>2, <1>4, <2>5, <2>7, ReadingsOfJournal DEF Frontier
    <2>9. CASE l = tree
      <3>1. order = "same"  BY <2>7, <2>9 DEF OrderIn
      <3>2. QED  BY <2>8, <3>1
    <2>10. CASE l # tree
      <3>1. Has(s, Relation(l, tree, None))  BY <2>2, <2>3, <2>5, <2>10 DEF OrderedIn
      <3>2. \E j \in 1..n : Same(s[j], Relation(l, tree, None))  BY <1>4, <3>1 DEF Has
      <3>3. n \in 0..Len(s)  BY <1>4
      <3>4. order # "unknown"  BY <1>3, <2>5, <2>6, <2>7, <3>2, <3>3, OrderIsTold
      <3>5. QED  BY <2>8, <3>4
    <2>11. QED  BY <2>9, <2>10
  <1>7. QED  BY <1>5, <1>6

LEMMA ChainHolds ==
    ASSUME IInv
    PROVE  EvidenceChain
  <1>1. PICK s \in Seq(Events) : s = journal /\ Grounded({}, s)  BY DEF IInv, JournalInv
  <1>2. DOMAIN journal = 1..Len(s)  BY <1>1
  <1>3. ASSUME NEW i \in 1..Len(s), NEW cause,
               \E f \in FirstEvents(s, i - 1) : Same(f, cause)
        PROVE  \E j \in Positions(cause) : j < i
    <2>1. PICK j \in 1..(i - 1) : Same(s[j], cause)  BY <1>3 DEF FirstEvents
    <2>2. Len(s) \in Nat  OBVIOUS
    <2>3. j \in 1..Len(s) /\ j < i  BY <2>2
    <2>4. j \in Positions(cause)  BY <1>1, <1>2, <2>1, <2>3 DEF Positions
    <2>5. QED  BY <2>3, <2>4
  <1>4. ASSUME NEW i \in DOMAIN journal, NEW e, e = journal[i]
        PROVE  /\ e.kind = "linked" =>
                    \E j \in Positions(Occurrence(e.key[2], e.key[3])) : j < i
               /\ e.kind = "linked" /\ e.data = "semantic" =>
                    \E j \in Positions(Accepted(e.key[1], e.key[2], e.key[3])) : j < i
               /\ e.kind = "occurrence" => \E j \in Positions(Snapshot(e.key[1])) : j < i
    <2>1. i \in 1..Len(s)  BY <1>2
    <2>2. PICK X : X = FirstEvents(s, i - 1)  OBVIOUS
    <2>3. Caused(e, X)
      <3>1. Caused(s[i], {} \cup X)  BY <1>1, <2>1, <2>2 DEF Grounded
      <3>2. {} \cup X = X  OBVIOUS
      <3>3. QED  BY <1>1, <1>4, <3>1, <3>2
    <2>4. ASSUME NEW cause, \E f \in X : Same(f, cause)
          PROVE  \E j \in Positions(cause) : j < i
      BY <1>3, <2>1, <2>2, <2>4
    <2>5. QED  BY <2>3, <2>4 DEF Caused
  <1>5. QED  BY <1>4 DEF EvidenceChain

LEMMA IndexedHolds ==
    ASSUME IInv
    PROVE  IndexedIsWhole
  <1>1. SUFFICES ASSUME pc = "code"
                 PROVE  /\ Holds(Snapshot(tree))
                        /\ \A c \in claims \cap TextOf[tree] :
                             Holds(Linked(c, tree, c, "deterministic"))
                        /\ OnDisk = tree => \A p \in Scoped \ Skipped[worktree] :
                             \A c \in claims \cap Checkout[worktree].files[p].says :
                               Holds(Linked(c, tree, c, "deterministic"))
    BY DEF IndexedIsWhole
  <1>2. CommandInv /\ JournalInv /\ EvidenceHeld  BY <1>1 DEF IInv, IndexInv
  <1>3. ASSUME NEW e, Has(journal, e) PROVE Holds(e)
    BY <1>2, <1>3, HoldsIsHas DEF JournalInv
  <1>4. Holds(Snapshot(tree))  BY <1>2, <1>3 DEF EvidenceHeld
  <1>5. ASSUME NEW c \in claims \cap TextOf[tree]
        PROVE  Holds(Linked(c, tree, c, "deterministic"))
    BY <1>2, <1>3 DEF EvidenceHeld, RowsIn
  <1>6. ASSUME OnDisk = tree, NEW p \in Scoped \ Skipped[worktree],
               NEW c \in claims \cap Checkout[worktree].files[p].says
        PROVE  Holds(Linked(c, tree, c, "deterministic"))
    <2>1. PICK w \in Worktrees : w = worktree  BY <1>2 DEF CommandInv
    <2>2. PICK t : t = SnapshotOf(Checkout[w].commit, w)  OBVIOUS
    <2>3. t = tree  BY <1>6, <2>1, <2>2 DEF OnDisk
    <2>4. p \in Scoped \ Skipped[w] /\ c \in Checkout[w].files[p].says  BY <2>1
    <2>5. c \in TextOf[t]  BY <2>2, <2>4, DiskIsHeld
    <2>6. QED  BY <1>5, <2>3, <2>5
  <1>7. QED  BY <1>4, <1>5, <1>6

LEMMA ReplacementsHold ==
    ASSUME IInv
    PROVE  ReplacementsFollowGit
  <1>1. SUFFICES ASSUME pc = "replace", NEW e \in Range(queue), NEW from, NEW into,
                        from = BoundTo(e.key[1], newest), into = BoundTo(e.key[2], newest)
                 PROVE  /\ from # None /\ into # None
                        /\ \/ from = into \/ WentInto(from, into)
                           \/ from[1] = into[1] /\ {from, into} \cap DirtyTrees = {}
    BY DEF ReplacementsFollowGit
  <1>2. GivesWay(journal, newest, e)  BY <1>1 DEF IInv, IndexInv
  <1>3. from = BoundIn(journal, newest, e.key[1]) /\ into = BoundIn(journal, newest, e.key[2])
    BY <1>1, ReadingsOfJournal
  <1>4. QED  BY <1>2, <1>3 DEF GivesWay, IsIn

LEMMA CompleteHolds ==
    ASSUME IInv
    PROVE  CompleteIsDecided
  <1>1. SUFFICES ASSUME pc = "report", Complete, NEW c \in Current,
                        NEW of \in Range(CodeOf[tree]), of \in Range(Ranked[c]),
                        ~HasLink(c, tree, of)
                 PROVE  \E i \in DOMAIN jobs : jobs[i] = <<c, of>> /\ outcome[i] = "rejected"
    BY DEF CompleteIsDecided
  <1>2. JournalInv /\ BatchInv /\ ReconcileInv  BY DEF IInv
  <1>3. journal \in Seq(Events)  BY <1>2 DEF JournalInv
  <1>4. ASSUME NEW d, NEW code, Has(journal, Linked(d, tree, code, None))
        PROVE  HasLink(d, tree, code)
    BY <1>3, <1>4, HoldsIsHas DEF HasLink
  <1>5. ~partial /\ ~Unresolved  BY <1>1 DEF Complete
  <1>6. PlannedIn(journal, claims, tree, jobs)  BY <1>1, <1>2, <1>5 DEF BatchInv
  <1>7. c \in CurrentIn(journal, claims)  BY <1>1, <1>3, CurrentAre
  <1>8. PICK i \in DOMAIN jobs : jobs[i] = <<c, of>>
    BY <1>1, <1>4, <1>6, <1>7 DEF PlannedIn
  <1>9. outcome[i] # Unknown  BY <1>1, <1>2 DEF BatchInv
  <1>10. outcome[i] # Failed  BY <1>5 DEF Unresolved
  <1>11. outcome[i] # "accepted"
    <2>1. SUFFICES ASSUME outcome[i] = "accepted" PROVE FALSE  OBVIOUS
    <2>2. AcceptedIn(journal, tree, jobs, outcome)  BY <1>1, <1>2 DEF BatchInv
    <2>3. jobs[i][1] = c /\ jobs[i][2] = of  BY <1>8
    <2>4. Has(journal, Linked(c, tree, of, None))  BY <2>1, <2>2, <2>3 DEF AcceptedIn
    <2>5. QED  BY <1>1, <1>4, <2>4
  <1>12. outcome[i] \in Verdicts \cup {Failed, Unknown}
    <2>1. /\ jobs \in Seq(Candidates)
          /\ outcome \in [1..Len(jobs) -> Verdicts \cup {Failed, Unknown}]
      BY <1>2 DEF ReconcileInv, ReconcileTypeOK
    <2>2. i \in 1..Len(jobs)  BY <2>1
    <2>3. QED  BY <2>1, <2>2
  <1>13. QED  BY <1>8, <1>9, <1>10, <1>11, <1>12 DEF Verdicts

(* In every state of every run the inductive invariant holds.              *)
THEOREM InvariantHolds ==
    Spec => []IInv
  <1>1. Init => IInv  BY InitHolds
  <1>2. IInv /\ [Next]_vars => IInv'  BY NextHolds
  <1>3. QED  BY <1>1, <1>2, PTL DEF Spec

(* What the journal says of two snapshots is what the whole history says,  *)
(* every pair compared in a whole history has an order, an event names     *)
(* only what is before it, and a finished index has linked every claim its *)
(* tree and the disk hold: indexing, after crashes, from shallow clones    *)
(* and worktrees with overlays.                                            *)
THEOREM KnowledgeHolds ==
    Spec => []KnowledgeInv
  <1>1. IInv => KnowledgeInv
    BY TypesHold, OrdersHold, ChainHolds, IndexedHolds DEF KnowledgeInv
  <1>2. QED  BY <1>1, InvariantHolds, PTL

(* A batch is shorter than its budget, one call and one resolution of a    *)
(* name, and nothing but a resolution outlives a call's deadline, however  *)
(* the provider answers, refuses and asks for pauses (acquire_proposals).  *)
THEOREM BatchesEndInTime ==
    Spec => []EndsInTime
  <1>1. IInv => EndsInTime
    <2>1. SUFFICES ASSUME IInv PROVE EndsInTime  OBVIOUS
    <2>2. ReconcileInv  BY <2>1 DEF IInv
    <2>3. clock < Budget + Timeout + Resolving  BY <2>2 DEF ReconcileInv, InTime
    <2>4. ASSUME NEW w \in Workers, worker[w].at \in {"calling", "paused"}
          PROVE  clock <= worker[w].due
      <3>1. WorkerInv(worker[w])  BY <2>2 DEF ReconcileInv
      <3>2. worker[w].due \in Nat /\ worker[w].wake \in Nat /\ clock \in Nat
        BY <2>2 DEF ReconcileInv, ReconcileTypeOK
      <3>3. QED  BY <2>4, <3>1, <3>2 DEF WorkerInv
    <2>5. QED  BY <2>3, <2>4 DEF EndsInTime
  <1>2. QED  BY <1>1, InvariantHolds, PTL

(* A claim gives way to a newer wording only if all of its own tree is in  *)
(* that of the newer one (settle_indexed_explicit_supersessions).          *)
THEOREM ReplacementsHoldAlways ==
    Spec => []ReplacementsFollowGit
  <1>1. IInv => ReplacementsFollowGit  BY ReplacementsHold
  <1>2. QED  BY <1>1, InvariantHolds, PTL

(* A reconcile that reports Complete left no candidate undecided, whatever *)
(* cut its analysis, its plan or its batch short (knowledge_reconcile).    *)
THEOREM CompleteHoldsAlways ==
    Spec => []CompleteIsDecided
  <1>1. IInv => CompleteIsDecided  BY CompleteHolds
  <1>2. QED  BY <1>1, InvariantHolds, PTL

================================================================================
