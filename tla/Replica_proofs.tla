---------------------------- MODULE Replica_proofs ----------------------------
(***************************************************************************)
(* Proofs about one replica of a journal, for any number of readers and    *)
(* faults, any page size and any events that no replica copies.            *)
(*                                                                         *)
(* What a page takes from the source is a recursive function of it         *)
(* (Without), so the first part proves, by induction over the lengths of   *)
(* sequences, what it keeps, and from that that a page appended to a copy  *)
(* of a beginning of a sequence makes a longer such copy.  The second part *)
(* is the invariant of the state machine: a position that was read is in   *)
(* the source or was in the one before it, and while no event has recurred *)
(* one that still has its name vouches for all before it; of every refresh *)
(* in flight, all up to such a position is in the replica; and a read      *)
(* model is a copy of its source or is kept out of it by its own cursor.   *)
(***************************************************************************)
EXTENDS Replica, SequenceTheorems, WellFoundedInduction, TLAPS

-----------------------------------------------------------------------------
(* Induction over the naturals, for a set of them                          *)
Below == {p \in Nat \X Nat : p[1] < p[2]}

LEMMA BelowIsWellFounded == IsWellFoundedOn(Below, Nat)
  <1>1. Below = OpToRel(<, Nat)  BY DEF Below, OpToRel
  <1>2. QED  BY <1>1, NatLessThanWellFounded

LEMMA Induction ==
    ASSUME NEW S, 0 \in S, \A n \in Nat : n \in S => n + 1 \in S
    PROVE  Nat \subseteq S
  <1>1. PICK T : T = {n \in Nat : n \notin S}  OBVIOUS
  <1> SUFFICES ASSUME T # {} PROVE FALSE  BY <1>1
  <1>2. T \subseteq Nat  BY <1>1
  <1>3. PICK x \in T : \A y \in T : ~ (<<y, x>> \in Below)
    BY <1>2, BelowIsWellFounded, WFMin
  <1>4. x \in Nat /\ x # 0  BY <1>1, <1>3
  <1>5. x - 1 \in Nat /\ x - 1 < x /\ (x - 1) + 1 = x  BY <1>4
  <1>6. <<x - 1, x>> \in Below  BY <1>4, <1>5 DEF Below
  <1>7. x - 1 \in S  BY <1>1, <1>3, <1>5, <1>6
  <1>8. QED  BY <1>1, <1>3, <1>5, <1>7

-----------------------------------------------------------------------------
(* Without                                                                 *)

(* What the recursive function of Without is.                              *)
IsKept(f, n, s, S) ==
  f = [i \in 0..n |-> IF i = 0 THEN <<>>
                      ELSE IF s[i] \in S THEN f[i - 1] ELSE Append(f[i - 1], s[i])]

LEMMA KeptIsLonger ==
    ASSUME NEW n \in Nat, NEW s, NEW S, NEW f, IsKept(f, n, s, S),
           NEW g, g = [i \in 0..n + 1 |-> IF i \in 0..n THEN f[i]
                         ELSE IF s[i] \in S THEN f[n] ELSE Append(f[n], s[i])]
    PROVE  IsKept(g, n + 1, s, S)
  <1>1. \A i \in 0..n : g[i] = f[i]  OBVIOUS
  <1>2. ASSUME NEW i \in 0..n + 1
        PROVE  g[i] = IF i = 0 THEN <<>>
                      ELSE IF s[i] \in S THEN g[i - 1] ELSE Append(g[i - 1], s[i])
    <2>1. CASE i = 0  BY <2>1 DEF IsKept
    <2>2. CASE i \in 1..n
      <3>1. i \in 0..n /\ i - 1 \in 0..n /\ i # 0  BY <2>2
      <3>2. g[i] = f[i] /\ g[i - 1] = f[i - 1]  BY <1>1, <3>1
      <3>3. f[i] = IF s[i] \in S THEN f[i - 1] ELSE Append(f[i - 1], s[i])
        BY <3>1 DEF IsKept
      <3>4. QED  BY <3>1, <3>2, <3>3
    <2>3. CASE i = n + 1
      <3>1. /\ n + 1 - 1 = n /\ n + 1 # 0 /\ n + 1 \notin 0..n
            /\ n \in 0..n /\ n + 1 \in 0..n + 1
        OBVIOUS
      <3>2. g[i] = IF s[i] \in S THEN f[n] ELSE Append(f[n], s[i])  BY <2>3, <3>1
      <3>3. g[i - 1] = f[n]  BY <1>1, <2>3, <3>1
      <3>4. QED  BY <2>3, <3>1, <3>2, <3>3
    <2>4. QED  BY <2>1, <2>2, <2>3
  <1>3. g = [i \in 0..n + 1 |-> g[i]]  OBVIOUS
  <1>4. QED  BY <1>2, <1>3 DEF IsKept

LEMMA KeptExists ==
    ASSUME NEW A, NEW S, NEW s \in Seq(A)
    PROVE  \E f : IsKept(f, Len(s), s, S)
  <1>1. PICK M : M = {n \in Nat : \E f : IsKept(f, n, s, S)}  OBVIOUS
  <1>2. 0 \in M
    <2>1. IsKept([i \in 0..0 |-> <<>>], 0, s, S)  BY DEF IsKept
    <2>2. QED  BY <1>1, <2>1
  <1>3. ASSUME NEW n \in Nat, n \in M PROVE n + 1 \in M
    <2>1. PICK f : IsKept(f, n, s, S)  BY <1>1, <1>3
    <2>2. PICK g : g = [i \in 0..n + 1 |-> IF i \in 0..n THEN f[i]
                          ELSE IF s[i] \in S THEN f[n] ELSE Append(f[n], s[i])]
      OBVIOUS
    <2>3. IsKept(g, n + 1, s, S)  BY <2>1, <2>2, KeptIsLonger
    <2>4. QED  BY <1>1, <2>3
  <1>4. Nat \subseteq M  BY <1>2, <1>3, Induction
  <1>5. QED  BY <1>1, <1>4

LEMMA WithoutIsKept ==
    ASSUME NEW A, NEW S, NEW s \in Seq(A)
    PROVE  \E f : IsKept(f, Len(s), s, S) /\ Without(s, S) = f[Len(s)]
  <1> DEFINE k == CHOOSE kept : kept = [i \in 0..Len(s) |->
                    IF i = 0 THEN <<>>
                    ELSE IF s[i] \in S THEN kept[i - 1] ELSE Append(kept[i - 1], s[i])]
  <1>1. \E f : IsKept(f, Len(s), s, S)  BY KeptExists
  <1>2. k = [i \in 0..Len(s) |->
               IF i = 0 THEN <<>>
               ELSE IF s[i] \in S THEN k[i - 1] ELSE Append(k[i - 1], s[i])]
    BY <1>1, Zenon DEF IsKept
  <1>3. Without(s, S) = k[Len(s)]  BY Zenon DEF Without
  <1> HIDE DEF k
  <1>4. QED  BY <1>2, <1>3, Zenon DEF IsKept

LEMMA KeptAt ==
    ASSUME NEW n \in Nat, NEW s, NEW S, NEW f, IsKept(f, n, s, S)
    PROVE  /\ f[0] = <<>>
           /\ \A i \in 0..n, j \in 0..n : j = i + 1 =>
                f[j] = IF s[j] \in S THEN f[i] ELSE Append(f[i], s[j])
  <1>1. 0 \in 0..n  OBVIOUS
  <1>2. f[0] = <<>>  BY <1>1 DEF IsKept
  <1>3. ASSUME NEW i \in 0..n, NEW j \in 0..n, j = i + 1
        PROVE  f[j] = IF s[j] \in S THEN f[i] ELSE Append(f[i], s[j])
    <2>1. j # 0 /\ j - 1 = i  BY <1>3
    <2>2. f[j] = IF s[j] \in S THEN f[j - 1] ELSE Append(f[j - 1], s[j])
      BY <2>1 DEF IsKept
    <2>3. QED  BY <2>1, <2>2
  <1>4. QED  BY <1>2, <1>3

LEMMA WithoutNone == ASSUME NEW S PROVE Without(<<>>, S) = <<>>
  <1>1. PICK s : s = <<>> OBVIOUS
  <1>2. s \in Seq({}) /\ Len(s) = 0  BY <1>1
  <1>3. PICK f : IsKept(f, 0, s, S) /\ Without(s, S) = f[0]
    BY <1>2, WithoutIsKept
  <1>4. f[0] = <<>>  BY <1>3, KeptAt
  <1>5. QED  BY <1>1, <1>3, <1>4

LEMMA WithoutOneMore ==
    ASSUME NEW A, NEW S, NEW s \in Seq(A), NEW e \in A
    PROVE  Without(Append(s, e), S) = IF e \in S THEN Without(s, S) ELSE Append(Without(s, S), e)
  <1>1. PICK t, n : t = Append(s, e) /\ n = Len(s)  OBVIOUS
  <1>2. t \in Seq(A) /\ Len(t) = n + 1 /\ n \in Nat /\ t[n + 1] = e /\ \A i \in 1..n : t[i] = s[i]
    BY <1>1
  <1>3. PICK f : IsKept(f, n, s, S) /\ Without(s, S) = f[n]  BY <1>1, WithoutIsKept
  <1>4. PICK g : IsKept(g, n + 1, t, S) /\ Without(t, S) = g[n + 1]
    BY <1>2, WithoutIsKept
  <1>5. /\ f[0] = <<>>
        /\ \A i \in 0..n, j \in 0..n : j = i + 1 =>
             f[j] = IF s[j] \in S THEN f[i] ELSE Append(f[i], s[j])
    BY <1>2, <1>3, KeptAt
  <1>6. n + 1 \in Nat  BY <1>2
  <1>7. /\ g[0] = <<>>
        /\ \A i \in 0..n + 1, j \in 0..n + 1 : j = i + 1 =>
             g[j] = IF t[j] \in S THEN g[i] ELSE Append(g[i], t[j])
    BY <1>4, <1>6, KeptAt
  <1>8. PICK M : M = {i \in Nat : i \in 0..n => f[i] = g[i]}  OBVIOUS
  <1>9. Nat \subseteq M
    <2>1. 0 \in M  BY <1>5, <1>7, <1>8
    <2>2. ASSUME NEW i \in Nat, i \in M PROVE i + 1 \in M
      <3>1. PICK j : j = i + 1  OBVIOUS
      <3> SUFFICES ASSUME j \in 0..n PROVE f[j] = g[j]  BY <1>8, <3>1
      <3>2. /\ i \in 0..n /\ j \in 1..n
            /\ i \in 0..n + 1 /\ j \in 0..n + 1
        BY <1>2, <3>1
      <3>3. f[i] = g[i] /\ t[j] = s[j]  BY <1>2, <1>8, <2>2, <3>2
      <3>4. f[j] = IF s[j] \in S THEN f[i] ELSE Append(f[i], s[j])  BY <1>5, <3>1, <3>2
      <3>5. g[j] = IF t[j] \in S THEN g[i] ELSE Append(g[i], t[j])  BY <1>7, <3>1, <3>2
      <3>6. QED  BY <3>3, <3>4, <3>5
    <2>3. QED  BY <2>1, <2>2, Induction
  <1>10. f[n] = g[n]  BY <1>2, <1>8, <1>9
  <1>11. PICK m : m = n + 1  OBVIOUS
  <1>12. n \in 0..n + 1 /\ m \in 0..n + 1  BY <1>2, <1>11
  <1>13. g[m] = IF t[m] \in S THEN g[n] ELSE Append(g[n], t[m])  BY <1>7, <1>11, <1>12
  <1>14. t[m] = e  BY <1>2, <1>11
  <1>15. QED  BY <1>1, <1>3, <1>4, <1>10, <1>11, <1>13, <1>14

-----------------------------------------------------------------------------
(* What is kept of a sequence                                              *)

LEMMA LastSplits ==
    ASSUME NEW A, NEW n \in Nat, NEW s \in Seq(A), Len(s) = n + 1
    PROVE  \E t \in Seq(A), e \in A : s = Append(t, e) /\ Len(t) = n
  <1>1. PICK t : t = SubSeq(s, 1, n)  OBVIOUS
  <1>2. t \in Seq(A) /\ Len(t) = n /\ \A i \in 1..n : t[i] = s[i]  BY <1>1
  <1>3. s[n + 1] \in A  OBVIOUS
  <1>4. s = Append(t, s[n + 1])  BY <1>2
  <1>5. QED  BY <1>2, <1>3, <1>4

LEMMA AppendedIs ==
    ASSUME NEW A, NEW t \in Seq(A), NEW e \in A
    PROVE  /\ Append(t, e) \in Seq(A) /\ ToSet(Append(t, e)) = ToSet(t) \cup {e}
  <1>1. PICK n, s : n = Len(t) /\ s = Append(t, e)  OBVIOUS
  <1>2. /\ s \in Seq(A) /\ n \in Nat /\ DOMAIN t = 1..n /\ DOMAIN s = 1..n + 1
        /\ s[n + 1] = e /\ \A i \in 1..n : s[i] = t[i]
    BY <1>1
  <1>3. ASSUME NEW x PROVE x \in ToSet(s) <=> x \in ToSet(t) \cup {e}
    <2>1. x \in ToSet(s) => x \in ToSet(t) \cup {e}
      <3> SUFFICES ASSUME NEW i \in 1..n + 1, x = s[i] PROVE x \in ToSet(t) \cup {e}
        BY <1>2 DEF ToSet
      <3>1. i \in 1..n \/ i = n + 1  BY <1>2
      <3>2. QED  BY <1>2, <3>1 DEF ToSet
    <2>2. x \in ToSet(t) => x \in ToSet(s)
      <3> SUFFICES ASSUME NEW i \in 1..n, x = t[i] PROVE x \in ToSet(s)
        BY <1>2 DEF ToSet
      <3>1. i \in 1..n + 1  BY <1>2
      <3>2. QED  BY <1>2, <3>1 DEF ToSet
    <2>3. e \in ToSet(s)
      <3>1. n + 1 \in 1..n + 1  BY <1>2
      <3>2. QED  BY <1>2, <3>1 DEF ToSet
    <2>4. QED  BY <2>1, <2>2, <2>3
  <1>4. QED  BY <1>1, <1>2, <1>3

LEMMA EmptyIs == ASSUME NEW A PROVE <<>> \in Seq(A) /\ ToSet(<<>>) = {}
  BY DEF ToSet

LEMMA LengthZero == ASSUME NEW A, NEW s \in Seq(A), Len(s) = 0 PROVE s = <<>>
  OBVIOUS

(* Without keeps exactly the elements that are not in the set.             *)
LEMMA WithoutElements ==
    ASSUME NEW A, NEW S, NEW s \in Seq(A)
    PROVE  Without(s, S) \in Seq(A) /\ ToSet(Without(s, S)) = ToSet(s) \ S
  <1>1. PICK M : M = {n \in Nat : \A t \in Seq(A) : Len(t) = n =>
                        Without(t, S) \in Seq(A) /\ ToSet(Without(t, S)) = ToSet(t) \ S}
    OBVIOUS
  <1>2. 0 \in M
    <2>1. ASSUME NEW t \in Seq(A), Len(t) = 0
          PROVE  Without(t, S) \in Seq(A) /\ ToSet(Without(t, S)) = ToSet(t) \ S
      <3>1. t = <<>>  BY <2>1, LengthZero
      <3>2. QED  BY <3>1, WithoutNone, EmptyIs
    <2>2. QED  BY <1>1, <2>1
  <1>3. ASSUME NEW n \in Nat, n \in M PROVE n + 1 \in M
    <2>1. ASSUME NEW t \in Seq(A), Len(t) = n + 1
          PROVE  Without(t, S) \in Seq(A) /\ ToSet(Without(t, S)) = ToSet(t) \ S
      <3>1. PICK u \in Seq(A), e \in A : t = Append(u, e) /\ Len(u) = n
        BY <2>1, LastSplits
      <3>2. Without(u, S) \in Seq(A) /\ ToSet(Without(u, S)) = ToSet(u) \ S
        BY <1>1, <1>3, <3>1
      <3>3. Without(t, S) = IF e \in S THEN Without(u, S) ELSE Append(Without(u, S), e)
        BY <3>1, WithoutOneMore
      <3>4. ToSet(t) = ToSet(u) \cup {e}  BY <3>1, AppendedIs
      <3>5. CASE e \in S  BY <3>2, <3>3, <3>4, <3>5
      <3>6. CASE e \notin S
        <4>1. PICK v : v = Without(u, S)  OBVIOUS
        <4>2. Append(v, e) \in Seq(A) /\ ToSet(Append(v, e)) = ToSet(v) \cup {e}
          BY <3>2, <4>1, AppendedIs
        <4>3. QED  BY <3>2, <3>3, <3>4, <3>6, <4>1, <4>2
      <3>7. QED  BY <3>5, <3>6
    <2>2. QED  BY <1>1, <2>1
  <1>4. Nat \subseteq M  BY <1>2, <1>3, Induction
  <1>5. QED  BY <1>1, <1>4

LEMMA WithoutAll ==
    ASSUME NEW A, NEW S, NEW s \in Seq(A), ToSet(s) \subseteq S PROVE Without(s, S) = <<>>
  <1>1. PICK t : t = Without(s, S)  OBVIOUS
  <1>2. t \in Seq(A) /\ ToSet(t) = {}  BY <1>1, WithoutElements
  <1>3. Len(t) = 0
    <2> SUFFICES ASSUME Len(t) # 0 PROVE FALSE  OBVIOUS
    <2>1. 1 \in DOMAIN t  BY <1>2
    <2>2. QED  BY <1>2, <2>1 DEF ToSet
  <1>4. QED  BY <1>1, <1>2, <1>3

(* No element comes twice in what is left, if none did before.             *)
LEMMA InjectiveAppend ==
    ASSUME NEW A, NEW t \in Seq(A), NEW e \in A
    PROVE  IsInjective(Append(t, e)) <=> IsInjective(t) /\ e \notin ToSet(t)
  <1>1. PICK n, s : n = Len(t) /\ s = Append(t, e)  OBVIOUS
  <1>2. /\ n \in Nat /\ DOMAIN t = 1..n /\ DOMAIN s = 1..n + 1
        /\ s[n + 1] = e /\ \A i \in 1..n : s[i] = t[i]
    BY <1>1
  <1>3. ASSUME IsInjective(s) PROVE IsInjective(t) /\ e \notin ToSet(t)
    <2>1. IsInjective(t)  BY <1>2, <1>3 DEF IsInjective
    <2>2. e \notin ToSet(t)
      <3> SUFFICES ASSUME NEW i \in 1..n, t[i] = e PROVE FALSE  BY <1>2 DEF ToSet
      <3>1. i \in 1..n + 1 /\ n + 1 \in 1..n + 1 /\ i # n + 1  BY <1>2
      <3>2. QED  BY <1>2, <1>3, <3>1 DEF IsInjective
    <2>3. QED  BY <2>1, <2>2
  <1>4. ASSUME IsInjective(t), e \notin ToSet(t) PROVE IsInjective(s)
    <2>1. \A i \in 1..n : t[i] # e  BY <1>2, <1>4 DEF ToSet
    <2>2. ASSUME NEW i \in 1..n + 1, NEW j \in 1..n + 1, s[i] = s[j] PROVE i = j
      <3>1. (i \in 1..n \/ i = n + 1) /\ (j \in 1..n \/ j = n + 1)  BY <1>2
      <3>2. QED  BY <1>2, <1>4, <2>1, <2>2, <3>1 DEF IsInjective
    <2>3. QED  BY <1>2, <2>2 DEF IsInjective
  <1>5. QED  BY <1>1, <1>3, <1>4

LEMMA WithoutInjective ==
    ASSUME NEW A, NEW S, NEW s \in Seq(A), IsInjective(s) PROVE IsInjective(Without(s, S))
  <1>1. PICK M : M = {n \in Nat : \A t \in Seq(A) :
                        Len(t) = n /\ IsInjective(t) => IsInjective(Without(t, S))}
    OBVIOUS
  <1>2. 0 \in M
    <2>1. ASSUME NEW t \in Seq(A), Len(t) = 0, IsInjective(t) PROVE IsInjective(Without(t, S))
      BY <2>1, LengthZero, WithoutNone
    <2>2. QED  BY <1>1, <2>1
  <1>3. ASSUME NEW n \in Nat, n \in M PROVE n + 1 \in M
    <2>1. ASSUME NEW t \in Seq(A), Len(t) = n + 1, IsInjective(t)
          PROVE  IsInjective(Without(t, S))
      <3>1. PICK u \in Seq(A), e \in A : t = Append(u, e) /\ Len(u) = n
        BY <2>1, LastSplits
      <3>2. IsInjective(u) /\ e \notin ToSet(u)  BY <2>1, <3>1, InjectiveAppend
      <3>3. PICK v : v = Without(u, S)  OBVIOUS
      <3>4. IsInjective(v)  BY <1>1, <1>3, <3>1, <3>2, <3>3
      <3>5. v \in Seq(A) /\ e \notin ToSet(v)  BY <3>2, <3>3, WithoutElements
      <3>6. Without(t, S) = IF e \in S THEN v ELSE Append(v, e)
        BY <3>1, <3>3, WithoutOneMore
      <3>7. IsInjective(Append(v, e))  BY <3>4, <3>5, InjectiveAppend
      <3>8. QED  BY <3>4, <3>6, <3>7
    <2>2. QED  BY <1>1, <2>1
  <1>4. Nat \subseteq M  BY <1>2, <1>3, Induction
  <1>5. QED  BY <1>1, <1>4

LEMMA ConcatAppend ==
    ASSUME NEW A, NEW s \in Seq(A), NEW t \in Seq(A), NEW e \in A
    PROVE  s \o t \in Seq(A) /\ s \o Append(t, e) = Append(s \o t, e)
  <1>1. s \o t \in Seq(A)  BY ConcatProperties
  <1>2. <<e>> \in Seq(A)  OBVIOUS
  <1>3. Append(t, e) = t \o <<e>>  BY AppendIsConcat
  <1>4. PICK st : st = s \o t  OBVIOUS
  <1>5. Append(st, e) = st \o <<e>>  BY <1>1, <1>4, AppendIsConcat
  <1>6. (s \o t) \o <<e>> = s \o (t \o <<e>>)  BY <1>2, ConcatAssociative
  <1>7. QED  BY <1>1, <1>3, <1>4, <1>5, <1>6

(* Without of two sequences, one after the other                           *)
LEMMA WithoutConcat ==
    ASSUME NEW A, NEW S, NEW s \in Seq(A), NEW t \in Seq(A)
    PROVE  Without(s \o t, S) = Without(s, S) \o Without(t, S)
  <1>1. PICK M : M = {n \in Nat : \A u \in Seq(A) :
                        Len(u) = n => Without(s \o u, S) = Without(s, S) \o Without(u, S)}
    OBVIOUS
  <1>2. PICK w : w = Without(s, S)  OBVIOUS
  <1>3. w \in Seq(A)  BY <1>2, WithoutElements
  <1>4. 0 \in M
    <2>1. ASSUME NEW u \in Seq(A), Len(u) = 0
          PROVE  Without(s \o u, S) = Without(s, S) \o Without(u, S)
      <3>1. u = <<>>  BY <2>1, LengthZero
      <3>2. w \o <<>> = w /\ s \o <<>> = s  BY <1>3, ConcatEmptySeq
      <3>3. QED  BY <1>2, <3>1, <3>2, WithoutNone
    <2>2. QED  BY <1>1, <2>1
  <1>5. ASSUME NEW n \in Nat, n \in M PROVE n + 1 \in M
    <2>1. ASSUME NEW u \in Seq(A), Len(u) = n + 1
          PROVE  Without(s \o u, S) = Without(s, S) \o Without(u, S)
      <3>1. PICK v \in Seq(A), e \in A : u = Append(v, e) /\ Len(v) = n
        BY <2>1, LastSplits
      <3>2. PICK sv : sv = s \o v  OBVIOUS
      <3>3. sv \in Seq(A) /\ s \o u = Append(sv, e)  BY <3>1, <3>2, ConcatAppend
      <3>4. Without(sv, S) = w \o Without(v, S)  BY <1>1, <1>2, <1>5, <3>1, <3>2
      <3>5. Without(s \o u, S) = IF e \in S THEN Without(sv, S) ELSE Append(Without(sv, S), e)
        BY <3>3, WithoutOneMore
      <3>6. Without(u, S) = IF e \in S THEN Without(v, S) ELSE Append(Without(v, S), e)
        BY <3>1, WithoutOneMore
      <3>7. PICK x : x = Without(v, S)  OBVIOUS
      <3>8. x \in Seq(A)  BY <3>7, WithoutElements
      <3>9. w \o Append(x, e) = Append(w \o x, e)  BY <1>3, <3>8, ConcatAppend
      <3>10. QED  BY <1>2, <3>4, <3>5, <3>6, <3>7, <3>9
    <2>2. QED  BY <1>1, <2>1
  <1>6. Nat \subseteq M  BY <1>4, <1>5, Induction
  <1>7. QED  BY <1>1, <1>6

(* Nothing to leave out                                                    *)
LEMMA WithoutNothing ==
    ASSUME NEW A, NEW S
    PROVE  \A s \in Seq(A) : ToSet(s) \cap S = {} => Without(s, S) = s
  <1>1. PICK M : M = {n \in Nat : \A t \in Seq(A) :
                        Len(t) = n /\ ToSet(t) \cap S = {} => Without(t, S) = t}
    OBVIOUS
  <1>2. 0 \in M
    <2>1. ASSUME NEW t \in Seq(A), Len(t) = 0 PROVE Without(t, S) = t
      BY <2>1, LengthZero, WithoutNone
    <2>2. QED  BY <1>1, <2>1
  <1>3. ASSUME NEW n \in Nat, n \in M PROVE n + 1 \in M
    <2>1. ASSUME NEW t \in Seq(A), Len(t) = n + 1, ToSet(t) \cap S = {}
          PROVE  Without(t, S) = t
      <3>1. PICK u \in Seq(A), e \in A : t = Append(u, e) /\ Len(u) = n
        BY <2>1, LastSplits
      <3>2. ToSet(t) = ToSet(u) \cup {e}  BY <3>1, AppendedIs
      <3>3. Without(u, S) = u /\ e \notin S  BY <1>1, <1>3, <2>1, <3>1, <3>2
      <3>4. QED  BY <3>1, <3>3, WithoutOneMore
    <2>2. QED  BY <1>1, <2>1
  <1>4. Nat \subseteq M  BY <1>2, <1>3, Induction
  <1>5. QED  BY <1>1, <1>4

(* What two passes leave out, one does too.                                *)
LEMMA WithoutTwice ==
    ASSUME NEW A, NEW S, NEW T, NEW U, \A e : e \in U <=> e \in S \/ e \in T
    PROVE  \A s \in Seq(A) : Without(Without(s, S), T) = Without(s, U)
  <1>1. PICK M : M = {n \in Nat : \A t \in Seq(A) :
                        Len(t) = n => \A x : x = Without(t, S) => Without(x, T) = Without(t, U)}
    OBVIOUS
  <1>2. 0 \in M
    <2>1. ASSUME NEW t \in Seq(A), Len(t) = 0
          PROVE  Without(Without(t, S), T) = Without(t, U)
      <3>1. t = <<>>  BY <2>1, LengthZero
      <3>2. Without(<<>>, S) = <<>> /\ Without(<<>>, T) = <<>> /\ Without(<<>>, U) = <<>>
        BY WithoutNone
      <3>3. QED  BY <3>1, <3>2
    <2>2. QED  BY <1>1, <2>1
  <1>3. ASSUME NEW n \in Nat, n \in M PROVE n + 1 \in M
    <2>1. ASSUME NEW t \in Seq(A), Len(t) = n + 1
          PROVE  Without(Without(t, S), T) = Without(t, U)
      <3>1. PICK u \in Seq(A), e \in A : t = Append(u, e) /\ Len(u) = n
        BY <2>1, LastSplits
      <3>2. PICK v : v = Without(u, S)  OBVIOUS
      <3>3. Without(v, T) = Without(u, U)  BY <1>1, <1>3, <3>1, <3>2
      <3>4. v \in Seq(A)  BY <3>2, WithoutElements
      <3>5. Without(t, S) = IF e \in S THEN v ELSE Append(v, e)
        BY <3>1, <3>2, WithoutOneMore
      <3>6. Without(t, U) =
              IF e \in U THEN Without(u, U) ELSE Append(Without(u, U), e)
        BY <3>1, WithoutOneMore
      <3>7. Without(Append(v, e), T) = IF e \in T THEN Without(v, T) ELSE Append(Without(v, T), e)
        BY <3>4, WithoutOneMore
      <3>8. PICK w : w = Without(u, U)  OBVIOUS
      <3>9. CASE e \in S
        <4>1. Without(t, S) = v  BY <3>5, <3>9
        <4>2. Without(t, U) = w  BY <3>6, <3>8, <3>9
        <4>3. QED  BY <3>3, <3>8, <4>1, <4>2
      <3>10. CASE e \notin S /\ e \in T
        <4>1. Without(t, S) = Append(v, e)  BY <3>5, <3>10
        <4>2. Without(t, U) = w  BY <3>6, <3>8, <3>10
        <4>3. Without(Append(v, e), T) = w  BY <3>3, <3>7, <3>8, <3>10
        <4>4. QED  BY <4>1, <4>2, <4>3
      <3>11. CASE e \notin S /\ e \notin T
        <4>1. Without(t, S) = Append(v, e)  BY <3>5, <3>11
        <4>2. Without(t, U) = Append(w, e)  BY <3>6, <3>8, <3>11
        <4>3. Without(Append(v, e), T) = Append(w, e)  BY <3>3, <3>7, <3>8, <3>11
        <4>4. QED  BY <4>1, <4>2, <4>3
      <3>12. QED  BY <3>9, <3>10, <3>11
    <2>2. QED  BY <1>1, <2>1
  <1>4. Nat \subseteq M  BY <1>2, <1>3, Induction
  <1>5. QED  BY <1>1, <1>4

-----------------------------------------------------------------------------
(* Parts of a sequence                                                     *)
LEMMA PartIs ==
    ASSUME NEW A, NEW s \in Seq(A), NEW a \in 0..Len(s), NEW b \in a..Len(s)
    PROVE  /\ SubSeq(s, a + 1, b) \in Seq(A) /\ Len(SubSeq(s, a + 1, b)) = b - a
           /\ \A i \in 1..b - a : SubSeq(s, a + 1, b)[i] = s[a + i]
           /\ ToSet(SubSeq(s, a + 1, b)) = {s[i] : i \in a + 1..b}
  <1>1. PICK m, t : m = a + 1 /\ t = SubSeq(s, m, b)  OBVIOUS
  <1>2. \A i \in m..b : s[i] \in A  BY <1>1
  <1>3. /\ t \in Seq(A) /\ Len(t) = (IF m <= b THEN b - m + 1 ELSE 0)
        /\ \A i \in 1..b - m + 1 : t[i] = s[m + i - 1]
    BY <1>1, <1>2, SubSeqProperties
  <1>4. Len(t) = b - a /\ DOMAIN t = 1..b - a /\ \A i \in 1..b - a : t[i] = s[a + i]
    BY <1>1, <1>3
  <1>5. ToSet(t) = {s[i] : i \in a + 1..b}
    <2>1. ASSUME NEW x \in ToSet(t) PROVE x \in {s[i] : i \in a + 1..b}
      <3>1. PICK i \in 1..b - a : x = t[i]  BY <1>4 DEF ToSet
      <3>2. a + i \in a + 1..b  OBVIOUS
      <3>3. QED  BY <1>4, <3>1, <3>2
    <2>2. ASSUME NEW i \in a + 1..b PROVE s[i] \in ToSet(t)
      <3>1. i - a \in 1..b - a /\ a + (i - a) = i  OBVIOUS
      <3>2. t[i - a] = s[i]  BY <1>4, <3>1
      <3>3. QED  BY <1>4, <3>1, <3>2 DEF ToSet
    <2>3. QED  BY <2>1, <2>2
  <1>6. QED  BY <1>1, <1>3, <1>4, <1>5

LEMMA PrefixIs ==
    ASSUME NEW A, NEW s \in Seq(A), NEW b \in 0..Len(s)
    PROVE  /\ SubSeq(s, 1, b) \in Seq(A) /\ Len(SubSeq(s, 1, b)) = b
           /\ \A i \in 1..b : SubSeq(s, 1, b)[i] = s[i]
           /\ ToSet(SubSeq(s, 1, b)) = {s[i] : i \in 1..b}
  <1>1. 0 \in 0..Len(s) /\ b \in 0..Len(s) /\ 0 + 1 = 1 /\ b - 0 = b  OBVIOUS
  <1>2. \A i \in 1..b : 0 + i = i  OBVIOUS
  <1>3. /\ SubSeq(s, 0 + 1, b) \in Seq(A) /\ Len(SubSeq(s, 0 + 1, b)) = b - 0
        /\ \A i \in 1..b - 0 : SubSeq(s, 0 + 1, b)[i] = s[0 + i]
        /\ ToSet(SubSeq(s, 0 + 1, b)) = {s[i] : i \in 0 + 1..b}
    BY <1>1, PartIs
  <1>4. QED  BY <1>1, <1>2, <1>3

LEMMA PartsJoin ==
    ASSUME NEW A, NEW s \in Seq(A), NEW a \in 0..Len(s), NEW b \in a..Len(s), NEW c \in b..Len(s)
    PROVE  SubSeq(s, a + 1, c) = SubSeq(s, a + 1, b) \o SubSeq(s, b + 1, c)
  <1>1. PICK m : m = a + 1  OBVIOUS
  <1>2. m \in 1..Len(s) + 1 /\ b \in m - 1..Len(s) /\ c \in b..Len(s)  BY <1>1
  <1>3. SubSeq(s, m, b) \o SubSeq(s, b + 1, c) = SubSeq(s, m, c)
    BY <1>2, ConcatAdjacentSubSeq
  <1>4. QED  BY <1>1, <1>3

LEMMA ToSetConcat ==
    ASSUME NEW A, NEW s \in Seq(A), NEW t \in Seq(A)
    PROVE  s \o t \in Seq(A) /\ ToSet(s \o t) = ToSet(s) \cup ToSet(t)
  <1>1. /\ s \o t \in Seq(A) /\ Len(s \o t) = Len(s) + Len(t)
        /\ \A i \in 1 .. Len(s) + Len(t) : (s \o t)[i] = IF i <= Len(s) THEN s[i] ELSE t[i - Len(s)]
    BY ConcatProperties
  <1>2. PICK u, m, n : u = s \o t /\ m = Len(s) /\ n = Len(t)  OBVIOUS
  <1>3. /\ m \in Nat /\ n \in Nat /\ DOMAIN u = 1..m + n /\ DOMAIN s = 1..m /\ DOMAIN t = 1..n
        /\ \A i \in 1..m + n : u[i] = IF i <= m THEN s[i] ELSE t[i - m]
    BY <1>1, <1>2
  <1>4. ASSUME NEW i \in 1..m PROVE s[i] \in ToSet(u)
    <2>1. i \in 1..m + n /\ u[i] = s[i]  BY <1>3
    <2>2. QED  BY <1>3, <2>1 DEF ToSet
  <1>5. ASSUME NEW i \in 1..n PROVE t[i] \in ToSet(u)
    <2>1. i + m \in 1..m + n /\ ~ (i + m <= m) /\ i + m - m = i  BY <1>3
    <2>2. u[i + m] = t[i]  BY <1>3, <2>1
    <2>3. QED  BY <1>3, <2>1, <2>2 DEF ToSet
  <1>6. ASSUME NEW i \in 1..m + n PROVE u[i] \in ToSet(s) \cup ToSet(t)
    <2>1. CASE i <= m
      <3>1. i \in 1..m /\ u[i] = s[i]  BY <1>3, <2>1
      <3>2. QED  BY <1>3, <3>1 DEF ToSet
    <2>2. CASE ~ (i <= m)
      <3>1. i - m \in 1..n /\ u[i] = t[i - m]  BY <1>3, <2>2
      <3>2. QED  BY <1>3, <3>1 DEF ToSet
    <2>3. QED  BY <2>1, <2>2
  <1>7. ToSet(s) \subseteq ToSet(u)  BY <1>3, <1>4 DEF ToSet
  <1>8. ToSet(t) \subseteq ToSet(u)  BY <1>3, <1>5 DEF ToSet
  <1>9. ToSet(u) \subseteq ToSet(s) \cup ToSet(t)
    <2> SUFFICES ASSUME NEW x \in ToSet(u) PROVE x \in ToSet(s) \cup ToSet(t)  OBVIOUS
    <2>1. PICK i \in 1..m + n : x = u[i]  BY <1>3 DEF ToSet
    <2>2. QED  BY <1>6, <2>1
  <1>10. QED  BY <1>1, <1>2, <1>7, <1>8, <1>9

LEMMA InjectiveConcat ==
    ASSUME NEW A, NEW s \in Seq(A), NEW t \in Seq(A), IsInjective(s), IsInjective(t),
           ToSet(s) \cap ToSet(t) = {}
    PROVE  IsInjective(s \o t)
  <1>1. /\ s \o t \in Seq(A) /\ Len(s \o t) = Len(s) + Len(t)
        /\ \A i \in 1 .. Len(s) + Len(t) : (s \o t)[i] = IF i <= Len(s) THEN s[i] ELSE t[i - Len(s)]
    BY ConcatProperties
  <1>2. PICK u, m, n : u = s \o t /\ m = Len(s) /\ n = Len(t)  OBVIOUS
  <1>3. /\ m \in Nat /\ n \in Nat /\ DOMAIN u = 1..m + n /\ DOMAIN s = 1..m /\ DOMAIN t = 1..n
        /\ \A i \in 1..m + n : u[i] = IF i <= m THEN s[i] ELSE t[i - m]
    BY <1>1, <1>2
  <1>4. \A i \in 1..m, j \in 1..n : s[i] # t[j]
    <2>1. \A i \in 1..m : s[i] \in ToSet(s)  BY <1>3 DEF ToSet
    <2>2. \A i \in 1..n : t[i] \in ToSet(t)  BY <1>3 DEF ToSet
    <2>3. QED  BY <2>1, <2>2
  <1>5. ASSUME NEW i \in 1..m + n, NEW j \in 1..m + n, u[i] = u[j] PROVE i = j
    <2>1. CASE i <= m /\ j <= m
      <3>1. i \in 1..m /\ j \in 1..m /\ s[i] = s[j]  BY <1>3, <1>5, <2>1
      <3>2. QED  BY <1>3, <3>1 DEF IsInjective
    <2>2. CASE i <= m /\ ~ (j <= m)
      <3>1. i \in 1..m /\ j - m \in 1..n /\ s[i] = t[j - m]  BY <1>3, <1>5, <2>2
      <3>2. QED  BY <1>4, <3>1
    <2>3. CASE ~ (i <= m) /\ j <= m
      <3>1. j \in 1..m /\ i - m \in 1..n /\ s[j] = t[i - m]  BY <1>3, <1>5, <2>3
      <3>2. QED  BY <1>4, <3>1
    <2>4. CASE ~ (i <= m) /\ ~ (j <= m)
      <3>1. i - m \in 1..n /\ j - m \in 1..n /\ t[i - m] = t[j - m]  BY <1>3, <1>5, <2>4
      <3>2. i - m = j - m  BY <1>3, <3>1 DEF IsInjective
      <3>3. QED  BY <1>3, <3>2
    <2>5. QED  BY <2>1, <2>2, <2>3, <2>4
  <1>6. QED  BY <1>2, <1>3, <1>5 DEF IsInjective

-----------------------------------------------------------------------------
(* Copies of the beginnings of a sequence                                  *)

LEMMA CopiedConcat ==
    ASSUME NEW A, NEW s \in Seq(A), NEW t \in Seq(A)
    PROVE  Copied(s \o t) = Copied(s) \o Copied(t)
  BY WithoutConcat DEF Copied

LEMMA CopiedIs ==
    ASSUME NEW A, NEW s \in Seq(A)
    PROVE  Copied(s) \in Seq(A) /\ ToSet(Copied(s)) = ToSet(s) \ Skipped
  BY WithoutElements DEF Copied

(* The elements of two parts of a sequence without repetition, one before  *)
(* the other                                                               *)
LEMMA PartsApart ==
    ASSUME NEW A, NEW s \in Seq(A), IsInjective(s), NEW a \in 0..Len(s), NEW b \in a..Len(s),
           NEW c \in b..Len(s), NEW e \in ToSet(SubSeq(s, b + 1, c))
    PROVE  e \notin ToSet(SubSeq(s, 1, a))
  <1>1. b \in 0..Len(s) /\ c \in b..Len(s)  OBVIOUS
  <1>2. PICK j \in b + 1..c : e = s[j]  BY <1>1, PartIs
  <1>3. SUFFICES ASSUME NEW i \in 1..a, e = s[i] PROVE FALSE  BY PrefixIs
  <1>4. i \in DOMAIN s /\ j \in DOMAIN s /\ i # j  OBVIOUS
  <1>5. QED  BY <1>2, <1>3, <1>4 DEF IsInjective

LEMMA PrefixGrows ==
    ASSUME NEW A, NEW s \in Seq(A), NEW b \in 0..Len(s), NEW a \in 0..b
    PROVE  ToSet(SubSeq(s, 1, a)) \subseteq ToSet(SubSeq(s, 1, b))
  <1>1. a \in 0..Len(s) /\ 1..a \subseteq 1..b  OBVIOUS
  <1>2. QED  BY <1>1, PrefixIs

LEMMA PrefixesJoin ==
    ASSUME NEW A, NEW s \in Seq(A), NEW b \in 0..Len(s), NEW c \in b..Len(s)
    PROVE  SubSeq(s, 1, c) = SubSeq(s, 1, b) \o SubSeq(s, b + 1, c)
  <1>1. 0 \in 0..Len(s) /\ b \in 0..Len(s) /\ c \in b..Len(s) /\ 0 + 1 = 1  OBVIOUS
  <1>2. SubSeq(s, 0 + 1, c) = SubSeq(s, 0 + 1, b) \o SubSeq(s, b + 1, c)  BY <1>1, PartsJoin
  <1>3. QED  BY <1>1, <1>2

CopyOf(s, copy) == \E m \in 0..Len(s) : copy = Copied(SubSeq(s, 1, m))

(* A page of what a sequence holds after a position, appended to a copy of *)
(* a beginning of it that has all up to the position, makes a longer copy. *)
LEMMA PageExtendsCopy ==
    ASSUME NEW A, NEW s \in Seq(A), IsInjective(s), NEW n \in 0..Len(s),
           NEW after \in 0..Len(s), NEW high \in after..Len(s),
           NEW copy, copy = Copied(SubSeq(s, 1, n)),
           ToSet(SubSeq(s, 1, after)) \ Skipped \subseteq ToSet(copy),
           NEW rows, rows = Without(Copied(SubSeq(s, after + 1, high)), ToSet(copy))
    PROVE  CopyOf(s, copy \o rows)
  <1> USE DEF CopyOf
  <1> DEFINE P(a) == SubSeq(s, 1, a)
             M(a, b) == SubSeq(s, a + 1, b)
  <1>1. \A a \in 0..Len(s) : P(a) \in Seq(A) /\ ToSet(P(a)) = {s[i] : i \in 1..a}
    BY PrefixIs
  <1>2. \A a \in 0..Len(s) : \A b \in a..Len(s) :
          M(a, b) \in Seq(A) /\ ToSet(M(a, b)) = {s[i] : i \in a + 1..b}
    BY PartIs
  <1>3. n \in 0..Len(s) /\ after \in 0..Len(s) /\ high \in 0..Len(s) /\ after <= high
    OBVIOUS
  <1>4. copy \in Seq(A) /\ ToSet(copy) = ToSet(P(n)) \ Skipped  BY <1>1, <1>3, CopiedIs
  <1>5. PICK page : page = Copied(M(after, high))  OBVIOUS
  <1>6. page \in Seq(A) /\ ToSet(page) = ToSet(M(after, high)) \ Skipped
    BY <1>2, <1>5, CopiedIs
  <1>7. CASE high <= n
    <2>1. ToSet(M(after, high)) \subseteq ToSet(P(n))
      <3>1. after + 1..high \subseteq 1..n  BY <1>3, <1>7
      <3>2. ToSet(M(after, high)) = {s[i] : i \in after + 1..high}  BY <1>2
      <3>3. ToSet(P(n)) = {s[i] : i \in 1..n}  BY <1>1
      <3>4. QED  BY <3>1, <3>2, <3>3
    <2>2. ToSet(page) \subseteq ToSet(copy)  BY <1>4, <1>6, <2>1
    <2>3. rows = <<>>  BY <1>5, <1>6, <2>2, WithoutAll
    <2>4. copy \o <<>> = copy  BY <1>4, ConcatEmptySeq
    <2>5. QED  BY <2>3, <2>4
  <1>8. CASE n < high /\ after <= n
    <2>1. n \in after..Len(s) /\ high \in n..Len(s)  BY <1>8
    <2>2. M(after, high) = M(after, n) \o M(n, high)  BY <2>1, PartsJoin
    <2>3. P(high) = P(n) \o M(n, high)  BY <2>1, PrefixesJoin
    <2>4. PICK x, y : x = Copied(M(after, n)) /\ y = Copied(M(n, high))  OBVIOUS
    <2>5. M(after, n) \in Seq(A) /\ M(n, high) \in Seq(A) /\ P(n) \in Seq(A)
      BY <1>1, <1>2, <2>1
    <2>6. /\ x \in Seq(A) /\ ToSet(x) = ToSet(M(after, n)) \ Skipped
          /\ y \in Seq(A) /\ ToSet(y) = ToSet(M(n, high)) \ Skipped
      BY <2>4, <2>5, CopiedIs
    <2>7. page = x \o y /\ Copied(P(high)) = copy \o y
      BY <1>5, <2>2, <2>3, <2>4, <2>5, CopiedConcat
    <2>8. ToSet(x) \subseteq ToSet(copy)
      <3>1. after + 1..n \subseteq 1..n  BY <1>8
      <3>2. QED  BY <1>1, <1>2, <1>4, <2>1, <2>6, <3>1
    <2>9. ToSet(y) \cap ToSet(copy) = {}
      <3> SUFFICES ASSUME NEW e \in ToSet(y), e \in ToSet(copy) PROVE FALSE  OBVIOUS
      <3>1. e \in ToSet(SubSeq(s, n + 1, high)) /\ e \in ToSet(SubSeq(s, 1, n))
        BY <1>4, <2>6
      <3>2. n \in n..Len(s) /\ high \in n..Len(s)  BY <2>1
      <3>3. QED  BY <3>1, <3>2, PartsApart
    <2>10. Without(x, ToSet(copy)) = <<>>  BY <2>6, <2>8, WithoutAll
    <2>11. Without(y, ToSet(copy)) = y  BY <2>6, <2>9, WithoutNothing
    <2>12. Without(page, ToSet(copy)) = <<>> \o y
      <3>1. PICK R : R = ToSet(copy)  OBVIOUS
      <3>2. Without(x \o y, R) = Without(x, R) \o Without(y, R)  BY SMTT(40), <2>6, WithoutConcat
      <3>3. QED  BY <2>7, <2>10, <2>11, <3>1, <3>2
    <2>13. <<>> \o y = y  BY <2>6, ConcatEmptySeq
    <2>14. rows = y  BY <1>5, <2>12, <2>13
    <2>15. QED  BY <1>3, <2>7, <2>14
  <1>9. CASE n < after
    <2>1. after \in n..Len(s) /\ high \in after..Len(s)  BY <1>9
    <2>2. P(after) = P(n) \o M(n, after)  BY <2>1, PrefixesJoin
    <2>3. P(high) = P(after) \o M(after, high)  BY PrefixesJoin
    <2>4. PICK x, y : x = Copied(M(n, after)) /\ y = Copied(P(after))  OBVIOUS
    <2>5. M(n, after) \in Seq(A) /\ M(after, high) \in Seq(A) /\ P(n) \in Seq(A) /\ P(after) \in Seq(A)
      BY <1>1, <1>2, <2>1
    <2>6. /\ x \in Seq(A) /\ ToSet(x) = ToSet(M(n, after)) \ Skipped
      BY <2>4, <2>5, CopiedIs
    <2>7. y = copy \o x /\ Copied(P(high)) = y \o page
      BY <1>5, <2>2, <2>3, <2>4, <2>5, CopiedConcat
    <2>8. ToSet(x) = {}
      <3> SUFFICES ASSUME NEW e \in ToSet(x) PROVE FALSE  OBVIOUS
      <3>1. e \in ToSet(SubSeq(s, n + 1, after)) /\ e \notin Skipped  BY <2>6
      <3>2. n \in n..Len(s) /\ after \in n..Len(s)  BY <2>1
      <3>3. e \notin ToSet(SubSeq(s, 1, n))  BY <3>1, <3>2, PartsApart
      <3>4. e \in ToSet(SubSeq(s, 1, after))
        <4>1. n + 1..after \subseteq 1..after  BY <1>3
        <4>2. QED  BY <1>1, <1>2, <1>3, <2>1, <3>1, <4>1
      <3>5. QED  BY <1>4, <3>1, <3>3, <3>4
    <2>9. x = <<>>
      <3>1. ToSet(x) \subseteq {}  BY <2>8
      <3>2. Without(x, {}) = <<>>  BY <2>6, <3>1, WithoutAll
      <3>3. Without(x, {}) = x  BY <2>6, <2>8, WithoutNothing
      <3>4. QED  BY <3>2, <3>3
    <2>10. y = copy  BY <1>4, <2>7, <2>9, ConcatEmptySeq
    <2>11. ToSet(page) \cap ToSet(copy) = {}
      <3> SUFFICES ASSUME NEW e \in ToSet(page), e \in ToSet(copy) PROVE FALSE  OBVIOUS
      <3>1. e \in ToSet(SubSeq(s, after + 1, high)) /\ e \in ToSet(SubSeq(s, 1, n))
        BY <1>4, <1>6
      <3>2. n \in 0..Len(s) /\ after \in n..Len(s) /\ high \in after..Len(s)  BY <2>1
      <3>3. QED  BY <3>1, <3>2, PartsApart
    <2>12. rows = page  BY <1>5, <1>6, <2>11, WithoutNothing
    <2>13. QED  BY <1>3, <2>7, <2>10, <2>12
  <1>10. high <= n \/ (n < high /\ after <= n) \/ n < after  BY <1>3
  <1>11. QED  BY <1>7, <1>8, <1>9, <1>10, Zenon

-----------------------------------------------------------------------------
(* The invariant                                                           *)

Anchors == Events \cup {None}
Pages == [ceiling : 0..MaxEvents, top : Anchors, high : 0..MaxEvents, anchor : Anchors,
          more : BOOLEAN, rows : Seq(Events)]
Ops == [step : Steps, attempt : 0..MaxAttempts, follows : BOOLEAN, known : 0..MaxEvents,
        after : 0..MaxEvents, anchor : Anchors, ceiling : 0..MaxEvents \cup {None},
        top : Anchors, page : Pages]

(* The source, and the one before it, hold an event once.                  *)
SourceIsSound ==
  /\ source \in Seq(Events) /\ Len(source) <= MaxEvents /\ IsInjective(source)
  /\ next \in 1..(MaxEvents + 1)
  /\ before = None \/ before \in Seq(Events)

Typed ==
  /\ mode \in {"fork", "local", "remote"} /\ opened \in BOOLEAN /\ ahead \in BOOLEAN
  /\ SourceIsSound
  /\ replica \in Seq(Events)
  /\ evidence \in Cursors \cup {None}
  /\ owner \in Readers \cup {None}
  /\ DOMAIN op = Readers
  /\ faults \in 0..MaxFaults

(* A cursor was read from the source or from the one before it.            *)
WasThere(high, anchor) ==
  before # None /\ high \in 1..Len(before) /\ before[high] = anchor
Named(high, anchor) ==
  high = 0 \/ (anchor \in Events /\ (At(high) = anchor \/ WasThere(high, anchor)))

(* Whichever it was: all of it up to there is among the events, or the     *)
(* fork is a copy of it up to there.  Once an event has recurred no cursor *)
(* vouches for anything.                                                   *)
Covers(high, anchor, events) ==
  ~ Recurred =>
    /\ high > 0 /\ At(high) = anchor => ToCopy(high) \subseteq events
    /\ WasThere(high, anchor) => ToSet(SubSeq(before, 1, high)) \ Skipped \subseteq events
Forked(high, anchor) ==
  ~ Recurred =>
    /\ high > 0 /\ At(high) = anchor => replica = SubSeq(source, 1, high)
    /\ WasThere(high, anchor) => replica = SubSeq(before, 1, high)

EvidenceFits ==
  evidence # None =>
    /\ Named(evidence.high, evidence.anchor)
    /\ mode # "fork" => Covers(evidence.high, evidence.anchor, ToSet(replica))
    /\ mode = "fork" => opened /\ Forked(evidence.high, evidence.anchor)

Unopened == mode = "fork" /\ ~ opened => replica = <<>>

(* What is true of a refresh o in flight.                                  *)
Fits(o) ==
  /\ mode = "fork" => o.step \in {"idle", "choose", "bootstrap", "connect", "forked", "ok"}
  /\ mode # "fork" => o.step # "forked"
  /\ mode = "local" => o.step # "answered" /\ o.page = NoPage
  /\ o.step \notin {"own", "answered"} => o.page = NoPage
  /\ o.step \in {"idle", "choose", "bootstrap"} => o.after = 0
  /\ o.step \in {"idle", "choose", "bootstrap", "connect"} => o.ceiling = None
  /\ mode = "fork" /\ o.step # "forked" => o.after = 0

Covered(o) ==
  /\ Named(o.after, o.anchor) /\ Covers(o.after, o.anchor, ToSet(replica))
  /\ Named(o.page.high, o.page.anchor)
  /\ Covers(o.page.high, o.page.anchor, ToSet(replica) \cup ToSet(o.page.rows))
  /\ IsInjective(o.page.rows)

HasForked(o) ==
  mode = "fork" /\ o.step = "forked" =>
    /\ opened /\ Forked(o.after, o.anchor)
    /\ o.known > 0 => o.known <= o.after /\ At(o.after) = o.anchor

Reading(o) == o.step \in {"own", "page", "answered", "finish"}

(* What a refresh has read is still in the source: unless the source was   *)
(* replaced under it.                                                      *)
Holds(high, anchor) == high = 0 \/ At(high) = anchor
IsPage(page, after) ==
  /\ Holds(page.high, page.anchor)
  /\ after <= page.high /\ page.high <= page.ceiling /\ page.ceiling <= Len(source)
  /\ page.more <=> page.high < page.ceiling
  /\ page.rows = Copied(SubSeq(source, after + 1, page.high))
Current(o) ==
  /\ Holds(o.after, o.anchor)
  /\ mode = "remote" /\ o.step \in {"own", "answered"} =>
       IsPage(o.page, o.after) /\ o.known <= o.page.ceiling
  /\ (mode = "local" /\ o.step = "own") \/ o.step = "page" =>
       /\ o.ceiling # None
       /\ o.after <= o.ceiling /\ o.ceiling <= Len(source) /\ o.known <= o.ceiling
  /\ o.step = "finish" => o.known <= o.after
StaysCurrent(o) == Reading(o) /\ (o.known > 0 \/ ~ ahead \/ mode = "local") => Current(o)

Fresh(o) ==
  /\ o.known <= Len(source)
  /\ o.step = "ok" /\ ~ Recurred => ToCopy(o.known) \subseteq ToSet(replica)

ReaderInv(o) == o \in Ops /\ Fits(o) /\ Covered(o) /\ HasForked(o) /\ StaysCurrent(o) /\ Fresh(o)

(* The replica is a copy of the source, or, up to its cursor, of the one   *)
(* before it: then the cursor keeps every refresh out of the new one.      *)
IsKeptOut(o) ==
  /\ ~ Reading(o) /\ o.step # "bootstrap"
  /\ o.step = "connect" =>
       o.follows /\ o.after = evidence.high /\ o.anchor = evidence.anchor
KeptOut ==
  /\ evidence # None /\ WasThere(evidence.high, evidence.anchor)
  /\ replica = Copied(SubSeq(before, 1, evidence.high))
  /\ At(evidence.high) # evidence.anchor
  /\ \A r \in Readers : IsKeptOut(op[r])
OneHistory ==
  /\ before = None => ~ ahead
  /\ mode # "fork" /\ ~ ahead /\ ~ Recurred => IsCopyOf(source) \/ KeptOut

Base == Typed /\ EvidenceFits /\ Unopened /\ NothingIsCopiedTwice
IInv == Base /\ (\A r \in Readers : ReaderInv(op[r])) /\ OneHistory

-----------------------------------------------------------------------------
(* The source                                                              *)

(* How the source may change in a step                                     *)
Grows ==
  /\ Len(source) < MaxEvents /\ before' = before /\ next' \in 1..(MaxEvents + 1)
  /\ \E e \in Events : e \notin ToSet(source) /\ source' = Append(source, e)
Shrinks ==
  /\ before = None /\ before' = source /\ next' = next
  /\ \E keep \in 0..Len(source) : source' = SubSeq(source, 1, keep)
Stands == source' = source /\ next' = next /\ before' = before

LEMMA SourceIs ==
    ASSUME SourceIsSound
    PROVE  /\ source \in Seq(Events) /\ Len(source) \in Nat /\ Len(source) <= MaxEvents
           /\ IsInjective(source)
  BY DEF SourceIsSound

LEMMA BeforeIs ==
    ASSUME SourceIsSound, before # None
    PROVE  /\ before \in Seq(Events) /\ Len(before) \in Nat
           /\ \A i \in 1..Len(before) : before[i] \in Events
  BY DEF SourceIsSound

(* A source that grew is what it was, and one event more.                  *)
LEMMA Grown ==
    ASSUME SourceIsSound, Grows
    PROVE  /\ source' \in Seq(Events) /\ Len(source') = Len(source) + 1 /\ Len(source) \in Nat
           /\ \A i \in 1..Len(source) : source'[i] = source[i]
           /\ before' = before /\ IsInjective(source')
  <1>1. PICK e \in Events : e \notin ToSet(source) /\ source' = Append(source, e)
    BY DEF Grows
  <1>2. source \in Seq(Events) /\ IsInjective(source)  BY SourceIs
  <1>3. PICK n, t : n = Len(source) /\ t = Append(source, e)  OBVIOUS
  <1>4. t \in Seq(Events) /\ Len(t) = n + 1 /\ n \in Nat /\ \A i \in 1..n : t[i] = source[i]
    BY <1>2, <1>3
  <1>5. IsInjective(t)  BY <1>1, <1>2, <1>3, InjectiveAppend
  <1>6. QED  BY <1>1, <1>3, <1>4, <1>5 DEF Grows

LEMMA SourceStaysSound ==
    ASSUME SourceIsSound, Grows \/ Shrinks \/ Stands
    PROVE  SourceIsSound'
  <1>1. source \in Seq(Events) /\ Len(source) \in Nat /\ Len(source) <= MaxEvents
        /\ IsInjective(source) /\ MaxEvents \in Nat
    BY SourceIs, BoundAssumption
  <1>2. CASE Grows
    <2>1. Len(source') <= MaxEvents  BY <1>1, <1>2, Grown DEF Grows
    <2>2. QED  BY <1>2, <2>1, Grown DEF SourceIsSound, Grows
  <1>3. CASE Shrinks
    <2>1. PICK keep \in 0..Len(source) : source' = SubSeq(source, 1, keep)
      BY <1>3 DEF Shrinks
    <2>2. PICK t : t = SubSeq(source, 1, keep)  OBVIOUS
    <2>3. t \in Seq(Events) /\ Len(t) = keep /\ \A i \in 1..keep : t[i] = source[i]
      BY <1>1, <2>2, PrefixIs
    <2>4. IsInjective(t)
      <3>1. DOMAIN t = 1..keep /\ DOMAIN source = 1..Len(source)  BY <1>1, <2>3
      <3>2. QED  BY <1>1, <2>3, <3>1 DEF IsInjective
    <2>5. source' = t /\ keep <= MaxEvents  BY <1>1, <2>1, <2>2
    <2>6. before' \in Seq(Events) /\ next' = next  BY <1>1, <1>3 DEF Shrinks
    <2>7. QED  BY <2>3, <2>4, <2>5, <2>6 DEF SourceIsSound
  <1>4. CASE Stands  BY <1>4 DEF Stands, SourceIsSound
  <1>5. QED  BY <1>2, <1>3, <1>4

(* Where the source has an event of the one before it at its position, and *)
(* none has recurred, it has all before it as well.                        *)
LEMMA SamePrefix ==
    ASSUME SourceIsSound, ~ Recurred, NEW high, NEW anchor,
           WasThere(high, anchor), At(high) = anchor
    PROVE  high \in 1..Len(source) /\ SubSeq(source, 1, high) = SubSeq(before, 1, high)
  <1>1. before # None /\ high \in 1..Len(before) /\ before[high] = anchor  BY DEF WasThere
  <1>2. anchor \in Events  BY <1>1, BeforeIs
  <1>3. anchor # None  BY <1>2, NoneAssumption DEF Events
  <1>4. high \in 1..Len(source) /\ source[high] = anchor  BY <1>3 DEF At
  <1>5. high <= Len(before)  BY <1>1, BeforeIs
  <1>6. QED  BY <1>1, <1>4, <1>5 DEF Recurred

(* What recurred has recurred for good.                                    *)
LEMMA RecurredStays ==
    ASSUME SourceIsSound, Grows \/ Shrinks \/ Stands, ~ Recurred'
    PROVE  ~ Recurred
  <1> SUFFICES ASSUME Recurred PROVE FALSE  OBVIOUS
  <1>1. before # None  BY DEF Recurred
  <1>2. CASE Stands  BY <1>2 DEF Stands, Recurred
  <1>3. CASE Shrinks  BY <1>1, <1>3 DEF Shrinks
  <1>4. CASE Grows
    <2>1. PICK i \in 1..Len(source) : /\ i <= Len(before) /\ source[i] = before[i]
                                      /\ SubSeq(source, 1, i) # SubSeq(before, 1, i)
      BY DEF Recurred
    <2>2. i \in 1..Len(source') /\ source'[i] = source[i] /\ before' = before
      BY <1>4, <2>1, Grown
    <2>3. SubSeq(source', 1, i) = SubSeq(source, 1, i)
      <3>1. PICK t : t = source'  OBVIOUS
      <3>2. t \in Seq(Events) /\ i \in 0..Len(t) /\ i \in 0..Len(source) /\ source \in Seq(Events)
            /\ \A k \in 1..i : t[k] = source[k]
        BY <1>4, <2>1, <3>1, Grown, SourceIs
      <3>3. PICK u, v : u = SubSeq(t, 1, i) /\ v = SubSeq(source, 1, i)  OBVIOUS
      <3>4. u \in Seq(Events) /\ Len(u) = i /\ \A k \in 1..i : u[k] = t[k]
        BY <3>2, <3>3, PrefixIs
      <3>5. v \in Seq(Events) /\ Len(v) = i /\ \A k \in 1..i : v[k] = source[k]
        BY <3>2, <3>3, PrefixIs
      <3>6. \A k \in 1..Len(u) : u[k] = v[k]  BY <3>2, <3>4, <3>5
      <3>7. u = v  BY <3>4, <3>5, <3>6, SeqEqual
      <3>8. QED  BY <3>1, <3>3, <3>7
    <2>4. Recurred'  BY <1>1, <2>1, <2>2, <2>3 DEF Recurred
    <2>5. QED  BY <2>4
  <1>5. QED  BY <1>2, <1>3, <1>4

(* The source at a position that has the name it was read with: it is what *)
(* it was before the step up to there, or what the one before it was.      *)
LEMMA HeldBefore ==
    ASSUME SourceIsSound, Grows \/ Shrinks \/ Stands, ~ Recurred',
           NEW high \in Nat, NEW anchor, high > 0, Named(high, anchor), At(high)' = anchor
    PROVE  \/ /\ At(high) = anchor
              /\ SubSeq(source', 1, high) = SubSeq(source, 1, high)
           \/ /\ WasThere(high, anchor) /\ before' = before
              /\ SubSeq(source', 1, high) = SubSeq(before, 1, high)
  <1>1. source \in Seq(Events) /\ Len(source) \in Nat  BY SourceIs
  <1>2. anchor \in Events /\ anchor # None /\ (At(high) = anchor \/ WasThere(high, anchor))
    BY NoneAssumption DEF Named, Events
  <1>3. SourceIsSound'  BY SourceStaysSound
  <1>4. CASE At(high) = anchor
    <2>1. high \in 1..Len(source) /\ high \in 1..Len(source')  BY <1>2, <1>4 DEF At
    <2>2. \A i \in 1..high : source'[i] = source[i]
      <3>1. CASE Grows  BY <1>1, <2>1, <3>1, Grown
      <3>2. CASE Shrinks
        <4>1. PICK keep \in 0..Len(source) : source' = SubSeq(source, 1, keep)
          BY <3>2 DEF Shrinks
        <4>2. Len(source') = keep /\ \A i \in 1..keep : source'[i] = source[i]
          BY <1>1, <4>1, PrefixIs
        <4>3. QED  BY <1>1, <2>1, <4>2
      <3>3. CASE Stands  BY <3>3 DEF Stands
      <3>4. QED  BY <3>1, <3>2, <3>3
    <2>3. PICK t : t = source'  OBVIOUS
    <2>4. t \in Seq(Events) /\ high \in 0..Len(t) /\ high \in 0..Len(source)
      BY <1>3, <2>1, <2>3 DEF SourceIsSound
    <2>5. PICK u, v : u = SubSeq(t, 1, high) /\ v = SubSeq(source, 1, high)  OBVIOUS
    <2>6. u \in Seq(Events) /\ Len(u) = high /\ \A k \in 1..high : u[k] = t[k]
      BY <2>4, <2>5, PrefixIs
    <2>7. v \in Seq(Events) /\ Len(v) = high /\ \A k \in 1..high : v[k] = source[k]
      BY <1>1, <2>4, <2>5, PrefixIs
    <2>8. \A k \in 1..Len(u) : u[k] = v[k]  BY <2>2, <2>3, <2>6, <2>7
    <2>9. u = v  BY <2>6, <2>7, <2>8, SeqEqual
    <2>10. QED  BY <1>4, <2>3, <2>5, <2>9
  <1>5. CASE WasThere(high, anchor)
    <2>1. ~ Shrinks  BY <1>5 DEF Shrinks, WasThere
    <2>2. before' = before  BY <2>1 DEF Grows, Stands
    <2>3. WasThere(high, anchor)'  BY <1>5, <2>2 DEF WasThere
    <2>4. SubSeq(source', 1, high) = SubSeq(before', 1, high)
      <3>1. high \in 1..Len(before') /\ before'[high] = anchor /\ before' # None
        BY <2>3 DEF WasThere
      <3>2. high \in 1..Len(source') /\ source'[high] = anchor  BY <1>2 DEF At
      <3>3. high <= Len(before')  BY <3>1
      <3>4. QED  BY <3>1, <3>2, <3>3 DEF Recurred
    <2>5. QED  BY <1>5, <2>2, <2>4
  <1>6. QED  BY <1>2, <1>4, <1>5

LEMMA NamedStays ==
    ASSUME SourceIsSound, Grows \/ Shrinks \/ Stands,
           NEW high \in Nat, NEW anchor, Named(high, anchor)
    PROVE  Named(high, anchor)'
  <1>1. CASE high = 0  BY <1>1 DEF Named
  <1>2. CASE high # 0
    <2>1. anchor \in Events /\ anchor # None /\ (At(high) = anchor \/ WasThere(high, anchor))
      BY <1>2, NoneAssumption DEF Named, Events
    <2>2. CASE WasThere(high, anchor)
      <3>1. ~ Shrinks  BY <2>2 DEF Shrinks, WasThere
      <3>2. before' = before  BY <3>1 DEF Grows, Stands
      <3>3. WasThere(high, anchor)'  BY <2>2, <3>2 DEF WasThere
      <3>4. QED  BY <2>1, <3>3 DEF Named
    <2>3. CASE At(high) = anchor
      <3>1. high \in 1..Len(source) /\ source[high] = anchor /\ Len(source) \in Nat
        BY <2>1, <2>3, SourceIs DEF At
      <3>2. CASE Grows
        <4>1. high \in 1..Len(source') /\ source'[high] = anchor  BY <3>1, <3>2, Grown
        <4>2. QED  BY <2>1, <4>1 DEF Named, At
      <3>3. CASE Shrinks
        <4>1. before' = source /\ source # None
          BY <3>3, SourceIs, NoneAssumption DEF Shrinks, Events
        <4>2. WasThere(high, anchor)'  BY <3>1, <4>1 DEF WasThere
        <4>3. QED  BY <2>1, <4>2 DEF Named
      <3>4. CASE Stands  BY <2>1, <2>3, <3>4 DEF Named, At, Stands
      <3>5. QED  BY <3>2, <3>3, <3>4
    <2>4. QED  BY <2>1, <2>2, <2>3
  <1>3. QED  BY <1>1, <1>2

(* What was there before the step was in the source, or in the one before. *)
LEMMA WasThereBefore ==
    ASSUME SourceIsSound, Grows \/ Shrinks \/ Stands, NEW high, NEW anchor,
           WasThere(high, anchor)'
    PROVE  \/ WasThere(high, anchor) /\ before' = before
           \/ before' = source /\ At(high) = anchor /\ high \in 1..Len(source)
  <1>1. CASE Shrinks
    <2>1. before' = source  BY <1>1 DEF Shrinks
    <2>2. QED  BY <2>1 DEF WasThere, At
  <1>2. CASE Grows \/ Stands
    <2>1. before' = before  BY <1>2 DEF Grows, Stands
    <2>2. QED  BY <2>1 DEF WasThere
  <1>3. QED  BY <1>1, <1>2

LEMMA CoversStay ==
    ASSUME SourceIsSound, Grows \/ Shrinks \/ Stands,
           NEW high \in Nat, NEW anchor, Named(high, anchor),
           NEW events, NEW more, events \subseteq more, Covers(high, anchor, events)
    PROVE  Covers(high, anchor, more)'
  <1> SUFFICES ASSUME ~ Recurred'
               PROVE  /\ high > 0 /\ At(high)' = anchor => ToCopy(high)' \subseteq more
                      /\ WasThere(high, anchor)' =>
                           ToSet(SubSeq(before', 1, high)) \ Skipped \subseteq more
    BY DEF Covers
  <1>1. ~ Recurred  BY RecurredStays
  <1>2. /\ high > 0 /\ At(high) = anchor => ToCopy(high) \subseteq events
        /\ WasThere(high, anchor) => ToSet(SubSeq(before, 1, high)) \ Skipped \subseteq events
    BY <1>1 DEF Covers
  <1>3. ASSUME high > 0, At(high)' = anchor PROVE ToCopy(high)' \subseteq more
    BY <1>2, <1>3, HeldBefore DEF ToCopy
  <1>4. ASSUME WasThere(high, anchor)'
        PROVE  ToSet(SubSeq(before', 1, high)) \ Skipped \subseteq more
    <2>1. CASE WasThere(high, anchor) /\ before' = before  BY <1>2, <2>1
    <2>2. CASE before' = source /\ At(high) = anchor /\ high \in 1..Len(source)
      <3>1. high > 0  BY <2>2
      <3>2. QED  BY <1>2, <2>2, <3>1 DEF ToCopy
    <2>3. QED  BY <1>4, <2>1, <2>2, WasThereBefore
  <1>5. QED  BY <1>3, <1>4

LEMMA ForkedStays ==
    ASSUME SourceIsSound, Grows \/ Shrinks \/ Stands, replica' = replica,
           NEW high \in Nat, NEW anchor, Named(high, anchor), Forked(high, anchor)
    PROVE  Forked(high, anchor)'
  <1> SUFFICES ASSUME ~ Recurred'
               PROVE  /\ high > 0 /\ At(high)' = anchor => replica' = SubSeq(source', 1, high)
                      /\ WasThere(high, anchor)' => replica' = SubSeq(before', 1, high)
    BY DEF Forked
  <1>1. ~ Recurred  BY RecurredStays
  <1>2. /\ high > 0 /\ At(high) = anchor => replica = SubSeq(source, 1, high)
        /\ WasThere(high, anchor) => replica = SubSeq(before, 1, high)
    BY <1>1 DEF Forked
  <1>3. ASSUME high > 0, At(high)' = anchor PROVE replica' = SubSeq(source', 1, high)
    BY <1>2, <1>3, HeldBefore
  <1>4. ASSUME WasThere(high, anchor)' PROVE replica' = SubSeq(before', 1, high)
    <2>1. CASE WasThere(high, anchor) /\ before' = before  BY <1>2, <2>1
    <2>2. CASE before' = source /\ At(high) = anchor /\ high \in 1..Len(source)
      <3>1. high > 0  BY <2>2
      <3>2. QED  BY <1>2, <2>2, <3>1
    <2>3. QED  BY <1>4, <2>1, <2>2, WasThereBefore
  <1>5. QED  BY <1>3, <1>4

(* What was read from the source itself vouches for it.                    *)
LEMMA CoversNow ==
    ASSUME SourceIsSound, NEW high \in Nat, NEW anchor, Holds(high, anchor), NEW events,
           ~ Recurred => high = 0 \/ ToCopy(high) \subseteq events
    PROVE  Covers(high, anchor, events)
  <1> SUFFICES ASSUME ~ Recurred, high > 0
               PROVE  /\ ToCopy(high) \subseteq events
                      /\ WasThere(high, anchor) =>
                           ToSet(SubSeq(before, 1, high)) \ Skipped \subseteq events
    <2>1. high = 0 => ~ WasThere(high, anchor)  BY DEF WasThere
    <2>2. QED  BY <2>1 DEF Covers
  <1>1. ToCopy(high) \subseteq events /\ At(high) = anchor  BY DEF Holds
  <1>2. WasThere(high, anchor) => SubSeq(source, 1, high) = SubSeq(before, 1, high)
    BY <1>1, SamePrefix
  <1>3. QED  BY <1>1, <1>2 DEF ToCopy

(* What is in the source stays as it grows.                                *)
LEMMA PartStays ==
    ASSUME SourceIsSound, Grows, NEW a \in Nat, NEW b \in a..Len(source)
    PROVE  SubSeq(source', a + 1, b) = SubSeq(source, a + 1, b)
  <1>1. source \in Seq(Events) /\ Len(source) \in Nat  BY SourceIs
  <1>2. PICK n, t : n = Len(source) /\ t = source'  OBVIOUS
  <1>3. Len(t) = n + 1 /\ \A i \in 1..n : t[i] = source[i]  BY <1>2, Grown
  <1>4. source' = t /\ t \in Seq(Events)  BY <1>2, Grown
  <1>5. /\ a \in 0..Len(source) /\ b \in a..Len(source)
        /\ a \in 0..Len(t) /\ b \in a..Len(t)
    BY <1>1, <1>2, <1>3
  <1>6. PICK p, q : p = SubSeq(t, a + 1, b) /\ q = SubSeq(source, a + 1, b)  OBVIOUS
  <1>7. p \in Seq(Events) /\ Len(p) = b - a /\ \A i \in 1..b - a : p[i] = t[a + i]
    BY <1>4, <1>5, <1>6, PartIs
  <1>8. q \in Seq(Events) /\ Len(q) = b - a /\ \A i \in 1..b - a : q[i] = source[a + i]
    BY <1>1, <1>5, <1>6, PartIs
  <1>9. \A i \in 1..Len(p) : p[i] = q[i]
    <2> SUFFICES ASSUME NEW i \in 1..b - a PROVE p[i] = q[i]  BY <1>7
    <2>1. a + i \in 1..n  BY <1>1, <1>2, <1>5
    <2>2. QED  BY <1>3, <1>7, <1>8, <2>1
  <1>10. p = q  BY <1>7, <1>8, <1>9, SeqEqual
  <1>11. QED  BY <1>4, <1>6, <1>10

LEMMA HoldsStay ==
    ASSUME SourceIsSound, Grows, NEW high \in Nat, NEW anchor, Named(high, anchor),
           Holds(high, anchor)
    PROVE  Holds(high, anchor)'
  <1>1. CASE high = 0  BY <1>1 DEF Holds
  <1>2. CASE high # 0
    <2>1. anchor # None /\ At(high) = anchor
      BY <1>2, NoneAssumption DEF Named, Events, Holds
    <2>2. high \in 1..Len(source) /\ source[high] = anchor /\ Len(source) \in Nat
      BY <2>1, SourceIs DEF At
    <2>3. high \in 1..Len(source') /\ source'[high] = anchor  BY <2>2, Grown
    <2>4. QED  BY <2>3 DEF Holds, At
  <1>3. QED  BY <1>1, <1>2

-----------------------------------------------------------------------------
(* A refresh while the source or another refresh moves                     *)

LEMMA OpIs ==
    ASSUME NEW o \in Ops
    PROVE  /\ o.step \in Steps /\ o.attempt \in Nat /\ o.follows \in BOOLEAN
           /\ o.known \in Nat /\ o.after \in Nat /\ o.anchor \in Anchors
           /\ o.page \in Pages /\ o.page.high \in Nat /\ o.page.ceiling \in Nat
           /\ o.page.rows \in Seq(Events) /\ (o.ceiling # None => o.ceiling \in Nat)
  BY BoundAssumption DEF Ops, Pages

LEMMA FitsStays ==
    ASSUME NEW o, Fits(o), mode' = mode PROVE Fits(o)'
  BY DEF Fits

(* A refresh that takes no step, where the source stands.                  *)
LEMMA OthersStay ==
    ASSUME NEW o, ReaderInv(o), SourceIsSound, Stands, mode' = mode, ahead' = ahead,
           ToSet(replica) \subseteq ToSet(replica'), opened => opened',
           mode = "fork" /\ opened => replica' = replica
    PROVE  ReaderInv(o)'
  <1> USE DEF ReaderInv
  <1>1. o \in Ops /\ o.page \in Pages /\ o.after \in Nat /\ o.page.high \in Nat  BY OpIs
  <1>2. Fits(o)'  BY FitsStays
  <1>3. Covered(o)'
    <2>1. Named(o.after, o.anchor)' /\ Named(o.page.high, o.page.anchor)'
      BY <1>1, NamedStays DEF Covered
    <2>2. Covers(o.after, o.anchor, ToSet(replica))'
      <3>1. PICK s, t : s = ToSet(replica) /\ t = ToSet(replica')  OBVIOUS
      <3>2. Covers(o.after, o.anchor, t)'
        BY <1>1, <3>1, CoversStay DEF Covered
      <3>3. QED  BY <3>1, <3>2 DEF Covers
    <2>3. Covers(o.page.high, o.page.anchor, ToSet(replica) \cup ToSet(o.page.rows))'
      <3>1. PICK s, t : /\ s = ToSet(replica) \cup ToSet(o.page.rows)
                        /\ t = ToSet(replica') \cup ToSet(o.page.rows)
        OBVIOUS
      <3>2. s \subseteq t /\ Covers(o.page.high, o.page.anchor, s)  BY <3>1 DEF Covered
      <3>3. Covers(o.page.high, o.page.anchor, t)'
        BY <1>1, <3>2, CoversStay DEF Covered
      <3>4. QED  BY <3>1, <3>3 DEF Covers
    <2>4. QED  BY <2>1, <2>2, <2>3 DEF Covered
  <1>4. HasForked(o)'
    <2> SUFFICES ASSUME mode = "fork", o.step = "forked"
                 PROVE /\ opened' /\ Forked(o.after, o.anchor)'
                       /\ o.known > 0 => o.known <= o.after /\ At(o.after)' = o.anchor
      BY DEF HasForked
    <2>1. opened /\ Forked(o.after, o.anchor) /\ replica' = replica  BY DEF HasForked
    <2>2. Forked(o.after, o.anchor)'  BY <1>1, <2>1, ForkedStays DEF Covered
    <2>3. QED  BY <2>1, <2>2 DEF HasForked, At, Stands
  <1>5. StaysCurrent(o)'
    BY DEF StaysCurrent, Reading, Current, Holds, At, IsPage, Stands
  <1>6. Fresh(o)'  BY DEF Fresh, ToCopy, Stands, Recurred
  <1>7. QED  BY <1>1, <1>2, <1>3, <1>4, <1>5, <1>6

(* An event is committed to the source.                                    *)
LEMMA CommitKeepsReader ==
    ASSUME NEW o, ReaderInv(o), SourceIsSound, Grows, mode' = mode, ahead' = ahead,
           replica' = replica, opened' = opened
    PROVE  ReaderInv(o)'
  <1> USE DEF ReaderInv
  <1>1. /\ o \in Ops /\ o.page \in Pages /\ o.after \in Nat /\ o.page.high \in Nat
        /\ o.known \in Nat /\ o.page.ceiling \in Nat /\ (o.ceiling # None => o.ceiling \in Nat)
    BY OpIs
  <1>2. Fits(o)'  BY FitsStays
  <1>3. Covered(o)'
    <2>1. Named(o.after, o.anchor)' /\ Named(o.page.high, o.page.anchor)'
      BY <1>1, NamedStays DEF Covered
    <2>2. Covers(o.after, o.anchor, ToSet(replica))'
      <3>1. PICK s : s = ToSet(replica)  OBVIOUS
      <3>2. Covers(o.after, o.anchor, s)'
        BY <1>1, <3>1, CoversStay DEF Covered
      <3>3. QED  BY <3>1, <3>2 DEF Covers
    <2>3. Covers(o.page.high, o.page.anchor, ToSet(replica) \cup ToSet(o.page.rows))'
      <3>1. PICK s : s = ToSet(replica) \cup ToSet(o.page.rows)
        OBVIOUS
      <3>3. Covers(o.page.high, o.page.anchor, s)'
        BY <1>1, <3>1, CoversStay DEF Covered
      <3>4. QED  BY <3>1, <3>3 DEF Covers
    <2>4. QED  BY <2>1, <2>2, <2>3 DEF Covered
  <1>4. HasForked(o)'
    <2> SUFFICES ASSUME mode = "fork", o.step = "forked"
                 PROVE /\ opened' /\ Forked(o.after, o.anchor)'
                       /\ o.known > 0 => o.known <= o.after /\ At(o.after)' = o.anchor
      BY DEF HasForked
    <2>1. opened /\ Forked(o.after, o.anchor)  BY DEF HasForked
    <2>2. Forked(o.after, o.anchor)'  BY <1>1, <2>1, ForkedStays DEF Covered
    <2>3. ASSUME o.known > 0 PROVE o.known <= o.after /\ At(o.after)' = o.anchor
      <3>1. o.known <= o.after /\ At(o.after) = o.anchor  BY <2>3 DEF HasForked
      <3>2. Holds(o.after, o.anchor)'  BY <1>1, <3>1, HoldsStay DEF Covered, Holds
      <3>3. o.after # 0  BY <1>1, <2>3, <3>1
      <3>4. QED  BY <3>1, <3>2, <3>3 DEF Holds
    <2>4. QED  BY <2>1, <2>2, <2>3
  <1>5. Len(source) \in Nat /\ Len(source') = Len(source) + 1
    BY Grown
  <1>6. StaysCurrent(o)'
    <2> SUFFICES ASSUME Current(o) PROVE Current(o)'  BY DEF StaysCurrent, Reading
    <2>1. Holds(o.after, o.anchor)'  BY <1>1, HoldsStay DEF Covered, Current
    <2>2. ASSUME IsPage(o.page, o.after) PROVE IsPage(o.page, o.after)'
      <3>1. Holds(o.page.high, o.page.anchor)'
        BY <1>1, <2>2, HoldsStay DEF Covered, IsPage
      <3>2. o.page.high \in o.after..Len(source)  BY <1>1, <1>5, <2>2 DEF IsPage
      <3>3. SubSeq(source', o.after + 1, o.page.high) = SubSeq(source, o.after + 1, o.page.high)
        BY <1>1, <3>2, PartStays
      <3>4. o.page.ceiling <= Len(source')  BY <1>1, <1>5, <2>2 DEF IsPage
      <3>5. QED  BY <2>2, <3>1, <3>3, <3>4 DEF IsPage, Copied
    <2>3. QED  BY <1>1, <1>5, <2>1, <2>2 DEF Current
  <1>7. Fresh(o)'
    <2>1. o.known <= Len(source')  BY <1>1, <1>5 DEF Fresh
    <2>2. ToCopy(o.known)' = ToCopy(o.known)
      <3>1. 0 \in Nat /\ o.known \in 0..Len(source) /\ 0 + 1 = 1  BY <1>1, <1>5 DEF Fresh
      <3>2. SubSeq(source', 0 + 1, o.known) = SubSeq(source, 0 + 1, o.known)
        BY <3>1, PartStays
      <3>3. QED  BY <3>1, <3>2 DEF ToCopy
    <2>3. ~ Recurred' => ~ Recurred  BY RecurredStays
    <2>4. QED  BY <2>1, <2>2, <2>3 DEF Fresh
  <1>8. QED  BY <1>1, <1>2, <1>3, <1>4, <1>6, <1>7

(* An older backup of the source takes its place.                          *)
LEMMA ToCopyNone ==
    ASSUME SourceIsSound PROVE ToCopy(0) = {} /\ ToCopy(0)' = {}
  <1>1. SubSeq(source, 1, 0) = <<>> /\ SubSeq(source', 1, 0) = <<>>  OBVIOUS
  <1>2. QED  BY <1>1 DEF ToCopy, ToSet

LEMMA ReplaceKeepsReader ==
    ASSUME NEW o, ReaderInv(o), SourceIsSound, Shrinks, mode' = mode,
           replica' = replica, opened' = opened,
           (mode = "remote" /\ ahead') \/ o.step \in {"idle", "ok"},
           NEW new, new = [o EXCEPT !.known = 0]
    PROVE  ReaderInv(new)'
  <1> USE DEF ReaderInv
  <1>1. o \in Ops /\ o.page \in Pages /\ o.after \in Nat /\ o.page.high \in Nat
    BY OpIs
  <1>2. /\ new \in Ops /\ new.step = o.step /\ new.known = 0 /\ new.after = o.after
        /\ new.anchor = o.anchor /\ new.page = o.page /\ new.ceiling = o.ceiling
    BY <1>1, BoundAssumption DEF Ops
  <1>3. Fits(new)'
    <2>1. Fits(o)'  BY FitsStays
    <2>2. QED  BY <1>2, <2>1 DEF Fits
  <1>4. Covered(new)'
    <2>1. Named(o.after, o.anchor)' /\ Named(o.page.high, o.page.anchor)'
      BY <1>1, NamedStays DEF Covered
    <2>2. Covers(o.after, o.anchor, ToSet(replica))'
      <3>1. PICK s : s = ToSet(replica)  OBVIOUS
      <3>2. Covers(o.after, o.anchor, s)'
        BY <1>1, <3>1, CoversStay DEF Covered
      <3>3. QED  BY <3>1, <3>2 DEF Covers
    <2>3. Covers(o.page.high, o.page.anchor, ToSet(replica) \cup ToSet(o.page.rows))'
      <3>1. PICK s : s = ToSet(replica) \cup ToSet(o.page.rows)
        OBVIOUS
      <3>3. Covers(o.page.high, o.page.anchor, s)'
        BY <1>1, <3>1, CoversStay DEF Covered
      <3>4. QED  BY <3>1, <3>3 DEF Covers
    <2>4. QED  BY <1>2, <2>1, <2>2, <2>3 DEF Covered
  <1>5. HasForked(new)'  BY <1>2 DEF HasForked
  <1>6. StaysCurrent(new)'  BY <1>2 DEF StaysCurrent, Reading
  <1>7. Fresh(new)'
    <2>1. Len(source') \in Nat  BY SourceStaysSound DEF SourceIsSound
    <2>2. QED  BY <1>2, <2>1, ToCopyNone DEF Fresh
  <1>8. QED  BY <1>2, <1>3, <1>4, <1>5, <1>6, <1>7

-----------------------------------------------------------------------------
(* A page                                                                  *)

(* A beginning of a part of a sequence is a part of it                     *)
LEMMA PartOfPart ==
    ASSUME NEW A, NEW s \in Seq(A), NEW a \in 0..Len(s), NEW b \in a..Len(s),
           NEW k \in 0..b - a, NEW t, t = SubSeq(s, a + 1, b)
    PROVE  SubSeq(t, 1, k) = SubSeq(s, a + 1, a + k)
  <1>1. t \in Seq(A) /\ Len(t) = b - a /\ \A i \in 1..b - a : t[i] = s[a + i]  BY PartIs
  <1>2. a + k \in a..Len(s)  OBVIOUS
  <1>3. PICK c : c = a + k  OBVIOUS
  <1>4. PICK p, q : p = SubSeq(t, 1, k) /\ q = SubSeq(s, a + 1, c)  OBVIOUS
  <1>5. p \in Seq(A) /\ Len(p) = k /\ \A i \in 1..k : p[i] = t[i]
    <2>1. k \in 0..Len(t)  BY <1>1
    <2>2. QED  BY <1>1, <1>4, <2>1, PrefixIs
  <1>6. q \in Seq(A) /\ Len(q) = c - a /\ \A i \in 1..c - a : q[i] = s[a + i]
    BY <1>2, <1>3, <1>4, PartIs
  <1>7. c - a = k  BY <1>3
  <1>8. \A i \in 1..Len(p) : p[i] = q[i]
    <2> SUFFICES ASSUME NEW i \in 1..k PROVE p[i] = q[i]  BY <1>5
    <2>1. i \in 1..b - a  OBVIOUS
    <2>2. QED  BY <1>1, <1>5, <1>6, <1>7, <2>1
  <1>9. p = q  BY <1>5, <1>6, <1>7, <1>8, SeqEqual
  <1>10. QED  BY <1>3, <1>4, <1>9

LEMMA AtIs ==
    ASSUME SourceIsSound, NEW i \in 0..Len(source)
    PROVE  At(i) \in Anchors /\ Named(i, At(i)) /\ Holds(i, At(i))
  <1>1. i # 0 => i \in 1..Len(source)  BY SourceIs
  <1>2. \A j \in 1..Len(source) : source[j] \in Events  BY SourceIs
  <1>3. QED  BY <1>1, <1>2 DEF At, Named, Holds, Anchors

(* What a page from after to at most ceiling is, that passes over some     *)
(* events.                                                                 *)
ReadsOn(page, after, ceiling, passed) ==
  /\ page \in Pages /\ page.ceiling = ceiling /\ page.high \in after..ceiling
  /\ Named(page.high, page.anchor) /\ Holds(page.high, page.anchor)
  /\ page.rows = Without(SubSeq(source, after + 1, page.high), passed)
  /\ page.more <=> page.high < ceiling
  /\ page.more => page.high # after

LEMMA PageIs ==
    ASSUME SourceIsSound, NEW after \in Nat, NEW ceiling \in Nat,
           after <= ceiling, ceiling <= Len(source),
           NEW cut \in 1..PageSize, NEW represented,
           NEW passed, passed = Skipped \cup represented,
           NEW page, page = PageOf(after, ceiling, cut, represented)
    PROVE  ReadsOn(page, after, ceiling, passed)
  <1>1. /\ source \in Seq(Events) /\ Len(source) \in Nat /\ MaxEvents \in Nat
        /\ Len(source) <= MaxEvents /\ PageSize \in Nat /\ PageSize > 0
    BY PageAssumption, SourceIs, BoundAssumption
  <1>2. passed = Skipped \cup represented  OBVIOUS
  <1>3. PICK last : last = IF after + PageSize < ceiling THEN after + PageSize ELSE ceiling
    OBVIOUS
  <1>4. last \in after..ceiling /\ (after < ceiling => after < last)  BY <1>1, <1>3
  <1>5. PICK full : full = SubSeq(source, after + 1, last)  OBVIOUS
  <1>6. after \in 0..Len(source) /\ last \in after..Len(source)  BY <1>1, <1>4
  <1>7. full \in Seq(Events) /\ Len(full) = last - after  BY <1>1, <1>5, <1>6, PartIs
  <1>8. PICK rows : rows = IF cut < Len(full) /\ full[cut + 1] \notin passed
                                /\ \E i \in 1..cut : full[i] \notin passed
                           THEN SubSeq(full, 1, cut) ELSE full
    OBVIOUS
  <1>9. PICK high : high = after + Len(rows)  OBVIOUS
  <1>10. page = [ceiling |-> ceiling, top |-> At(ceiling), high |-> high, anchor |-> At(high),
                 more |-> high < ceiling, rows |-> Without(rows, passed)]
    BY <1>2, <1>3, <1>5, <1>8, <1>9, Zenon DEF PageOf, HighOf
  <1>11. /\ rows \in Seq(Events) /\ Len(rows) \in 0..last - after
         /\ (last > after => Len(rows) > 0)
         /\ rows = SubSeq(source, after + 1, after + Len(rows))
    <2>1. CASE rows = full
      <3>1. after + Len(full) = last  BY <1>4, <1>7
      <3>2. QED  BY <1>4, <1>5, <1>7, <2>1, <3>1
    <2>2. CASE rows = SubSeq(full, 1, cut) /\ cut < Len(full)
      <3>1. cut \in 1..last - after /\ cut \in 0..Len(full)  BY <1>1, <1>4, <1>7, <2>2
      <3>2. rows \in Seq(Events) /\ Len(rows) = cut  BY <1>7, <2>2, <3>1, PrefixIs
      <3>3. cut \in 0..last - after  BY <3>1
      <3>4. SubSeq(full, 1, cut) = SubSeq(source, after + 1, after + cut)
        BY <1>1, <1>5, <1>6, <3>3, PartOfPart
      <3>5. QED  BY <2>2, <3>1, <3>2, <3>4
    <2>3. QED  BY <1>8, <2>1, <2>2
  <1>12. /\ high \in after..ceiling /\ high \in 0..Len(source) /\ high \in 0..MaxEvents
         /\ ceiling \in 0..Len(source) /\ ceiling \in 0..MaxEvents
         /\ (after < ceiling => high # after)
    BY <1>1, <1>4, <1>9, <1>11
  <1>13. At(ceiling) \in Anchors /\ At(high) \in Anchors /\ Named(high, At(high)) /\ Holds(high, At(high))
    BY <1>12, AtIs
  <1>14. Without(rows, passed) \in Seq(Events)  BY <1>11, WithoutElements
  <1>15. (high < ceiling) \in BOOLEAN  OBVIOUS
  <1>16. page \in Pages  BY <1>10, <1>12, <1>13, <1>14, <1>15 DEF Pages
  <1>17. PICK h, a : h = high /\ a = At(high)  OBVIOUS
  <1>18. /\ page.ceiling = ceiling /\ page.high = h /\ page.anchor = a
         /\ page.rows = Without(rows, passed)
    BY <1>10, <1>17
  <1>19. page.more <=> h < ceiling
    <2>1. PICK m : m = (high < ceiling)  OBVIOUS
    <2>2. page.more = m  BY <1>10, <2>1
    <2>3. QED  BY <1>17, <2>1, <2>2
  <1>20. page.more => h # after  BY <1>12, <1>17, <1>19
  <1>21. page.rows = Without(SubSeq(source, after + 1, h), passed)
    BY <1>9, <1>11, <1>17, <1>18
  <1>22. Named(h, a) /\ Holds(h, a) /\ h \in after..ceiling  BY <1>12, <1>13, <1>17
  <1>23. QED  BY <1>16, <1>18, <1>19, <1>20, <1>21, <1>22 DEF ReadsOn

LEMMA AskedPageIs ==
    ASSUME SourceIsSound, NEW after \in Nat, NEW ceiling \in Nat,
           after <= ceiling, ceiling <= Len(source),
           NEW cut \in 1..PageSize, NEW none, none = {},
           NEW page, page = PageOf(after, ceiling, cut, none)
    PROVE  /\ page \in Pages /\ page.ceiling = ceiling /\ page.high \in after..ceiling
           /\ Named(page.high, page.anchor) /\ Holds(page.high, page.anchor)
           /\ page.more <=> page.high < ceiling
           /\ page.rows = Copied(SubSeq(source, after + 1, page.high))
  <1>1. PICK passed : passed = Skipped  OBVIOUS
  <1>2. passed = Skipped \cup none  BY <1>1
  <1>3. ReadsOn(page, after, ceiling, passed)  BY <1>2, PageIs
  <1>4. page.rows = Without(SubSeq(source, after + 1, page.high), Skipped)
    BY <1>1, <1>3 DEF ReadsOn
  <1>5. QED  BY <1>3, <1>4 DEF Copied, ReadsOn

(* What a page makes of what was read before it                            *)
LEMMA PageCovers ==
    ASSUME SourceIsSound, NEW after \in Nat, NEW high \in after..Len(source),
           NEW anchor, Holds(high, anchor), NEW old, Holds(after, old),
           NEW events, Covers(after, old, events),
           ToSet(SubSeq(source, after + 1, high)) \ Skipped \subseteq events
    PROVE  Covers(high, anchor, events)
  <1>1. source \in Seq(Events) /\ Len(source) \in Nat  BY SourceIs
  <1>2. after \in 0..Len(source) /\ high \in 0..Len(source)  BY <1>1
  <1>0. high \in Nat  BY <1>1
  <1> SUFFICES ASSUME ~ Recurred PROVE ToCopy(high) \subseteq events
    BY <1>0, CoversNow
  <1>3. ToCopy(after) \subseteq events
    <2>1. CASE after = 0  BY <2>1, ToCopyNone
    <2>2. CASE after # 0  BY <2>2 DEF Holds, Covers
    <2>3. QED  BY <2>1, <2>2
  <1>4. SUFFICES ASSUME NEW e \in ToSet(SubSeq(source, 1, high)), e \notin Skipped
                 PROVE  e \in events
    BY DEF ToCopy
  <1>5. PICK i \in 1..high : e = source[i]  BY <1>1, <1>2, PrefixIs
  <1>6. CASE i <= after
    <2>1. i \in 1..after  BY <1>6
    <2>2. ToSet(SubSeq(source, 1, after)) = {source[j] : j \in 1..after}
      BY <1>1, <1>2, PrefixIs
    <2>3. e \in ToSet(SubSeq(source, 1, after))  BY <1>5, <2>1, <2>2
    <2>4. QED  BY <1>3, <1>4, <2>3 DEF ToCopy
  <1>7. CASE ~ (i <= after)
    <2>1. i \in after + 1..high  BY <1>7
    <2>2. e \in ToSet(SubSeq(source, after + 1, high))  BY <1>1, <1>2, <1>5, <2>1, PartIs
    <2>3. QED  BY <1>4, <2>2
  <1>8. QED  BY <1>6, <1>7

LEMMA CopiedUpTo ==
    ASSUME SourceIsSound, NEW high \in 0..Len(source), NEW known \in 0..high,
           NEW events, ToCopy(high) \subseteq events
    PROVE  ToCopy(known) \subseteq events
  <1>1. source \in Seq(Events)  BY DEF SourceIsSound
  <1>2. QED  BY <1>1, PrefixGrows DEF ToCopy

-----------------------------------------------------------------------------
(* A refresh that takes a step                                             *)

LEMMA NoPageIs ==
  /\ NoPage \in Pages /\ NoPage.high = 0 /\ NoPage.rows = <<>> /\ IsInjective(<<>>)
  <1>1. <<>> \in Seq(Events) /\ None \in Anchors /\ 0 \in 0..MaxEvents
    BY BoundAssumption DEF Anchors
  <1>2. IsInjective(<<>>)  BY DEF IsInjective
  <1>3. QED  BY <1>1, <1>2 DEF NoPage, Pages

LEMMA NothingRead ==
    ASSUME SourceIsSound, NEW step \in {"idle", "choose", "ok"}, NEW a \in 0..MaxAttempts,
           NEW k \in 0..Len(source), step = "ok" /\ ~ Recurred => ToCopy(k) \subseteq ToSet(replica),
           NEW new, new = [Idle EXCEPT !.step = step, !.attempt = a, !.known = k]
    PROVE  ReaderInv(new)
  <1>1. /\ new.step = step /\ new.attempt = a /\ new.known = k /\ new.follows = FALSE
        /\ new.after = 0 /\ new.anchor = None /\ new.ceiling = None /\ new.top = None
        /\ new.page = NoPage
    BY DEF Idle
  <1>2. new = [step |-> step, attempt |-> a, follows |-> FALSE, known |-> k, after |-> 0,
               anchor |-> None, ceiling |-> None, top |-> None, page |-> NoPage]
    BY DEF Idle
  <1>3. /\ k \in 0..MaxEvents /\ 0 \in 0..MaxEvents /\ step \in Steps /\ None \in Anchors
        /\ None \in 0..MaxEvents \cup {None} /\ FALSE \in BOOLEAN
    BY SourceIs, BoundAssumption DEF Steps, Anchors
  <1>4. new \in Ops
    <2>1. PICK p, C, f : p = NoPage /\ C = 0..MaxEvents \cup {None} /\ f = FALSE  OBVIOUS
    <2>2. new = [step |-> step, attempt |-> a, follows |-> f, known |-> k, after |-> 0,
                 anchor |-> None, ceiling |-> None, top |-> None, page |-> p]
      BY <1>2, <2>1
    <2>3. p \in Pages /\ None \in C /\ f \in BOOLEAN  BY <2>1, NoPageIs
    <2>4. new \in [step : Steps, attempt : 0..MaxAttempts, follows : BOOLEAN, known : 0..MaxEvents,
                   after : 0..MaxEvents, anchor : Anchors, ceiling : C,
                   top : Anchors, page : Pages]
      BY <1>3, <2>2, <2>3
    <2>5. QED  BY <2>1, <2>4, Zenon DEF Ops
  <1>5. Fits(new)  BY <1>1 DEF Fits
  <1>6. Covered(new)  BY <1>1, NoPageIs DEF Covered, Named, Covers, WasThere
  <1>7. HasForked(new) /\ StaysCurrent(new) /\ Fresh(new)
    BY <1>1, SourceIs DEF HasForked, StaysCurrent, Reading, Fresh
  <1>8. QED  BY <1>4, <1>5, <1>6, <1>7 DEF ReaderInv

LEMMA IdleIsSound == ASSUME SourceIsSound PROVE ReaderInv(Idle)
  <1>1. PICK new : new = [Idle EXCEPT !.step = "idle", !.attempt = 0, !.known = 0]  OBVIOUS
  <1>2. new = Idle  BY <1>1 DEF Idle
  <1>3. 0 \in 0..MaxAttempts /\ 0 \in 0..Len(source)
    BY AttemptAssumption, SourceIs
  <1>4. ReaderInv(new)  BY <1>1, <1>3, NothingRead
  <1>5. QED  BY <1>2, <1>4

LEMMA SuccessIsSound ==
    ASSUME SourceIsSound, NEW k \in 0..Len(source), ~ Recurred => ToCopy(k) \subseteq ToSet(replica),
           NEW new, new = [Idle EXCEPT !.step = "ok", !.known = k]
    PROVE  ReaderInv(new)
  <1>1. PICK x : x = [Idle EXCEPT !.step = "ok", !.attempt = 0, !.known = k]  OBVIOUS
  <1>2. x = new
    <2>1. x = [step |-> "ok", attempt |-> 0, follows |-> FALSE, known |-> k, after |-> 0,
               anchor |-> None, ceiling |-> None, top |-> None, page |-> NoPage]
      BY <1>1 DEF Idle
    <2>2. new = [step |-> "ok", attempt |-> 0, follows |-> FALSE, known |-> k, after |-> 0,
                 anchor |-> None, ceiling |-> None, top |-> None, page |-> NoPage]
      BY DEF Idle
    <2>3. QED  BY <2>1, <2>2
  <1>3. 0 \in 0..MaxAttempts  BY AttemptAssumption
  <1>4. ReaderInv(x)  BY <1>1, <1>3, NothingRead
  <1>5. QED  BY <1>2, <1>4

-----------------------------------------------------------------------------
(* The steps of a refresh o that leave the replica alone                   *)

LEMMA ChooseIsSound ==
    ASSUME SourceIsSound, evidence \in Cursors \cup {None}, EvidenceFits,
           NEW o, ReaderInv(o), o.step = "choose",
           NEW new, new = IF evidence = None THEN [o EXCEPT !.step = "bootstrap"]
                          ELSE IF mode = "fork" THEN Idle
                          ELSE [o EXCEPT !.step = "connect", !.follows = TRUE,
                                  !.after = evidence.high, !.anchor = evidence.anchor]
    PROVE  ReaderInv(new)
  <1> USE DEF ReaderInv
  <1>1. o \in Ops /\ o.known \in Nat /\ o.page = NoPage /\ o.after = 0
    BY OpIs DEF Fits
  <1>2. CASE evidence = None
    <2>1. new = [o EXCEPT !.step = "bootstrap"]  BY <1>2
    <2>2. /\ new.step = "bootstrap" /\ new.ceiling = o.ceiling /\ new.after = o.after /\ new.anchor = o.anchor
          /\ new.page = o.page /\ new.known = o.known /\ new \in Ops
      BY <1>1, <2>1 DEF Ops, Steps
    <2>3. Fits(new)  BY <1>1, <2>2 DEF Fits
    <2>4. Covered(new)  BY <2>2 DEF Covered
    <2>5. HasForked(new) /\ StaysCurrent(new) /\ Fresh(new)
      BY <2>2 DEF HasForked, StaysCurrent, Reading, Fresh
    <2>6. QED  BY <2>2, <2>3, <2>4, <2>5
  <1>3. CASE evidence # None /\ mode = "fork"
    BY <1>3, IdleIsSound
  <1>4. CASE evidence # None /\ mode # "fork"
    <2>1. PICK h, a : h = evidence.high /\ a = evidence.anchor  OBVIOUS
    <2>2. new = [o EXCEPT !.step = "connect", !.follows = TRUE, !.after = h, !.anchor = a]
      BY <1>4, <2>1
    <2>3. /\ h \in 0..MaxEvents /\ a \in Anchors  BY <1>4, <2>1 DEF Cursors, Anchors
    <2>4. /\ new.step = "connect" /\ new.ceiling = o.ceiling /\ new.after = h /\ new.anchor = a
          /\ new.page = o.page /\ new.known = o.known /\ new \in Ops
      BY <1>1, <2>2, <2>3 DEF Ops, Steps
    <2>5. Fits(new)  BY <1>1, <1>4, <2>4 DEF Fits
    <2>6. Named(h, a) /\ Covers(h, a, ToSet(replica))  BY <1>4, <2>1 DEF EvidenceFits
    <2>7. Covered(new)  BY <2>4, <2>6 DEF Covered
    <2>8. HasForked(new) /\ StaysCurrent(new) /\ Fresh(new)
      BY <1>4, <2>4 DEF HasForked, StaysCurrent, Reading, Fresh
    <2>9. QED  BY <2>4, <2>5, <2>7, <2>8
  <1>5. QED  BY <1>2, <1>3, <1>4

LEMMA BootstrapIsSound ==
    ASSUME SourceIsSound, NEW o, ReaderInv(o), o.step = "bootstrap",
           NEW new, new = [o EXCEPT !.step = "connect"]
    PROVE  ReaderInv(new)
  <1> USE DEF ReaderInv
  <1>1. o \in Ops /\ o.known \in Nat /\ o.page = NoPage /\ o.after = 0
    BY OpIs DEF Fits
  <1>2. /\ new.step = "connect" /\ new.ceiling = o.ceiling /\ new.after = o.after /\ new.anchor = o.anchor
        /\ new.page = o.page /\ new.known = o.known /\ new \in Ops
    BY <1>1 DEF Ops, Steps
  <1>3. Fits(new)  BY <1>1, <1>2 DEF Fits
  <1>4. Covered(new)  BY <1>2 DEF Covered
  <1>5. HasForked(new) /\ StaysCurrent(new) /\ Fresh(new)
    BY <1>2 DEF HasForked, StaysCurrent, Reading, Fresh
  <1>6. QED  BY <1>2, <1>3, <1>4, <1>5

(* A position whose name still holds is in the source.                     *)
LEMMA HoldsIsIn ==
    ASSUME SourceIsSound, NEW high \in Nat, NEW anchor, Named(high, anchor),
           high = 0 \/ At(high) = anchor
    PROVE  Holds(high, anchor) /\ high \in 0..Len(source)
  <1>1. Len(source) \in Nat  BY DEF SourceIsSound
  <1>2. high # 0 => anchor # None  BY NoneAssumption DEF Named, Events
  <1>3. QED  BY <1>1, <1>2 DEF Holds, At

(* All up to a position that holds is in the replica.                      *)
LEMMA HoldsCovers ==
    ASSUME SourceIsSound, NEW high \in Nat, NEW anchor, Holds(high, anchor),
           NEW events, Covers(high, anchor, events), high \in 0..Len(source),
           NEW known \in 0..high, ~ Recurred
    PROVE  ToCopy(known) \subseteq events
  <1>1. CASE high = 0
    <2>1. known = 0  BY <1>1
    <2>2. QED  BY <2>1, ToCopyNone
  <1>2. CASE high # 0
    <2>1. ToCopy(high) \subseteq events  BY <1>2 DEF Holds, Covers
    <2>2. QED  BY <2>1, CopiedUpTo
  <1>3. QED  BY <1>1, <1>2

LEMMA ConnectLocalIsSound ==
    ASSUME SourceIsSound, mode = "local", NEW o, ReaderInv(o), o.step = "connect",
           o.after = 0 \/ At(o.after) = o.anchor,
           NEW new, new = IF o.follows /\ Len(source) = o.after
                          THEN [Idle EXCEPT !.step = "ok", !.known = o.known]
                          ELSE [o EXCEPT !.step = "own", !.ceiling = Len(source)]
    PROVE  ReaderInv(new)
  <1> USE DEF ReaderInv
  <1>1. /\ o \in Ops /\ o.known \in Nat /\ o.after \in Nat /\ o.page = NoPage
    BY OpIs DEF Fits
  <1>2. Holds(o.after, o.anchor) /\ o.after \in 0..Len(source)
    BY <1>1, HoldsIsIn DEF Covered
  <1>3. Len(source) \in 0..MaxEvents /\ o.known \in 0..Len(source)
    BY <1>1, SourceIs DEF Fresh
  <1>4. CASE o.follows /\ Len(source) = o.after
    <2>1. new = [Idle EXCEPT !.step = "ok", !.known = o.known]  BY <1>4
    <2>2. o.known \in 0..o.after  BY <1>3, <1>4
    <2>3. ~ Recurred => ToCopy(o.known) \subseteq ToSet(replica)
      BY <1>1, <1>2, <2>2, HoldsCovers DEF Covered
    <2>4. QED  BY <1>3, <2>1, <2>3, SuccessIsSound
  <1>5. CASE ~ (o.follows /\ Len(source) = o.after)
    <2>1. new = [o EXCEPT !.step = "own", !.ceiling = Len(source)]  BY <1>5
    <2>2. /\ new.step = "own" /\ new.after = o.after /\ new.anchor = o.anchor
          /\ new.page = o.page /\ new.known = o.known /\ new.ceiling = Len(source)
          /\ new \in Ops
      BY <1>1, <1>3, <2>1 DEF Ops, Steps
    <2>3. Fits(new)  BY <1>1, <2>2 DEF Fits
    <2>4. Covered(new)  BY <2>2 DEF Covered
    <2>5. new.ceiling # None  BY <1>3, <2>2, NoneAssumption
    <2>6. Current(new)  BY <1>2, <1>3, <2>2, <2>5 DEF Current
    <2>7. HasForked(new) /\ StaysCurrent(new) /\ Fresh(new)
      BY <2>2, <2>6 DEF HasForked, StaysCurrent, Reading, Fresh
    <2>8. QED  BY <2>2, <2>3, <2>4, <2>7
  <1>6. QED  BY <1>4, <1>5

LEMMA PartBackwards ==
    ASSUME NEW A, NEW s \in Seq(A), NEW a \in Nat, NEW b \in Nat, a > b
    PROVE  SubSeq(s, a + 1, b) = <<>>
  <1>1. PICK m : m = a + 1  OBVIOUS
  <1>2. \A i \in m..b : s[i] \in A  BY <1>1
  <1>3. SubSeq(s, m, b) \in Seq(A) /\ Len(SubSeq(s, m, b)) = (IF m <= b THEN b - m + 1 ELSE 0)
    BY <1>1, <1>2, SubSeqProperties
  <1>4. Len(SubSeq(s, m, b)) = 0  BY <1>1, <1>3
  <1>5. QED  BY <1>1, <1>3, <1>4, LengthZero

(* What an answer makes of a refresh o                                     *)
Answered(o, same, page) ==
  IF o.ceiling = None /\ same
  THEN [Idle EXCEPT !.step = "ok", !.known = o.known]
  ELSE [o EXCEPT !.step = IF o.ceiling = None THEN "own" ELSE "answered", !.page = page]

LEMMA AskIsSound ==
    ASSUME SourceIsSound, mode = "remote", NEW o, ReaderInv(o),
           o.step = "connect" \/ (o.step = "page" /\ o.ceiling # None),
           o.after = 0 \/ At(o.after) = o.anchor,
           NEW ceiling, ceiling = IF o.ceiling = None THEN Len(source) ELSE o.ceiling,
           ceiling <= Len(source),
           NEW cut \in 1..PageSize, NEW none, none = {},
           NEW page, page = PageOf(o.after, ceiling, cut, none),
           o.after <= page.high, page.high <= page.ceiling,
           NEW same, same => page.ceiling = o.after,
           NEW new, new = Answered(o, same, page)
    PROVE  ReaderInv(new)
  <1> USE DEF ReaderInv
  <1>1. /\ o \in Ops /\ o.known \in Nat /\ o.after \in Nat
        /\ (o.ceiling # None => o.ceiling \in Nat)
    BY OpIs
  <1>2. Holds(o.after, o.anchor) /\ o.after \in 0..Len(source)
    BY <1>1, HoldsIsIn DEF Covered
  <1>3. Len(source) \in 0..MaxEvents /\ o.known \in 0..Len(source) /\ source \in Seq(Events)
        /\ IsInjective(source)
    BY <1>1, SourceIs DEF Fresh
  <1>4. ceiling \in Nat  BY <1>1, <1>3
  <1>5. page.ceiling = ceiling /\ o.after <= ceiling
    <2>1. page.ceiling = ceiling  BY DEF PageOf
    <2>2. CASE o.after <= ceiling  BY <2>1, <2>2
    <2>3. CASE o.after > ceiling
      <3>1. PICK last : last = IF o.after + PageSize < ceiling THEN o.after + PageSize ELSE ceiling
        OBVIOUS
      <3>2. last = ceiling  BY <1>1, <1>4, <2>3, <3>1, PageAssumption
      <3>3. PICK full : full = SubSeq(source, o.after + 1, last)  OBVIOUS
      <3>4. full = <<>> /\ Len(full) = 0
        <4>1. SubSeq(source, o.after + 1, ceiling) = <<>>
          BY <1>1, <1>3, <1>4, <2>3, PartBackwards
        <4>2. QED  BY <3>2, <3>3, <4>1
      <3>5. PICK rows : rows = IF cut < Len(full) /\ full[cut + 1] \notin Skipped \cup none
                                    /\ \E i \in 1..cut : full[i] \notin Skipped \cup none
                               THEN SubSeq(full, 1, cut) ELSE full
        OBVIOUS
      <3>6. ~ (cut < Len(full))  BY <3>4, PageAssumption
      <3>7. Len(rows) = 0  BY <3>4, <3>5, <3>6
      <3>8. page.high = o.after + Len(rows)
        BY <3>1, <3>3, <3>5, Zenon DEF PageOf, HighOf
      <3>9. o.after <= ceiling  BY <1>1, <2>1, <3>7, <3>8
      <3>10. QED  BY <2>1, <3>9
    <2>4. QED  BY SMTT(40), <1>1, <1>4, <2>2, <2>3
  <1>6. /\ page \in Pages /\ page.high \in o.after..ceiling
        /\ Named(page.high, page.anchor) /\ Holds(page.high, page.anchor)
        /\ page.more <=> page.high < ceiling
        /\ page.rows = Copied(SubSeq(source, o.after + 1, page.high))
    <2>1. PICK after : after = o.after  OBVIOUS
    <2>2. page = PageOf(after, ceiling, cut, none) /\ after \in Nat /\ after <= ceiling
      BY <1>1, <1>5, <2>1
    <2>3. /\ page \in Pages /\ page.high \in after..ceiling
          /\ Named(page.high, page.anchor) /\ Holds(page.high, page.anchor)
          /\ page.more <=> page.high < ceiling
          /\ page.rows = Copied(SubSeq(source, after + 1, page.high))
      BY <1>4, <2>2, AskedPageIs
    <2>4. QED  BY <2>1, <2>3
  <1>7. page.rows = Copied(SubSeq(source, o.after + 1, page.high))  BY <1>6
  <1>8. CASE o.ceiling = None /\ same
    <2>1. new = [Idle EXCEPT !.step = "ok", !.known = o.known]  BY <1>8 DEF Answered
    <2>2. o.known \in 0..o.after  BY <1>3, <1>5, <1>8
    <2>3. ~ Recurred => ToCopy(o.known) \subseteq ToSet(replica)
      BY <1>1, <1>2, <2>2, HoldsCovers DEF Covered
    <2>4. QED  BY <1>3, <2>1, <2>3, SuccessIsSound
  <1>9. CASE ~ (o.ceiling = None /\ same)
    <2>1. PICK step : step = IF o.ceiling = None THEN "own" ELSE "answered"  OBVIOUS
    <2>2. new = [o EXCEPT !.step = step, !.page = page]  BY <1>9, <2>1 DEF Answered
    <2>3. step \in {"own", "answered"} /\ step \in Steps  BY <2>1 DEF Steps
    <2>4. /\ new.step = step /\ new.after = o.after /\ new.anchor = o.anchor
          /\ new.page = page /\ new.known = o.known /\ new.ceiling = o.ceiling
          /\ new \in Ops
      BY <1>1, <1>6, <2>2, <2>3 DEF Ops
    <2>5. Fits(new)  BY <2>3, <2>4 DEF Fits
    <2>6. Covered(new)
      <3>1. PICK part : part = SubSeq(source, o.after + 1, page.high)  OBVIOUS
      <3>2. page.high \in o.after..Len(source)  BY <1>3, <1>4, <1>6
      <3>3. part \in Seq(Events)  BY <1>2, <1>3, <3>1, <3>2, PartIs
      <3>4. ToSet(page.rows) = ToSet(part) \ Skipped  BY <1>7, <3>1, <3>3, CopiedIs
      <3>5. IsInjective(part)
        <4>1. /\ Len(part) = page.high - o.after
              /\ \A i \in 1..page.high - o.after : part[i] = source[o.after + i]
          <5>1. PICK a, b : a = o.after /\ b = page.high  OBVIOUS
          <5>2. a \in 0..Len(source) /\ b \in a..Len(source) /\ part = SubSeq(source, a + 1, b)
            BY <1>2, <3>1, <3>2, <5>1
          <5>3. Len(part) = b - a /\ \A i \in 1..b - a : part[i] = source[a + i]
            BY <1>3, <5>2, PartIs
          <5>4. QED  BY <5>1, <5>3
        <4>2. DOMAIN part = 1..page.high - o.after /\ DOMAIN source = 1..Len(source)
          BY <1>3, <3>3, <4>1
        <4>3. ASSUME NEW i \in 1..page.high - o.after, NEW j \in 1..page.high - o.after,
                     part[i] = part[j]
              PROVE  i = j
          <5>1. o.after + i \in 1..Len(source) /\ o.after + j \in 1..Len(source)
            BY SMTT(40), <1>1, <1>3, <3>2
          <5>2. source[o.after + i] = source[o.after + j]  BY <4>1, <4>3
          <5>3. o.after + i = o.after + j  BY <1>3, <4>2, <5>1, <5>2 DEF IsInjective
          <5>4. QED  BY <1>1, <3>2, <5>3
        <4>4. QED  BY <4>2, <4>3 DEF IsInjective
      <3>6. IsInjective(page.rows)  BY <1>7, <3>1, <3>3, <3>5, WithoutInjective DEF Copied
      <3>7. PICK events : events = ToSet(replica) \cup ToSet(page.rows)  OBVIOUS
      <3>8. Covers(o.after, o.anchor, events)  BY <3>7 DEF Covered, Covers
      <3>9. Covers(page.high, page.anchor, events)
        BY <1>1, <1>2, <1>6, <3>1, <3>2, <3>4, <3>7, <3>8, PageCovers
      <3>10. QED  BY <1>6, <2>4, <3>6, <3>7, <3>9 DEF Covered
    <2>7. StaysCurrent(new)
      <3> SUFFICES ASSUME o.known > 0 \/ ~ ahead PROVE Current(new)
        BY <2>4 DEF StaysCurrent
      <3>1. o.known <= ceiling
        <4>1. CASE o.ceiling = None  BY <1>3, <4>1
        <4>2. CASE o.ceiling # None
          <5>1. o.step = "page"  BY <4>2 DEF Fits
          <5>2. Current(o)  BY <5>1 DEF StaysCurrent, Reading
          <5>3. QED  BY <4>2, <5>1, <5>2 DEF Current
        <4>3. QED  BY <4>1, <4>2
      <3>2. IsPage(page, o.after)  BY <1>1, <1>4, <1>5, <1>6, <1>7 DEF IsPage
      <3>3. QED  BY <1>2, <1>5, <2>3, <2>4, <3>1, <3>2 DEF Current
    <2>8. HasForked(new) /\ Fresh(new)  BY <2>3, <2>4 DEF HasForked, Fresh
    <2>9. QED  BY <2>4, <2>5, <2>6, <2>7, <2>8
  <1>10. QED  BY <1>8, <1>9

LEMMA OwnIsSound ==
    ASSUME SourceIsSound, mode \in {"fork", "local", "remote"},
           NEW o, ReaderInv(o), o.step = "own",
           NEW step, step = IF mode = "remote" THEN "answered" ELSE "page",
           NEW new, new = [o EXCEPT !.step = step]
    PROVE  ReaderInv(new)
  <1> USE DEF ReaderInv
  <1>1. o \in Ops /\ mode # "fork"  BY OpIs DEF Fits
  <1>2. /\ new.step = step /\ new.after = o.after /\ new.anchor = o.anchor
        /\ new.page = o.page /\ new.known = o.known /\ new.ceiling = o.ceiling
        /\ new \in Ops /\ step \in {"answered", "page"}
    BY <1>1 DEF Ops, Steps
  <1>3. Fits(new) /\ (step = "page" => mode = "local")  BY <1>1, <1>2 DEF Fits
  <1>4. Covered(new)  BY <1>2 DEF Covered
  <1>5. StaysCurrent(new)
    BY <1>1, <1>2, <1>3 DEF StaysCurrent, Reading, Current
  <1>6. HasForked(new) /\ Fresh(new)  BY <1>1, <1>2 DEF HasForked, Fresh
  <1>7. QED  BY <1>2, <1>3, <1>4, <1>5, <1>6

(* A page's events are in the replica.                                     *)
LEMMA MaterializedIsSound ==
    ASSUME SourceIsSound, mode # "fork", NEW o, ReaderInv(o), Reading(o),
           NEW page, page \in Pages, page.high \in Nat, page.ceiling \in Nat,
           Named(page.high, page.anchor),
           Covers(page.high, page.anchor, ToSet(replica')), replica' \in Seq(Events),
           o.known > 0 \/ ~ ahead \/ mode = "local" =>
             /\ Holds(page.high, page.anchor) /\ page.high <= page.ceiling
             /\ page.ceiling <= Len(source) /\ o.known <= page.ceiling
             /\ page.more <=> page.high < page.ceiling,
           page.more => page.high # o.after,
           Stands, mode' = mode, ahead' = ahead,
           NEW new, new = [o EXCEPT
             !.step = IF page.more /\ page.high # o.after THEN "page" ELSE "finish",
             !.after = page.high, !.anchor = page.anchor,
             !.ceiling = page.ceiling, !.top = page.top, !.page = NoPage]
    PROVE  ReaderInv(new)'
  <1> USE DEF ReaderInv
  <1>1. o \in Ops /\ o.known \in Nat  BY OpIs
  <1>2. PICK step : step = IF page.more /\ page.high # o.after THEN "page" ELSE "finish"
    OBVIOUS
  <1>3. step \in {"page", "finish"} /\ step \in Steps  BY <1>2 DEF Steps
  <1>4. /\ page.high \in 0..MaxEvents /\ page.anchor \in Anchors /\ page.top \in Anchors
        /\ page.ceiling \in 0..MaxEvents \cup {None} /\ page.ceiling # None
    BY NoneAssumption DEF Pages
  <1>5. /\ new.step = step /\ new.after = page.high /\ new.anchor = page.anchor
        /\ new.page = NoPage /\ new.known = o.known /\ new.ceiling = page.ceiling
        /\ new \in Ops
    BY <1>1, <1>2, <1>3, <1>4, NoPageIs DEF Ops
  <1>6. Fits(new)'  BY <1>3, <1>5 DEF Fits
  <1>7. Covered(new)'
    <2>1. Named(page.high, page.anchor)'  BY NamedStays
    <2>2. Covers(page.high, page.anchor, ToSet(replica))'
      BY DEF Covers, At, ToCopy, WasThere, Recurred, Stands
    <2>3. QED  BY <1>5, <2>1, <2>2, NoPageIs DEF Covered, Named, Covers, WasThere
  <1>8. StaysCurrent(new)'
    <2> SUFFICES ASSUME o.known > 0 \/ ~ ahead \/ mode = "local" PROVE Current(new)'
      BY <1>5 DEF StaysCurrent
    <2>1. /\ Holds(page.high, page.anchor) /\ page.high <= page.ceiling
          /\ page.ceiling <= Len(source) /\ o.known <= page.ceiling
          /\ page.more <=> page.high < page.ceiling
      OBVIOUS
    <2>2. Holds(page.high, page.anchor)'  BY <2>1 DEF Holds, At, Stands
    <2>3. step = "finish" => o.known <= page.high  BY <1>1, <1>2, <2>1
    <2>4. QED  BY <1>3, <1>4, <1>5, <2>1, <2>2, <2>3 DEF Current, Stands
  <1>9. HasForked(new)'  BY <1>5 DEF HasForked
  <1>10. Fresh(new)'  BY <1>3, <1>5 DEF Fresh, Stands
  <1>11. QED  BY <1>5, <1>6, <1>7, <1>8, <1>9, <1>10

LEMMA FinishedIsSound ==
    ASSUME SourceIsSound, NEW o, ReaderInv(o), o.step = "finish",
           NEW new, new = [Idle EXCEPT !.step = "ok", !.known = o.known]
    PROVE  ReaderInv(new)
  <1> USE DEF ReaderInv
  <1>1. o \in Ops /\ o.known \in Nat /\ o.after \in Nat  BY OpIs
  <1>2. o.known \in 0..Len(source)  BY <1>1, SourceIs DEF Fresh
  <1>3. ASSUME ~ Recurred PROVE ToCopy(o.known) \subseteq ToSet(replica)
    <2>1. CASE o.known = 0  BY <2>1, ToCopyNone
    <2>2. CASE o.known > 0
      <3>1. Holds(o.after, o.anchor) /\ o.known <= o.after
        BY <2>2 DEF StaysCurrent, Reading, Current
      <3>2. o.after \in 0..Len(source) /\ o.known \in 0..o.after
        BY <1>1, <3>1, HoldsIsIn DEF Covered, Holds
      <3>3. QED  BY <1>1, <1>3, <3>1, <3>2, HoldsCovers DEF Covered
    <2>3. QED  BY <1>1, <2>1, <2>2
  <1>4. QED  BY <1>2, <1>3, SuccessIsSound

LEMMA RecordedForkIsSound ==
    ASSUME SourceIsSound, NEW o, ReaderInv(o), o.step = "forked",
           NEW new, new = [Idle EXCEPT !.step = "ok", !.known = o.known]
    PROVE  ReaderInv(new)
  <1> USE DEF ReaderInv
  <1>1. o \in Ops /\ o.known \in Nat /\ o.after \in Nat /\ mode = "fork"  BY OpIs DEF Fits
  <1>2. o.known \in 0..Len(source) /\ source \in Seq(Events)
    BY <1>1, SourceIs DEF Fresh
  <1>3. ASSUME ~ Recurred PROVE ToCopy(o.known) \subseteq ToSet(replica)
    <2>1. CASE o.known = 0  BY <2>1, ToCopyNone
    <2>2. CASE o.known > 0
      <3>1. Forked(o.after, o.anchor) /\ o.known <= o.after /\ At(o.after) = o.anchor
        BY <1>1, <2>2 DEF HasForked
      <3>2. replica = SubSeq(source, 1, o.after)  BY <1>1, <1>2, <1>3, <2>2, <3>1 DEF Forked
      <3>3. o.after \in 0..Len(source) /\ o.known \in 0..o.after
        BY <1>1, <3>1, HoldsIsIn DEF Covered
      <3>4. ToSet(SubSeq(source, 1, o.known)) \subseteq ToSet(SubSeq(source, 1, o.after))
        BY <1>2, <3>3, PrefixGrows
      <3>5. QED  BY <3>2, <3>4 DEF ToCopy
    <2>3. QED  BY <1>1, <2>1, <2>2
  <1>4. QED  BY <1>2, <1>3, SuccessIsSound

LEMMA ForkedIsSound ==
    ASSUME SourceIsSound, mode = "fork", NEW o, ReaderInv(o), o.step = "connect",
           Stands, mode' = mode, opened', replica' = source,
           NEW new, new = [o EXCEPT !.step = "forked", !.after = Len(source),
                                    !.anchor = At(Len(source))]
    PROVE  ReaderInv(new)'
  <1> USE DEF ReaderInv
  <1>1. o \in Ops /\ o.known \in Nat /\ o.page = NoPage  BY OpIs DEF Fits
  <1>2. PICK n, a : n = Len(source) /\ a = At(n)  OBVIOUS
  <1>3. n \in 0..MaxEvents /\ n \in 0..Len(source) /\ source \in Seq(Events)
    BY <1>2, SourceIs
  <1>4. a \in Anchors /\ Named(n, a) /\ Holds(n, a)  BY <1>2, <1>3, AtIs
  <1>5. new = [o EXCEPT !.step = "forked", !.after = n, !.anchor = a]  BY <1>2
  <1>6. /\ new.step = "forked" /\ new.after = n /\ new.anchor = a /\ new.page = NoPage
        /\ new.known = o.known /\ new \in Ops
    BY <1>1, <1>3, <1>4, <1>5 DEF Ops, Steps
  <1>7. Fits(new)'  BY <1>6 DEF Fits
  <1>8. SubSeq(source, 1, n) = source  BY <1>2, <1>3, SubSeqFull
  <1>9. Covered(new)'
    <2>1. Named(n, a)'  BY <1>3, <1>4, NamedStays
    <2>2. PICK all : all = ToSet(source)  OBVIOUS
    <2>3. Covers(n, a, all)
      <3>1. ToCopy(n) \subseteq all  BY <1>8, <2>2 DEF ToCopy
      <3>2. n \in Nat  BY <1>3
      <3>3. QED  BY <1>4, <3>1, <3>2, CoversNow
    <2>4. Covers(n, a, ToSet(replica))'
      BY <2>2, <2>3 DEF Covers, At, ToCopy, WasThere, Recurred, Stands
    <2>5. QED  BY <1>6, <2>1, <2>4, NoPageIs DEF Covered, Named, Covers, WasThere
  <1>10. HasForked(new)'
    <2>1. Forked(n, a)'
      <3>1. ~ Recurred /\ WasThere(n, a) => SubSeq(source, 1, n) = SubSeq(before, 1, n)
        BY <1>2, SamePrefix
      <3>2. QED  BY <1>8, <3>1 DEF Forked, At, WasThere, Recurred, Stands
    <2>2. At(n)' = a  BY <1>2 DEF At, Stands
    <2>3. o.known <= n  BY <1>2 DEF Fresh
    <2>4. QED  BY <1>6, <2>1, <2>2, <2>3 DEF HasForked
  <1>11. StaysCurrent(new)' /\ Fresh(new)'  BY <1>6 DEF StaysCurrent, Reading, Fresh, Stands
  <1>12. QED  BY <1>6, <1>7, <1>9, <1>10, <1>11

-----------------------------------------------------------------------------
(* The steps keep the invariant                                            *)

LEMMA ReaderInvAt ==
    ASSUME NEW q, NEW o, op'[q] = o, ReaderInv(o)'
    PROVE  ReaderInv(op[q])'
  BY DEF ReaderInv, Fits, Covered, HasForked, StaysCurrent, Fresh, Current, IsPage, Holds,
     Covers, Named, At, ToCopy, Forked, Reading, WasThere, Recurred

(* One refresh takes a step, the others are as they were.                  *)
LEMMA ReadersStay ==
    ASSUME SourceIsSound, Stands, DOMAIN op = Readers, \A q \in Readers : ReaderInv(op[q]),
           mode' = mode, ahead' = ahead,
           ToSet(replica) \subseteq ToSet(replica'), opened => opened',
           mode = "fork" /\ opened => replica' = replica,
           NEW r \in Readers, NEW new, op' = [op EXCEPT ![r] = new], ReaderInv(new)'
    PROVE  DOMAIN op' = Readers /\ \A q \in Readers : ReaderInv(op[q])'
  <1>1. DOMAIN op' = Readers  OBVIOUS
  <1>2. ASSUME NEW q \in Readers PROVE ReaderInv(op[q])'
    <2>1. CASE q = r
      <3>1. op'[q] = new  BY <2>1
      <3>2. QED  BY <3>1, ReaderInvAt
    <2>2. CASE q # r
      <3>1. PICK o : o = op[q]  OBVIOUS
      <3>2. op'[q] = o  BY <2>2, <3>1
      <3>3. ReaderInv(o)  BY <3>1
      <3>4. ReaderInv(o)'  BY <3>3, OthersStay
      <3>5. QED  BY <3>2, <3>4, ReaderInvAt
    <2>3. QED  BY <2>1, <2>2
  <1>3. QED  BY <1>1, <1>2

LEMMA EvidenceStays ==
    ASSUME Typed, EvidenceFits, Grows \/ Shrinks \/ Stands, evidence' = evidence,
           replica' = replica, mode' = mode, opened => opened'
    PROVE  EvidenceFits'
  <1> SUFFICES ASSUME evidence # None
               PROVE  /\ Named(evidence.high, evidence.anchor)'
                      /\ mode # "fork" => Covers(evidence.high, evidence.anchor, ToSet(replica))'
                      /\ mode = "fork" => opened' /\ Forked(evidence.high, evidence.anchor)'
    BY DEF EvidenceFits
  <1>1. PICK h, a : h = evidence.high /\ a = evidence.anchor  OBVIOUS
  <1>2. SourceIsSound /\ h \in Nat  BY <1>1, BoundAssumption DEF Typed, Cursors
  <1>3. Named(h, a)  BY <1>1 DEF EvidenceFits
  <1>4. Named(h, a)'  BY <1>2, <1>3, NamedStays
  <1>5. ASSUME mode # "fork" PROVE Covers(h, a, ToSet(replica))'
    <2>1. PICK s : s = ToSet(replica)  OBVIOUS
    <2>2. Covers(h, a, s)  BY <1>1, <1>5, <2>1 DEF EvidenceFits
    <2>3. Covers(h, a, s)'  BY <1>2, <1>3, <2>2, CoversStay
    <2>4. QED  BY <2>1, <2>3 DEF Covers
  <1>6. ASSUME mode = "fork" PROVE opened' /\ Forked(h, a)'
    <2>1. opened /\ Forked(h, a)  BY <1>1, <1>6 DEF EvidenceFits
    <2>2. QED  BY <1>2, <1>3, <2>1, ForkedStays
  <1>7. Named(evidence.high, evidence.anchor)'  BY <1>1, <1>4 DEF Named, At, WasThere
  <1>8. mode # "fork" => Covers(evidence.high, evidence.anchor, ToSet(replica))'
    BY <1>1, <1>5 DEF Covers, At, ToCopy, WasThere, Recurred
  <1>9. mode = "fork" => opened' /\ Forked(evidence.high, evidence.anchor)'
    BY <1>1, <1>6 DEF Forked, At, WasThere, Recurred
  <1>10. QED  BY <1>7, <1>8, <1>9

(* A step of a refresh that leaves the replica and its cursor alone        *)
LEMMA LeavesReplicaAlone ==
    ASSUME IInv, NEW r \in Readers, NEW new, op' = [op EXCEPT ![r] = new], ReaderInv(new),
           UNCHANGED <<mode, source, next, replica, evidence, ahead, before>>,
           opened' = opened \/ (opened' /\ mode # "fork"), opened' \in BOOLEAN,
           owner' \in Readers \cup {None}, faults' \in 0..MaxFaults,
           KeptOut => IsKeptOut(new)
    PROVE  IInv'
  <1> USE DEF IInv, Base
  <1>1. SourceIsSound /\ SourceIsSound' /\ Stands /\ DOMAIN op = Readers
    BY SourceStaysSound DEF Typed, Stands
  <1>0. /\ mode' = mode /\ ahead' = ahead /\ replica' = replica /\ (opened => opened')
        /\ ToSet(replica) \subseteq ToSet(replica') /\ \A q \in Readers : ReaderInv(op[q])
    OBVIOUS
  <1>2. ReaderInv(new)'  BY <1>0, <1>1, OthersStay
  <1>3. DOMAIN op' = Readers /\ \A q \in Readers : ReaderInv(op[q])'
    BY <1>0, <1>1, <1>2, ReadersStay
  <1>4. Typed'  BY <1>1, <1>3 DEF Typed
  <1>5. EvidenceFits'  BY <1>1, EvidenceStays
  <1>6. Unopened' /\ NothingIsCopiedTwice'  BY DEF Unopened, NothingIsCopiedTwice
  <1>7. OneHistory'
    <2>1. before' = None => ~ ahead'  BY DEF OneHistory
    <2>2. ASSUME IsCopyOf(source) PROVE IsCopyOf(source)'  BY <2>2 DEF IsCopyOf
    <2>3. ASSUME KeptOut PROVE KeptOut'
      <3>1. WasThere(evidence.high, evidence.anchor)'  BY <2>3 DEF KeptOut, WasThere
      <3>2. ASSUME NEW q \in Readers PROVE IsKeptOut(op[q])'
        <4>1. IsKeptOut(new) /\ IsKeptOut(op[q])  BY <2>3 DEF KeptOut
        <4>2. op'[q] = IF q = r THEN new ELSE op[q]  BY <1>1
        <4>3. QED  BY <4>1, <4>2 DEF IsKeptOut, Reading
      <3>3. QED  BY <2>3, <3>1, <3>2 DEF KeptOut, At
    <2>4. QED  BY <2>1, <2>2, <2>3 DEF OneHistory, Recurred
  <1>8. QED  BY <1>3, <1>4, <1>5, <1>6, <1>7

LEMMA Context ==
    ASSUME IInv, NEW r \in Readers
    PROVE  /\ SourceIsSound /\ ReaderInv(op[r]) /\ op[r] \in Ops /\ Typed
           /\ KeptOut => IsKeptOut(op[r])
  BY DEF IInv, Base, Typed, KeptOut, ReaderInv

LEMMA RefreshKeepsInv ==
    ASSUME IInv, NEW r \in Readers, Refresh(r) PROVE IInv'
  <1>1. PICK n : n = Len(source)  OBVIOUS
  <1>2. PICK new : new = [Idle EXCEPT !.step = "choose", !.attempt = 1, !.known = n]  OBVIOUS
  <1>3. SourceIsSound /\ Typed  BY Context
  <1>4. n \in 0..Len(source) /\ 1 \in 0..MaxAttempts
    BY <1>1, <1>3, SourceIs, AttemptAssumption
  <1>5. ReaderInv(new)  BY <1>2, <1>3, <1>4, NothingRead
  <1>6. op' = [op EXCEPT ![r] = new]  BY <1>1, <1>2 DEF Refresh, Become
  <1>7. IsKeptOut(new)  BY <1>2 DEF IsKeptOut, Reading, Idle
  <1>8. /\ UNCHANGED <<mode, source, next, replica, evidence, ahead, before>>
        /\ opened' = opened /\ owner' = owner /\ faults' = faults
    BY DEF Refresh
  <1>9. QED  BY <1>3, <1>5, <1>6, <1>7, <1>8, LeavesReplicaAlone DEF Typed

LEMMA FailKeepsInv ==
    ASSUME IInv, NEW r \in Readers, op' = [op EXCEPT ![r] = Idle],
           UNCHANGED <<mode, source, next, opened, replica, evidence, ahead, before>>,
           owner' \in Readers \cup {None}, faults' \in 0..MaxFaults
    PROVE  IInv'
  <1>1. PICK new : new = Idle  OBVIOUS
  <1>2. SourceIsSound /\ Typed  BY Context
  <1>3. ReaderInv(new)  BY <1>1, <1>2, IdleIsSound
  <1>4. IsKeptOut(new)  BY <1>1 DEF IsKeptOut, Reading, Idle
  <1>5. QED  BY <1>1, <1>2, <1>3, <1>4, LeavesReplicaAlone DEF Typed

LEMMA ChooseKeepsInv ==
    ASSUME IInv, NEW r \in Readers, Choose(r) PROVE IInv'
  <1>1. PICK o : o = op[r]  OBVIOUS
  <1>2. PICK new : new = IF evidence = None THEN [o EXCEPT !.step = "bootstrap"]
                         ELSE IF mode = "fork" THEN Idle
                         ELSE [o EXCEPT !.step = "connect", !.follows = TRUE,
                                 !.after = evidence.high, !.anchor = evidence.anchor]
    OBVIOUS
  <1>3. SourceIsSound /\ Typed /\ ReaderInv(o) /\ o \in Ops /\ (KeptOut => IsKeptOut(o))
    BY <1>1, Context
  <1>4. o.step = "choose" /\ op' = [op EXCEPT ![r] = new]
    BY <1>1, <1>2 DEF Choose, Become
  <1>5. EvidenceFits /\ evidence \in Cursors \cup {None}  BY DEF IInv, Base, Typed
  <1>6. ReaderInv(new)  BY <1>2, <1>3, <1>4, <1>5, ChooseIsSound
  <1>7. KeptOut => IsKeptOut(new)
    <2> SUFFICES ASSUME KeptOut PROVE IsKeptOut(new)  OBVIOUS
    <2>1. evidence # None  BY DEF KeptOut
    <2>2. CASE mode = "fork"
      <3>1. new = Idle  BY <1>2, <2>1, <2>2
      <3>2. QED  BY <3>1 DEF IsKeptOut, Reading, Idle
    <2>3. CASE mode # "fork"
      <3>1. new = [o EXCEPT !.step = "connect", !.follows = TRUE,
                            !.after = evidence.high, !.anchor = evidence.anchor]
        BY <1>2, <2>1, <2>3
      <3>2. /\ new.step = "connect" /\ new.follows
            /\ new.after = evidence.high /\ new.anchor = evidence.anchor
        BY <1>3, <3>1 DEF Ops
      <3>3. QED  BY <3>2 DEF IsKeptOut, Reading
    <2>4. QED  BY <2>2, <2>3
  <1>8. /\ UNCHANGED <<mode, source, next, replica, evidence, ahead, before>>
        /\ opened' = opened /\ owner' = owner /\ faults' = faults
    BY DEF Choose
  <1>9. QED  BY <1>3, <1>4, <1>6, <1>7, <1>8, LeavesReplicaAlone DEF Typed

LEMMA BootstrapKeepsInv ==
    ASSUME IInv, NEW r \in Readers, Bootstrap(r) PROVE IInv'
  <1>1. PICK o : o = op[r]  OBVIOUS
  <1>2. SourceIsSound /\ Typed /\ ReaderInv(o) /\ o \in Ops /\ (KeptOut => IsKeptOut(o))
    BY <1>1, Context
  <1>3. o.step = "bootstrap"  BY <1>1 DEF Bootstrap
  <1>4. /\ UNCHANGED <<mode, source, next, opened, replica, evidence, ahead, before>>
        /\ opened' = opened /\ owner' = owner /\ faults' = faults
    BY DEF Bootstrap
  <1>5. CASE opened
    <2>1. op' = [op EXCEPT ![r] = Idle]  BY <1>5 DEF Bootstrap, Become
    <2>2. QED  BY <1>2, <1>4, <2>1, FailKeepsInv DEF Typed
  <1>6. CASE ~ opened
    <2>1. PICK new : new = [o EXCEPT !.step = "connect"]  OBVIOUS
    <2>2. op' = [op EXCEPT ![r] = new]  BY <1>1, <1>6, <2>1 DEF Bootstrap, Become
    <2>3. ReaderInv(new)  BY <1>2, <1>3, <2>1, BootstrapIsSound
    <2>4. ~ KeptOut  BY <1>2, <1>3 DEF IsKeptOut
    <2>5. QED  BY <1>2, <1>4, <2>2, <2>3, <2>4, LeavesReplicaAlone DEF Typed
  <1>7. QED  BY <1>5, <1>6

(* A cursor that keeps a refresh out of the source does so where the       *)
(* source is asked for its anchor.                                         *)
LEMMA KeptOutFails ==
    ASSUME Typed, NEW o \in Ops, KeptOut => IsKeptOut(o),
           o.step = "connect" \/ o.step = "page", o.after = 0 \/ At(o.after) = o.anchor
    PROVE  ~ KeptOut
  <1> SUFFICES ASSUME KeptOut PROVE FALSE  OBVIOUS
  <1>1. o.step = "connect"  BY DEF IsKeptOut, Reading
  <1>2. o.after = evidence.high /\ o.anchor = evidence.anchor  BY <1>1 DEF IsKeptOut
  <1>3. At(evidence.high) # evidence.anchor  BY DEF KeptOut
  <1>4. evidence.high # 0  BY DEF KeptOut, WasThere
  <1>5. o.after # 0 /\ At(o.after) # o.anchor  BY <1>2, <1>3, <1>4
  <1>6. QED  BY <1>5

LEMMA ConnectLocalKeepsInv ==
    ASSUME IInv, NEW r \in Readers, ConnectLocal(r) PROVE IInv'
  <1>1. PICK o : o = op[r]  OBVIOUS
  <1>2. SourceIsSound /\ Typed /\ ReaderInv(o) /\ o \in Ops /\ (KeptOut => IsKeptOut(o))
    BY <1>1, Context
  <1>3. o.step = "connect" /\ mode = "local"  BY <1>1 DEF ConnectLocal
  <1>4. /\ UNCHANGED <<mode, source, next, opened, replica, evidence, ahead, before>>
        /\ opened' = opened /\ owner' = owner /\ faults' = faults
    BY DEF ConnectLocal
  <1>5. CASE ~ AnchorHolds(r)
    <2>1. op' = [op EXCEPT ![r] = Idle]  BY <1>5 DEF ConnectLocal, Become
    <2>2. QED  BY <1>2, <1>4, <2>1, FailKeepsInv DEF Typed
  <1>6. CASE AnchorHolds(r)
    <2>1. PICK new : new = IF o.follows /\ Len(source) = o.after
                           THEN [Idle EXCEPT !.step = "ok", !.known = o.known]
                           ELSE [o EXCEPT !.step = "own", !.ceiling = Len(source)]
      OBVIOUS
    <2>2. op' = [op EXCEPT ![r] = new]
      BY <1>1, <1>6, <2>1 DEF ConnectLocal, Become, Succeeded
    <2>3. o.after = 0 \/ At(o.after) = o.anchor  BY SMTT(40), <1>1, <1>6 DEF AnchorHolds
    <2>4. ReaderInv(new)  BY <1>2, <1>3, <2>1, <2>3, ConnectLocalIsSound
    <2>5. ~ KeptOut  BY <1>2, <1>3, <2>3, KeptOutFails
    <2>6. QED  BY <1>2, <1>4, <2>2, <2>4, <2>5, LeavesReplicaAlone DEF Typed
  <1>7. QED  BY <1>5, <1>6

LEMMA AskKeepsInv ==
    ASSUME IInv, NEW r \in Readers, NEW cut \in 1..PageSize, Ask(r, cut) PROVE IInv'
  <1>1. PICK o : o = op[r]  OBVIOUS
  <1>2. SourceIsSound /\ Typed /\ ReaderInv(o) /\ o \in Ops /\ (KeptOut => IsKeptOut(o))
    BY <1>1, Context
  <1>3. mode = "remote" /\ (o.step = "connect" \/ (o.step = "page" /\ o.ceiling # None))
    BY <1>1 DEF Ask
  <1>4. UNCHANGED <<mode, source, next, opened, replica, evidence, ahead, before>>
        /\ faults' = faults
    BY DEF Ask
  <1>5. PICK ceiling, none : /\ ceiling = IF o.ceiling = None THEN Len(source) ELSE o.ceiling
                             /\ none = {}
    OBVIOUS
  <1>6. PICK page : page = PageOf(o.after, ceiling, cut, none)  OBVIOUS
  <1>7. PICK accepted : accepted <=> (Serves(r, ceiling) /\ Consistent(r, page))  OBVIOUS
  <1>8. PICK same : same <=> Unchanged(r, page)  OBVIOUS
  <1>9. PICK new : new = Answered(o, same, page)  OBVIOUS
  <1>10. /\ Become(r, IF ~ accepted THEN Idle ELSE new)
         /\ owner' = IF ~ accepted /\ owner = r THEN None ELSE owner
    <2>1. /\ Become(r, IF ~ (Serves(r, ceiling) /\ Consistent(r, page)) THEN Idle
                       ELSE IF o.ceiling = None /\ Unchanged(r, page) THEN Succeeded(r)
                       ELSE [o EXCEPT !.step = IF o.ceiling = None THEN "own" ELSE "answered",
                                      !.page = page])
          /\ owner' = IF ~ (Serves(r, ceiling) /\ Consistent(r, page)) /\ owner = r
                      THEN None ELSE owner
      BY <1>1, <1>5, <1>6, Zenon DEF Ask
    <2>2. Succeeded(r) = [Idle EXCEPT !.step = "ok", !.known = o.known]
      BY <1>1 DEF Succeeded
    <2>3. CASE ~ accepted  BY <1>7, <2>1, <2>3 DEF Become
    <2>4. CASE accepted
      <3>1. /\ Become(r, IF o.ceiling = None /\ Unchanged(r, page) THEN Succeeded(r)
                         ELSE [o EXCEPT !.step = IF o.ceiling = None THEN "own" ELSE "answered",
                                        !.page = page])
            /\ owner' = owner
        BY <1>7, <2>1, <2>4
      <3>2. CASE o.ceiling = None /\ same
        <4>1. Become(r, Succeeded(r)) /\ new = Succeeded(r)  BY <1>8, <1>9, <2>2, <3>1, <3>2 DEF Answered
        <4>2. QED  BY <2>4, <3>1, <4>1 DEF Become
      <3>3. CASE ~ (o.ceiling = None /\ same)
        <4>1. /\ Become(r, [o EXCEPT !.step = IF o.ceiling = None THEN "own" ELSE "answered",
                                     !.page = page])
              /\ new = [o EXCEPT !.step = IF o.ceiling = None THEN "own" ELSE "answered",
                                 !.page = page]
          BY <1>8, <1>9, <3>1, <3>3 DEF Answered
        <4>2. QED  BY <2>4, <3>1, <4>1 DEF Become
      <3>4. QED  BY <3>2, <3>3
    <2>5. QED  BY <2>3, <2>4, Zenon
  <1>11. owner' \in Readers \cup {None}  BY <1>2, <1>10 DEF Typed
  <1>12. CASE ~ accepted
    <2>1. op' = [op EXCEPT ![r] = Idle]  BY <1>10, <1>12 DEF Become
    <2>2. QED  BY <1>2, <1>4, <1>11, <2>1, FailKeepsInv DEF Typed
  <1>13. CASE accepted
    <2>1. op' = [op EXCEPT ![r] = new]  BY <1>10, <1>13 DEF Become
    <2>2. /\ o.after = 0 \/ At(o.after) = o.anchor
          /\ ceiling <= Len(source) /\ o.after <= page.high /\ page.high <= page.ceiling
      BY <1>1, <1>7, <1>13 DEF Serves, AnchorHolds, Consistent
    <2>3. same => page.ceiling = o.after  BY <1>1, <1>8 DEF Unchanged
    <2>4. ReaderInv(new)
      BY <1>2, <1>3, <1>5, <1>6, <1>9, <2>2, <2>3, AskIsSound
    <2>5. ~ KeptOut  BY <1>2, <1>3, <2>2, KeptOutFails
    <2>6. QED  BY <1>2, <1>4, <1>11, <2>1, <2>4, <2>5, LeavesReplicaAlone DEF Typed
  <1>14. QED  BY <1>12, <1>13

LEMMA OwnKeepsInv ==
    ASSUME IInv, NEW r \in Readers, Own(r) PROVE IInv'
  <1>1. PICK o : o = op[r]  OBVIOUS
  <1>2. SourceIsSound /\ Typed /\ ReaderInv(o) /\ o \in Ops /\ (KeptOut => IsKeptOut(o))
    BY <1>1, Context
  <1>3. o.step = "own" /\ mode # "fork"  BY <1>1, <1>2 DEF Own, ReaderInv, Fits
  <1>4. PICK step : step = IF mode = "remote" THEN "answered" ELSE "page"  OBVIOUS
  <1>5. PICK new : new = [o EXCEPT !.step = step]  OBVIOUS
  <1>6. op' = [op EXCEPT ![r] = new]  BY <1>1, <1>4, <1>5 DEF Own, Go, Become
  <1>7. ReaderInv(new)  BY <1>2, <1>3, <1>4, <1>5, OwnIsSound DEF Typed
  <1>8. ~ KeptOut  BY <1>2, <1>3 DEF IsKeptOut, Reading
  <1>9. /\ UNCHANGED <<mode, source, next, replica, evidence, ahead, before>>
        /\ opened' /\ opened' \in BOOLEAN /\ owner' = r /\ faults' = faults
    BY DEF Own
  <1>10. QED  BY <1>2, <1>3, <1>6, <1>7, <1>8, <1>9, LeavesReplicaAlone DEF Typed

LEMMA TryAgainKeepsInv ==
    ASSUME IInv, NEW r \in Readers, TryAgain(r) PROVE IInv'
  <1>1. PICK o : o = op[r]  OBVIOUS
  <1>2. SourceIsSound /\ Typed /\ ReaderInv(o) /\ o \in Ops
    BY <1>1, Context
  <1>3. /\ UNCHANGED <<mode, source, next, opened, replica, evidence, ahead, before>>
        /\ opened' = opened /\ owner' = owner /\ faults' = faults
    BY DEF TryAgain
  <1>4. CASE ~ (o.attempt < MaxAttempts)
    <2>1. op' = [op EXCEPT ![r] = Idle]  BY <1>1, <1>4 DEF TryAgain, Become
    <2>2. QED  BY <1>2, <1>3, <2>1, FailKeepsInv DEF Typed
  <1>5. CASE o.attempt < MaxAttempts
    <2>1. PICK a, k : a = o.attempt + 1 /\ k = o.known  OBVIOUS
    <2>2. PICK new : new = [Idle EXCEPT !.step = "choose", !.attempt = a, !.known = k]
      OBVIOUS
    <2>3. op' = [op EXCEPT ![r] = new]  BY <1>1, <1>5, <2>1, <2>2 DEF TryAgain, Become
    <2>4. a \in 0..MaxAttempts /\ k \in 0..Len(source)
      BY <1>2, <1>5, <2>1, OpIs, SourceIs, AttemptAssumption DEF ReaderInv, Fresh
    <2>5. ReaderInv(new)  BY <1>2, <2>2, <2>4, NothingRead
    <2>6. IsKeptOut(new)  BY <2>2 DEF IsKeptOut, Reading, Idle
    <2>7. QED  BY <1>2, <1>3, <2>3, <2>5, <2>6, LeavesReplicaAlone DEF Typed
  <1>6. QED  BY <1>4, <1>5

LEMMA ForkRefusedKeepsInv ==
    ASSUME IInv, NEW r \in Readers, ForkRefused(r) PROVE IInv'
  <1>1. Typed  BY Context
  <1>2. op' = [op EXCEPT ![r] = Idle]  BY DEF ForkRefused, Fail, Become
  <1>3. QED  BY <1>1, <1>2, FailKeepsInv DEF ForkRefused, Typed

LEMMA StopKeepsInv ==
    ASSUME IInv, NEW r \in Readers, Stop(r) PROVE IInv'
  <1>1. Typed  BY Context
  <1>2. op' = [op EXCEPT ![r] = Idle]  BY DEF Stop, Fail, Become
  <1>3. faults' \in 0..MaxFaults /\ owner' \in Readers \cup {None}
    BY <1>1, BoundAssumption DEF Stop, Typed
  <1>4. UNCHANGED <<mode, source, next, opened, replica, evidence, ahead, before>>
    BY DEF Stop
  <1>5. QED  BY <1>2, <1>3, <1>4, FailKeepsInv

(* What a page has to be for its events to be put in the replica           *)
Extends(o, page) ==
  /\ page \in Pages /\ Named(page.high, page.anchor)
  /\ IsInjective(page.rows) /\ ToSet(page.rows) \cap ToSet(replica) = {}
  /\ Covers(page.high, page.anchor, ToSet(replica) \cup ToSet(page.rows))
  /\ page.more => page.high # o.after
  /\ o.known > 0 \/ ~ ahead \/ mode = "local" =>
       /\ Holds(page.high, page.anchor) /\ o.after <= page.high /\ page.high <= page.ceiling
       /\ page.ceiling <= Len(source) /\ o.known <= page.ceiling
       /\ page.more <=> page.high < page.ceiling
       /\ Holds(o.after, o.anchor)
       /\ page.rows = Without(Copied(SubSeq(source, o.after + 1, page.high)), ToSet(replica))

LEMMA MaterializeKeepsInv ==
    ASSUME IInv, mode # "fork", NEW r \in Readers, Reading(op[r]),
           NEW page, Extends(op[r], page), Materialize(r, page)
    PROVE  IInv'
  <1> USE DEF IInv, Base
  <1>1. PICK o : o = op[r]  OBVIOUS
  <1>2. SourceIsSound /\ Typed /\ ReaderInv(o) /\ o \in Ops /\ (KeptOut => IsKeptOut(o))
    BY <1>1, Context
  <1>3. Reading(o) /\ Extends(o, page)  BY <1>1
  <1>4. /\ UNCHANGED <<mode, source, next, opened, evidence, owner, ahead, before, faults>>
        /\ replica' = replica \o page.rows
    BY DEF Materialize
  <1>5. SourceIsSound' /\ Stands  BY <1>2, <1>4, SourceStaysSound DEF Stands
  <1>6. /\ page \in Pages /\ page.high \in Nat /\ page.ceiling \in Nat
        /\ page.rows \in Seq(Events) /\ replica \in Seq(Events)
    BY <1>2, <1>3, BoundAssumption DEF Extends, Pages, Typed
  <1>7. replica' \in Seq(Events) /\ ToSet(replica') = ToSet(replica) \cup ToSet(page.rows)
    BY <1>4, <1>6, ToSetConcat
  <1>8. Covers(page.high, page.anchor, ToSet(replica'))
    BY <1>3, <1>7 DEF Extends
  <1>9. PICK new : new = [o EXCEPT
             !.step = IF page.more /\ page.high # o.after THEN "page" ELSE "finish",
             !.after = page.high, !.anchor = page.anchor,
             !.ceiling = page.ceiling, !.top = page.top, !.page = NoPage]
    OBVIOUS
  <1>10. op' = [op EXCEPT ![r] = new]  BY <1>1, <1>9 DEF Materialize, Become
  <1>11. ReaderInv(new)'
    <2>1. /\ Named(page.high, page.anchor) /\ (page.more => page.high # o.after)
          /\ (o.known > 0 \/ ~ ahead \/ mode = "local" =>
                /\ Holds(page.high, page.anchor) /\ page.high <= page.ceiling
                /\ page.ceiling <= Len(source) /\ o.known <= page.ceiling
                /\ page.more <=> page.high < page.ceiling)
      BY <1>3 DEF Extends
    <2>2. mode' = mode /\ ahead' = ahead  BY <1>4
    <2>3. QED
      BY <1>2, <1>3, <1>5, <1>6, <1>7, <1>8, <1>9, <2>1, <2>2, MaterializedIsSound
  <1>12. DOMAIN op' = Readers /\ \A q \in Readers : ReaderInv(op[q])'
    <2>1. /\ mode' = mode /\ ahead' = ahead /\ (opened => opened') /\ DOMAIN op = Readers
          /\ \A q \in Readers : ReaderInv(op[q])
      BY <1>4 DEF Typed
    <2>2. ToSet(replica) \subseteq ToSet(replica')  BY <1>7
    <2>3. QED  BY <1>2, <1>5, <1>10, <1>11, <2>1, <2>2, ReadersStay
  <1>13. Typed'  BY <1>4, <1>5, <1>7, <1>12 DEF Typed
  <1>14. EvidenceFits'
    <2> SUFFICES ASSUME evidence # None
                 PROVE  /\ Named(evidence.high, evidence.anchor)
                        /\ Covers(evidence.high, evidence.anchor, ToSet(replica'))
      BY <1>4 DEF EvidenceFits, Named, Covers, At, ToCopy, WasThere, Recurred
    <2>1. Named(evidence.high, evidence.anchor)  BY DEF EvidenceFits
    <2>2. Covers(evidence.high, evidence.anchor, ToSet(replica))  BY DEF EvidenceFits
    <2>3. QED  BY <1>7, <2>1, <2>2 DEF Covers
  <1>15. Unopened'  BY <1>4 DEF Unopened
  <1>16. NothingIsCopiedTwice'
    <2>1. IsInjective(replica) /\ IsInjective(page.rows) /\ ToSet(replica) \cap ToSet(page.rows) = {}
      BY <1>3 DEF NothingIsCopiedTwice, Extends
    <2>2. IsInjective(replica \o page.rows)  BY <1>6, <2>1, InjectiveConcat
    <2>3. QED  BY <1>4, <2>2 DEF NothingIsCopiedTwice
  <1>17. OneHistory'
    <2>1. before' = None => ~ ahead'  BY <1>4 DEF OneHistory
    <2> SUFFICES ASSUME ~ ahead, ~ Recurred PROVE IsCopyOf(source)'
      BY <1>4, <2>1 DEF OneHistory, Recurred
    <2>2. ~ KeptOut  BY <1>2, <1>3 DEF IsKeptOut
    <2>3. PICK n \in 0..Len(source) : replica = Copied(SubSeq(source, 1, n))
      BY <2>2 DEF OneHistory, IsCopyOf
    <2>4. PICK after, high : after = o.after /\ high = page.high  OBVIOUS
    <2>5. /\ after <= high /\ high <= page.ceiling /\ page.ceiling <= Len(source)
          /\ Holds(after, o.anchor)
          /\ page.rows = Without(Copied(SubSeq(source, after + 1, high)), ToSet(replica))
      BY <1>3, <2>4 DEF Extends
    <2>6. source \in Seq(Events) /\ IsInjective(source) /\ Len(source) \in Nat
      BY <1>2, SourceIs
    <2>7. after \in Nat /\ after \in 0..Len(source) /\ high \in after..Len(source)
      BY <1>2, <1>6, <2>4, <2>5, <2>6, OpIs
    <2>8. ToCopy(after) \subseteq ToSet(replica)
      <3>1. Covers(after, o.anchor, ToSet(replica))  BY <1>2, <2>4 DEF ReaderInv, Covered
      <3>2. CASE after = 0  BY <1>2, <3>2, ToCopyNone
      <3>3. CASE after # 0  BY <2>5, <2>7, <3>1, <3>3 DEF Covers, Holds
      <3>4. QED  BY <3>2, <3>3
    <2>9. PICK copy, rows : copy = replica /\ rows = page.rows  OBVIOUS
    <2>10. ToSet(SubSeq(source, 1, after)) \ Skipped \subseteq ToSet(copy)
      BY <2>8, <2>9 DEF ToCopy
    <2>11. copy = Copied(SubSeq(source, 1, n))
           /\ rows = Without(Copied(SubSeq(source, after + 1, high)), ToSet(copy))
      BY <2>3, <2>5, <2>9
    <2>12. CopyOf(source, copy \o rows)
      BY <2>6, <2>7, <2>10, <2>11, PageExtendsCopy
    <2>13. QED  BY <1>4, <2>9, <2>12 DEF IsCopyOf, CopyOf
  <1>18. QED  BY <1>12, <1>13, <1>14, <1>15, <1>16, <1>17

LEMMA PartInjective ==
    ASSUME NEW A, NEW s \in Seq(A), IsInjective(s), NEW a \in 0..Len(s), NEW b \in a..Len(s)
    PROVE  IsInjective(SubSeq(s, a + 1, b))
  <1>1. PICK part : part = SubSeq(s, a + 1, b)  OBVIOUS
  <1>2. part \in Seq(A) /\ Len(part) = b - a /\ \A i \in 1..b - a : part[i] = s[a + i]
    BY <1>1, PartIs
  <1>3. DOMAIN part = 1..b - a /\ DOMAIN s = 1..Len(s)  BY <1>2
  <1>4. ASSUME NEW i \in 1..b - a, NEW j \in 1..b - a, part[i] = part[j] PROVE i = j
    <2>1. a + i \in 1..Len(s) /\ a + j \in 1..Len(s)  OBVIOUS
    <2>2. s[a + i] = s[a + j]  BY <1>2, <1>4
    <2>3. a + i = a + j  BY <1>3, <2>1, <2>2 DEF IsInjective
    <2>4. QED  BY <2>3
  <1>5. QED  BY <1>1, <1>3, <1>4 DEF IsInjective

LEMMA LocalPageExtends ==
    ASSUME SourceIsSound, mode = "local", replica \in Seq(Events),
           NEW o, ReaderInv(o), o.step = "page",
           NEW cut \in 1..PageSize, NEW page, page = PageOf(o.after, o.ceiling, cut, Represented)
    PROVE  Extends(o, page)
  <1> USE DEF ReaderInv
  <1>1. o \in Ops /\ o.known \in Nat /\ o.after \in Nat /\ (o.ceiling # None => o.ceiling \in Nat)
    BY OpIs
  <1>2. Current(o)  BY DEF StaysCurrent, Reading
  <1>3. /\ o.ceiling \in Nat /\ o.after <= o.ceiling /\ o.ceiling <= Len(source)
        /\ o.known <= o.ceiling /\ Holds(o.after, o.anchor)
    BY <1>1, <1>2 DEF Current
  <1>4. source \in Seq(Events) /\ IsInjective(source) /\ Len(source) \in Nat
    BY SourceIs
  <1>5. PICK after, ceiling : after = o.after /\ ceiling = o.ceiling  OBVIOUS
  <1>6. /\ after \in Nat /\ ceiling \in Nat /\ after <= ceiling /\ ceiling <= Len(source)
        /\ page = PageOf(after, ceiling, cut, Represented)
    BY <1>1, <1>3, <1>5
  <1>7. PICK passed, known : passed = Skipped \cup Represented /\ known = Represented  OBVIOUS
  <1>8. ReadsOn(page, after, ceiling, passed)  BY <1>6, <1>7, PageIs
  <1>9. PICK high : high = page.high  OBVIOUS
  <1>10. after \in 0..Len(source) /\ high \in after..Len(source) /\ high \in Nat
    BY <1>4, <1>6, <1>8, <1>9 DEF ReadsOn
  <1>11. PICK part : part = SubSeq(source, after + 1, high)  OBVIOUS
  <1>12. part \in Seq(Events) /\ IsInjective(part)
    BY <1>4, <1>10, <1>11, PartIs, PartInjective
  <1>13. page.rows = Without(part, passed)  BY <1>8, <1>9, <1>11 DEF ReadsOn
  <1>14. ToSet(page.rows) = ToSet(part) \ passed /\ IsInjective(page.rows)
    BY <1>12, <1>13, WithoutElements, WithoutInjective
  <1>15. ToSet(page.rows) \cap ToSet(replica) = {}  BY <1>7, <1>14 DEF Represented
  <1>16. PICK events : events = ToSet(replica) \cup ToSet(page.rows)  OBVIOUS
  <1>17. Covers(after, o.anchor, events)
    <2>1. Covers(o.after, o.anchor, ToSet(replica))  BY DEF Covered
    <2>2. QED  BY <1>5, <1>16, <2>1 DEF Covers
  <1>18. ToSet(part) \ Skipped \subseteq events  BY <1>7, <1>14, <1>16 DEF Represented
  <1>19. PICK anchor : anchor = page.anchor  OBVIOUS
  <1>20. Holds(after, o.anchor)  BY <1>3, <1>5
  <1>21. Covers(high, anchor, events)
    BY <1>6, <1>8, <1>9, <1>10, <1>11, <1>17, <1>18, <1>19, <1>20, PageCovers DEF ReadsOn
  <1>22. Without(Copied(part), known) = Without(part, passed)
    <2>1. PICK S : S = Skipped  OBVIOUS
    <2>2. \A e : e \in passed <=> e \in S \/ e \in known  BY <1>7, <2>1
    <2>3. Without(Without(part, S), known) = Without(part, passed)
      BY <1>12, <2>2, WithoutTwice
    <2>4. QED  BY <2>1, <2>3 DEF Copied
  <1>23. page.rows = Without(Copied(SubSeq(source, o.after + 1, page.high)), ToSet(replica))
    BY <1>5, <1>7, <1>9, <1>11, <1>13, <1>22 DEF Represented
  <1>24. /\ page \in Pages /\ Named(page.high, page.anchor) /\ Holds(page.high, page.anchor)
         /\ page.ceiling = ceiling /\ (page.more => page.high # o.after)
         /\ (page.more <=> page.high < page.ceiling)
    BY <1>5, <1>8 DEF ReadsOn
  <1>25. o.after <= page.high /\ page.high <= page.ceiling
    BY <1>5, <1>6, <1>8, <1>24 DEF ReadsOn
  <1>26. Covers(page.high, page.anchor, ToSet(replica) \cup ToSet(page.rows))
    BY <1>9, <1>16, <1>19, <1>21
  <1>27. page.ceiling <= Len(source) /\ o.known <= page.ceiling
    BY <1>3, <1>5, <1>24
  <1>28. QED
    BY <1>3, <1>14, <1>15, <1>23, <1>24, <1>25, <1>26, <1>27 DEF Extends

LEMMA PageLocalKeepsInv ==
    ASSUME IInv, NEW r \in Readers, NEW cut \in 1..PageSize, PageLocal(r, cut) PROVE IInv'
  <1>1. PICK o : o = op[r]  OBVIOUS
  <1>2. SourceIsSound /\ Typed /\ ReaderInv(o)  BY <1>1, Context
  <1>3. mode = "local" /\ o.step = "page"  BY <1>1 DEF PageLocal
  <1>4. PICK page : page = PageOf(o.after, o.ceiling, cut, Represented)  OBVIOUS
  <1>5. Extends(o, page)  BY <1>2, <1>3, <1>4, LocalPageExtends DEF Typed
  <1>6. Materialize(r, page)  BY <1>1, <1>4 DEF PageLocal
  <1>7. Reading(op[r]) /\ Extends(op[r], page) /\ mode # "fork"
    BY <1>1, <1>3, <1>5 DEF Reading
  <1>8. QED  BY <1>6, <1>7, MaterializeKeepsInv

LEMMA RemotePageExtends ==
    ASSUME SourceIsSound, mode = "remote", replica \in Seq(Events),
           NEW o, ReaderInv(o), o.step = "answered",
           ~ (o.page.more /\ o.page.high = o.after),
           NEW rows, rows = Without(o.page.rows, Represented),
           NEW page, page = [o.page EXCEPT !.rows = rows]
    PROVE  Extends(o, page)
  <1> USE DEF ReaderInv
  <1>1. o \in Ops /\ o.page \in Pages /\ o.page.rows \in Seq(Events)  BY OpIs
  <1>2. PICK old : old = o.page.rows  OBVIOUS
  <1>3. rows \in Seq(Events) /\ ToSet(rows) = ToSet(old) \ ToSet(replica)
    BY <1>1, <1>2, WithoutElements DEF Represented
  <1>4. IsInjective(rows)  BY <1>1, <1>2, WithoutInjective DEF Covered
  <1>5. /\ page \in Pages /\ page.rows = rows /\ page.high = o.page.high
        /\ page.anchor = o.page.anchor /\ page.ceiling = o.page.ceiling
        /\ (page.more <=> o.page.more)
    BY <1>1, <1>3 DEF Pages
  <1>6. ToSet(replica) \cup ToSet(rows) = ToSet(replica) \cup ToSet(old)  BY <1>3
  <1>7. Covers(page.high, page.anchor, ToSet(replica) \cup ToSet(page.rows))
    <2>1. Covers(o.page.high, o.page.anchor, ToSet(replica) \cup ToSet(old))
      BY <1>2 DEF Covered
    <2>2. QED  BY <1>5, <1>6, <2>1
  <1>8. Named(page.high, page.anchor)  BY <1>5 DEF Covered
  <1>9. ASSUME o.known > 0 \/ ~ ahead
        PROVE  /\ Holds(page.high, page.anchor) /\ o.after <= page.high
               /\ page.high <= page.ceiling /\ page.ceiling <= Len(source)
               /\ o.known <= page.ceiling /\ (page.more <=> page.high < page.ceiling)
               /\ Holds(o.after, o.anchor)
               /\ page.rows = Without(Copied(SubSeq(source, o.after + 1, page.high)), ToSet(replica))
    <2>1. Current(o)  BY <1>9 DEF StaysCurrent, Reading
    <2>2. IsPage(o.page, o.after) /\ o.known <= o.page.ceiling /\ Holds(o.after, o.anchor)
      BY <2>1 DEF Current
    <2>3. old = Copied(SubSeq(source, o.after + 1, page.high))
      BY <1>2, <1>5, <2>2 DEF IsPage
    <2>4. rows = Without(old, ToSet(replica))  BY <1>2 DEF Represented
    <2>5. QED  BY <1>5, <2>2, <2>3, <2>4 DEF IsPage
  <1>10. page.more => page.high # o.after  BY <1>5
  <1>11. ToSet(page.rows) \cap ToSet(replica) = {} /\ IsInjective(page.rows)
    BY <1>3, <1>4, <1>5
  <1>12. QED  BY <1>5, <1>7, <1>8, <1>9, <1>10, <1>11 DEF Extends

LEMMA PageRemoteKeepsInv ==
    ASSUME IInv, NEW r \in Readers, PageRemote(r) PROVE IInv'
  <1>1. PICK o : o = op[r]  OBVIOUS
  <1>2. SourceIsSound /\ Typed /\ ReaderInv(o)  BY <1>1, Context
  <1>3. o.step = "answered"  BY <1>1 DEF PageRemote
  <1>4. mode = "remote"  BY <1>2, <1>3 DEF Typed, ReaderInv, Fits
  <1>5. CASE o.page.more /\ o.page.high = o.after
    <2>1. /\ op' = [op EXCEPT ![r] = Idle] /\ owner' = None
          /\ UNCHANGED <<mode, source, next, opened, replica, evidence, ahead, before, faults>>
      BY <1>1, <1>5 DEF PageRemote, Fail, Become
    <2>2. QED  BY <1>2, <2>1, FailKeepsInv DEF Typed
  <1>6. CASE ~ (o.page.more /\ o.page.high = o.after)
    <2>1. PICK rows : rows = Without(o.page.rows, Represented)  OBVIOUS
    <2>2. PICK page : page = [o.page EXCEPT !.rows = rows]  OBVIOUS
    <2>3. Extends(o, page)  BY <1>2, <1>3, <1>4, <1>6, <2>1, <2>2, RemotePageExtends DEF Typed
    <2>4. Materialize(r, page)  BY <1>1, <1>6, <2>1, <2>2 DEF PageRemote
    <2>5. Reading(op[r]) /\ Extends(op[r], page) /\ mode # "fork"
      BY <1>1, <1>3, <1>4, <2>3 DEF Reading
    <2>6. QED  BY <2>4, <2>5, MaterializeKeepsInv
  <1>7. QED  BY <1>5, <1>6

(* A success: the cursor or the evidence of a fork is recorded.            *)
LEMMA RecordedKeepsInv ==
    ASSUME IInv, NEW r \in Readers, NEW o, o = op[r],
           NEW new, new = [Idle EXCEPT !.step = "ok", !.known = o.known], ReaderInv(new),
           op' = [op EXCEPT ![r] = new], o.step \in {"finish", "forked"},
           evidence' = [high |-> o.after, anchor |-> o.anchor],
           owner' \in Readers \cup {None},
           UNCHANGED <<mode, source, next, opened, replica, ahead, before, faults>>
    PROVE  IInv'
  <1> USE DEF IInv, Base
  <1>1. SourceIsSound /\ Typed /\ ReaderInv(o) /\ o \in Ops /\ (KeptOut => IsKeptOut(o))
    BY Context
  <1>2. SourceIsSound' /\ Stands  BY <1>1, SourceStaysSound DEF Stands
  <1>3. /\ mode' = mode /\ ahead' = ahead /\ replica' = replica /\ (opened => opened')
        /\ ToSet(replica) \subseteq ToSet(replica') /\ DOMAIN op = Readers
        /\ \A q \in Readers : ReaderInv(op[q])
    BY DEF Typed
  <1>4. ReaderInv(new)'  BY <1>1, <1>2, <1>3, OthersStay
  <1>5. DOMAIN op' = Readers /\ \A q \in Readers : ReaderInv(op[q])'
    BY <1>1, <1>2, <1>3, <1>4, ReadersStay
  <1>6. PICK h, a : h = o.after /\ a = o.anchor  OBVIOUS
  <1>7. evidence' = [high |-> h, anchor |-> a]  BY <1>6
  <1>8. h \in 0..MaxEvents /\ a \in Events \cup {None}  BY <1>1, <1>6 DEF Ops, Anchors
  <1>9. evidence' \in Cursors /\ evidence'.high = h /\ evidence'.anchor = a
    BY <1>7, <1>8 DEF Cursors
  <1>10. Typed'  BY <1>2, <1>3, <1>5, <1>9 DEF Typed
  <1>11. EvidenceFits'
    <2>1. Named(h, a)'  BY <1>1, <1>6 DEF ReaderInv, Covered, Named, At, WasThere
    <2>2. Covers(h, a, ToSet(replica))'
      BY <1>1, <1>6 DEF ReaderInv, Covered, Covers, At, ToCopy, WasThere, Recurred
    <2>3. mode = "fork" => opened' /\ Forked(h, a)'
      <3> SUFFICES ASSUME mode = "fork" PROVE opened' /\ Forked(h, a)'  OBVIOUS
      <3>1. o.step = "forked"  BY <1>1 DEF ReaderInv, Fits
      <3>2. opened /\ Forked(h, a)  BY <1>1, <1>6, <3>1 DEF ReaderInv, HasForked
      <3>3. QED  BY <3>2 DEF Forked, At, WasThere, Recurred
    <2>4. Named(evidence.high, evidence.anchor)'  BY <1>9, <2>1 DEF Named, At, WasThere
    <2>5. Covers(evidence.high, evidence.anchor, ToSet(replica))'
      BY <1>9, <2>2 DEF Covers, At, ToCopy, WasThere, Recurred
    <2>6. mode = "fork" => opened' /\ Forked(evidence.high, evidence.anchor)'
      BY <1>9, <2>3 DEF Forked, At, WasThere, Recurred
    <2>7. QED  BY <2>4, <2>5, <2>6 DEF EvidenceFits
  <1>12. Unopened' /\ NothingIsCopiedTwice'  BY DEF Unopened, NothingIsCopiedTwice
  <1>13. OneHistory'
    <2>1. before' = None => ~ ahead'  BY DEF OneHistory
    <2>2. CASE o.step = "finish"
      <3>1. ~ KeptOut  BY <1>1, <2>2 DEF IsKeptOut, Reading
      <3>2. IsCopyOf(source) => IsCopyOf(source)'  BY DEF IsCopyOf
      <3>3. QED  BY <2>1, <3>1, <3>2 DEF OneHistory, Recurred
    <2>3. CASE o.step = "forked"
      <3>1. mode = "fork"  BY <1>1, <2>3 DEF ReaderInv, Fits
      <3>2. QED  BY <2>1, <3>1 DEF OneHistory
    <2>4. QED  BY <2>2, <2>3
  <1>14. QED  BY <1>5, <1>10, <1>11, <1>12, <1>13

LEMMA FinishKeepsInv ==
    ASSUME IInv, NEW r \in Readers, Finish(r) PROVE IInv'
  <1>1. PICK o : o = op[r]  OBVIOUS
  <1>2. SourceIsSound /\ Typed /\ ReaderInv(o)  BY <1>1, Context
  <1>3. PICK new : new = [Idle EXCEPT !.step = "ok", !.known = o.known]  OBVIOUS
  <1>4. o.step = "finish"  BY <1>1 DEF Finish
  <1>5. ReaderInv(new)  BY <1>2, <1>3, <1>4, FinishedIsSound
  <1>6. /\ op' = [op EXCEPT ![r] = new] /\ evidence' = [high |-> o.after, anchor |-> o.anchor]
        /\ owner' = None
        /\ UNCHANGED <<mode, source, next, opened, replica, ahead, before, faults>>
    BY <1>1, <1>3 DEF Finish, Become, Succeeded, CursorOf
  <1>7. QED  BY <1>1, <1>3, <1>4, <1>5, <1>6, RecordedKeepsInv

LEMMA RecordForkKeepsInv ==
    ASSUME IInv, NEW r \in Readers, RecordFork(r) PROVE IInv'
  <1>1. PICK o : o = op[r]  OBVIOUS
  <1>2. SourceIsSound /\ Typed /\ ReaderInv(o)  BY <1>1, Context
  <1>3. PICK new : new = [Idle EXCEPT !.step = "ok", !.known = o.known]  OBVIOUS
  <1>4. o.step = "forked"  BY <1>1 DEF RecordFork
  <1>5. ReaderInv(new)  BY <1>2, <1>3, <1>4, RecordedForkIsSound
  <1>6. /\ op' = [op EXCEPT ![r] = new] /\ evidence' = [high |-> o.after, anchor |-> o.anchor]
        /\ owner' = owner
        /\ UNCHANGED <<mode, source, next, opened, replica, ahead, before, faults>>
    BY <1>1, <1>3 DEF RecordFork, Become, Succeeded
  <1>7. QED  BY <1>1, <1>2, <1>3, <1>4, <1>5, <1>6, RecordedKeepsInv DEF Typed

(* The files of a fork are made.                                           *)
LEMMA ForkMade ==
    ASSUME IInv, mode = "fork", ~ opened, NEW r \in Readers,
           NEW new, op' = [op EXCEPT ![r] = new], ReaderInv(new)',
           opened', opened' \in BOOLEAN, NEW k \in 0..Len(source),
           replica' = SubSeq(source, 1, k), faults' \in 0..MaxFaults,
           UNCHANGED <<mode, source, next, evidence, owner, ahead, before>>
    PROVE  IInv'
  <1> USE DEF IInv, Base
  <1>1. SourceIsSound /\ Typed  BY Context
  <1>2. SourceIsSound' /\ Stands  BY <1>1, SourceStaysSound DEF Stands
  <1>3. replica = <<>> /\ ToSet(replica) = {}  BY EmptyIs DEF Unopened
  <1>4. /\ mode' = mode /\ ahead' = ahead /\ (opened => opened')
        /\ (mode = "fork" /\ opened => replica' = replica)
        /\ ToSet(replica) \subseteq ToSet(replica') /\ DOMAIN op = Readers
        /\ \A q \in Readers : ReaderInv(op[q])
    BY <1>3 DEF Typed
  <1>5. DOMAIN op' = Readers /\ \A q \in Readers : ReaderInv(op[q])'
    BY <1>1, <1>2, <1>4, ReadersStay
  <1>6. source \in Seq(Events) /\ IsInjective(source) /\ Len(source) \in Nat
    BY <1>1, SourceIs
  <1>7. replica' \in Seq(Events)  BY <1>6, PrefixIs
  <1>8. Typed'  BY <1>1, <1>2, <1>5, <1>7 DEF Typed
  <1>9. evidence = None  BY DEF EvidenceFits
  <1>10. EvidenceFits' /\ Unopened'  BY <1>9 DEF EvidenceFits, Unopened
  <1>11. NothingIsCopiedTwice'
    <2>1. 0 \in 0..Len(source) /\ k \in 0..Len(source) /\ 0 + 1 = 1  BY <1>6
    <2>2. IsInjective(SubSeq(source, 0 + 1, k))  BY <1>6, <2>1, PartInjective
    <2>3. QED  BY <2>1, <2>2 DEF NothingIsCopiedTwice
  <1>12. OneHistory'  BY DEF OneHistory
  <1>13. QED  BY <1>5, <1>8, <1>10, <1>11, <1>12

LEMMA ForkKeepsInv ==
    ASSUME IInv, NEW r \in Readers, Fork(r) PROVE IInv'
  <1>1. PICK o : o = op[r]  OBVIOUS
  <1>2. SourceIsSound /\ Typed /\ ReaderInv(o)  BY <1>1, Context
  <1>3. PICK new : new = [o EXCEPT !.step = "forked", !.after = Len(source),
                                   !.anchor = At(Len(source))]
    OBVIOUS
  <1>4. /\ mode = "fork" /\ o.step = "connect" /\ ~ opened /\ opened' /\ opened' \in BOOLEAN
        /\ replica' = source /\ op' = [op EXCEPT ![r] = new]
        /\ UNCHANGED <<mode, source, next, evidence, owner, ahead, before, faults>>
    BY <1>1, <1>3 DEF Fork, Become
  <1>5. ReaderInv(new)'
    <2>1. Stands /\ mode' = mode  BY <1>4 DEF Stands
    <2>2. QED  BY <1>2, <1>3, <1>4, <2>1, ForkedIsSound
  <1>6. source \in Seq(Events) /\ Len(source) \in 0..Len(source)
    BY <1>2, SourceIs
  <1>7. replica' = SubSeq(source, 1, Len(source))  BY <1>4, <1>6, SubSeqFull
  <1>8. faults' \in 0..MaxFaults  BY <1>2, <1>4 DEF Typed
  <1>9. QED  BY <1>4, <1>5, <1>6, <1>7, <1>8, ForkMade

LEMMA ForkCutShortKeepsInv ==
    ASSUME IInv, NEW r \in Readers, NEW kept \in 0..Len(source), ForkCutShort(r, kept)
    PROVE  IInv'
  <1>1. SourceIsSound /\ Typed  BY Context
  <1>2. PICK new : new = Idle  OBVIOUS
  <1>3. /\ mode = "fork" /\ ~ opened /\ opened' /\ opened' \in BOOLEAN
        /\ replica' = SubSeq(source, 1, kept) /\ op' = [op EXCEPT ![r] = new]
        /\ UNCHANGED <<mode, source, next, evidence, owner, ahead, before>>
    BY <1>2 DEF ForkCutShort, Fail, Become
  <1>4. faults' \in 0..MaxFaults
    BY <1>1, BoundAssumption DEF ForkCutShort, Typed
  <1>5. SourceIsSound'  BY <1>1, <1>3, SourceStaysSound DEF Stands
  <1>6. 0 \in 0..MaxAttempts /\ 0 \in 0..Len(source')
    BY <1>5, AttemptAssumption DEF SourceIsSound
  <1>7. ReaderInv(Idle)'
    <2>1. ReaderInv(Idle)  BY <1>1, IdleIsSound
    <2>2. /\ Idle \in Ops /\ Fits(Idle)' /\ Covered(Idle)' /\ HasForked(Idle)'
          /\ StaysCurrent(Idle)' /\ Fresh(Idle)'
      BY <1>6, <2>1, NoPageIs
         DEF ReaderInv, Idle, Fits, Covered, Named, Covers, HasForked, StaysCurrent, Reading, Fresh,
             WasThere
    <2>3. QED  BY <2>2 DEF ReaderInv
  <1>8. ReaderInv(new)'
    BY <1>2, <1>7 DEF ReaderInv, Fits, Covered, HasForked, StaysCurrent, Fresh, Current, IsPage,
       Holds, Covers, Named, At, ToCopy, Forked, Reading, WasThere, Recurred
  <1>9. QED  BY <1>3, <1>4, <1>8, ForkMade

LEMMA CommitKeepsInv ==
    ASSUME IInv, NEW event \in Events, Commit(event) PROVE IInv'
  <1> USE DEF IInv, Base
  <1>1. SourceIsSound /\ Grows /\ SourceIsSound' /\ source \in Seq(Events)
    <2>1. SourceIsSound  BY DEF Typed
    <2>2. next' \in 1..(MaxEvents + 1)
      BY <2>1, BoundAssumption DEF Commit, SourceIsSound, Events
    <2>3. Grows  BY <2>2 DEF Commit, Grows
    <2>4. QED  BY <2>1, <2>3, SourceIs, SourceStaysSound
  <1>2. UNCHANGED <<mode, opened, replica, evidence, owner, op, ahead, before, faults>>
    BY DEF Commit
  <1>3. ASSUME NEW q \in Readers PROVE ReaderInv(op[q])'
    <2>1. PICK o : o = op[q]  OBVIOUS
    <2>2. op'[q] = o /\ ReaderInv(o)  BY <1>2, <2>1
    <2>3. mode' = mode /\ ahead' = ahead /\ replica' = replica /\ opened' = opened  BY <1>2
    <2>4. ReaderInv(o)'  BY <1>1, <2>2, <2>3, CommitKeepsReader
    <2>5. QED  BY <2>2, <2>4, ReaderInvAt
  <1>4. Typed'  BY <1>1, <1>2 DEF Typed
  <1>5. EvidenceFits'  BY <1>1, <1>2, EvidenceStays
  <1>6. Unopened' /\ NothingIsCopiedTwice'  BY <1>2 DEF Unopened, NothingIsCopiedTwice
  <1>7. OneHistory'
    <2>1. before' = None => ~ ahead'  BY <1>2 DEF OneHistory
    <2>2. ASSUME IsCopyOf(source) PROVE IsCopyOf(source)'
      <3>1. PICK n \in 0..Len(source) : replica = Copied(SubSeq(source, 1, n))
        BY <2>2 DEF IsCopyOf
      <3>2. Len(source) \in Nat /\ Len(source') = Len(source) + 1
        BY <1>1, Grown
      <3>3. 0 \in Nat /\ n \in 0..Len(source) /\ 0 + 1 = 1  BY <3>2
      <3>4. SubSeq(source', 0 + 1, n) = SubSeq(source, 0 + 1, n)
        BY <1>1, <3>3, PartStays
      <3>5. n \in 0..Len(source') /\ SubSeq(source', 1, n) = SubSeq(source, 1, n)
        BY <3>2, <3>3, <3>4
      <3>6. QED  BY <1>2, <3>1, <3>5 DEF IsCopyOf, Copied
    <2>3. ASSUME KeptOut, ~ Recurred' PROVE IsCopyOf(source)' \/ KeptOut'
      <3>1. PICK h, a : h = evidence.high /\ a = evidence.anchor  OBVIOUS
      <3>2. /\ WasThere(h, a) /\ WasThere(h, a)' /\ At(h) # a
            /\ replica = Copied(SubSeq(before, 1, h))
        BY <1>2, <2>3, <3>1 DEF KeptOut, WasThere
      <3>3. CASE At(h)' = a
        <4>1. /\ h \in 1..Len(before') /\ before'[h] = a /\ before' # None /\ before' = before
              /\ h <= Len(before')
          BY <1>2, <3>2 DEF WasThere
        <4>2. a # None
          <5>1. before \in Seq(Events) /\ a \in Events  BY <1>1, <3>2, BeforeIs DEF WasThere
          <5>2. QED  BY <5>1, NoneAssumption DEF Events
        <4>3. h \in 1..Len(source') /\ source'[h] = a  BY <3>3, <4>2 DEF At
        <4>4. SubSeq(source', 1, h) = SubSeq(before', 1, h)
          BY <2>3, <4>1, <4>3 DEF Recurred
        <4>5. replica' = Copied(SubSeq(source', 1, h))
          <5>1. replica' = replica  BY <1>2
          <5>2. PICK part : part = SubSeq(before, 1, h)  OBVIOUS
          <5>3. part = SubSeq(source', 1, h)  BY <4>1, <4>4, <5>2
          <5>4. replica = Copied(part)  BY <3>2, <5>2
          <5>5. QED  BY <5>1, <5>3, <5>4
        <4>6. h \in 0..Len(source')  BY <4>3
        <4>7. QED  BY <4>5, <4>6 DEF IsCopyOf, Copied
      <3>4. CASE At(h)' # a
        <4>1. At(evidence.high)' # evidence'.anchor  BY <1>2, <3>1, <3>4 DEF At
        <4>2. \A q \in Readers : IsKeptOut(op[q])'
          BY <1>2, <2>3 DEF KeptOut, IsKeptOut, Reading
        <4>3. WasThere(evidence.high, evidence.anchor)'
          BY <1>2, <2>3 DEF KeptOut, WasThere
        <4>4. QED  BY <1>2, <2>3, <4>1, <4>2, <4>3 DEF KeptOut
      <3>5. QED  BY <3>3, <3>4
    <2>4. ~ Recurred' => ~ Recurred  BY <1>1, RecurredStays
    <2>5. QED  BY <1>2, <2>1, <2>2, <2>3, <2>4 DEF OneHistory
  <1>8. QED  BY <1>3, <1>4, <1>5, <1>6, <1>7

(* A copy of a beginning that has nothing after a position is one of a     *)
(* beginning up to there.                                                  *)
LEMMA CopyEndsBefore ==
    ASSUME SourceIsSound, NEW keep \in 0..Len(source), NEW n \in keep..Len(source),
           NEW copy, copy = Copied(SubSeq(source, 1, n)),
           \A e \in ToSet(copy) : \E i \in 1..keep : source[i] = e
    PROVE  copy = Copied(SubSeq(source, 1, keep))
  <1>1. source \in Seq(Events) /\ IsInjective(source) /\ Len(source) \in Nat
    BY SourceIs
  <1>2. SubSeq(source, 1, n) = SubSeq(source, 1, keep) \o SubSeq(source, keep + 1, n)
    BY <1>1, PrefixesJoin
  <1>3. PICK p, q : p = SubSeq(source, 1, keep) /\ q = SubSeq(source, keep + 1, n)  OBVIOUS
  <1>4. p \in Seq(Events) /\ ToSet(p) = {source[i] : i \in 1..keep}  BY <1>1, <1>3, PrefixIs
  <1>5. q \in Seq(Events)  BY <1>1, <1>3, PartIs
  <1>6. copy = Copied(p) \o Copied(q)  BY <1>2, <1>3, <1>4, <1>5, CopiedConcat
  <1>7. ToSet(q) \subseteq Skipped
    <2> SUFFICES ASSUME NEW e \in ToSet(q), e \notin Skipped PROVE FALSE  OBVIOUS
    <2>1. /\ Copied(p) \in Seq(Events) /\ Copied(q) \in Seq(Events)
          /\ ToSet(Copied(q)) = ToSet(q) \ Skipped
      BY <1>4, <1>5, CopiedIs
    <2>2. PICK x, y : x = Copied(p) /\ y = Copied(q)  OBVIOUS
    <2>3. ToSet(x \o y) = ToSet(x) \cup ToSet(y)  BY <2>1, <2>2, ToSetConcat
    <2>4. e \in ToSet(copy)  BY <1>6, <2>1, <2>2, <2>3
    <2>5. e \in ToSet(p)  BY <1>4, <2>4
    <2>6. keep \in keep..Len(source) /\ n \in keep..Len(source)  BY <1>1
    <2>7. e \in ToSet(SubSeq(source, keep + 1, n)) /\ e \in ToSet(SubSeq(source, 1, keep))
      BY <1>3, <2>5
    <2>8. QED  BY <1>1, <2>6, <2>7, PartsApart
  <1>8. Copied(q) = <<>>  BY <1>5, <1>7, WithoutAll DEF Copied
  <1>9. Copied(p) \in Seq(Events)  BY <1>4, CopiedIs
  <1>10. QED  BY <1>3, <1>6, <1>8, <1>9, ConcatEmptySeq

LEMMA ReplaceKeepsInv ==
    ASSUME IInv, NEW keep \in 0..MaxEvents, Replace(keep) PROVE IInv'
  <1> USE DEF IInv, Base
  <1>1. SourceIsSound /\ Typed /\ source \in Seq(Events) /\ Len(source) \in Nat
        /\ IsInjective(source)
    BY SourceIs DEF Typed
  <1>2. keep \in 0..Len(source) /\ keep < Len(source)  BY <1>1 DEF Replace
  <1>3. /\ UNCHANGED <<mode, next, opened, replica, evidence, owner, faults>>
        /\ source' = SubSeq(source, 1, keep) /\ before = None /\ before' = source
        /\ op' = [r \in Readers |-> [op[r] EXCEPT !.known = 0]]
        /\ (mode = "remote" \/ \A r \in Readers : ~ Busy(r))
        /\ (ahead' <=> AheadOfCursor)
    BY DEF Replace
  <1>4. Shrinks /\ SourceIsSound'
    <2>1. Shrinks  BY <1>2, <1>3 DEF Shrinks
    <2>2. QED  BY <1>1, <2>1, SourceStaysSound
  <1>5. ahead' \in BOOLEAN
    <2>1. ahead' = AheadOfCursor  BY DEF Replace
    <2>2. AheadOfCursor \in BOOLEAN  BY DEF AheadOfCursor
    <2>3. QED  BY <2>1, <2>2
  <1>6. ASSUME NEW q \in Readers PROVE ReaderInv(op[q])'
    <2>1. PICK o : o = op[q]  OBVIOUS
    <2>2. PICK new : new = [o EXCEPT !.known = 0]  OBVIOUS
    <2>3. op'[q] = new /\ ReaderInv(o)  BY <1>3, <2>1, <2>2
    <2>4. (mode = "remote" /\ ahead') \/ o.step \in {"idle", "ok"}
      BY <1>3, <2>1 DEF Busy, AheadOfCursor
    <2>5. mode' = mode /\ replica' = replica /\ opened' = opened  BY <1>3
    <2>6. ReaderInv(new)'  BY <1>1, <1>4, <2>2, <2>3, <2>4, <2>5, ReplaceKeepsReader
    <2>7. QED  BY <2>3, <2>6, ReaderInvAt
  <1>7. Typed'
    <2>1. DOMAIN op' = Readers  BY <1>3
    <2>2. QED  BY <1>1, <1>3, <1>4, <1>5, <2>1 DEF Typed
  <1>8. EvidenceFits'  BY <1>1, <1>3, <1>4, EvidenceStays
  <1>9. Unopened' /\ NothingIsCopiedTwice'  BY <1>3 DEF Unopened, NothingIsCopiedTwice
  <1>10. OneHistory'
    <2>1. before' # None
      <3>1. source # None  BY <1>1, NoneAssumption DEF Events
      <3>2. QED  BY <1>3, <3>1
    <2> SUFFICES ASSUME mode # "fork", ~ AheadOfCursor
                 PROVE IsCopyOf(source)' \/ KeptOut'
      BY <1>3, <2>1 DEF OneHistory
    <2>2. \A r \in Readers : op[r].step \in {"idle", "ok"}  BY DEF AheadOfCursor, Busy
    <2>3. ~ ahead /\ ~ KeptOut /\ ~ Recurred
      BY <1>3 DEF OneHistory, KeptOut, WasThere, Recurred
    <2>4. PICK n \in 0..Len(source) : replica = Copied(SubSeq(source, 1, n))
      BY <2>3 DEF OneHistory, IsCopyOf
    <2>5. ASSUME NEW e \in ToSet(replica)
          PROVE  \E i \in 1..Len(source) : source[i] = e /\ evidence # None /\ ~ (evidence.high < i)
      BY DEF AheadOfCursor
    <2>6. CASE evidence # None /\ evidence.high > keep
      <3>1. PICK h, a : h = evidence.high /\ a = evidence.anchor  OBVIOUS
      <3>2. h \in Nat /\ h > 0 /\ Named(h, a) /\ Covers(h, a, ToSet(replica))
        BY <1>1, <1>2, <2>6, <3>1, BoundAssumption DEF Typed, Cursors, EvidenceFits
      <3>3. a # None /\ At(h) = a /\ h \in 1..Len(source) /\ source[h] = a
        <4>1. a # None /\ (At(h) = a \/ WasThere(h, a))
          BY <3>2, NoneAssumption DEF Named, Events
        <4>2. At(h) = a  BY <1>3, <4>1 DEF WasThere
        <4>3. QED  BY <4>1, <4>2 DEF At
      <3>4. Len(source') = keep  BY <1>1, <1>2, <1>3, PrefixIs
      <3>5. At(h)' = None  BY <1>2, <2>6, <3>1, <3>2, <3>4 DEF At
      <3>6. At(evidence.high)' # evidence'.anchor /\ evidence'.high > 0 /\ evidence' # None
        BY <1>3, <2>6, <3>1, <3>2, <3>3, <3>5 DEF At
      <3>7. ASSUME NEW q \in Readers PROVE IsKeptOut(op[q])'
        <4>1. op'[q].step = op[q].step
          <5>1. op[q] \in Ops  BY DEF ReaderInv
          <5>2. QED  BY <1>3, <5>1 DEF Ops
        <4>2. QED  BY <2>2, <4>1 DEF IsKeptOut, Reading
      <3>8. replica = Copied(SubSeq(source, 1, h))
        <4>1. PICK copy, part : copy = replica /\ part = Copied(SubSeq(source, 1, h))  OBVIOUS
        <4>2. n \in Nat /\ h \in 0..Len(source)  BY <1>1, <3>3
        <4>3. CASE h <= n
          <5>1. n \in h..Len(source)  BY <1>1, <3>3, <4>2, <4>3
          <5>2. ASSUME NEW e \in ToSet(copy) PROVE \E i \in 1..h : source[i] = e
            <6>1. PICK i \in 1..Len(source) : source[i] = e /\ ~ (h < i)
              BY <2>5, <3>1, <4>1
            <6>2. i \in 1..h  BY <1>1, <3>3, <6>1
            <6>3. QED  BY <6>1, <6>2
          <5>3. copy = Copied(SubSeq(source, 1, n))  BY <2>4, <4>1
          <5>4. copy = part  BY <1>1, <4>1, <4>2, <5>1, <5>2, <5>3, CopyEndsBefore
          <5>5. QED  BY <4>1, <5>4
        <4>4. CASE ~ (h <= n)
          <5>1. n \in 0..Len(source) /\ h \in n..Len(source)  BY <1>1, <3>3, <4>2, <4>4
          <5>2. SubSeq(source, 1, h) \in Seq(Events) /\ SubSeq(source, 1, n) \in Seq(Events)
                /\ ToSet(SubSeq(source, 1, n)) = {source[i] : i \in 1..n}
            BY <1>1, <4>2, <5>1, PrefixIs
          <5>3. ToSet(part) = ToCopy(h) /\ ToSet(copy) = ToCopy(n)
            BY <2>4, <4>1, <5>2, CopiedIs DEF ToCopy
          <5>4. ToCopy(h) \subseteq ToSet(copy)
            BY <1>3, <3>2, <3>3, <4>1 DEF Covers, Recurred
          <5>5. ASSUME NEW e \in ToSet(part) PROVE \E i \in 1..n : source[i] = e
            BY <5>2, <5>3, <5>4 DEF ToCopy
          <5>6. part = Copied(SubSeq(source, 1, n))  BY <1>1, <4>1, <5>1, <5>5, CopyEndsBefore
          <5>7. QED  BY <2>4, <4>1, <5>6
        <4>5. QED  BY <4>3, <4>4
      <3>9. KeptOut'
        <4>1. WasThere(h, a)'  BY <1>3, <2>1, <3>3 DEF WasThere
        <4>2. WasThere(evidence.high, evidence.anchor)'  BY <1>3, <3>1, <4>1 DEF WasThere
        <4>3. replica' = Copied(SubSeq(before', 1, evidence'.high))  BY <1>3, <3>1, <3>8
        <4>4. QED  BY <3>6, <3>7, <4>2, <4>3 DEF KeptOut
      <3>10. QED  BY <3>9
    <2>7. CASE ~ (evidence # None /\ evidence.high > keep)
      <3>1. PICK t : t = SubSeq(source, 1, keep)  OBVIOUS
      <3>2. t \in Seq(Events) /\ Len(t) = keep  BY <1>1, <1>2, <3>1, PrefixIs
      <3>3. PICK m : m = IF n <= keep THEN n ELSE keep  OBVIOUS
      <3>4. m \in 0..keep /\ m \in 0..Len(t)  BY <1>2, <3>2, <3>3
      <3>5. SubSeq(t, 1, m) = SubSeq(source, 1, m)
        <4>1. 0 \in 0..Len(source) /\ keep \in 0..Len(source) /\ m \in 0..keep - 0 /\ 0 + 1 = 1
              /\ 0 + m = m
          BY <1>2, <3>4
        <4>2. SubSeq(t, 1, m) = SubSeq(source, 0 + 1, 0 + m)
          BY <1>1, <3>1, <4>1, PartOfPart
        <4>3. QED  BY <4>1, <4>2
      <3>6. replica = Copied(SubSeq(source, 1, m))
        <4>1. CASE n <= keep  BY <2>4, <3>3, <4>1
        <4>2. CASE ~ (n <= keep)
          <5>1. m = keep /\ n \in keep..Len(source)  BY <1>2, <3>3, <4>2
          <5>2. ASSUME NEW e \in ToSet(replica) PROVE \E i \in 1..keep : source[i] = e
            <6>1. PICK i \in 1..Len(source) :
                    source[i] = e /\ evidence # None /\ ~ (evidence.high < i)
              BY <2>5
            <6>2. evidence.high \in Nat /\ ~ (evidence.high > keep)
              BY <1>1, <2>7, <6>1, BoundAssumption DEF Typed, Cursors
            <6>3. i \in 1..keep  BY <1>2, <6>1, <6>2
            <6>4. QED  BY <6>1, <6>3
          <5>3. PICK copy : copy = replica  OBVIOUS
          <5>4. copy = Copied(SubSeq(source, 1, n))
                /\ \A e \in ToSet(copy) : \E i \in 1..keep : source[i] = e
            BY <2>4, <5>2, <5>3
          <5>5. copy = Copied(SubSeq(source, 1, keep))
            BY <1>1, <1>2, <5>1, <5>4, CopyEndsBefore
          <5>6. QED  BY <5>1, <5>3, <5>5
        <4>3. QED  BY <4>1, <4>2
      <3>7. IsCopyOf(source)'  BY <1>3, <3>1, <3>4, <3>5, <3>6 DEF IsCopyOf
      <3>8. QED  BY <3>7
    <2>8. QED  BY <2>6, <2>7
  <1>11. QED  BY <1>6, <1>7, <1>8, <1>9, <1>10

-----------------------------------------------------------------------------
(* Theorems                                                                *)

LEMMA InitIsSound == Init => IInv
  <1> SUFFICES ASSUME Init PROVE IInv  OBVIOUS
  <1>1. source \in Seq(Events) /\ Len(source) = 0 /\ DOMAIN source = {}  BY DEF Init
  <1>2. SourceIsSound  BY <1>1, BoundAssumption DEF Init, SourceIsSound, IsInjective
  <1>3. replica \in Seq(Events) /\ DOMAIN op = Readers /\ faults \in 0..MaxFaults
    BY BoundAssumption DEF Init
  <1>4. Typed  BY <1>2, <1>3 DEF Init, Typed
  <1>5. EvidenceFits /\ Unopened  BY DEF Init, EvidenceFits, Unopened
  <1>6. NothingIsCopiedTwice  BY DEF Init, NothingIsCopiedTwice, IsInjective
  <1>7. \A r \in Readers : ReaderInv(op[r])
    <2>1. ReaderInv(Idle)  BY <1>2, IdleIsSound
    <2>2. \A r \in Readers : op[r] = Idle  BY DEF Init
    <2>3. QED  BY <2>1, <2>2
  <1>8. OneHistory
    <2>1. before = None /\ ~ ahead /\ replica = <<>> /\ source = <<>>  BY DEF Init
    <2>2. SubSeq(<<>>, 1, 0) = <<>>  OBVIOUS
    <2>3. Copied(<<>>) = <<>>  BY WithoutNone DEF Copied
    <2>4. 0 \in 0..Len(source)  BY <1>1
    <2>5. IsCopyOf(source)  BY <2>1, <2>2, <2>3, <2>4 DEF IsCopyOf
    <2>6. QED  BY <2>1, <2>5 DEF OneHistory
  <1>9. QED  BY <1>4, <1>5, <1>6, <1>7, <1>8 DEF IInv, Base

LEMMA StutterKeepsInv == IInv /\ UNCHANGED vars => IInv'
  <1> SUFFICES ASSUME IInv, UNCHANGED vars PROVE IInv'  OBVIOUS
  <1> USE DEF IInv, Base
  <1>1. UNCHANGED <<mode, source, next, opened, replica, evidence, owner, op, ahead, before, faults>>
    BY DEF vars
  <1>2. SourceIsSound /\ Stands /\ SourceIsSound'
    BY <1>1, SourceStaysSound DEF Typed, Stands
  <1>3. ASSUME NEW q \in Readers PROVE ReaderInv(op[q])'
    <2>1. PICK o : o = op[q]  OBVIOUS
    <2>2. op'[q] = o /\ ReaderInv(o)  BY <1>1, <2>1
    <2>3. /\ mode' = mode /\ ahead' = ahead /\ replica' = replica /\ (opened => opened')
          /\ ToSet(replica) \subseteq ToSet(replica')
      BY <1>1
    <2>4. ReaderInv(o)'  BY <1>2, <2>2, <2>3, OthersStay
    <2>5. QED  BY <2>2, <2>4, ReaderInvAt
  <1>4. Typed'  BY <1>1, <1>2 DEF Typed
  <1>5. EvidenceFits'  BY <1>1, <1>2, EvidenceStays
  <1>6. Unopened' /\ NothingIsCopiedTwice'  BY <1>1 DEF Unopened, NothingIsCopiedTwice
  <1>7. OneHistory'
    BY <1>1 DEF OneHistory, KeptOut, IsKeptOut, IsCopyOf, At, Reading, WasThere, Recurred
  <1>8. QED  BY <1>3, <1>4, <1>5, <1>6, <1>7

LEMMA NextKeepsInv == IInv /\ [Next]_vars => IInv'
  <1> SUFFICES ASSUME IInv, [Next]_vars PROVE IInv'  OBVIOUS
  <1>1. ASSUME NEW event \in Events, Commit(event) PROVE IInv'  BY <1>1, CommitKeepsInv
  <1>2. ASSUME NEW keep \in 0..MaxEvents, Replace(keep) PROVE IInv'
    BY <1>2, ReplaceKeepsInv
  <1>3. ASSUME NEW r \in Readers, Refresh(r) PROVE IInv'  BY <1>3, RefreshKeepsInv
  <1>4. ASSUME NEW r \in Readers, Step(r) PROVE IInv'
    <2>1. CASE Choose(r)  BY <2>1, ChooseKeepsInv
    <2>2. CASE Bootstrap(r)  BY <2>2, BootstrapKeepsInv
    <2>3. CASE ConnectLocal(r)  BY <2>3, ConnectLocalKeepsInv
    <2>4. CASE Own(r)  BY <2>4, OwnKeepsInv
    <2>5. CASE TryAgain(r)  BY <2>5, TryAgainKeepsInv
    <2>6. ASSUME NEW cut \in 1..PageSize, Ask(r, cut) PROVE IInv'  BY <2>6, AskKeepsInv
    <2>7. ASSUME NEW cut \in 1..PageSize, PageLocal(r, cut) PROVE IInv'
      BY <2>7, PageLocalKeepsInv
    <2>8. CASE PageRemote(r)  BY <2>8, PageRemoteKeepsInv
    <2>9. CASE Finish(r)  BY <2>9, FinishKeepsInv
    <2>10. CASE Fork(r)  BY <2>10, ForkKeepsInv
    <2>11. CASE ForkRefused(r)  BY <2>11, ForkRefusedKeepsInv
    <2>12. CASE RecordFork(r)  BY <2>12, RecordForkKeepsInv
    <2>13. QED
      BY <1>4, <2>1, <2>2, <2>3, <2>4, <2>5, <2>6, <2>7, <2>8, <2>9, <2>10, <2>11, <2>12
         DEF Step
  <1>5. ASSUME NEW r \in Readers, Stop(r) PROVE IInv'  BY <1>5, StopKeepsInv
  <1>6. ASSUME NEW r \in Readers, NEW kept \in 0..Len(source), ForkCutShort(r, kept) PROVE IInv'
    BY <1>6, ForkCutShortKeepsInv
  <1>7. CASE UNCHANGED vars  BY <1>7, StutterKeepsInv
  <1>8. QED  BY <1>1, <1>2, <1>3, <1>4, <1>5, <1>6, <1>7 DEF Next

LEMMA Invariance == Spec => []IInv
  <1>1. QED  BY InitIsSound, NextKeepsInv, PTL DEF Spec

(* A page imported again, after a crash before its cursor was replaced or  *)
(* by two readers, adds no event twice, and evidence whose anchor the      *)
(* source still has vouches for everything up to its position, unless an   *)
(* event recurred after a restore: a fork is the source up to there, a     *)
(* read model has all it was to copy (lifecycle.rs:178-192, 247, 320-334). *)
THEOREM ReplicasAreSound == Spec => []ReplicaInv
  <1>1. IInv => ReplicaInv
    <2> SUFFICES ASSUME IInv PROVE ReplicaInv  OBVIOUS
    <2> USE DEF IInv, Base
    <2>1. source \in Seq(Events) /\ Len(source) <= MaxEvents
      BY SourceIs DEF Typed
    <2>2. ASSUME NEW r \in Readers
          PROVE  /\ op[r].step \in Steps /\ op[r].attempt \in 0..MaxAttempts
                 /\ op[r].follows \in BOOLEAN /\ op[r].after \in 0..MaxEvents
                 /\ op[r].ceiling \in 0..MaxEvents \cup {None}
                 /\ op[r].page.rows \in Seq(Events)
      <3>1. op[r] \in Ops  BY DEF ReaderInv
      <3>2. QED  BY <3>1 DEF Ops, Pages
    <2>3. TypeOK  BY <2>1, <2>2 DEF TypeOK, Typed, SourceIsSound
    <2>4. EvidenceIsCovered
      BY DEF EvidenceIsCovered, EvidenceFits, Covers, Forked
    <2>5. QED  BY <2>3, <2>4 DEF ReplicaInv
  <1>2. QED  BY <1>1, Invariance, PTL

(* A refresh that succeeds, after whatever attempts and whatever the other *)
(* readers did meanwhile, leaves the replica with all the source held when *)
(* the refresh began, unless it was replaced since, or was replaced before *)
(* and an event recurred (lifecycle.rs:88).                                *)
THEOREM SuccessesAreFresh == Spec => []SuccessIsFresh
  <1>1. IInv => SuccessIsFresh  BY DEF IInv, ReaderInv, Fresh, SuccessIsFresh
  <1>2. QED  BY <1>1, Invariance, PTL

(* A read model is a beginning of one source's history, in its order: the  *)
(* anchors keep the pages of a source that was replaced out of it, unless  *)
(* it was replaced while the replica was ahead of its cursor or an event   *)
(* recurred (evidence.rs:165, replica_net.rs:297).                         *)
THEOREM ReplicasHaveOneHistory == Spec => []OneHistoryUnlessReplacedAhead
  <1>1. IInv => OneHistoryUnlessReplacedAhead
    <2> SUFFICES ASSUME IInv, mode # "fork", ~ ahead, ~ Recurred, KeptOut
                 PROVE  before # None /\ IsCopyOf(before)
      BY DEF IInv, OneHistory, OneHistoryUnlessReplacedAhead
    <2>1. before # None /\ evidence.high \in 1..Len(before)  BY DEF KeptOut, WasThere
    <2>2. evidence.high \in 0..Len(before)  BY <2>1
    <2>3. QED  BY <2>1, <2>2 DEF KeptOut, IsCopyOf
  <1>2. QED  BY <1>1, Invariance, PTL
================================================================================
