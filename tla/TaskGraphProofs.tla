-------------------------- MODULE TaskGraphProofs ---------------------------
(***************************************************************************)
(* What the workflow keeps for any drafts, rules, limits and numbers of    *)
(* branches, whoever dies between the record of a branch and the merge of  *)
(* its batch: a task is solved once, an answer follows the dependencies,   *)
(* and a success leaves nothing out.                                       *)
(***************************************************************************)
EXTENDS TaskGraph, SequenceTheorems, FiniteSetTheorems, WellFoundedInduction, TLAPS

-----------------------------------------------------------------------------
(* Sequences.                                                               *)

\* Induction over a set.
LEMMA Induction ==
  ASSUME NEW P, 0 \in P, \A n \in Nat : n \in P => n + 1 \in P
  PROVE  Nat \subseteq P
<1> SUFFICES ASSUME ~(Nat \subseteq P) PROVE FALSE
  OBVIOUS
<1> DEFINE Rest == {n \in Nat : n \notin P}
<1>1. PICK n \in Rest : \A k \in Rest : <<k, n>> \notin OpToRel(<, Nat)
  <2>1. IsWellFoundedOn(OpToRel(<, Nat), Nat) /\ Rest \subseteq Nat /\ Rest # {}
    BY NatLessThanWellFounded
  <2> QED
    BY <2>1, WFMin
<1>2. \A k \in Rest : ~(k < n)
  BY <1>1 DEF OpToRel
<1>3. n - 1 \in Nat /\ n - 1 \in P /\ (n - 1) + 1 = n
  BY <1>2
<1> QED
  BY <1>3

\* A function that is computed from its value before, over a bounded range.
Steps(T, first, step) == first \in T /\ step \in [Nat \X T -> T]

Walk(T, first, step, N, g) ==
  g \in [0 .. N -> T] /\ g[0] = first /\ \A n \in 1 .. N : g[n] = step[<<n, g[n - 1]>>]

LEMMA Recursion ==
  ASSUME NEW T, NEW first, NEW step, Steps(T, first, step), NEW N \in Nat
  PROVE  \E g : Walk(T, first, step, N, g)
<1>0. first \in T /\ step \in [Nat \X T -> T]
  BY DEF Steps
<1> DEFINE Upto(k) == \E g \in [0 .. k -> T] :
                        g[0] = first /\ \A n \in 1 .. k : g[n] = step[<<n, g[n - 1]>>]
<1> DEFINE P == {k \in Nat : Upto(k)}
<1>1. 0 \in P
  <2> DEFINE g == [n \in 0 .. 0 |-> first]
  <2>1. g \in [0 .. 0 -> T] /\ g[0] = first /\ \A n \in 1 .. 0 : g[n] = step[<<n, g[n - 1]>>]
    BY <1>0
  <2> QED
    BY <2>1
<1>2. ASSUME NEW k \in Nat, k \in P PROVE k + 1 \in P
  <2> PICK g \in [0 .. k -> T] : g[0] = first /\ \A n \in 1 .. k : g[n] = step[<<n, g[n - 1]>>]
    BY <1>2
  <2> DEFINE h == [n \in 0 .. k + 1 |-> IF n = k + 1 THEN step[<<k + 1, g[k]>>] ELSE g[n]]
  <2>1. h \in [0 .. k + 1 -> T]
    BY <1>0
  <2>2. h[0] = first /\ \A n \in 1 .. k + 1 : h[n] = step[<<n, h[n - 1]>>]
    <3>1. \A n \in 0 .. k : h[n] = g[n]
      OBVIOUS
    <3>2. h[k + 1] = step[<<k + 1, g[k]>>]
      OBVIOUS
    <3> HIDE DEF h
    <3>3. ASSUME NEW n \in 1 .. k + 1 PROVE h[n] = step[<<n, h[n - 1]>>]
      <4>1. CASE n = k + 1
        BY <3>1, <3>2, <4>1
      <4>2. CASE n # k + 1
        BY <3>1, <4>2
      <4> QED
        BY <4>1, <4>2
    <3> QED
      BY <3>1, <3>3
  <2>3. Upto(k + 1)
    <3> HIDE DEF h
    <3> QED
      BY <2>1, <2>2
  <2> QED
    BY <2>3
<1>3. N \in P
  <2> HIDE DEF P
  <2> QED
    BY <1>1, <1>2, Induction
<1> QED
  BY <1>3 DEF Walk

\* What is in a sequence.
LEMMA InRange ==
  ASSUME NEW A, NEW s \in Seq(A)
  PROVE  \A x : x \in Range(s) <=> \E i \in 1 .. Len(s) : s[i] = x
<1>1. DOMAIN s = 1 .. Len(s)
  BY LenProperties
<1> QED
  BY <1>1 DEF Range

LEMMA RangeOfEmpty == Range(<<>>) = {}
  BY DEF Range

LEMMA RangeOfAppend ==
  ASSUME NEW A, NEW s \in Seq(A), NEW a \in A
  PROVE  /\ Append(s, a) \in Seq(A) /\ Len(Append(s, a)) = Len(s) + 1
         /\ Range(Append(s, a)) = Range(s) \cup {a}
<1> DEFINE new == Append(s, a)
<1>1. /\ new \in Seq(A) /\ Len(new) = Len(s) + 1 /\ Len(s) \in Nat
      /\ new[Len(s) + 1] = a /\ \A i \in 1 .. Len(s) : new[i] = s[i]
  OBVIOUS
<1>0. DOMAIN s = 1 .. Len(s) /\ DOMAIN new = 1 .. Len(s) + 1
  BY <1>1, LenProperties
<1> HIDE DEF new
<1>2. \A x : x \in Range(new) <=> \E i \in 1 .. Len(s) + 1 : new[i] = x
  BY <1>0 DEF Range
<1>3. \A x : x \in Range(s) <=> \E i \in 1 .. Len(s) : s[i] = x
  BY <1>0 DEF Range
<1>4. \A x : x \in Range(new) <=> x \in Range(s) \/ x = a
  BY <1>1, <1>2, <1>3
<1> QED
  BY <1>1, <1>4 DEF new

\* How a part of a sequence comes about.
Keeps(keep, A, s, S) ==
  /\ keep[0] = <<>> /\ keep[Len(s)] = Only(s, S)
  /\ \A n \in 0 .. Len(s) : keep[n] \in Seq(A)
  /\ \A n \in 1 .. Len(s) : keep[n] = IF s[n] \in S THEN Append(keep[n - 1], s[n]) ELSE keep[n - 1]

LEMMA OnlyWalk ==
  ASSUME NEW A, NEW s \in Seq(A), NEW S
  PROVE  \E keep : Keeps(keep, A, s, S)
<1> DEFINE N == Len(s)
<1> DEFINE step == [p \in Nat \X Seq(A) |->
                      IF p[1] \in 1 .. N /\ s[p[1]] \in S THEN Append(p[2], s[p[1]]) ELSE p[2]]
<1> DEFINE Body(f) == [n \in 0 .. N |->
             IF n = 0 THEN <<>> ELSE IF s[n] \in S THEN Append(f[n - 1], s[n]) ELSE f[n - 1]]
<1> DEFINE keep == CHOOSE f : f = Body(f)
<1>0. N \in Nat /\ \A n \in 1 .. N : s[n] \in A
  BY LenProperties, ElementOfSeq
<1>1. \E f : f = Body(f)
  <2>1. step \in [Nat \X Seq(A) -> Seq(A)]
    BY <1>0
  <2>2. PICK g \in [0 .. N -> Seq(A)] : g[0] = <<>> /\ \A n \in 1 .. N : g[n] = step[<<n, g[n - 1]>>]
    <3> DEFINE T == Seq(A)
    <3>1. Steps(T, <<>>, step) /\ N \in Nat
      BY <1>0, <2>1 DEF Steps
    <3> HIDE DEF step, N, T
    <3>2. PICK g : Walk(T, <<>>, step, N, g)
      BY <3>1, Recursion
    <3> QED
      BY <3>2 DEF T, Walk
  <2>3. \A n \in 1 .. N : g[n] = IF s[n] \in S THEN Append(g[n - 1], s[n]) ELSE g[n - 1]
    <3>1. ASSUME NEW n \in 1 .. N
          PROVE  g[n] = IF s[n] \in S THEN Append(g[n - 1], s[n]) ELSE g[n - 1]
      <4>1. n \in Nat /\ n - 1 \in 0 .. N
        BY <1>0
      <4>2. g[n - 1] \in Seq(A) /\ g[n] = step[<<n, g[n - 1]>>]
        BY <2>2, <4>1
      <4> HIDE DEF keep, Body
      <4> QED
        BY <4>1, <4>2
    <3> QED
      BY <3>1
  <2>4. g = Body(g)
    <3>1. \A n \in 0 .. N : g[n] = IF n = 0 THEN <<>> ELSE
            IF s[n] \in S THEN Append(g[n - 1], s[n]) ELSE g[n - 1]
      <4> HIDE DEF step, keep, Body
      <4> QED
        <5>1. ASSUME NEW n \in 0 .. N, n # 0
              PROVE  g[n] = IF s[n] \in S THEN Append(g[n - 1], s[n]) ELSE g[n - 1]
          <6>1. n \in 1 .. N
            BY <1>0, <5>1
          <6> QED
            BY <2>3, <6>1
        <5> QED
          BY <2>2, <5>1
    <3> QED
      BY <2>2, <3>1
  <2> QED
    BY <2>4
<1>2. keep = Body(keep)
  BY <1>1
<1>3. Only(s, S) = keep[N]
  BY DEF Only
<1> HIDE DEF keep, step
<1>4. keep[0] = <<>> /\ \A n \in 1 .. N : keep[n] = IF s[n] \in S THEN Append(keep[n - 1], s[n]) ELSE keep[n - 1]
  <2>1. \A n \in 0 .. N : keep[n] = IF n = 0 THEN <<>> ELSE
          IF s[n] \in S THEN Append(keep[n - 1], s[n]) ELSE keep[n - 1]
    BY <1>2
  <2> QED
    BY <1>0, <2>1
<1> HIDE DEF Body
<1> DEFINE P == {n \in Nat : n <= N => keep[n] \in Seq(A)}
<1>5. 0 \in P
  BY <1>4, EmptySeq
<1>6. ASSUME NEW n \in Nat, n \in P PROVE n + 1 \in P
  <2> SUFFICES ASSUME n + 1 <= N PROVE keep[n + 1] \in Seq(A)
    OBVIOUS
  <2>1. keep[n] \in Seq(A) /\ n + 1 \in 1 .. N /\ (n + 1) - 1 = n /\ s[n + 1] \in A
    BY <1>0, <1>6
  <2>2. keep[n + 1] = IF s[n + 1] \in S THEN Append(keep[n], s[n + 1]) ELSE keep[n]
    BY <1>4, <2>1
  <2> QED
    BY <2>1, <2>2, RangeOfAppend
<1>7. Nat \subseteq P
  <2> HIDE DEF P
  <2> QED
    BY <1>5, <1>6, Induction
<1>8. \A n \in 0 .. N : keep[n] \in Seq(A)
  BY <1>0, <1>7
<1> QED
  BY <1>3, <1>4, <1>8 DEF Keeps

\* What is left of a sequence.
LEMMA OnlyProperties ==
  ASSUME NEW A, NEW s \in Seq(A), NEW S
  PROVE  /\ Only(s, S) \in Seq(A)
         /\ Range(Only(s, S)) = Range(s) \cap S
         /\ Len(Only(s, S)) <= Len(s)
<1> DEFINE N == Len(s)
<1>0. N \in Nat /\ \A n \in 1 .. N : s[n] \in A
  BY LenProperties, ElementOfSeq
<1>1. PICK keep : Keeps(keep, A, s, S)
  BY OnlyWalk
<1>3. Only(s, S) = keep[N]
  BY <1>1 DEF Keeps
<1>4. keep[0] = <<>> /\ \A n \in 1 .. N : keep[n] = IF s[n] \in S THEN Append(keep[n - 1], s[n]) ELSE keep[n - 1]
  BY <1>1 DEF Keeps
<1> DEFINE Good(n) == /\ keep[n] \in Seq(A)
                      /\ \A x : x \in Range(keep[n]) <=> \E i \in 1 .. n : s[i] = x /\ x \in S
                      /\ Len(keep[n]) <= n
<1> DEFINE P == {n \in Nat : n <= N => Good(n)}
<1>5. 0 \in P
  <2>1. keep[0] \in Seq(A) /\ Range(keep[0]) = {} /\ Len(keep[0]) = 0
    BY <1>4, EmptySeq, RangeOfEmpty
  <2> QED
    BY <2>1
<1>6. ASSUME NEW n \in Nat, n \in P PROVE n + 1 \in P
  <2> SUFFICES ASSUME n + 1 <= N PROVE Good(n + 1)
    OBVIOUS
  <2>1. Good(n) /\ n + 1 \in 1 .. N /\ (n + 1) - 1 = n /\ s[n + 1] \in A
    BY <1>0, <1>6
  <2>2. keep[n + 1] = IF s[n + 1] \in S THEN Append(keep[n], s[n + 1]) ELSE keep[n]
    BY <1>4, <2>1
  <2>3. \A i : i \in 1 .. n + 1 <=> i \in 1 .. n \/ i = n + 1
    OBVIOUS
  <2>4. CASE s[n + 1] \in S
    <3>1. /\ keep[n + 1] \in Seq(A) /\ Len(keep[n + 1]) = Len(keep[n]) + 1
          /\ Range(keep[n + 1]) = Range(keep[n]) \cup {s[n + 1]}
      BY <2>1, <2>2, <2>4, RangeOfAppend
    <3> QED
      BY <2>1, <2>3, <2>4, <3>1
  <2>5. CASE s[n + 1] \notin S
    BY <2>1, <2>2, <2>3, <2>5
  <2> QED
    BY <2>4, <2>5
<1>7. N \in P
  <2> HIDE DEF P
  <2> QED
    BY <1>0, <1>5, <1>6, Induction
<1> QED
  <2>1. Good(N)
    BY <1>0, <1>7
  <2>2. \A x : x \in Range(s) <=> \E i \in 1 .. N : s[i] = x
    BY <1>0 DEF Range
  <2> QED
    BY <1>3, <2>1, <2>2

\* How sequences are put in a row.
Joins(f, A, ss) ==
  /\ f[0] = <<>> /\ f[Len(ss)] = FlattenSeq(ss)
  /\ \A n \in 0 .. Len(ss) : f[n] \in Seq(A)
  /\ \A n \in 1 .. Len(ss) : f[n] = f[n - 1] \o ss[n]

LEMMA FlattenWalk ==
  ASSUME NEW A, NEW ss \in Seq(Seq(A))
  PROVE  \E f : Joins(f, A, ss)
<1> DEFINE N == Len(ss)
<1> DEFINE step == [p \in Nat \X Seq(A) |-> IF p[1] \in 1 .. N THEN p[2] \o ss[p[1]] ELSE p[2]]
<1> DEFINE Body(f) == [i \in 1 .. N |-> IF i = 1 THEN ss[i] ELSE f[i - 1] \o ss[i]]
<1> DEFINE flatten == CHOOSE f : f = Body(f)
<1>0. N \in Nat /\ \A n \in 1 .. N : ss[n] \in Seq(A)
  BY LenProperties, ElementOfSeq
<1>1. CASE N = 0
  <2>1. ss = <<>>
    BY <1>1, EmptySeq
  <2>2. FlattenSeq(ss) = <<>>
    BY <2>1, <1>1 DEF FlattenSeq
  <2> DEFINE f == [n \in 0 .. 0 |-> <<>>]
  <2>3. f[0] = <<>> /\ f[N] = FlattenSeq(ss)
    BY <1>1, <2>2
  <2>4. f[0] \in Seq(A)
    BY <2>3, EmptySeq
  <2> HIDE DEF f
  <2>5. Joins(f, A, ss)
    <3>1. /\ \A n \in 0 .. N : n = 0
          /\ \A n \in 1 .. N : FALSE
      BY <1>1
    <3> QED
      BY <2>2, <2>3, <2>4, <3>1 DEF Joins
  <2> QED
    BY <2>5
<1>2. CASE N # 0
  <2>1. \E f : f = Body(f)
    <3>1. step \in [Nat \X Seq(A) -> Seq(A)]
      BY <1>0, ConcatProperties
    <3>2. PICK g \in [0 .. N -> Seq(A)] : g[0] = <<>> /\ \A n \in 1 .. N : g[n] = step[<<n, g[n - 1]>>]
      <4> DEFINE T == Seq(A)
      <4> DEFINE first == <<>>
      <4>1. Steps(T, first, step) /\ N \in Nat
        BY <1>0, <3>1, EmptySeq DEF Steps
      <4> HIDE DEF step, N, T, flatten, Body, first
      <4>2. PICK g : Walk(T, first, step, N, g)
        BY <4>1, Recursion
      <4> QED
        BY <4>2 DEF T, first, Walk
    <3>3. ASSUME NEW n \in 1 .. N PROVE g[n] = IF n = 1 THEN ss[n] ELSE g[n - 1] \o ss[n]
      <4>1. n \in Nat /\ n - 1 \in 0 .. N
        BY <1>0
      <4>2. g[n - 1] \in Seq(A) /\ g[n] = step[<<n, g[n - 1]>>]
        BY <3>2, <4>1
      <4> HIDE DEF flatten, Body
      <4>3. g[n] = g[n - 1] \o ss[n]
        BY <4>1, <4>2
      <4>4. CASE n = 1
        BY <1>0, <3>2, <4>3, <4>4, ConcatEmptySeq
      <4> QED
        BY <4>3, <4>4
    <3> DEFINE h == [n \in 1 .. N |-> g[n]]
    <3>4. \A n \in 1 .. N : h[n] = IF n = 1 THEN ss[n] ELSE h[n - 1] \o ss[n]
      <4> HIDE DEF flatten, Body, step
      <4>1. ASSUME NEW n \in 1 .. N, n # 1 PROVE h[n - 1] = g[n - 1]
        <5>1. n - 1 \in 1 .. N
          BY <1>0, <4>1
        <5> QED
          BY <5>1
      <4>2. \A n \in 1 .. N : h[n] = g[n]
        OBVIOUS
      <4> HIDE DEF h
      <4> QED
        BY <3>3, <4>1, <4>2
    <3>5. h = Body(h)
      BY <3>4
    <3> QED
      BY <3>5
  <2>2. flatten = Body(flatten)
    BY <2>1
  <2>3. FlattenSeq(ss) = flatten[N]
    BY <1>2 DEF FlattenSeq
  <2> HIDE DEF flatten, step
  <2>4. \A n \in 1 .. N : flatten[n] = IF n = 1 THEN ss[n] ELSE flatten[n - 1] \o ss[n]
    BY <2>2
  <2> HIDE DEF Body
  <2> DEFINE f == [n \in 0 .. N |-> IF n = 0 THEN <<>> ELSE flatten[n]]
  <2>5. f[0] = <<>> /\ f[N] = FlattenSeq(ss) /\ \A n \in 1 .. N : f[n] = flatten[n]
    BY <1>0, <1>2, <2>3
  <2> HIDE DEF f
  <2> DEFINE P == {n \in Nat : n <= N => f[n] \in Seq(A)}
  <2>6. ASSUME NEW n \in 1 .. N, f[n - 1] \in Seq(A) PROVE f[n] = f[n - 1] \o ss[n] /\ f[n] \in Seq(A)
    <3>0. ss[n] \in Seq(A) /\ f[n] = flatten[n]
      BY <1>0, <2>5
    <3>1. CASE n = 1
      <4>1. f[n] = ss[n] /\ f[n - 1] = <<>>
        BY <2>4, <2>5, <3>0, <3>1
      <4> QED
        BY <3>0, <4>1, ConcatEmptySeq
    <3>2. CASE n # 1
      <4>1. n - 1 \in 1 .. N
        BY <1>0, <3>2
      <4>2. f[n] = flatten[n - 1] \o ss[n] /\ f[n - 1] = flatten[n - 1]
        BY <2>4, <2>5, <3>0, <3>2, <4>1
      <4> HIDE DEF N
      <4> QED
        BY <2>6, <3>0, <4>2, ConcatProperties
    <3> QED
      BY <3>1, <3>2
  <2>7. 0 \in P
    BY <2>5, EmptySeq
  <2>8. ASSUME NEW n \in Nat, n \in P PROVE n + 1 \in P
    <3> SUFFICES ASSUME n + 1 <= N PROVE f[n + 1] \in Seq(A)
      OBVIOUS
    <3>1. n + 1 \in 1 .. N /\ (n + 1) - 1 = n /\ f[n] \in Seq(A)
      BY <1>0, <2>8
    <3>2. f[(n + 1) - 1] \in Seq(A)
      BY <3>1
    <3> HIDE DEF N, P
    <3> QED
      BY <2>6, <3>1, <3>2
  <2>9. Nat \subseteq P
    <3> HIDE DEF P
    <3> QED
      BY <2>7, <2>8, Induction
  <2>10. \A n \in 0 .. N : f[n] \in Seq(A)
    BY <1>0, <2>9
  <2>11. \A n \in 1 .. N : f[n] = f[n - 1] \o ss[n]
    <3>1. \A n \in 1 .. N : n - 1 \in 0 .. N
      BY <1>0
    <3> QED
      BY <2>6, <2>10, <3>1
  <2>12. Joins(f, A, ss)
    BY <2>5, <2>10, <2>11 DEF Joins
  <2> QED
    BY <2>12
<1> QED
  BY <1>1, <1>2

\* A sequence of sequences in a row.
LEMMA FlattenProperties ==
  ASSUME NEW A, NEW ss \in Seq(Seq(A))
  PROVE  /\ FlattenSeq(ss) \in Seq(A)
         /\ \A x : x \in Range(FlattenSeq(ss)) <=> \E i \in 1 .. Len(ss) : x \in Range(ss[i])
<1> DEFINE N == Len(ss)
<1>0. N \in Nat /\ \A n \in 1 .. N : ss[n] \in Seq(A)
  BY LenProperties, ElementOfSeq
<1>1. PICK f : Joins(f, A, ss)
  BY FlattenWalk
<1>2. /\ f[0] = <<>> /\ f[N] = FlattenSeq(ss) /\ \A n \in 0 .. N : f[n] \in Seq(A)
      /\ \A n \in 1 .. N : f[n] = f[n - 1] \o ss[n]
  BY <1>1 DEF Joins
<1> DEFINE P == {n \in Nat : n <= N =>
                   \A x : x \in Range(f[n]) <=> \E i \in 1 .. n : x \in Range(ss[i])}
<1>3. 0 \in P
  BY <1>2, RangeOfEmpty
<1>4. ASSUME NEW n \in Nat, n \in P PROVE n + 1 \in P
  <2> DEFINE k == n + 1
  <2> SUFFICES ASSUME k <= N PROVE \A x : x \in Range(f[k]) <=> \E i \in 1 .. k : x \in Range(ss[i])
    OBVIOUS
  <2>1. k \in 1 .. N /\ k - 1 = n /\ n \in 0 .. N /\ ss[k] \in Seq(A) /\ f[n] \in Seq(A)
    BY <1>0, <1>2
  <2>2. Range(f[k]) = Range(f[n]) \cup Range(ss[k])
    <3>1. f[k] = f[n] \o ss[k]
      BY <1>2, <2>1
    <3> HIDE DEF k
    <3> QED
      BY <2>1, <3>1, RangeConcatenation
  <2>3. \A i : i \in 1 .. k <=> i \in 1 .. n \/ i = k
    OBVIOUS
  <2>4. \A x : x \in Range(f[n]) <=> \E i \in 1 .. n : x \in Range(ss[i])
    BY <1>0, <1>4
  <2> HIDE DEF k
  <2> QED
    BY <2>2, <2>3, <2>4
<1>5. N \in P
  <2> HIDE DEF P
  <2> QED
    BY <1>0, <1>3, <1>4, Induction
<1>6. \A x : x \in Range(f[N]) <=> \E i \in 1 .. N : x \in Range(ss[i])
  BY <1>0, <1>5
<1>7. f[N] \in Seq(A)
  BY <1>0, <1>2
<1> QED
  BY <1>2, <1>6, <1>7

-----------------------------------------------------------------------------
(* What a task is.                                                          *)

Texts       == {"planned", "reworded", "supplemented"} \cup {Wording(rule, half) : rule \in Range(Rules), half \in Halves}
TaskRecords == [id : Identities, deps : SUBSET Identities, rev : Nat, text : Texts,
                words : SUBSET RuleNames]

LEMMA RulesTyped ==
  /\ Rules \in Seq(Range(Rules))
  /\ \A rule \in Range(Rules) : rule.name \in RuleNames
<1> DEFINE All == Range(RuleTable)
<1>1. RuleTable \in Seq(All)
  <2> DEFINE r1 == [name |-> "contract", tagged |-> FALSE]
  <2> DEFINE r2 == [name |-> "injury", tagged |-> TRUE]
  <2> DEFINE r3 == [name |-> "social", tagged |-> TRUE]
  <2> DEFINE r4 == [name |-> "overtime", tagged |-> TRUE]
  <2> DEFINE r5 == [name |-> "noncompete", tagged |-> TRUE]
  <2> DEFINE r6 == [name |-> "probation", tagged |-> TRUE]
  <2> DEFINE r7 == [name |-> "dispatch", tagged |-> TRUE]
  <2>1. RuleTable = <<r1, r2, r3, r4, r5, r6, r7>>
    BY DEF RuleTable
  <2> HIDE DEF r1, r2, r3, r4, r5, r6, r7, All
  <2>2. RuleTable \in Seq({r1, r2, r3, r4, r5, r6, r7})
    BY <2>1
  <2> QED
    BY <2>2, SeqOfRange DEF All
<1> HIDE DEF All
<1>2. Rules \in Seq(All)
  BY <1>1, OnlyProperties DEF Rules
<1>3. Rules \in Seq(Range(Rules))
  BY <1>2, SeqOfRange
<1>4. \A rule : rule \in Range(Rules) <=> \E i \in 1 .. Len(Rules) : Rules[i] = rule
  BY <1>2, InRange
<1> QED
  BY <1>3, <1>4 DEF RuleNames

\* A plan by its tasks.
LEMMA IdsOfRange ==
  ASSUME NEW q \in Seq(TaskRecords)
  PROVE  Ids(q) = {t.id : t \in Range(q)}
  BY InRange DEF Ids

LEMMA UniqueIds ==
  ASSUME NEW q \in Seq(TaskRecords), Cardinality(Ids(q)) = Len(q),
         NEW t \in Range(q), NEW u \in Range(q), t.id = u.id
  PROVE  t = u
<1> DEFINE f == [i \in 1 .. Len(q) |-> q[i].id]
<1>1. Len(q) \in Nat
  BY LenProperties
<1>2. f \in Surjection(1 .. Len(q), Ids(q))
  BY DEF Surjection, Ids
<1>3. IsFiniteSet(1 .. Len(q)) /\ Cardinality(1 .. Len(q)) = Len(q)
  <2>1. 1 \in Int /\ Len(q) \in Int /\ (1 > Len(q) => Len(q) = 0) /\ Len(q) - 1 + 1 = Len(q)
    BY <1>1
  <2> QED
    BY <2>1, FS_Interval
<1>4. f \in Injection(1 .. Len(q), Ids(q))
  <2> HIDE DEF f
  <2> QED
    BY <1>2, <1>3, FS_Surjection
<1>5. PICK i \in 1 .. Len(q), j \in 1 .. Len(q) : q[i] = t /\ q[j] = u
  BY InRange
<1> QED
  BY <1>4, <1>5 DEF Injection, IsInjective

\* A sequence given by its elements.
LEMMA Built ==
  ASSUME NEW S, NEW n \in Nat, NEW s \in [1 .. n -> S]
  PROVE  s \in Seq(S) /\ Len(s) = n
  BY SeqDef

-----------------------------------------------------------------------------
(* Plans.                                                                   *)

DraftNodes       == [name : Range(Alphabet), deps : Seq(STRING)]
NodeNames(nodes) == {n.name : n \in Range(nodes)}
Peelings(nodes)  ==
  [open : Seq(NodeNames(nodes)), left : [Range(nodes) -> Int], order : Seq(NodeNames(nodes))]

LEMMA PeelTyped ==
  ASSUME NEW nodes \in Seq(DraftNodes), NEW s \in Peelings(nodes), s.open # <<>>
  PROVE  Peel(nodes, s) \in Peelings(nodes)
<1> DEFINE names == NodeNames(nodes)
<1> DEFINE next  == Head(s.open)
<1> DEFINE left  == [n \in DOMAIN s.left |-> IF next \in Range(n.deps) THEN s.left[n] - 1 ELSE s.left[n]]
<1> DEFINE freed == Only(nodes, {n \in Range(nodes) : next \in Range(n.deps) /\ left[n] = 0})
<1> DEFINE more  == [i \in 1 .. Len(freed) |-> freed[i].name]
<1>0. s.open \in Seq(names) /\ s.left \in [Range(nodes) -> Int] /\ s.order \in Seq(names)
  BY DEF Peelings
<1>1. next \in names /\ Tail(s.open) \in Seq(names)
  BY <1>0, HeadTailProperties
<1>2. left \in [Range(nodes) -> Int]
  <2> HIDE DEF next
  <2> QED
    BY <1>0
<1>3. freed \in Seq(Range(nodes))
  <2> HIDE DEF left, next
  <2> QED
    BY SeqOfRange, OnlyProperties
<1> HIDE DEF freed, left, next
<1>4. more \in Seq(names)
  <2>1. Len(freed) \in Nat /\ \A i \in 1 .. Len(freed) : freed[i] \in Range(nodes)
    BY <1>3, LenProperties, ElementOfSeq
  <2>2. more \in [1 .. Len(freed) -> names]
    BY <2>1 DEF NodeNames
  <2> HIDE DEF more, names
  <2> QED
    BY <2>1, <2>2, Built
<1>5. Tail(s.open) \o more \in Seq(names) /\ Append(s.order, next) \in Seq(names)
  <2> HIDE DEF more, names
  <2> QED
    BY <1>0, <1>1, <1>4, ConcatProperties, RangeOfAppend
<1>6. Peel(nodes, s) = [open |-> Tail(s.open) \o more, left |-> left, order |-> Append(s.order, next)]
  BY DEF Peel, next, left, freed
<1> HIDE DEF more
<1> QED
  BY <1>2, <1>5, <1>6 DEF Peelings

\* How the order of a draft comes about.
Unpeeled(nodes) ==
  [open |-> Only(Alphabet, {n.name : n \in {m \in Range(nodes) : m.deps = <<>>}}),
   left |-> [n \in Range(nodes) |-> Len(n.deps)], order |-> <<>>]

Orders(run, nodes) ==
  /\ run[0] = Unpeeled(nodes) /\ run[Len(nodes)].order = TopologicalOrder(nodes)
  /\ \A k \in 0 .. Len(nodes) : run[k] \in Peelings(nodes)
  /\ \A k \in 1 .. Len(nodes) :
       run[k] = IF run[k - 1].open = <<>> THEN run[k - 1] ELSE Peel(nodes, run[k - 1])

LEMMA OrderWalk ==
  ASSUME NEW nodes \in Seq(DraftNodes)
  PROVE  \E run : Orders(run, nodes)
<1> DEFINE N     == Len(nodes)
<1> DEFINE T     == Peelings(nodes)
<1> DEFINE roots == {n.name : n \in {m \in Range(nodes) : m.deps = <<>>}}
<1> DEFINE first == [open |-> Only(Alphabet, roots),
                     left |-> [n \in Range(nodes) |-> Len(n.deps)], order |-> <<>>]
<1> DEFINE next(s) == IF s.open = <<>> THEN s ELSE Peel(nodes, s)
<1> DEFINE step  == [p \in Nat \X T |-> next(p[2])]
<1> DEFINE Body(f) == [k \in 0 .. N |-> IF k = 0 THEN first ELSE
                         IF f[k - 1].open = <<>> THEN f[k - 1] ELSE Peel(nodes, f[k - 1])]
<1> DEFINE run == CHOOSE f : f = Body(f)
<1>0. N \in Nat /\ Range(nodes) \subseteq DraftNodes
  BY LenProperties, RangeOfSeq
<1>1. first \in T
  <2>1. Alphabet \in Seq(STRING)
    BY DraftsAssumption
  <2>2. Only(Alphabet, roots) \in Seq(STRING) /\ Range(Only(Alphabet, roots)) \subseteq roots
    <3> HIDE DEF roots
    <3> QED
      BY <2>1, OnlyProperties
  <2>3. roots \subseteq NodeNames(nodes)
    BY DEF NodeNames
  <2>4. Only(Alphabet, roots) \in Seq(NodeNames(nodes))
    <3> HIDE DEF roots
    <3> QED
      BY <2>2, <2>3, SeqOfRange, SeqMonotonic
  <2>5. [n \in Range(nodes) |-> Len(n.deps)] \in [Range(nodes) -> Int]
    <3>1. \A n \in Range(nodes) : Len(n.deps) \in Int
      BY <1>0, LenProperties DEF DraftNodes
    <3> QED
      BY <3>1
  <2>6. <<>> \in Seq(NodeNames(nodes))
    BY EmptySeq
  <2> HIDE DEF roots
  <2> QED
    BY <2>4, <2>5, <2>6 DEF Peelings
<1> HIDE DEF first
<1>2. \A s \in T : next(s) \in T
  BY PeelTyped
<1>3. step \in [Nat \X T -> T]
  <2> HIDE DEF T, next
  <2> QED
    BY <1>2
<1>4. \E f : f = Body(f)
  <2>1. PICK g : Walk(T, first, step, N, g)
    <3>1. Steps(T, first, step)
      BY <1>1, <1>3 DEF Steps
    <3> HIDE DEF T, step, N, Body, run
    <3> QED
      BY <1>0, <3>1, Recursion
  <2> HIDE DEF T, run
  <2>2. /\ g \in [0 .. N -> T] /\ g[0] = first
        /\ \A k \in 1 .. N : g[k] = step[<<k, g[k - 1]>>]
    <3> HIDE DEF step, N, Body
    <3> QED
      BY <2>1 DEF Walk
  <2>3. ASSUME NEW k \in 1 .. N PROVE g[k] = next(g[k - 1])
    <3>1. k \in Nat /\ k - 1 \in 0 .. N
      BY <1>0
    <3>2. g[k - 1] \in T /\ g[k] = step[<<k, g[k - 1]>>]
      BY <2>2, <3>1
    <3> HIDE DEF next, Body
    <3> QED
      BY <3>1, <3>2
  <2>4. \A k \in 0 .. N : g[k] = IF k = 0 THEN first ELSE
          IF g[k - 1].open = <<>> THEN g[k - 1] ELSE Peel(nodes, g[k - 1])
    <3>1. ASSUME NEW k \in 0 .. N, k # 0 PROVE k \in 1 .. N
      BY <1>0, <3>1
    <3> HIDE DEF step, Body, N
    <3> QED
      BY <2>2, <2>3, <3>1
  <2>5. g = Body(g)
    <3> HIDE DEF step
    <3> QED
      BY <2>2, <2>4
  <2> QED
    BY <2>5
<1>5. run = Body(run)
  BY <1>4
<1>6. TopologicalOrder(nodes) = run[N].order
  BY DEF TopologicalOrder, first
<1> HIDE DEF run, step
<1>7. \A k \in 0 .. N : run[k] = IF k = 0 THEN first ELSE next(run[k - 1])
  BY <1>5
<1> HIDE DEF Body, T
<1> DEFINE P == {k \in Nat : k <= N => run[k] \in T}
<1>8. 0 \in P
  BY <1>0, <1>1, <1>7
<1>9. ASSUME NEW k \in Nat, k \in P PROVE k + 1 \in P
  <2> SUFFICES ASSUME k + 1 <= N PROVE run[k + 1] \in T
    OBVIOUS
  <2>1. run[k] \in T /\ k + 1 \in 0 .. N /\ k + 1 # 0 /\ (k + 1) - 1 = k
    BY <1>0, <1>9
  <2>2. run[k + 1] = next(run[k])
    <3> HIDE DEF next
    <3> QED
      BY <1>7, <2>1
  <2> HIDE DEF next
  <2> QED
    BY <1>2, <2>1, <2>2
<1>10. Nat \subseteq P
  <2> HIDE DEF P
  <2> QED
    BY <1>8, <1>9, Induction
<1>11. \A k \in 0 .. N : run[k] \in T
  BY <1>0, <1>10
<1>12. run[0] = Unpeeled(nodes)
  BY <1>0, <1>7 DEF first, Unpeeled
<1>13. \A k \in 1 .. N : run[k] = next(run[k - 1])
  BY <1>0, <1>7
<1> QED
  BY <1>6, <1>11, <1>12, <1>13 DEF Orders, T

\* The order names nodes of the draft.
LEMMA OrderTyped ==
  ASSUME NEW nodes \in Seq(DraftNodes)
  PROVE  TopologicalOrder(nodes) \in Seq(NodeNames(nodes))
<1>1. PICK run : Orders(run, nodes)
  BY OrderWalk
<1>2. Len(nodes) \in 0 .. Len(nodes)
  BY LenProperties
<1>3. run[Len(nodes)] \in Peelings(nodes)
  BY <1>1, <1>2 DEF Orders
<1> QED
  BY <1>1, <1>3 DEF Orders, Peelings

LEMMA SkeletonTyped ==
  ASSUME NEW d \in Drafts, d.format # "other"
  PROVE  Skeleton(d) \in Seq(DraftNodes)
<1>1. CASE d.format = "flat"
  <2> DEFINE flat == [i \in 1 .. d.steps |-> [name |-> Alphabet[i], deps |-> <<>>]]
  <2>1. Alphabet \in Seq(STRING) /\ d.steps \in 0 .. Len(Alphabet) /\ Len(Alphabet) \in Nat
    BY <1>1, DraftsAssumption, LenProperties
  <2>2. \A i \in 1 .. d.steps : Alphabet[i] \in Range(Alphabet)
    <3>1. \A i \in 1 .. d.steps : i \in 1 .. Len(Alphabet)
      BY <2>1
    <3> QED
      BY <2>1, <3>1, InRange
  <2>3. <<>> \in Seq(STRING) /\ d.steps \in Nat
    BY <2>1, EmptySeq
  <2>4. flat \in [1 .. d.steps -> DraftNodes]
    BY <2>2, <2>3 DEF DraftNodes
  <2>5. flat \in Seq(DraftNodes)
    <3> HIDE DEF flat
    <3> QED
      BY <2>3, <2>4, Built
  <2> QED
    BY <1>1, <2>5 DEF Skeleton
<1>2. CASE d.format = "skeleton"
  BY <1>2, DraftsAssumption DEF Skeleton, DraftNodes
<1> QED
  BY <1>1, <1>2, DraftsAssumption

LEMMA IdTyped == \A name \in Names : Id(name) \in Identities
  BY EmptySeq DEF Id, Identities

LEMMA TaskTyped ==
  ASSUME NEW name \in Names, NEW deps \in SUBSET Names
  PROVE  Task(name, deps) \in TaskRecords
  BY IdTyped DEF Task, TaskRecords, Texts

LEMMA PlannedTyped ==
  ASSUME NEW d \in Drafts, Usable(d)
  PROVE  Planned(d) \in Seq(TaskRecords)
<1> DEFINE nodes == Skeleton(d)
<1> DEFINE order == TopologicalOrder(nodes)
<1> DEFINE node(name) == CHOOSE n \in Range(nodes) : n.name = name
<1> DEFINE plan == [i \in 1 .. Len(order) |-> Task(order[i], Range(node(order[i]).deps))]
<1>1. /\ nodes \in Seq(DraftNodes) /\ Range(nodes) \subseteq DraftNodes
      /\ order \in Seq(NodeNames(nodes)) /\ Len(order) \in Nat
      /\ \A i \in 1 .. Len(order) : order[i] \in NodeNames(nodes)
  <2>1. nodes \in Seq(DraftNodes)
    BY SkeletonTyped DEF Usable
  <2>2. order \in Seq(NodeNames(nodes))
    <3> HIDE DEF nodes
    <3> QED
      BY <2>1, OrderTyped
  <2> HIDE DEF nodes, order
  <2> QED
    BY <2>1, <2>2, RangeOfSeq, LenProperties, ElementOfSeq
<1>2. NodeNames(nodes) \subseteq Names
  BY <1>1 DEF NodeNames, DraftNodes, Names
<1>3. \A n \in Range(nodes) : Range(n.deps) \subseteq NodeNames(nodes)
  BY DEF Usable, Acceptable, NodeNames
<1>4. \A i \in 1 .. Len(order) : Task(order[i], Range(node(order[i]).deps)) \in TaskRecords
  <2> TAKE i \in 1 .. Len(order)
  <2>1. node(order[i]) \in Range(nodes)
    <3> HIDE DEF nodes, order
    <3> QED
      BY <1>1 DEF NodeNames
  <2> HIDE DEF node, nodes, order
  <2> QED
    BY <1>1, <1>2, <1>3, <2>1, TaskTyped
<1>5. plan \in [1 .. Len(order) -> TaskRecords]
  <2> HIDE DEF node, nodes, order
  <2> QED
    BY <1>4
<1>6. Planned(d) = plan
  BY DEF Planned
<1> HIDE DEF plan, node, nodes, order
<1> QED
  BY <1>1, <1>5, <1>6, Built

LEMMA PlansTyped == Plans \subseteq Seq(TaskRecords)
<1> DEFINE direct == Task("direct", {})
<1>1. direct \in TaskRecords
  BY TaskTyped DEF Names
<1> HIDE DEF direct
<1>2. <<direct>> \in Seq(TaskRecords)
  BY <1>1
<1> QED
  BY <1>2, PlannedTyped DEF Plans, direct

-----------------------------------------------------------------------------
(* Replanning.                                                              *)

\* What the model may say of the tasks that replace one.
Phrasings == Seq(SUBSET RuleNames) \ {<<>>}

LEMMA ReplyTyped ==
  ASSUME NEW said \in Replies, NEW id
  PROVE  At(said, id, <<{}>>) \in Phrasings
<1>1. \A x \in DOMAIN said : said[x] \in Rewordings
  BY DEF Replies
<1>2. Rewordings \subseteq Phrasings
  BY RewordingsAssumption DEF Phrasings
<1>3. <<{}>> \in Phrasings
  <2> DEFINE no == {}
  <2>1. no \in SUBSET RuleNames
    OBVIOUS
  <2> HIDE DEF no
  <2>2. <<no>> \in Seq(SUBSET RuleNames) /\ <<no>> # <<>>
    BY <2>1
  <2> QED
    BY <2>2 DEF Phrasings, no
<1> QED
  BY <1>1, <1>2, <1>3 DEF At

LEMMA PhrasingFacts ==
  ASSUME NEW said \in Phrasings
  PROVE  /\ Len(said) \in Nat /\ 1 <= Len(said)
         /\ \A i \in 1 .. Len(said) : said[i] \in SUBSET RuleNames
<1>1. said \in Seq(SUBSET RuleNames) /\ said # <<>>
  BY DEF Phrasings
<1>2. Len(said) \in Nat /\ Len(said) # 0
  BY <1>1, EmptySeq, LenProperties
<1> QED
  BY <1>1, <1>2, ElementOfSeq

LEMMA ReplacedTyped ==
  ASSUME NEW t \in TaskRecords, NEW said \in Phrasings
  PROVE  /\ Replaced(t, said) \in Seq(TaskRecords)
         /\ \E u \in Range(Replaced(t, said)) : u.id = t.id
<1> DEFINE n == Len(said)
<1> DEFINE new(i) == IF i = n THEN t.id ELSE <<t.id[1], Append(t.id[2], <<t.rev, i>>)>>
<1> DEFINE one(i) == [id |-> new(i), deps |-> IF i = 1 THEN t.deps ELSE {new(i - 1)},
                      rev |-> t.rev + 1, text |-> "reworded", words |-> said[i]]
<1>0. /\ t.id \in Identities /\ t.deps \subseteq Identities /\ t.rev \in Nat
      /\ t.id[1] \in Names /\ t.id[2] \in Seq(Nat \X Nat)
      /\ n \in Nat /\ 1 <= n /\ \A i \in 1 .. n : said[i] \in SUBSET RuleNames
  <2>1. n \in Nat /\ 1 <= n /\ \A i \in 1 .. n : said[i] \in SUBSET RuleNames
    BY PhrasingFacts
  <2> QED
    BY <2>1 DEF TaskRecords, Identities
<1> HIDE DEF n
<1>1. \A i \in 0 .. n : new(i) \in Identities
  <2> TAKE i \in 0 .. n
  <2>1. <<t.rev, i>> \in Nat \X Nat
    BY <1>0
  <2>2. Append(t.id[2], <<t.rev, i>>) \in Seq(Nat \X Nat)
    BY <1>0, <2>1, RangeOfAppend
  <2> QED
    BY <1>0, <2>2 DEF Identities
<1>2. \A i \in 1 .. n : one(i) \in TaskRecords
  <2> TAKE i \in 1 .. n
  <2>1. new(i) \in Identities /\ new(i - 1) \in Identities
    <3>1. i \in 0 .. n /\ i - 1 \in 0 .. n
      BY <1>0
    <3> HIDE DEF new
    <3> QED
      BY <1>1, <3>1
  <2> HIDE DEF new
  <2> QED
    BY <1>0, <2>1 DEF TaskRecords, Texts
<1> DEFINE all == [i \in 1 .. n |-> one(i)]
<1>3. all \in [1 .. n -> TaskRecords]
  <2> HIDE DEF one
  <2> QED
    BY <1>2
<1>4. all[n].id = t.id /\ n \in 1 .. n
  BY <1>0
<1>5. Replaced(t, said) = all
  BY DEF Replaced, n
<1> HIDE DEF all
<1>6. all \in Seq(TaskRecords) /\ Len(all) = n
  BY <1>0, <1>3, Built
<1>7. all[n] \in Range(all)
  BY <1>4, <1>6, InRange
<1> QED
  BY <1>4, <1>5, <1>6, <1>7

\* A task stays, goes on, or is replaced by others the last of which has its identity.
LEMMA RevisedTyped ==
  ASSUME NEW t \in TaskRecords, NEW said \in Phrasings
  PROVE  /\ Revised(t, said) \in Seq(TaskRecords)
         /\ \E u \in Range(Revised(t, said)) : u.id = t.id
<1> DEFINE next == [t EXCEPT !.rev = @ + 1]
<1>1. next \in TaskRecords /\ next.id = t.id
  BY DEF TaskRecords
<1> HIDE DEF next
<1>2. ASSUME NEW u \in TaskRecords PROVE <<u>> \in Seq(TaskRecords) /\ u \in Range(<<u>>)
  <2> DEFINE s == <<u>>
  <2>1. s \in Seq(TaskRecords) /\ Len(s) = 1 /\ s[1] = u
    OBVIOUS
  <2> HIDE DEF s
  <2>2. u \in Range(s)
    <3>1. DOMAIN s = 1 .. Len(s) /\ 1 \in 1 .. Len(s)
      BY <2>1, LenProperties
    <3> QED
      BY <2>1, <3>1 DEF Range
  <2> QED
    BY <2>1, <2>2 DEF s
<1>3. CASE t.id \notin DOMAIN retry
  BY <1>2, <1>3 DEF Revised
<1>4. CASE t.id \in DOMAIN retry /\ NeedsReplan(t)
  BY <1>4, ReplacedTyped DEF Revised
<1>5. CASE t.id \in DOMAIN retry /\ ~NeedsReplan(t)
  BY <1>1, <1>2, <1>5 DEF Revised, next
<1> QED
  BY <1>3, <1>4, <1>5

LEMMA AdditionsTyped ==
  ASSUME NEW q PROVE Additions(q) \in Seq([rule : Range(Rules), half : Halves])
<1> DEFINE A == [rule : Range(Rules), half : Halves]
<1> DEFINE parts == [i \in 1 .. Len(Rules) |->
      IF ~Fires(Rules[i], q) THEN <<>>
      ELSE [k \in 1 .. Len(Proposed(Rules[i], q)) |->
              [rule |-> Rules[i], half |-> Proposed(Rules[i], q)[k]]]]
<1>0. Len(Rules) \in Nat /\ \A i \in 1 .. Len(Rules) : Rules[i] \in Range(Rules)
  BY RulesTyped, LenProperties, ElementOfSeq
<1>1. ASSUME NEW rule PROVE Proposed(rule, q) \in Seq(Halves)
  <2>1. <<1, 2>> \in Seq(Halves)
    BY DEF Halves
  <2> QED
    BY <2>1, OnlyProperties DEF Proposed
<1>2. ASSUME NEW rule \in Range(Rules)
      PROVE  [k \in 1 .. Len(Proposed(rule, q)) |-> [rule |-> rule, half |-> Proposed(rule, q)[k]]] \in Seq(A)
  <2> DEFINE p == Proposed(rule, q)
  <2> DEFINE new == [k \in 1 .. Len(p) |-> [rule |-> rule, half |-> p[k]]]
  <2>1. Len(p) \in Nat /\ \A k \in 1 .. Len(p) : p[k] \in Halves
    <3> HIDE DEF p
    <3> QED
      BY <1>1, LenProperties, ElementOfSeq DEF p
  <2> HIDE DEF p
  <2>2. new \in [1 .. Len(p) -> A]
    BY <2>1
  <2> HIDE DEF new, A
  <2>3. new \in Seq(A)
    BY <2>1, <2>2, Built
  <2> QED
    BY <2>3 DEF new, p
<1>3. parts \in [1 .. Len(Rules) -> Seq(A)]
  <2> HIDE DEF A
  <2> QED
    BY <1>0, <1>2, EmptySeq
<1>4. Additions(q) = FlattenSeq(parts)
  BY DEF Additions
<1> HIDE DEF parts, A
<1>5. parts \in Seq(Seq(A))
  BY <1>0, <1>3, Built
<1>6. FlattenSeq(parts) \in Seq(A)
  BY <1>5, FlattenProperties
<1> QED
  BY <1>4, <1>6 DEF A

LEMMA ChainedTyped ==
  ASSUME NEW added \in Seq([rule : Range(Rules), half : Halves]), Done \subseteq Identities
  PROVE  Chained(added) \in Seq(TaskRecords)
<1>1. ASSUME NEW rule \in Range(Rules), NEW half \in Halves PROVE RuleId(rule, half) \in Identities
  <2>1. rule.name \in Names
    BY RulesTyped DEF Names
  <2>2. <<half, 0>> \in Nat \X Nat
    BY DEF Halves
  <2> DEFINE last == <<half, 0>>
  <2> HIDE DEF last
  <2>3. <<last>> \in Seq(Nat \X Nat)
    BY <2>2 DEF last
  <2> QED
    BY <2>1, <2>3 DEF RuleId, Identities, last
<1>2. ASSUME NEW rule \in Range(Rules), NEW half \in Halves, NEW deps \in SUBSET Identities
      PROVE  RuleTask(rule, half, deps) \in TaskRecords
  <2>1. Wording(rule, half) \in Texts /\ rule.name \in RuleNames
    BY RulesTyped DEF Texts
  <2> QED
    BY <1>1, <2>1 DEF RuleTask, TaskRecords
<1>3. Len(added) \in Nat /\ \A i \in 1 .. Len(added) : added[i].rule \in Range(Rules) /\ added[i].half \in Halves
  <2>1. \A i \in 1 .. Len(added) : added[i] \in [rule : Range(Rules), half : Halves]
    BY ElementOfSeq
  <2>2. Len(added) \in Nat
    BY LenProperties
  <2> QED
    BY <2>1, <2>2
<1>4. Chained(added) \in [1 .. Len(added) -> TaskRecords]
  <2>1. ASSUME NEW i \in 1 .. Len(added)
        PROVE  (IF i = 1 THEN Done ELSE {RuleId(added[i - 1].rule, added[i - 1].half)}) \in SUBSET Identities
    <3>1. i # 1 => i - 1 \in 1 .. Len(added)
      BY <1>3
    <3> QED
      BY <1>1, <1>3, <3>1
  <2> QED
    BY <1>2, <1>3, <2>1 DEF Chained
<1> QED
  BY <1>3, <1>4, Built

\* A new plan has tasks, and among them every one of the old plan.
LEMMA ReplansTyped ==
  ASSUME queue \in Seq(TaskRecords), Done \subseteq Identities, NEW plan \in Replans
  PROVE  plan \in Seq(TaskRecords) /\ Ids(queue) \subseteq Ids(plan)
<1> DEFINE parts(said) == [i \in 1 .. Len(queue) |-> Revised(queue[i], At(said, queue[i].id, <<{}>>))]
<1>1. PICK said \in Replies : plan = FlattenSeq(parts(said)) \o Chained(Additions(FlattenSeq(parts(said))))
  BY DEF Replans
<1> DEFINE ss == parts(said)
<1> DEFINE new == FlattenSeq(ss)
<1>2. Len(queue) \in Nat /\ \A i \in 1 .. Len(queue) : queue[i] \in TaskRecords
  BY LenProperties, ElementOfSeq
<1>3. \A i \in 1 .. Len(queue) : /\ ss[i] \in Seq(TaskRecords)
                                 /\ \E u \in Range(ss[i]) : u.id = queue[i].id
  <2> TAKE i \in 1 .. Len(queue)
  <2>1. At(said, queue[i].id, <<{}>>) \in Phrasings
    BY ReplyTyped
  <2> QED
    BY <1>2, <2>1, RevisedTyped
<1>4. ss \in [1 .. Len(queue) -> Seq(TaskRecords)]
  BY <1>3
<1> HIDE DEF ss
<1>5. ss \in Seq(Seq(TaskRecords)) /\ Len(ss) = Len(queue)
  BY <1>2, <1>4, Built
<1>6. /\ new \in Seq(TaskRecords)
      /\ \A x : x \in Range(new) <=> \E i \in 1 .. Len(queue) : x \in Range(ss[i])
  BY <1>5, FlattenProperties
<1>7. Chained(Additions(new)) \in Seq(TaskRecords)
  BY AdditionsTyped, ChainedTyped
<1>8. plan = new \o Chained(Additions(new))
  BY <1>1 DEF ss
<1> HIDE DEF new
<1>9. plan \in Seq(TaskRecords) /\ Range(new) \subseteq Range(plan)
  BY <1>6, <1>7, <1>8, ConcatProperties, RangeConcatenation
<1>10. ASSUME NEW i \in 1 .. Len(queue) PROVE queue[i].id \in Ids(plan)
  <2>1. PICK u \in Range(ss[i]) : u.id = queue[i].id
    BY <1>3
  <2>2. u \in Range(plan)
    BY <1>6, <1>9
  <2> QED
    BY <1>9, <2>1, <2>2, IdsOfRange
<1> QED
  BY <1>9, <1>10 DEF Ids

-----------------------------------------------------------------------------
(* Batches.                                                                 *)

TasksTyped == queue \in Seq(TaskRecords) /\ completed \in SUBSET TaskRecords

LEMMA SelectedFacts ==
  ASSUME TasksTyped, depth \in 0 .. MaxDepth
  PROVE  /\ Selected \in Seq(TaskRecords) /\ Len(Selected) \in 0 .. MaxDepth - depth
         /\ \A t \in Range(Selected) : t \in Range(queue) /\ t.deps \subseteq Done
         /\ Range(Running) = {t.id : t \in Range(Selected)}
<1> DEFINE m == AtMost(Len(Ready), AtMost(MaxParallel, MaxDepth - depth))
<1>1. /\ Ready \in Seq(TaskRecords) /\ Len(Ready) \in Nat
      /\ \A t \in Range(Ready) : t \in Range(queue) /\ t.deps \subseteq Done
  <2>1. /\ Ready \in Seq(TaskRecords)
        /\ Range(Ready) = Range(queue) \cap {t \in Range(queue) : t.deps \subseteq Done}
    BY OnlyProperties DEF Ready, TasksTyped
  <2> QED
    BY <2>1, LenProperties
<1>2. m \in 0 .. Len(Ready) /\ m <= MaxDepth - depth /\ m \in Int /\ MaxDepth - depth \in Int
  BY <1>1, LimitsAssumption DEF AtMost
<1>3. Selected = SubSeq(Ready, 1, m)
  BY DEF Selected
<1> HIDE DEF m
<1>4. \A i \in 1 .. m : i \in 1 .. Len(Ready) /\ Ready[i] \in TaskRecords
  BY <1>1, <1>2, ElementOfSeq
<1>5. /\ Selected \in Seq(TaskRecords) /\ Len(Selected) = m
      /\ \A i \in 1 .. m : Selected[i] = Ready[i]
  <2>1. /\ Selected \in Seq(TaskRecords) /\ Len(Selected) = IF 1 <= m THEN m - 1 + 1 ELSE 0
        /\ \A i \in 1 .. m - 1 + 1 : Selected[i] = Ready[1 + i - 1]
    BY <1>2, <1>3, <1>4, SubSeqProperties
  <2> QED
    BY <1>2, <2>1
<1>6. ASSUME NEW t \in Range(Selected) PROVE t \in Range(Ready)
  <2>1. PICK i \in 1 .. m : Selected[i] = t
    BY <1>5, InRange
  <2> QED
    BY <1>1, <1>4, <1>5, <2>1, InRange
<1>7. Range(Running) = {t.id : t \in Range(Selected)}
  <2>1. \A t : t \in Range(Selected) <=> \E i \in 1 .. Len(Selected) : Selected[i] = t
    BY <1>5, InRange
  <2> QED
    BY <2>1 DEF Running, Range
<1> QED
  BY <1>1, <1>2, <1>5, <1>6, <1>7

\* What is supplemented stays the same task.
LEMMA SupplementFacts ==
  ASSUME NEW t \in TaskRecords, NEW said \in SUBSET RuleNames
  PROVE  LET u == Supplement(t, said) IN
         u \in TaskRecords /\ u.id = t.id /\ u.deps = t.deps /\ u.rev = t.rev
<1> DEFINE text  == IF Short(t) THEN "supplemented" ELSE "reworded"
<1> DEFINE words == IF Short(t) THEN said \cup (t.words \cap {t.id[1]}) ELSE said
<1> DEFINE u == [t EXCEPT !.text = text, !.words = words]
<1>1. /\ t = [id |-> t.id, deps |-> t.deps, rev |-> t.rev, text |-> t.text, words |-> t.words]
      /\ t.id \in Identities /\ t.deps \in SUBSET Identities /\ t.rev \in Nat
      /\ t.words \in SUBSET RuleNames
  BY DEF TaskRecords
<1>2. text \in Texts
  BY DEF Texts
<1>3. words \in SUBSET RuleNames
  BY <1>1
<1>4. Supplement(t, said) = IF ~Unsolved(t) THEN t ELSE u
  BY DEF Supplement
<1> HIDE DEF text, words
<1>5. u \in TaskRecords /\ u.id = t.id /\ u.deps = t.deps /\ u.rev = t.rev
  BY <1>1, <1>2, <1>3 DEF TaskRecords
<1> HIDE DEF u
<1> QED
  BY <1>4, <1>5

\* A merge takes the solved tasks out of the queue, rewords some and keeps their order.
LEMMA MergeFacts ==
  ASSUME TasksTyped, Merge
  PROVE  /\ queue' \in Seq(TaskRecords) /\ completed' \in SUBSET TaskRecords
         /\ completed' = completed \cup {t \in Range(queue) : KindOf(t) = "sufficient"}
         /\ \A u \in Range(queue') : \E t \in Range(queue) :
              KindOf(t) # "sufficient" /\ u.id = t.id /\ u.deps = t.deps
         /\ \A t \in Range(queue) : KindOf(t) # "sufficient" =>
              \E u \in Range(queue') : u.id = t.id
<1> DEFINE rest == Only(queue, {t \in Range(queue) : KindOf(t) # "sufficient"})
<1> DEFINE say(said, id) == At(said, id, {})
<1> DEFINE new(said) == [i \in 1 .. Len(rest) |-> Supplement(rest[i], say(said, rest[i].id))]
<1>0. queue \in Seq(TaskRecords) /\ Range(queue) \subseteq TaskRecords
  BY RangeOfSeq DEF TasksTyped
<1>1. /\ rest \in Seq(TaskRecords) /\ Len(rest) \in Nat
      /\ \A t : t \in Range(rest) <=> t \in Range(queue) /\ KindOf(t) # "sufficient"
  <2>1. /\ rest \in Seq(TaskRecords)
        /\ Range(rest) = Range(queue) \cap {t \in Range(queue) : KindOf(t) # "sufficient"}
    BY <1>0, OnlyProperties
  <2> HIDE DEF rest
  <2> QED
    BY <2>1, LenProperties
<1>2. PICK said \in [{t.id : t \in {u \in Range(queue) : Unsolved(u)}} -> SUBSET RuleNames] :
        queue' = new(said)
  BY DEF Merge, Merged
<1>13. completed' = completed \cup {t \in Range(queue) : KindOf(t) = "sufficient"}
  BY DEF Merge, Merged
<1>14. \A id : say(said, id) \in SUBSET RuleNames
  BY <1>2 DEF At
<1> HIDE DEF rest, say
<1>3. ASSUME NEW t \in TaskRecords, NEW words \in SUBSET RuleNames
      PROVE  /\ Supplement(t, words) \in TaskRecords
             /\ Supplement(t, words).id = t.id /\ Supplement(t, words).deps = t.deps
  BY SupplementFacts
<1>4. \A i \in 1 .. Len(rest) : rest[i] \in TaskRecords /\ rest[i] \in Range(rest)
  BY <1>1, ElementOfSeq, InRange
<1> DEFINE now == new(said)
<1>5. /\ now \in [1 .. Len(rest) -> TaskRecords]
      /\ \A i \in 1 .. Len(rest) : now[i] = Supplement(rest[i], say(said, rest[i].id))
  BY <1>3, <1>4, <1>14
<1>12. queue' = now
  BY <1>2
<1> HIDE DEF now
<1>6. now \in Seq(TaskRecords) /\ Len(now) = Len(rest)
  BY <1>1, <1>5, Built
<1>9. \A i \in 1 .. Len(rest) : now[i].id = rest[i].id /\ now[i].deps = rest[i].deps
  BY <1>3, <1>4, <1>5, <1>14
<1>7. ASSUME NEW u \in Range(now)
      PROVE  \E t \in Range(queue) : KindOf(t) # "sufficient" /\ u.id = t.id /\ u.deps = t.deps
  <2>1. PICK i \in 1 .. Len(rest) : now[i] = u
    BY <1>6, InRange
  <2> QED
    BY <1>1, <1>4, <1>9, <2>1
<1>8. ASSUME NEW t \in Range(queue), KindOf(t) # "sufficient" PROVE \E u \in Range(now) : u.id = t.id
  <2>1. PICK i \in 1 .. Len(rest) : rest[i] = t
    BY <1>1, <1>8, InRange
  <2>2. now[i] \in Range(now)
    BY <1>6, InRange
  <2> QED
    BY <1>9, <2>1, <2>2
<1> QED
  BY <1>0, <1>6, <1>7, <1>8, <1>12, <1>13 DEF TasksTyped

-----------------------------------------------------------------------------
(* Types.                                                                   *)

BatchTyped ==
  /\ at \notin {"Merge", "timed_out"} => batch = <<>>
  /\ \A id \in DOMAIN batch : batch[id] \in Outcomes
  /\ \A entry \in ledger : entry.outcome \in Outcomes
  /\ at = "Merge" => Valid(queue, Done) /\ depth < MaxDepth

QuestionOpen == at \notin {"AwaitInput", "asked", "timed_out"} => question = NoTask

GraphInv == TasksTyped /\ GraphTypeOK /\ BatchTyped /\ QuestionOpen

\* The steps that only say where the run goes on.
MoveStep ==
  \/ Greeting \/ Executor \/ BranchExhausted \/ Exhausted \/ AskUser \/ Generate \/ WriteCode
  \/ ExecuteCode \/ InjectResult \/ Cleanup \/ UNCHANGED vars

LEMMA MoveFrame ==
  ASSUME GraphInv, MoveStep
  PROVE  UNCHANGED <<tasks, user, depth, hints, batch, ledger, solved>>
<1>1. CASE Executor
  BY <1>1 DEF Executor, Enter, GraphInv, BatchTyped, OutOfDepth
<1>2. CASE MoveStep /\ ~Executor
  BY <1>2 DEF MoveStep, Greeting, BranchExhausted, Exhausted, AskUser, Generate, WriteCode,
              ExecuteCode, InjectResult, Cleanup, vars
<1> QED
  BY <1>1, <1>2

LEMMA MoveGoes ==
  ASSUME GraphInv, MoveStep
  PROVE  /\ at' \in {"Planner", "Executor", "Merge", "asked", "Replanner", "Generate", "WriteCode",
                     "ExecuteCode", "InjectResult", "Cleanup"} \cup Ended \cup {at}
         /\ at' = "Merge" /\ at # "Merge" => Valid(queue, Done) /\ depth < MaxDepth
         /\ at' = "asked" /\ at # "asked" => at = "AwaitInput"
         /\ at = "Merge" => at' \in {"Merge", "timed_out"}
         /\ at \in {"AwaitInput", "asked"} => at' \in {"AwaitInput", "asked", "timed_out"}
         /\ at \in Ended => at' = at
         /\ steps' \in 0 .. NodeSteps /\ tries' \in 0 .. MaxTries
<1>0. steps \in 0 .. NodeSteps /\ tries \in 0 .. MaxTries /\ NodeSteps \in Nat /\ MaxTries \in Nat
  BY LimitsAssumption DEF GraphInv, GraphTypeOK
<1>1. CASE Executor
  BY <1>0, <1>1 DEF Executor, Enter, Ended, OutOfDepth
<1>2. CASE BranchExhausted \/ Exhausted \/ UNCHANGED vars
  BY <1>0, <1>2 DEF BranchExhausted, Exhausted, Ended, vars
<1>3. CASE Greeting \/ AskUser \/ Generate \/ WriteCode \/ ExecuteCode \/ InjectResult \/ Cleanup
  BY <1>0, <1>3 DEF Greeting, AskUser, Generate, WriteCode, ExecuteCode, InjectResult, Cleanup, Enter, Ended
<1> QED
  BY <1>1, <1>2, <1>3 DEF MoveStep

LEMMA MoveKeeps ==
  ASSUME GraphInv, MoveStep
  PROVE  GraphInv'
<1>1. UNCHANGED <<queue, completed, retry, results, question, scoped, depth, hints, batch, ledger, solved>>
  BY MoveFrame DEF tasks, user
<1>2. Done' = Done /\ Ids(queue)' = Ids(queue) /\ Running' = Running /\ Valid(queue, Done)' = Valid(queue, Done)
  BY <1>1 DEF Done, Ids, Running, Selected, Ready, Valid
<1>3. GraphTypeOK'
  BY <1>1, <1>2, MoveGoes DEF GraphInv, GraphTypeOK, AllIds, Ended
<1>4. TasksTyped' /\ BatchTyped' /\ QuestionOpen'
  BY <1>1, <1>2, MoveGoes DEF GraphInv, TasksTyped, BatchTyped, QuestionOpen, Ended
<1> QED
  BY <1>3, <1>4 DEF GraphInv

LEMMA GraphStarts == Init => GraphInv
<1> SUFFICES ASSUME Init PROVE GraphInv
  OBVIOUS
<1>1. TasksTyped
  BY EmptySeq DEF Init, TasksTyped
<1>2. GraphTypeOK
  BY LimitsAssumption DEF Init, GraphTypeOK, AllIds, Ids, Done, Ended
<1> QED
  BY <1>1, <1>2 DEF Init, GraphInv, BatchTyped, QuestionOpen

LEMMA PlannerKeeps ==
  ASSUME GraphInv, Planner
  PROVE  GraphInv'
<1>1. /\ queue' \in Seq(TaskRecords) /\ UNCHANGED <<completed, results, question, depth, hints, batch, ledger, tries>>
      /\ at = "Planner" /\ at' \in {"Executor", "refused"} /\ steps' \in 0 .. NodeSteps
  BY PlansTyped, LimitsAssumption DEF Planner, Enter, user, GraphInv, GraphTypeOK, TasksTyped
<1>2. Done' = Done /\ batch = <<>> /\ question = NoTask
  BY <1>1 DEF Done, GraphInv, BatchTyped, QuestionOpen
<1>3. GraphTypeOK'
  BY <1>1, <1>2 DEF GraphInv, GraphTypeOK, Ended
<1> QED
  BY <1>1, <1>2, <1>3 DEF GraphInv, TasksTyped, BatchTyped, QuestionOpen

\* What a branch may do: take over what is recorded, or record what was found.
LEMMA BranchFacts ==
  ASSUME GraphInv, NEW t, Branch(t)
  PROVE  \E o \in Outcomes :
           /\ DOMAIN batch' = DOMAIN batch \cup {t.id} /\ batch'[t.id] = o
           /\ \A id \in DOMAIN batch : id # t.id => batch'[id] = batch[id]
           /\ \/ /\ [key |-> Key(t), outcome |-> o] \in {[key |-> e.key, outcome |-> e.outcome] : e \in ledger}
                 /\ UNCHANGED <<ledger, steps, solved>>
              \/ /\ \A entry \in ledger : entry.key # Key(t)
                 /\ steps < NodeSteps /\ steps' = steps + 1
                 /\ ledger' = ledger \cup {[key |-> Key(t), outcome |-> o]}
                 /\ solved' = [id \in DOMAIN solved \cup {t.id} |->
                      At(solved, id, 0) + IF id = t.id /\ o.kind = "sufficient" THEN 1 ELSE 0]
<1>1. ASSUME NEW entry \in ledger, entry.key = Key(t), UNCHANGED <<ledger, steps, solved>>,
             batch' = [id \in DOMAIN batch \cup {t.id} |-> IF id = t.id THEN entry.outcome ELSE batch[id]]
      PROVE  \E o \in Outcomes :
               /\ DOMAIN batch' = DOMAIN batch \cup {t.id} /\ batch'[t.id] = o
               /\ \A id \in DOMAIN batch : id # t.id => batch'[id] = batch[id]
               /\ [key |-> Key(t), outcome |-> o] \in {[key |-> e.key, outcome |-> e.outcome] : e \in ledger}
  <2>1. entry.outcome \in Outcomes
    BY DEF GraphInv, BatchTyped
  <2> QED
    BY <1>1, <2>1
<1>2. ASSUME NEW o \in Outcomes,
             batch' = [id \in DOMAIN batch \cup {t.id} |-> IF id = t.id THEN o ELSE batch[id]]
      PROVE  /\ DOMAIN batch' = DOMAIN batch \cup {t.id} /\ batch'[t.id] = o
             /\ \A id \in DOMAIN batch : id # t.id => batch'[id] = batch[id]
  BY <1>2
<1> QED
  BY <1>1, <1>2 DEF Branch

LEMMA RunBranchKeeps ==
  ASSUME GraphInv, RunBranch
  PROVE  GraphInv'
<1>0. PICK t \in Range(Selected) : t.id \notin DOMAIN batch /\ Branch(t)
  BY DEF RunBranch
<1>1. /\ at = "Merge" /\ UNCHANGED <<at, queue, completed, results, question, depth, hints, tries>>
  BY DEF RunBranch, tasks, user
<1>2. PICK o \in Outcomes :
        /\ DOMAIN batch' = DOMAIN batch \cup {t.id} /\ batch'[t.id] = o
        /\ \A id \in DOMAIN batch : id # t.id => batch'[id] = batch[id]
        /\ \/ UNCHANGED <<ledger, steps>>
           \/ /\ steps < NodeSteps /\ steps' = steps + 1
              /\ ledger' = ledger \cup {[key |-> Key(t), outcome |-> o]}
  BY <1>0, BranchFacts
<1>3. Done' = Done /\ Ids(queue)' = Ids(queue) /\ Running' = Running /\ Valid(queue, Done)' = Valid(queue, Done)
  BY <1>1 DEF Done, Ids, Running, Selected, Ready, Valid
<1>4. t.id \in Range(Running)
  BY SelectedFacts DEF GraphInv, GraphTypeOK
<1>5. steps' \in 0 .. NodeSteps
  BY <1>2, LimitsAssumption DEF GraphInv, GraphTypeOK
<1>6. GraphTypeOK'
  BY <1>1, <1>2, <1>3, <1>4, <1>5 DEF GraphInv, GraphTypeOK, AllIds
<1>7. BatchTyped'
  BY <1>1, <1>2, <1>3 DEF GraphInv, BatchTyped
<1> QED
  BY <1>1, <1>6, <1>7 DEF GraphInv, TasksTyped, QuestionOpen

LEMMA MergeKeeps ==
  ASSUME GraphInv, Merge
  PROVE  GraphInv'
<1> DEFINE done == {t.id : t \in Merged.done}
<1>1. /\ queue \in Seq(TaskRecords) /\ queue' \in Seq(TaskRecords) /\ TasksTyped'
      /\ completed' = completed \cup Merged.done
      /\ \A t \in Range(queue) : KindOf(t) # "sufficient" => \E u \in Range(queue') : u.id = t.id
  BY MergeFacts DEF GraphInv, TasksTyped, Merged
<1>2. /\ at = "Merge" /\ depth' = depth + Len(Selected) /\ batch' = <<>>
      /\ DOMAIN results' = DOMAIN results \cup done
      /\ at' = (IF Asking = <<>> THEN "Replanner" ELSE "AwaitInput")
      /\ question' = (IF Asking = <<>> THEN NoTask ELSE Head(Asking).id)
      /\ UNCHANGED <<tries, steps>>
      /\ hints' = hints \cup UNION {batch[id].hints : id \in {i \in DOMAIN batch : batch[i].kind # "ask"}}
      /\ ledger' \subseteq ledger
  BY DEF Merge
<1>3. Done' = Done \cup done
  BY <1>1 DEF Done
<1>4. depth' \in 0 .. MaxDepth
  <2>1. depth \in 0 .. MaxDepth /\ Len(Selected) \in 0 .. MaxDepth - depth /\ MaxDepth \in Nat
    BY SelectedFacts, LimitsAssumption DEF GraphInv, GraphTypeOK
  <2> QED
    BY <1>2, <2>1
<1>5. hints' \subseteq RuleNames
  BY <1>2 DEF GraphInv, GraphTypeOK, BatchTyped, Outcomes
<1>6. ASSUME Asking # <<>> PROVE Head(Asking).id \in Ids(queue)' /\ Head(Asking).id # NoTask
  <2>1. /\ Asking \in Seq(TaskRecords)
        /\ Range(Asking) = Range(queue) \cap {t \in Range(queue) : KindOf(t) = "ask"}
    BY <1>1, OnlyProperties DEF Asking
  <2>2. Head(Asking) \in Range(Asking)
    <3> HIDE DEF Asking
    <3>1. 1 \in 1 .. Len(Asking) /\ Head(Asking) = Asking[1]
      BY <1>6, <2>1, EmptySeq
    <3> QED
      BY <2>1, <3>1, InRange
  <2>3. Head(Asking) \in Range(queue) /\ KindOf(Head(Asking)) # "sufficient" /\ Head(Asking) \in TaskRecords
    BY <1>1, <2>1, <2>2, RangeOfSeq
  <2>4. Head(Asking).id \in Ids(queue')
    BY <1>1, <2>3, IdsOfRange
  <2> QED
    BY <2>3, <2>4, NoTaskAssumption DEF Ids, TaskRecords
<1>7. GraphTypeOK'
  <2>1. DOMAIN batch' = {} /\ DOMAIN results' = Done'
    BY <1>2, <1>3 DEF GraphInv, GraphTypeOK
  <2>2. question' \in AllIds' \cup {NoTask} /\ (at' \in {"AwaitInput", "asked"} => question' # NoTask)
    BY <1>2, <1>6 DEF AllIds
  <2>3. steps' \in 0 .. NodeSteps /\ tries' \in 0 .. MaxTries
    BY <1>2 DEF GraphInv, GraphTypeOK
  <2> QED
    BY <1>2, <1>4, <1>5, <2>1, <2>2, <2>3 DEF GraphTypeOK
<1>8. BatchTyped' /\ QuestionOpen'
  BY <1>2 DEF GraphInv, BatchTyped, QuestionOpen
<1> QED
  BY <1>1, <1>7, <1>8 DEF GraphInv

LEMMA AnswerKeeps ==
  ASSUME GraphInv, Answer
  PROVE  GraphInv'
<1>1. /\ UNCHANGED <<queue, completed, results, depth, hints, batch, ledger, tries>> /\ question' = NoTask
      /\ at = "asked" /\ at' = "Executor" /\ steps' \in 0 .. NodeSteps
  BY LimitsAssumption DEF Answer, Enter, tasks, GraphInv, GraphTypeOK
<1>2. Done' = Done /\ batch = <<>>
  BY <1>1 DEF Done, GraphInv, BatchTyped
<1>3. GraphTypeOK'
  BY <1>1, <1>2 DEF GraphInv, GraphTypeOK
<1> QED
  BY <1>1, <1>2, <1>3 DEF GraphInv, TasksTyped, BatchTyped, QuestionOpen

LEMMA ReplannerKeeps ==
  ASSUME GraphInv, Replanner
  PROVE  GraphInv'
<1>0. Done \subseteq Identities
  BY DEF GraphInv, TasksTyped, Done, TaskRecords
<1>1. /\ UNCHANGED <<completed, results, question, depth, hints, batch, ledger, tries>>
      /\ at = "Replanner" /\ at' \in {"Generate", "Executor", "invalid"} /\ steps' \in 0 .. NodeSteps
  BY LimitsAssumption DEF Replanner, Enter, user, GraphInv, GraphTypeOK
<1>2. queue' \in Seq(TaskRecords)
  BY <1>0, ReplansTyped, EmptySeq DEF Replanner, GraphInv, TasksTyped
<1>3. Done' = Done /\ batch = <<>> /\ question = NoTask
  BY <1>1 DEF Done, GraphInv, BatchTyped, QuestionOpen
<1>4. GraphTypeOK'
  BY <1>1, <1>3 DEF GraphInv, GraphTypeOK, Ended
<1> QED
  BY <1>1, <1>2, <1>3, <1>4 DEF GraphInv, TasksTyped, BatchTyped, QuestionOpen

LEMMA InterruptKeeps ==
  ASSUME GraphInv, Interrupt
  PROVE  GraphInv'
<1>1. /\ UNCHANGED <<queue, completed, results, question, depth, hints, ledger, tries>>
      /\ at = "Merge" /\ at' = "Executor" /\ batch' = <<>>
  BY DEF Interrupt, tasks, user
<1>2. Done' = Done /\ Ids(queue)' = Ids(queue) /\ question = NoTask
  BY <1>1 DEF Done, Ids, GraphInv, QuestionOpen
<1>3. steps' \in 0 .. NodeSteps
  <2>1. PICK begun \in 0 .. Len(Selected) - Cardinality(DOMAIN batch) : steps' = AtMost(steps + begun, NodeSteps)
    BY DEF Interrupt
  <2>2. begun \in Nat /\ steps \in Nat /\ NodeSteps \in Nat
    BY LimitsAssumption DEF GraphInv, GraphTypeOK
  <2> QED
    BY <2>1, <2>2 DEF AtMost
<1>4. GraphTypeOK'
  BY <1>1, <1>2, <1>3 DEF GraphInv, GraphTypeOK
<1> QED
  BY <1>1, <1>2, <1>4 DEF GraphInv, TasksTyped, BatchTyped, QuestionOpen

LEMMA NextSteps ==
  ASSUME [Next]_vars
  PROVE  MoveStep \/ Planner \/ RunBranch \/ Merge \/ Answer \/ Replanner \/ Interrupt
  BY DEF Next, Progress, MoveStep

LEMMA GraphNext == GraphInv /\ [Next]_vars => GraphInv'
  BY NextSteps, MoveKeeps, PlannerKeeps, RunBranchKeeps, MergeKeeps, AnswerKeeps, ReplannerKeeps, InterruptKeeps

LEMMA GraphInvariant == Spec => []GraphInv
  BY GraphStarts, GraphNext, PTL DEF Spec

\* Every variable stays in its range: the passes within their limit, however large a batch
\* is, and the question one of a task of the plan.
THEOREM GraphTyped == Spec => []GraphTypeOK
<1>1. GraphInv => GraphTypeOK
  BY DEF GraphInv
<1> QED
  BY <1>1, GraphInvariant, PTL

-----------------------------------------------------------------------------
(* Tasks are solved once.                                                   *)

\* What is found sufficient is merged, or it is in the ledger under the key its task has now.
Kept(id) == \E t \in Range(Selected) : t.id = id /\ \E entry \in ledger :
              entry.key = Key(t) /\ entry.outcome.kind = "sufficient"

Recorded(t) == \E entry \in ledger : entry.key = Key(t) /\ entry.outcome = batch[t.id]

SolvedInv ==
  /\ \A id \in DOMAIN solved : solved[id] \in {0, 1}
  /\ \A id \in DOMAIN solved : solved[id] = 1 =>
       id \in Done \/ at \in Ended \/ (at \in {"Executor", "Merge"} /\ Kept(id))
  /\ \A e \in ledger, f \in ledger : e.key = f.key => e.outcome = f.outcome
  /\ at = "Merge" => \A t \in Range(Selected) : t.id \in DOMAIN batch => Recorded(t)

\* Two selected tasks have two identities.
LEMMA SelectedUnique ==
  ASSUME TasksTyped, depth \in 0 .. MaxDepth, Valid(queue, Done)
  PROVE  /\ \A t \in Range(queue) : t.id \notin Done
         /\ \A t \in Range(queue), u \in Range(queue) : t.id = u.id => t = u
         /\ \A t \in Range(queue) : t.id \in Range(Running) => t \in Range(Selected)
<1>1. \A t \in Range(queue) : t.id \notin Done
  BY IdsOfRange DEF Valid, TasksTyped
<1>2. \A t \in Range(queue), u \in Range(queue) : t.id = u.id => t = u
  BY UniqueIds DEF Valid, TasksTyped
<1> QED
  BY <1>1, <1>2, SelectedFacts

LEMMA SolvedFrame ==
  ASSUME UNCHANGED <<queue, completed, depth, scoped, results, retry>>
  PROVE  Selected' = Selected /\ Done' = Done /\ \A t : Key(t)' = Key(t)
  BY DEF Selected, Ready, Done, Key, FactsFor

LEMMA SolvedMoves ==
  ASSUME GraphInv, SolvedInv, MoveStep
  PROVE  SolvedInv'
<1>1. UNCHANGED <<queue, completed, retry, results, scoped, depth, batch, ledger, solved>>
  BY MoveFrame DEF tasks, user
<1>2. Selected' = Selected /\ Done' = Done /\ \A t : Key(t)' = Key(t)
  BY <1>1, SolvedFrame
<1>3. /\ \A id : Kept(id)' <=> Kept(id)
      /\ \A t : Recorded(t)' <=> Recorded(t)
  BY <1>1, <1>2 DEF Kept, Recorded
<1>4. ASSUME at = "Executor", at' = "Replanner" PROVE \A id : ~Kept(id)
  <2>1. depth >= MaxDepth
    BY <1>4 DEF MoveStep, Greeting, Executor, BranchExhausted, Exhausted, AskUser, Generate, WriteCode,
                ExecuteCode, InjectResult, Cleanup, Enter, vars, OutOfDepth
  <2>2. Len(Selected) \in 0 .. MaxDepth - depth /\ Selected \in Seq(TaskRecords)
    BY SelectedFacts DEF GraphInv, GraphTypeOK
  <2>3. Len(Selected) = 0
    BY <2>1, <2>2, LimitsAssumption DEF GraphInv, GraphTypeOK
  <2> QED
    BY <2>2, <2>3, EmptySeq, RangeOfEmpty DEF Kept
<1>5. /\ at = "Executor" => at' \in {"Executor", "Merge", "Replanner"} \cup Ended
      /\ at = "Merge" => at' \in {"Merge", "timed_out"}
      /\ at \in Ended => at' = at
  <2>1. CASE Executor
    BY <2>1, MoveGoes DEF Executor, Enter, Ended, OutOfDepth
  <2>2. CASE MoveStep /\ ~Executor
    BY <2>2, MoveGoes DEF MoveStep, Greeting, BranchExhausted, Exhausted, AskUser, Generate, WriteCode,
                ExecuteCode, InjectResult, Cleanup, Enter, vars, Ended
  <2> QED
    BY <2>1, <2>2
<1>6. ASSUME NEW id \in DOMAIN solved, solved[id] = 1
      PROVE  id \in Done \/ at' \in Ended \/ (at' \in {"Executor", "Merge"} /\ Kept(id))
  BY <1>4, <1>5, <1>6 DEF SolvedInv, Ended
<1>7. ASSUME at' = "Merge", NEW t \in Range(Selected), t.id \in DOMAIN batch PROVE Recorded(t)
  <2>1. at = "Merge"
    BY <1>5, <1>7 DEF GraphInv, BatchTyped, Ended
  <2> QED
    BY <1>7, <2>1 DEF SolvedInv
<1> QED
  BY <1>1, <1>2, <1>3, <1>6, <1>7 DEF SolvedInv

LEMMA SolvedBranches ==
  ASSUME GraphInv, SolvedInv, RunBranch
  PROVE  SolvedInv'
<1>0. PICK t \in Range(Selected) : t.id \notin DOMAIN batch /\ Branch(t)
  BY DEF RunBranch
<1>1. at = "Merge" /\ UNCHANGED <<at, queue, completed, retry, results, scoped, depth>>
  BY DEF RunBranch, tasks, user
<1>2. Selected' = Selected /\ Done' = Done /\ \A u : Key(u)' = Key(u)
  BY <1>1, SolvedFrame
<1>3. PICK o \in Outcomes :
        /\ DOMAIN batch' = DOMAIN batch \cup {t.id} /\ batch'[t.id] = o
        /\ \A id \in DOMAIN batch : id # t.id => batch'[id] = batch[id]
        /\ \/ /\ [key |-> Key(t), outcome |-> o] \in {[key |-> e.key, outcome |-> e.outcome] : e \in ledger}
              /\ UNCHANGED <<ledger, steps, solved>>
           \/ /\ \A entry \in ledger : entry.key # Key(t)
              /\ steps < NodeSteps /\ steps' = steps + 1
              /\ ledger' = ledger \cup {[key |-> Key(t), outcome |-> o]}
              /\ solved' = [id \in DOMAIN solved \cup {t.id} |->
                   At(solved, id, 0) + IF id = t.id /\ o.kind = "sufficient" THEN 1 ELSE 0]
  BY <1>0, BranchFacts
<1>4. /\ Range(Selected) \subseteq Range(queue) /\ \A u \in Range(queue) : u.id \notin Done
      /\ \A u \in Range(queue), v \in Range(queue) : u.id = v.id => u = v
  BY <1>1, SelectedFacts, SelectedUnique DEF GraphInv, GraphTypeOK, BatchTyped
<1>5. /\ ledger \subseteq ledger'
      /\ \E entry \in ledger' : entry.key = Key(t) /\ entry.outcome = o
  <2>1. CASE ledger' = ledger \cup {[key |-> Key(t), outcome |-> o]}
    <3> DEFINE new == [key |-> Key(t), outcome |-> o]
    <3>1. new.key = Key(t) /\ new.outcome = o /\ new \in ledger'
      BY <2>1
    <3> HIDE DEF new
    <3> QED
      BY <2>1, <3>1
  <2>2. CASE ledger' = ledger /\ [key |-> Key(t), outcome |-> o] \in {[key |-> e.key, outcome |-> e.outcome] : e \in ledger}
    <3>1. PICK e \in ledger : [key |-> Key(t), outcome |-> o] = [key |-> e.key, outcome |-> e.outcome]
      BY <2>2
    <3>2. e.key = Key(t) /\ e.outcome = o
      BY <3>1
    <3> QED
      BY <2>2, <3>2
  <2> QED
    BY <1>3, <2>1, <2>2
<1>6. ASSUME NEW u \in Range(Selected), u.id \in DOMAIN batch' PROVE Recorded(u)'
  <2>1. CASE u.id = t.id
    <3>1. u = t /\ batch'[u.id] = o
      BY <1>0, <1>3, <1>4, <2>1
    <3> QED
      BY <1>2, <1>5, <3>1 DEF Recorded
  <2>2. CASE u.id # t.id
    <3>1. u.id \in DOMAIN batch /\ batch'[u.id] = batch[u.id]
      BY <1>3, <1>6, <2>2
    <3>2. Recorded(u)
      BY <1>1, <3>1 DEF SolvedInv
    <3> QED
      BY <1>2, <1>5, <3>1, <3>2 DEF Recorded
  <2> QED
    BY <2>1, <2>2
<1>7. \A id : Kept(id) => Kept(id)'
  BY <1>2, <1>5 DEF Kept
<1>8. \A e \in ledger', f \in ledger' : e.key = f.key => e.outcome = f.outcome
  BY <1>3 DEF SolvedInv
<1>9. CASE UNCHANGED solved
  BY <1>1, <1>2, <1>6, <1>7, <1>8, <1>9 DEF SolvedInv
<1>10. CASE /\ \A entry \in ledger : entry.key # Key(t)
            /\ ledger' = ledger \cup {[key |-> Key(t), outcome |-> o]}
            /\ solved' = [id \in DOMAIN solved \cup {t.id} |->
                 At(solved, id, 0) + IF id = t.id /\ o.kind = "sufficient" THEN 1 ELSE 0]
  <2>1. ASSUME NEW id \in DOMAIN solved, id = t.id PROVE solved[id] = 0
    <3>1. ASSUME Kept(id) PROVE FALSE
      <4>1. PICK u \in Range(Selected), entry \in ledger : u.id = id /\ entry.key = Key(u)
        BY <3>1 DEF Kept
      <4> QED
        BY <1>4, <1>10, <2>1, <4>1
    <3>2. id \notin Done
      BY <1>4, <2>1
    <3> QED
      BY <1>1, <3>1, <3>2 DEF SolvedInv, Ended
  <2>2. ASSUME NEW id \in DOMAIN solved, id # t.id PROVE solved'[id] = solved[id] /\ solved[id] \in {0, 1}
    <3>1. solved'[id] = solved[id] + 0 /\ solved[id] \in {0, 1}
      BY <1>10, <2>2 DEF At, SolvedInv
    <3> QED
      BY <3>1
  <2>3. solved'[t.id] = IF o.kind = "sufficient" THEN 1 ELSE 0
    <3>1. At(solved, t.id, 0) = 0
      BY <2>1 DEF At
    <3> QED
      BY <1>10, <3>1
  <2>4. o.kind = "sufficient" => Kept(t.id)'
    BY <1>0, <1>2, <1>5 DEF Kept
  <2>5. DOMAIN solved' = DOMAIN solved \cup {t.id}
    BY <1>10
  <2>6. ASSUME NEW id \in DOMAIN solved'
        PROVE  /\ solved'[id] \in {0, 1}
               /\ solved'[id] = 1 => id \in Done' \/ Kept(id)'
    <3>1. CASE id = t.id
      BY <2>3, <2>4, <3>1
    <3>2. CASE id # t.id
      BY <1>1, <1>2, <1>7, <2>2, <2>5, <3>2 DEF SolvedInv, Ended
    <3> QED
      BY <3>1, <3>2
  <2> QED
    BY <1>1, <1>2, <1>6, <1>8, <2>6 DEF SolvedInv
<1> QED
  BY <1>3, <1>9, <1>10

LEMMA SolvedMerges ==
  ASSUME GraphInv, SolvedInv, Merge
  PROVE  SolvedInv'
<1>1. /\ at = "Merge" /\ DOMAIN batch = Range(Running) /\ UNCHANGED solved
      /\ ledger' \subseteq ledger /\ at' \in {"Replanner", "AwaitInput"}
  BY DEF Merge
<1>2. completed' = completed \cup {t \in Range(queue) : KindOf(t) = "sufficient"}
  BY MergeFacts DEF GraphInv
<1>3. ASSUME NEW id, Kept(id) PROVE id \in Done'
  <2>1. PICK t \in Range(Selected), entry \in ledger :
          t.id = id /\ entry.key = Key(t) /\ entry.outcome.kind = "sufficient"
    BY <1>3 DEF Kept
  <2>2. t \in Range(queue) /\ t.id \in DOMAIN batch
    BY <1>1, SelectedFacts DEF GraphInv, GraphTypeOK
  <2>3. Recorded(t)
    BY <1>1, <2>2 DEF SolvedInv
  <2>4. batch[t.id].kind = "sufficient"
    BY <2>1, <2>3 DEF SolvedInv, Recorded
  <2>5. t \in completed'
    BY <1>2, <2>2, <2>4 DEF KindOf
  <2> QED
    BY <2>1, <2>5 DEF Done
<1>4. Done \subseteq Done'
  BY <1>2 DEF Done
<1> QED
  BY <1>1, <1>3, <1>4 DEF SolvedInv, Ended

\* Between a merge and the next batch everything solved is done.
LEMMA SolvedElsewhere ==
  ASSUME GraphInv, SolvedInv, Planner \/ Answer \/ Replanner
  PROVE  SolvedInv'
<1>1. /\ at \notin Ended \cup {"Executor", "Merge"} /\ at' # "Merge"
      /\ UNCHANGED <<completed, ledger, solved>>
  BY DEF Planner, Answer, Replanner, Enter, Ended, tasks
<1> QED
  BY <1>1 DEF SolvedInv, Done

LEMMA SolvedInterrupts ==
  ASSUME GraphInv, SolvedInv, Interrupt
  PROVE  SolvedInv'
<1>1. /\ UNCHANGED <<queue, completed, retry, results, scoped, depth, ledger, solved>>
      /\ at = "Merge" /\ at' = "Executor"
  BY DEF Interrupt, tasks, user
<1>2. Selected' = Selected /\ Done' = Done /\ \A t : Key(t)' = Key(t)
  BY <1>1, SolvedFrame
<1>3. \A id : Kept(id)' <=> Kept(id)
  BY <1>1, <1>2 DEF Kept
<1> QED
  BY <1>1, <1>2, <1>3 DEF SolvedInv, Ended

LEMMA SolvedNext == GraphInv /\ SolvedInv /\ [Next]_vars => SolvedInv'
  BY NextSteps, SolvedMoves, SolvedBranches, SolvedMerges, SolvedElsewhere, SolvedInterrupts

\* A task that was solved is never given to the Reasoner again, in batches of any size and
\* whatever is interrupted between a record and its merge.
THEOREM TasksAreSolvedOnce == Spec => []SolvedOnce
<1>1. Init => SolvedInv
  BY DEF Init, SolvedInv, Ended
<1>2. SolvedInv => SolvedOnce
  BY DEF SolvedInv, SolvedOnce
<1> QED
  BY <1>1, <1>2, GraphInvariant, SolvedNext, PTL DEF Spec

-----------------------------------------------------------------------------
(* Nothing is left out.                                                     *)

Reporting == {"Generate", "WriteCode", "ExecuteCode", "InjectResult", "Cleanup", "succeeded"}

\* Nobody lost a task of the plan, unless the run was stopped.
PlanCovered == \E p \in Plans : Ids(p) \subseteq AllIds

NothingLeft == depth = 0 \/ \E p \in Plans : Ids(p) \subseteq Done

WholeInv ==
  /\ stop => failing
  /\ at = "succeeded" => ~failing
  /\ at \in {"L0_Gateway", "Planner"} =>
       queue = <<>> /\ DOMAIN retry = {} /\ DOMAIN scoped = {} /\ depth = 0
  /\ at \in Reporting => queue = <<>>
  /\ ~stop => DOMAIN retry \subseteq Ids(queue) /\ DOMAIN scoped \subseteq AllIds
  /\ ~stop /\ at \in {"Executor", "Merge", "AwaitInput", "asked", "Replanner"} => PlanCovered
  /\ ~stop /\ at \in Reporting => NothingLeft

\* Steps on the spot and the steps of the report.
LEMMA WholeMoves ==
  ASSUME GraphInv, WholeInv, MoveStep
  PROVE  WholeInv'
<1>1. UNCHANGED <<queue, completed, retry, scoped, depth>>
  BY MoveFrame DEF tasks, user
<1>2. Ids(queue)' = Ids(queue) /\ Done' = Done /\ AllIds' = AllIds
  BY <1>1 DEF Ids, Done, AllIds
<1>3. (PlanCovered' <=> PlanCovered) /\ (NothingLeft' <=> NothingLeft)
  BY <1>1, <1>2 DEF PlanCovered, NothingLeft, Ids
<1>4. CASE Executor
  <2>1. /\ at = "Executor" /\ at' \in {"invalid", "Replanner", "Merge"}
        /\ (stop' = stop /\ failing' = failing) \/ (stop' /\ failing')
    BY <1>4 DEF Executor, Enter, OutOfDepth
  <2> QED
    BY <1>1, <1>2, <1>3, <2>1 DEF WholeInv, Reporting
<1>5. CASE Greeting
  <2>1. at = "L0_Gateway" /\ at' \in {"Planner", "Generate", "refused"} /\ UNCHANGED <<stop, failing>>
    BY <1>5 DEF Greeting, Enter
  <2> QED
    BY <1>1, <1>2, <1>3, <2>1 DEF WholeInv, Reporting, NothingLeft
<1>6. CASE ExecuteCode
  <2>1. /\ at = "ExecuteCode" /\ at' \in {"WriteCode", "InjectResult"} /\ UNCHANGED stop
        /\ failing => failing'
    BY <1>6 DEF ExecuteCode, Enter
  <2> QED
    BY <1>1, <1>2, <1>3, <2>1 DEF WholeInv, Reporting
<1>7. CASE AskUser \/ Exhausted \/ BranchExhausted \/ UNCHANGED vars
  <2>1. /\ UNCHANGED <<stop, failing>>
        /\ at' \in {at, "timed_out"} \/ (at = "AwaitInput" /\ at' = "asked")
    BY <1>7 DEF AskUser, Exhausted, BranchExhausted, Enter, vars
  <2> QED
    BY <1>1, <1>2, <1>3, <2>1 DEF WholeInv, Reporting
<1>8. CASE Generate \/ WriteCode \/ InjectResult \/ Cleanup
  <2>1. /\ UNCHANGED <<stop, failing>> /\ at' \in Reporting \cup {"failed"}
        /\ at \in Reporting
        /\ at' = "succeeded" => ~failing
    BY <1>8 DEF Generate, WriteCode, InjectResult, Cleanup, Enter, Reporting
  <2>2. at' \notin {"L0_Gateway", "Planner", "Executor", "Merge", "AwaitInput", "asked", "Replanner"}
    BY <2>1 DEF Reporting
  <2> QED
    BY <1>1, <1>2, <1>3, <2>1, <2>2 DEF WholeInv
<1> QED
  BY <1>4, <1>5, <1>6, <1>7, <1>8 DEF MoveStep

LEMMA WholePlanner ==
  ASSUME GraphInv, WholeInv, Planner
  PROVE  WholeInv'
<1>1. /\ at = "Planner" /\ UNCHANGED <<completed, retry, scoped, depth, stop, failing>>
      /\ (at' = "Executor" /\ queue' \in Plans) \/ at' = "refused"
  BY DEF Planner, Enter, user
<1>2. at' = "Executor" => PlanCovered'
  BY <1>1 DEF PlanCovered, AllIds, Ids, Plans
<1> QED
  BY <1>1, <1>2 DEF WholeInv, Reporting

LEMMA WholeBranches ==
  ASSUME GraphInv, WholeInv, RunBranch \/ Interrupt
  PROVE  WholeInv'
<1>1. /\ at = "Merge" /\ at' \in {"Merge", "Executor"}
      /\ UNCHANGED <<queue, completed, retry, scoped, depth, stop, failing>>
  BY DEF RunBranch, Interrupt, tasks, user
<1>2. Ids(queue)' = Ids(queue) /\ AllIds' = AllIds /\ (PlanCovered' <=> PlanCovered)
  BY <1>1 DEF Ids, Done, AllIds, PlanCovered
<1> QED
  BY <1>1, <1>2 DEF WholeInv, Reporting

\* A merge moves tasks from the queue to the completed ones and loses none.
LEMMA MergeMoves ==
  ASSUME TasksTyped, Merge
  PROVE  /\ AllIds \subseteq AllIds'
         /\ \A id \in Ids(queue) :
              id \in Ids(queue)' \/ \E t \in Range(queue) : t.id = id /\ KindOf(t) = "sufficient"
<1>1. /\ queue \in Seq(TaskRecords) /\ queue' \in Seq(TaskRecords)
      /\ completed' = completed \cup {t \in Range(queue) : KindOf(t) = "sufficient"}
      /\ \A t \in Range(queue) : KindOf(t) # "sufficient" => \E u \in Range(queue') : u.id = t.id
  BY MergeFacts DEF TasksTyped
<1>2. ASSUME NEW id \in Ids(queue)
      PROVE  id \in Ids(queue)' \/ \E t \in Range(queue) : t.id = id /\ KindOf(t) = "sufficient"
  <2>1. PICK t \in Range(queue) : t.id = id
    BY <1>1, <1>2, IdsOfRange
  <2>2. KindOf(t) # "sufficient" => id \in Ids(queue')
    BY <1>1, <2>1, IdsOfRange
  <2> QED
    BY <2>1, <2>2 DEF Ids
<1>3. \A t \in Range(queue) : KindOf(t) = "sufficient" => t.id \in Done'
  BY <1>1 DEF Done
<1>4. Done \subseteq Done'
  BY <1>1 DEF Done
<1> QED
  BY <1>2, <1>3, <1>4 DEF AllIds

LEMMA WholeMerges ==
  ASSUME GraphInv, WholeInv, Merge
  PROVE  WholeInv'
<1>1. /\ at = "Merge" /\ at' \in {"Replanner", "AwaitInput"} /\ UNCHANGED <<scoped, stop, failing>>
      /\ DOMAIN retry' = (DOMAIN retry \ {t.id : t \in {u \in Range(queue) : KindOf(u) = "sufficient"}})
                           \cup {t.id : t \in {u \in Range(queue) : Unsolved(u)}}
  BY DEF Merge, Merged
<1>2. /\ queue \in Seq(TaskRecords) /\ queue' \in Seq(TaskRecords)
      /\ \A t \in Range(queue) : KindOf(t) # "sufficient" => \E u \in Range(queue') : u.id = t.id
      /\ AllIds \subseteq AllIds'
      /\ \A id \in Ids(queue) :
           id \in Ids(queue)' \/ \E t \in Range(queue) : t.id = id /\ KindOf(t) = "sufficient"
  BY MergeFacts, MergeMoves DEF GraphInv, TasksTyped
<1>3. ASSUME ~stop PROVE DOMAIN retry' \subseteq Ids(queue)'
  <2>1. ASSUME NEW id \in DOMAIN retry, id \notin {t.id : t \in {u \in Range(queue) : KindOf(u) = "sufficient"}}
        PROVE  id \in Ids(queue)'
    <3>1. id \in Ids(queue)
      BY <1>3 DEF WholeInv
    <3> QED
      BY <1>2, <2>1, <3>1
  <2>2. ASSUME NEW t \in Range(queue), Unsolved(t) PROVE t.id \in Ids(queue)'
    <3>1. KindOf(t) # "sufficient"
      BY <2>2 DEF Unsolved
    <3>2. t.id \in Ids(queue')
      BY <1>2, <3>1, IdsOfRange
    <3> QED
      BY <3>2 DEF Ids
  <2> QED
    BY <1>1, <2>1, <2>2
<1>4. PlanCovered => PlanCovered'
  BY <1>2 DEF PlanCovered, Plans
<1> QED
  BY <1>1, <1>2, <1>3, <1>4 DEF WholeInv, Reporting

LEMMA WholeAnswers ==
  ASSUME GraphInv, WholeInv, Answer
  PROVE  WholeInv'
<1>1. /\ at = "asked" /\ at' = "Executor" /\ UNCHANGED <<queue, completed, retry, depth, stop, failing>>
      /\ DOMAIN scoped' = DOMAIN scoped \cup {question} /\ question \in AllIds
  BY DEF Answer, Enter, tasks, GraphInv, GraphTypeOK
<1>2. Ids(queue)' = Ids(queue) /\ AllIds' = AllIds /\ (PlanCovered' <=> PlanCovered)
  BY <1>1 DEF Ids, Done, AllIds, PlanCovered
<1> QED
  BY <1>1, <1>2 DEF WholeInv, Reporting

LEMMA WholeReplans ==
  ASSUME GraphInv, WholeInv, Replanner
  PROVE  WholeInv'
<1>1. /\ at = "Replanner" /\ UNCHANGED <<completed, scoped, depth, stop, failing>> /\ Done' = Done
  BY DEF Replanner, Enter, user, Done
<1>2. CASE stop /\ queue' = <<>> /\ at' = "Generate"
  BY <1>1, <1>2 DEF WholeInv, Reporting
<1>3. ASSUME ~stop, NEW plan \in Replans, queue' = plan, DOMAIN retry' = DOMAIN retry,
             at' = IF Valid(plan, Done) THEN IF plan = <<>> THEN "Generate" ELSE "Executor" ELSE "invalid"
      PROVE  WholeInv'
  <2>1. Ids(queue) \subseteq Ids(plan)
    <3>1. queue \in Seq(TaskRecords) /\ Done \subseteq Identities
      BY DEF GraphInv, TasksTyped, Done, TaskRecords
    <3> QED
      BY <1>3, <3>1, ReplansTyped
  <2>2. Ids(queue)' = Ids(plan) /\ AllIds \subseteq AllIds'
    BY <1>1, <1>3, <2>1 DEF AllIds, Ids
  <2>3. PlanCovered'
    BY <1>1, <1>3, <2>2 DEF WholeInv, PlanCovered, Plans
  <2>4. at' = "Generate" => queue' = <<>> /\ NothingLeft'
    <3>1. at' = "Generate" => queue' = <<>>
      BY <1>3
    <3>2. plan = <<>> => AllIds' = Done'
      <4>1. plan = <<>> => Ids(plan) = {}
        BY EmptySeq DEF Ids
      <4> QED
        BY <2>2, <4>1 DEF AllIds
    <3> QED
      BY <1>3, <2>3, <3>1, <3>2 DEF PlanCovered, NothingLeft, Plans
  <2> QED
    BY <1>1, <1>3, <2>1, <2>2, <2>3, <2>4 DEF WholeInv, Reporting
<1>4. Replanner => (stop /\ queue' = <<>> /\ at' = "Generate") \/ ~stop
  BY DEF Replanner
<1>5. ASSUME ~stop
      PROVE  \E plan \in Replans :
               /\ queue' = plan /\ DOMAIN retry' = DOMAIN retry
               /\ at' = IF Valid(plan, Done) THEN IF plan = <<>> THEN "Generate" ELSE "Executor" ELSE "invalid"
  BY <1>5 DEF Replanner
<1> QED
  BY <1>2, <1>3, <1>4, <1>5

LEMMA WholeNext == GraphInv /\ WholeInv /\ [Next]_vars => WholeInv'
  BY NextSteps, WholeMoves, WholePlanner, WholeBranches, WholeMerges, WholeAnswers, WholeReplans

\* A run that succeeds has solved every task of the plan it began with, under whatever
\* replacements, questions, rules and interrupts, and has dropped none of its answers.
THEOREM SuccessesAreWhole == Spec => []SuccessIsWhole
<1>1. Init => WholeInv
  BY DEF Init, WholeInv, Reporting
<1>2. WholeInv => SuccessIsWhole
  <2> SUFFICES ASSUME WholeInv, at = "succeeded" PROVE SuccessIsWhole
    BY DEF SuccessIsWhole
  <2>1. ~stop /\ queue = <<>> /\ NothingLeft /\ DOMAIN retry \subseteq Ids(queue) /\ DOMAIN scoped \subseteq AllIds
    BY DEF WholeInv, Reporting
  <2>2. Ids(queue) = {}
    BY <2>1, EmptySeq DEF Ids
  <2> QED
    BY <2>1, <2>2 DEF SuccessIsWhole, NothingLeft, AllIds
<1> QED
  BY <1>1, <1>2, GraphInvariant, WholeNext, PTL DEF Spec

-----------------------------------------------------------------------------
(* Answers follow dependencies.                                             *)

IdsIn(c) == {t.id : t \in c}

\* A set of identities is closed if with a task it has what the task waits for.
Closed(S, c) == \A u \in c : u.id \in S => u.deps \subseteq S

\* What a task waits for, directly or through others, within a set of tasks.
Behind(t, c) == {a \in IdsIn(c) : \A S \in SUBSET IdsIn(c) : t.deps \subseteq S /\ Closed(S, c) => a \in S}

\* Tasks that are added behind nobody's back change nothing for the old ones.
LEMMA BehindGrows ==
  ASSUME NEW c, NEW e, c \subseteq e, \A u \in e : u \in c \/ u.id \notin IdsIn(c),
         Closed(IdsIn(c), c), NEW t, t.deps \subseteq IdsIn(c)
  PROVE  Behind(t, e) = Behind(t, c)
<1>0. IdsIn(c) \subseteq IdsIn(e)
  BY DEF IdsIn
<1>1. Closed(IdsIn(c), e)
  BY DEF Closed
<1>2. ASSUME NEW a \in Behind(t, e) PROVE a \in Behind(t, c)
  <2>1. a \in IdsIn(c)
    BY <1>0, <1>1 DEF Behind
  <2>2. ASSUME NEW S \in SUBSET IdsIn(c), t.deps \subseteq S, Closed(S, c) PROVE a \in S
    <3>1. Closed(S, e)
      BY <2>2 DEF Closed
    <3> QED
      BY <1>0, <2>2, <3>1 DEF Behind
  <2> QED
    BY <2>1, <2>2 DEF Behind
<1>3. ASSUME NEW a \in Behind(t, c) PROVE a \in Behind(t, e)
  <2>1. a \in IdsIn(e)
    BY <1>0 DEF Behind
  <2>2. ASSUME NEW S \in SUBSET IdsIn(e), t.deps \subseteq S, Closed(S, e) PROVE a \in S
    <3>1. t.deps \subseteq S \cap IdsIn(c) /\ Closed(S \cap IdsIn(c), c)
      BY <2>2 DEF Closed
    <3>2. a \in S \cap IdsIn(c)
      BY <3>1 DEF Behind
    <3> QED
      BY <3>2
  <2> QED
    BY <2>1, <2>2 DEF Behind
<1> QED
  BY <1>2, <1>3

\* Behind a task are its dependencies and what is behind them.
LEMMA BehindStep ==
  ASSUME NEW c, Closed(IdsIn(c), c), NEW t, t.deps \subseteq IdsIn(c)
  PROVE  Behind(t, c) = UNION {{d.id} \cup Behind(d, c) : d \in {u \in c : u.id \in t.deps}}
<1> DEFINE S == UNION {{d.id} \cup Behind(d, c) : d \in {u \in c : u.id \in t.deps}}
<1>1. ASSUME NEW a \in S PROVE a \in Behind(t, c)
  <2>1. PICK d \in c : d.id \in t.deps /\ (a = d.id \/ a \in Behind(d, c))
    OBVIOUS
  <2>2. a \in IdsIn(c)
    BY <2>1 DEF Behind, IdsIn
  <2>3. ASSUME NEW T \in SUBSET IdsIn(c), t.deps \subseteq T, Closed(T, c) PROVE a \in T
    <3>1. d.id \in T /\ d.deps \subseteq T
      BY <2>1, <2>3 DEF Closed
    <3> QED
      BY <2>1, <2>3, <3>1 DEF Behind
  <2> QED
    BY <2>2, <2>3 DEF Behind
<1>2. t.deps \subseteq S
  <2> SUFFICES ASSUME NEW x \in t.deps PROVE x \in S
    OBVIOUS
  <2>1. PICK d \in c : d.id = x
    BY DEF IdsIn
  <2> QED
    BY <2>1
<1>3. S \subseteq IdsIn(c)
  BY <1>1 DEF Behind
<1>4. ASSUME NEW u \in c PROVE u.deps \subseteq Behind(u, c)
  <2>1. u.deps \subseteq IdsIn(c)
    BY DEF Closed, IdsIn
  <2> QED
    BY <2>1 DEF Behind
<1>5. ASSUME NEW d \in c, NEW u \in c, u.id \in Behind(d, c) PROVE u.deps \subseteq Behind(d, c)
  <2>1. u.deps \subseteq IdsIn(c)
    BY DEF Closed, IdsIn
  <2>2. ASSUME NEW x \in u.deps, NEW T \in SUBSET IdsIn(c), d.deps \subseteq T, Closed(T, c) PROVE x \in T
    <3>1. u.id \in T
      BY <1>5, <2>2 DEF Behind
    <3> QED
      BY <2>2, <3>1 DEF Closed
  <2> QED
    BY <2>1, <2>2 DEF Behind
<1>6. Closed(S, c)
  <2> SUFFICES ASSUME NEW u \in c, u.id \in S PROVE u.deps \subseteq S
    BY DEF Closed
  <2>1. PICK d \in c : d.id \in t.deps /\ (u.id = d.id \/ u.id \in Behind(d, c))
    OBVIOUS
  <2>2. CASE u.id = d.id
    BY <1>4, <2>1, <2>2
  <2>3. CASE u.id \in Behind(d, c)
    <3>1. u.deps \subseteq Behind(d, c)
      BY <1>5, <2>3
    <3> QED
      BY <2>1, <3>1
  <2> QED
    BY <2>1, <2>2, <2>3
<1>7. Behind(t, c) \subseteq S
  <2> HIDE DEF S
  <2> QED
    BY <1>2, <1>3, <1>6 DEF Behind
<1> QED
  BY <1>1, <1>7

AnswersInv ==
  /\ \A id \in DOMAIN scoped : scoped[id] = {id}
  /\ Closed(Done, completed)
  /\ \A d \in completed :
       results[d.id] = {a \in DOMAIN scoped : a = d.id \/ a \in Behind(d, completed)}
  /\ at \in {"AwaitInput", "asked"} => question \notin Done

\* What a task is given that waits for completed tasks only.
LEMMA FactsAreBehind ==
  ASSUME GraphInv, AnswersInv, NEW t, t.deps \subseteq Done
  PROVE  FactsFor(t) = {a \in DOMAIN scoped : a = t.id \/ a \in Behind(t, completed)}
<1>0. Done = IdsIn(completed) /\ DOMAIN results = Done
  BY DEF Done, IdsIn, GraphInv, GraphTypeOK
<1>1. \A x : At(scoped, x, {}) = {a \in DOMAIN scoped : a = x}
  BY DEF At, AnswersInv
<1>2. Behind(t, completed) =
        UNION {{d.id} \cup Behind(d, completed) : d \in {u \in completed : u.id \in t.deps}}
  BY <1>0, BehindStep DEF AnswersInv
<1>3. ASSUME NEW d \in completed
      PROVE  At(results, d.id, {}) = {a \in DOMAIN scoped : a = d.id \/ a \in Behind(d, completed)}
  BY <1>0 DEF At, AnswersInv, IdsIn
<1>4. ASSUME NEW a
      PROVE  (a \in UNION {At(scoped, d, {}) \cup At(results, d, {}) : d \in t.deps})
               <=> (a \in DOMAIN scoped /\ a \in Behind(t, completed))
  <2>1. ASSUME NEW x \in t.deps, a \in At(scoped, x, {}) \cup At(results, x, {})
        PROVE  a \in DOMAIN scoped /\ a \in Behind(t, completed)
    <3>1. PICK d \in completed : d.id = x
      BY <1>0, <2>1 DEF IdsIn
    <3>2. a \in DOMAIN scoped /\ (a = d.id \/ a \in Behind(d, completed))
      BY <1>1, <1>3, <2>1, <3>1
    <3> QED
      BY <1>2, <3>1, <3>2
  <2>2. ASSUME a \in DOMAIN scoped, a \in Behind(t, completed)
        PROVE  \E x \in t.deps : a \in At(scoped, x, {}) \cup At(results, x, {})
    <3>1. PICK d \in completed : d.id \in t.deps /\ (a = d.id \/ a \in Behind(d, completed))
      BY <1>2, <2>2
    <3> QED
      BY <1>3, <2>2, <3>1
  <2> QED
    BY <2>1, <2>2
<1> QED
  BY <1>1, <1>4 DEF FactsFor

\* The completed tasks and those that are selected make up one plan.
LEMMA AncestorsAreBehind ==
  ASSUME GraphInv, AnswersInv, Valid(queue, Done), NEW t, t.deps \subseteq Done
  PROVE  Ancestors(t) = Behind(t, completed)
<1>1. Done = IdsIn(completed) /\ AllIds = IdsIn(TaskSet)
  BY IdsOfRange DEF GraphInv, TasksTyped, Done, IdsIn, AllIds, TaskSet
<1>2. \A u \in TaskSet : u \in completed \/ u.id \notin IdsIn(completed)
  BY <1>1, SelectedUnique DEF GraphInv, GraphTypeOK, TaskSet
<1>3. completed \subseteq TaskSet
  BY DEF TaskSet
<1>4. Behind(t, TaskSet) = Behind(t, completed)
  BY <1>1, <1>2, <1>3, BehindGrows DEF AnswersInv
<1>5. Ancestors(t) = Behind(t, TaskSet)
  BY <1>1 DEF Ancestors, Behind, Closed
<1> QED
  BY <1>4, <1>5

\* Most steps leave the plan's results and the user's answers alone.
LEMMA AnswersFrame ==
  ASSUME AnswersInv, UNCHANGED <<completed, scoped, results>>,
         at' \in {"AwaitInput", "asked"} => question' = question /\ at \in {"AwaitInput", "asked"}
  PROVE  AnswersInv'
<1>1. Done' = Done /\ \A t : Behind(t, completed)' = Behind(t, completed)
  BY DEF Done, Behind, IdsIn, Closed
<1>2. Closed(Done, completed)' <=> Closed(Done, completed)
  BY <1>1 DEF Closed
<1> QED
  BY <1>1, <1>2 DEF AnswersInv

LEMMA AnswersMost ==
  ASSUME GraphInv, AnswersInv, MoveStep \/ Planner \/ RunBranch \/ Replanner \/ Interrupt
  PROVE  AnswersInv'
<1>1. UNCHANGED <<completed, scoped, results>>
  <2>1. CASE MoveStep
    BY <2>1, MoveFrame DEF tasks, user
  <2>2. CASE Planner \/ RunBranch \/ Replanner \/ Interrupt
    BY <2>2 DEF Planner, RunBranch, Replanner, Interrupt, tasks, user
  <2> QED
    BY <2>1, <2>2
<1>2. at' \in {"AwaitInput", "asked"} => question' = question /\ at \in {"AwaitInput", "asked"}
  <2>1. CASE MoveStep
    BY <2>1, MoveFrame, MoveGoes DEF user, Ended
  <2>2. CASE Planner \/ RunBranch \/ Replanner \/ Interrupt
    BY <2>2 DEF Planner, RunBranch, Replanner, Interrupt
  <2> QED
    BY <2>1, <2>2
<1> QED
  BY <1>1, <1>2, AnswersFrame

LEMMA AnswersAnswer ==
  ASSUME GraphInv, AnswersInv, Answer
  PROVE  AnswersInv'
<1>1. /\ at = "asked" /\ at' = "Executor" /\ UNCHANGED <<completed, results>>
      /\ DOMAIN scoped' = DOMAIN scoped \cup {question}
      /\ \A id \in DOMAIN scoped' :
           scoped'[id] = IF id = question THEN At(scoped, id, {}) \cup {question} ELSE scoped[id]
  BY DEF Answer, Enter, tasks
<1>2. /\ Done' = Done /\ Done = IdsIn(completed) /\ (Closed(Done, completed)' <=> Closed(Done, completed))
      /\ \A t : Behind(t, completed)' = Behind(t, completed)
  BY <1>1 DEF Done, Behind, IdsIn, Closed
<1>3. question \notin Done
  BY <1>1 DEF AnswersInv
<1>4. ASSUME NEW id \in DOMAIN scoped' PROVE scoped'[id] = {id}
  <2>1. At(scoped, id, {}) \subseteq {id}
    BY DEF At, AnswersInv
  <2> QED
    BY <1>1, <2>1 DEF AnswersInv
<1>5. ASSUME NEW d \in completed
      PROVE  results[d.id] = {a \in DOMAIN scoped' : a = d.id \/ a \in Behind(d, completed)}
  <2>1. d.id # question /\ question \notin Behind(d, completed)
    BY <1>2, <1>3 DEF Behind, IdsIn
  <2> QED
    BY <1>1, <2>1 DEF AnswersInv
<1> QED
  BY <1>1, <1>2, <1>4, <1>5 DEF AnswersInv

LEMMA AnswersMerge ==
  ASSUME GraphInv, AnswersInv, Merge
  PROVE  AnswersInv'
<1> DEFINE new == {t \in Range(queue) : KindOf(t) = "sufficient"}
<1> DEFINE done == {t.id : t \in new}
<1>1. /\ at = "Merge" /\ UNCHANGED scoped /\ at' \in {"Replanner", "AwaitInput"}
      /\ DOMAIN batch = Range(Running)
      /\ DOMAIN results' = DOMAIN results \cup done
      /\ \A id \in DOMAIN results' : results'[id] =
           IF id \in done THEN FactsFor(CHOOSE t \in Range(queue) : t.id = id) ELSE results[id]
      /\ at' = "AwaitInput" => Asking # <<>> /\ question' = Head(Asking).id
  BY DEF Merge, Merged
<1>2. completed' = completed \cup new
  BY MergeFacts DEF GraphInv
<1>3. /\ Valid(queue, Done)
      /\ \A t \in Range(queue) : t.id \notin Done
      /\ \A t \in Range(queue), u \in Range(queue) : t.id = u.id => t = u
      /\ \A t \in Range(queue) : t.id \in Range(Running) => t \in Range(Selected)
      /\ \A t \in Range(Selected) : t.deps \subseteq Done
  BY <1>1, SelectedUnique, SelectedFacts DEF GraphInv, GraphTypeOK, BatchTyped
<1>4. Done' = Done \cup done /\ Done = IdsIn(completed) /\ DOMAIN results = Done
  BY <1>2 DEF Done, IdsIn, GraphInv, GraphTypeOK
<1>5. ASSUME NEW t \in new PROVE t.deps \subseteq Done
  <2>1. t.id \in DOMAIN batch
    BY DEF KindOf
  <2> QED
    BY <1>1, <1>3, <2>1
<1> HIDE DEF new
<1>6. Closed(Done, completed)'
  <2>1. ASSUME NEW u \in completed' PROVE u.deps \subseteq Done
    BY <1>2, <1>4, <1>5 DEF AnswersInv, Closed, IdsIn
  <2> QED
    BY <1>4, <2>1 DEF Closed
<1>7. ASSUME NEW t, t.deps \subseteq Done PROVE Behind(t, completed)' = Behind(t, completed)
  <2>1. \A u \in completed' : u \in completed \/ u.id \notin IdsIn(completed)
    BY <1>2, <1>3, <1>4 DEF new
  <2>2. Behind(t, completed') = Behind(t, completed)
    BY <1>2, <1>4, <1>7, <2>1, BehindGrows DEF AnswersInv
  <2> QED
    BY <2>2 DEF Behind, IdsIn, Closed
<1>8. ASSUME NEW d \in completed'
      PROVE  results'[d.id] = {a \in DOMAIN scoped : a = d.id \/ a \in Behind(d, completed)'}
  <2>1. CASE d \in new
    <3>1. d \in Range(queue) /\ d.id \in done /\ d.deps \subseteq Done
      BY <1>5, <2>1 DEF new
    <3>2. (CHOOSE t \in Range(queue) : t.id = d.id) = d
      BY <1>3, <3>1
    <3>3. results'[d.id] = FactsFor(d)
      BY <1>1, <3>1, <3>2
    <3> QED
      BY <1>7, <3>1, <3>3, FactsAreBehind
  <2>2. CASE d \in completed
    <3>1. d.id \in Done /\ d.deps \subseteq Done
      BY <1>4, <2>2 DEF IdsIn, AnswersInv, Closed
    <3>2. d.id \notin done
      BY <1>3, <3>1 DEF new
    <3>3. results'[d.id] = results[d.id]
      BY <1>1, <1>4, <3>1, <3>2
    <3> QED
      BY <1>7, <2>2, <3>1, <3>3 DEF AnswersInv
  <2> QED
    BY <1>2, <2>1, <2>2
<1>9. ASSUME at' = "AwaitInput" PROVE question' \notin Done'
  <2>1. /\ Asking \in Seq(TaskRecords)
        /\ Range(Asking) = Range(queue) \cap {t \in Range(queue) : KindOf(t) = "ask"}
    BY OnlyProperties DEF Asking, GraphInv, TasksTyped
  <2>2. Head(Asking) \in Range(Asking)
    <3>0. Asking # <<>>
      BY <1>1, <1>9
    <3> HIDE DEF Asking
    <3>1. 1 \in 1 .. Len(Asking) /\ Head(Asking) = Asking[1]
      BY <2>1, <3>0, EmptySeq
    <3> QED
      BY <2>1, <3>1, InRange
  <2>3. Head(Asking) \in Range(queue) /\ KindOf(Head(Asking)) # "sufficient"
    BY <2>1, <2>2
  <2>4. Head(Asking).id \notin done
    BY <1>3, <2>3 DEF new
  <2> QED
    BY <1>1, <1>3, <1>4, <1>9, <2>3, <2>4
<1> QED
  BY <1>1, <1>6, <1>8, <1>9 DEF AnswersInv

LEMMA AnswersNext == GraphInv /\ AnswersInv /\ [Next]_vars => AnswersInv'
  BY NextSteps, AnswersMost, AnswersAnswer, AnswersMerge

\* An answer of the user reaches the task it was asked for and the tasks that depend on it,
\* and no other, through plans of any depth that are replanned in any way.
THEOREM AnswersReachDependents == Spec => []AnswersFollowDependencies
<1>1. Init => AnswersInv
  BY DEF Init, AnswersInv, Closed, Done
<1>2. GraphInv /\ AnswersInv => AnswersFollowDependencies
  <2> SUFFICES ASSUME GraphInv, AnswersInv, at = "Merge", NEW t \in Range(Selected)
               PROVE  FactsFor(t) = {id \in DOMAIN scoped : id = t.id \/ id \in Ancestors(t)}
    BY DEF AnswersFollowDependencies
  <2>1. t.deps \subseteq Done /\ Valid(queue, Done)
    BY SelectedFacts DEF GraphInv, GraphTypeOK, BatchTyped
  <2> QED
    BY <2>1, FactsAreBehind, AncestorsAreBehind
<1> QED
  BY <1>1, <1>2, GraphInvariant, AnswersNext, PTL DEF Spec

-----------------------------------------------------------------------------
(* Sequences without repetition.                                            *)

Single(s) == \A i \in 1 .. Len(s), j \in 1 .. Len(s) : s[i] = s[j] => i = j

LEMMA SingleAppend ==
  ASSUME NEW A, NEW s \in Seq(A), NEW a \in A, Single(s), a \notin Range(s)
  PROVE  Single(Append(s, a))
<1> DEFINE new == Append(s, a)
<1>1. /\ Len(new) = Len(s) + 1 /\ Len(s) \in Nat
      /\ new[Len(s) + 1] = a /\ \A i \in 1 .. Len(s) : new[i] = s[i]
  OBVIOUS
<1>2. \A i \in 1 .. Len(s) : s[i] # a
  BY InRange
<1> HIDE DEF new
<1>3. \A i \in 1 .. Len(s) + 1 : i \in 1 .. Len(s) \/ i = Len(s) + 1
  BY <1>1
<1>4. Single(new)
  BY <1>1, <1>2, <1>3 DEF Single
<1> QED
  BY <1>4 DEF new

LEMMA SingleConcat ==
  ASSUME NEW A, NEW s \in Seq(A), NEW u \in Seq(A), Single(s), Single(u), Range(s) \cap Range(u) = {}
  PROVE  Single(s \o u)
<1> DEFINE new == s \o u
<1>1. /\ new \in Seq(A) /\ Len(new) = Len(s) + Len(u) /\ Len(s) \in Nat /\ Len(u) \in Nat
      /\ \A i \in 1 .. Len(s) : new[i] = s[i]
      /\ \A i \in 1 .. Len(new) : i \notin 1 .. Len(s) => i - Len(s) \in 1 .. Len(u) /\ new[i] = u[i - Len(s)]
  <2>1. Len(s) \in Nat /\ Len(u) \in Nat
    BY LenProperties
  <2>2. \A i \in 1 .. Len(s) + Len(u) : new[i] = IF i <= Len(s) THEN s[i] ELSE u[i - Len(s)]
    BY ConcatProperties
  <2>3. new \in Seq(A) /\ Len(new) = Len(s) + Len(u)
    BY ConcatProperties
  <2> HIDE DEF new
  <2> QED
    BY <2>1, <2>2, <2>3
<1>2. \A i \in 1 .. Len(s), j \in 1 .. Len(u) : s[i] # u[j]
  BY InRange
<1> HIDE DEF new
<1>3. ASSUME NEW i \in 1 .. Len(new), NEW j \in 1 .. Len(new), new[i] = new[j] PROVE i = j
  <2>1. CASE i \in 1 .. Len(s) /\ j \in 1 .. Len(s)
    BY <1>1, <1>3, <2>1 DEF Single
  <2>2. CASE i \notin 1 .. Len(s) /\ j \notin 1 .. Len(s)
    <3>1. i - Len(s) = j - Len(s)
      BY <1>1, <1>3, <2>2 DEF Single
    <3> QED
      BY <1>1, <3>1
  <2>3. CASE (i \in 1 .. Len(s)) # (j \in 1 .. Len(s))
    BY <1>1, <1>2, <1>3, <2>3
  <2> QED
    BY <2>1, <2>2, <2>3
<1>4. Single(new)
  BY <1>3 DEF Single
<1> QED
  BY <1>4 DEF new

LEMMA SingleOnly ==
  ASSUME NEW A, NEW s \in Seq(A), NEW S, Single(s)
  PROVE  Single(Only(s, S))
<1> DEFINE N == Len(s)
<1>0. N \in Nat /\ \A n \in 1 .. N : s[n] \in A
  BY LenProperties, ElementOfSeq
<1>1. PICK keep : Keeps(keep, A, s, S)
  BY OnlyWalk
<1>2. /\ keep[0] = <<>> /\ keep[N] = Only(s, S) /\ \A n \in 0 .. N : keep[n] \in Seq(A)
      /\ \A n \in 1 .. N : keep[n] = IF s[n] \in S THEN Append(keep[n - 1], s[n]) ELSE keep[n - 1]
  BY <1>1 DEF Keeps
<1> DEFINE Good(n) == Single(keep[n]) /\ \A x \in Range(keep[n]) : \E i \in 1 .. n : s[i] = x
<1> DEFINE P == {n \in Nat : n <= N => Good(n)}
<1>3. 0 \in P
  BY <1>2, RangeOfEmpty, EmptySeq DEF Single
<1>4. ASSUME NEW n \in Nat, n \in P PROVE n + 1 \in P
  <2> SUFFICES ASSUME n + 1 <= N PROVE Good(n + 1)
    OBVIOUS
  <2>1. Good(n) /\ n + 1 \in 1 .. N /\ (n + 1) - 1 = n /\ keep[n] \in Seq(A) /\ s[n + 1] \in A
    BY <1>0, <1>2, <1>4
  <2>2. keep[n + 1] = IF s[n + 1] \in S THEN Append(keep[n], s[n + 1]) ELSE keep[n]
    BY <1>2, <2>1
  <2>3. CASE s[n + 1] \in S
    <3>1. s[n + 1] \notin Range(keep[n])
      <4>1. \A i \in 1 .. n : i \in 1 .. N /\ i # n + 1
        BY <1>0, <2>1
      <4> QED
        BY <2>1, <4>1 DEF Single
    <3>2. Single(keep[n + 1]) /\ Range(keep[n + 1]) = Range(keep[n]) \cup {s[n + 1]}
      BY <2>1, <2>2, <2>3, <3>1, SingleAppend, RangeOfAppend
    <3> QED
      BY <2>1, <3>2
  <2>4. CASE s[n + 1] \notin S
    BY <2>1, <2>2, <2>4
  <2> QED
    BY <2>3, <2>4
<1>5. N \in P
  <2> HIDE DEF P
  <2> QED
    BY <1>0, <1>3, <1>4, Induction
<1> QED
  BY <1>0, <1>2, <1>5

-----------------------------------------------------------------------------
(* Plans in order.                                                          *)

\* What a task waits for is known or stands before it.
InOrder(q, known) == \A i \in 1 .. Len(q) : q[i].deps \subseteq known \cup {q[j].id : j \in 1 .. i - 1}

\* No two tasks have one identity.
Apart(q) == \A i \in 1 .. Len(q), j \in 1 .. Len(q) : q[i].id = q[j].id => i = j

LEMMA ApartFacts ==
  ASSUME NEW q \in Seq(TaskRecords)
  PROVE  Apart(q) <=> /\ Single(q)
                      /\ \A t \in Range(q), u \in Range(q) : t.id = u.id => t = u
<1>1. \A x : x \in Range(q) <=> \E i \in 1 .. Len(q) : q[i] = x
  BY InRange
<1> QED
  BY <1>1 DEF Apart, Single

\* A plan in order, of tasks that are apart and not done, is one validate_plan accepts.
LEMMA OrderedIsValid ==
  ASSUME NEW q \in Seq(TaskRecords), NEW done, InOrder(q, done), Apart(q), Ids(q) \cap done = {}
  PROVE  Valid(q, done)
<1>0. /\ Len(q) \in Nat /\ Ids(q) = {t.id : t \in Range(q)}
      /\ \A x : x \in Range(q) <=> \E i \in 1 .. Len(q) : q[i] = x
  BY LenProperties, IdsOfRange, InRange
<1>1. Cardinality(Ids(q)) = Len(q)
  <2> DEFINE f == [i \in 1 .. Len(q) |-> q[i].id]
  <2>1. f \in Bijection(1 .. Len(q), Ids(q))
    BY DEF Bijection, Surjection, Injection, IsInjective, Ids, Apart
  <2>2. IsFiniteSet(1 .. Len(q)) /\ Cardinality(1 .. Len(q)) = Len(q)
    <3>1. 1 \in Int /\ Len(q) \in Int /\ (1 > Len(q) => Len(q) = 0) /\ Len(q) - 1 + 1 = Len(q)
      BY <1>0
    <3> QED
      BY <3>1, FS_Interval
  <2> HIDE DEF f
  <2>3. ExistsBijection(1 .. Len(q), Ids(q))
    BY <2>1 DEF ExistsBijection
  <2> QED
    BY <2>2, <2>3, FS_Bijection
<1>2. ASSUME NEW t \in Range(q) PROVE t.deps \subseteq done \cup Ids(q)
  <2>1. PICK i \in 1 .. Len(q) : q[i] = t
    BY <1>0
  <2>2. \A j \in 1 .. i - 1 : j \in 1 .. Len(q)
    BY <1>0
  <2> QED
    BY <2>1, <2>2 DEF InOrder, Ids
<1> DEFINE Stuck(S) == \A t \in S : t.deps \cap {s.id : s \in S} # {}
<1>3. ASSUME NEW S \in SUBSET Range(q), S # {}, Stuck(S) PROVE FALSE
  <2> DEFINE J == {i \in 1 .. Len(q) : q[i] \in S}
  <2>0. J \subseteq Nat /\ J # {}
    <3>1. PICK s \in S : s \in Range(q)
      BY <1>3
    <3>2. PICK i \in 1 .. Len(q) : q[i] = s
      BY <1>0, <3>1
    <3> QED
      BY <3>1, <3>2
  <2>1. PICK i \in J : \A k \in J : <<k, i>> \notin OpToRel(<, Nat)
    <3>1. IsWellFoundedOn(OpToRel(<, Nat), Nat)
      BY NatLessThanWellFounded
    <3> HIDE DEF J
    <3> QED
      BY <2>0, <3>1, WFMin
  <2>2. \A k \in J : ~(k < i)
    <3> HIDE DEF J
    <3> QED
      BY <2>0, <2>1 DEF OpToRel
  <2>3. PICK s \in S : s.id \in q[i].deps
    BY <1>3, <2>1
  <2>4. PICK k \in 1 .. Len(q) : q[k] = s
    BY <1>0, <2>3
  <2>5. s.id \notin done
    BY <1>0, <2>3
  <2>6. PICK j \in 1 .. i - 1 : q[j].id = s.id
    BY <2>1, <2>3, <2>5 DEF InOrder
  <2>7. j \in 1 .. Len(q) /\ j < i
    <3>1. i \in 1 .. Len(q)
      BY <2>1
    <3> QED
      BY <1>0, <2>6, <3>1
  <2>8. j = k
    BY <2>4, <2>6, <2>7 DEF Apart
  <2> QED
    BY <2>2, <2>3, <2>4, <2>7, <2>8
<1> HIDE DEF Stuck
<1>4. ~ \E S \in (SUBSET Range(q)) \ {{}} : Stuck(S)
  BY <1>3
<1>5. \A t \in Range(q) : t.deps \subseteq done \cup Ids(q)
  BY <1>2
<1>6. done \cap Ids(q) = {}
  OBVIOUS
<1> QED
  BY <1>1, <1>4, <1>5, <1>6 DEF Valid, Stuck

\* The first task of a plan in order can be done.
LEMMA FirstIsReady ==
  ASSUME queue \in Seq(TaskRecords), InOrder(queue, Done), queue # <<>>
  PROVE  Ready # <<>>
<1>1. 1 \in 1 .. Len(queue)
  BY EmptySeq
<1>2. queue[1].deps \subseteq Done /\ queue[1] \in Range(queue)
  BY <1>1, InRange DEF InOrder
<1>3. queue[1] \in Range(Ready)
  BY <1>2, OnlyProperties DEF Ready
<1> QED
  BY <1>3, RangeOfEmpty

LEMMA OrderedAppend ==
  ASSUME NEW q \in Seq(TaskRecords), NEW t \in TaskRecords, NEW known,
         InOrder(q, known), t.deps \subseteq known \cup Ids(q)
  PROVE  InOrder(Append(q, t), known)
<1> DEFINE new == Append(q, t)
<1>1. /\ Len(new) = Len(q) + 1 /\ Len(q) \in Nat
      /\ new[Len(q) + 1] = t /\ \A i \in 1 .. Len(q) : new[i] = q[i]
  OBVIOUS
<1> HIDE DEF new
<1>2. ASSUME NEW i \in 1 .. Len(new) PROVE new[i].deps \subseteq known \cup {new[j].id : j \in 1 .. i - 1}
  <2>1. \A j \in 1 .. i - 1 : j \in 1 .. Len(q) /\ new[j] = q[j]
    BY <1>1
  <2>2. CASE i \in 1 .. Len(q)
    BY <1>1, <2>1, <2>2 DEF InOrder
  <2>3. CASE i = Len(q) + 1
    BY <1>1, <2>1, <2>3 DEF Ids
  <2> QED
    BY <1>1, <2>2, <2>3
<1> QED
  BY <1>2 DEF InOrder, new

LEMMA OrderedConcat ==
  ASSUME NEW p \in Seq(TaskRecords), NEW q \in Seq(TaskRecords), NEW known
  PROVE  /\ p \o q \in Seq(TaskRecords) /\ Ids(p \o q) = Ids(p) \cup Ids(q)
         /\ InOrder(p, known) /\ InOrder(q, known \cup Ids(p)) => InOrder(p \o q, known)
         /\ Apart(p) /\ Apart(q) /\ Ids(p) \cap Ids(q) = {} => Apart(p \o q)
<1> DEFINE new == p \o q
<1>1. /\ new \in Seq(TaskRecords) /\ Len(new) = Len(p) + Len(q) /\ Len(p) \in Nat /\ Len(q) \in Nat
      /\ Range(new) = Range(p) \cup Range(q)
      /\ \A i \in 1 .. Len(p) : new[i] = p[i]
      /\ \A i \in 1 .. Len(q) : new[Len(p) + i] = q[i]
  <2>1. Len(p) \in Nat /\ Len(q) \in Nat
    BY LenProperties
  <2>2. \A i \in 1 .. Len(p) + Len(q) : new[i] = IF i <= Len(p) THEN p[i] ELSE q[i - Len(p)]
    BY ConcatProperties
  <2>3. new \in Seq(TaskRecords) /\ Len(new) = Len(p) + Len(q) /\ Range(new) = Range(p) \cup Range(q)
    BY ConcatProperties, RangeConcatenation
  <2>4. \A i \in 1 .. Len(q) : Len(p) + i \in 1 .. Len(p) + Len(q) /\ ~(Len(p) + i <= Len(p)) /\ Len(p) + i - Len(p) = i
    BY <2>1
  <2> HIDE DEF new
  <2> QED
    BY <2>1, <2>2, <2>3, <2>4
<1> HIDE DEF new
<1>2. Ids(new) = Ids(p) \cup Ids(q)
  <2>1. Ids(new) = {t.id : t \in Range(new)} /\ Ids(p) = {t.id : t \in Range(p)} /\ Ids(q) = {t.id : t \in Range(q)}
    BY <1>1, IdsOfRange
  <2> QED
    BY <1>1, <2>1
<1>3. ASSUME InOrder(p, known), InOrder(q, known \cup Ids(p)) PROVE InOrder(new, known)
  <2> SUFFICES ASSUME NEW i \in 1 .. Len(new), NEW d \in new[i].deps
               PROVE  d \in known \/ \E j \in 1 .. i - 1 : new[j].id = d
    BY DEF InOrder
  <2>1. CASE i \in 1 .. Len(p)
    <3>1. \A j \in 1 .. i - 1 : j \in 1 .. Len(p)
      BY <1>1, <2>1
    <3>2. d \in known \/ \E j \in 1 .. i - 1 : p[j].id = d
      BY <1>1, <1>3, <2>1 DEF InOrder
    <3> QED
      BY <1>1, <3>1, <3>2
  <2>2. CASE i \notin 1 .. Len(p)
    <3> DEFINE k == i - Len(p)
    <3>1. k \in 1 .. Len(q) /\ i = Len(p) + k
      BY <1>1, <2>2
    <3> HIDE DEF k
    <3>2. new[i] = q[k]
      BY <1>1, <3>1
    <3>3. d \in known \/ d \in Ids(p) \/ \E j \in 1 .. k - 1 : q[j].id = d
      BY <1>3, <3>1, <3>2 DEF InOrder
    <3>4. ASSUME d \in Ids(p) PROVE \E j \in 1 .. i - 1 : new[j].id = d
      <4>1. PICK j \in 1 .. Len(p) : p[j].id = d
        BY <3>4 DEF Ids
      <4> QED
        BY <1>1, <3>1, <4>1
    <3>5. ASSUME NEW j \in 1 .. k - 1, q[j].id = d PROVE \E m \in 1 .. i - 1 : new[m].id = d
      <4>1. j \in 1 .. Len(q) /\ Len(p) + j \in 1 .. i - 1
        BY <1>1, <3>1
      <4> QED
        BY <1>1, <3>5, <4>1
    <3> QED
      BY <3>3, <3>4, <3>5
  <2> QED
    BY <2>1, <2>2
<1>4. ASSUME Apart(p), Apart(q), Ids(p) \cap Ids(q) = {} PROVE Apart(new)
  <2>1. \A t \in Range(p) : t.id \in Ids(p)
    BY IdsOfRange
  <2>2. \A t \in Range(q) : t.id \in Ids(q)
    BY IdsOfRange
  <2>3. /\ Single(p) /\ Single(q)
        /\ \A t \in Range(p), u \in Range(p) : t.id = u.id => t = u
        /\ \A t \in Range(q), u \in Range(q) : t.id = u.id => t = u
    BY <1>4, ApartFacts
  <2>4. Single(new)
    <3>1. Range(p) \cap Range(q) = {}
      BY <1>4, <2>1, <2>2
    <3> QED
      BY <2>3, <3>1, SingleConcat DEF new
  <2>5. \A t \in Range(new), u \in Range(new) : t.id = u.id => t = u
    BY <1>1, <1>4, <2>1, <2>2, <2>3
  <2> QED
    BY <1>1, <2>4, <2>5, ApartFacts
<1> QED
  BY <1>1, <1>2, <1>3, <1>4 DEF new

\* What stays of a plan in order is in order, if the rest is known.
LEMMA OrderedOnly ==
  ASSUME NEW q \in Seq(TaskRecords), NEW S, NEW known, NEW more,
         InOrder(q, known), known \subseteq more, \A t \in Range(q) : t \in S \/ t.id \in more
  PROVE  InOrder(Only(q, S), more)
<1> DEFINE N == Len(q)
<1>0. /\ N \in Nat /\ \A n \in 1 .. N : q[n] \in TaskRecords
      /\ \A n \in 1 .. N : q[n] \in Range(q)
  BY LenProperties, ElementOfSeq, InRange
<1>1. PICK keep : Keeps(keep, TaskRecords, q, S)
  BY OnlyWalk
<1>2. /\ keep[0] = <<>> /\ keep[N] = Only(q, S) /\ \A n \in 0 .. N : keep[n] \in Seq(TaskRecords)
      /\ \A n \in 1 .. N : keep[n] = IF q[n] \in S THEN Append(keep[n - 1], q[n]) ELSE keep[n - 1]
  BY <1>1 DEF Keeps
<1> DEFINE Good(n) == InOrder(keep[n], more) /\ \A i \in 1 .. n : q[i].id \in more \cup Ids(keep[n])
<1> DEFINE P == {n \in Nat : n <= N => Good(n)}
<1>3. 0 \in P
  BY <1>2, EmptySeq DEF InOrder
<1>4. ASSUME NEW n \in Nat, n \in P PROVE n + 1 \in P
  <2> SUFFICES ASSUME n + 1 <= N PROVE Good(n + 1)
    OBVIOUS
  <2> DEFINE t == q[n + 1]
  <2>1. /\ Good(n) /\ n + 1 \in 1 .. N /\ (n + 1) - 1 = n /\ keep[n] \in Seq(TaskRecords)
        /\ t \in TaskRecords /\ t \in Range(q)
    BY <1>0, <1>2, <1>4
  <2>2. keep[n + 1] = IF t \in S THEN Append(keep[n], t) ELSE keep[n]
    BY <1>2, <2>1
  <2>3. t.deps \subseteq more \cup Ids(keep[n])
    <3>1. t.deps \subseteq known \cup {q[j].id : j \in 1 .. n}
      BY <2>1 DEF InOrder
    <3> HIDE DEF t
    <3> QED
      BY <2>1, <3>1
  <2>4. \A i \in 1 .. n + 1 : i \in 1 .. n \/ i = n + 1
    OBVIOUS
  <2>5. CASE t \in S
    <3>1. InOrder(keep[n + 1], more)
      <4> HIDE DEF t
      <4> QED
        BY <2>1, <2>2, <2>3, <2>5, OrderedAppend
    <3>2. Ids(keep[n + 1]) = Ids(keep[n]) \cup {t.id}
      <4> HIDE DEF t
      <4>1. /\ Range(keep[n + 1]) = Range(keep[n]) \cup {t} /\ keep[n + 1] \in Seq(TaskRecords)
        BY <2>1, <2>2, <2>5, RangeOfAppend
      <4>2. Ids(keep[n]) = {x.id : x \in Range(keep[n])} /\ Ids(keep[n + 1]) = {x.id : x \in Range(keep[n + 1])}
        BY <2>1, <4>1, IdsOfRange
      <4> QED
        BY <4>1, <4>2
    <3> QED
      BY <2>1, <2>4, <3>1, <3>2
  <2>6. CASE t \notin S
    <3>1. t.id \in more
      BY <2>1, <2>6
    <3> QED
      BY <2>1, <2>2, <2>4, <2>6, <3>1
  <2> QED
    BY <2>5, <2>6
<1>5. N \in P
  <2> HIDE DEF P
  <2> QED
    BY <1>0, <1>3, <1>4, Induction
<1> QED
  BY <1>0, <1>2, <1>5

\* Plans put in a row.
LEMMA OrderedFlatten ==
  ASSUME NEW ss \in Seq(Seq(TaskRecords)), NEW known,
         \A n \in 1 .. Len(ss) : InOrder(ss[n], known \cup UNION {Ids(ss[j]) : j \in 1 .. n - 1}),
         \A n \in 1 .. Len(ss) : Apart(ss[n]),
         \A n \in 1 .. Len(ss), m \in 1 .. Len(ss) : n # m => Ids(ss[n]) \cap Ids(ss[m]) = {}
  PROVE  /\ InOrder(FlattenSeq(ss), known) /\ Apart(FlattenSeq(ss))
         /\ Ids(FlattenSeq(ss)) = UNION {Ids(ss[j]) : j \in 1 .. Len(ss)}
<1> DEFINE N == Len(ss)
<1> DEFINE All(n) == UNION {Ids(ss[j]) : j \in 1 .. n}
<1>0. N \in Nat /\ \A n \in 1 .. N : ss[n] \in Seq(TaskRecords)
  BY LenProperties, ElementOfSeq
<1>1. PICK f : Joins(f, TaskRecords, ss)
  BY FlattenWalk
<1>2. /\ f[0] = <<>> /\ f[N] = FlattenSeq(ss) /\ \A n \in 0 .. N : f[n] \in Seq(TaskRecords)
      /\ \A n \in 1 .. N : f[n] = f[n - 1] \o ss[n]
  BY <1>1 DEF Joins
<1> DEFINE Good(n) == InOrder(f[n], known) /\ Apart(f[n]) /\ Ids(f[n]) = All(n)
<1> DEFINE P == {n \in Nat : n <= N => Good(n)}
<1>3. 0 \in P
  BY <1>2, EmptySeq DEF InOrder, Apart, Ids
<1>4. ASSUME NEW n \in Nat, n \in P PROVE n + 1 \in P
  <2> DEFINE k == n + 1
  <2> SUFFICES ASSUME k <= N PROVE Good(k)
    OBVIOUS
  <2>1. /\ Good(n) /\ k \in 1 .. N /\ k - 1 = n /\ f[n] \in Seq(TaskRecords) /\ ss[k] \in Seq(TaskRecords)
        /\ \A j \in 1 .. n : j \in 1 .. N /\ j # k
    BY <1>0, <1>2, <1>4
  <2>2. f[k] = f[n] \o ss[k]
    BY <1>2, <2>1
  <2>3. \A j : j \in 1 .. k <=> j \in 1 .. n \/ j = k
    OBVIOUS
  <2> HIDE DEF k
  <2>4. InOrder(ss[k], known \cup Ids(f[n])) /\ Apart(ss[k])
    <3>1. Ids(f[n]) = UNION {Ids(ss[j]) : j \in 1 .. k - 1}
      BY <2>1
    <3> QED
      BY <2>1, <3>1
  <2>5. Ids(f[n]) \cap Ids(ss[k]) = {}
    <3>1. Ids(f[n]) = All(n)
      BY <2>1
    <3>2. \A j \in 1 .. n : Ids(ss[j]) \cap Ids(ss[k]) = {}
      BY <2>1
    <3> QED
      BY <3>1, <3>2
  <2>6. All(k) = All(n) \cup Ids(ss[k])
    BY <2>3
  <2> HIDE DEF All
  <2>7. InOrder(f[n], known) /\ Apart(f[n]) /\ Ids(f[n]) = All(n)
    BY <2>1
  <2>8. InOrder(f[k], known) /\ Apart(f[k]) /\ Ids(f[k]) = Ids(f[n]) \cup Ids(ss[k])
    <3> DEFINE p == f[n]
    <3> DEFINE q == ss[k]
    <3>1. /\ p \in Seq(TaskRecords) /\ q \in Seq(TaskRecords) /\ f[k] = p \o q
          /\ InOrder(p, known) /\ InOrder(q, known \cup Ids(p)) /\ Apart(p) /\ Apart(q)
          /\ Ids(p) \cap Ids(q) = {}
      BY <2>1, <2>2, <2>4, <2>5, <2>7
    <3> HIDE DEF p, q
    <3>2. InOrder(f[k], known) /\ Apart(f[k]) /\ Ids(f[k]) = Ids(p) \cup Ids(q)
      BY <3>1, OrderedConcat
    <3> QED
      BY <3>2 DEF p, q
  <2> QED
    BY <2>6, <2>7, <2>8
<1>5. N \in P
  <2> HIDE DEF P
  <2> QED
    BY <1>0, <1>3, <1>4, Induction
<1> QED
  BY <1>0, <1>2, <1>5

-----------------------------------------------------------------------------
(* A draft is put in order.                                                 *)

\* How many different things a sequence has.
LEMMA RangeCounted ==
  ASSUME NEW A, NEW s \in Seq(A)
  PROVE  /\ IsFiniteSet(Range(s)) /\ Cardinality(Range(s)) \in Nat /\ Cardinality(Range(s)) <= Len(s)
         /\ Cardinality(Range(s)) = Len(s) => Single(s)
<1> DEFINE f == [i \in 1 .. Len(s) |-> s[i]]
<1>1. Len(s) \in Nat /\ \A x : x \in Range(s) <=> \E i \in 1 .. Len(s) : s[i] = x
  BY LenProperties, InRange
<1>2. f \in Surjection(1 .. Len(s), Range(s))
  BY <1>1 DEF Surjection
<1>3. IsFiniteSet(1 .. Len(s)) /\ Cardinality(1 .. Len(s)) = Len(s)
  <2>1. 1 \in Int /\ Len(s) \in Int /\ (1 > Len(s) => Len(s) = 0) /\ Len(s) - 1 + 1 = Len(s)
    BY <1>1
  <2> QED
    BY <2>1, FS_Interval
<1> HIDE DEF f
<1>4. /\ IsFiniteSet(Range(s)) /\ Cardinality(Range(s)) <= Len(s)
      /\ Cardinality(Range(s)) = Len(s) => f \in Injection(1 .. Len(s), Range(s))
  BY <1>2, <1>3, FS_Surjection
<1>5. f \in Injection(1 .. Len(s), Range(s)) => Single(s)
  BY DEF Injection, IsInjective, Single, f
<1> QED
  BY <1>4, <1>5, FS_CardinalityType

\* An acceptable draft has no name twice.
LEMMA NamesDiffer ==
  ASSUME NEW nodes \in Seq(DraftNodes), Acceptable(nodes)
  PROVE  /\ Single(nodes)
         /\ \A n \in Range(nodes), m \in Range(nodes) : n.name = m.name => n = m
         /\ NodeNames(nodes) = {n.name : n \in Range(nodes)}
<1> DEFINE names == [i \in 1 .. Len(nodes) |-> nodes[i].name]
<1>1. /\ Len(nodes) \in Nat /\ \A i \in 1 .. Len(nodes) : nodes[i] \in Range(nodes)
      /\ \A x : x \in Range(nodes) <=> \E i \in 1 .. Len(nodes) : nodes[i] = x
  BY LenProperties, InRange
<1>2. names \in Seq(NodeNames(nodes)) /\ Len(names) = Len(nodes)
  <2>1. names \in [1 .. Len(nodes) -> NodeNames(nodes)]
    BY <1>1 DEF NodeNames
  <2> HIDE DEF names
  <2> QED
    BY <1>1, <2>1, Built
<1>3. \A i \in 1 .. Len(nodes) : names[i] = nodes[i].name
  OBVIOUS
<1> HIDE DEF names
<1>4. Range(names) = NodeNames(nodes)
  <2>1. \A x : x \in Range(names) <=> \E i \in 1 .. Len(nodes) : names[i] = x
    BY <1>2, InRange
  <2> QED
    BY <1>1, <1>3, <2>1 DEF NodeNames
<1>5. Single(names)
  <2>1. Cardinality(NodeNames(nodes)) = Len(nodes)
    BY DEF Acceptable, NodeNames
  <2> QED
    BY <1>2, <1>4, <2>1, RangeCounted
<1>6. \A n \in Range(nodes), m \in Range(nodes) : n.name = m.name => n = m
  BY <1>1, <1>2, <1>3, <1>5 DEF Single
<1>7. Single(nodes)
  BY <1>2, <1>3, <1>5 DEF Single
<1> QED
  BY <1>6, <1>7 DEF NodeNames

\* A name goes into the order once, after the names it waits for, and a node counts how many
\* of them it still waits for.
PeelInv(nodes, s) ==
  /\ Single(s.order) /\ Single(s.open) /\ Range(s.order) \cap Range(s.open) = {}
  /\ \A n \in Range(nodes) : s.left[n] = Len(n.deps) - Cardinality(Range(s.order) \cap Range(n.deps))
  /\ \A n \in Range(nodes) : n.name \in Range(s.open) => Range(n.deps) \subseteq Range(s.order)
  /\ \A n \in Range(nodes), i \in 1 .. Len(s.order) :
       n.name = s.order[i] => Range(n.deps) \subseteq {s.order[j] : j \in 1 .. i - 1}

LEMMA DepsCounted ==
  ASSUME NEW nodes \in Seq(DraftNodes), NEW n \in Range(nodes)
  PROVE  /\ n.deps \in Seq(STRING) /\ Len(n.deps) \in Nat /\ IsFiniteSet(Range(n.deps))
         /\ Cardinality(Range(n.deps)) \in Nat /\ Cardinality(Range(n.deps)) <= Len(n.deps)
<1>1. n.deps \in Seq(STRING)
  <2>1. n \in DraftNodes
    BY RangeOfSeq
  <2> QED
    BY <2>1 DEF DraftNodes
<1> QED
  BY <1>1, RangeCounted, LenProperties

LEMMA PeelStarts ==
  ASSUME NEW nodes \in Seq(DraftNodes), Acceptable(nodes)
  PROVE  PeelInv(nodes, Unpeeled(nodes))
<1> DEFINE roots == {n.name : n \in {m \in Range(nodes) : m.deps = <<>>}}
<1> DEFINE open  == Only(Alphabet, roots)
<1>1. /\ Unpeeled(nodes).open = open /\ Unpeeled(nodes).order = <<>>
      /\ \A n \in Range(nodes) : Unpeeled(nodes).left[n] = Len(n.deps)
  BY DEF Unpeeled
<1>2. Single(open) /\ Range(open) \subseteq roots
  <2>1. Alphabet \in Seq(STRING) /\ Single(Alphabet)
    BY DraftsAssumption DEF Single
  <2> HIDE DEF roots
  <2> QED
    BY <2>1, SingleOnly, OnlyProperties
<1>3. Single(<<>>) /\ Range(<<>>) = {} /\ Len(<<>>) = 0
  BY RangeOfEmpty, EmptySeq DEF Single
<1>4. ASSUME NEW n \in Range(nodes), n.name \in roots PROVE Range(n.deps) = {}
  <2>1. n.deps = <<>>
    BY <1>4, NamesDiffer
  <2> QED
    BY <1>3, <2>1
<1>5. \A n \in Range(nodes) : Len(n.deps) = Len(n.deps) - Cardinality({} \cap Range(n.deps))
  <2> TAKE n \in Range(nodes)
  <2>1. {} \cap Range(n.deps) = {} /\ Cardinality({}) = 0 /\ Len(n.deps) \in Nat
    BY DepsCounted, FS_EmptySet
  <2> QED
    BY <2>1
<1> DEFINE first == Unpeeled(nodes)
<1>6. /\ first.open = open /\ first.order = <<>>
      /\ \A n \in Range(nodes) : first.left[n] = Len(n.deps)
  BY <1>1
<1> HIDE DEF roots, open, first
<1>7. Single(first.order) /\ Single(first.open) /\ Range(first.order) \cap Range(first.open) = {}
  BY <1>2, <1>3, <1>6
<1>8. \A n \in Range(nodes) :
        first.left[n] = Len(n.deps) - Cardinality(Range(first.order) \cap Range(n.deps))
  <2>1. Range(first.order) = {}
    BY <1>3, <1>6
  <2> QED
    BY <1>5, <1>6, <2>1
<1>9. \A n \in Range(nodes) : n.name \in Range(first.open) => Range(n.deps) \subseteq Range(first.order)
  BY <1>2, <1>4, <1>6
<1>10. 1 .. Len(first.order) = {}
  BY <1>3, <1>6
<1>11. PeelInv(nodes, first)
  BY <1>7, <1>8, <1>9, <1>10 DEF PeelInv
<1> QED
  BY <1>11 DEF first

LEMMA PeelKeeps ==
  ASSUME NEW nodes \in Seq(DraftNodes), Acceptable(nodes),
         NEW s \in Peelings(nodes), s.open # <<>>, PeelInv(nodes, s)
  PROVE  PeelInv(nodes, Peel(nodes, s))
<1> DEFINE names == NodeNames(nodes)
<1> DEFINE next  == Head(s.open)
<1> DEFINE left  == [n \in DOMAIN s.left |-> IF next \in Range(n.deps) THEN s.left[n] - 1 ELSE s.left[n]]
<1> DEFINE free  == {n \in Range(nodes) : next \in Range(n.deps) /\ left[n] = 0}
<1> DEFINE freed == Only(nodes, free)
<1> DEFINE more  == [i \in 1 .. Len(freed) |-> freed[i].name]
<1> DEFINE order == Append(s.order, next)
<1>0. /\ s.open \in Seq(names) /\ s.left \in [Range(nodes) -> Int] /\ s.order \in Seq(names)
      /\ Len(s.order) \in Nat
  BY LenProperties DEF Peelings
<1>1. /\ Peel(nodes, s).open = Tail(s.open) \o more /\ Peel(nodes, s).left = left
      /\ Peel(nodes, s).order = order
  BY DEF Peel
<1>2. /\ next \in names /\ Tail(s.open) \in Seq(names) /\ Single(Tail(s.open))
      /\ Range(s.open) = {next} \cup Range(Tail(s.open)) /\ next \notin Range(Tail(s.open))
  <2> DEFINE rest == Tail(s.open)
  <2>1. /\ next \in names /\ rest \in Seq(names) /\ Len(rest) = Len(s.open) - 1
        /\ \A i \in 1 .. Len(rest) : rest[i] = s.open[i + 1]
        /\ next = s.open[1] /\ Len(s.open) \in Nat /\ Len(s.open) >= 1
    BY <1>0, HeadTailProperties, EmptySeq, LenProperties
  <2> HIDE DEF rest, next
  <2>2. /\ \A x : x \in Range(rest) <=> \E i \in 1 .. Len(rest) : rest[i] = x
        /\ \A x : x \in Range(s.open) <=> \E i \in 1 .. Len(s.open) : s.open[i] = x
    BY <1>0, <2>1, InRange
  <2>3. \A i \in 1 .. Len(rest) : i + 1 \in 1 .. Len(s.open) /\ i + 1 # 1
    BY <2>1
  <2>4. Single(s.open)
    BY DEF PeelInv
  <2>5. next \notin Range(rest)
    <3> SUFFICES ASSUME next \in Range(rest) PROVE FALSE
      OBVIOUS
    <3>1. PICK i \in 1 .. Len(rest) : rest[i] = next
      BY <2>2
    <3>2. s.open[i + 1] = s.open[1] /\ i + 1 \in 1 .. Len(s.open) /\ 1 \in 1 .. Len(s.open) /\ i + 1 # 1
      BY <2>1, <2>3, <3>1
    <3> QED
      BY <2>4, <3>2 DEF Single
  <2>6. Single(rest)
    <3> SUFFICES ASSUME NEW i \in 1 .. Len(rest), NEW j \in 1 .. Len(rest), rest[i] = rest[j] PROVE i = j
      BY DEF Single
    <3>1. s.open[i + 1] = s.open[j + 1]
      BY <2>1
    <3>2. i + 1 = j + 1
      BY <2>3, <2>4, <3>1 DEF Single
    <3> QED
      BY <3>2
  <2>7. ASSUME NEW x \in Range(s.open) PROVE x = next \/ x \in Range(rest)
    <3>1. PICK i \in 1 .. Len(s.open) : s.open[i] = x
      BY <2>2
    <3>2. CASE i # 1
      <4>1. i - 1 \in 1 .. Len(rest) /\ (i - 1) + 1 = i
        BY <2>1, <3>2
      <4> QED
        BY <2>1, <2>2, <3>1, <4>1
    <3> QED
      BY <2>1, <3>1, <3>2
  <2>8. 1 \in 1 .. Len(s.open)
    BY <2>1
  <2>9. {next} \cup Range(rest) \subseteq Range(s.open)
    BY <2>1, <2>2, <2>3, <2>8
  <2> QED
    BY <2>1, <2>5, <2>6, <2>7, <2>9 DEF rest
<1>3. /\ order \in Seq(names) /\ Len(order) = Len(s.order) + 1 /\ Range(order) = Range(s.order) \cup {next}
      /\ order[Len(s.order) + 1] = next /\ \A i \in 1 .. Len(s.order) : order[i] = s.order[i]
  <2>1. /\ order[Len(s.order) + 1] = next /\ \A i \in 1 .. Len(s.order) : order[i] = s.order[i]
    <3> HIDE DEF next
    <3> QED
      BY <1>0
  <2> HIDE DEF next
  <2> QED
    BY <1>0, <1>2, <2>1, RangeOfAppend
<1>4. next \notin Range(s.order) /\ next \in Range(s.open)
  BY <1>2 DEF PeelInv
<1>5. Single(order)
  <2> HIDE DEF next
  <2> QED
    BY <1>0, <1>2, <1>4, SingleAppend DEF PeelInv
<1>6. \A n \in Range(nodes) :
        left[n] = Len(n.deps) - Cardinality(Range(order) \cap Range(n.deps))
  <2> TAKE n \in Range(nodes)
  <2> DEFINE D == Range(n.deps)
  <2> DEFINE B == Range(s.order) \cap D
  <2>1. /\ IsFiniteSet(D) /\ Len(n.deps) \in Nat
        /\ s.left[n] = Len(n.deps) - Cardinality(B)
        /\ left[n] = IF next \in D THEN s.left[n] - 1 ELSE s.left[n]
    BY <1>0, DepsCounted DEF PeelInv
  <2> HIDE DEF D, next, left
  <2>2. IsFiniteSet(B) /\ Cardinality(B) \in Nat
    BY <2>1, FS_Subset, FS_CardinalityType
  <2>3. CASE next \in D
    <3>1. Range(order) \cap D = B \cup {next} /\ next \notin B
      BY <1>3, <1>4, <2>3
    <3> HIDE DEF B
    <3>2. Cardinality(B \cup {next}) = Cardinality(B) + 1
      BY <2>2, <3>1, FS_AddElement
    <3>3. Cardinality(Range(order) \cap D) = Cardinality(B) + 1
      BY <3>1, <3>2
    <3>4. left[n] = s.left[n] - 1
      BY <2>1, <2>3
    <3> HIDE DEF order
    <3>5. left[n] = Len(n.deps) - Cardinality(Range(order) \cap D)
      BY <2>1, <2>2, <3>3, <3>4
    <3> QED
      BY <3>5 DEF D
  <2>4. CASE next \notin D
    <3>1. Range(order) \cap D = B
      BY <1>3, <2>4
    <3> HIDE DEF B
    <3> QED
      BY <2>1, <2>4, <3>1 DEF D
  <2> QED
    BY <2>3, <2>4
<1>7. /\ freed \in Seq(DraftNodes) /\ Range(freed) = Range(nodes) \cap free /\ Single(freed)
  <2> HIDE DEF free
  <2> QED
    BY NamesDiffer, OnlyProperties, SingleOnly
<1>8. ASSUME NEW n \in free PROVE Range(n.deps) \subseteq Range(order) /\ next \in Range(n.deps) /\ n \in Range(nodes)
  <2> DEFINE D == Range(n.deps)
  <2>1. /\ IsFiniteSet(D) /\ Len(n.deps) \in Nat /\ Cardinality(D) \in Nat /\ Cardinality(D) <= Len(n.deps)
        /\ 0 = Len(n.deps) - Cardinality(Range(order) \cap D)
        /\ next \in D /\ n \in Range(nodes)
    BY <1>6, <1>8, DepsCounted
  <2> HIDE DEF D, next, free, order
  <2> DEFINE B == Range(order) \cap D
  <2>2. B \in SUBSET D
    OBVIOUS
  <2>3. 0 = Len(n.deps) - Cardinality(B)
    BY <2>1
  <2> HIDE DEF B
  <2>4. Cardinality(B) \in Nat /\ Cardinality(B) <= Cardinality(D) /\ (Cardinality(D) = Cardinality(B) => D = B)
    BY <2>1, <2>2, FS_Subset, FS_CardinalityType
  <2>5. D = B
    BY <2>1, <2>3, <2>4
  <2> QED
    BY <2>1, <2>5 DEF B, D
<1> HIDE DEF order, left, free, freed, next
<1>9. /\ more \in Seq(names) /\ Single(more)
      /\ \A x : x \in Range(more) => \E n \in free : n.name = x
  <2>1. /\ Len(freed) \in Nat /\ \A i \in 1 .. Len(freed) : freed[i] \in Range(freed)
    BY <1>7, LenProperties, InRange
  <2>2. \A i \in 1 .. Len(freed) : freed[i] \in Range(nodes) /\ freed[i] \in free
    BY <1>7, <2>1
  <2>3. more \in [1 .. Len(freed) -> names] /\ \A i \in 1 .. Len(freed) : more[i] = freed[i].name
    BY <2>2 DEF NodeNames
  <2> HIDE DEF more, names
  <2>4. more \in Seq(names) /\ Len(more) = Len(freed)
    BY <2>1, <2>3, Built
  <2>5. Single(more)
    BY <1>7, <2>2, <2>3, <2>4, NamesDiffer DEF Single
  <2>6. ASSUME NEW x \in Range(more) PROVE \E n \in free : n.name = x
    <3>1. PICK i \in 1 .. Len(more) : more[i] = x
      BY <2>4, InRange
    <3> QED
      BY <2>2, <2>3, <2>4, <3>1
  <2> QED
    BY <2>4, <2>5, <2>6
<1>10. \A x \in Range(more) : x \notin Range(s.order) /\ x \notin Range(s.open)
  <2> SUFFICES ASSUME NEW x \in Range(more), x \in Range(s.order) \cup Range(s.open) PROVE FALSE
    OBVIOUS
  <2>1. PICK n \in free : n.name = x
    BY <1>9
  <2>2. n \in Range(nodes) /\ next \in Range(n.deps)
    BY <1>8
  <2>3. Range(n.deps) \subseteq Range(s.order)
    <3>1. CASE x \in Range(s.open)
      BY <2>1, <2>2, <3>1 DEF PeelInv
    <3>2. CASE x \in Range(s.order)
      <4>1. PICK i \in 1 .. Len(s.order) : s.order[i] = x
        BY <1>0, <3>2, InRange
      <4>2. Range(n.deps) \subseteq {s.order[j] : j \in 1 .. i - 1}
        BY <2>1, <2>2, <4>1 DEF PeelInv
      <4>3. \A j \in 1 .. i - 1 : j \in 1 .. Len(s.order)
        BY <1>0, <4>1
      <4>4. \A j \in 1 .. Len(s.order) : s.order[j] \in Range(s.order)
        BY <1>0, InRange
      <4> QED
        BY <4>2, <4>3, <4>4
    <3> QED
      BY <3>1, <3>2
  <2> QED
    BY <1>4, <2>2, <2>3
<1> DEFINE open == Tail(s.open) \o more
<1>11. /\ Single(open) /\ Range(open) = Range(Tail(s.open)) \cup Range(more)
  <2>1. Range(Tail(s.open)) \cap Range(more) = {}
    BY <1>2, <1>10
  <2> DEFINE rest == Tail(s.open)
  <2>2. rest \in Seq(names) /\ more \in Seq(names) /\ Single(rest) /\ Single(more) /\ Range(rest) \cap Range(more) = {}
    BY <1>2, <1>9, <2>1
  <2> HIDE DEF rest, more, names
  <2>3. Single(rest \o more) /\ Range(rest \o more) = Range(rest) \cup Range(more)
    BY <2>2, SingleConcat, RangeConcatenation
  <2> QED
    BY <2>3 DEF rest
<1> HIDE DEF open, more
<1>12. Range(order) \cap Range(open) = {}
  BY <1>2, <1>3, <1>10, <1>11, <1>4 DEF PeelInv
<1>13. ASSUME NEW n \in Range(nodes), n.name \in Range(open) PROVE Range(n.deps) \subseteq Range(order)
  <2>1. CASE n.name \in Range(Tail(s.open))
    BY <1>2, <1>3, <2>1 DEF PeelInv
  <2>2. CASE n.name \in Range(more)
    <3>1. PICK m \in free : m.name = n.name
      BY <1>9, <2>2
    <3>2. m = n
      BY <1>8, <3>1, NamesDiffer
    <3> QED
      BY <1>8, <3>2
  <2> QED
    BY <1>11, <1>13, <2>1, <2>2
<1>14. ASSUME NEW n \in Range(nodes), NEW i \in 1 .. Len(order), n.name = order[i]
       PROVE  Range(n.deps) \subseteq {order[j] : j \in 1 .. i - 1}
  <2>1. CASE i \in 1 .. Len(s.order)
    <3>1. Range(n.deps) \subseteq {s.order[j] : j \in 1 .. i - 1}
      BY <1>3, <1>14, <2>1 DEF PeelInv
    <3>2. \A j \in 1 .. i - 1 : j \in 1 .. Len(s.order)
      BY <1>0, <2>1
    <3>3. \A j \in 1 .. i - 1 : s.order[j] = order[j]
      BY <1>3, <3>2
    <3> QED
      BY <3>1, <3>3
  <2>2. CASE i = Len(s.order) + 1
    <3>1. Range(n.deps) \subseteq Range(s.order)
      BY <1>3, <1>4, <1>14, <2>2 DEF PeelInv
    <3>2. \A x \in Range(s.order) : \E j \in 1 .. Len(s.order) : s.order[j] = x
      BY <1>0, InRange
    <3>3. i - 1 = Len(s.order)
      BY <1>0, <2>2
    <3> QED
      BY <1>3, <3>1, <3>2, <3>3
  <2>3. i \in 1 .. Len(s.order) \/ i = Len(s.order) + 1
    BY <1>0, <1>3
  <2> QED
    BY <2>1, <2>2, <2>3
<1> DEFINE p == Peel(nodes, s)
<1>15. p.open = open /\ p.left = left /\ p.order = order
  BY <1>1 DEF open
<1> HIDE DEF p
<1>16. Single(p.order) /\ Single(p.open) /\ Range(p.order) \cap Range(p.open) = {}
  BY <1>5, <1>11, <1>12, <1>15
<1>17. \A n \in Range(nodes) :
         p.left[n] = Len(n.deps) - Cardinality(Range(p.order) \cap Range(n.deps))
  BY <1>6, <1>15
<1>18. \A n \in Range(nodes) : n.name \in Range(p.open) => Range(n.deps) \subseteq Range(p.order)
  BY <1>13, <1>15
<1>19. \A n \in Range(nodes), i \in 1 .. Len(p.order) :
         n.name = p.order[i] => Range(n.deps) \subseteq {p.order[j] : j \in 1 .. i - 1}
  <2> DEFINE Behaved(o) == \A n \in Range(nodes), i \in 1 .. Len(o) :
                             n.name = o[i] => Range(n.deps) \subseteq {o[j] : j \in 1 .. i - 1}
  <2>1. Behaved(order)
    BY <1>14
  <2> HIDE DEF Behaved
  <2>2. Behaved(p.order)
    BY <1>15, <2>1
  <2> QED
    BY <2>2 DEF Behaved
<1>20. PeelInv(nodes, p)
  BY <1>16, <1>17, <1>18, <1>19 DEF PeelInv
<1> QED
  BY <1>20 DEF p

\* In the order of an acceptable draft a name stands once, after the names it waits for.
LEMMA OrderProperties ==
  ASSUME NEW nodes \in Seq(DraftNodes), Acceptable(nodes)
  PROVE  /\ Single(TopologicalOrder(nodes))
         /\ \A n \in Range(nodes), i \in 1 .. Len(TopologicalOrder(nodes)) :
              n.name = TopologicalOrder(nodes)[i]
                => Range(n.deps) \subseteq {TopologicalOrder(nodes)[j] : j \in 1 .. i - 1}
<1> DEFINE N == Len(nodes)
<1>0. N \in Nat
  BY LenProperties
<1>1. PICK run : Orders(run, nodes)
  BY OrderWalk
<1>2. /\ run[0] = Unpeeled(nodes) /\ run[N].order = TopologicalOrder(nodes)
      /\ \A k \in 0 .. N : run[k] \in Peelings(nodes)
      /\ \A k \in 1 .. N : run[k] = IF run[k - 1].open = <<>> THEN run[k - 1] ELSE Peel(nodes, run[k - 1])
  BY <1>1 DEF Orders
<1> DEFINE P == {k \in Nat : k <= N => PeelInv(nodes, run[k])}
<1>3. 0 \in P
  BY <1>2, PeelStarts
<1>4. ASSUME NEW k \in Nat, k \in P PROVE k + 1 \in P
  <2> SUFFICES ASSUME k + 1 <= N PROVE PeelInv(nodes, run[k + 1])
    OBVIOUS
  <2>1. PeelInv(nodes, run[k]) /\ k + 1 \in 1 .. N /\ (k + 1) - 1 = k /\ run[k] \in Peelings(nodes)
    BY <1>0, <1>2, <1>4
  <2>2. run[k + 1] = IF run[k].open = <<>> THEN run[k] ELSE Peel(nodes, run[k])
    BY <1>2, <2>1
  <2> QED
    BY <2>1, <2>2, PeelKeeps
<1>5. N \in P
  <2> HIDE DEF P
  <2> QED
    BY <1>0, <1>3, <1>4, Induction
<1> DEFINE last  == run[N]
<1> DEFINE order == TopologicalOrder(nodes)
<1>6. PeelInv(nodes, last) /\ last.order = order
  BY <1>0, <1>2, <1>5
<1> HIDE DEF last, order
<1>7. /\ Single(order)
      /\ \A n \in Range(nodes), i \in 1 .. Len(order) :
           n.name = order[i] => Range(n.deps) \subseteq {order[j] : j \in 1 .. i - 1}
  <2> DEFINE Behaved(o) == \A n \in Range(nodes), i \in 1 .. Len(o) :
                             n.name = o[i] => Range(n.deps) \subseteq {o[j] : j \in 1 .. i - 1}
  <2>1. Single(last.order) /\ Behaved(last.order)
    BY <1>6 DEF PeelInv
  <2> HIDE DEF Behaved
  <2>2. Single(order) /\ Behaved(order)
    BY <1>6, <2>1
  <2> QED
    BY <2>2 DEF Behaved
<1> QED
  BY <1>7 DEF order

-----------------------------------------------------------------------------
(* How identities come out of each other.                                   *)

\* What was planned in place of b, or in place of what was.
Under(a, b) ==
  /\ a[1] = b[1] /\ Len(b[2]) < Len(a[2])
  /\ \A i \in 1 .. Len(b[2]) : a[2][i] = b[2][i]

\* Where a comes out of b.
Turn(a, b) == a[2][Len(b[2]) + 1]

\* The identities that take the place of t.
Child(c, t) == \E i \in Nat \ {0} : c = <<t.id[1], Append(t.id[2], <<t.rev, i>>)>>

LEMMA SameId ==
  ASSUME NEW a \in Identities, NEW b \in Identities, a[1] = b[1], Len(a[2]) = Len(b[2]),
         \A i \in 1 .. Len(a[2]) : a[2][i] = b[2][i]
  PROVE  a = b
<1>1. a[2] \in Seq(Nat \X Nat) /\ b[2] \in Seq(Nat \X Nat) /\ a = <<a[1], a[2]>> /\ b = <<b[1], b[2]>>
  BY DEF Identities
<1> DEFINE s == a[2]
<1> DEFINE u == b[2]
<1>2. s \in Seq(Nat \X Nat) /\ u \in Seq(Nat \X Nat) /\ Len(s) = Len(u) /\ \A i \in 1 .. Len(s) : s[i] = u[i]
  BY <1>1
<1> HIDE DEF s, u
<1>3. s = u
  BY <1>2, SeqEqual
<1> QED
  BY <1>1, <1>3 DEF s, u

LEMMA IdFacts ==
  ASSUME NEW a \in Identities
  PROVE  Len(a[2]) \in Nat /\ a[2] \in Seq(Nat \X Nat)
  BY LenProperties DEF Identities

\* The revision under which an identity came out of another one is a number.
LEMMA TurnTyped ==
  ASSUME NEW a \in Identities, NEW b \in Identities, Under(a, b)
  PROVE  Turn(a, b)[1] \in Nat
<1> DEFINE path == a[2]
           far == Len(b[2])
<1>1. path \in Seq(Nat \X Nat) /\ Len(path) \in Nat /\ far \in Nat
  BY IdFacts
<1>2. far < Len(path)
  BY DEF Under
<1>3. Turn(a, b) = path[far + 1]
  BY DEF Turn
<1> HIDE DEF path, far
<1>4. path[far + 1] \in Nat \X Nat
  BY <1>1, <1>2, ElementOfSeq
<1> QED
  BY <1>3, <1>4

LEMMA ChildFacts ==
  ASSUME NEW t \in TaskRecords, NEW c \in Identities, Child(c, t)
  PROVE  /\ c[1] = t.id[1] /\ Len(c[2]) = Len(t.id[2]) + 1 /\ Under(c, t.id)
         /\ \A i \in 1 .. Len(t.id[2]) : c[2][i] = t.id[2][i]
         /\ Turn(c, t.id)[1] = t.rev /\ Turn(c, t.id)[2] # 0
<1>1. t.id \in Identities
  BY DEF TaskRecords
<1> DEFINE path == t.id[2]
<1>2. path \in Seq(Nat \X Nat) /\ Len(path) \in Nat
  BY <1>1, IdFacts
<1>3. PICK i \in Nat \ {0} : c = <<t.id[1], Append(path, <<t.rev, i>>)>>
  BY DEF Child
<1> DEFINE last == <<t.rev, i>>
<1>4. last[1] = t.rev /\ last[2] # 0 /\ c[1] = t.id[1] /\ c[2] = Append(path, last)
  BY <1>3
<1> HIDE DEF path, last
<1> DEFINE new == Append(path, last)
<1>5. Len(new) = Len(path) + 1 /\ new[Len(path) + 1] = last /\ \A j \in 1 .. Len(path) : new[j] = path[j]
  BY <1>2
<1> HIDE DEF new
<1>6. c[2] = new
  BY <1>4 DEF new
<1> QED
  BY <1>2, <1>4, <1>5, <1>6 DEF path, Under, Turn

\* What is at or under a child is under its parent, where the child came out.
LEMMA UnderChild ==
  ASSUME NEW t \in TaskRecords, NEW c \in Identities, Child(c, t),
         NEW a \in Identities, a = c \/ Under(a, c)
  PROVE  Under(a, t.id) /\ Turn(a, t.id)[1] = t.rev /\ Turn(a, t.id)[2] # 0
<1>1. t.id \in Identities /\ Len(t.id[2]) \in Nat /\ Len(a[2]) \in Nat /\ Len(c[2]) \in Nat
  BY IdFacts DEF TaskRecords
<1>2. CASE a = c
  BY <1>2, ChildFacts
<1>3. CASE Under(a, c)
  <2> DEFINE m == Len(t.id[2])
  <2>1. /\ c[1] = t.id[1] /\ Len(c[2]) = m + 1 /\ \A i \in 1 .. m : c[2][i] = t.id[2][i]
        /\ c[2][m + 1][1] = t.rev /\ c[2][m + 1][2] # 0
    BY ChildFacts DEF Turn
  <2>2. a[1] = c[1] /\ m + 1 < Len(a[2]) /\ \A i \in 1 .. m + 1 : a[2][i] = c[2][i]
    BY <1>3, <2>1 DEF Under
  <2>3. m + 1 \in 1 .. m + 1 /\ m < Len(a[2]) /\ \A i \in 1 .. m : i \in 1 .. m + 1
    BY <1>1, <2>2
  <2> QED
    BY <2>1, <2>2, <2>3 DEF Under, Turn
<1> QED
  BY <1>2, <1>3

\* What a child is under, its parent is or is under.
LEMMA ChildUnder ==
  ASSUME NEW t \in TaskRecords, NEW c \in Identities, Child(c, t),
         NEW b \in Identities, Under(c, b)
  PROVE  b = t.id \/ (Under(t.id, b) /\ Turn(t.id, b) = Turn(c, b))
<1> DEFINE m == Len(t.id[2])
<1> DEFINE k == Len(b[2])
<1>1. t.id \in Identities /\ m \in Nat /\ k \in Nat
  BY IdFacts DEF TaskRecords
<1>2. /\ c[1] = t.id[1] /\ Len(c[2]) = m + 1 /\ \A i \in 1 .. m : c[2][i] = t.id[2][i]
  BY ChildFacts
<1>3. c[1] = b[1] /\ k < m + 1 /\ \A i \in 1 .. k : c[2][i] = b[2][i]
  BY <1>2 DEF Under
<1>4. \A i \in 1 .. k : i \in 1 .. m
  BY <1>1, <1>3
<1>5. CASE k = m
  <2> DEFINE id == t.id
  <2>0. id \in Identities /\ b[1] = id[1] /\ Len(b[2]) = Len(id[2])
        /\ \A i \in 1 .. Len(b[2]) : b[2][i] = id[2][i]
    BY <1>1, <1>2, <1>3, <1>5
  <2> HIDE DEF id
  <2>1. b = id
    BY <2>0, SameId
  <2> QED
    BY <2>1 DEF id
<1>6. CASE k < m
  <2>1. k + 1 \in 1 .. m
    BY <1>1, <1>6
  <2> QED
    BY <1>2, <1>3, <1>4, <1>6, <2>1 DEF Under, Turn
<1> QED
  BY <1>1, <1>3, <1>5, <1>6

\* A child has one parent.
LEMMA ParentsDiffer ==
  ASSUME NEW t \in TaskRecords, NEW u \in TaskRecords, NEW c \in Identities, Child(c, t), Child(c, u)
  PROVE  t.id = u.id
<1>1. t.id \in Identities /\ u.id \in Identities /\ Len(t.id[2]) \in Nat /\ Len(u.id[2]) \in Nat
  BY IdFacts DEF TaskRecords
<1>2. /\ c[1] = t.id[1] /\ Len(c[2]) = Len(t.id[2]) + 1 /\ \A i \in 1 .. Len(t.id[2]) : c[2][i] = t.id[2][i]
      /\ c[1] = u.id[1] /\ Len(c[2]) = Len(u.id[2]) + 1 /\ \A i \in 1 .. Len(u.id[2]) : c[2][i] = u.id[2][i]
  BY ChildFacts
<1>3. Len(t.id[2]) = Len(u.id[2])
  BY <1>1, <1>2
<1> DEFINE a == t.id
<1> DEFINE b == u.id
<1>4. a \in Identities /\ b \in Identities /\ a[1] = b[1] /\ Len(a[2]) = Len(b[2])
      /\ \A i \in 1 .. Len(a[2]) : a[2][i] = b[2][i]
  BY <1>1, <1>2, <1>3
<1> HIDE DEF a, b
<1>5. a = b
  BY <1>4, SameId
<1> QED
  BY <1>5 DEF a, b

\* The tasks of a rule.
LEMMA RuleIdFacts ==
  ASSUME NEW rule \in Range(Rules), NEW half \in Halves
  PROVE  /\ RuleId(rule, half) \in Identities /\ RuleId(rule, half)[1] = rule.name
         /\ Len(RuleId(rule, half)[2]) = 1
         /\ RuleId(rule, half)[2][1][1] = half /\ RuleId(rule, half)[2][1][2] = 0
<1>1. rule.name \in Names
  BY RulesTyped DEF Names
<1> DEFINE last == <<half, 0>>
<1>2. last \in Nat \X Nat /\ last[1] = half /\ last[2] = 0
  BY DEF Halves
<1> HIDE DEF last
<1> DEFINE path == <<last>>
<1>3. path \in Seq(Nat \X Nat) /\ Len(path) = 1 /\ path[1] = last
  BY <1>2
<1>4. RuleId(rule, half) = <<rule.name, path>>
  BY DEF RuleId, last
<1> HIDE DEF path
<1> QED
  BY <1>1, <1>2, <1>3, <1>4 DEF Identities

\* No child is a rule's task, and what a rule's task is under is nothing's child.
LEMMA RulesApart ==
  ASSUME NEW rule \in Range(Rules), NEW half \in Halves, NEW b \in Identities
  PROVE  /\ \A t \in TaskRecords : Child(b, t) => b # RuleId(rule, half) /\ ~Under(RuleId(rule, half), b)
         /\ Under(RuleId(rule, half), b) => Turn(RuleId(rule, half), b)[2] = 0
         /\ \A r \in Range(Rules), h \in Halves :
              RuleId(r, h) = RuleId(rule, half) => r.name = rule.name /\ h = half
         /\ \A r \in Range(Rules), h \in Halves : ~Under(RuleId(r, h), RuleId(rule, half))
<1> DEFINE id == RuleId(rule, half)
<1>1. /\ id \in Identities /\ id[1] = rule.name /\ Len(id[2]) = 1 /\ id[2][1][1] = half /\ id[2][1][2] = 0
      /\ Len(b[2]) \in Nat
  BY RuleIdFacts, IdFacts
<1> HIDE DEF id
<1>2. ASSUME NEW t \in TaskRecords, Child(b, t) PROVE b # id /\ ~Under(id, b)
  <2> DEFINE m == Len(t.id[2])
  <2>1. m \in Nat /\ Len(b[2]) = m + 1 /\ b[2][m + 1][2] # 0
    BY <1>2, ChildFacts, IdFacts DEF TaskRecords, Turn
  <2>2. b = id => m + 1 = 1
    BY <1>1, <2>1
  <2>3. b # id
    BY <1>1, <2>1, <2>2
  <2>4. ~Under(id, b)
    BY <1>1, <2>1 DEF Under
  <2> QED
    BY <2>3, <2>4
<1>3. Under(id, b) => Turn(id, b)[2] = 0
  <2> SUFFICES ASSUME Under(id, b) PROVE id[2][Len(b[2]) + 1][2] = 0
    BY DEF Turn
  <2>1. Len(b[2]) + 1 = 1
    BY <1>1 DEF Under
  <2> QED
    BY <1>1, <2>1
<1>4. ASSUME NEW r \in Range(Rules), NEW h \in Halves PROVE /\ RuleId(r, h) = id => r.name = rule.name /\ h = half
                                                            /\ ~Under(RuleId(r, h), id)
  <2> DEFINE other == RuleId(r, h)
  <2>1. /\ other \in Identities /\ other[1] = r.name /\ Len(other[2]) = 1 /\ other[2][1][1] = h
    BY RuleIdFacts
  <2> HIDE DEF other
  <2>2. other = id => r.name = rule.name /\ h = half
    BY <1>1, <2>1
  <2>3. ~Under(other, id)
    BY <1>1, <2>1 DEF Under
  <2> QED
    BY <2>2, <2>3 DEF other
<1> QED
  BY <1>2, <1>3, <1>4 DEF id

-----------------------------------------------------------------------------
(* What the planner makes is sound, and a merge keeps it so.                *)

LEMMA TaskFields ==
  ASSUME NEW name, NEW deps
  PROVE  Task(name, deps).id = <<name, <<>>>> /\ Task(name, deps).deps = {<<x, <<>>>> : x \in deps}
  BY DEF Task, Id

LEMMA PlannedSound ==
  ASSUME NEW d \in Drafts, Usable(d)
  PROVE  InOrder(Planned(d), {}) /\ Apart(Planned(d)) /\ \A t \in Range(Planned(d)) : Len(t.id[2]) = 0
<1> DEFINE nodes == Skeleton(d)
<1> DEFINE order == TopologicalOrder(nodes)
<1> DEFINE node(name) == CHOOSE n \in Range(nodes) : n.name = name
<1> DEFINE plan == [i \in 1 .. Len(order) |-> Task(order[i], Range(node(order[i]).deps))]
<1>1. /\ nodes \in Seq(DraftNodes) /\ order \in Seq(NodeNames(nodes)) /\ Len(order) \in Nat
      /\ \A i \in 1 .. Len(order) : order[i] \in NodeNames(nodes)
      /\ Single(order)
      /\ \A n \in Range(nodes), i \in 1 .. Len(order) :
           n.name = order[i] => Range(n.deps) \subseteq {order[j] : j \in 1 .. i - 1}
  <2>1. nodes \in Seq(DraftNodes) /\ Acceptable(nodes)
    BY SkeletonTyped DEF Usable
  <2> HIDE DEF nodes
  <2>2. order \in Seq(NodeNames(nodes))
    BY <2>1, OrderTyped
  <2>3. /\ Single(order)
        /\ \A n \in Range(nodes), i \in 1 .. Len(order) :
             n.name = order[i] => Range(n.deps) \subseteq {order[j] : j \in 1 .. i - 1}
    BY <2>1, OrderProperties
  <2> HIDE DEF order
  <2> QED
    BY <2>1, <2>2, <2>3, LenProperties, ElementOfSeq
<1>2. Planned(d) = plan
  BY DEF Planned
<1> HIDE DEF nodes, order
<1>3. \A i \in 1 .. Len(order) : node(order[i]) \in Range(nodes) /\ node(order[i]).name = order[i]
  BY <1>1 DEF NodeNames
<1> HIDE DEF node
<1>4. \A i \in 1 .. Len(order) : plan[i] = Task(order[i], Range(node(order[i]).deps))
  OBVIOUS
<1>5. plan \in Seq(TaskRecords) /\ Len(plan) = Len(order)
  <2>1. plan \in Seq(TaskRecords)
    BY <1>2, PlannedTyped
  <2>2. DOMAIN plan = 1 .. Len(order)
    OBVIOUS
  <2> HIDE DEF plan
  <2> QED
    BY <1>1, <2>1, <2>2, LenProperties
<1> HIDE DEF plan
<1>6. \A i \in 1 .. Len(plan) : plan[i].id = <<order[i], <<>>>>
  BY <1>4, <1>5, TaskFields
<1>7. Apart(plan)
  <2> SUFFICES ASSUME NEW i \in 1 .. Len(plan), NEW j \in 1 .. Len(plan), plan[i].id = plan[j].id PROVE i = j
    BY DEF Apart
  <2>1. order[i] = order[j]
    BY <1>6
  <2> QED
    BY <1>1, <1>5, <2>1 DEF Single
<1>8. InOrder(plan, {})
  <2> SUFFICES ASSUME NEW i \in 1 .. Len(plan), NEW x \in plan[i].deps PROVE \E j \in 1 .. i - 1 : plan[j].id = x
    BY DEF InOrder
  <2>1. PICK name \in Range(node(order[i]).deps) : x = <<name, <<>>>>
    BY <1>4, <1>5, TaskFields
  <2>2. name \in {order[j] : j \in 1 .. i - 1}
    BY <1>1, <1>3, <1>5, <2>1
  <2>3. PICK j \in 1 .. i - 1 : order[j] = name
    BY <2>2
  <2>4. j \in 1 .. Len(plan)
    BY <1>1, <1>5, <2>3
  <2> QED
    BY <1>6, <2>1, <2>3, <2>4
<1>9. ASSUME NEW t \in Range(plan) PROVE Len(t.id[2]) = 0
  <2>1. PICK i \in 1 .. Len(plan) : plan[i] = t
    BY <1>5, InRange
  <2>2. t.id[2] = <<>>
    BY <1>6, <2>1
  <2> QED
    BY <2>2, EmptySeq
<1> QED
  BY <1>2, <1>7, <1>8, <1>9

LEMMA PlansSound ==
  ASSUME NEW p \in Plans
  PROVE  InOrder(p, {}) /\ Apart(p) /\ \A t \in Range(p) : Len(t.id[2]) = 0
<1> DEFINE direct == Task("direct", {})
<1>1. direct \in TaskRecords /\ direct.deps = {} /\ direct.id[2] = <<>>
  BY TaskTyped DEF Names, Task, Id
<1> HIDE DEF direct
<1> DEFINE s == <<direct>>
<1>2. s \in Seq(TaskRecords) /\ Len(s) = 1 /\ s[1] = direct
  BY <1>1
<1> HIDE DEF s
<1>3. InOrder(s, {}) /\ Apart(s)
  BY <1>1, <1>2 DEF InOrder, Apart
<1>4. ASSUME NEW t \in Range(s) PROVE Len(t.id[2]) = 0
  <2>1. PICK i \in 1 .. Len(s) : s[i] = t
    BY <1>2, InRange
  <2>2. t.id[2] = <<>>
    BY <1>1, <1>2, <2>1
  <2> QED
    BY <2>2, EmptySeq
<1>5. p = s \/ \E d \in Drafts : Usable(d) /\ p = Planned(d)
  BY DEF Plans, s, direct
<1> QED
  BY <1>3, <1>4, <1>5, PlannedSound

Sound(q, done) == InOrder(q, done) /\ Apart(q) /\ Ids(q) \cap done = {}

\* A merge also leaves alone what replanning looks at.
Alike(t, u) == t.id = u.id /\ t.rev = u.rev

LEMMA MergeSound ==
  ASSUME TasksTyped, Merge, Sound(queue, Done)
  PROVE  /\ Sound(queue, Done)'
         /\ \A u \in Range(queue') : \E t \in Range(queue) : Alike(t, u)
         /\ \A u \in TaskSet' : \E t \in TaskSet : Alike(t, u)
         /\ \A t \in TaskSet : \E u \in TaskSet' : Alike(t, u)
         /\ \A t \in Range(queue) : KindOf(t) # "sufficient" => t.id \in Ids(queue)'
<1> DEFINE S    == {t \in Range(queue) : KindOf(t) # "sufficient"}
<1> DEFINE rest == Only(queue, S)
<1> DEFINE say(said, id) == At(said, id, {})
<1> DEFINE worded(said) == [i \in 1 .. Len(rest) |-> Supplement(rest[i], say(said, rest[i].id))]
<1>0. queue \in Seq(TaskRecords) /\ Range(queue) \subseteq TaskRecords /\ completed \subseteq TaskRecords
  BY RangeOfSeq DEF TasksTyped
<1>19. PICK said \in [{t.id : t \in {u \in Range(queue) : Unsolved(u)}} -> SUBSET RuleNames] :
         queue' = worded(said)
  BY DEF Merge, Merged
<1>20. \A id : say(said, id) \in SUBSET RuleNames
  BY <1>19 DEF At
<1> DEFINE new == worded(said)
<1>1. /\ queue' = new
      /\ completed' = completed \cup {t \in Range(queue) : KindOf(t) = "sufficient"}
  BY <1>19 DEF Merge, Merged
<1>2. Done' = Done \cup {t.id : t \in {u \in Range(queue) : KindOf(u) = "sufficient"}}
  BY <1>1 DEF Done
<1>3. /\ rest \in Seq(TaskRecords) /\ Len(rest) \in Nat /\ Single(queue) /\ Single(rest)
      /\ \A t : t \in Range(rest) <=> t \in S
      /\ \A t \in Range(queue), u \in Range(queue) : t.id = u.id => t = u
  <2>1. Single(queue) /\ \A t \in Range(queue), u \in Range(queue) : t.id = u.id => t = u
    BY <1>0, ApartFacts DEF Sound
  <2>2. S \subseteq Range(queue)
    OBVIOUS
  <2> HIDE DEF S
  <2>3. rest \in Seq(TaskRecords) /\ Range(rest) = Range(queue) \cap S /\ Single(rest)
    BY <1>0, <2>1, OnlyProperties, SingleOnly
  <2> QED
    BY <2>1, <2>2, <2>3, LenProperties
<1>4. InOrder(rest, Done')
  <2>1. Done \subseteq Done' /\ \A t \in Range(queue) : t \in S \/ t.id \in Done'
    BY <1>2
  <2>2. InOrder(queue, Done)
    BY DEF Sound
  <2> DEFINE more == Done'
  <2> HIDE DEF S, more
  <2>3. InOrder(rest, more)
    BY <1>0, <2>1, <2>2, OrderedOnly DEF more
  <2> QED
    BY <2>3 DEF more
<1> HIDE DEF rest, say
<1>5. ASSUME NEW t \in TaskRecords, NEW words \in SUBSET RuleNames
      PROVE  /\ Supplement(t, words) \in TaskRecords
             /\ Alike(t, Supplement(t, words)) /\ Supplement(t, words).deps = t.deps
  BY SupplementFacts DEF Alike
<1>6. \A i \in 1 .. Len(rest) : rest[i] \in TaskRecords /\ rest[i] \in S
  BY <1>3, ElementOfSeq, InRange
<1>7. /\ new \in [1 .. Len(rest) -> TaskRecords]
      /\ \A i \in 1 .. Len(rest) : Alike(rest[i], new[i]) /\ new[i].deps = rest[i].deps
  BY <1>5, <1>6, <1>20
<1> HIDE DEF new, S
<1>8. new \in Seq(TaskRecords) /\ Len(new) = Len(rest)
  BY <1>3, <1>7, Built
<1>9. InOrder(new, Done')
  <2> SUFFICES ASSUME NEW i \in 1 .. Len(new) PROVE new[i].deps \subseteq Done' \cup {new[j].id : j \in 1 .. i - 1}
    BY DEF InOrder
  <2>1. rest[i].deps \subseteq Done' \cup {rest[j].id : j \in 1 .. i - 1}
    BY <1>4, <1>8 DEF InOrder
  <2>2. \A j \in 1 .. i - 1 : rest[j].id = new[j].id
    <3>1. \A j \in 1 .. i - 1 : j \in 1 .. Len(rest)
      BY <1>3, <1>8
    <3> QED
      BY <1>7, <3>1 DEF Alike
  <2> QED
    BY <1>7, <1>8, <2>1, <2>2
<1>10. Apart(new)
  <2> SUFFICES ASSUME NEW i \in 1 .. Len(new), NEW j \in 1 .. Len(new), new[i].id = new[j].id PROVE i = j
    BY DEF Apart
  <2>1. rest[i].id = rest[j].id /\ rest[i] \in Range(queue) /\ rest[j] \in Range(queue)
    BY <1>6, <1>7, <1>8 DEF Alike, S
  <2>2. rest[i] = rest[j]
    BY <1>3, <2>1
  <2> QED
    BY <1>3, <1>8, <2>2 DEF Single
<1>11. ASSUME NEW u \in Range(new) PROVE \E t \in S : Alike(t, u)
  <2>1. PICK i \in 1 .. Len(new) : new[i] = u
    BY <1>8, InRange
  <2> QED
    BY <1>6, <1>7, <1>8, <2>1
<1>12. ASSUME NEW t \in S PROVE \E u \in Range(new) : Alike(t, u)
  <2>1. PICK i \in 1 .. Len(rest) : rest[i] = t
    BY <1>3, InRange
  <2>2. new[i] \in Range(new)
    BY <1>8, InRange
  <2> QED
    BY <1>7, <2>1, <2>2
<1>13. Ids(new) \cap Done' = {}
  <2>1. Ids(new) = {t.id : t \in Range(new)} /\ Ids(queue) = {t.id : t \in Range(queue)}
    BY <1>0, <1>8, IdsOfRange
  <2> SUFFICES ASSUME NEW u \in Range(new), u.id \in Done' PROVE FALSE
    BY <2>1
  <2>2. PICK t \in S : t.id = u.id
    BY <1>11 DEF Alike
  <2>3. t \in Range(queue) /\ KindOf(t) # "sufficient" /\ t.id \notin Done
    BY <2>1 DEF S, Sound
  <2>4. PICK v \in Range(queue) : KindOf(v) = "sufficient" /\ v.id = t.id
    BY <1>2, <2>2, <2>3
  <2> QED
    BY <1>3, <2>3, <2>4
<1>14. Sound(queue, Done)'
  <2>1. InOrder(queue', Done') /\ Apart(queue') /\ Ids(queue') \cap Done' = {}
    BY <1>1, <1>9, <1>10, <1>13
  <2> QED
    BY <2>1 DEF Sound, InOrder, Apart, Ids
<1>15. ASSUME NEW t \in TaskSet PROVE \E u \in TaskSet' : Alike(t, u)
  <2>1. t \in completed' \/ t \in S
    BY <1>1, <1>15 DEF TaskSet, S
  <2> QED
    BY <1>1, <1>12, <2>1 DEF TaskSet, Alike
<1>16. ASSUME NEW u \in TaskSet' PROVE \E t \in TaskSet : Alike(t, u)
  <2>1. u \in completed \/ u \in Range(queue) \/ u \in Range(new)
    BY <1>1, <1>16 DEF TaskSet
  <2> QED
    BY <1>11, <2>1 DEF TaskSet, Alike, S
<1>17. \A t \in Range(queue) : KindOf(t) # "sufficient" => t.id \in Ids(queue')
  BY <1>1, <1>8, <1>12, IdsOfRange DEF S, Alike
<1>18. \A u \in Range(queue') : \E t \in Range(queue) : Alike(t, u)
  BY <1>1, <1>11 DEF S
<1> QED
  BY <1>14, <1>15, <1>16, <1>17, <1>18 DEF Ids

-----------------------------------------------------------------------------
(* Replanning keeps a plan sound.                                           *)

\* The tasks in place of t go on from what t waited for, and the last one is t itself.
Takes(p, t) ==
  /\ p \in Seq(TaskRecords) /\ Apart(p)
  /\ \A known : t.deps \subseteq known => InOrder(p, known)
  /\ \E u \in Range(p) : u.id = t.id
  /\ \A u \in Range(p) :
       \/ u.id = t.id /\ u.rev >= t.rev
       \/ Child(u.id, t) /\ \A v \in Range(p) : v.id = t.id => v.rev > t.rev

LEMMA OneTakes ==
  ASSUME NEW t \in TaskRecords, NEW u \in TaskRecords, u.id = t.id, u.deps = t.deps, u.rev >= t.rev
  PROVE  Takes(<<u>>, t)
<1> DEFINE s == <<u>>
<1>1. s \in Seq(TaskRecords) /\ Len(s) = 1 /\ s[1] = u
  OBVIOUS
<1> HIDE DEF s
<1>2. \A x : x \in Range(s) <=> x = u
  BY <1>1, InRange
<1>3. Apart(s)
  BY <1>1 DEF Apart
<1>4. \A known : t.deps \subseteq known => InOrder(s, known)
  BY <1>1 DEF InOrder
<1>5. Takes(s, t)
  BY <1>1, <1>2, <1>3, <1>4 DEF Takes
<1> QED
  BY <1>5 DEF s

LEMMA ReplacedTakes ==
  ASSUME NEW t \in TaskRecords, NEW said \in Phrasings
  PROVE  Takes(Replaced(t, said), t)
<1> DEFINE n == Len(said)
<1> DEFINE one == [i \in 1 .. n |-> <<t.id[1], Append(t.id[2], <<t.rev, i>>)>>]
<1> DEFINE new == [i \in 1 .. n |-> IF i = n THEN t.id ELSE one[i]]
<1> DEFINE all == Replaced(t, said)
<1>0. n \in Nat /\ 1 <= n /\ t.rev \in Nat /\ t.id \in Identities
  BY PhrasingFacts DEF TaskRecords
<1>1. /\ all \in Seq(TaskRecords) /\ Len(all) = n
      /\ \A i \in 1 .. n : /\ all[i].id = new[i] /\ all[i].rev = t.rev + 1
                           /\ all[i].deps = IF i = 1 THEN t.deps ELSE {new[i - 1]}
  <2>0. \A i \in 1 .. n : i # 1 => i - 1 \in 1 .. n
    BY <1>0
  <2>1. all \in Seq(TaskRecords)
    BY ReplacedTyped
  <2>2. /\ DOMAIN all = 1 .. n
        /\ \A i \in 1 .. n : /\ all[i].id = new[i] /\ all[i].rev = t.rev + 1
                             /\ all[i].deps = IF i = 1 THEN t.deps ELSE {new[i - 1]}
    BY <2>0 DEF Replaced
  <2> HIDE DEF all, new, one, n
  <2>3. Len(all) = n
    BY <1>0, <2>1, <2>2, LenProperties
  <2> QED
    BY <2>1, <2>2, <2>3
<1> HIDE DEF n
<1>2. \A i \in 1 .. n : one[i] # t.id
  <2> TAKE i \in 1 .. n
  <2> DEFINE path == t.id[2]
  <2> DEFINE last == <<t.rev, i>>
  <2>1. path \in Seq(Nat \X Nat) /\ last \in Nat \X Nat /\ Len(path) \in Nat
    BY <1>0, IdFacts
  <2> HIDE DEF path, last
  <2>2. Len(Append(path, last)) = Len(path) + 1
    BY <2>1
  <2>3. Append(path, last) # path
    BY <2>1, <2>2
  <2> QED
    BY <2>3 DEF path, last
<1>3. ASSUME NEW i \in 1 .. n, NEW j \in 1 .. n, one[i] = one[j] PROVE i = j
  <2> DEFINE path == t.id[2]
  <2> DEFINE a == <<t.rev, i>>
  <2> DEFINE b == <<t.rev, j>>
  <2>1. path \in Seq(Nat \X Nat) /\ a \in Nat \X Nat /\ b \in Nat \X Nat /\ Len(path) \in Nat
    BY <1>0, IdFacts
  <2>2. Append(path, a) = Append(path, b)
    BY <1>3
  <2>3. a[2] = i /\ b[2] = j
    OBVIOUS
  <2> HIDE DEF path, a, b
  <2>4. Append(path, a)[Len(path) + 1] = a /\ Append(path, b)[Len(path) + 1] = b
    BY <2>1
  <2> QED
    BY <2>2, <2>3, <2>4
<1>4. \A i \in 1 .. n : Child(one[i], t)
  <2> TAKE i \in 1 .. n
  <2>1. i \in Nat \ {0} /\ one[i] = <<t.id[1], Append(t.id[2], <<t.rev, i>>)>>
    BY <1>0
  <2> HIDE DEF one
  <2> QED
    BY <2>1 DEF Child
<1>5. \A i \in 1 .. n : (i = n => all[i].id = t.id) /\ (i # n => all[i].id = one[i])
  <2> HIDE DEF all, one
  <2> QED
    BY <1>1
<1> HIDE DEF all, one, new
<1>6. \A x : x \in Range(all) <=> \E i \in 1 .. n : all[i] = x
  BY <1>1, InRange
<1>7. Apart(all)
  <2> SUFFICES ASSUME NEW i \in 1 .. n, NEW j \in 1 .. n, all[i].id = all[j].id PROVE i = j
    BY <1>1 DEF Apart
  <2> QED
    BY <1>2, <1>3, <1>5
<1>8. ASSUME NEW known, t.deps \subseteq known PROVE InOrder(all, known)
  <2> SUFFICES ASSUME NEW i \in 1 .. n PROVE all[i].deps \subseteq known \cup {all[j].id : j \in 1 .. i - 1}
    BY <1>1 DEF InOrder
  <2>1. CASE i = 1
    BY <1>1, <1>8, <2>1
  <2>2. CASE i # 1
    <3>1. i - 1 \in 1 .. n /\ i - 1 \in 1 .. i - 1
      BY <1>0, <2>2
    <3>2. all[i].deps = {new[i - 1]} /\ all[i - 1].id = new[i - 1]
      BY <1>1, <2>2, <3>1
    <3> QED
      BY <3>1, <3>2
  <2> QED
    BY <2>1, <2>2
<1>9. n \in 1 .. n
  BY <1>0
<1>10. \A i \in 1 .. n : all[i].rev = t.rev + 1
  BY <1>1
<1>11. \E u \in Range(all) : u.id = t.id
  <2>1. all[n] \in Range(all) /\ all[n].id = t.id
    BY <1>5, <1>6, <1>9
  <2> QED
    BY <2>1
<1>12. ASSUME NEW u \in Range(all)
       PROVE  \/ u.id = t.id /\ u.rev >= t.rev
              \/ Child(u.id, t) /\ \A v \in Range(all) : v.id = t.id => v.rev > t.rev
  <2>1. PICK i \in 1 .. n : all[i] = u
    BY <1>6
  <2>2. t.rev + 1 > t.rev /\ t.rev + 1 >= t.rev
    BY <1>0
  <2>3. \A v \in Range(all) : v.rev = t.rev + 1
    BY <1>10, <1>6
  <2> QED
    BY <1>4, <1>5, <2>1, <2>2, <2>3
<1>13. Takes(all, t)
  BY <1>1, <1>7, <1>8, <1>11, <1>12 DEF Takes
<1> QED
  BY <1>13 DEF all

LEMMA RevisedTakes ==
  ASSUME NEW t \in TaskRecords, NEW said \in Phrasings
  PROVE  Takes(Revised(t, said), t)
<1> DEFINE next == [t EXCEPT !.rev = @ + 1]
<1>0. t.rev \in Nat
  BY DEF TaskRecords
<1>1. /\ next \in TaskRecords /\ next.id = t.id /\ next.deps = t.deps
      /\ next.rev >= t.rev /\ t.rev >= t.rev
  BY <1>0 DEF TaskRecords
<1> HIDE DEF next
<1>2. Takes(<<t>>, t) /\ Takes(<<next>>, t)
  BY <1>1, OneTakes
<1>3. CASE t.id \notin DOMAIN retry
  <2>1. Revised(t, said) = <<t>>
    BY <1>3 DEF Revised
  <2> QED
    BY <1>2, <2>1
<1>4. CASE t.id \in DOMAIN retry /\ NeedsReplan(t)
  <2>1. Revised(t, said) = Replaced(t, said)
    BY <1>4 DEF Revised
  <2> QED
    BY <2>1, ReplacedTakes
<1>5. CASE t.id \in DOMAIN retry /\ ~NeedsReplan(t)
  <2>1. Revised(t, said) = <<next>>
    BY <1>5 DEF Revised, next
  <2> QED
    BY <1>2, <2>1
<1> QED
  BY <1>3, <1>4, <1>5

\* What replanning relies on.  Whatever came out of an open task came out of an earlier
\* revision of it, or is a rule's task; and what came out of a rule's task did not outlive it.
Named(q, c) ==
  \A t \in Range(q), u \in Range(q) \cup c :
    Under(u.id, t.id) => Turn(u.id, t.id)[2] = 0 \/ Turn(u.id, t.id)[1] < t.rev

Rooted(q, c) ==
  \A rule \in Range(Rules), half \in Halves, u \in Range(q) \cup c :
    Under(u.id, RuleId(rule, half)) => \E v \in Range(q) \cup c : v.id = RuleId(rule, half)

\* How the tasks of a new plan relate to those of the old one.
Revision(q, new) ==
  \A x \in Range(new) : \E t \in Range(q) :
    \/ x.id = t.id /\ x.rev >= t.rev
    \/ Child(x.id, t) /\ \A v \in Range(new) : v.id = t.id => v.rev > t.rev

LEMMA NoChild ==
  ASSUME NEW q \in Seq(TaskRecords), NEW c \in SUBSET TaskRecords, Named(q, c),
         NEW t \in Range(q), NEW id \in Identities, Child(id, t),
         NEW u \in Range(q) \cup c
  PROVE  u.id # id /\ ~Under(u.id, id)
<1>1. t \in TaskRecords /\ u \in TaskRecords /\ u.id \in Identities /\ t.rev \in Nat
  <2>1. t \in TaskRecords /\ u \in TaskRecords
    BY RangeOfSeq
  <2> QED
    BY <2>1 DEF TaskRecords
<1> SUFFICES ASSUME u.id = id \/ Under(u.id, id) PROVE FALSE
  OBVIOUS
<1> DEFINE a == u.id
<1> DEFINE turn == Turn(a, t.id)
<1>2. Under(a, t.id) /\ turn[1] = t.rev /\ turn[2] # 0
  <2>1. a \in Identities /\ (a = id \/ Under(a, id))
    BY <1>1
  <2> HIDE DEF a
  <2> QED
    BY <1>1, <2>1, UnderChild
<1>3. turn[2] = 0 \/ turn[1] < t.rev
  BY <1>2 DEF Named
<1> HIDE DEF turn, a
<1> QED
  BY <1>1, <1>2, <1>3

LEMMA RevisionNamed ==
  ASSUME NEW q \in Seq(TaskRecords), NEW c \in SUBSET TaskRecords, NEW new \in Seq(TaskRecords),
         Apart(q), Named(q, c), Revision(q, new)
  PROVE  Named(new, c)
<1>0. /\ \A t \in Range(q) : t \in TaskRecords /\ t.id \in Identities /\ t.rev \in Nat
      /\ \A t \in Range(new) : t \in TaskRecords /\ t.id \in Identities /\ t.rev \in Nat
      /\ \A t \in Range(q), u \in Range(q) : t.id = u.id => t = u
  <2>1. Range(q) \subseteq TaskRecords /\ Range(new) \subseteq TaskRecords
    BY RangeOfSeq
  <2> QED
    BY <2>1, ApartFacts DEF TaskRecords
<1> SUFFICES ASSUME NEW x \in Range(new), NEW y \in Range(new) \cup c, Under(y.id, x.id)
             PROVE  Turn(y.id, x.id)[2] = 0 \/ Turn(y.id, x.id)[1] < x.rev
  BY DEF Named
<1>1. PICK t \in Range(q) :
        \/ x.id = t.id /\ x.rev >= t.rev
        \/ Child(x.id, t) /\ \A v \in Range(new) : v.id = t.id => v.rev > t.rev
  BY DEF Revision
\* What y comes from: an old task with its identity, or one it is a child of.
<1> DEFINE Stays(u) == u \in Range(q) \cup c /\ y.id = u.id
<1> DEFINE Comes(u) == u \in Range(q) /\ Child(y.id, u) /\ \A v \in Range(new) : v.id = u.id => v.rev > u.rev
<1>2. \E u \in TaskRecords : Stays(u) \/ Comes(u)
  <2>1. CASE y \in c
    BY <2>1
  <2>2. CASE y \in Range(new)
    <3>1. PICK u \in Range(q) :
            \/ y.id = u.id /\ y.rev >= u.rev
            \/ Child(y.id, u) /\ \A v \in Range(new) : v.id = u.id => v.rev > u.rev
      BY <2>2 DEF Revision
    <3>2. u \in TaskRecords
      BY <1>0
    <3> QED
      BY <3>1, <3>2
  <2> QED
    BY <2>1, <2>2
<1>3. PICK u \in TaskRecords : Stays(u) \/ Comes(u)
  BY <1>2
<1>4. y.id \in Identities /\ u.id \in Identities /\ x.id \in Identities /\ t.rev \in Nat /\ x.rev \in Nat
  <2>1. y \in TaskRecords
    BY <1>0
  <2> QED
    BY <1>0, <1>3, <2>1 DEF TaskRecords
<1>5. ASSUME x.id = t.id, x.rev >= t.rev PROVE Turn(y.id, x.id)[2] = 0 \/ Turn(y.id, x.id)[1] < x.rev
  <2>1. CASE Stays(u)
    <3>1. Turn(y.id, t.id)[2] = 0 \/ Turn(y.id, t.id)[1] < t.rev
      BY <1>5, <2>1 DEF Named
    <3>2. CASE Turn(y.id, t.id)[2] = 0
      BY <1>5, <3>2
    <3>3. CASE Turn(y.id, t.id)[1] < t.rev
      <4>1. Under(u.id, t.id)
        BY <1>5, <2>1
      <4> DEFINE k == Turn(y.id, t.id)[1]
      <4>2. k \in Nat
        <5>1. Under(y.id, t.id) /\ y.id \in Identities /\ t.id \in Identities
          BY <1>4, <1>5
        <5> QED
          BY <5>1, TurnTyped
      <4>3. k < t.rev
        BY <3>3
      <4> HIDE DEF k
      <4>4. k < x.rev
        BY <1>4, <1>5, <4>2, <4>3
      <4> QED
        BY <1>5, <4>4 DEF k
    <3> QED
      BY <3>1, <3>2, <3>3
  <2>2. CASE Comes(u)
    <3>1. x.id = u.id \/ (Under(u.id, x.id) /\ Turn(u.id, x.id) = Turn(y.id, x.id))
      BY <1>3, <1>4, <2>2, ChildUnder
    <3>2. CASE x.id = u.id
      <4>1. Turn(y.id, u.id)[1] = u.rev
        BY <1>4, <2>2, ChildFacts
      <4>2. x.rev > u.rev
        BY <2>2, <3>2
      <4>3. u.rev \in Nat
        BY <1>3 DEF TaskRecords
      <4>4. u.rev < x.rev
        BY <1>4, <4>2, <4>3
      <4> QED
        BY <3>2, <4>1, <4>4
    <3>3. CASE Under(u.id, x.id) /\ Turn(u.id, x.id) = Turn(y.id, x.id)
      <4>1. Turn(u.id, t.id)[2] = 0 \/ Turn(u.id, t.id)[1] < t.rev
        BY <1>5, <2>2, <3>3 DEF Named
      <4> DEFINE turn == Turn(u.id, t.id)
      <4>2. turn[1] \in Nat
        <5>1. Under(u.id, t.id) /\ u.id \in Identities /\ t.id \in Identities
          BY <1>4, <1>5, <3>3
        <5> QED
          BY <5>1, TurnTyped
      <4>3. turn = Turn(y.id, x.id)
        BY <1>5, <3>3
      <4> HIDE DEF turn
      <4>4. turn[2] = 0 \/ turn[1] < x.rev
        <5>1. turn[2] = 0 \/ turn[1] < t.rev
          BY <4>1 DEF turn
        <5> QED
          BY <1>4, <1>5, <4>2, <5>1
      <4> QED
        BY <4>3, <4>4
    <3> QED
      BY <3>1, <3>2, <3>3
  <2> QED
    BY <1>3, <2>1, <2>2
<1>6. ASSUME Child(x.id, t) PROVE FALSE
  <2>1. ASSUME NEW v \in Range(q) \cup c PROVE v.id # x.id /\ ~Under(v.id, x.id)
    BY <1>4, <1>6, NoChild
  <2>2. CASE Stays(u)
    BY <2>1, <2>2
  <2>3. CASE Comes(u)
    <3>1. x.id = u.id \/ Under(u.id, x.id)
      BY <1>3, <1>4, <2>3, ChildUnder
    <3> QED
      BY <2>1, <2>3, <3>1
  <2> QED
    BY <1>3, <2>2, <2>3
<1> QED
  BY <1>1, <1>5, <1>6

LEMMA RevisionRooted ==
  ASSUME NEW q \in Seq(TaskRecords), NEW c \in SUBSET TaskRecords, NEW new \in Seq(TaskRecords),
         Rooted(q, c), Revision(q, new), \A t \in Range(q) : \E v \in Range(new) : v.id = t.id
  PROVE  Rooted(new, c)
<1> SUFFICES ASSUME NEW rule \in Range(Rules), NEW half \in Halves, NEW y \in Range(new) \cup c,
                    Under(y.id, RuleId(rule, half))
             PROVE  \E v \in Range(new) \cup c : v.id = RuleId(rule, half)
  BY DEF Rooted
<1> DEFINE id == RuleId(rule, half)
<1>0. id \in Identities
  BY RuleIdFacts
<1>1. /\ \A t \in Range(q) : t \in TaskRecords
      /\ \A t \in Range(new) \cup c : t.id \in Identities
  <2>1. Range(q) \subseteq TaskRecords /\ Range(new) \subseteq TaskRecords
    BY RangeOfSeq
  <2> QED
    BY <2>1 DEF TaskRecords
<1>2. Under(y.id, id)
  OBVIOUS
<1>3. ASSUME NEW t \in Range(q) \cup c, t.id = id \/ Under(t.id, id)
      PROVE  \E v \in Range(new) \cup c : v.id = id
  <2>1. PICK u \in Range(q) \cup c : u.id = id
    BY <1>3 DEF Rooted
  <2> HIDE DEF id
  <2> QED
    BY <2>1
<1> HIDE DEF id
<1>4. ASSUME y \in c PROVE \E v \in Range(new) \cup c : v.id = id
  BY <1>2, <1>3, <1>4
<1>5. ASSUME y \in Range(new) PROVE \E v \in Range(new) \cup c : v.id = id
  <2>1. PICK t \in Range(q) : y.id = t.id \/ Child(y.id, t)
    BY <1>5 DEF Revision
  <2>2. t.id = id \/ Under(t.id, id)
    <3>1. CASE Child(y.id, t)
      BY <1>0, <1>1, <1>2, <3>1, ChildUnder
    <3> QED
      BY <1>2, <2>1, <3>1
  <2> QED
    BY <1>3, <2>2
<1>6. \E v \in Range(new) \cup c : v.id = id
  BY <1>4, <1>5
<1> QED
  BY <1>6 DEF id

LEMMA RevisedSound ==
  ASSUME TasksTyped, Sound(queue, Done), Named(queue, completed), Rooted(queue, completed),
         NEW said \in Replies, NEW new,
         new = FlattenSeq([i \in 1 .. Len(queue) |-> Revised(queue[i], At(said, queue[i].id, <<{}>>))])
  PROVE  /\ new \in Seq(TaskRecords) /\ Sound(new, Done)
         /\ Named(new, completed) /\ Rooted(new, completed)
<1> DEFINE N  == Len(queue)
<1> DEFINE ss == [i \in 1 .. N |-> Revised(queue[i], At(said, queue[i].id, <<{}>>))]
<1>0. /\ queue \in Seq(TaskRecords) /\ completed \in SUBSET TaskRecords /\ N \in Nat
      /\ \A i \in 1 .. N : queue[i] \in TaskRecords /\ queue[i] \in Range(queue)
      /\ \A x : x \in Range(queue) <=> \E i \in 1 .. N : queue[i] = x
      /\ \A i \in 1 .. N, j \in 1 .. N : queue[i].id = queue[j].id => i = j
      /\ \A i \in 1 .. N : queue[i].deps \subseteq Done \cup {queue[j].id : j \in 1 .. i - 1}
      /\ \A i \in 1 .. N : queue[i].id \notin Done
  <2>1. queue \in Seq(TaskRecords) /\ completed \in SUBSET TaskRecords /\ N \in Nat
    BY LenProperties DEF TasksTyped
  <2>2. \A i \in 1 .. N : queue[i] \in TaskRecords
    BY <2>1, ElementOfSeq
  <2>3. \A x : x \in Range(queue) <=> \E i \in 1 .. N : queue[i] = x
    BY <2>1, InRange
  <2>4. \A i \in 1 .. N, j \in 1 .. N : queue[i].id = queue[j].id => i = j
    BY DEF Sound, Apart
  <2>5. \A i \in 1 .. N : queue[i].deps \subseteq Done \cup {queue[j].id : j \in 1 .. i - 1}
    BY DEF Sound, InOrder
  <2>6. \A i \in 1 .. N : queue[i].id \notin Done
    BY DEF Sound, Ids
  <2> QED
    BY <2>1, <2>2, <2>3, <2>4, <2>5, <2>6
<1>1. ASSUME NEW i \in 1 .. N
      PROVE  Takes(ss[i], queue[i])
  <2> DEFINE t == queue[i]
  <2> DEFINE reply == At(said, queue[i].id, <<{}>>)
  <2>1. reply \in Phrasings
    BY ReplyTyped
  <2>2. ss[i] = Revised(t, reply) /\ t \in TaskRecords
    BY <1>0
  <2> HIDE DEF t, reply, ss
  <2>3. Takes(ss[i], t)
    BY <2>1, <2>2, RevisedTakes
  <2> QED
    BY <2>3 DEF t
<1>2. new = FlattenSeq(ss) /\ DOMAIN ss = 1 .. N
  OBVIOUS
<1> HIDE DEF ss
<1>3. ss \in Seq(Seq(TaskRecords)) /\ Len(ss) = N
  <2>1. \A i \in 1 .. N : ss[i] \in Seq(TaskRecords)
    BY <1>1 DEF Takes
  <2>2. ss \in [1 .. N -> Seq(TaskRecords)]
    BY <1>0, <2>1 DEF ss
  <2> QED
    BY <1>0, <2>2, Built
<1>4. /\ new \in Seq(TaskRecords)
      /\ \A x : x \in Range(new) <=> \E i \in 1 .. N : x \in Range(ss[i])
  BY <1>2, <1>3, FlattenProperties
<1>5. \A i \in 1 .. N : /\ ss[i] \in Seq(TaskRecords) /\ Ids(ss[i]) = {u.id : u \in Range(ss[i])}
                        /\ \A u \in Range(ss[i]) : u.id \in Identities
  <2> TAKE i \in 1 .. N
  <2> DEFINE s == ss[i]
  <2>1. s \in Seq(TaskRecords)
    BY <1>1 DEF Takes
  <2> HIDE DEF s
  <2>2. Ids(s) = {u.id : u \in Range(s)} /\ Range(s) \subseteq TaskRecords
    BY <2>1, IdsOfRange, RangeOfSeq
  <2> QED
    BY <2>1, <2>2 DEF s, TaskRecords
<1>6. ASSUME NEW i \in 1 .. N, NEW u \in Range(ss[i])
      PROVE  \/ u.id = queue[i].id /\ u.rev >= queue[i].rev
             \/ Child(u.id, queue[i]) /\ \A v \in Range(ss[i]) : v.id = queue[i].id => v.rev > queue[i].rev
  BY <1>1 DEF Takes
\* No new identity is in the plan already.
<1>7. ASSUME NEW i \in 1 .. N, NEW id \in Identities, Child(id, queue[i]), NEW u \in Range(queue) \cup completed
      PROVE  u.id # id
  BY <1>0, <1>7, NoChild
<1>8. ASSUME NEW i \in 1 .. N, NEW j \in 1 .. N, NEW u \in Range(ss[i]), NEW v \in Range(ss[j]), u.id = v.id
      PROVE  i = j
  <2>1. u.id \in Identities
    BY <1>5
  <2>2. CASE Child(u.id, queue[i]) /\ Child(v.id, queue[j])
    <3>1. queue[i].id = queue[j].id
      BY <1>0, <1>8, <2>1, <2>2, ParentsDiffer
    <3> QED
      BY <1>0, <3>1
  <2>3. CASE ~(Child(u.id, queue[i]) /\ Child(v.id, queue[j]))
    <3>1. u.id = queue[i].id \/ v.id = queue[j].id
      BY <1>6, <2>3
    <3>2. u.id = queue[i].id => ~Child(v.id, queue[j])
      BY <1>0, <1>7, <1>8, <2>1
    <3>3. v.id = queue[j].id => ~Child(u.id, queue[i])
      BY <1>0, <1>7, <1>8, <2>1
    <3>4. u.id = queue[i].id /\ v.id = queue[j].id
      BY <1>6, <3>1, <3>2, <3>3
    <3> QED
      BY <1>0, <1>8, <3>4
  <2> QED
    BY <2>2, <2>3
<1>9. InOrder(new, Done) /\ Apart(new)
  <2>1. \A n \in 1 .. N, m \in 1 .. N : n # m => Ids(ss[n]) \cap Ids(ss[m]) = {}
    <3> SUFFICES ASSUME NEW n \in 1 .. N, NEW m \in 1 .. N, n # m, NEW x \in Ids(ss[n]), x \in Ids(ss[m])
                 PROVE  FALSE
      OBVIOUS
    <3>1. PICK u \in Range(ss[n]) : u.id = x
      BY <1>5
    <3>2. PICK v \in Range(ss[m]) : v.id = x
      BY <1>5
    <3> QED
      BY <1>8, <3>1, <3>2
  <2>2. \A n \in 1 .. N : Apart(ss[n])
    BY <1>1 DEF Takes
  <2>3. ASSUME NEW n \in 1 .. N PROVE InOrder(ss[n], Done \cup UNION {Ids(ss[j]) : j \in 1 .. n - 1})
    <3>1. \A j \in 1 .. n - 1 : j \in 1 .. N
      BY <1>0
    <3>2. \A j \in 1 .. n - 1 : queue[j].id \in Ids(ss[j])
      BY <1>1, <1>5, <3>1 DEF Takes
    <3> DEFINE known == Done \cup UNION {Ids(ss[j]) : j \in 1 .. n - 1}
    <3>3. queue[n].deps \subseteq known
      BY <1>0, <3>2
    <3> HIDE DEF known
    <3>4. InOrder(ss[n], known)
      BY <1>1, <3>3 DEF Takes
    <3> QED
      BY <3>4 DEF known
  <2> QED
    BY <1>2, <1>3, <2>1, <2>2, <2>3, OrderedFlatten
<1>10. Ids(new) \cap Done = {}
  <2> SUFFICES ASSUME NEW u \in Range(new), u.id \in Done PROVE FALSE
    BY <1>4, IdsOfRange
  <2>1. PICK i \in 1 .. N : u \in Range(ss[i])
    BY <1>4
  <2>2. u.id # queue[i].id
    BY <1>0
  <2>3. Child(u.id, queue[i]) /\ u.id \in Identities
    BY <1>5, <1>6, <2>1, <2>2
  <2>4. PICK t \in completed : t.id = u.id
    BY DEF Done
  <2> QED
    BY <1>7, <2>3, <2>4
<1>11. Revision(queue, new)
  <2>1. ASSUME NEW x \in Range(new)
        PROVE  \E t \in Range(queue) :
                 \/ x.id = t.id /\ x.rev >= t.rev
                 \/ Child(x.id, t) /\ \A v \in Range(new) : v.id = t.id => v.rev > t.rev
    <3>1. PICK i \in 1 .. N : x \in Range(ss[i])
      BY <1>4
    <3>3. CASE x.id = queue[i].id /\ x.rev >= queue[i].rev
      BY <1>0, <3>3
    <3>4. CASE Child(x.id, queue[i]) /\ \A v \in Range(ss[i]) : v.id = queue[i].id => v.rev > queue[i].rev
      <4>1. ASSUME NEW v \in Range(new), v.id = queue[i].id PROVE v.rev > queue[i].rev
        <5>1. PICK j \in 1 .. N : v \in Range(ss[j])
          BY <1>4
        <5>2. PICK u \in Range(ss[i]) : u.id = queue[i].id
          BY <1>1 DEF Takes
        <5>3. i = j
          BY <1>8, <4>1, <5>1, <5>2
        <5> QED
          BY <3>4, <4>1, <5>1, <5>3
      <4> QED
        BY <1>0, <3>4, <4>1
    <3> QED
      BY <1>6, <3>1, <3>3, <3>4
  <2> QED
    BY <2>1 DEF Revision
<1>12. ASSUME NEW t \in Range(queue) PROVE \E v \in Range(new) : v.id = t.id
  <2>1. PICK i \in 1 .. N : queue[i] = t
    BY <1>0
  <2>2. PICK v \in Range(ss[i]) : v.id = t.id
    BY <1>1, <2>1 DEF Takes
  <2> QED
    BY <1>4, <2>2
<1>13. Named(new, completed) /\ Rooted(new, completed)
  BY <1>0, <1>4, <1>11, <1>12, RevisionNamed, RevisionRooted DEF Sound
<1> QED
  BY <1>4, <1>9, <1>10, <1>13 DEF Sound

-----------------------------------------------------------------------------
(* What the rules add keeps a plan sound.                                   *)

LEMMA SingleFlatten ==
  ASSUME NEW A, NEW ss \in Seq(Seq(A)), \A n \in 1 .. Len(ss) : Single(ss[n]),
         \A n \in 1 .. Len(ss), m \in 1 .. Len(ss), x \in A : x \in Range(ss[n]) /\ x \in Range(ss[m]) => n = m
  PROVE  Single(FlattenSeq(ss))
<1> DEFINE N == Len(ss)
<1>0. N \in Nat /\ \A n \in 1 .. N : ss[n] \in Seq(A)
  BY LenProperties, ElementOfSeq
<1>1. PICK f : Joins(f, A, ss)
  BY FlattenWalk
<1>2. /\ f[0] = <<>> /\ f[N] = FlattenSeq(ss) /\ \A n \in 0 .. N : f[n] \in Seq(A)
      /\ \A n \in 1 .. N : f[n] = f[n - 1] \o ss[n]
  BY <1>1 DEF Joins
<1> DEFINE Good(n) == Single(f[n]) /\ \A x \in Range(f[n]) : \E i \in 1 .. n : x \in Range(ss[i])
<1> DEFINE P == {n \in Nat : n <= N => Good(n)}
<1>3. 0 \in P
  BY <1>2, RangeOfEmpty, EmptySeq DEF Single
<1>4. ASSUME NEW n \in Nat, n \in P PROVE n + 1 \in P
  <2> DEFINE k == n + 1
  <2> SUFFICES ASSUME k <= N PROVE Good(k)
    OBVIOUS
  <2> DEFINE s == f[n]
  <2> DEFINE u == ss[k]
  <2>1. /\ k \in 1 .. N /\ s \in Seq(A) /\ u \in Seq(A) /\ f[k] = s \o u /\ Good(n)
        /\ \A i \in 1 .. n : i \in 1 .. N /\ i \in 1 .. k /\ i # k
    <3>1. k \in 1 .. N /\ k - 1 = n /\ n \in 0 .. N
      BY <1>0
    <3>2. \A i \in 1 .. n : i \in 1 .. N /\ i \in 1 .. k /\ i # k
      BY <1>0
    <3>3. Good(n)
      BY <1>0, <1>4
    <3> HIDE DEF k, Good
    <3>4. s \in Seq(A) /\ u \in Seq(A) /\ f[k] = s \o u
      BY <1>0, <1>2, <3>1
    <3> QED
      BY <3>1, <3>2, <3>3, <3>4
  <2>2. Single(s) /\ Single(u) /\ \A x \in Range(s) : \E i \in 1 .. n : x \in Range(ss[i])
    BY <2>1
  <2> HIDE DEF s
  <2>3. Range(s) \cap Range(u) = {}
    <3> SUFFICES ASSUME NEW x \in Range(s), x \in Range(u) PROVE FALSE
      OBVIOUS
    <3>1. PICK i \in 1 .. n : x \in Range(ss[i])
      BY <2>2
    <3>2. x \in A
      BY <2>1, RangeOfSeq
    <3> QED
      BY <2>1, <3>1, <3>2
  <2> HIDE DEF u
  <2>4. Single(s \o u) /\ Range(s \o u) = Range(s) \cup Range(u)
    BY <2>1, <2>2, <2>3, SingleConcat, RangeConcatenation
  <2>5. \A x \in Range(s \o u) : \E i \in 1 .. k : x \in Range(ss[i])
    <3> TAKE x \in Range(s \o u)
    <3>1. CASE x \in Range(s)
      BY <2>1, <2>2, <3>1
    <3>2. CASE x \in Range(u)
      <4>1. k \in 1 .. k
        OBVIOUS
      <4> QED
        BY <3>2, <4>1 DEF u
    <3> QED
      BY <2>4, <3>1, <3>2
  <2> HIDE DEF k
  <2> QED
    BY <2>1, <2>4, <2>5
<1>5. N \in P
  <2> HIDE DEF P
  <2> QED
    BY <1>0, <1>3, <1>4, Induction
<1> QED
  BY <1>0, <1>2, <1>5

\* No rule is there twice, and a rule is known by its name.
LEMMA RulesDiffer ==
  /\ Single(Rules)
  /\ \A r \in Range(Rules), s \in Range(Rules) : r.name = s.name => r = s
<1> DEFINE r1 == [name |-> "contract", tagged |-> FALSE]
<1> DEFINE r2 == [name |-> "injury", tagged |-> TRUE]
<1> DEFINE r3 == [name |-> "social", tagged |-> TRUE]
<1> DEFINE r4 == [name |-> "overtime", tagged |-> TRUE]
<1> DEFINE r5 == [name |-> "noncompete", tagged |-> TRUE]
<1> DEFINE r6 == [name |-> "probation", tagged |-> TRUE]
<1> DEFINE r7 == [name |-> "dispatch", tagged |-> TRUE]
<1> DEFINE All == {r1, r2, r3, r4, r5, r6, r7}
<1>1. RuleTable = <<r1, r2, r3, r4, r5, r6, r7>>
  BY DEF RuleTable
<1>2. /\ r1.name = "contract" /\ r2.name = "injury" /\ r3.name = "social" /\ r4.name = "overtime"
      /\ r5.name = "noncompete" /\ r6.name = "probation" /\ r7.name = "dispatch"
  OBVIOUS
<1> HIDE DEF r1, r2, r3, r4, r5, r6, r7
<1>3. \A r \in All, s \in All : r.name = s.name => r = s
  BY <1>2
<1>4. RuleTable \in Seq(All) /\ Len(RuleTable) = 7
  BY <1>1
<1>5. Single(RuleTable)
  BY <1>1, <1>2 DEF Single
<1> HIDE DEF All
<1> DEFINE S == {r \in Range(RuleTable) : r.name \in Observable}
<1> HIDE DEF S
<1>6. Only(RuleTable, S) \in Seq(All) /\ Single(Only(RuleTable, S))
  BY <1>4, <1>5, OnlyProperties, SingleOnly
<1>7. Rules \in Seq(All) /\ Single(Rules)
  BY <1>6 DEF Rules, S
<1> QED
  BY <1>3, <1>7, RangeOfSeq

\* The wording of a rule's task is nowhere in the plan.
Unsaid(rule, half, q) == \A t \in Range(q) \cup completed : t.text # Wording(rule, half)

\* The rules add no task whose wording is in the plan, and none of them twice.
LEMMA AdditionsDiffer ==
  ASSUME NEW q
  PROVE  Single(Additions(q)) /\ \A a \in Range(Additions(q)) : Unsaid(a.rule, a.half, q)
<1> DEFINE A == [rule : Range(Rules), half : Halves]
<1> DEFINE parts == [i \in 1 .. Len(Rules) |->
      IF ~Fires(Rules[i], q) THEN <<>>
      ELSE [k \in 1 .. Len(Proposed(Rules[i], q)) |->
              [rule |-> Rules[i], half |-> Proposed(Rules[i], q)[k]]]]
<1>0. Len(Rules) \in Nat /\ \A i \in 1 .. Len(Rules) : Rules[i] \in Range(Rules)
  BY RulesTyped, LenProperties, ElementOfSeq
<1>1. ASSUME NEW rule
      PROVE  /\ Proposed(rule, q) \in Seq(Halves) /\ Single(Proposed(rule, q))
             /\ \A half \in Range(Proposed(rule, q)) : Unsaid(rule, half, q)
  <2> DEFINE both == <<1, 2>>
  <2>1. both \in Seq(Halves) /\ Len(both) = 2 /\ both[1] = 1 /\ both[2] = 2
    BY DEF Halves
  <2> HIDE DEF both
  <2>2. Single(both)
    BY <2>1 DEF Single
  <2> DEFINE S == {half \in Halves : \A t \in Range(q) \cup completed : t.text # Wording(rule, half)}
  <2>4. \A half \in S : Unsaid(rule, half, q)
    BY DEF Unsaid
  <2> HIDE DEF S
  <2>3. Only(both, S) \in Seq(Halves) /\ Single(Only(both, S)) /\ Range(Only(both, S)) \subseteq S
    BY <2>1, <2>2, OnlyProperties, SingleOnly
  <2>5. Proposed(rule, q) = Only(both, S)
    BY DEF Proposed, S, both
  <2> QED
    BY <2>3, <2>4, <2>5
<1>2. ASSUME NEW i \in 1 .. Len(Rules)
      PROVE  /\ parts[i] \in Seq(A) /\ Single(parts[i])
             /\ \A a \in Range(parts[i]) : a.rule = Rules[i] /\ Unsaid(a.rule, a.half, q)
  <2> DEFINE rule == Rules[i]
  <2> DEFINE p == Proposed(rule, q)
  <2> DEFINE new == [k \in 1 .. Len(p) |-> [rule |-> rule, half |-> p[k]]]
  <2>1. /\ p \in Seq(Halves) /\ Single(p) /\ Len(p) \in Nat
        /\ \A k \in 1 .. Len(p) : p[k] \in Halves /\ Unsaid(rule, p[k], q)
    <3>1. p \in Seq(Halves) /\ Single(p) /\ \A half \in Range(p) : Unsaid(rule, half, q)
      BY <1>1
    <3> HIDE DEF p
    <3>2. \A k \in 1 .. Len(p) : p[k] \in Range(p)
      BY <3>1, InRange
    <3> QED
      BY <3>1, <3>2, LenProperties, ElementOfSeq
  <2>2. parts[i] = IF ~Fires(rule, q) THEN <<>> ELSE new
    OBVIOUS
  <2>3. rule \in Range(Rules)
    BY <1>0
  <2> HIDE DEF p, rule, parts
  <2>4. new \in [1 .. Len(p) -> A] /\ \A k \in 1 .. Len(p) : new[k].rule = rule /\ new[k].half = p[k]
    BY <2>1, <2>3
  <2> HIDE DEF new, A
  <2>5. new \in Seq(A) /\ Len(new) = Len(p)
    BY <2>1, <2>4, Built
  <2>6. Single(new)
    BY <2>1, <2>4, <2>5 DEF Single
  <2>7. \A a \in Range(new) : a.rule = rule /\ Unsaid(a.rule, a.half, q)
    <3> TAKE a \in Range(new)
    <3>1. PICK k \in 1 .. Len(p) : new[k] = a
      BY <2>5, InRange
    <3>2. a.rule = rule /\ a.half = p[k]
      BY <2>4, <3>1
    <3> QED
      BY <2>1, <3>2
  <2>8. <<>> \in Seq(A) /\ Single(<<>>) /\ Range(<<>>) = {}
    BY EmptySeq, RangeOfEmpty DEF Single
  <2>9. /\ parts[i] \in Seq(A) /\ Single(parts[i])
        /\ \A a \in Range(parts[i]) : a.rule = rule /\ Unsaid(a.rule, a.half, q)
    BY <2>2, <2>5, <2>6, <2>7, <2>8
  <2> QED
    BY <2>9 DEF rule
<1>3. parts \in [1 .. Len(Rules) -> Seq(A)]
  <2>1. DOMAIN parts = 1 .. Len(Rules) /\ parts = [i \in 1 .. Len(Rules) |-> parts[i]]
    OBVIOUS
  <2> HIDE DEF A, parts
  <2> QED
    BY <1>2, <2>1
<1>4. Additions(q) = FlattenSeq(parts)
  BY DEF Additions
<1> HIDE DEF parts, A
<1>5. parts \in Seq(Seq(A)) /\ Len(parts) = Len(Rules)
  BY <1>0, <1>3, Built
<1>6. \A n \in 1 .. Len(parts), m \in 1 .. Len(parts), x \in A :
        x \in Range(parts[n]) /\ x \in Range(parts[m]) => n = m
  <2> SUFFICES ASSUME NEW n \in 1 .. Len(parts), NEW m \in 1 .. Len(parts), NEW x \in A,
                      x \in Range(parts[n]), x \in Range(parts[m])
               PROVE  n = m
    OBVIOUS
  <2>1. Rules[n] = Rules[m]
    BY <1>2, <1>5
  <2> QED
    BY <1>5, <2>1, RulesDiffer DEF Single
<1>7. \A n \in 1 .. Len(parts) : Single(parts[n])
  BY <1>2, <1>5
<1>8. /\ Single(FlattenSeq(parts))
      /\ \A x : x \in Range(FlattenSeq(parts)) <=> \E i \in 1 .. Len(parts) : x \in Range(parts[i])
  BY <1>5, <1>6, <1>7, SingleFlatten, FlattenProperties
<1>9. \A a \in Range(Additions(q)) : Unsaid(a.rule, a.half, q)
  BY <1>2, <1>4, <1>5, <1>8
<1> QED
  BY <1>4, <1>8, <1>9

LEMMA ChainedSound ==
  ASSUME NEW added \in Seq([rule : Range(Rules), half : Halves]), Single(added),
         Done \subseteq Identities, NEW known, Done \subseteq known
  PROVE  /\ Chained(added) \in Seq(TaskRecords)
         /\ InOrder(Chained(added), known) /\ Apart(Chained(added))
         /\ \A u \in Range(Chained(added)) : \E a \in Range(added) : u.id = RuleId(a.rule, a.half)
         /\ \A a \in Range(added) : \E u \in Range(Chained(added)) :
              u.id = RuleId(a.rule, a.half) /\ u.text = Wording(a.rule, a.half)
<1> DEFINE N  == Len(added)
<1> DEFINE p  == Chained(added)
<1> DEFINE id == [i \in 1 .. N |-> RuleId(added[i].rule, added[i].half)]
<1>1. /\ N \in Nat /\ \A i \in 1 .. N : added[i] \in [rule : Range(Rules), half : Halves]
      /\ \A i \in 1 .. N : added[i] \in Range(added)
  BY LenProperties, ElementOfSeq, InRange
<1>2. /\ DOMAIN p = 1 .. N
      /\ \A i \in 1 .. N : /\ p[i].id = id[i]
                           /\ p[i].deps = IF i = 1 THEN Done ELSE {RuleId(added[i - 1].rule, added[i - 1].half)}
                           /\ p[i].text = Wording(added[i].rule, added[i].half)
  BY DEF Chained, RuleTask
<1>3. \A i \in 1 .. N : i # 1 => i - 1 \in 1 .. N /\ i - 1 \in 1 .. i - 1 /\ p[i].deps = {id[i - 1]}
  <2> TAKE i \in 1 .. N
  <2> SUFFICES ASSUME i # 1 PROVE i - 1 \in 1 .. N /\ i - 1 \in 1 .. i - 1 /\ p[i].deps = {id[i - 1]}
    OBVIOUS
  <2>1. i - 1 \in 1 .. N /\ i - 1 \in 1 .. i - 1
    BY <1>1
  <2>2. id[i - 1] = RuleId(added[i - 1].rule, added[i - 1].half)
    BY <2>1
  <2> HIDE DEF p, id
  <2> QED
    BY <1>2, <2>1, <2>2
<1>4. p \in Seq(TaskRecords)
  BY ChainedTyped
<1>5. \A i \in 1 .. N : id[i] = RuleId(added[i].rule, added[i].half)
  OBVIOUS
<1> HIDE DEF p, id
<1>6. Len(p) = N
  BY <1>1, <1>2, <1>4, LenProperties
<1>7. InOrder(p, known)
  <2> SUFFICES ASSUME NEW i \in 1 .. N PROVE p[i].deps \subseteq known \cup {p[j].id : j \in 1 .. i - 1}
    BY <1>6 DEF InOrder
  <2>1. CASE i = 1
    BY <1>2, <2>1
  <2>2. CASE i # 1
    <3>1. p[i].deps = {p[i - 1].id} /\ i - 1 \in 1 .. i - 1
      BY <1>2, <1>3, <2>2
    <3> QED
      BY <3>1
  <2> QED
    BY <2>1, <2>2
<1>8. Apart(p)
  <2> SUFFICES ASSUME NEW i \in 1 .. N, NEW j \in 1 .. N, p[i].id = p[j].id PROVE i = j
    BY <1>6 DEF Apart
  <2> DEFINE r == added[i].rule
  <2> DEFINE s == added[j].rule
  <2> DEFINE h == added[i].half
  <2> DEFINE g == added[j].half
  <2>1. RuleId(r, h) = RuleId(s, g) /\ added[i] = [rule |-> r, half |-> h] /\ added[j] = [rule |-> s, half |-> g]
    <3>1. id[i] = id[j]
      BY <1>2
    <3>2. id[i] = RuleId(r, h) /\ id[j] = RuleId(s, g)
      BY <1>5
    <3>3. \A a \in [rule : Range(Rules), half : Halves] : a = [rule |-> a.rule, half |-> a.half]
      OBVIOUS
    <3>4. added[i] = [rule |-> r, half |-> h] /\ added[j] = [rule |-> s, half |-> g]
      BY <1>1, <3>3
    <3> QED
      BY <3>1, <3>2, <3>4
  <2>2. r \in Range(Rules) /\ s \in Range(Rules) /\ h \in Halves /\ g \in Halves
    BY <1>1
  <2> HIDE DEF r, s, h, g
  <2>3. RuleId(s, g) \in Identities
    BY <2>2, RuleIdFacts
  <2>4. r.name = s.name /\ h = g
    BY <2>1, <2>2, <2>3, RulesApart
  <2>5. r = s
    BY <2>2, <2>4, RulesDiffer
  <2> QED
    BY <2>1, <2>4, <2>5 DEF Single
<1>9. ASSUME NEW u \in Range(p)
      PROVE  \E a \in Range(added) : u.id = RuleId(a.rule, a.half)
  <2>1. PICK i \in 1 .. N : p[i] = u
    BY <1>4, <1>6, InRange
  <2> DEFINE a == added[i]
  <2>2. a \in Range(added) /\ u.id = RuleId(a.rule, a.half)
    BY <1>1, <1>2, <1>5, <2>1
  <2> HIDE DEF a
  <2> QED
    BY <2>2
<1>10. ASSUME NEW a \in Range(added)
       PROVE  \E u \in Range(p) : u.id = RuleId(a.rule, a.half) /\ u.text = Wording(a.rule, a.half)
  <2>1. PICK i \in 1 .. N : added[i] = a
    BY InRange
  <2>2. p[i] \in Range(p)
    BY <1>4, <1>6, InRange
  <2>3. p[i].id = RuleId(a.rule, a.half) /\ p[i].text = Wording(a.rule, a.half)
    BY <1>2, <1>5, <2>1
  <2> QED
    BY <2>2, <2>3
<1> QED
  BY <1>4, <1>7, <1>8, <1>9, <1>10 DEF p

\* A rule adds a task whose identity the plan has already.
Again(q) == \E a \in Range(Additions(q)), u \in Range(q) \cup completed : u.id = RuleId(a.rule, a.half)

\* What the additions are, whatever the plan.
LEMMA AdditionsFacts ==
  ASSUME NEW q
  PROVE  /\ Additions(q) \in Seq([rule : Range(Rules), half : Halves]) /\ Single(Additions(q))
         /\ \A a \in Range(Additions(q)) :
              a.rule \in Range(Rules) /\ a.half \in Halves /\ Unsaid(a.rule, a.half, q)
<1> DEFINE added == Additions(q)
           A == [rule : Range(Rules), half : Halves]
<1>1. /\ added \in Seq(A) /\ Single(added)
      /\ \A a \in Range(added) : Unsaid(a.rule, a.half, q)
  BY AdditionsTyped, AdditionsDiffer
<1>2. \A a \in A : a.rule \in Range(Rules) /\ a.half \in Halves
  OBVIOUS
<1> HIDE DEF added, A
<1>3. Range(added) \subseteq A
  BY <1>1, RangeOfSeq
<1>4. \A a \in Range(added) : a.rule \in Range(Rules) /\ a.half \in Halves
  BY <1>2, <1>3
<1> QED
  BY <1>1, <1>4 DEF added, A

LEMMA AddedSound ==
  ASSUME TasksTyped, NEW q \in Seq(TaskRecords), Sound(q, Done),
         Named(q, completed), Rooted(q, completed), ~Again(q),
         NEW plan, plan = q \o Chained(Additions(q))
  PROVE  Sound(plan, Done) /\ Named(plan, completed) /\ Rooted(plan, completed)
<1> DEFINE added == Additions(q)
<1> DEFINE more  == Chained(added)
<1>0. /\ Range(q) \cup completed \subseteq TaskRecords /\ Done \subseteq Identities
      /\ Ids(q) = {t.id : t \in Range(q)}
  <2>1. Range(q) \subseteq TaskRecords /\ completed \subseteq TaskRecords
    BY RangeOfSeq DEF TasksTyped
  <2>2. Done \subseteq Identities
    BY <2>1 DEF Done, TaskRecords
  <2> QED
    BY <2>1, <2>2, IdsOfRange
<1>1. added \in Seq([rule : Range(Rules), half : Halves]) /\ Single(added)
  BY AdditionsFacts
<1>2. \A a \in Range(added) : a.rule \in Range(Rules) /\ a.half \in Halves
  BY AdditionsFacts
<1>12. \A a \in Range(added), u \in Range(q) \cup completed : u.id # RuleId(a.rule, a.half)
  BY DEF Again
<1> HIDE DEF added
<1>3. Done \subseteq Done \cup Ids(q)
  OBVIOUS
<1>4. /\ more \in Seq(TaskRecords) /\ InOrder(more, Done \cup Ids(q)) /\ Apart(more)
      /\ \A u \in Range(more) : \E a \in Range(added) : u.id = RuleId(a.rule, a.half)
  <2> DEFINE known == Done \cup Ids(q)
  <2> HIDE DEF known
  <2>1. Done \subseteq known
    BY DEF known
  <2>2. /\ more \in Seq(TaskRecords) /\ InOrder(more, known) /\ Apart(more)
        /\ \A u \in Range(more) : \E a \in Range(added) : u.id = RuleId(a.rule, a.half)
    BY <1>0, <1>1, <2>1, ChainedSound
  <2> QED
    BY <2>2 DEF known
<1> HIDE DEF more
<1>5. plan = q \o more
  BY DEF more, added
\* What the rules add has left no trace in the plan.
<1>6. ASSUME NEW a \in Range(added), NEW u \in Range(q) \cup completed
      PROVE  u.id # RuleId(a.rule, a.half) /\ ~Under(u.id, RuleId(a.rule, a.half))
  <2>1. ASSUME Under(u.id, RuleId(a.rule, a.half)) PROVE FALSE
    <3>1. \E v \in Range(q) \cup completed : v.id = RuleId(a.rule, a.half)
      BY <1>2, <2>1 DEF Rooted
    <3> QED
      BY <1>12, <3>1
  <2> QED
    BY <1>12, <2>1
<1>7. ASSUME NEW u \in Range(more)
      PROVE  \E rule \in Range(Rules), half \in Halves :
               /\ u.id = RuleId(rule, half)
               /\ \A v \in Range(q) \cup completed : v.id # u.id /\ ~Under(v.id, u.id)
  <2>1. PICK a \in Range(added) : u.id = RuleId(a.rule, a.half)
    BY <1>4
  <2>2. \A v \in Range(q) \cup completed : v.id # u.id /\ ~Under(v.id, u.id)
    BY <1>6, <2>1
  <2> QED
    BY <1>2, <2>1, <2>2
<1>8. /\ plan \in Seq(TaskRecords) /\ Ids(plan) = Ids(q) \cup Ids(more)
      /\ InOrder(plan, Done) /\ Apart(plan) /\ Range(plan) = Range(q) \cup Range(more)
      /\ Ids(more) = {t.id : t \in Range(more)}
  <2>1. Ids(more) = {t.id : t \in Range(more)}
    BY <1>4, IdsOfRange
  <2>2. Ids(q) \cap Ids(more) = {}
    <3> SUFFICES ASSUME NEW t \in Range(q), NEW u \in Range(more), t.id = u.id PROVE FALSE
      BY <1>0, <2>1
    <3> QED
      BY <1>7
  <2>3. InOrder(q, Done) /\ Apart(q)
    BY DEF Sound
  <2>4. /\ q \o more \in Seq(TaskRecords) /\ Ids(q \o more) = Ids(q) \cup Ids(more)
        /\ InOrder(q \o more, Done) /\ Apart(q \o more)
    BY <1>4, <2>2, <2>3, OrderedConcat
  <2> QED
    BY <1>4, <1>5, <2>1, <2>4, RangeConcatenation
<1>9. Ids(plan) \cap Done = {}
  <2>1. Ids(more) \cap Done = {}
    <3> SUFFICES ASSUME NEW u \in Range(more), NEW t \in completed, t.id = u.id PROVE FALSE
      BY <1>8 DEF Done
    <3> QED
      BY <1>7
  <2> QED
    BY <1>8, <2>1 DEF Sound
<1>10. Named(plan, completed)
  <2> SUFFICES ASSUME NEW t \in Range(plan), NEW u \in Range(plan) \cup completed, Under(u.id, t.id)
               PROVE  Turn(u.id, t.id)[2] = 0 \/ Turn(u.id, t.id)[1] < t.rev
    BY DEF Named
  <2>0. t.id \in Identities
    <3>1. t \in TaskRecords
      BY <1>8, RangeOfSeq
    <3> QED
      BY <3>1 DEF TaskRecords
  <2>1. CASE u \in Range(more)
    <3>1. PICK rule \in Range(Rules), half \in Halves : u.id = RuleId(rule, half)
      BY <1>7, <2>1
    <3>2. Turn(RuleId(rule, half), t.id)[2] = 0
      BY <2>0, <3>1, RulesApart
    <3> QED
      BY <3>1, <3>2
  <2>2. CASE u \in Range(q) \cup completed
    <3>1. t \in Range(q)
      BY <1>7, <1>8, <2>2
    <3> QED
      BY <2>2, <3>1 DEF Named
  <2> QED
    BY <1>8, <2>1, <2>2
<1>11. Rooted(plan, completed)
  <2> SUFFICES ASSUME NEW rule \in Range(Rules), NEW half \in Halves, NEW u \in Range(plan) \cup completed,
                      Under(u.id, RuleId(rule, half))
               PROVE  \E v \in Range(plan) \cup completed : v.id = RuleId(rule, half)
    BY DEF Rooted
  <2>1. CASE u \in Range(more)
    <3>1. PICK r \in Range(Rules), h \in Halves : u.id = RuleId(r, h)
      BY <1>7, <2>1
    <3>2. RuleId(r, h) \in Identities
      BY RuleIdFacts
    <3>3. ~Under(RuleId(r, h), RuleId(rule, half))
      BY <3>2, RulesApart
    <3> QED
      BY <3>1, <3>3
  <2>2. CASE u \in Range(q) \cup completed
    <3>1. PICK v \in Range(q) \cup completed : v.id = RuleId(rule, half)
      BY <2>2 DEF Rooted
    <3> QED
      BY <1>8, <3>1
  <2> QED
    BY <1>8, <2>1, <2>2
<1> QED
  BY <1>8, <1>9, <1>10, <1>11 DEF Sound

\* A task that is added again has the wording of its rule, the one it repeats has another.
LEMMA AddedAgain ==
  ASSUME TasksTyped, NEW q \in Seq(TaskRecords), Again(q),
         NEW plan, plan = q \o Chained(Additions(q))
  PROVE  RuleRepeats(plan, completed)
<1> DEFINE added == Additions(q)
<1> DEFINE more  == Chained(added)
<1>1. PICK a \in Range(added), u \in Range(q) \cup completed : u.id = RuleId(a.rule, a.half)
  BY DEF Again
<1>2. added \in Seq([rule : Range(Rules), half : Halves]) /\ Single(added)
  BY AdditionsFacts
<1>3. a.rule \in Range(Rules) /\ a.half \in Halves /\ u.text # Wording(a.rule, a.half)
  BY AdditionsFacts DEF Unsaid
<1>4. Done \subseteq Identities
  BY DEF TasksTyped, TaskRecords, Done
<1> HIDE DEF added
<1>5. /\ more \in Seq(TaskRecords)
      /\ \E x \in Range(more) : x.id = RuleId(a.rule, a.half) /\ x.text = Wording(a.rule, a.half)
  <2> DEFINE known == Done
  <2>1. Done \subseteq known
    OBVIOUS
  <2> HIDE DEF known
  <2> QED
    BY <1>2, <1>4, <2>1, ChainedSound
<1>6. plan = q \o more
  BY DEF added
<1> HIDE DEF more
<1>7. PICK k \in 1 .. Len(more) : more[k].id = RuleId(a.rule, a.half) /\ more[k].text = Wording(a.rule, a.half)
  BY <1>5, InRange
<1>8. /\ Len(q) \in Nat /\ Len(more) \in Nat /\ Len(plan) = Len(q) + Len(more)
      /\ plan[Len(q) + k] = more[k] /\ \A j \in 1 .. Len(q) : plan[j] = q[j]
  BY <1>5, <1>6
<1>9. Len(q) + k \in 1 .. Len(plan) /\ \A j \in 1 .. Len(q) : j \in 1 .. Len(q) + k - 1
  BY <1>8
<1>10. u \in completed \cup {plan[j] : j \in 1 .. Len(q) + k - 1}
  <2>1. CASE u \in Range(q)
    <3>1. PICK j \in 1 .. Len(q) : q[j] = u
      BY <2>1, InRange
    <3>2. j \in 1 .. Len(q) + k - 1 /\ plan[j] = u
      BY <1>8, <1>9, <3>1
    <3> QED
      BY <3>2
  <2> QED
    BY <1>1, <2>1
<1> DEFINE i == Len(q) + k
<1>11. /\ i \in 1 .. Len(plan) /\ u \in completed \cup {plan[j] : j \in 1 .. i - 1}
       /\ plan[i].id = RuleId(a.rule, a.half) /\ plan[i].text = Wording(a.rule, a.half)
       /\ u.id = plan[i].id /\ u.text # plan[i].text
  BY <1>1, <1>3, <1>7, <1>8, <1>9, <1>10
<1> HIDE DEF i
<1> QED
  BY <1>3, <1>11 DEF RuleRepeats

\* validate_plan refuses what a rule repeats.
LEMMA RepeatsInvalid ==
  ASSUME NEW q \in Seq(TaskRecords), RuleRepeats(q, completed)
  PROVE  ~Valid(q, Done)
<1> SUFFICES ASSUME Valid(q, Done) PROVE FALSE
  OBVIOUS
<1>1. PICK i \in 1 .. Len(q), rule \in Range(Rules), half \in Halves :
        \E t \in completed \cup {q[j] : j \in 1 .. i - 1} : t.id = q[i].id /\ t.text # q[i].text
  BY DEF RuleRepeats
<1>2. PICK t \in completed \cup {q[j] : j \in 1 .. i - 1} : t.id = q[i].id /\ t.text # q[i].text
  BY <1>1
<1>3. Len(q) \in Nat /\ Cardinality(Ids(q)) = Len(q) /\ Done \cap Ids(q) = {} /\ q[i].id \in Ids(q)
  BY LenProperties DEF Valid, Ids
<1>4. CASE t \in completed
  BY <1>2, <1>3, <1>4 DEF Done
<1>5. CASE t \in {q[j] : j \in 1 .. i - 1}
  <2>1. PICK j \in 1 .. i - 1 : t = q[j]
    BY <1>5
  <2>2. j \in 1 .. Len(q)
    BY <1>3, <2>1
  <2>3. t \in Range(q) /\ q[i] \in Range(q)
    BY <2>1, <2>2, InRange
  <2>4. t = q[i]
    BY <1>2, <1>3, <2>3, UniqueIds
  <2> QED
    BY <1>2, <2>4
<1> QED
  BY <1>2, <1>4, <1>5

LEMMA ReplansSound ==
  ASSUME TasksTyped, Sound(queue, Done), Named(queue, completed), Rooted(queue, completed),
         NEW plan \in Replans
  PROVE  \/ Sound(plan, Done) /\ Named(plan, completed) /\ Rooted(plan, completed)
         \/ RuleRepeats(plan, completed)
<1> DEFINE Replan(said) == FlattenSeq([i \in 1 .. Len(queue) |-> Revised(queue[i], At(said, queue[i].id, <<{}>>))])
<1>1. PICK said \in Replies : plan = Replan(said) \o Chained(Additions(Replan(said)))
  BY DEF Replans
<1> DEFINE q == Replan(said)
<1>2. q \in Seq(TaskRecords) /\ Sound(q, Done) /\ Named(q, completed) /\ Rooted(q, completed)
  BY RevisedSound
<1>3. plan = q \o Chained(Additions(q))
  BY <1>1
<1> HIDE DEF q, Replan
<1> QED
  BY <1>2, <1>3, AddedSound, AddedAgain

-----------------------------------------------------------------------------
(* The plan stays sound.                                                    *)

\* The plan is still being worked on.
Working == {"L0_Gateway", "Planner", "Executor", "Merge", "AwaitInput", "asked", "Replanner"}

PlanSound == Sound(queue, Done) /\ Named(queue, completed) /\ Rooted(queue, completed)

SoundInv ==
  /\ at \in Working => PlanSound
  /\ at \in {"Executor", "Merge"} => queue # <<>>
  /\ at \in {"AwaitInput", "asked"} => question \in Ids(queue)
  /\ at \in {"L0_Gateway", "Planner"} => completed = {}
  /\ at = "invalid" => RuleRepeats(queue, completed)

LEMMA SoundFrame ==
  ASSUME UNCHANGED <<queue, completed>>
  PROVE  /\ Ids(queue)' = Ids(queue) /\ PlanSound' = PlanSound
         /\ RuleRepeats(queue, completed)' = RuleRepeats(queue, completed)
<1>1. Done' = Done /\ Ids(queue)' = Ids(queue)
  BY DEF Done, Ids
<1>2. RuleRepeats(queue, completed)' = RuleRepeats(queue, completed)
  BY DEF RuleRepeats
<1>3. PlanSound' = PlanSound
  BY <1>1 DEF PlanSound, Sound, InOrder, Apart, Ids, Named, Rooted
<1> QED
  BY <1>1, <1>2, <1>3

LEMMA NothingIsSound ==
  ASSUME NEW done
  PROVE  Sound(<<>>, done)
<1>1. Range(<<>>) = {} /\ Len(<<>>) = 0
  BY RangeOfEmpty, EmptySeq
<1> QED
  BY <1>1 DEF Sound, InOrder, Apart, Ids

LEMMA SoundMoves ==
  ASSUME GraphInv, SoundInv, MoveStep
  PROVE  SoundInv'
<1>1. UNCHANGED <<queue, completed, question>>
  BY MoveFrame DEF tasks, user
<1>2. at \in Working => Valid(queue, Done)
  BY OrderedIsValid DEF GraphInv, TasksTyped, SoundInv, PlanSound, Sound
<1>3. /\ at' \in Working => at \in Working
      /\ at' = "invalid" => at = "invalid"
      /\ at' \in {"L0_Gateway", "Planner"} => at \in {"L0_Gateway", "Planner"}
      /\ at' \in {"Executor", "Merge"} => at \in {"Executor", "Merge"}
      /\ at' \in {"AwaitInput", "asked"} => at \in {"AwaitInput", "asked"}
  <2>1. CASE Executor
    BY <1>2, <2>1 DEF Executor, Enter, OutOfDepth, Working
  <2>2. CASE BranchExhausted \/ Exhausted \/ UNCHANGED vars
    BY <2>2 DEF BranchExhausted, Exhausted, vars, Working
  <2>3. CASE Greeting \/ AskUser
    BY <2>3 DEF Greeting, AskUser, Enter, Working
  <2>4. CASE Generate \/ WriteCode \/ ExecuteCode \/ InjectResult \/ Cleanup
    BY <2>4 DEF Generate, WriteCode, ExecuteCode, InjectResult, Cleanup, Enter, Working
  <2> QED
    BY <2>1, <2>2, <2>3, <2>4 DEF MoveStep
<1>4. /\ Ids(queue)' = Ids(queue) /\ PlanSound' = PlanSound
      /\ RuleRepeats(queue, completed)' = RuleRepeats(queue, completed)
  BY <1>1, SoundFrame
<1>5. /\ at' \in {"Executor", "Merge"} => queue' # <<>>
      /\ at' \in {"AwaitInput", "asked"} => question' \in Ids(queue)'
      /\ at' \in {"L0_Gateway", "Planner"} => completed' = {}
  BY <1>1, <1>3, <1>4 DEF SoundInv
<1>6. /\ at' \in Working => PlanSound'
      /\ at' = "invalid" => RuleRepeats(queue, completed)'
  BY <1>3, <1>4 DEF SoundInv
<1> QED
  BY <1>5, <1>6 DEF SoundInv

LEMMA SoundElsewhere ==
  ASSUME GraphInv, SoundInv, RunBranch \/ Interrupt \/ Answer
  PROVE  SoundInv'
<1>1. /\ UNCHANGED <<queue, completed>>
      /\ at' \in {"Merge", "Executor"} /\ at \in Working
      /\ at = "Merge" \/ (at = "asked" /\ question \in Ids(queue))
  BY DEF RunBranch, Interrupt, Answer, Enter, tasks, SoundInv, Working
<1>2. queue # <<>>
  <2>1. <<>> = queue => Ids(queue) = {}
    BY EmptySeq DEF Ids
  <2> QED
    BY <1>1, <2>1 DEF SoundInv
<1>3. PlanSound'
  BY <1>1, SoundFrame DEF SoundInv
<1> QED
  BY <1>1, <1>2, <1>3 DEF SoundInv

LEMMA PlansBegin ==
  ASSUME NEW p \in Plans
  PROVE  p # <<>> /\ Sound(p, {}) /\ Named(p, {}) /\ Rooted(p, {})
<1>1. p \in Seq(TaskRecords) /\ Range(p) \subseteq TaskRecords
  BY PlansTyped, RangeOfSeq
<1>2. InOrder(p, {}) /\ Apart(p) /\ \A t \in Range(p) : Len(t.id[2]) = 0
  BY PlansSound
<1>3. p # <<>>
  <2>1. <<Task("direct", {})>> # <<>>
    OBVIOUS
  <2>2. ASSUME NEW d \in Drafts, Usable(d) PROVE Planned(d) # <<>>
    <3> DEFINE nodes == Skeleton(d)
    <3> DEFINE order == TopologicalOrder(nodes)
    <3>1. nodes \in Seq(DraftNodes) /\ nodes # <<>> /\ Len(order) = Len(nodes)
      BY <2>2, SkeletonTyped DEF Usable, Acceptable
    <3>2. DOMAIN Planned(d) = 1 .. Len(order)
      BY DEF Planned
    <3> HIDE DEF nodes, order
    <3>3. Len(nodes) \in Nat /\ Len(nodes) # 0
      BY <3>1, EmptySeq, LenProperties
    <3>4. 1 \in DOMAIN Planned(d)
      BY <3>1, <3>2, <3>3
    <3>5. DOMAIN <<>> = {}
      OBVIOUS
    <3> QED
      BY <3>4, <3>5
  <2> QED
    BY <2>1, <2>2 DEF Plans
<1>4. Named(p, {})
  BY <1>2 DEF Named, Under
<1>5. Rooted(p, {})
  <2> SUFFICES ASSUME NEW rule \in Range(Rules), NEW half \in Halves, NEW u \in Range(p),
                      Under(u.id, RuleId(rule, half))
               PROVE  FALSE
    BY DEF Rooted
  <2> DEFINE id == RuleId(rule, half)
  <2>1. Len(id[2]) = 1 /\ Len(u.id[2]) = 0 /\ Under(u.id, id)
    BY <1>2, RuleIdFacts
  <2> HIDE DEF id
  <2>2. ~ (1 < 0)
    OBVIOUS
  <2> QED
    BY <2>1, <2>2 DEF Under
<1>6. Ids(p) \cap {} = {}
  OBVIOUS
<1> QED
  BY <1>2, <1>3, <1>4, <1>5, <1>6 DEF Sound

LEMMA SoundPlanner ==
  ASSUME GraphInv, SoundInv, Planner
  PROVE  SoundInv'
<1>1. /\ at = "Planner" /\ UNCHANGED completed /\ completed = {} /\ Done = {}
      /\ (at' = "Executor" /\ queue' \in Plans) \/ (at' = "refused" /\ UNCHANGED queue)
  BY DEF Planner, Enter, SoundInv, Done
<1>2. CASE at' = "refused" /\ UNCHANGED queue
  BY <1>2 DEF SoundInv, Working
<1>3. CASE at' = "Executor" /\ queue' \in Plans
  <2>1. completed' = {} /\ Done' = {}
    BY <1>1 DEF Done
  <2>2. queue' # <<>> /\ Sound(queue', Done') /\ Named(queue', completed') /\ Rooted(queue', completed')
    BY <1>3, <2>1, PlansBegin
  <2>3. PlanSound'
    BY <2>2 DEF PlanSound, Sound, InOrder, Apart, Ids, Named, Rooted
  <2> QED
    BY <1>3, <2>2, <2>3 DEF SoundInv
<1> QED
  BY <1>1, <1>2, <1>3

LEMMA SoundMerges ==
  ASSUME GraphInv, SoundInv, Merge
  PROVE  SoundInv'
<1>1. /\ at = "Merge" /\ at' = (IF Asking = <<>> THEN "Replanner" ELSE "AwaitInput")
      /\ question' = (IF Asking = <<>> THEN NoTask ELSE Head(Asking).id)
  BY DEF Merge
<1>0. PlanSound
  BY <1>1 DEF SoundInv, Working
<1>2. /\ Sound(queue, Done)'
      /\ \A u \in Range(queue') : \E t \in Range(queue) : Alike(t, u)
      /\ \A u \in TaskSet' : \E t \in TaskSet : Alike(t, u)
      /\ \A t \in TaskSet : \E u \in TaskSet' : Alike(t, u)
      /\ \A t \in Range(queue) : KindOf(t) # "sufficient" => t.id \in Ids(queue)'
  BY <1>0, MergeSound DEF GraphInv, PlanSound
<1>3. TaskSet = Range(queue) \cup completed /\ TaskSet' = Range(queue') \cup completed'
  BY DEF TaskSet
<1>4. Named(queue', completed')
  <2> SUFFICES ASSUME NEW x \in Range(queue'), NEW y \in TaskSet', Under(y.id, x.id)
               PROVE  Turn(y.id, x.id)[2] = 0 \/ Turn(y.id, x.id)[1] < x.rev
    BY <1>3 DEF Named
  <2>1. PICK t \in Range(queue) : Alike(t, x)
    BY <1>2
  <2>2. PICK u \in TaskSet : Alike(u, y)
    BY <1>2
  <2> QED
    BY <1>0, <1>3, <2>1, <2>2 DEF PlanSound, Named, Alike
<1>5. Rooted(queue', completed')
  <2> SUFFICES ASSUME NEW rule \in Range(Rules), NEW half \in Halves, NEW y \in TaskSet',
                      Under(y.id, RuleId(rule, half))
               PROVE  \E v \in TaskSet' : v.id = RuleId(rule, half)
    BY <1>3 DEF Rooted
  <2>1. PICK u \in TaskSet : Alike(u, y)
    BY <1>2
  <2>2. PICK t \in TaskSet : t.id = RuleId(rule, half)
    BY <1>0, <1>3, <2>1 DEF PlanSound, Rooted, Alike
  <2>3. PICK v \in TaskSet' : Alike(t, v)
    BY <1>2
  <2> QED
    BY <2>2, <2>3 DEF Alike
<1>6. ASSUME Asking # <<>> PROVE Head(Asking).id \in Ids(queue)'
  <2>1. /\ Asking \in Seq(TaskRecords)
        /\ Range(Asking) = Range(queue) \cap {t \in Range(queue) : KindOf(t) = "ask"}
    BY OnlyProperties DEF Asking, GraphInv, TasksTyped
  <2>2. Head(Asking) \in Range(Asking)
    <3> HIDE DEF Asking
    <3>1. 1 \in 1 .. Len(Asking) /\ Head(Asking) = Asking[1]
      BY <1>6, <2>1, EmptySeq
    <3> QED
      BY <2>1, <3>1, InRange
  <2> QED
    BY <1>2, <2>1, <2>2
<1>7. PlanSound'
  BY <1>2, <1>4, <1>5 DEF PlanSound, Named, Rooted
<1> QED
  BY <1>1, <1>6, <1>7 DEF SoundInv

LEMMA SoundReplans ==
  ASSUME GraphInv, SoundInv, Replanner
  PROVE  SoundInv'
<1>1. /\ at = "Replanner" /\ UNCHANGED completed /\ Done' = Done /\ PlanSound
  BY DEF Replanner, Enter, Done, SoundInv, Working
<1>2. CASE at' = "Generate"
  BY <1>2 DEF SoundInv, Working
<1>3. ASSUME NEW plan \in Replans, queue' = plan,
             at' = IF Valid(plan, Done) THEN IF plan = <<>> THEN "Generate" ELSE "Executor" ELSE "invalid"
      PROVE  SoundInv'
  <2>1. \/ Sound(plan, Done) /\ Named(plan, completed) /\ Rooted(plan, completed)
        \/ RuleRepeats(plan, completed)
    BY <1>1, ReplansSound DEF GraphInv, PlanSound
  <2>2. plan \in Seq(TaskRecords)
    BY ReplansTyped DEF GraphInv, TasksTyped, Done, TaskRecords
  <2>3. CASE RuleRepeats(plan, completed)
    <3>1. ~Valid(plan, Done)
      BY <2>2, <2>3, RepeatsInvalid
    <3>2. at' = "invalid" /\ RuleRepeats(queue', completed')
      BY <1>1, <1>3, <2>3, <3>1
    <3>3. RuleRepeats(queue, completed)'
      BY <3>2 DEF RuleRepeats
    <3> QED
      BY <3>2, <3>3 DEF SoundInv, Working
  <2>4. CASE Sound(plan, Done) /\ Named(plan, completed) /\ Rooted(plan, completed)
    <3>1. Valid(plan, Done)
      BY <2>2, <2>4, OrderedIsValid DEF Sound
    <3>2. at' = "Generate" \/ (at' = "Executor" /\ queue' # <<>>)
      BY <1>3, <3>1
    <3>3. Sound(queue', Done') /\ Named(queue', completed') /\ Rooted(queue', completed')
      BY <1>1, <1>3, <2>4
    <3>4. PlanSound'
      BY <3>3 DEF PlanSound, Sound, InOrder, Apart, Ids, Named, Rooted
    <3> QED
      BY <3>2, <3>4 DEF SoundInv
  <2> QED
    BY <2>1, <2>3, <2>4
<1>4. \/ at' = "Generate"
      \/ \E plan \in Replans :
           /\ queue' = plan
           /\ at' = IF Valid(plan, Done) THEN IF plan = <<>> THEN "Generate" ELSE "Executor" ELSE "invalid"
  BY DEF Replanner
<1> QED
  BY <1>2, <1>3, <1>4

LEMMA SoundNext == GraphInv /\ SoundInv /\ [Next]_vars => SoundInv'
  BY NextSteps, SoundMoves, SoundElsewhere, SoundPlanner, SoundMerges, SoundReplans

LEMMA SoundInvariant == Spec => []SoundInv
<1>1. Init => SoundInv
  <2> SUFFICES ASSUME Init PROVE SoundInv
    OBVIOUS
  <2>1. queue = <<>> /\ completed = {} /\ at = "L0_Gateway"
    BY DEF Init
  <2>2. Range(queue) = {} /\ completed = {}
    BY <2>1, RangeOfEmpty
  <2>3. Named(queue, completed) /\ Rooted(queue, completed)
    BY <2>2 DEF Named, Rooted
  <2>4. Sound(queue, Done)
    BY <2>1, NothingIsSound
  <2> QED
    BY <2>1, <2>3, <2>4 DEF SoundInv, PlanSound
<1> QED
  BY <1>1, GraphInvariant, SoundNext, PTL DEF Spec

\* Whatever the model says of the tasks it plans anew, replanning and the rules leave a plan
\* that validate_plan accepts at every Executor, and something can be done in it; where a
\* plan is refused a rule repeated a task that had been reworded.
THEOREM PlansStaySound == Spec => []PlanStaysSound
<1>1. GraphInv /\ SoundInv => PlanStaysSound
  <2> SUFFICES ASSUME GraphInv, SoundInv PROVE PlanStaysSound
    OBVIOUS
  <2>1. ASSUME at \in {"Executor", "Merge"} PROVE Valid(queue, Done) /\ Ready # <<>>
    <3>1. PlanSound /\ queue # <<>>
      BY <2>1 DEF SoundInv, Working
    <3> QED
      BY <3>1, OrderedIsValid, FirstIsReady DEF GraphInv, TasksTyped, PlanSound, Sound
  <2> QED
    BY <2>1 DEF PlanStaysSound, SoundInv
<1> QED
  BY <1>1, SoundInvariant, GraphInvariant, PTL

=============================================================================
