------------------------------ MODULE Recursion ------------------------------
(***************************************************************************)
(* Lemmas for proofs about definitions that recur over a sequence: a set   *)
(* of numbers that has 0 and the successors of its numbers has them all,   *)
(* and what is defined step by step exists.  They are about sets and       *)
(* functions, with no operator as a parameter, and rest on WFMin of the    *)
(* library.                                                                *)
(***************************************************************************)
EXTENDS Integers, SequencesExt, WellFoundedInduction, TLAPS

Below == {p \in Nat \X Nat : p[1] < p[2]}

\* The natural numbers are well founded.
LEMMA BelowWellFounded == IsWellFoundedOn(Below, Nat)
<1>1. Below = OpToRel(<, Nat)
  BY DEF Below, OpToRel
<1> QED BY <1>1, NatLessThanWellFounded

\* A set of numbers has a least one.
LEMMA Least ==
    ASSUME NEW T \in SUBSET Nat, T # {}
    PROVE  \E n \in T : \A m \in T : n <= m
<1>1. PICK n \in T : \A m \in T : <<m, n>> \notin Below
  BY BelowWellFounded, WFMin
<1>2. ASSUME NEW m \in T, m < n PROVE FALSE
  <2>1. <<m, n>> \in Nat \X Nat /\ <<m, n>>[1] = m /\ <<m, n>>[2] = n
    OBVIOUS
  <2>2. <<m, n>> \in Below
    BY <1>2, <2>1 DEF Below
  <2> QED BY <1>1, <2>2
<1> QED BY <1>2

\* Induction up to n.
LEMMA Induction ==
    ASSUME NEW n \in Nat, NEW T \in SUBSET (0 .. n), 0 \in T,
           \A i \in T : i < n => i + 1 \in T
    PROVE  T = 0 .. n
<1> SUFFICES ASSUME T # 0 .. n PROVE FALSE
  OBVIOUS
<1> DEFINE rest == (0 .. n) \ T
<1>1. rest # {} /\ rest \in SUBSET Nat
  <2>1. \E m \in 0 .. n : m \notin T
    OBVIOUS
  <2> QED BY <2>1
<1>2. PICK k \in rest : \A m \in rest : k <= m
  BY <1>1, Least
<1>3. k # 0 /\ k - 1 \in 0 .. n /\ k - 1 \notin rest
  BY <1>2
<1> QED BY <1>2, <1>3

\* f takes n steps from base, one after another.
Steps(f, n, S, base, step) ==
    /\ f \in [0 .. n -> S]
    /\ f[0] = base /\ \A i \in 1 .. n : f[i] = step[i][f[i - 1]]

\* There is such a function.
LEMMA Stepwise ==
    ASSUME NEW n \in Nat, NEW S, NEW base \in S, NEW step \in [1 .. n -> [S -> S]]
    PROVE  \E f : Steps(f, n, S, base, step)
<1> DEFINE Upto(k) == \E f \in [0 .. k -> S] :
                          f[0] = base /\ \A i \in 1 .. k : f[i] = step[i][f[i - 1]]
           T == {k \in 0 .. n : Upto(k)}
<1>1. 0 \in T
  <2>1. [i \in 0 .. 0 |-> base] \in [0 .. 0 -> S] /\ [i \in 0 .. 0 |-> base][0] = base
    OBVIOUS
  <2>2. 1 .. 0 = {}
    OBVIOUS
  <2>3. Upto(0)
    BY <2>1, <2>2
  <2> QED BY <2>3
<1>2. ASSUME NEW k \in T, k < n PROVE k + 1 \in T
  <2>1. PICK f \in [0 .. k -> S] :
            f[0] = base /\ \A i \in 1 .. k : f[i] = step[i][f[i - 1]]
    BY <1>2
  <2> DEFINE g == [i \in 0 .. (k + 1) |-> IF i <= k THEN f[i] ELSE step[k + 1][f[k]]]
  <2>2. k + 1 \in 1 .. n /\ k \in 0 .. k /\ f[k] \in S
    BY <1>2
  <2>3. step[k + 1][f[k]] \in S
    BY <2>2
  <2>4. g \in [0 .. (k + 1) -> S] /\ g[k + 1] = step[k + 1][f[k]]
        /\ \A i \in 0 .. k : g[i] = f[i]
    BY <2>2, <2>3
  <2> HIDE DEF g
  <2>5. ASSUME NEW i \in 1 .. (k + 1) PROVE g[i] = step[i][g[i - 1]]
    <3>1. i - 1 \in 0 .. k /\ g[i - 1] = f[i - 1]
      BY <2>2, <2>4
    <3>2. CASE i = k + 1
      BY <2>2, <2>4, <3>1, <3>2
    <3>3. CASE i \in 1 .. k
      BY <2>1, <2>4, <3>1, <3>3
    <3> QED BY <2>2, <3>2, <3>3
  <2>6. g[0] = base
    BY <2>1, <2>2, <2>4
  <2>7. Upto(k + 1)
    BY <2>4, <2>5, <2>6
  <2> QED BY <2>2, <2>7
<1> HIDE DEF Upto
<1>3. T = 0 .. n
  <2> HIDE DEF T
  <2>1. T \in SUBSET (0 .. n)
    BY DEF T
  <2> QED BY <1>1, <1>2, <2>1, Induction
<1>4. Upto(n)
  BY <1>3
<1> QED BY <1>4 DEF Upto, Steps

-----------------------------------------------------------------------------
\* FlattenSeq appends one sequence after another.
LEMMA Flattens ==
    ASSUME NEW S, NEW seqs \in Seq(Seq(S))
    PROVE  \E f \in [0 .. Len(seqs) -> Seq(S)] :
               /\ f[0] = <<>>
               /\ \A i \in 1 .. Len(seqs) : f[i] = f[i - 1] \o seqs[i]
               /\ FlattenSeq(seqs) = f[Len(seqs)]
<1> DEFINE n == Len(seqs)
           Defines(f) == f = [i \in 1 .. n |-> IF i = 1 THEN seqs[i] ELSE f[i - 1] \o seqs[i]]
           step == [i \in 1 .. n |-> [a \in Seq(S) |-> a \o seqs[i]]]
<1>1. n \in Nat /\ \A i \in 1 .. n : seqs[i] \in Seq(S)
  OBVIOUS
<1>2. PICK h \in [0 .. n -> Seq(S)] :
          h[0] = <<>> /\ \A i \in 1 .. n : h[i] = h[i - 1] \o seqs[i]
  <2>1. step \in [1 .. n -> [Seq(S) -> Seq(S)]]
    <3>1. \A i \in 1 .. n, a \in Seq(S) : a \o seqs[i] \in Seq(S)
      BY <1>1
    <3> QED BY <3>1
  <2>2. <<>> \in Seq(S)
    OBVIOUS
  <2> DEFINE Q == Seq(S)
             empty == <<>>
  <2>3. n \in Nat /\ step \in [1 .. n -> [Q -> Q]] /\ empty \in Q
    BY <1>1, <2>1, <2>2
  <2> HIDE DEF step, n, Q, empty
  <2>6. PICK h : Steps(h, n, Q, empty, step)
    BY <2>3, Stepwise
  <2>5. /\ h \in [0 .. n -> Q]
        /\ h[0] = empty /\ \A i \in 1 .. n : h[i] = step[i][h[i - 1]]
    BY <2>6 DEF Steps
  <2>4. ASSUME NEW i \in 1 .. n PROVE h[i] = h[i - 1] \o seqs[i]
    <3>1. h[i - 1] \in Seq(S)
      BY <1>1, <2>5 DEF Q
    <3> QED BY <2>5, <3>1 DEF step
  <2> QED BY <2>4, <2>5 DEF Q, empty
<1>3. CASE n = 0
  <2>1. seqs = <<>> /\ FlattenSeq(seqs) = seqs
    BY <1>3 DEF FlattenSeq
  <2> QED BY <1>2, <1>3, <2>1
<1>4. CASE n # 0
  <2> DEFINE g == [i \in 1 .. n |-> h[i]]
             f == CHOOSE f : Defines(f)
  <2>1. FlattenSeq(seqs) = f[n]
    BY <1>4 DEF FlattenSeq
  <2>2. g = [i \in 1 .. n |-> IF i = 1 THEN seqs[i] ELSE g[i - 1] \o seqs[i]]
    <3>1. ASSUME NEW i \in 1 .. n
          PROVE  h[i] = IF i = 1 THEN seqs[i] ELSE g[i - 1] \o seqs[i]
      <4>1. CASE i = 1
        <5>0. 1 \in 1 .. n /\ 1 - 1 = 0
          BY <4>1
        <5>1. h[0] = <<>> /\ seqs[1] \in Seq(S) /\ h[1] = h[0] \o seqs[1]
          BY <1>1, <1>2, <5>0
        <5>2. <<>> \o seqs[1] = seqs[1]
          BY <5>1
        <5> QED BY <4>1, <5>1, <5>2
      <4>2. CASE i # 1
        <5>1. i - 1 \in 1 .. n
          BY <1>1, <4>2
        <5>2. g[i - 1] = h[i - 1]
          BY <5>1
        <5> QED BY <1>2, <4>2, <5>2
      <4> QED BY <4>1, <4>2
    <3> QED BY <3>1
  <2>3. Defines(f)
    BY <2>2
  <2> HIDE DEF f, g
  <2>4. DOMAIN f = 1 .. n /\ \A i \in 1 .. n : f[i] = IF i = 1 THEN seqs[i] ELSE f[i - 1] \o seqs[i]
    BY <2>3
  <2> DEFINE T == {i \in 0 .. n : i = 0 \/ f[i] = h[i]}
  <2>5. 0 \in T
    BY <1>1
  <2>6. ASSUME NEW i \in T, i < n PROVE i + 1 \in T
    <3>1. i + 1 \in 1 .. n /\ (i + 1) - 1 = i
      BY <2>6, <1>1
    <3>2. f[i + 1] = IF i + 1 = 1 THEN seqs[i + 1] ELSE f[i] \o seqs[i + 1]
      BY <2>4, <3>1
    <3>3. h[i + 1] = h[i] \o seqs[i + 1] /\ seqs[i + 1] \in Seq(S)
      BY <1>1, <1>2, <3>1
    <3>4. f[i + 1] = h[i + 1]
      <4>1. CASE i = 0
        <5>1. f[i + 1] = seqs[i + 1] /\ h[i] = <<>>
          BY <1>2, <3>2, <4>1
        <5> QED BY <3>3, <5>1
      <4>2. CASE i # 0
        <5>1. f[i] = h[i] /\ i + 1 # 1
          BY <4>2
        <5> QED BY <3>2, <3>3, <5>1
      <4> QED BY <4>1, <4>2
    <3>5. i + 1 \in 0 .. n
      BY <2>6, <1>1
    <3> QED BY <3>4, <3>5
  <2>7. T = 0 .. n
    <3>1. T \in SUBSET (0 .. n)
      OBVIOUS
    <3> HIDE DEF T
    <3> QED BY <1>1, <2>5, <2>6, <3>1, Induction
  <2>8. f[n] = h[n]
    BY <1>1, <1>4, <2>7
  <2> QED BY <1>2, <2>1, <2>8
<1> QED BY <1>3, <1>4
=============================================================================
