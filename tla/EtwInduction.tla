----------------------------- MODULE EtwInduction -----------------------------
(***************************************************************************)
(* Induction in the form that the proofs of the other modules use it: over *)
(* sets of numbers, and the existence of the functions that the models     *)
(* define by recursion.                                                    *)
(***************************************************************************)
EXTENDS Integers, Sequences, SequenceTheorems, WellFoundedInduction, TLAPS

\* A non-empty set of numbers has a least element: what the CHOOSE of
\* BoundedLength, and that of GrownCapacity, rest on.
LEMMA LeastElement ==
  ASSUME NEW T \in SUBSET Nat, T # {}
  PROVE  \E x \in T : \A y \in T : x <= y
<1>1. PICK x \in T : \A y \in T : ~ (<<y, x>> \in OpToRel(<, Nat))
  <2> HIDE DEF OpToRel
  <2> QED BY NatLessThanWellFounded, WFMin
<1>2. \A y \in T : ~ (y < x)
  BY <1>1 DEF OpToRel
<1>3. \A y \in T : x <= y
  BY <1>2
<1> QED BY <1>3

\* Induction: a set that has 0, and with a number the next, has them all.
LEMMA Induction ==
  ASSUME NEW S, 0 \in S, \A n \in Nat : n \in S => n + 1 \in S
  PROVE  \A n \in Nat : n \in S
<1> SUFFICES ASSUME Nat \ S # {} PROVE FALSE
  OBVIOUS
<1>1. PICK x \in Nat \ S : \A y \in Nat \ S : x <= y
  BY LeastElement
<1>2. x # 0 /\ x - 1 \in Nat /\ ~(x <= x - 1)
  BY <1>1
<1>3. x - 1 \in S
  BY <1>1, <1>2
<1>4. x - 1 + 1 \in S
  BY <1>2, <1>3
<1> QED BY <1>1, <1>4

\* Induction up to a bound.
LEMMA BoundedInduction ==
  ASSUME NEW S, NEW m \in Nat, 0 \in S, \A n \in 0 .. m - 1 : n \in S => n + 1 \in S
  PROVE  \A n \in 0 .. m : n \in S
<1> DEFINE T == {n \in Nat : n <= m => n \in S}
<1>1. 0 \in T
  OBVIOUS
<1>2. \A n \in Nat : n \in T => n + 1 \in T
  OBVIOUS
<1> HIDE DEF T
<1>3. \A n \in Nat : n \in T
  BY <1>1, <1>2, Induction
<1> QED BY <1>3 DEF T

\* def[k] says what a function f has at k, f[k] = def[k][f], and asks of f only
\* what it has where the rank is lower.
Recursive(D, V, m, rank, def) ==
    /\ m \in Nat
    /\ V # {}
    /\ rank \in [D -> 0 .. m]
    /\ def \in [D -> [[D -> V] -> V]]
    /\ \A k \in D : \A g, h \in [D -> V] :
         (\A j \in D : rank[j] < rank[k] => g[j] = h[j]) => def[k][g] = def[k][h]

\* Then there is a function that it defines.
LEMMA Recursion ==
  ASSUME NEW D, NEW V, NEW m, NEW rank, NEW def, Recursive(D, V, m, rank, def)
  PROVE  \E f \in [D -> V] : \A k \in D : f[k] = def[k][f]
<1> DEFINE Solves(f, n) == \A k \in D : rank[k] < n => f[k] = def[k][f]
           S == {n \in Nat : \E f \in [D -> V] : Solves(f, n)}
<1>0. /\ m \in Nat /\ rank \in [D -> 0 .. m] /\ def \in [D -> [[D -> V] -> V]]
      /\ \A k \in D : \A g, h \in [D -> V] :
           (\A j \in D : rank[j] < rank[k] => g[j] = h[j]) => def[k][g] = def[k][h]
      /\ \E v : v \in V
  BY DEF Recursive
<1>1. 0 \in S
  <2>1. PICK v : v \in V
    BY <1>0
  <2>2. [k \in D |-> v] \in [D -> V]
    BY <2>1
  <2>3. \A k \in D : ~(rank[k] < 0)
    BY <1>0
  <2> QED BY <2>2, <2>3
<1>2. ASSUME NEW n \in Nat, n \in S PROVE n + 1 \in S
  <2>1. PICK f \in [D -> V] : Solves(f, n)
    BY <1>2
  <2> DEFINE g == [k \in D |-> IF rank[k] = n THEN def[k][f] ELSE f[k]]
  <2>2. g \in [D -> V]
    BY <1>0
  <2>3. ASSUME NEW k \in D, rank[k] < n + 1 PROVE g[k] = def[k][g]
    <3>1. \A j \in D : rank[j] < rank[k] => g[j] = f[j]
      BY <1>0, <2>3
    <3>2. def[k][g] = def[k][f]
      BY <1>0, <2>2, <3>1
    <3>3. CASE rank[k] = n
      BY <3>2, <3>3
    <3>4. CASE rank[k] < n
      <4>1. g[k] = f[k] /\ f[k] = def[k][f]
        BY <2>1, <3>4
      <4> QED BY <3>2, <4>1
    <3>5. rank[k] \in Nat
      BY <1>0
    <3>6. rank[k] = n \/ rank[k] < n
      BY <2>3, <3>5
    <3> QED BY <3>3, <3>4, <3>6
  <2> HIDE DEF g
  <2> QED BY <2>2, <2>3
<1> HIDE DEF S
<1>3. m + 1 \in S
  BY <1>0, <1>1, <1>2, Induction
<1>4. PICK f \in [D -> V] : Solves(f, m + 1)
  BY <1>3 DEF S
<1>5. \A k \in D : rank[k] < m + 1
  BY <1>0
<1> QED BY <1>4, <1>5

\* A value for 0, and what is made for k of the value before it.
Stepwise(V, n, first, next) ==
    n \in Nat /\ first \in V /\ next \in [1 .. n -> [V -> V]]

\* So there is a function whose values are made of each other from 0 upwards.
LEMMA Upwards ==
  ASSUME NEW V, NEW n, NEW first, NEW next, Stepwise(V, n, first, next)
  PROVE  \E f \in [0 .. n -> V] :
           f[0] = first /\ \A k \in 1 .. n : f[k] = next[k][f[k - 1]]
<1> DEFINE D == 0 .. n
           rank == [k \in D |-> k]
           def  == [k \in D |-> [f \in [D -> V] |-> IF k = 0 THEN first ELSE next[k][f[k - 1]]]]
<1>0. n \in Nat /\ first \in V /\ next \in [1 .. n -> [V -> V]]
  BY DEF Stepwise
<1>1. \A k \in D : k # 0 => k \in 1 .. n /\ k - 1 \in D /\ k - 1 < k
  BY <1>0
<1>2. rank \in [D -> 0 .. n]
  BY <1>0
<1>3. def \in [D -> [[D -> V] -> V]]
  <2>1. ASSUME NEW k \in D, NEW f \in [D -> V]
        PROVE  (IF k = 0 THEN first ELSE next[k][f[k - 1]]) \in V
    BY <1>0, <1>1
  <2> QED BY <2>1
<1>4. \A k \in D : \A g, h \in [D -> V] :
        (\A j \in D : rank[j] < rank[k] => g[j] = h[j]) => def[k][g] = def[k][h]
  <2> SUFFICES ASSUME NEW k \in D, NEW g \in [D -> V], NEW h \in [D -> V],
                      \A j \in D : rank[j] < rank[k] => g[j] = h[j]
               PROVE  def[k][g] = def[k][h]
    OBVIOUS
  <2>1. k # 0 => g[k - 1] = h[k - 1]
    BY <1>1
  <2> QED BY <2>1
<1>5. Recursive(D, V, n, rank, def)
  BY <1>0, <1>2, <1>3, <1>4 DEF Recursive
<1>6. PICK f \in [D -> V] : \A k \in D : f[k] = def[k][f]
  <2> HIDE DEF rank, def, D
  <2> QED BY <1>5, Recursion
<1>7. f[0] = first /\ \A k \in 1 .. n : f[k] = next[k][f[k - 1]]
  BY <1>0, <1>6
<1> QED BY <1>7

\* A text that is read from its beginning to its end: what is made of it from i
\* on is a piece, and what is made of it from next[i] on.
Piecewise(V, n, m, piece, next) ==
    /\ n \in Nat /\ m \in Nat /\ n <= m
    /\ piece \in [1 .. n -> Seq(V)]
    /\ next \in [1 .. n -> 1 .. m]
    /\ \A i \in 1 .. n : i < next[i]

ReadOn(n, m, piece, next, t) ==
    t = [i \in 1 .. m |-> IF i > n THEN << >> ELSE piece[i] \o t[next[i]]]

\* There is a function that says what is made of it, and only one.
LEMMA Onwards ==
  ASSUME NEW V, NEW n, NEW m, NEW piece, NEW next, Piecewise(V, n, m, piece, next)
  PROVE  \E t : ReadOn(n, m, piece, next, t)
<1> DEFINE D == 1 .. m
           W == Seq(V)
           E(i, g) == IF i > n THEN << >> ELSE piece[i] \o g[next[i]]
           rank == [i \in D |-> m - i]
           def  == [i \in D |-> [g \in [D -> W] |-> E(i, g)]]
<1>0. /\ n \in Nat /\ m \in Nat /\ n <= m /\ \A i \in 1 .. n : piece[i] \in W
      /\ \A i \in 1 .. n : next[i] \in D /\ i < next[i]
      /\ \A i \in D : i \in Nat /\ (i <= n => i \in 1 .. n)
  <2>1. n \in Nat /\ m \in Nat /\ n <= m
    BY DEF Piecewise
  <2>2. \A i \in 1 .. n : piece[i] \in W /\ next[i] \in D /\ i < next[i]
    BY DEF Piecewise
  <2> QED BY <2>1, <2>2
<1>1. rank \in [D -> 0 .. m] /\ m \in Nat /\ W # {}
  <2>1. \A i \in D : m - i \in 0 .. m
    BY <1>0
  <2>2. << >> \in W
    OBVIOUS
  <2> HIDE DEF D, W
  <2> QED BY <1>0, <2>1, <2>2
<1>2. ASSUME NEW i \in D, NEW g \in [D -> W] PROVE E(i, g) \in W
  <2>1. CASE i > n
    BY <2>1
  <2>2. CASE i <= n
    <3>1. i \in 1 .. n /\ g[next[i]] \in W /\ piece[i] \in W
      BY <1>0, <2>2
    <3> QED BY <1>0, <2>2, <3>1, ConcatProperties
  <2> QED BY <1>0, <2>1, <2>2
<1>3. def \in [D -> [[D -> W] -> W]]
  BY <1>2
<1>4. \A k \in D : \A g, h \in [D -> W] :
        (\A j \in D : rank[j] < rank[k] => g[j] = h[j]) => def[k][g] = def[k][h]
  <2> SUFFICES ASSUME NEW k \in D, NEW g \in [D -> W], NEW h \in [D -> W],
                      \A j \in D : rank[j] < rank[k] => g[j] = h[j]
               PROVE  def[k][g] = def[k][h]
    OBVIOUS
  <2>1. k <= n => next[k] \in D /\ rank[next[k]] < rank[k]
    BY <1>0, SMTT(30)
  <2>2. k <= n => g[next[k]] = h[next[k]]
    BY <2>1
  <2> QED BY <1>0, <2>2
<1>5. Recursive(D, W, m, rank, def)
  BY <1>1, <1>3, <1>4 DEF Recursive
<1>6. PICK f \in [D -> W] : \A k \in D : f[k] = def[k][f]
  <2> HIDE DEF rank, def, D, W
  <2> QED BY <1>5, Recursion
<1>7. f = [i \in D |-> E(i, f)]
  BY <1>6
<1> QED BY <1>7 DEF ReadOn

MadeOf(V, n, m, piece, next, t) ==
    /\ \A i \in 1 .. m : t[i] \in Seq(V)
    /\ \A i \in 1 .. m : i > n => t[i] = << >>
    /\ \A i \in 1 .. n : t[i] = piece[i] \o t[next[i]]

\* What it says is made of the pieces.
LEMMA OnwardsType ==
  ASSUME NEW V, NEW n, NEW m, NEW piece, NEW next, Piecewise(V, n, m, piece, next),
         NEW t, ReadOn(n, m, piece, next, t)
  PROVE  MadeOf(V, n, m, piece, next, t)
<1> DEFINE D == 1 .. m
           W == Seq(V)
           empty == << >>
           E(i) == IF i > n THEN << >> ELSE piece[i] \o t[next[i]]
           S == {k \in Nat : \A i \in D : m - i <= k => t[i] \in W}
<1>0. /\ n \in Nat /\ m \in Nat /\ n <= m /\ \A i \in 1 .. n : piece[i] \in W
      /\ \A i \in 1 .. n : next[i] \in D /\ i < next[i]
      /\ \A i \in D : i \in Nat /\ (i <= n => i \in 1 .. n)
      /\ \A i \in 1 .. n : i \in D /\ ~(i > n)
  <2>1. n \in Nat /\ m \in Nat /\ n <= m
    BY DEF Piecewise
  <2>2. \A i \in 1 .. n : piece[i] \in W /\ next[i] \in D /\ i < next[i]
    BY DEF Piecewise
  <2> QED BY <2>1, <2>2
<1>1. \A i \in D : t[i] = E(i)
  <2>1. t = [i \in D |-> E(i)]
    BY DEF ReadOn
  <2> HIDE DEF E
  <2> QED BY <2>1
<1>2. empty \in W
  OBVIOUS
<1>3. \A i \in D : i > n => t[i] = empty
  BY <1>1
<1>4. \A i \in 1 .. n : t[i] = piece[i] \o t[next[i]]
  BY <1>0, <1>1
<1> HIDE DEF E, W, empty, D
<1>5. 0 \in S
  <2>1. \A i \in D : m - i <= 0 /\ i <= n => i = n /\ n = m
    BY <1>0 DEF D
  <2>2. n = m => \A i \in D : ~(i = n /\ n = m)
    <3> SUFFICES ASSUME n = m, n \in D PROVE FALSE
      OBVIOUS
    <3>1. n \in 1 .. n
      BY <1>0 DEF D
    <3>2. next[n] \in D /\ n < next[n]
      BY <1>0, <3>1
    <3> QED BY <1>0, <3>2 DEF D
  <2>3. \A i \in D : m - i <= 0 => i > n
    BY <1>0, <2>1, <2>2
  <2> QED BY <1>2, <1>3, <2>3
<1>6. ASSUME NEW k \in Nat, k \in S PROVE k + 1 \in S
  <2>1. ASSUME NEW i \in D, m - i <= k + 1 PROVE t[i] \in W
    <3>1. CASE i > n
      BY <1>2, <1>3, <3>1
    <3>2. CASE i <= n
      <4>1. i \in 1 .. n /\ next[i] \in D /\ i < next[i]
        BY <1>0, <3>2
      <4>2. m - next[i] <= k
        BY <1>0, <2>1, <4>1 DEF D
      <4>3. t[next[i]] \in W /\ piece[i] \in W
        BY <1>0, <1>6, <4>1, <4>2
      <4> QED BY <1>4, <4>1, <4>3, ConcatProperties DEF W
    <3> QED BY <1>0, <3>1, <3>2
  <2> QED BY <2>1
<1>7. \A k \in Nat : k \in S
  <2> HIDE DEF S
  <2> QED BY <1>5, <1>6, Induction
<1>8. \A i \in D : t[i] \in W
  <2>1. m \in S /\ \A i \in D : m - i <= m
    BY <1>0, <1>7
  <2> QED BY <2>1
<1> QED BY <1>3, <1>4, <1>8 DEF D, W, empty, MadeOf
=============================================================================
