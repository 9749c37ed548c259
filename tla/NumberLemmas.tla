---------------------------- MODULE NumberLemmas ----------------------------
(***************************************************************************)
(* Least and greatest numbers of a set, and functions on the numbers that  *)
(* are given by a first value and a step.                                  *)
(***************************************************************************)
EXTENDS Integers, WellFoundedInduction, TLAPS

\* A nonempty set of numbers has a least.
LEMMA LeastNumber ==
  ASSUME NEW S, S \subseteq Nat, S # {}
  PROVE  \E x \in S : \A y \in S : x <= y
<1>1. PICK x \in S : \A y \in S : ~(<<y, x>> \in OpToRel(<, Nat))
  BY NatLessThanWellFounded, WFMin
<1>2. ASSUME NEW y \in S  PROVE x <= y
  <2>1. <<y, x>> \in Nat \X Nat /\ <<y, x>>[1] = y /\ <<y, x>>[2] = x
    OBVIOUS
  <2>2. ~(y < x)
    BY <1>1, <2>1 DEF OpToRel
  <2> QED  BY <2>2
<1> QED  BY <1>2

\* One with a bound has a greatest.
LEMMA GreatestNumber ==
  ASSUME NEW m \in Nat, NEW S, S \subseteq 0 .. m, S # {}
  PROVE  \E x \in S : \A y \in S : y <= x
<1> DEFINE T == {m - x : x \in S}
<1>1. T \subseteq Nat /\ T # {}
  <2>1. T \subseteq Nat
    BY SMT
  <2>2. PICK x \in S : TRUE
    OBVIOUS
  <2>3. m - x \in T
    BY <2>2
  <2> QED  BY <2>1, <2>3
<1>2. PICK t \in T : \A u \in T : t <= u
  <2> HIDE DEF T
  <2> QED  BY <1>1, LeastNumber
<1>3. PICK x \in S : t = m - x
  BY <1>2
<1>4. ASSUME NEW y \in S  PROVE y <= x
  <2>1. m - x <= m - y /\ x \in Int /\ y \in Int
    BY <1>2, <1>3
  <2> QED  BY <2>1
<1> QED  BY <1>4

\* What a set of numbers has from the start on, and with each number the next, is all of them.
LEMMA AllNumbers ==
  ASSUME NEW S, 0 \in S, \A k \in Nat : k \in S => k + 1 \in S
  PROVE  Nat \subseteq S
<1> SUFFICES ASSUME Nat \ S # {} PROVE FALSE
  OBVIOUS
<1>1. PICK x \in Nat \ S : \A y \in Nat \ S : x <= y
  BY LeastNumber
<1>2. x - 1 \in Nat /\ ~(x <= x - 1) /\ x = (x - 1) + 1
  BY <1>1
<1>3. x - 1 \in S
  BY <1>1, <1>2
<1> QED  BY <1>1, <1>2, <1>3

\* F applied again and again.
Iterated(F, x, f) == f[0] = x /\ \A k \in Nat : f[k + 1] = F[f[k]]

LEMMA Iteration ==
  ASSUME NEW X, NEW x \in X, NEW F \in [X -> X]
  PROVE  \E f \in [Nat -> X] : Iterated(F, x, f)
<1> DEFINE Upto(n, g) == g \in [0 .. n -> X] /\ g[0] = x /\ \A k \in 0 .. n : k + 1 \in 0 .. n => g[k + 1] = F[g[k]]
           Some == {n \in Nat : \E g : Upto(n, g)}
           run == [n \in Nat |-> CHOOSE g : Upto(n, g)]
           f == [n \in Nat |-> run[n][n]]
<1>1. 0 \in Some
  <2> DEFINE g == [k \in 0 .. 0 |-> x]
  <2>1. Upto(0, g)
    OBVIOUS
  <2> QED  BY <2>1
<1>2. ASSUME NEW n \in Nat, n \in Some  PROVE n + 1 \in Some
  <2>1. PICK g : Upto(n, g)
    BY <1>2
  <2> DEFINE h == [k \in 0 .. n + 1 |-> IF k = n + 1 THEN F[g[n]] ELSE g[k]]
  <2>2. h \in [0 .. n + 1 -> X]
    BY <2>1
  <2>3. h[0] = x
    BY <2>1
  <2>4. ASSUME NEW k \in 0 .. n + 1, k + 1 \in 0 .. n + 1  PROVE h[k + 1] = F[h[k]]
    <3>1. CASE k = n
      BY <2>4, <3>1
    <3>2. CASE k # n
      <4>1. k \in 0 .. n /\ k + 1 \in 0 .. n /\ k + 1 # n + 1 /\ k # n + 1
        BY <2>4, <3>2
      <4>2. g[k + 1] = F[g[k]]
        BY <2>1, <4>1
      <4> QED  BY <2>4, <4>1, <4>2
    <3> QED  BY <3>1, <3>2
  <2>5. Upto(n + 1, h)
    <3> HIDE DEF h
    <3> QED  BY <2>2, <2>3, <2>4
  <2> HIDE DEF h, Upto
  <2> QED  BY <2>5
<1>3. ASSUME NEW n \in Nat  PROVE Upto(n, run[n])
  <2>1. n \in Some
    <3> HIDE DEF Some
    <3> QED  BY <1>1, <1>2, AllNumbers
  <2> HIDE DEF Upto
  <2> QED  BY <2>1
<1> HIDE DEF run
<1>4. ASSUME NEW n \in Nat  PROVE run[n + 1][n] = run[n][n]
  <2> DEFINE Same == {k \in Nat : k <= n => run[n + 1][k] = run[n][k]}
  <2>1. 0 \in Same
    BY <1>3
  <2>2. ASSUME NEW k \in Nat, k \in Same  PROVE k + 1 \in Same
    <3> SUFFICES ASSUME k + 1 <= n PROVE run[n + 1][k + 1] = run[n][k + 1]
      OBVIOUS
    <3>1. run[n + 1][k] = run[n][k]
      BY <2>2
    <3>2. k \in 0 .. n /\ k + 1 \in 0 .. n /\ k \in 0 .. n + 1 /\ k + 1 \in 0 .. n + 1
      OBVIOUS
    <3>3. n + 1 \in Nat
      OBVIOUS
    <3>4. Upto(n, run[n]) /\ Upto(n + 1, run[n + 1])
      BY <1>3, <3>3
    <3> QED  BY <3>1, <3>2, <3>4
  <2>3. n \in Same
    <3> HIDE DEF Same
    <3> QED  BY <2>1, <2>2, AllNumbers
  <2> QED  BY <2>3
<1>5. f \in [Nat -> X]
  BY <1>3
<1>6. f[0] = x
  BY <1>3
<1>7. ASSUME NEW k \in Nat  PROVE f[k + 1] = F[f[k]]
  <2>1. Upto(k + 1, run[k + 1])
    <3>1. k + 1 \in Nat
      OBVIOUS
    <3> HIDE DEF Upto
    <3> QED  BY <1>3, <3>1
  <2>2. run[k + 1][k + 1] = F[run[k + 1][k]]
    BY <2>1
  <2>3. f[k + 1] = run[k + 1][k + 1] /\ f[k] = run[k][k]
    OBVIOUS
  <2> HIDE DEF f
  <2> QED  BY <1>4, <2>2, <2>3
<1> HIDE DEF f
<1> QED  BY <1>5, <1>6, <1>7 DEF Iterated

\* A step may depend on its number.
Stepped(F, x, f) == f[0] = x /\ \A k \in Nat : f[k + 1] = F[<<k, f[k]>>]

LEMMA Steps ==
  ASSUME NEW X, NEW x \in X, NEW F \in [Nat \X X -> X]
  PROVE  \E f \in [Nat -> X] : Stepped(F, x, f)
<1> DEFINE Y == Nat \X X
           G == [y \in Y |-> <<y[1] + 1, F[y]>>]
<1>1. G \in [Y -> Y] /\ <<0, x>> \in Y
  OBVIOUS
<1>2. PICK h \in [Nat -> Y] : Iterated(G, <<0, x>>, h)
  <2> HIDE DEF Y, G
  <2> QED  BY <1>1, Iteration
<1> DEFINE f == [k \in Nat |-> h[k][2]]
           Counted == {k \in Nat : h[k][1] = k}
<1>3. h[0] = <<0, x>> /\ \A k \in Nat : h[k + 1] = <<h[k][1] + 1, F[h[k]]>>
  BY <1>2 DEF Iterated
<1>4. Nat \subseteq Counted
  <2>1. 0 \in Counted
    BY <1>3
  <2>2. ASSUME NEW k \in Nat, k \in Counted  PROVE k + 1 \in Counted
    BY <1>3, <2>2
  <2> HIDE DEF Counted
  <2> QED  BY <2>1, <2>2, AllNumbers
<1>5. \A k \in Nat : h[k] = <<k, f[k]>> /\ f[k] \in X
  BY <1>2, <1>4
<1>6. f \in [Nat -> X] /\ f[0] = x
  BY <1>3, <1>5
<1>7. ASSUME NEW k \in Nat  PROVE f[k + 1] = F[<<k, f[k]>>]
  <2>1. f[k + 1] = h[k + 1][2]
    OBVIOUS
  <2>2. h[k + 1] = <<h[k][1] + 1, F[h[k]]>> /\ h[k] = <<k, f[k]>>
    <3> HIDE DEF f
    <3> QED  BY <1>3, <1>5
  <2>3. h[k + 1][2] = F[h[k]]
    BY <2>2
  <2> HIDE DEF f
  <2> QED  BY <2>1, <2>2, <2>3
<1> HIDE DEF f
<1> QED  BY <1>6, <1>7 DEF Stepped
=============================================================================
