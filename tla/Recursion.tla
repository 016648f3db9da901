-------------------------------- MODULE Recursion -------------------------------
(***************************************************************************)
(* Recursion over the natural numbers.  A recursive function of a model is *)
(* a CHOOSE of one that satisfies its equation: that there is such a       *)
(* function, and what it computes, is shown with the lemmas below.         *)
(***************************************************************************)
EXTENDS Integers, TLAPS, WellFoundedInduction

(* Induction over the natural numbers, with a set for the property.        *)
LEMMA EveryNatural ==
  ASSUME NEW T, 0 \in T, \A n \in Nat : n \in T => n + 1 \in T
  PROVE  Nat \subseteq T
<1> SUFFICES ASSUME Nat \ T # {} PROVE FALSE
  OBVIOUS
<1> DEFINE R == OpToRel(<, Nat)
<1>1. \E x \in Nat \ T : \A y \in Nat \ T : ~ (<<y, x>> \in R)
  <2>1. IsWellFoundedOn(R, Nat) /\ Nat \ T \subseteq Nat
    BY NatLessThanWellFounded
  <2> HIDE DEF R
  <2> QED
    BY <2>1, WFMin
<1>2. PICK x \in Nat \ T : \A y \in Nat \ T : ~(y < x)
  BY <1>1 DEF OpToRel
<1>3. x - 1 \in Nat /\ x - 1 \notin T
  <2>1. x # 0
    OBVIOUS
  <2> QED
    BY <2>1
<1> QED
  BY <1>2, <1>3

(* g is what L steps on a set of values make of the first.                 *)
Steps(g, L, Values, first, Step) ==
  /\ g \in [0 .. L -> Values]
  /\ g[0] = first
  /\ \A n \in 1 .. L : g[n] = Step[<<n, g[n - 1]>>]

(* So many steps can be taken, whatever a step is.                         *)
LEMMA StepsExist ==
  ASSUME NEW L \in Nat, NEW Values, NEW first \in Values,
         NEW Step \in [(1 .. L) \X Values -> Values]
  PROVE  \E g : Steps(g, L, Values, first, Step)
<1> DEFINE T == {m \in Nat : m <= L => \E g : Steps(g, m, Values, first, Step)}
<1>1. 0 \in T
  <2>1. Steps([n \in 0 .. 0 |-> first], 0, Values, first, Step)
    BY DEF Steps
  <2> QED
    BY <2>1
<1>2. ASSUME NEW m \in Nat, m \in T PROVE m + 1 \in T
  <2> SUFFICES ASSUME m + 1 <= L
               PROVE  \E g : Steps(g, m + 1, Values, first, Step)
    OBVIOUS
  <2>1. PICK g : Steps(g, m, Values, first, Step)
    BY <1>2
  <2>2. /\ g \in [0 .. m -> Values] /\ g[0] = first
        /\ \A n \in 1 .. m : g[n] = Step[<<n, g[n - 1]>>]
    BY <2>1 DEF Steps
  <2> DEFINE h == [n \in 0 .. m + 1 |->
                     IF n = m + 1 THEN Step[<<n, g[m]>>] ELSE g[n]]
  <2>3. Step[<<m + 1, g[m]>>] \in Values
    BY <2>2
  <2>4. h \in [0 .. m + 1 -> Values]
    BY <2>2, <2>3
  <2>5. h[0] = first
    BY <2>2
  <2>6. ASSUME NEW n \in 1 .. m + 1 PROVE h[n] = Step[<<n, h[n - 1]>>]
    <3>1. h[n - 1] = g[n - 1]
      OBVIOUS
    <3>2. CASE n = m + 1
      BY <3>1, <3>2
    <3>3. CASE n # m + 1
      <4>1. n \in 1 .. m /\ h[n] = g[n]
        BY <3>3
      <4> QED
        BY <2>2, <3>1, <4>1
    <3> QED
      BY <3>2, <3>3
  <2>7. Steps(h, m + 1, Values, first, Step)
    <3> HIDE DEF h
    <3> QED
      BY <2>4, <2>5, <2>6 DEF Steps
  <2> QED
    BY <2>7
<1>3. Nat \subseteq T
  <2> HIDE DEF T
  <2> QED
    BY <1>1, <1>2, EveryNatural
<1> QED
  BY <1>3

===============================================================================
