----------------------------- MODULE DataLemmas -----------------------------
(***************************************************************************)
(* Least and greatest naturals, and sequences.  A statement about every    *)
(* natural number is proved from its least counterexample, in place of     *)
(* induction.                                                              *)
(***************************************************************************)
EXTENDS Integers, Sequences, FiniteSetTheorems, TLAPS

(***************************************************************************)
(* Every non-empty set of naturals has a least element, from the           *)
(* well-foundedness of the strict inclusion of finite sets.                *)
(***************************************************************************)
LEMMA LeastNatural ==
    ASSUME NEW T \in SUBSET Nat, T # {}
    PROVE  \E m \in T : \A n \in T : m <= n
<1> DEFINE R == StrictSubsetOrdering(Nat)
           W == {0 .. n : n \in T}
<1>1. IsWellFoundedOn(R, FiniteSubsetsOf(Nat))
    BY FS_StrictSubsetOrderingWellFounded
<1>2. W \subseteq FiniteSubsetsOf(Nat)
    <2> SUFFICES ASSUME NEW n \in T  PROVE 0 .. n \in FiniteSubsetsOf(Nat)
        OBVIOUS
    <2>1. IsFiniteSet(0 .. n)
        BY FS_Interval
    <2> QED
        BY <2>1 DEF FiniteSubsetsOf
<1>3. W # {}
    OBVIOUS
<1> HIDE DEF W, R
<1>4. PICK x \in W : \A y \in W : ~ (<<y, x>> \in R)
    BY <1>1, <1>2, <1>3, WFMin
<1>5. PICK m \in T : x = 0 .. m
    BY DEF W
<1>6. ASSUME NEW n \in T, n < m
      PROVE  FALSE
    <2>1. 0 .. n \in W
        BY DEF W
    <2>2. <<0 .. n, 0 .. m>> \in (SUBSET Nat) \X (SUBSET Nat)
        BY <1>6
    <2>3. m \in 0 .. m /\ m \notin 0 .. n
        BY <1>6
    <2>4. 0 .. n \subseteq 0 .. m /\ 0 .. n # 0 .. m
        BY <1>6, <2>3
    <2> QED
        BY <2>1, <2>2, <2>4, <1>4, <1>5 DEF R, StrictSubsetOrdering
<1> QED
    BY <1>6

(***************************************************************************)
(* Every non-empty set of naturals that has an upper bound has a greatest  *)
(* element.                                                                *)
(***************************************************************************)
LEMMA GreatestNatural ==
    ASSUME NEW T \in SUBSET Nat, T # {}, NEW top \in Nat, \A n \in T : n <= top
    PROVE  \E m \in T : \A n \in T : n <= m
<1> DEFINE U == {k \in Nat : \E n \in T : n + k = top}
<1>1. U # {}
    <2>1. PICK n \in T : TRUE
        OBVIOUS
    <2>2. top - n \in Nat /\ n + (top - n) = top
        BY <2>1
    <2> QED
        BY <2>1, <2>2
<1>2. PICK k \in U : \A i \in U : k <= i
    <2>1. U \in SUBSET Nat
        OBVIOUS
    <2> HIDE DEF U
    <2> QED
        BY <1>1, <2>1, LeastNatural
<1>3. PICK m \in T : m + k = top
    BY <1>2
<1>4. ASSUME NEW n \in T
      PROVE  n <= m
    <2>1. top - n \in Nat /\ n + (top - n) = top
        BY <1>4
    <2>2. top - n \in U
        BY <2>1
    <2>3. k <= top - n
        BY <1>2, <2>2
    <2> QED
        BY <1>3, <2>3
<1> QED
    BY <1>4

-----------------------------------------------------------------------------
\* A sequence is a function on 1 .. Len(s).
LEMMA SeqLen ==
    ASSUME NEW T, NEW s \in Seq(T)
    PROVE  /\ Len(s) \in Nat /\ DOMAIN s = 1 .. Len(s)
           /\ s \in [1 .. Len(s) -> T]
    OBVIOUS

LEMMA SeqElement ==
    ASSUME NEW T, NEW s \in Seq(T), NEW k \in 1 .. Len(s)
    PROVE  s[k] \in T
    OBVIOUS

LEMMA SeqNone ==
    ASSUME NEW T
    PROVE  /\ << >> \in Seq(T) /\ Len(<< >>) = 0
           /\ \A s \in Seq(T) : s # << >> => Len(s) \in Nat \ {0}
    OBVIOUS

LEMMA SeqSame ==
    ASSUME NEW T, NEW s \in Seq(T), NEW t \in Seq(T), Len(s) = Len(t),
           \A k \in 1 .. Len(s) : s[k] = t[k]
    PROVE  s = t
    OBVIOUS

\* A sequence of a set is one of any larger set.
LEMMA SeqWider ==
    ASSUME NEW S, NEW T, S \subseteq T, NEW s \in Seq(S)
    PROVE  s \in Seq(T)
  <1>1. Len(s) \in Nat /\ s \in [1 .. Len(s) -> S]
    BY SeqLen, Zenon
  <1>2. s \in [1 .. Len(s) -> T]
    BY <1>1, Zenon
  <1> QED
    BY <1>1, <1>2, SMT

\* One sequence after another, and a part of one.
LEMMA SeqJoin ==
    ASSUME NEW T, NEW s \in Seq(T), NEW t \in Seq(T)
    PROVE  /\ s \o t \in Seq(T) /\ Len(s \o t) = Len(s) + Len(t)
           /\ \A k \in 1 .. Len(s) + Len(t) :
                 (s \o t)[k] = IF k <= Len(s) THEN s[k] ELSE t[k - Len(s)]
    OBVIOUS

LEMMA SeqJoinNone ==
    ASSUME NEW T, NEW s \in Seq(T)
    PROVE  s \o << >> = s /\ << >> \o s = s
    OBVIOUS

LEMMA SeqPart ==
    ASSUME NEW T, NEW s, NEW a \in Int, NEW b \in Int,
           \A k \in a .. b : s[k] \in T
    PROVE  /\ SubSeq(s, a, b) \in Seq(T)
           /\ Len(SubSeq(s, a, b)) = IF a <= b THEN b - a + 1 ELSE 0
           /\ \A k \in 1 .. b - a + 1 : SubSeq(s, a, b)[k] = s[a + k - 1]
    OBVIOUS
=============================================================================
