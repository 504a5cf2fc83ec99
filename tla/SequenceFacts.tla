---------------------------- MODULE SequenceFacts -----------------------------
(***************************************************************************)
(* What the proofs about frames and about files need to know of numbers and  *)
(* sequences, whatever their elements are.                                  *)
(***************************************************************************)
EXTENDS Integers, Sequences, FiniteSetTheorems, TLAPS

-----------------------------------------------------------------------------
(* Induction.  The library's induction theorems take the formula as a        *)
(* parameter; this one takes the set of its counterexamples.                *)

\* Every nonempty set of natural numbers has a least element: the initial segments
\* 0..n are finite, and strict inclusion of finite sets is well founded.
LEMMA LeastElement ==
  ASSUME NEW T \in SUBSET Nat, T # {}
  PROVE  \E n \in T : \A m \in T : n <= m
<1>. DEFINE R == StrictSubsetOrdering(Nat)
            Segments == {0 .. n : n \in T}
<1>1. IsWellFoundedOn(R, FiniteSubsetsOf(Nat))
  BY FS_StrictSubsetOrderingWellFounded
<1>2. \A n \in T : 0 .. n \in FiniteSubsetsOf(Nat)
  <2>1. \A n \in Nat : 0 .. n \subseteq Nat /\ IsFiniteSet(0 .. n)
    BY FS_Interval
  <2>. QED BY <2>1 DEF FiniteSubsetsOf
<1>3. Segments \subseteq FiniteSubsetsOf(Nat) /\ Segments # {}
  BY <1>2
<1>4. PICK s \in Segments : \A r \in Segments : <<r, s>> \notin R
  <2>. HIDE DEF R, Segments
  <2>. QED BY <1>1, <1>3, WFMin
<1>5. PICK n \in T : s = 0 .. n
  BY <1>4
<1>6. ASSUME NEW m \in T, m < n PROVE FALSE
  <2>1. 0 .. m \in Segments
    OBVIOUS
  <2>2. 0 .. m \subseteq 0 .. n /\ n \in 0 .. n /\ n \notin 0 .. m
    BY <1>6
  <2>3. <<0 .. m, 0 .. n>> \in R
    BY <2>2, <1>2, <1>5 DEF StrictSubsetOrdering, FiniteSubsetsOf
  <2>. QED BY <1>4, <1>5, <2>1, <2>3
<1>. QED BY <1>6

\* Induction over 0 .. n, upwards: T is the set of the numbers for which the claim holds.
LEMMA Upwards ==
  ASSUME NEW n \in Nat, NEW T,
         0 \in T, \A k \in 1 .. n : k - 1 \in T => k \in T
  PROVE  \A k \in 0 .. n : k \in T
<1>. DEFINE U == {k \in 0 .. n : k \notin T}
<1>1. SUFFICES ASSUME U # {} PROVE FALSE
  OBVIOUS
<1>2. PICK k \in U : \A j \in U : k <= j
  <2>1. U \in SUBSET Nat
    OBVIOUS
  <2>. HIDE DEF U
  <2>. QED BY <1>1, <2>1, LeastElement
<1>3. k \in 1 .. n /\ k - 1 \in 0 .. n /\ k - 1 \notin U
  BY <1>2
<1>. QED BY <1>2, <1>3

\* And downwards.
LEMMA Downwards ==
  ASSUME NEW n \in Nat, NEW T,
         n \in T, \A k \in 1 .. n : k \in T => k - 1 \in T
  PROVE  \A k \in 0 .. n : k \in T
<1>. DEFINE U == {k \in 0 .. n : n - k \in T}
<1>1. 0 \in U
  OBVIOUS
<1>2. ASSUME NEW k \in 1 .. n, k - 1 \in U PROVE k \in U
  <2>1. n - (k - 1) \in 1 .. n /\ n - (k - 1) \in T /\ n - (k - 1) - 1 = n - k
    BY <1>2
  <2>2. n - k \in T
    BY <2>1
  <2>. QED BY <2>2
<1>3. \A k \in 0 .. n : k \in U
  <2>. HIDE DEF U
  <2>. QED BY <1>1, <1>2, Upwards
<1>4. ASSUME NEW k \in 0 .. n PROVE k \in T
  <2>1. n - k \in 0 .. n /\ n - (n - k) = k
    OBVIOUS
  <2>2. n - k \in U
    BY <1>3, <2>1
  <2>. QED BY <2>1, <2>2
<1>. QED BY <1>4

-----------------------------------------------------------------------------
(* Sequences.                                                               *)

\* The elements of a concatenation.
LEMMA ConcatIs ==
  ASSUME NEW S, NEW s \in Seq(S), NEW t \in Seq(S)
  PROVE  /\ s \o t \in Seq(S)
         /\ Len(s \o t) = Len(s) + Len(t)
         /\ \A k \in 1 .. Len(s) : (s \o t)[k] = s[k]
         /\ \A k \in 1 .. Len(t) : (s \o t)[Len(s) + k] = t[k]
OBVIOUS

\* Two sequences of the same length with the same elements are the same.
LEMMA SameSequence ==
  ASSUME NEW S, NEW s \in Seq(S), NEW t \in Seq(S), Len(s) = Len(t),
         \A k \in 1 .. Len(s) : s[k] = t[k]
  PROVE  s = t
OBVIOUS

=============================================================================
