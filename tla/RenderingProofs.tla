---------------------------- MODULE RenderingProofs ----------------------------
(***************************************************************************)
(* What the operators of Rendering.tla compute: the least index at which a *)
(* search loop stops, the elements of a list that grows, and the addresses *)
(* that are left by NewTCPServerEx, which Rendering.tla computes           *)
(* recursively.                                                            *)
(***************************************************************************)
EXTENDS Rendering, WellFoundedInduction, NaturalsInduction, SequenceTheorems, TLAPS

\* A loop stops at the least index.
LEMMA FirstLemma ==
    ASSUME NEW S \in SUBSET Int, NEW n \in S, \A m \in S : n <= m
    PROVE  First(S) = n
  <1>1. \E k \in S : \A m \in S : k <= m
    OBVIOUS
  <1>2. First(S) \in S /\ \A m \in S : First(S) <= m
    BY <1>1, Zenon DEF First
  <1>3. First(S) \in Int /\ First(S) <= n /\ n <= First(S)
    BY <1>2
  <1>. QED
    BY <1>3

\* Appending adds one element.
LEMMA AppendedElements ==
    ASSUME NEW S, NEW s \in Seq(S), NEW x \in S
    PROVE  LET a == Append(s, x)
           IN  /\ Len(a) = Len(s) + 1
               /\ {a[m] : m \in DOMAIN a} = {s[m] : m \in DOMAIN s} \union {x}
  <1>. DEFINE a == Append(s, x)
  <1>1. /\ Len(s) \in Nat /\ DOMAIN s = 1..Len(s) /\ DOMAIN a = 1..(Len(s) + 1)
        /\ Len(a) = Len(s) + 1
    BY LenProperties, AppendProperties
  <1>2. a[Len(s) + 1] = x /\ \A m \in 1..Len(s) : a[m] = s[m]
    BY AppendProperties
  <1>3. DOMAIN a = DOMAIN s \union {Len(s) + 1}
    BY <1>1
  <1>. HIDE DEF a
  <1>. QED
    BY <1>1, <1>2, <1>3

(***************************************************************************)
(* Induction over the naturals with a set in place of a predicate, from    *)
(* the well-founded order.                                                 *)
(***************************************************************************)
LEMMA LessThan ==
    \E R : IsWellFoundedOn(R, Nat) /\ \A m, n \in Nat : n < m => <<n, m>> \in R
  <1>1. \A m, n \in Nat : n < m => <<n, m>> \in OpToRel(<, Nat)
    BY DEF OpToRel
  <1>. QED
    BY <1>1, NatLessThanWellFounded, Zenon

LEMMA LeastNatural ==
    ASSUME NEW T, T \subseteq Nat, T # {}
    PROVE  \E m \in T : \A n \in T : m <= n
  <1>1. PICK R : IsWellFoundedOn(R, Nat) /\ \A m, n \in Nat : n < m => <<n, m>> \in R
    BY LessThan
  <1>2. PICK m \in T : \A n \in T : ~(<<n, m>> \in R)
    BY <1>1, WFMin
  <1>3. \A n \in T : ~(n < m)
    BY <1>1, <1>2, Zenon
  <1>. QED
    BY <1>3

LEMMA SetInduction ==
    ASSUME NEW S, 0 \in S, \A n \in Nat : n \in S => n + 1 \in S
    PROVE  Nat \subseteq S
  <1>. SUFFICES ASSUME Nat \ S # {} PROVE FALSE
    OBVIOUS
  <1>1. PICK m \in Nat \ S : \A n \in Nat \ S : m <= n
    BY LeastNatural
  <1>2. m - 1 \in Nat /\ m - 1 \in S
    BY <1>1
  <1>. QED
    BY <1>2

(***************************************************************************)
(* The addresses that resolve.                                             *)
(***************************************************************************)
\* What is left of the first n addresses, given what is left of fewer.
Left(left, addresses, n) ==
    IF n = 0 THEN <<>>
    ELSE IF addresses[n].ip \in ResolvableIPs THEN Append(left[n - 1], addresses[n])
    ELSE left[n - 1]

LeavesUpTo(left, addresses, n) == left = [k \in 0..n |-> Left(left, addresses, k)]

\* Addresses are left of every prefix: the recursion is well founded.
LEMMA ResolvedExists ==
    ASSUME NEW a, NEW n \in Nat
    PROVE  \E left : LeavesUpTo(left, a, n)
  <1>. DEFINE S == {k \in Nat : \E left : LeavesUpTo(left, a, k)}
  <1>1. 0 \in S
    <2>. DEFINE f == [k \in 0..0 |-> <<>>]
    <2>1. LeavesUpTo(f, a, 0)
      BY DEF LeavesUpTo, Left
    <2>. QED
      BY <2>1
  <1>2. ASSUME NEW k \in Nat, k \in S PROVE k + 1 \in S
    <2>1. PICK f : LeavesUpTo(f, a, k)
      BY <1>2
    <2>. DEFINE g == [m \in 0..(k + 1) |-> IF m = k + 1 THEN Left(f, a, k + 1) ELSE f[m]]
    <2>2. \A m \in 0..k : f[m] = Left(f, a, m)
      BY <2>1 DEF LeavesUpTo
    <2>3. ASSUME NEW m \in 0..(k + 1) PROVE g[m] = Left(g, a, m)
      <3>1. m # 0 => m - 1 \in 0..k /\ g[m - 1] = f[m - 1]
        OBVIOUS
      <3>2. Left(g, a, m) = Left(f, a, m)
        <4>. HIDE DEF g
        <4>. QED
          BY <3>1 DEF Left
      <3>3. CASE m = k + 1
        BY <3>2, <3>3
      <3>4. CASE m # k + 1
        <4>1. m \in 0..k
          BY <3>4
        <4>. QED
          BY <2>2, <3>2, <3>4, <4>1
      <3>. QED
        BY <3>3, <3>4
    <2>4. LeavesUpTo(g, a, k + 1)
      <3>1. g = [m \in 0..(k + 1) |-> g[m]]
        OBVIOUS
      <3>. HIDE DEF g
      <3>. QED
        BY <2>3, <3>1 DEF LeavesUpTo
    <2>. QED
      BY <2>4
  <1>. HIDE DEF S
  <1>3. Nat \subseteq S
    BY <1>1, <1>2, SetInduction
  <1>. QED
    BY <1>3 DEF S

\* Resolved(a) is what its recursion says.
LEMMA ResolvedLemma ==
    ASSUME NEW a, Len(a) \in Nat
    PROVE  LeavesUpTo(Resolved(a), a, Len(a))
  <1>1. \E left : LeavesUpTo(left, a, Len(a))
    BY ResolvedExists
  <1>2. Resolved(a) = CHOOSE left : LeavesUpTo(left, a, Len(a))
    BY DEF Resolved, LeavesUpTo, Left
  <1>. QED
    BY <1>1, <1>2, Zenon
================================================================================
