---------------------------- MODULE Plane_proofs ----------------------------
(***************************************************************************)
(* Lemmas about the grid of module Plane and about parts of numbers, for   *)
(* the proofs about both planners.                                         *)
(***************************************************************************)
EXTENDS Plane, TLAPS

\* The geometry stays on the grid.
LEMMA PlaneTypes ==
    /\ \A p \in PointSet : Dist(p) \in Nat /\ Bearing(p) \in Headings
    /\ \A p \in PointSet, d \in Int : Turned(p, d) \in PointSet
    /\ \A p, q \in PointSet : Apart(p, q) \in Nat
    /\ \A p, q \in PointSet : [x |-> p.x - q.x, y |-> p.y - q.y] \in PointSet
    /\ \A d \in Int : WrapOnce(d) \in Int
    /\ \A p \in PointSet, k \in Int : Scaled(k, p) \in PointSet
<1>1. ASSUME NEW p \in PointSet PROVE Dist(p) \in Nat /\ Bearing(p) \in Headings
  BY DEF PointSet, Dist, Larger, Abs, Bearing, Headings, Sign
<1>2. ASSUME NEW p \in PointSet, NEW d \in Int PROVE Turned(p, d) \in PointSet
  BY DEF PointSet, Turned
<1>3. ASSUME NEW p \in PointSet, NEW q \in PointSet PROVE Apart(p, q) \in Nat
  BY DEF PointSet, Apart, Dist, Larger, Abs
<1>4. ASSUME NEW p \in PointSet, NEW k \in Int PROVE Scaled(k, p) \in PointSet
  BY SMT DEF PointSet, Scaled
<1>5. ASSUME NEW p \in PointSet, NEW q \in PointSet
      PROVE  [x |-> p.x - q.x, y |-> p.y - q.y] \in PointSet
  BY DEF PointSet
<1>6. ASSUME NEW d \in Int PROVE WrapOnce(d) \in Int
  BY DEF WrapOnce
<1> QED BY <1>1, <1>2, <1>3, <1>4, <1>5, <1>6

\* Turning keeps distances, and turning back undoes it.
LEMMA Turning ==
    ASSUME NEW p \in PointSet, NEW q \in PointSet, NEW d \in Quarters
    PROVE  /\ Apart(Turned(p, d), Turned(q, d)) = Apart(p, q)
           /\ Dist(Turned(p, d)) = Dist(p)
           /\ Turned(Turned(p, -d), d) = p
<1>1. p.x \in Int /\ p.y \in Int /\ q.x \in Int /\ q.y \in Int /\ p = [x |-> p.x, y |-> p.y]
  BY DEF PointSet
<1>2. d = 0 \/ d = 2 \/ d = -2 \/ d = 4
  BY DEF Quarters
<1>3. /\ Turned(p, 0) = p /\ Turned(q, 0) = q
      /\ Turned(p, 2) = [x |-> p.y, y |-> -p.x] /\ Turned(q, 2) = [x |-> q.y, y |-> -q.x]
      /\ Turned(p, -2) = [x |-> -p.y, y |-> p.x] /\ Turned(q, -2) = [x |-> -q.y, y |-> q.x]
      /\ Turned(p, 4) = [x |-> -p.x, y |-> -p.y] /\ Turned(q, 4) = [x |-> -q.x, y |-> -q.y]
      /\ Turned(p, -4) = [x |-> -p.x, y |-> -p.y]
  <2>1. Abs(0) = 0 /\ Abs(2) = 2 /\ Abs(-2) = 2 /\ Abs(4) = 4 /\ Abs(-4) = 4
    <3>1. \A n \in Int : Abs(n) \in Nat /\ (Abs(n) = n \/ Abs(n) + n = 0)
      BY DEF Abs
    <3>2. 0 \in Int /\ 2 \in Int /\ -2 \in Int /\ 4 \in Int /\ -4 \in Int
      OBVIOUS
    <3> QED BY <3>1, <3>2
  <2>2. 0 # 4 /\ 2 # 4 /\ 0 # 2 /\ 0 # -2 /\ -2 # 2
    OBVIOUS
  <2> QED BY <2>1, <2>2 DEF Turned
<1>4. Apart(Turned(p, d), Turned(q, d)) = Apart(p, q)
  BY <1>1, <1>2, <1>3 DEF Apart, Dist, Larger, Abs
<1>5. Dist(Turned(p, d)) = Dist(p)
  BY <1>1, <1>2, <1>3 DEF Dist, Larger, Abs
<1>6. Turned(Turned(p, -d), d) = p
  <2>1. Turned(Turned(p, 0), 0) = p
    BY <1>3
  <2>2. Turned([x |-> -p.y, y |-> p.x], 2) = p /\ Turned([x |-> p.y, y |-> -p.x], -2) = p
        /\ Turned([x |-> -p.x, y |-> -p.y], 4) = p
    BY <1>1 DEF Turned, Abs
  <2>3. /\ d = 0 => -d = 0
        /\ d = 2 => -d = -2
        /\ d = -2 => -d = 2
        /\ d = 4 => -d = -4
    BY <1>2
  <2> QED BY <1>2, <1>3, <2>1, <2>2, <2>3
<1> QED BY <1>4, <1>5, <1>6

-----------------------------------------------------------------------------
\* A part of a natural number, rounded down, is at most that number.
LEMMA PartBound ==
    ASSUME NEW a \in Nat, NEW n \in Nat, NEW d \in Nat \ {0}, n <= d
    PROVE  (a * n) \div d \in 0..a
<1> DEFINE p == a * n
           q == p \div d
<1>1. p \in Nat /\ p <= a * d /\ a * d \in Nat
  BY SMT
<1>2. q \in Int /\ q * d <= p /\ p < (q + 1) * d
  BY <1>1, SMT
<1>3. q <= a
  <2> SUFFICES ASSUME q >= a + 1 PROVE FALSE
    BY <1>2, SMT
  <2>1. q * d >= (a + 1) * d
    BY <1>2, SMT
  <2>2. (a + 1) * d = a * d + d
    BY SMT
  <2> QED BY <2>1, <2>2, <1>1, <1>2, SMT
<1>4. q >= 0
  <2> SUFFICES ASSUME q + 1 <= 0 PROVE FALSE
    BY <1>2, SMT
  <2>1. (q + 1) * d <= 0
    BY <1>2, SMT
  <2> QED BY <2>1, <1>1, <1>2, SMT
<1> QED BY <1>2, <1>3, <1>4

\* Dividing what is at least m times d by d leaves at least m.
LEMMA QuotientBound ==
    ASSUME NEW p \in Nat, NEW m \in Nat, NEW d \in Nat \ {0}, p >= m * d
    PROVE  p \div d \in Int /\ p \div d >= m
<1> DEFINE q == p \div d
<1>1. q \in Int /\ p < (q + 1) * d
  BY SMT
<1>2. q >= m
  <2> SUFFICES ASSUME q + 1 <= m PROVE FALSE
    BY <1>1, SMT
  <2>1. (q + 1) * d <= m * d
    BY <1>1, SMT
  <2> QED BY <2>1, <1>1, SMT
<1> QED BY <1>1, <1>2

LEMMA ProductMonotonic ==
    ASSUME NEW a \in Nat, NEW m \in Nat, NEW n \in Nat, m <= n
    PROVE  a * m \in Nat /\ a * n \in Nat /\ a * m <= a * n
BY SMT
=============================================================================
