---------------------------- MODULE VectorProofs ----------------------------
(***************************************************************************)
(* Theorems about the components that keep their data in a vector.         *)
(*                                                                         *)
(* The timers of a loop, for every number of timers, every interval,       *)
(* deadline and resolution of the clock, when no callback adds a timer     *)
(* that is due before its own.                                             *)
(*                                                                         *)
(* Buffer, for every size of its areas and of a call.                      *)
(***************************************************************************)
EXTENDS TimerManager, Buffer, SequenceTheorems, WellFoundedInduction, TLAPS

-----------------------------------------------------------------------------
(* Induction.                                                              *)

LEMMA NatLess == OpToRel(<, Nat) = {ss \in Nat \X Nat : ss[1] < ss[2]}
BY DEF OpToRel

\* A set of natural numbers that is not empty has a least element.
LEMMA LeastNatural ==
    ASSUME NEW T \in SUBSET Nat, T # {}
    PROVE  \E n \in T : \A m \in T : n <= m
<1> DEFINE R == {ss \in Nat \X Nat : ss[1] < ss[2]}
<1>1. IsWellFoundedOn(R, Nat)
  BY NatLessThanWellFounded, NatLess, Zenon
<1>2. \A i, j \in Nat : i < j => <<i, j>> \in R
  OBVIOUS
<1> HIDE DEF R
<1>3. PICK n \in T : \A m \in T : ~(<<m, n>> \in R)
  BY <1>1, WFMin
<1>4. \A m \in T : n <= m
  <2> TAKE m \in T
  <2>1. m \in Nat /\ n \in Nat /\ ~(<<m, n>> \in R)
    BY <1>3
  <2> QED
    BY <1>2, <2>1
<1> QED
  BY <1>4

\* Induction up to n.
LEMMA InductionUpTo ==
    ASSUME NEW n \in Nat, NEW P, 0 \in P, \A k \in 1..n : k - 1 \in P => k \in P
    PROVE  \A k \in 0..n : k \in P
<1> DEFINE T == (0..n) \ P
<1>0. SUFFICES ASSUME T # {} PROVE FALSE
  OBVIOUS
<1>1. T \in SUBSET Nat
  OBVIOUS
<1>2. PICK k \in T : \A m \in T : k <= m
  <2> HIDE DEF T
  <2> QED
    BY <1>0, <1>1, LeastNatural
<1>3. k \in 0..n /\ k \notin P /\ k # 0
  OBVIOUS
<1>4. k - 1 \in 0..n /\ ~(k <= k - 1) /\ k \in 1..n
  BY <1>3
<1>5. k - 1 \in P
  BY <1>2, <1>4
<1> QED
  BY <1>3, <1>4, <1>5

-----------------------------------------------------------------------------
(* The rounds of a loop.                                                   *)

\* f[k] is the state after k rounds F from the state a.
Rounds(f, F, a, n) == f = [k \in 0..n |-> IF k = 0 THEN a ELSE F[f[k - 1]]]

LEMMA RoundsExist ==
    ASSUME NEW S, NEW F \in [S -> S], NEW a \in S, NEW n \in Nat
    PROVE  \E f \in [0..n -> S] : Rounds(f, F, a, n)
<1> DEFINE P == {m \in Nat : \E f \in [0..m -> S] : Rounds(f, F, a, m)}
<1>1. 0 \in P
  <2> DEFINE f == [k \in 0..0 |-> a]
  <2>1. f \in [0..0 -> S] /\ Rounds(f, F, a, 0)
    BY DEF Rounds
  <2> QED
    BY <2>1
<1>2. ASSUME NEW m \in 1..n, m - 1 \in P PROVE m \in P
  <2>1. PICK f \in [0..(m - 1) -> S] : Rounds(f, F, a, m - 1)
    BY <1>2
  <2> DEFINE g == [k \in 0..m |-> IF k = m THEN F[f[m - 1]] ELSE f[k]]
  <2>2. m \in Nat /\ m - 1 \in Nat /\ m - 1 \in 0..(m - 1) /\ m # 0
    OBVIOUS
  <2>3. g \in [0..m -> S]
    <3>1. f[m - 1] \in S
      BY <2>2
    <3>2. \A k \in 0..m : k # m => k \in 0..(m - 1)
      OBVIOUS
    <3> QED
      BY <3>1, <3>2
  <2>4. ASSUME NEW k \in 0..m PROVE g[k] = IF k = 0 THEN a ELSE F[g[k - 1]]
    <3>1. CASE k = m
      BY <2>2, <3>1
    <3>2. CASE k # m
      <4>1. k \in 0..(m - 1) /\ g[k] = f[k]
        BY <3>2
      <4>2. f[k] = IF k = 0 THEN a ELSE F[f[k - 1]]
        BY <2>1, <4>1 DEF Rounds
      <4>3. k # 0 => g[k - 1] = f[k - 1]
        BY <3>2
      <4> QED
        BY <4>1, <4>2, <4>3
    <3> QED
      BY <3>1, <3>2
  <2>5. Rounds(g, F, a, m)
    <3>1. g = [k \in 0..m |-> g[k]]
      BY <2>3
    <3> HIDE DEF g
    <3> QED
      BY <2>4, <3>1 DEF Rounds
  <2> HIDE DEF g
  <2> QED
    BY <2>2, <2>3, <2>5
<1> HIDE DEF P
<1>3. n \in P
  BY <1>1, <1>2, InductionUpTo
<1> QED
  BY <1>3 DEF P

-----------------------------------------------------------------------------
(* The vector.                                                             *)

Elements(h) == {h[i] : i \in 1..Len(h)}

Distinct(h) == \A i, j \in 1..Len(h) : h[i] = h[j] => i = j

\* The same timers in another order.
Rearranged(g, h) ==
    /\ Len(g) = Len(h)
    /\ Elements(g) = Elements(h)
    /\ Distinct(h) => Distinct(g)

\* Where the parent and the children are.
LEMMA Parent ==
    /\ \A i \in Nat : i > 1 => i \div 2 \in Nat /\ 1 <= i \div 2 /\ i \div 2 < i
    /\ \A i, j \in Nat : i \div 2 = j <=> i = 2 * j \/ i = 2 * j + 1
OBVIOUS

\* swap() (Timer.cpp:107).
Exchanged(g, h, l, r, T) ==
    /\ g \in Seq(T) /\ Len(g) = Len(h)
    /\ g[l] = h[r] /\ g[r] = h[l]
    /\ \A i \in 1..Len(h) : i # l /\ i # r => g[i] = h[i]

LEMMA Swapped ==
    ASSUME NEW T, NEW h \in Seq(T), NEW l \in 1..Len(h), NEW r \in 1..Len(h)
    PROVE  Exchanged(SwapInHeap(h, l, r), h, l, r, T)
BY DEF SwapInHeap, Exchanged

LEMMA SwapRearranges ==
    ASSUME NEW T, NEW h \in Seq(T), NEW l \in 1..Len(h), NEW r \in 1..Len(h)
    PROVE  Rearranged(SwapInHeap(h, l, r), h)
<1> DEFINE g == SwapInHeap(h, l, r)
<1>0. Exchanged(g, h, l, r, T)
  BY Swapped
<1> HIDE DEF g
<1>1. /\ g \in Seq(T) /\ Len(g) = Len(h)
      /\ g[l] = h[r] /\ g[r] = h[l]
      /\ \A i \in 1..Len(h) : i # l /\ i # r => g[i] = h[i]
  BY <1>0 DEF Exchanged
<1>2. Elements(g) \subseteq Elements(h)
  BY <1>1 DEF Elements
<1>3. Elements(h) \subseteq Elements(g)
  <2> SUFFICES ASSUME NEW i \in 1..Len(h) PROVE \E j \in 1..Len(g) : g[j] = h[i]
    BY DEF Elements
  <2>1. CASE i = l
    BY <1>1, <2>1
  <2>2. CASE i = r
    BY <1>1, <2>2
  <2>3. CASE i # l /\ i # r
    BY <1>1, <2>3
  <2> QED
    BY <2>1, <2>2, <2>3
<1>4. Distinct(h) => Distinct(g)
  BY <1>1 DEF Distinct
<1> QED
  BY <1>1, <1>2, <1>3, <1>4 DEF Rearranged, g

LEMMA RearrangedAgain ==
    \A f, g, h : Rearranged(f, g) /\ Rearranged(g, h) => Rearranged(f, h)
BY DEF Rearranged

-----------------------------------------------------------------------------
(* UpInHeap.                                                               *)

\* The timer that was last is at j in g, and j is the only place where a timer
\* may be due before its parent.  The top changes only for an earlier timer.
UpOK(g, j, h, w, T) ==
    /\ g \in Seq(T) /\ j \in 1..Len(h) /\ Rearranged(g, h)
    /\ \A i \in 2..Len(h) : i # j => w[g[i \div 2]] <= w[g[i]]
    /\ j > 1 => \A i \in 2..Len(h) : i \div 2 = j => w[g[j \div 2]] <= w[g[i]]
    /\ g[j] = h[Len(h)]
    /\ j > 1 => g[1] = h[1]
    /\ j = 1 /\ Len(h) > 1 => w[h[Len(h)]] < w[h[1]]

\* One swap with the parent (Timer.cpp:83-87).
LEMMA UpStep ==
    ASSUME NEW T, NEW w, \A t \in T : w[t] \in Int, NEW h \in Seq(T), NEW g, NEW j,
           UpOK(g, j, h, w, T), j > 1, w[g[j]] < w[g[j \div 2]]
    PROVE  UpOK(SwapInHeap(g, j, j \div 2), j \div 2, h, w, T)
<1> DEFINE n == Len(h)
           r == SwapInHeap(g, j, j \div 2)
<1>1. /\ g \in Seq(T) /\ Len(g) = n /\ j \in 1..n /\ n \in Nat /\ Rearranged(g, h)
      /\ \A i \in 2..n : i # j => w[g[i \div 2]] <= w[g[i]]
      /\ \A i \in 2..n : i \div 2 = j => w[g[j \div 2]] <= w[g[i]]
      /\ g[j] = h[n] /\ g[1] = h[1]
  <2>1. n \in Nat
    OBVIOUS
  <2> QED
    BY <2>1 DEF UpOK, Rearranged
<1> HIDE DEF n
<1>2. PICK p : p = j \div 2
  OBVIOUS
<1>3. p \in Nat /\ 1 <= p /\ p < j /\ p \in 1..n
  BY <1>1, <1>2, Parent
<1>4. /\ r \in Seq(T) /\ r[j] = g[p] /\ r[p] = g[j]
      /\ \A i \in 1..n : i # j /\ i # p => r[i] = g[i]
  <2>1. g \in Seq(T) /\ Len(g) = n /\ j \in 1..Len(g) /\ p \in 1..Len(g)
    BY <1>1, <1>3
  <2>2. r = SwapInHeap(g, j, p)
    BY <1>2
  <2> HIDE DEF r
  <2>3. Exchanged(r, g, j, p, T)
    BY <2>1, <2>2, Swapped
  <2> QED
    BY <2>1, <2>3 DEF Exchanged
<1>5. Rearranged(r, h)
  BY <1>1, <1>2, <1>3, SwapRearranges, RearrangedAgain
<1>6. \A i \in 1..n : w[g[i]] \in Int
  BY <1>1
<1>7. w[g[j]] < w[g[p]]
  BY <1>2
<1> HIDE DEF r
<1>8. ASSUME NEW i \in 2..n
      PROVE  i \div 2 \in 1..n /\ i \div 2 # i
  BY <1>1, Parent
<1>9. ASSUME NEW i \in 2..n, i # p
      PROVE  w[r[i \div 2]] <= w[r[i]]
  <2> DEFINE q == i \div 2
  <2>1. q \in 1..n /\ q # i /\ i \in 1..n
    BY <1>8
  <2>2. CASE i = j
    BY <1>2, <1>3, <1>4, <1>6, <1>7, <2>2
  <2>3. CASE i # j /\ q = j
    <3>1. w[g[p]] <= w[g[i]]
      BY <1>1, <1>2, <2>3
    <3> HIDE DEF q
    <3> QED
      BY <1>4, <1>9, <2>1, <2>3, <3>1 DEF q
  <2>4. CASE i # j /\ q # j
    <3>1. w[g[q]] <= w[g[i]]
      BY <1>1, <2>4
    <3> HIDE DEF q
    <3>2. CASE q = p
      <4>1. r[q] = g[j] /\ r[i] = g[i]
        BY <1>4, <1>9, <2>1, <2>4, <3>2
      <4>2. w[g[j]] \in Int /\ w[g[p]] \in Int /\ w[g[i]] \in Int
        BY <1>1, <1>3, <1>6, <2>1
      <4>3. w[g[j]] <= w[g[i]]
        BY <1>7, <3>1, <3>2, <4>2
      <4> QED
        BY <4>1, <4>3 DEF q
    <3>3. CASE q # p
      <4>1. r[q] = g[q] /\ r[i] = g[i]
        BY <1>4, <1>9, <2>1, <2>4, <3>3
      <4> QED
        BY <3>1, <4>1 DEF q
    <3> QED
      BY <3>2, <3>3
  <2> QED
    BY <2>2, <2>3, <2>4
<1>10. ASSUME p > 1, NEW i \in 2..n, i \div 2 = p
       PROVE  w[r[p \div 2]] <= w[r[i]]
  <2>1. PICK q : q = p \div 2
    OBVIOUS
  <2>2. q \in Nat /\ 1 <= q /\ q < p /\ q \in 1..n /\ q # p /\ q # j /\ p \in 2..n /\ p # j
    BY <1>1, <1>3, <1>10, <2>1, Parent
  <2>3. i # p /\ i \in 1..n
    BY <1>8, <1>10
  <2>4. w[g[q]] <= w[g[p]]
    BY <1>1, <2>1, <2>2
  <2>5. r[q] = g[q]
    BY <1>4, <2>2
  <2>6. w[g[p]] <= w[r[i]]
    <3>1. CASE i = j
      BY <1>3, <1>4, <1>6, <3>1
    <3>2. CASE i # j
      <4>1. w[g[p]] <= w[g[i]]
        BY <1>1, <1>10, <3>2
      <4> QED
        BY <1>4, <2>3, <3>2, <4>1
    <3> QED
      BY <3>1, <3>2
  <2>7. w[g[q]] \in Int /\ w[g[p]] \in Int /\ w[r[i]] \in Int
    BY <1>3, <1>4, <1>6, <2>2, <2>3
  <2> QED
    BY <2>1, <2>4, <2>5, <2>6, <2>7
<1>11. r[p] = h[n] /\ (p > 1 => r[1] = h[1])
  BY <1>1, <1>3, <1>4
<1>12. p = 1 /\ n > 1 => w[h[n]] < w[h[1]]
  BY <1>1, <1>7
<1> QED
  BY <1>2, <1>3, <1>4, <1>5, <1>9, <1>10, <1>11, <1>12 DEF UpOK, r, n

\* The states of the loop, and that it has ended.
States(T, h, indices) == [heap : {g \in Seq(T) : Len(g) = Len(h)}, index : indices]

UpDone(s, w) == ~(s.index > 1 /\ w[s.heap[s.index]] < w[s.heap[s.index \div 2]])

\* The loop, as a function of the round.
UpRounds(f, h, w, n) ==
    f = [k \in 0..n |-> IF k = 0 THEN [heap |-> h, index |-> n] ELSE UpRound(f[k - 1], w)]

LEMMA UpRoundsExist ==
    ASSUME NEW T, NEW w, NEW h \in Seq(T), Len(h) > 0
    PROVE  \E f : UpRounds(f, h, w, Len(h))
<1> DEFINE n == Len(h)
           S == States(T, h, 1..n)
           a == [heap |-> h, index |-> n]
           F == [s \in S |-> UpRound(s, w)]
<1>1. n \in Nat /\ a \in S
  BY DEF States
<1>2. ASSUME NEW s \in S PROVE UpRound(s, w) \in S
  <2>1. s.heap \in Seq(T) /\ Len(s.heap) = n /\ s.index \in 1..n
    BY DEF States
  <2>2. CASE UpDone(s, w)
    BY <2>2 DEF UpRound, UpDone
  <2>3. CASE ~UpDone(s, w)
    <3>1. s.index \div 2 \in 1..n
      BY <1>1, <2>1, <2>3, Parent DEF UpDone
    <3>2. PICK g, j, p, r : /\ g = s.heap /\ j = s.index /\ p = s.index \div 2
                           /\ r = SwapInHeap(s.heap, s.index, s.index \div 2)
      OBVIOUS
    <3>3. /\ g \in Seq(T) /\ Len(g) = n /\ j \in 1..Len(g) /\ p \in 1..Len(g)
          /\ r = SwapInHeap(g, j, p)
      BY <2>1, <3>1, <3>2
    <3>4. r \in Seq(T) /\ Len(r) = n
      BY <3>3, Swapped DEF Exchanged
    <3> QED
      BY <2>3, <3>1, <3>2, <3>4 DEF UpRound, UpDone, States
  <2> QED
    BY <2>2, <2>3
<1>3. F \in [S -> S]
  BY <1>2
<1> HIDE DEF S, F, a
<1>4. PICK f \in [0..n -> S] : Rounds(f, F, a, n)
  BY <1>1, <1>3, RoundsExist
<1>5. \A k \in 0..n : k # 0 => F[f[k - 1]] = UpRound(f[k - 1], w)
  <2> TAKE k \in 0..n
  <2>1. k # 0 => f[k - 1] \in S
    BY <1>1
  <2> QED
    BY <2>1 DEF F
<1>6. UpRounds(f, h, w, n)
  BY <1>4, <1>5 DEF Rounds, UpRounds, a
<1> QED
  BY <1>6

\* Only the last timer may be due before its parent, and UpInHeap() makes a heap
\* of it; the top stays if the last timer is not due before it
\* (Timer.cpp:81-88).
LEMMA UpInHeapOrders ==
    ASSUME NEW T, NEW w, \A t \in T : w[t] \in Int, NEW h \in Seq(T), Len(h) > 0,
           \A i \in 2..Len(h) : i # Len(h) => w[h[i \div 2]] <= w[h[i]]
    PROVE  LET g == UpInHeap(h, w, Len(h))
           IN  /\ g \in Seq(T) /\ Rearranged(g, h) /\ Ordered(g, w)
               /\ w[h[1]] <= w[h[Len(h)]] => g[1] = h[1]
<1> DEFINE n == Len(h)
           f == CHOOSE f : UpRounds(f, h, w, n)
           OK(s) == UpOK(s.heap, s.index, h, w, T)
           P == {k \in 0..n : OK(f[k]) /\ (f[k].index <= n - k \/ UpDone(f[k], w))}
<1>1. UpRounds(f, h, w, n)
  BY UpRoundsExist
<1>2. UpInHeap(h, w, n) = f[n].heap
  BY DEF UpInHeap, UpRounds
<1> HIDE DEF f
<1>3. n \in Nat /\ n > 0
  OBVIOUS
<1>4. f[0] = [heap |-> h, index |-> n] /\ \A k \in 1..n : f[k] = UpRound(f[k - 1], w)
  BY <1>1, <1>3 DEF UpRounds
<1>5. 0 \in P
  <2>1. Rearranged(h, h)
    BY DEF Rearranged
  <2>2. n > 1 => \A i \in 2..n : i \div 2 # n
    BY <1>3, Parent
  <2>3. UpOK(h, n, h, w, T)
    BY <1>3, <2>1, <2>2 DEF UpOK
  <2> QED
    BY <1>3, <1>4, <2>3
<1>6. ASSUME NEW k \in 1..n, k - 1 \in P PROVE k \in P
  <2>1. PICK s : s = f[k - 1]
    OBVIOUS
  <2>2. OK(s) /\ (s.index <= n - (k - 1) \/ UpDone(s, w)) /\ f[k] = UpRound(s, w)
    BY <1>4, <1>6, <2>1
  <2>3. s.index \in 1..n
    BY <2>2 DEF UpOK
  <2>4. CASE UpDone(s, w)
    <3>1. f[k] = s
      BY <2>2, <2>4 DEF UpRound, UpDone
    <3> QED
      BY <2>2, <2>4, <3>1
  <2>5. CASE ~UpDone(s, w)
    <3>1. PICK j : j = s.index \div 2
      OBVIOUS
    <3>2. j \in Nat /\ j < s.index
      BY <2>3, <2>5, <3>1, Parent DEF UpDone
    <3>3. f[k] = [heap |-> SwapInHeap(s.heap, s.index, j), index |-> j]
      BY <2>2, <2>5, <3>1 DEF UpRound, UpDone
    <3>4. UpOK(SwapInHeap(s.heap, s.index, j), j, h, w, T)
      BY <2>2, <2>5, <3>1, UpStep DEF UpDone
    <3>5. s.index <= n - (k - 1)
      BY <2>2, <2>5
    <3>6. j <= n - k
      BY <1>3, <2>3, <3>2, <3>5
    <3> QED
      BY <3>3, <3>4, <3>6
  <2> QED
    BY <2>4, <2>5
<1>7. n \in P
  <2> HIDE DEF P, n
  <2>1. \A k \in 1..n : k - 1 \in P => k \in P
    BY <1>6
  <2>2. \A k \in 0..n : k \in P
    BY <1>3, <1>5, <2>1, InductionUpTo
  <2> QED
    BY <1>3, <2>2
<1>8. PICK s : s = f[n]
  OBVIOUS
<1>9. OK(s) /\ UpDone(s, w)
  <2>1. OK(s) /\ (s.index <= n - n \/ UpDone(s, w))
    BY <1>7, <1>8
  <2>2. s.index \in 1..n
    BY <2>1 DEF UpOK
  <2> QED
    BY <1>3, <2>1, <2>2
<1>10. PICK g, j : g = s.heap /\ j = s.index
  OBVIOUS
<1>11. UpOK(g, j, h, w, T) /\ ~(j > 1 /\ w[g[j]] < w[g[j \div 2]])
  BY <1>9, <1>10 DEF UpDone
<1>12. g \in Seq(T) /\ Rearranged(g, h) /\ Len(g) = n /\ j \in 1..n
  BY <1>11 DEF UpOK, Rearranged
<1>13. Ordered(g, w)
  <2> SUFFICES ASSUME NEW i \in 2..n PROVE w[g[i \div 2]] <= w[g[i]]
    BY <1>12 DEF Ordered
  <2>1. CASE i # j
    BY <1>11, <2>1 DEF UpOK
  <2>2. CASE i = j
    <3>1. i \div 2 \in 1..n /\ i \in 1..n /\ j > 1
      BY <1>3, <2>2, Parent
    <3>2. w[g[i]] \in Int /\ w[g[i \div 2]] \in Int
      BY <1>12, <3>1
    <3>3. ~(w[g[i]] < w[g[i \div 2]])
      BY <1>11, <2>2, <3>1
    <3> QED
      BY <3>2, <3>3
  <2> QED
    BY <2>1, <2>2
<1>14. w[h[1]] <= w[h[n]] => g[1] = h[1]
  <2>1. CASE j > 1
    BY <1>11, <2>1 DEF UpOK
  <2>2. CASE j = 1
    <3>1. w[h[1]] \in Int /\ w[h[n]] \in Int
      BY <1>3
    <3>2. n = 1 => g[1] = h[1]
      BY <1>11, <2>2 DEF UpOK
    <3>3. n > 1 => w[h[n]] < w[h[1]]
      BY <1>11, <2>2 DEF UpOK
    <3>4. CASE n = 1
      BY <3>2, <3>4
    <3>5. CASE n > 1
      <4>1. ~(w[h[1]] <= w[h[n]])
        <5> HIDE DEF n
        <5> QED
          BY <3>1, <3>3, <3>5
      <4> QED
        BY <4>1
    <3> HIDE DEF n, P
    <3>6. n = 1 \/ n > 1
      BY <1>3
    <3> QED
      BY <3>4, <3>5, <3>6
  <2> QED
    BY <1>12, <2>1, <2>2
<1>15. UpInHeap(h, w, n) = g
  BY <1>2, <1>8, <1>10
<1> QED
  BY <1>12, <1>13, <1>14, <1>15

-----------------------------------------------------------------------------
(* DownInHeap.                                                             *)

\* j is the only place where a timer may be due after its children.
DownOK(g, j, h, w, T) ==
    /\ g \in Seq(T) /\ Rearranged(g, h)
    /\ j \in Nat /\ j >= 1 /\ (j > 1 => j <= Len(h))
    /\ \A i \in 2..Len(h) : i \div 2 # j => w[g[i \div 2]] <= w[g[i]]
    /\ j > 1 => \A i \in 2..Len(h) : i \div 2 = j => w[g[j \div 2]] <= w[g[i]]

\* min_child: of two that are equal, the second (Timer.cpp:93-96).
LeastChild(c, g, w, j) ==
    /\ c \in 2..Len(g) /\ c \div 2 = j /\ j < c
    /\ \A i \in 2..Len(g) : i \div 2 = j => w[g[c]] <= w[g[i]]

LEMMA MinChildLeast ==
    ASSUME NEW T, NEW w, \A t \in T : w[t] \in Int, NEW g \in Seq(T),
           NEW j \in Nat, j >= 1, 2 * j <= Len(g)
    PROVE  LeastChild(MinChild(g, w, j), g, w, j)
<1> DEFINE n == Len(g)
<1>0. PICK c : c = MinChild(g, w, j)
  OBVIOUS
<1>1. n \in Nat /\ 2 * j \in 1..n
  OBVIOUS
<1>2. \A i \in 1..n : w[g[i]] \in Int
  OBVIOUS
<1>3. \A i \in 2..n : i \div 2 = j => i = 2 * j \/ i = 2 * j + 1
  BY <1>1, Parent
<1>4. (2 * j) \div 2 = j /\ (2 * j + 1) \div 2 = j
  BY <1>1, Parent
<1> DEFINE Least == /\ c \in 2..n /\ c \div 2 = j /\ j < c
                    /\ \A i \in 2..n : i \div 2 = j => w[g[c]] <= w[g[i]]
<1>5. ASSUME 2 * j = n \/ w[g[2 * j]] < w[g[2 * j + 1]] PROVE Least
  <2>1. c = 2 * j
    BY <1>0, <1>5 DEF MinChild
  <2>2. ASSUME NEW i \in 2..n, i \div 2 = j PROVE w[g[2 * j]] <= w[g[i]]
    <3>1. CASE i = 2 * j
      BY <1>1, <1>2, <3>1
    <3>2. CASE i = 2 * j + 1
      <4>1. w[g[2 * j]] < w[g[i]] /\ w[g[i]] \in Int /\ w[g[2 * j]] \in Int
        BY <1>1, <1>2, <1>5, <3>2
      <4> QED
        BY <4>1
    <3> QED
      BY <1>3, <2>2, <3>1, <3>2
  <2>3. c \in 2..n /\ j < c /\ c \div 2 = j
    BY <1>1, <1>4, <2>1
  <2> HIDE DEF n
  <2> QED
    BY <2>1, <2>2, <2>3
<1>6. ASSUME ~(2 * j = n \/ w[g[2 * j]] < w[g[2 * j + 1]]) PROVE Least
  <2>1. c = 2 * j + 1 /\ 2 * j + 1 \in 1..n
    BY <1>0, <1>1, <1>6 DEF MinChild
  <2>2. ASSUME NEW i \in 2..n, i \div 2 = j PROVE w[g[2 * j + 1]] <= w[g[i]]
    <3>1. CASE i = 2 * j + 1
      BY <2>1, <1>2, <3>1
    <3>2. CASE i = 2 * j
      <4>1. ~(w[g[i]] < w[g[2 * j + 1]]) /\ w[g[i]] \in Int /\ w[g[2 * j + 1]] \in Int
        BY <1>1, <1>2, <1>6, <2>1, <3>2
      <4> QED
        BY <4>1
    <3> QED
      BY <1>3, <2>2, <3>1, <3>2
  <2>3. c \in 2..n /\ j < c /\ c \div 2 = j
    BY <1>1, <1>4, <2>1
  <2> HIDE DEF n
  <2> QED
    BY <2>1, <2>2, <2>3
<1>7. LeastChild(c, g, w, j)
  BY <1>5, <1>6 DEF LeastChild
<1> QED
  BY <1>0, <1>7

\* One swap with the child that is due first (Timer.cpp:97-103).
LEMMA DownStep ==
    ASSUME NEW T, NEW w, \A t \in T : w[t] \in Int, NEW h \in Seq(T), NEW g, NEW j,
           DownOK(g, j, h, w, T), 2 * j <= Len(g), ~(w[g[j]] <= w[g[MinChild(g, w, j)]])
    PROVE  /\ DownOK(SwapInHeap(g, j, MinChild(g, w, j)), MinChild(g, w, j), h, w, T)
           /\ MinChild(g, w, j) > j
<1> DEFINE n == Len(h)
           r == SwapInHeap(g, j, MinChild(g, w, j))
<1>1. /\ g \in Seq(T) /\ Len(g) = n /\ n \in Nat /\ j \in 1..n /\ Rearranged(g, h)
      /\ \A i \in 2..n : i \div 2 # j => w[g[i \div 2]] <= w[g[i]]
      /\ j > 1 => \A i \in 2..n : i \div 2 = j => w[g[j \div 2]] <= w[g[i]]
  BY DEF DownOK, Rearranged
<1>2. PICK c : c = MinChild(g, w, j)
  OBVIOUS
<1>3. /\ c \in 2..n /\ c \div 2 = j /\ j < c
      /\ \A i \in 2..n : i \div 2 = j => w[g[c]] <= w[g[i]]
  <2>1. LeastChild(c, g, w, j)
    BY <1>1, <1>2, MinChildLeast
  <2> QED
    BY <1>1, <2>1 DEF LeastChild
<1> HIDE DEF n
<1>4. c \in 1..n /\ c # j
  BY <1>1, <1>3
<1>5. /\ r \in Seq(T) /\ r[j] = g[c] /\ r[c] = g[j]
      /\ \A i \in 1..n : i # j /\ i # c => r[i] = g[i]
  <2>1. j \in 1..Len(g) /\ c \in 1..Len(g) /\ r = SwapInHeap(g, j, c)
    BY <1>1, <1>2, <1>4
  <2>2. g \in Seq(T) /\ Len(g) = n
    BY <1>1
  <2> HIDE DEF r
  <2>3. Exchanged(r, g, j, c, T)
    BY <2>1, <2>2, Swapped
  <2> QED
    BY <2>2, <2>3 DEF Exchanged
<1>6. Rearranged(r, h)
  BY <1>1, <1>2, <1>4, SwapRearranges, RearrangedAgain
<1>7. \A i \in 1..n : w[g[i]] \in Int
  BY <1>1
<1>8. w[g[c]] < w[g[j]]
  BY <1>1, <1>2, <1>4, <1>7
<1> HIDE DEF r
<1>9. ASSUME NEW i \in 2..n
      PROVE  i \div 2 \in 1..n /\ i \div 2 # i /\ i \in 1..n
  BY <1>1, Parent
<1>10. ASSUME NEW i \in 2..n, i \div 2 # c
       PROVE  w[r[i \div 2]] <= w[r[i]]
  <2>1. PICK q : q = i \div 2
    OBVIOUS
  <2>2. q \in 1..n /\ q # i /\ i \in 1..n /\ q # c
    BY <1>9, <1>10, <2>1
  <2>3. CASE q = j /\ i = c
    <3>1. r[q] = g[c] /\ r[i] = g[j]
      BY <1>5, <2>3
    <3>2. w[g[c]] <= w[g[j]]
      BY <1>1, <1>4, <1>7, <1>8
    <3> QED
      BY <2>1, <3>1, <3>2
  <2>4. CASE q = j /\ i # c
    <3>1. r[q] = g[c] /\ r[i] = g[i]
      BY <1>5, <2>2, <2>4
    <3>2. w[g[c]] <= w[g[i]]
      BY <1>3, <2>1, <2>4
    <3> QED
      BY <2>1, <3>1, <3>2
  <2>5. CASE q # j /\ i = j
    <3>1. r[q] = g[q] /\ r[i] = g[c]
      BY <1>5, <2>2, <2>5
    <3>2. w[g[q]] <= w[g[c]]
      BY <1>1, <1>3, <2>1, <2>5
    <3> QED
      BY <2>1, <3>1, <3>2
  <2>6. CASE q # j /\ i # j
    <3>1. i # c
      BY <1>3, <2>1, <2>6
    <3>2. r[q] = g[q] /\ r[i] = g[i]
      BY <1>5, <2>2, <2>6, <3>1
    <3>3. w[g[q]] <= w[g[i]]
      BY <1>1, <2>1, <2>6
    <3> QED
      BY <2>1, <3>2, <3>3
  <2> QED
    BY <2>3, <2>4, <2>5, <2>6
<1>11. ASSUME NEW i \in 2..n, i \div 2 = c
       PROVE  w[r[c \div 2]] <= w[r[i]]
  <2>1. i # c /\ i # j /\ i \in 1..n
    BY <1>1, <1>3, <1>11, Parent
  <2>2. r[i] = g[i] /\ r[c \div 2] = g[c]
    BY <1>3, <1>5, <2>1
  <2>3. w[g[c]] <= w[g[i]]
    BY <1>1, <1>4, <1>11
  <2> QED
    BY <2>2, <2>3
<1>12. c \in Nat /\ c >= 1 /\ c <= n
  BY <1>1, <1>3
<1> QED
  BY <1>2, <1>3, <1>5, <1>6, <1>10, <1>11, <1>12 DEF DownOK, r, n

DownDone(s, w) ==
    2 * s.index > Len(s.heap) \/ w[s.heap[s.index]] <= w[s.heap[MinChild(s.heap, w, s.index)]]

\* The loop, as a function of the round.
DownRounds(f, h, w) ==
    f = [k \in 0..Len(h) |->
            IF k = 0 THEN [heap |-> h, index |-> 1] ELSE DownRound(f[k - 1], w)]

LEMMA DownRoundsExist ==
    ASSUME NEW T, NEW w, \A t \in T : w[t] \in Int, NEW h \in Seq(T)
    PROVE  \E f : DownRounds(f, h, w)
<1> DEFINE n == Len(h)
           S == States(T, h, Nat \ {0})
           a == [heap |-> h, index |-> 1]
           F == [s \in S |-> DownRound(s, w)]
<1>1. n \in Nat /\ a \in S
  BY DEF States
<1>2. ASSUME NEW s \in S PROVE DownRound(s, w) \in S
  <2>1. PICK g, j : g = s.heap /\ j = s.index
    OBVIOUS
  <2>2. g \in Seq(T) /\ Len(g) = n /\ j \in Nat /\ j >= 1
    BY <2>1 DEF States
  <2>3. CASE DownDone(s, w)
    BY <2>3 DEF DownRound, DownDone
  <2>4. CASE ~DownDone(s, w)
    <3>1. PICK c : c = MinChild(g, w, j)
      OBVIOUS
    <3>2. 2 * j <= Len(g)
      BY <2>1, <2>2, <2>4 DEF DownDone
    <3>3. c \in 2..n
      BY <2>2, <3>1, <3>2, MinChildLeast DEF LeastChild
    <3>4. j \in 1..n /\ c \in 1..n /\ c \in Nat \ {0}
      BY <1>1, <2>2, <3>2, <3>3
    <3>5. SwapInHeap(g, j, c) \in Seq(T) /\ Len(SwapInHeap(g, j, c)) = n
      BY <2>2, <3>4, Swapped DEF Exchanged
    <3>6. DownRound(s, w) = [heap |-> SwapInHeap(g, j, c), index |-> c]
      BY <2>1, <2>4, <3>1 DEF DownRound, DownDone
    <3> QED
      BY <3>4, <3>5, <3>6 DEF States
  <2> QED
    BY <2>3, <2>4
<1>3. F \in [S -> S]
  BY <1>2
<1> HIDE DEF S, F, a
<1>4. PICK f \in [0..n -> S] : Rounds(f, F, a, n)
  BY <1>1, <1>3, RoundsExist
<1>5. \A k \in 0..n : k # 0 => F[f[k - 1]] = DownRound(f[k - 1], w)
  <2> TAKE k \in 0..n
  <2>1. k # 0 => f[k - 1] \in S
    BY <1>1
  <2> QED
    BY <2>1 DEF F
<1>6. DownRounds(f, h, w)
  BY <1>4, <1>5 DEF Rounds, DownRounds, a
<1> QED
  BY <1>6

\* Only the top may be due after its children, and DownInHeap(0) makes a heap of
\* it (Timer.cpp:90-105).
HeapOf(g, h, w, T) == g \in Seq(T) /\ Rearranged(g, h) /\ Ordered(g, w)

LEMMA DownInHeapOrders ==
    ASSUME NEW T, NEW w, \A t \in T : w[t] \in Int, NEW h \in Seq(T),
           \A i \in 2..Len(h) : i \div 2 # 1 => w[h[i \div 2]] <= w[h[i]]
    PROVE  HeapOf(DownInHeap(h, w), h, w, T)
<1> DEFINE n == Len(h)
           f == CHOOSE f : DownRounds(f, h, w)
           OK(s) == DownOK(s.heap, s.index, h, w, T)
           P == {k \in 0..n : OK(f[k]) /\ (f[k].index > k \/ DownDone(f[k], w))}
<1>1. DownRounds(f, h, w)
  BY DownRoundsExist
<1>2. DownInHeap(h, w) = f[n].heap
  BY DEF DownInHeap, DownRounds
<1> HIDE DEF f
<1>3. n \in Nat
  OBVIOUS
<1>4. f[0] = [heap |-> h, index |-> 1] /\ \A k \in 1..n : f[k] = DownRound(f[k - 1], w)
  <2>1. f = [k \in 0..n |-> IF k = 0 THEN [heap |-> h, index |-> 1] ELSE DownRound(f[k - 1], w)]
    BY <1>1 DEF DownRounds
  <2>2. 0 \in 0..n /\ \A k \in 1..n : k \in 0..n /\ k # 0
    BY <1>3
  <2> HIDE DEF n
  <2> QED
    BY <2>1, <2>2
<1>5. 0 \in P
  <2>1. Rearranged(h, h)
    BY DEF Rearranged
  <2>2. DownOK(h, 1, h, w, T)
    BY <2>1 DEF DownOK
  <2> QED
    BY <1>3, <1>4, <2>2
<1>6. ASSUME NEW k \in 1..n, k - 1 \in P PROVE k \in P
  <2>1. PICK s : s = f[k - 1]
    OBVIOUS
  <2>2. OK(s) /\ (s.index > k - 1 \/ DownDone(s, w)) /\ f[k] = DownRound(s, w)
    BY <1>4, <1>6, <2>1
  <2>3. PICK g, j : g = s.heap /\ j = s.index
    OBVIOUS
  <2>4. j \in Nat /\ Len(g) = n /\ DownOK(g, j, h, w, T)
    BY <2>2, <2>3 DEF DownOK, Rearranged
  <2>5. CASE DownDone(s, w)
    <3>1. f[k] = s
      BY <2>2, <2>5 DEF DownRound, DownDone
    <3> QED
      BY <2>2, <2>5, <3>1
  <2>6. CASE ~DownDone(s, w)
    <3>1. PICK c : c = MinChild(g, w, j)
      OBVIOUS
    <3>2. 2 * j <= Len(g) /\ ~(w[g[j]] <= w[g[c]])
      BY <1>3, <2>3, <2>4, <2>6, <3>1 DEF DownDone
    <3>3. DownOK(SwapInHeap(g, j, c), c, h, w, T) /\ c > j
      BY <2>4, <3>1, <3>2, DownStep
    <3>4. f[k] = [heap |-> SwapInHeap(g, j, c), index |-> c]
      BY <2>2, <2>3, <2>6, <3>1 DEF DownRound, DownDone
    <3>5. j > k - 1 /\ c \in Nat
      BY <2>2, <2>3, <2>6, <3>3 DEF DownOK
    <3>6. c > k
      BY <2>4, <3>3, <3>5
    <3> QED
      BY <3>3, <3>4, <3>6
  <2> QED
    BY <2>5, <2>6
<1>7. n \in P
  <2> HIDE DEF P, n
  <2>1. \A k \in 1..n : k - 1 \in P => k \in P
    BY <1>6
  <2>2. \A k \in 0..n : k \in P
    BY <1>3, <1>5, <2>1, InductionUpTo
  <2> QED
    BY <1>3, <2>2
<1>8. PICK s, g, j : s = f[n] /\ g = s.heap /\ j = s.index
  OBVIOUS
<1>9. DownOK(g, j, h, w, T) /\ (j > n \/ DownDone(s, w))
  BY <1>7, <1>8
<1>10. /\ g \in Seq(T) /\ Rearranged(g, h) /\ Len(g) = n /\ j \in Nat /\ j >= 1
       /\ \A i \in 2..n : i \div 2 # j => w[g[i \div 2]] <= w[g[i]]
  BY <1>9 DEF DownOK, Rearranged
<1>11. 2 * j > n \/ w[g[j]] <= w[g[MinChild(g, w, j)]]
  <2>1. j > n => 2 * j > n
    BY <1>3, <1>10
  <2> QED
    BY <1>8, <1>9, <1>10, <2>1 DEF DownDone
<1>12. ASSUME NEW i \in 2..n, i \div 2 = j PROVE w[g[j]] <= w[g[i]]
  <2>1. 2 * j <= n /\ i \in 1..n /\ j \in 1..n
    BY <1>3, <1>10, <1>12, Parent
  <2>2. PICK c : c = MinChild(g, w, j)
    OBVIOUS
  <2>3. c \in 2..n /\ w[g[c]] <= w[g[i]]
    <3>1. /\ g \in Seq(T) /\ Len(g) = n /\ j \in Nat /\ j >= 1 /\ 2 * j <= Len(g)
          /\ i \in 2..Len(g) /\ i \div 2 = j
      BY <1>10, <1>12, <2>1
    <3>2. LeastChild(c, g, w, j)
      BY <2>2, <3>1, MinChildLeast
    <3> QED
      BY <3>1, <3>2 DEF LeastChild
  <2>4. w[g[j]] <= w[g[c]]
    BY <1>3, <1>10, <1>11, <2>1, <2>2
  <2>5. g[j] \in T /\ g[c] \in T /\ g[i] \in T
    BY <1>10, <2>1, <2>3
  <2>6. w[g[j]] \in Int /\ w[g[c]] \in Int /\ w[g[i]] \in Int
    BY <2>5
  <2> QED
    BY <2>3, <2>4, <2>6
<1>13. Ordered(g, w)
  BY <1>10, <1>12 DEF Ordered
<1> QED
  BY <1>2, <1>8, <1>10, <1>13 DEF HeapOf

-----------------------------------------------------------------------------
(* The heap as a whole.                                                    *)

\* The top of a heap is due first.
LEMMA TopIsFirst ==
    ASSUME NEW T, NEW w, \A t \in T : w[t] \in Int, NEW h \in Seq(T), Ordered(h, w)
    PROVE  \A i \in 1..Len(h) : w[h[1]] <= w[h[i]]
<1> DEFINE n == Len(h)
           B == {i \in 1..n : ~(w[h[1]] <= w[h[i]])}
<1>0. SUFFICES ASSUME B # {} PROVE FALSE
  OBVIOUS
<1>1. n \in Nat /\ B \in SUBSET Nat
  OBVIOUS
<1>2. PICK i \in B : \A m \in B : i <= m
  <2> HIDE DEF B
  <2> QED
    BY <1>0, <1>1, LeastNatural
<1>3. i \in 1..n /\ ~(w[h[1]] <= w[h[i]])
  OBVIOUS
<1>4. PICK p : p = i \div 2
  OBVIOUS
<1>5. 1 \in 1..n /\ w[h[1]] \in Int /\ w[h[i]] \in Int
  BY <1>1, <1>3
<1>6. i # 1
  BY <1>3, <1>5
<1>7. i \in 2..n /\ p \in 1..n /\ p < i
  BY <1>1, <1>3, <1>4, <1>6, Parent
<1>8. w[h[p]] <= w[h[i]]
  BY <1>4, <1>7 DEF Ordered
<1>9. p \notin B
  BY <1>1, <1>2, <1>7
<1>10. w[h[1]] <= w[h[p]] /\ w[h[p]] \in Int
  BY <1>7, <1>9
<1> QED
  BY <1>3, <1>5, <1>8, <1>10

\* Deadlines of other timers do not matter.
LEMMA OrderedOn ==
    ASSUME NEW T, NEW h \in Seq(T), NEW v, NEW w,
           \A i \in 1..Len(h) : v[h[i]] = w[h[i]], Ordered(h, w)
    PROVE  Ordered(h, v)
<1>1. \A i \in 2..Len(h) : i \in 1..Len(h) /\ i \div 2 \in 1..Len(h)
  BY Parent
<1> QED
  BY <1>1 DEF Ordered

\* PushInHeap() adds its timer; the top stays unless that is due earlier
\* (Timer.cpp:69-73).
LEMMA PushOrders ==
    ASSUME NEW T, NEW w, \A t \in T : w[t] \in Int, NEW h \in Seq(T), NEW t \in T,
           Ordered(h, w), Distinct(h), t \notin Elements(h)
    PROVE  LET g == PushInHeap(h, w, t)
           IN  /\ g \in Seq(T) /\ Ordered(g, w) /\ Distinct(g)
               /\ Elements(g) = Elements(h) \cup {t}
               /\ Len(h) > 0 /\ w[h[1]] <= w[t] => g # <<>> /\ g[1] = h[1]
<1> DEFINE n == Len(h)
           a == Append(h, t)
           g == PushInHeap(h, w, t)
<1>1. /\ n \in Nat /\ a \in Seq(T) /\ Len(a) = n + 1 /\ a[n + 1] = t
      /\ \A i \in 1..n : a[i] = h[i]
  OBVIOUS
<1>2. g = UpInHeap(a, w, Len(a))
  BY <1>1 DEF PushInHeap
<1> HIDE DEF a, g
<1>3. \A i \in 2..Len(a) : i # Len(a) => w[a[i \div 2]] <= w[a[i]]
  <2> SUFFICES ASSUME NEW i \in 2..n PROVE w[a[i \div 2]] <= w[a[i]]
    BY <1>1
  <2>1. i \div 2 \in 1..n /\ i \in 1..n
    BY <1>1, Parent
  <2> QED
    BY <1>1, <2>1 DEF Ordered
<1>4. /\ g \in Seq(T) /\ Rearranged(g, a) /\ Ordered(g, w)
      /\ w[a[1]] <= w[a[Len(a)]] => g[1] = a[1]
  <2>1. Len(a) > 0
    BY <1>1
  <2> QED
    BY <1>1, <1>2, <1>3, <2>1, UpInHeapOrders
<1>5. Elements(a) = Elements(h) \cup {t}
  <2>1. Elements(a) \subseteq Elements(h) \cup {t}
    BY <1>1 DEF Elements
  <2>2. Elements(h) \cup {t} \subseteq Elements(a)
    <3>1. n + 1 \in 1..Len(a) /\ \A i \in 1..n : i \in 1..Len(a)
      BY <1>1
    <3> QED
      BY <1>1, <3>1 DEF Elements
  <2> QED
    BY <2>1, <2>2
<1>6. Distinct(a)
  <2> SUFFICES ASSUME NEW i \in 1..Len(a), NEW j \in 1..Len(a), a[i] = a[j] PROVE i = j
    BY DEF Distinct
  <2>1. \A k \in 1..n : h[k] # t
    BY DEF Elements
  <2>2. (i \in 1..n \/ i = n + 1) /\ (j \in 1..n \/ j = n + 1)
    BY <1>1
  <2> QED
    BY <1>1, <2>1, <2>2 DEF Distinct
<1>7. n > 0 => a[1] = h[1]
  BY <1>1
<1>8. Len(g) = n + 1
  BY <1>1, <1>4 DEF Rearranged
<1> QED
  BY <1>1, <1>4, <1>5, <1>6, <1>7, <1>8 DEF Rearranged, g

\* PopInHeap() removes the top (Timer.cpp:75-79).
LEMMA PopOrders ==
    ASSUME NEW T, NEW w, \A t \in T : w[t] \in Int, NEW h \in Seq(T), h # <<>>,
           Ordered(h, w), Distinct(h)
    PROVE  LET g == PopInHeap(h, w)
           IN  /\ g \in Seq(T) /\ Ordered(g, w) /\ Distinct(g)
               /\ Elements(g) = Elements(h) \ {h[1]}
<1> DEFINE n == Len(h)
           x == SwapInHeap(h, 1, n)
           a == SubSeq(x, 1, n - 1)
           g == PopInHeap(h, w)
<1>1. n \in Nat /\ n > 0 /\ 1 \in 1..n /\ n \in 1..n
  OBVIOUS
<1>2. /\ x \in Seq(T) /\ Len(x) = n /\ x[1] = h[n] /\ x[n] = h[1]
      /\ \A i \in 1..n : i # 1 /\ i # n => x[i] = h[i]
  BY <1>1, Swapped DEF Exchanged
<1>3. g = DownInHeap(a, w)
  BY DEF PopInHeap
<1> HIDE DEF x, g
<1>4. a \in Seq(T) /\ Len(a) = n - 1 /\ \A i \in 1..(n - 1) : a[i] = x[i]
  BY <1>1, <1>2
<1> HIDE DEF a
<1>5. \A i \in 1..(n - 1) : i \in 1..n /\ a[i] = IF i = 1 THEN h[n] ELSE h[i]
  BY <1>1, <1>2, <1>4
<1>6. \A i \in 2..Len(a) : i \div 2 # 1 => w[a[i \div 2]] <= w[a[i]]
  <2> SUFFICES ASSUME NEW i \in 2..(n - 1), i \div 2 # 1 PROVE w[a[i \div 2]] <= w[a[i]]
    BY <1>4
  <2>1. i \div 2 \in 1..(n - 1) /\ i \in 1..(n - 1) /\ i # 1 /\ i \in 2..n
    BY <1>1, Parent
  <2>2. a[i \div 2] = h[i \div 2] /\ a[i] = h[i]
    BY <1>5, <2>1
  <2> QED
    BY <2>1, <2>2 DEF Ordered
<1>7. g \in Seq(T) /\ Rearranged(g, a) /\ Ordered(g, w)
  <2>1. HeapOf(g, a, w, T)
    BY <1>3, <1>4, <1>6, DownInHeapOrders
  <2> QED
    BY <2>1 DEF HeapOf
<1>8. Distinct(a)
  <2> SUFFICES ASSUME NEW i \in 1..(n - 1), NEW k \in 1..(n - 1), a[i] = a[k] PROVE i = k
    BY <1>4 DEF Distinct
  <2> DEFINE from(m) == IF m = 1 THEN n ELSE m
  <2>1. /\ a[i] = h[from(i)] /\ a[k] = h[from(k)]
        /\ from(i) \in 1..n /\ from(k) \in 1..n
    BY <1>1, <1>5
  <2>2. from(i) = from(k)
    BY <2>1 DEF Distinct
  <2> QED
    BY <1>1, <2>2
<1>9. Elements(a) \subseteq Elements(h) \ {h[1]}
  <2> SUFFICES ASSUME NEW i \in 1..(n - 1) PROVE a[i] \in Elements(h) \ {h[1]}
    BY <1>4 DEF Elements
  <2>1. a[i] \in Elements(h)
    BY <1>1, <1>5 DEF Elements
  <2>2. a[i] # h[1]
    <3>1. CASE i = 1
      <4>1. n # 1 /\ a[i] = h[n]
        BY <1>1, <1>5, <3>1
      <4> QED
        BY <1>1, <4>1 DEF Distinct
    <3>2. CASE i # 1
      BY <1>1, <1>5, <3>2 DEF Distinct
    <3> QED
      BY <3>1, <3>2
  <2> QED
    BY <2>1, <2>2
<1>10. Elements(h) \ {h[1]} \subseteq Elements(a)
  <2> SUFFICES ASSUME NEW i \in 1..n, h[i] # h[1] PROVE \E k \in 1..(n - 1) : a[k] = h[i]
    BY <1>4 DEF Elements
  <2>1. i # 1
    OBVIOUS
  <2>2. CASE i = n
    <3>1. 1 \in 1..(n - 1)
      BY <1>1, <2>1, <2>2
    <3> QED
      BY <1>5, <2>2, <3>1
  <2>3. CASE i # n
    <3>1. i \in 1..(n - 1)
      BY <1>1, <2>3
    <3> QED
      BY <1>5, <2>1, <3>1
  <2> QED
    BY <2>2, <2>3
<1> QED
  BY <1>7, <1>8, <1>9, <1>10 DEF Rearranged, g

-----------------------------------------------------------------------------
(* The queue of the other threads' calls.                                  *)

Calls == {"add", "cancel"} \X Timers

Adds(q) == {q[i][2] : i \in {j \in 1..Len(q) : q[j][1] = "add"}}

AddedOnce(q) ==
    \A i, j \in 1..Len(q) :
        q[i][1] = "add" /\ q[j][1] = "add" /\ q[i][2] = q[j][2] => i = j

\* RunInLoop() of another thread queues the closure of AddTimer or Cancel.
LEMMA CallQueued ==
    ASSUME NEW q \in Seq(Calls), NEW e \in Calls
    PROVE  /\ Append(q, e) \in Seq(Calls)
           /\ e[1] = "add" => Adds(Append(q, e)) = Adds(q) \cup {e[2]}
           /\ e[1] # "add" => Adds(Append(q, e)) = Adds(q)
           /\ AddedOnce(q) /\ (e[1] = "add" => e[2] \notin Adds(q)) => AddedOnce(Append(q, e))
<1> DEFINE n == Len(q)
           r == Append(q, e)
<1>1. /\ r \in Seq(Calls) /\ n \in Nat /\ Len(r) = n + 1 /\ r[n + 1] = e
      /\ \A i \in 1..n : r[i] = q[i]
  OBVIOUS
<1>2. \A i \in 1..(n + 1) : i \in 1..n \/ i = n + 1
  BY <1>1
<1>3. n + 1 \in 1..(n + 1) /\ \A i \in 1..n : i \in 1..(n + 1)
  BY <1>1
<1> HIDE DEF n, r
<1>4. ASSUME e[1] = "add" PROVE Adds(r) = Adds(q) \cup {e[2]}
  <2>1. Adds(r) \subseteq Adds(q) \cup {e[2]}
    BY <1>1, <1>2 DEF Adds, n
  <2>2. Adds(q) \subseteq Adds(r)
    BY <1>1, <1>3 DEF Adds, n
  <2>3. e[2] \in Adds(r)
    BY <1>1, <1>3, <1>4 DEF Adds
  <2> QED
    BY <2>1, <2>2, <2>3
<1>5. ASSUME e[1] # "add" PROVE Adds(r) = Adds(q)
  <2>1. Adds(r) \subseteq Adds(q)
    BY <1>1, <1>2, <1>5 DEF Adds, n
  <2>2. Adds(q) \subseteq Adds(r)
    BY <1>1, <1>3 DEF Adds, n
  <2> QED
    BY <2>1, <2>2
<1>6. ASSUME AddedOnce(q), e[1] = "add" => e[2] \notin Adds(q) PROVE AddedOnce(r)
  <2> SUFFICES ASSUME NEW i \in 1..(n + 1), NEW j \in 1..(n + 1),
                      r[i][1] = "add", r[j][1] = "add", r[i][2] = r[j][2]
               PROVE  i = j
    BY <1>1 DEF AddedOnce
  <2>1. \A k \in 1..n : q[k][1] = "add" => q[k][2] \in Adds(q)
    BY DEF Adds, n
  <2>2. CASE i \in 1..n /\ j \in 1..n
    BY <1>1, <1>6, <2>2 DEF AddedOnce, n
  <2>3. CASE i \in 1..n /\ j = n + 1
    BY <1>1, <1>6, <2>1, <2>3
  <2>4. CASE i = n + 1 /\ j \in 1..n
    BY <1>1, <1>6, <2>1, <2>4
  <2> QED
    BY <1>2, <2>2, <2>3, <2>4
<1> QED
  BY <1>1, <1>4, <1>5, <1>6 DEF r

\* CallPendingFunctors takes the oldest.
LEMMA CallTaken ==
    ASSUME NEW q \in Seq(Calls), q # <<>>, AddedOnce(q)
    PROVE  /\ Tail(q) \in Seq(Calls) /\ Head(q) \in Calls /\ AddedOnce(Tail(q))
           /\ Head(q)[1] = "add" => Adds(Tail(q)) = Adds(q) \ {Head(q)[2]}
                                    /\ Head(q)[2] \in Adds(q)
           /\ Head(q)[1] # "add" => Adds(Tail(q)) = Adds(q)
<1> DEFINE n == Len(q)
           r == Tail(q)
<1>1. /\ r \in Seq(Calls) /\ n \in Nat /\ n > 0 /\ Len(r) = n - 1 /\ Head(q) = q[1]
      /\ \A i \in 1..(n - 1) : r[i] = q[i + 1]
  OBVIOUS
<1>2. \A i \in 1..(n - 1) : i + 1 \in 1..n /\ i + 1 # 1
  BY <1>1
<1>3. 1 \in 1..n /\ \A i \in 1..n : i # 1 => i - 1 \in 1..(n - 1) /\ (i - 1) + 1 = i
  BY <1>1
<1>4. q[1] \in Calls
  BY <1>3
<1> HIDE DEF n, r
<1>5. AddedOnce(r)
  <2> SUFFICES ASSUME NEW i \in 1..(n - 1), NEW j \in 1..(n - 1),
                      r[i][1] = "add", r[j][1] = "add", r[i][2] = r[j][2]
               PROVE  i = j
    BY <1>1 DEF AddedOnce
  <2>1. i + 1 = j + 1
    BY <1>1, <1>2 DEF AddedOnce, n
  <2> QED
    BY <1>1, <2>1
<1>6. Adds(r) \subseteq Adds(q)
  BY <1>1, <1>2 DEF Adds, n
<1>7. \A x \in Adds(q) : x \in Adds(r) \/ (q[1][1] = "add" /\ x = q[1][2])
  <2> TAKE x \in Adds(q)
  <2>1. PICK i \in 1..n : q[i][1] = "add" /\ q[i][2] = x
    BY DEF Adds, n
  <2>2. CASE i = 1
    BY <2>1, <2>2
  <2>3. CASE i # 1
    <3>1. PICK k \in 1..(n - 1) : k + 1 = i
      BY <1>3, <2>3
    <3>2. r[k] = q[i]
      BY <1>1, <3>1
    <3> QED
      BY <1>1, <2>1, <3>2 DEF Adds
  <2> QED
    BY <2>2, <2>3
<1>8. ASSUME q[1][1] = "add" PROVE q[1][2] \in Adds(q) /\ q[1][2] \notin Adds(r)
  <2>1. q[1][2] \in Adds(q)
    BY <1>3, <1>8 DEF Adds, n
  <2>2. ASSUME q[1][2] \in Adds(r) PROVE FALSE
    <3>1. PICK i \in 1..(n - 1) : r[i][1] = "add" /\ r[i][2] = q[1][2]
      BY <1>1, <2>2 DEF Adds
    <3>2. i + 1 = 1
      BY <1>1, <1>2, <1>3, <1>8, <3>1 DEF AddedOnce, n
    <3> QED
      BY <1>2, <3>2
  <2> QED
    BY <2>1, <2>2
<1> QED
  BY <1>1, <1>4, <1>5, <1>6, <1>7, <1>8 DEF r

-----------------------------------------------------------------------------
(* The invariant.                                                          *)

\* Each timer is in one place, once.
PlacesInv ==
    /\ Distinct(heap_) /\ AddedOnce(queue)
    /\ InHeap \cap Queued = {}
    /\ InHeap \cup Queued \subseteq 1..created

\* While a callback runs its timer stays at the top, whatever it adds: what
\* HandleExpired then does to heap_[0] it does to that timer.
RunningInv ==
    pc = "run" => heap_ # <<>> /\ heap_[1] = running /\ runs[running] > 0

TimerIInv ==
    TypeOK /\ HeapOrdered /\ PlacesInv /\ RunningInv /\ NoTimerLost

LEMMA Places == InHeap = Elements(heap_) /\ Queued = Adds(queue)
BY DEF InHeap, Elements, Queued, Adds

LEMMA TimerInit == Init => TimerIInv
<1> SUFFICES ASSUME Init PROVE TimerIInv
  OBVIOUS
<1> USE TimerManagerAssumption DEF Init
<1>1. TypeOK
  <2>1. <<>> \in Seq(Timers) /\ <<>> \in Seq({"add", "cancel"} \X Timers)
    OBVIOUS
  <2>2. 1 \in Timers /\ 0 \in 0..N /\ 0 \in 0..MaxTime /\ 0 \in 0..MaxRuns
    BY DEF Timers
  <2> QED
    BY <2>1, <2>2 DEF TypeOK
<1>2. \A i : i \notin 1..Len(heap_) /\ i \notin 2..Len(heap_) /\ i \notin 1..Len(queue)
  OBVIOUS
<1>3. InHeap = {} /\ Queued = {}
  BY <1>2 DEF InHeap, Queued
<1>4. HeapOrdered /\ PlacesInv /\ RunningInv
  BY <1>2, <1>3 DEF HeapOrdered, Ordered, PlacesInv, Distinct, AddedOnce, RunningInv
<1>5. NoTimerLost
  BY <1>2 DEF NoTimerLost
<1> QED
  BY <1>1, <1>4, <1>5 DEF TimerIInv

\* A step that leaves the heap, the queue and the deadlines alone.
LEMMA SamePlaces ==
    ASSUME TimerIInv, UNCHANGED <<heap_, when, interval, created>>,
           Adds(queue') = Adds(queue), AddedOnce(queue'), TypeOK',
           \A t \in Timers : canceled[t] => canceled'[t],
           \A t \in Timers : runs'[t] = 0 => runs[t] = 0,
           RunningInv'
    PROVE  TimerIInv'
<1>1. InHeap' = InHeap /\ Queued' = Queued
  <2>1. Queued' = Adds(queue')
    BY DEF Queued, Adds
  <2> QED
    BY <2>1, Places DEF InHeap
<1>2. HeapOrdered' /\ PlacesInv'
  BY <1>1 DEF TimerIInv, HeapOrdered, PlacesInv
<1>3. \A t \in 1..created : t \in Timers
  <2>1. created \in 0..N /\ N \in Nat
    BY TimerManagerAssumption DEF TimerIInv, TypeOK
  <2> QED
    BY <2>1 DEF Timers
<1>4. NoTimerLost'
  <2> SUFFICES ASSUME NEW t \in 1..created, ~canceled'[t],
                      interval[t] # 0 \/ runs'[t] = 0
               PROVE  t \in InHeap \cup Queued
    BY <1>1 DEF TimerIInv, NoTimerLost
  <2>1. ~canceled[t] /\ (interval[t] # 0 \/ runs[t] = 0)
    BY <1>3
  <2> QED
    BY <2>1 DEF TimerIInv, NoTimerLost
<1> QED
  BY <1>2, <1>4 DEF TimerIInv

\* AddTimer in the loop thread: outside HandleExpired or in a callback
\* (Timer.cpp:19-26).
LEMMA AddInLoopKeeps ==
    ASSUME ~EarlierAdds, TimerIInv, NEW t \in Timers, NEW w \in Deadlines, NEW i \in Intervals,
           AddTimerInLoop(t, w, i)
    PROVE  TimerIInv'
<1> USE TimerManagerAssumption
<1>1. /\ TypeOK /\ HeapOrdered /\ PlacesInv /\ RunningInv /\ NoTimerLost
      /\ heap_ \in Seq(Timers) /\ when \in [Timers -> Nat] /\ interval \in [Timers -> Nat]
      /\ created \in Nat
  BY DEF TimerIInv, TypeOK
<1>2. /\ t = created + 1 /\ created' = t
      /\ when' = [when EXCEPT ![t] = w] /\ interval' = [interval EXCEPT ![t] = i]
      /\ heap_' = PushInHeap(heap_, when', t)
      /\ UNCHANGED <<canceled, queue, pc, running, hnow, now, runs>>
      /\ pc = "run" => w >= when[running]
  BY DEF AddTimerInLoop, NewTimer
<1>3. w \in Nat /\ i \in Nat
  BY DEF Deadlines
<1>4. /\ when' \in [Timers -> Nat] /\ interval' \in [Timers -> Nat]
      /\ when'[t] = w /\ interval'[t] = i
      /\ \A x \in Timers : x # t => when'[x] = when[x] /\ interval'[x] = interval[x]
  BY <1>1, <1>2, <1>3
<1>5. t \notin InHeap \cup Queued
  BY <1>1, <1>2 DEF PlacesInv
<1>6. \A k \in 1..Len(heap_) : heap_[k] \in Timers /\ heap_[k] # t
  BY <1>1, <1>5 DEF InHeap
<1>7. PICK v : v = when'
  OBVIOUS
<1>8. PICK g : g = PushInHeap(heap_, v, t)
  OBVIOUS
<1>9. Ordered(heap_, v)
  <2>1. \A k \in 1..Len(heap_) : v[heap_[k]] = when[heap_[k]]
    BY <1>4, <1>6, <1>7
  <2>2. Ordered(heap_, when)
    BY <1>1 DEF HeapOrdered
  <2> QED
    BY <1>1, <2>1, <2>2, OrderedOn
<1>10. /\ g \in Seq(Timers) /\ Ordered(g, v) /\ Distinct(g)
       /\ Elements(g) = Elements(heap_) \cup {t}
       /\ Len(heap_) > 0 /\ v[heap_[1]] <= v[t] => g # <<>> /\ g[1] = heap_[1]
  <2>1. \A x \in Timers : v[x] \in Int
    BY <1>4, <1>7
  <2>2. Distinct(heap_) /\ t \notin Elements(heap_)
    BY <1>1, <1>5, Places DEF PlacesInv
  <2>3. PICK h : h = heap_
    OBVIOUS
  <2>4. h \in Seq(Timers) /\ Ordered(h, v) /\ Distinct(h) /\ t \notin Elements(h)
    BY <1>1, <1>9, <2>2, <2>3
  <2>5. g = PushInHeap(h, v, t)
    BY <1>8, <2>3
  <2>6. /\ g \in Seq(Timers) /\ Ordered(g, v) /\ Distinct(g)
        /\ Elements(g) = Elements(h) \cup {t}
        /\ Len(h) > 0 /\ v[h[1]] <= v[t] => g # <<>> /\ g[1] = h[1]
    BY <2>1, <2>4, <2>5, PushOrders
  <2> QED
    BY <2>3, <2>6
<1>11. heap_' = g /\ InHeap' = InHeap \cup {t} /\ Queued' = Queued
  <2>1. heap_' = g
    BY <1>2, <1>7, <1>8
  <2>2. InHeap' = Elements(g)
    BY <2>1 DEF InHeap, Elements
  <2> QED
    BY <1>2, <1>10, <2>1, <2>2, Places DEF Queued
<1>12. TypeOK'
  <2>1. created' \in 0..N
    BY <1>2 DEF Timers
  <2>2. heap_' \in Seq(Timers)
    BY <1>10, <1>11
  <2> QED
    BY <1>1, <1>2, <1>4, <2>1, <2>2 DEF TypeOK
<1>13. HeapOrdered'
  BY <1>7, <1>10, <1>11 DEF HeapOrdered
<1>14. PlacesInv'
  <2>1. 1..created \subseteq 1..created' /\ t \in 1..created'
    BY <1>1, <1>2
  <2>2. Distinct(heap_') /\ AddedOnce(queue')
    BY <1>1, <1>2, <1>10, <1>11 DEF PlacesInv
  <2> QED
    BY <1>1, <1>5, <1>11, <2>1, <2>2 DEF PlacesInv
<1>15. RunningInv'
  <2> SUFFICES ASSUME pc = "run"
               PROVE  g # <<>> /\ g[1] = running /\ runs[running] > 0
    BY <1>2, <1>11 DEF RunningInv
  <2>1. heap_ # <<>> /\ heap_[1] = running /\ runs[running] > 0
    BY <1>1 DEF RunningInv
  <2>2. Len(heap_) > 0 /\ 1 \in 1..Len(heap_)
    BY <1>1, <2>1
  <2>3. v[heap_[1]] = when[running] /\ v[t] = w /\ when[running] <= w
    BY <1>1, <1>2, <1>4, <1>6, <1>7, <2>1, <2>2, <1>3
  <2> QED
    BY <1>10, <2>1, <2>2, <2>3
<1>16. NoTimerLost'
  <2>1. ASSUME NEW x \in 1..created', ~canceled'[x], interval'[x] # 0 \/ runs'[x] = 0
        PROVE  x \in InHeap' \cup Queued'
    <3>1. CASE x = t
      BY <1>11, <3>1
    <3>2. CASE x # t
      <4>1. x \in 1..created /\ x \in Timers
        BY <1>1, <1>2, <3>2 DEF Timers
      <4>2. ~canceled[x] /\ (interval[x] # 0 \/ runs[x] = 0)
        BY <1>2, <1>4, <2>1, <3>2, <4>1
      <4> QED
        BY <1>1, <1>11, <4>1, <4>2 DEF NoTimerLost
    <3> QED
      BY <3>1, <3>2
  <2>2. Distinct(heap_')
    BY <1>14 DEF PlacesInv
  <2> QED
    BY <2>1, <2>2 DEF NoTimerLost, Distinct
<1> QED
  BY <1>12, <1>13, <1>14, <1>15, <1>16 DEF TimerIInv

\* AddTimer in another thread.
LEMMA AddElsewhereKeeps ==
    ASSUME TimerIInv, NEW t \in Timers, NEW w \in Deadlines, NEW i \in Intervals,
           AddTimerElsewhere(t, w, i)
    PROVE  TimerIInv'
<1> USE TimerManagerAssumption
<1>1. /\ TypeOK /\ HeapOrdered /\ PlacesInv /\ RunningInv /\ NoTimerLost
      /\ heap_ \in Seq(Timers) /\ when \in [Timers -> Nat] /\ interval \in [Timers -> Nat]
      /\ created \in Nat /\ queue \in Seq(Calls)
  BY DEF TimerIInv, TypeOK, Calls
<1>2. /\ t = created + 1 /\ created' = t
      /\ when' = [when EXCEPT ![t] = w] /\ interval' = [interval EXCEPT ![t] = i]
      /\ queue' = Append(queue, <<"add", t>>)
      /\ UNCHANGED <<heap_, canceled, pc, running, hnow, now, runs>>
  BY DEF AddTimerElsewhere, NewTimer
<1>3. w \in Nat /\ i \in Nat
  BY DEF Deadlines
<1>4. /\ when' \in [Timers -> Nat] /\ interval' \in [Timers -> Nat]
      /\ \A x \in Timers : x # t => when'[x] = when[x] /\ interval'[x] = interval[x]
  BY <1>1, <1>2, <1>3
<1>5. t \notin InHeap /\ t \notin Queued
  BY <1>1, <1>2 DEF PlacesInv
<1>6. queue' \in Seq(Calls) /\ Adds(queue') = Adds(queue) \cup {t} /\ AddedOnce(queue')
  <2>1. PICK e : e = <<"add", t>>
    OBVIOUS
  <2>2. e \in Calls /\ e[1] = "add" /\ e[2] = t
    BY <2>1 DEF Calls
  <2>3. AddedOnce(queue) /\ t \notin Adds(queue)
    BY <1>1, <1>5, Places DEF PlacesInv
  <2> QED
    BY <1>1, <1>2, <2>1, <2>2, <2>3, CallQueued
<1>7. InHeap' = InHeap /\ Queued' = Queued \cup {t}
  <2>1. Queued' = Adds(queue')
    BY DEF Queued, Adds
  <2> QED
    BY <1>2, <1>6, <2>1, Places DEF InHeap
<1>8. TypeOK'
  <2>1. created' \in 0..N
    BY <1>2 DEF Timers
  <2>2. queue' \in Seq({"add", "cancel"} \X Timers)
    BY <1>6 DEF Calls
  <2> QED
    BY <1>1, <1>2, <1>4, <2>1, <2>2 DEF TypeOK
<1>9. HeapOrdered'
  <2>1. PICK v : v = when'
    OBVIOUS
  <2>2. ASSUME NEW k \in 1..Len(heap_) PROVE v[heap_[k]] = when[heap_[k]]
    <3>1. heap_[k] \in Timers /\ heap_[k] # t
      BY <1>1, <1>5 DEF InHeap
    <3> QED
      BY <1>4, <2>1, <3>1
  <2>3. Ordered(heap_, v)
    BY <1>1, <2>2, OrderedOn DEF HeapOrdered
  <2> QED
    BY <1>2, <2>1, <2>3 DEF HeapOrdered
<1>10. PlacesInv'
  <2>1. 1..created \subseteq 1..created' /\ t \in 1..created'
    BY <1>1, <1>2
  <2> QED
    BY <1>1, <1>2, <1>5, <1>6, <1>7, <2>1 DEF PlacesInv
<1>11. RunningInv'
  BY <1>1, <1>2 DEF RunningInv
<1>12. NoTimerLost'
  <2>1. ASSUME NEW x \in 1..created', ~canceled'[x], interval'[x] # 0 \/ runs'[x] = 0
        PROVE  x \in InHeap' \cup Queued'
    <3>1. CASE x = t
      BY <1>7, <3>1
    <3>2. CASE x # t
      <4>1. x \in 1..created /\ x \in Timers
        BY <1>1, <1>2, <3>2 DEF Timers
      <4>2. ~canceled[x] /\ (interval[x] # 0 \/ runs[x] = 0)
        BY <1>2, <1>4, <2>1, <3>2, <4>1
      <4> QED
        BY <1>1, <1>7, <4>1, <4>2 DEF NoTimerLost
    <3> QED
      BY <3>1, <3>2
  <2> QED
    BY <1>1, <1>2, <2>1 DEF NoTimerLost
<1> QED
  BY <1>8, <1>9, <1>10, <1>11, <1>12 DEF TimerIInv

\* The heap loses its top, or only rearranges itself; the queue may change.
LEMMA OtherHeap ==
    ASSUME TimerIInv, TypeOK', HeapOrdered', Distinct(heap_'), pc' # "run",
           UNCHANGED <<interval, canceled, created, runs>>,
           AddedOnce(queue'), InHeap' \cap Queued' = {},
           InHeap' \cup Queued' \subseteq InHeap \cup Queued,
           \A t \in Timers : t \in InHeap \cup Queued /\ t \notin InHeap' \cup Queued'
                             => canceled[t] \/ (interval[t] = 0 /\ runs[t] # 0)
    PROVE  TimerIInv'
<1>1. PlacesInv' /\ RunningInv'
  BY DEF TimerIInv, PlacesInv, RunningInv
<1>2. ASSUME NEW x \in 1..created, ~canceled[x], interval[x] # 0 \/ runs[x] = 0
      PROVE  x \in InHeap' \cup Queued'
  <2>1. x \in InHeap \cup Queued
    BY <1>2 DEF TimerIInv, NoTimerLost
  <2>2. x \in Timers
    <3>1. created \in 0..N /\ N \in Nat
      BY TimerManagerAssumption DEF TimerIInv, TypeOK
    <3> QED
      BY <3>1 DEF Timers
  <2> QED
    BY <1>2, <2>1, <2>2
<1>3. NoTimerLost'
  BY <1>2 DEF NoTimerLost, Distinct
<1> QED
  BY <1>1, <1>3 DEF TimerIInv

\* Cancel, in the loop thread or in another (Timer.cpp:28-36).
LEMMA CancelKeeps ==
    ASSUME TimerIInv, NEW t \in Timers, CancelInLoop(t) \/ CancelElsewhere(t)
    PROVE  TimerIInv'
<1>1. TypeOK /\ queue \in Seq(Calls) /\ AddedOnce(queue)
  BY DEF TimerIInv, TypeOK, PlacesInv, Calls
<1>2. CASE CancelInLoop(t)
  <2>1. /\ canceled' = [canceled EXCEPT ![t] = TRUE]
        /\ UNCHANGED <<heap_, when, interval, created, queue, pc, running, hnow, now, runs>>
    BY <1>2 DEF CancelInLoop
  <2>2. TypeOK'
    BY <1>1, <2>1 DEF TypeOK
  <2>3. RunningInv'
    BY <2>1 DEF TimerIInv, RunningInv
  <2>4. \A x \in Timers : canceled[x] => canceled'[x]
    BY <1>1, <2>1 DEF TypeOK
  <2> QED
    BY <1>1, <2>1, <2>2, <2>3, <2>4, SamePlaces
<1>3. CASE CancelElsewhere(t)
  <2>1. /\ queue' = Append(queue, <<"cancel", t>>)
        /\ UNCHANGED <<heap_, when, interval, canceled, created, pc, running, hnow, now, runs>>
    BY <1>3 DEF CancelElsewhere
  <2>2. queue' \in Seq(Calls) /\ Adds(queue') = Adds(queue) /\ AddedOnce(queue')
    <3>1. PICK e : e = <<"cancel", t>>
      OBVIOUS
    <3>2. e \in Calls /\ e[1] # "add"
      BY <3>1 DEF Calls
    <3> QED
      BY <1>1, <2>1, <3>1, <3>2, CallQueued
  <2>3. TypeOK'
    BY <1>1, <2>1, <2>2 DEF TypeOK, Calls
  <2>4. RunningInv'
    BY <2>1 DEF TimerIInv, RunningInv
  <2> QED
    BY <2>1, <2>2, <2>3, <2>4, SamePlaces
<1> QED
  BY <1>2, <1>3

\* A closure of AddTimer or Cancel runs.
LEMMA RunQueuedKeeps ==
    ASSUME TimerIInv, RunQueued
    PROVE  TimerIInv'
<1>1. /\ TypeOK /\ HeapOrdered /\ PlacesInv /\ queue \in Seq(Calls) /\ AddedOnce(queue)
      /\ queue # <<>> /\ heap_ \in Seq(Timers) /\ pc = "idle"
      /\ queue' = Tail(queue)
      /\ UNCHANGED <<when, interval, created, pc, running, hnow, now, runs>>
  BY DEF TimerIInv, TypeOK, PlacesInv, Calls, RunQueued
<1>2. PICK e : e = Head(queue)
  OBVIOUS
<1>3. /\ e \in Calls /\ e[2] \in Timers /\ queue' \in Seq(Calls) /\ AddedOnce(queue')
      /\ e[1] = "add" => Adds(queue') = Adds(queue) \ {e[2]} /\ e[2] \in Adds(queue)
      /\ e[1] # "add" => Adds(queue') = Adds(queue)
  BY <1>1, <1>2, CallTaken DEF Calls
<1>4. Queued' = Adds(queue')
  BY DEF Queued, Adds
<1>5. CASE e[1] = "add" /\ heap_' = PushInHeap(heap_, when, e[2]) /\ UNCHANGED canceled
  <2>1. PICK g, t : g = heap_' /\ t = e[2]
    OBVIOUS
  <2>2. t \notin InHeap /\ t \in Queued /\ t \in Timers /\ Queued' = Queued \ {t}
    BY <1>1, <1>3, <1>4, <1>5, <2>1, Places DEF PlacesInv
  <2>3. g \in Seq(Timers) /\ Ordered(g, when) /\ Distinct(g) /\ Elements(g) = Elements(heap_) \cup {t}
    <3>1. \A x \in Timers : when[x] \in Int
      BY <1>1 DEF TypeOK
    <3>2. PICK h : h = heap_
      OBVIOUS
    <3>3. h \in Seq(Timers) /\ Ordered(h, when) /\ Distinct(h) /\ t \notin Elements(h)
      BY <1>1, <2>2, <3>2, Places DEF HeapOrdered, PlacesInv
    <3>4. g = PushInHeap(h, when, t)
      BY <1>5, <2>1, <3>2
    <3>5. g \in Seq(Timers) /\ Ordered(g, when) /\ Distinct(g) /\ Elements(g) = Elements(h) \cup {t}
      BY <2>2, <3>1, <3>3, <3>4, PushOrders
    <3> QED
      BY <3>2, <3>5
  <2>4. InHeap' = InHeap \cup {t}
    BY <2>1, <2>3, Places DEF InHeap, Elements
  <2>5. TypeOK'
    BY <1>1, <1>3, <1>5, <2>1, <2>3 DEF TypeOK, Calls
  <2>6. HeapOrdered' /\ Distinct(heap_')
    BY <1>1, <2>1, <2>3 DEF HeapOrdered
  <2>7. /\ InHeap' \cap Queued' = {}
        /\ InHeap' \cup Queued' = InHeap \cup Queued
    BY <1>1, <2>2, <2>4 DEF PlacesInv
  <2> QED
    BY <1>1, <1>3, <1>5, <2>5, <2>6, <2>7, OtherHeap
<1>6. CASE /\ e[1] = "cancel" /\ UNCHANGED heap_
           /\ canceled' = [canceled EXCEPT ![e[2]] = @ \/ ~Expired(e[2])]
  <2>1. canceled' \in [Timers -> BOOLEAN] /\ \A x \in Timers : canceled[x] => canceled'[x]
    <3>1. PICK x, dead : x = e[2] /\ dead = (canceled[x] \/ ~Expired(x))
      OBVIOUS
    <3>2. x \in Timers /\ dead \in BOOLEAN /\ canceled' = [canceled EXCEPT ![x] = dead]
          /\ (canceled[x] => dead)
      BY <1>3, <1>6, <3>1
    <3>3. canceled \in [Timers -> BOOLEAN]
      BY <1>1 DEF TypeOK
    <3> QED
      BY <3>2, <3>3
  <2>2. TypeOK'
    BY <1>1, <1>3, <1>6, <2>1 DEF TypeOK, Calls
  <2>3. RunningInv'
    BY <1>1 DEF RunningInv
  <2> QED
    BY <1>1, <1>3, <1>6, <2>1, <2>2, <2>3, SamePlaces
<1> QED
  BY <1>2, <1>5, <1>6 DEF RunQueued

\* The top, HandleExpired's `timer', goes.
LEMMA TopPopped ==
    ASSUME TimerIInv, heap_ # <<>>, heap_' = PopInHeap(heap_, when), UNCHANGED when
    PROVE  /\ heap_' \in Seq(Timers) /\ HeapOrdered' /\ Distinct(heap_')
           /\ InHeap' = InHeap \ {heap_[1]} /\ heap_[1] \in InHeap
<1>1. PICK g, h : g = heap_' /\ h = heap_
  OBVIOUS
<1>2. /\ h \in Seq(Timers) /\ Ordered(h, when) /\ Distinct(h) /\ h # <<>>
      /\ \A x \in Timers : when[x] \in Int
  BY <1>1 DEF TimerIInv, TypeOK, HeapOrdered, PlacesInv
<1>3. g = PopInHeap(h, when)
  BY <1>1
<1>4. g \in Seq(Timers) /\ Ordered(g, when) /\ Distinct(g) /\ Elements(g) = Elements(h) \ {h[1]}
  BY <1>2, <1>3, PopOrders
<1>5. InHeap' = Elements(g)
  BY <1>1 DEF InHeap, Elements
<1>6. h[1] \in Elements(h)
  <2>1. 1 \in 1..Len(h)
    BY <1>2
  <2> QED
    BY <2>1 DEF Elements
<1> QED
  BY <1>1, <1>4, <1>5, <1>6, Places DEF HeapOrdered

\* A canceled timer at the top is popped (Timer.cpp:42-43).
LEMMA PopCanceledKeeps ==
    ASSUME TimerIInv, PopCanceled
    PROVE  TimerIInv'
<1>1. /\ TypeOK /\ PlacesInv /\ heap_ # <<>> /\ canceled[Head(heap_)] /\ pc = "while"
      /\ heap_' = PopInHeap(heap_, when)
      /\ UNCHANGED <<when, interval, canceled, created, queue, pc, running, hnow, now, runs>>
  BY DEF TimerIInv, PopCanceled
<1>2. /\ heap_' \in Seq(Timers) /\ HeapOrdered' /\ Distinct(heap_')
      /\ InHeap' = InHeap \ {heap_[1]}
  BY <1>1, TopPopped
<1>3. canceled[heap_[1]]
  BY <1>1 DEF TypeOK
<1>4. TypeOK'
  BY <1>1, <1>2 DEF TypeOK
<1>5. Queued' = Queued /\ AddedOnce(queue')
  BY <1>1 DEF Queued, PlacesInv
<1>6. InHeap' \cap Queued' = {} /\ InHeap' \cup Queued' \subseteq InHeap \cup Queued
  BY <1>1, <1>2, <1>5 DEF PlacesInv
<1>7. \A t \in Timers : t \in InHeap \cup Queued /\ t \notin InHeap' \cup Queued' => canceled[t]
  BY <1>2, <1>3, <1>5
<1> QED
  BY <1>1, <1>2, <1>4, <1>5, <1>6, <1>7, OtherHeap

\* The callback of the timer at the top starts (Timer.cpp:44-45).
LEMMA RunTopKeeps ==
    ASSUME TimerIInv, RunTop
    PROVE  TimerIInv'
<1> USE TimerManagerAssumption
<1>1. /\ TypeOK /\ heap_ # <<>> /\ pc' = "run" /\ running' = Head(heap_)
      /\ UNCHANGED <<heap_, when, interval, canceled, created, queue, hnow, now>>
      /\ runs' = [runs EXCEPT ![running'] = IF @ < MaxRuns THEN @ + 1 ELSE @]
      /\ AddedOnce(queue)
  BY DEF TimerIInv, RunTop, PlacesInv
<1>2. PICK t, k : t = Head(heap_) /\ k = IF runs[t] < MaxRuns THEN runs[t] + 1 ELSE runs[t]
  OBVIOUS
<1>3. t \in Timers /\ t = heap_[1] /\ runs[t] \in 0..MaxRuns
  BY <1>1, <1>2 DEF TypeOK
<1>4. k \in 0..MaxRuns /\ k > 0 /\ runs' = [runs EXCEPT ![t] = k] /\ running' = t
  BY <1>1, <1>2, <1>3
<1>5. runs' \in [Timers -> 0..MaxRuns] /\ runs'[t] = k /\ \A x \in Timers : runs'[x] = 0 => runs[x] = 0
  <2>1. runs \in [Timers -> 0..MaxRuns]
    BY <1>1 DEF TypeOK
  <2>2. runs' \in [Timers -> 0..MaxRuns] /\ runs'[t] = k
    BY <1>3, <1>4, <2>1
  <2>3. ASSUME NEW x \in Timers, runs'[x] = 0 PROVE runs[x] = 0
    <3>1. CASE x = t
      BY <1>4, <2>2, <2>3, <3>1
    <3>2. CASE x # t
      BY <1>4, <2>1, <2>3, <3>2
    <3> QED
      BY <3>1, <3>2
  <2> QED
    BY <2>2, <2>3
<1>6. TypeOK'
  BY <1>1, <1>3, <1>4, <1>5 DEF TypeOK
<1>7. RunningInv'
  BY <1>1, <1>3, <1>4, <1>5 DEF RunningInv
<1> QED
  BY <1>1, <1>5, <1>6, <1>7, SamePlaces

\* The callback returns: its timer is still at the top, and gets its next
\* deadline there or goes (Timer.cpp:46-51).
LEMMA CallbackReturnsKeeps ==
    ASSUME TimerIInv, CallbackReturns
    PROVE  TimerIInv'
<1> USE TimerManagerAssumption
<1>1. /\ TypeOK /\ PlacesInv /\ RunningInv /\ pc = "run" /\ pc' = "while"
      /\ UNCHANGED <<interval, canceled, created, queue, running, hnow, now, runs>>
      /\ heap_ \in Seq(Timers) /\ when \in [Timers -> Nat] /\ Ordered(heap_, when)
      /\ Distinct(heap_) /\ running \in Timers
  BY DEF TimerIInv, CallbackReturns, TypeOK, HeapOrdered, PlacesInv
<1>2. heap_ # <<>> /\ heap_[1] = running /\ runs[running] > 0
  BY <1>1 DEF RunningInv
<1>3. Queued' = Queued /\ AddedOnce(queue')
  BY <1>1 DEF Queued, PlacesInv
<1>4. CASE interval[running] # 0
  <2>1. PICK d : d = now + interval[running]
    OBVIOUS
  <2>2. PICK v : v = when'
    OBVIOUS
  <2>3. d \in Nat
    BY <1>1, <2>1 DEF TypeOK
  <2>4. v = [when EXCEPT ![running] = d] /\ heap_' = DownInHeap(heap_, v)
    BY <1>4, <2>1, <2>2 DEF CallbackReturns
  <2>5. v \in [Timers -> Nat] /\ \A x \in Timers : x # running => v[x] = when[x]
    BY <1>1, <2>3, <2>4
  <2>6. PICK g, h : g = heap_' /\ h = heap_
    OBVIOUS
  <2>7. h \in Seq(Timers) /\ Distinct(h) /\ Ordered(h, when) /\ h[1] = running
    BY <1>1, <1>2, <2>6
  <2>8. ASSUME NEW i \in 2..Len(h), i \div 2 # 1
        PROVE  v[h[i \div 2]] <= v[h[i]]
    <3>1. i \in 1..Len(h) /\ i \div 2 \in 1..Len(h) /\ i # 1 /\ 1 \in 1..Len(h)
      BY <2>7, Parent
    <3>2. h[i] # running /\ h[i \div 2] # running /\ h[i] \in Timers /\ h[i \div 2] \in Timers
      BY <2>7, <2>8, <3>1 DEF Distinct
    <3> QED
      BY <2>5, <2>7, <3>2 DEF Ordered
  <2>9. g \in Seq(Timers) /\ Rearranged(g, h) /\ Ordered(g, v)
    <3>1. \A x \in Timers : v[x] \in Int
      BY <2>5
    <3>2. g = DownInHeap(h, v)
      BY <2>4, <2>6
    <3>3. HeapOf(g, h, v, Timers)
      BY <2>7, <2>8, <3>1, <3>2, DownInHeapOrders
    <3> QED
      BY <3>3 DEF HeapOf
  <2>10. Elements(g) = Elements(h) /\ Distinct(g)
    BY <2>7, <2>9 DEF Rearranged
  <2>11. InHeap' = InHeap
    <3>1. InHeap = Elements(h)
      BY <2>6 DEF InHeap, Elements
    <3>2. InHeap' = Elements(g)
      BY <2>6 DEF InHeap, Elements
    <3> QED
      BY <2>10, <3>1, <3>2
  <2>12. TypeOK'
    <3>1. heap_' \in Seq(Timers) /\ when' \in [Timers -> Nat]
      BY <2>2, <2>5, <2>6, <2>9
    <3> QED
      BY <1>1, <3>1 DEF TypeOK
  <2>13. HeapOrdered' /\ Distinct(heap_')
    BY <2>2, <2>6, <2>9, <2>10 DEF HeapOrdered
  <2>14. InHeap' \cap Queued' = {} /\ InHeap' \cup Queued' = InHeap \cup Queued
    BY <1>1, <1>3, <2>11 DEF PlacesInv
  <2> QED
    BY <1>1, <1>3, <2>12, <2>13, <2>14, OtherHeap
<1>5. CASE interval[running] = 0
  <2>1. UNCHANGED when /\ heap_' = PopInHeap(heap_, when)
    BY <1>5 DEF CallbackReturns
  <2>2. /\ heap_' \in Seq(Timers) /\ HeapOrdered' /\ Distinct(heap_')
        /\ InHeap' = InHeap \ {running}
    BY <1>2, <2>1, TopPopped
  <2>3. TypeOK'
    BY <1>1, <2>1, <2>2 DEF TypeOK
  <2>4. InHeap' \cap Queued' = {} /\ InHeap' \cup Queued' \subseteq InHeap \cup Queued
    BY <1>1, <1>3, <2>2 DEF PlacesInv
  <2>5. runs[running] # 0
    BY <1>1, <1>2 DEF TypeOK
  <2>6. \A t \in Timers : t \in InHeap \cup Queued /\ t \notin InHeap' \cup Queued'
                          => interval[t] = 0 /\ runs[t] # 0
    BY <1>3, <1>5, <2>2, <2>5
  <2> QED
    BY <1>1, <1>3, <2>2, <2>3, <2>4, <2>6, OtherHeap
<1> QED
  BY <1>4, <1>5

\* HandleExpired begins or ends, time passes.
LEMMA RestKeeps ==
    ASSUME TimerIInv, BeginHandleExpired \/ EndHandleExpired \/ Tick \/ UNCHANGED vars
    PROVE  TimerIInv'
<1>1. /\ UNCHANGED <<heap_, when, interval, canceled, created, queue, runs>>
      /\ TypeOK /\ AddedOnce(queue)
  BY DEF BeginHandleExpired, EndHandleExpired, Tick, vars, TimerIInv, PlacesInv
<1>2. TypeOK'
  <2>1. 1 \in Timers /\ 0 \in 0..MaxTime
    BY TimerManagerAssumption DEF Timers
  <2>2. CASE BeginHandleExpired
    BY <1>1, <2>2 DEF BeginHandleExpired, TypeOK
  <2>3. CASE EndHandleExpired
    BY <1>1, <2>1, <2>3 DEF EndHandleExpired, TypeOK
  <2>4. CASE Tick
    <3>1. now' \in 0..MaxTime
      BY <1>1, <2>4, TimerManagerAssumption DEF Tick, TypeOK
    <3> QED
      BY <1>1, <2>4, <3>1 DEF Tick, TypeOK
  <2>5. CASE UNCHANGED vars
    BY <1>1, <2>5 DEF vars, TypeOK
  <2> QED
    BY <2>2, <2>3, <2>4, <2>5
<1>3. RunningInv'
  BY <1>1 DEF BeginHandleExpired, EndHandleExpired, Tick, vars, TimerIInv, RunningInv
<1> QED
  BY <1>1, <1>2, <1>3, SamePlaces

LEMMA TimerNext ==
    ASSUME ~EarlierAdds, TimerIInv, [Next]_vars
    PROVE  TimerIInv'
<1>1. ASSUME NEW t \in Timers, NEW i \in Intervals, NEW w \in Deadlines,
             AddTimerInLoop(t, w, i) \/ AddTimerElsewhere(t, w, i)
      PROVE  TimerIInv'
  BY <1>1, AddInLoopKeeps, AddElsewhereKeeps
<1>2. ASSUME NEW t \in Timers, CancelInLoop(t) \/ CancelElsewhere(t)
      PROVE  TimerIInv'
  BY <1>2, CancelKeeps
<1> QED
  BY <1>1, <1>2, RunQueuedKeeps, PopCanceledKeeps, RunTopKeeps, CallbackReturnsKeeps,
     RestKeeps DEF Next

\* The invariant, for callbacks that add no timer due before their own
\* (Timer.cpp:19-107).
THEOREM TimerInvariant == ~EarlierAdds => (Spec => []TimerIInv)
<1> SUFFICES ASSUME ~EarlierAdds PROVE Spec => []TimerIInv
  OBVIOUS
<1>1. Init => TimerIInv
  BY TimerInit
<1>2. TimerIInv /\ [Next]_vars => TimerIInv'
  BY TimerNext
<1> QED
  BY <1>1, <1>2, PTL DEF Spec

-----------------------------------------------------------------------------
(* The theorems.                                                           *)

\* Whatever is added and canceled, from other threads and from callbacks, the
\* vector is a min-heap whenever user code or epoll_wait runs
\* (Timer.cpp:69-107).
THEOREM HeapStaysOrdered == ~EarlierAdds => (Spec => []HeapOrdered)
<1> SUFFICES ASSUME ~EarlierAdds PROVE Spec => []HeapOrdered
  OBVIOUS
<1>1. TimerIInv => HeapOrdered
  BY DEF TimerIInv
<1> QED
  BY <1>1, TimerInvariant, PTL

\* A timer that has not run out and is not canceled is in the heap, once, or on
\* its way there (Timer.cpp:19-26, 45-51).
THEOREM NoTimerIsLost == ~EarlierAdds => (Spec => []NoTimerLost)
<1> SUFFICES ASSUME ~EarlierAdds PROVE Spec => []NoTimerLost
  OBVIOUS
<1>1. TimerIInv => NoTimerLost
  BY DEF TimerIInv
<1> QED
  BY <1>1, TimerInvariant, PTL

\* Rounding down to whole milliseconds.
LEMMA WholeMs ==
    \A a, m \in Nat, d \in Nat \ {0} : m <= a \div d => m * d <= a
OBVIOUS

\* The timer at the top is due first.
LEMMA TopDueFirst ==
    ASSUME TimerIInv, NEW t \in InHeap
    PROVE  /\ heap_ # <<>> /\ Head(heap_) \in Timers /\ t \in Timers
           /\ when[Head(heap_)] <= when[t]
           /\ when[Head(heap_)] \in Nat /\ when[t] \in Nat /\ now \in Nat /\ hnow \in Nat
<1>1. /\ heap_ \in Seq(Timers) /\ when \in [Timers -> Nat] /\ Ordered(heap_, when)
      /\ now \in Nat /\ hnow \in Nat
  BY TimerManagerAssumption DEF TimerIInv, TypeOK, HeapOrdered
<1>2. PICK i \in 1..Len(heap_) : t = heap_[i]
  BY DEF InHeap
<1>3. heap_ # <<>> /\ Head(heap_) = heap_[1] /\ 1 \in 1..Len(heap_)
  BY <1>1, <1>2
<1>4. when[heap_[1]] <= when[heap_[i]]
  <2>1. PICK h, w : h = heap_ /\ w = when
    OBVIOUS
  <2>2. h \in Seq(Timers) /\ Ordered(h, w) /\ \A x \in Timers : w[x] \in Int
    BY <1>1, <2>1
  <2>3. \A k \in 1..Len(h) : w[h[1]] <= w[h[k]]
    BY <2>2, TopIsFirst
  <2> QED
    BY <2>1, <2>3
<1> QED
  BY <1>1, <1>2, <1>3, <1>4

\* The wait that EventLoop::Loop computes from the top of the heap, rounded down
\* to milliseconds, ends no later than any deadline that is still to come
\* (Timer.cpp:58-67).
THEOREM SleepsUpToDeadline == ~EarlierAdds => (Spec => []NeverOversleeps)
<1> SUFFICES ASSUME ~EarlierAdds PROVE Spec => []NeverOversleeps
  OBVIOUS
<1>1. TimerIInv => NeverOversleeps
  <2> SUFFICES ASSUME TimerIInv, NEW t \in InHeap, when[t] >= now
               PROVE  now + NextTimeout * TicksPerMs <= when[t]
    BY DEF NeverOversleeps
  <2>1. PICK r : r = when[Head(heap_)]
    OBVIOUS
  <2>2. /\ heap_ # <<>> /\ r <= when[t] /\ r \in Nat /\ when[t] \in Nat /\ now \in Nat
    BY <2>1, TopDueFirst
  <2>3. TicksPerMs \in Nat \ {0} /\ PollCap \in Nat
    BY TimerManagerAssumption
  <2>4. CASE r < now
    <3>1. NextTimeout = 0
      BY <2>1, <2>2, <2>3, <2>4 DEF NextTimeout
    <3> QED
      BY <2>2, <2>3, <3>1
  <2>5. CASE ~(r < now)
    <3>1. PICK a : a = r - now
      OBVIOUS
    <3>2. a \in Nat /\ now + a <= when[t]
      BY <2>2, <2>5, <3>1
    <3>3. PICK m : m = NextTimeout
      OBVIOUS
    <3>4. a \div TicksPerMs \in Nat
      BY <2>3, <3>2
    <3>5. m = IF a \div TicksPerMs < PollCap THEN a \div TicksPerMs ELSE PollCap
      BY <2>1, <2>2, <2>5, <3>1, <3>3 DEF NextTimeout
    <3>6. m \in Nat /\ m <= a \div TicksPerMs
      BY <2>3, <3>4, <3>5
    <3>7. m * TicksPerMs <= a
      BY <2>3, <3>2, <3>6, WholeMs
    <3>8. m * TicksPerMs \in Nat
      BY <2>3, <3>6
    <3> QED
      BY <2>2, <3>2, <3>3, <3>7, <3>8
  <2> QED
    BY <2>4, <2>5
<1> QED
  BY <1>1, TimerInvariant, PTL

\* When HandleExpired ends because the top is not due, nothing else is
\* (Timer.cpp:38-56).
THEOREM ExpiredHaveRun == ~EarlierAdds => (Spec => AllExpiredRun)
<1> SUFFICES ASSUME ~EarlierAdds PROVE Spec => AllExpiredRun
  OBVIOUS
<1> DEFINE Step == pc = "while" /\ pc' = "idle" =>
                       \A t \in InHeap : canceled[t] \/ when[t] > hnow
<1>1. TimerIInv /\ [Next]_vars => Step
  <2> SUFFICES ASSUME TimerIInv, [Next]_vars, pc = "while", pc' = "idle", NEW t \in InHeap
               PROVE  when[t] > hnow
    OBVIOUS
  <2>1. EndHandleExpired
    BY DEF Next, vars, AddTimerInLoop, AddTimerElsewhere, CancelInLoop, CancelElsewhere,
           RunQueued, BeginHandleExpired, PopCanceled, RunTop, CallbackReturns, Tick
  <2> QED
    BY <2>1, TopDueFirst DEF EndHandleExpired
<1>2. TimerIInv /\ [Next]_vars => [Step]_vars
  BY <1>1
<1> QED
  BY <1>2, TimerInvariant, PTL DEF Spec, AllExpiredRun

-----------------------------------------------------------------------------
(* Buffer.                                                                 *)

-----------------------------------------------------------------------------
(* Copies.                                                                 *)

\* What copying n bytes comes to, if every byte is read before it is written.
Moved(s, from, n, to) ==
    [m \in 1..Len(s) |-> IF m \in (to + 1)..(to + n) THEN s[from + (m - to)] ELSE s[m]]

\* It is so for std::copy to the front, after every byte ...
CopySteps(f, s, from, n, to) ==
    f = [i \in 0..n |->
            IF i = 0 THEN s ELSE [f[i - 1] EXCEPT ![to + i] = f[i - 1][from + i]]]

LEMMA CopyStep ==
    ASSUME NEW s \in Seq(Nat), NEW from \in Nat, NEW n \in Nat, NEW to \in Nat,
           to <= from, from + n <= Len(s), NEW i \in 1..n,
           NEW c, c = Moved(s, from, i - 1, to)
    PROVE  [c EXCEPT ![to + i] = c[from + i]] = Moved(s, from, i, to)
<1>1. c[from + i] = s[from + i] /\ to + i \in 1..Len(s)
  BY DEF Moved
<1>2. c = [m \in 1..Len(s) |-> c[m]]
  BY DEF Moved
<1>3. [c EXCEPT ![to + i] = c[from + i]]
        = [m \in 1..Len(s) |-> IF m = to + i THEN s[from + i] ELSE c[m]]
  BY <1>1, <1>2
<1>4. ASSUME NEW m \in 1..Len(s)
      PROVE  (IF m = to + i THEN s[from + i] ELSE c[m])
                = IF m \in (to + 1)..(to + i) THEN s[from + (m - to)] ELSE s[m]
  <2>1. CASE m = to + i
    <3>1. m \in (to + 1)..(to + i) /\ from + (m - to) = from + i
      BY <2>1
    <3> QED
      BY <2>1, <3>1
  <2>2. CASE m # to + i
    <3>1. m \in (to + 1)..(to + i) <=> m \in (to + 1)..(to + (i - 1))
      BY <2>2
    <3>2. c[m] = IF m \in (to + 1)..(to + (i - 1)) THEN s[from + (m - to)] ELSE s[m]
      BY DEF Moved
    <3> QED
      BY <2>2, <3>1, <3>2
  <2> QED
    BY <2>1, <2>2
<1> QED
  BY <1>3, <1>4 DEF Moved

LEMMA MovedNothing ==
    ASSUME NEW s \in Seq(Nat), NEW from \in Nat, NEW to \in Nat
    PROVE  Moved(s, from, 0, to) = s
<1>1. s = [m \in 1..Len(s) |-> s[m]]
  OBVIOUS
<1>2. ASSUME NEW m \in 1..Len(s) PROVE ~(m \in (to + 1)..(to + 0))
  OBVIOUS
<1> QED
  BY <1>1, <1>2 DEF Moved

LEMMA CopyMoves ==
    ASSUME NEW s \in Seq(Nat), NEW from \in Nat, NEW n \in Nat, NEW to \in Nat,
           to <= from, from + n <= Len(s)
    PROVE  Copy(s, from, n, to) = Moved(s, from, n, to)
<1> DEFINE g == [i \in 0..n |-> Moved(s, from, i, to)]
           f == CHOOSE f : CopySteps(f, s, from, n, to)
           P == {i \in 0..n : f[i] = Moved(s, from, i, to)}
<1>1. CopySteps(g, s, from, n, to)
  <2>1. ASSUME NEW i \in 0..n
        PROVE  Moved(s, from, i, to)
                 = IF i = 0 THEN s ELSE [g[i - 1] EXCEPT ![to + i] = g[i - 1][from + i]]
    <3>1. CASE i = 0
      BY <3>1, MovedNothing
    <3>2. CASE i # 0
      <4>1. i \in 1..n /\ i - 1 \in 0..n
        BY <3>2
      <4>2. PICK c : c = Moved(s, from, i - 1, to)
        OBVIOUS
      <4>3. g[i - 1] = c
        BY <4>1, <4>2
      <4>4. [c EXCEPT ![to + i] = c[from + i]] = Moved(s, from, i, to)
        BY <4>1, <4>2, CopyStep
      <4> HIDE DEF g
      <4> QED
        BY <3>2, <4>3, <4>4
    <3> QED
      BY <3>1, <3>2
  <2>2. g = [i \in 0..n |-> Moved(s, from, i, to)]
    OBVIOUS
  <2> HIDE DEF g
  <2> QED
    BY <2>1, <2>2 DEF CopySteps
<1>2. CopySteps(f, s, from, n, to)
  BY <1>1
<1>3. Copy(s, from, n, to) = f[n]
  BY DEF Copy, CopySteps
<1> HIDE DEF f, g
<1>4. 0 \in P
  BY <1>2, MovedNothing DEF CopySteps
<1>5. ASSUME NEW i \in 1..n, i - 1 \in P PROVE i \in P
  <2>1. PICK c : c = f[i - 1]
    OBVIOUS
  <2>2. c = Moved(s, from, i - 1, to)
    BY <1>5, <2>1
  <2>3. f[i] = [c EXCEPT ![to + i] = c[from + i]]
    <3>1. i \in 0..n /\ i # 0
      OBVIOUS
    <3> QED
      BY <1>2, <2>1, <3>1 DEF CopySteps
  <2>4. f[i] = Moved(s, from, i, to)
    BY <2>2, <2>3, CopyStep
  <2> QED
    BY <2>4
<1>6. n \in P
  <2> HIDE DEF P
  <2>1. \A k \in 0..n : k \in P
    BY <1>4, <1>5, InductionUpTo
  <2> QED
    BY <2>1
<1> QED
  BY <1>3, <1>6

\* ... and for std::copy_backward to the back; i bytes are done.
MovedBack(s, from, n, to, i) ==
    [m \in 1..Len(s) |->
        IF m \in (to + n + 1 - i)..(to + n) THEN s[from + (m - to)] ELSE s[m]]

OneBack(c, from, n, to, i) == [c EXCEPT ![to + n + 1 - i] = c[from + n + 1 - i]]

CopyBackwardSteps(f, s, from, n, to) ==
    f = [i \in 0..n |-> IF i = 0 THEN s ELSE OneBack(f[i - 1], from, n, to, i)]

LEMMA CopyBackwardStep ==
    ASSUME NEW s \in Seq(Nat), NEW from \in Nat, NEW n \in Nat, NEW to \in Nat,
           from <= to, to + n <= Len(s), NEW i \in 1..n,
           NEW c, c = MovedBack(s, from, n, to, i - 1)
    PROVE  OneBack(c, from, n, to, i) = MovedBack(s, from, n, to, i)
<1>0. PICK k, l : k = to + n + 1 - i /\ l = from + n + 1 - i
  OBVIOUS
<1>1. k \in 1..Len(s) /\ l \in 1..Len(s) /\ l <= k /\ k = to + (l - from) /\ l = from + (k - to)
  BY <1>0
<1>2. c[l] = s[l]
  BY <1>0, <1>1 DEF MovedBack
<1>3. c = [m \in 1..Len(s) |-> c[m]]
  BY DEF MovedBack
<1>4. [c EXCEPT ![k] = c[l]] = [m \in 1..Len(s) |-> IF m = k THEN s[l] ELSE c[m]]
  BY <1>1, <1>2, <1>3
<1>5. ASSUME NEW m \in 1..Len(s)
      PROVE  (IF m = k THEN s[l] ELSE c[m])
                = IF m \in (to + n + 1 - i)..(to + n) THEN s[from + (m - to)] ELSE s[m]
  <2>1. CASE m = k
    <3>1. m \in (to + n + 1 - i)..(to + n) /\ from + (m - to) = l
      BY <1>0, <1>1, <2>1
    <3> QED
      BY <2>1, <3>1
  <2>2. CASE m # k
    <3>1. m \in (to + n + 1 - i)..(to + n) <=> m \in (to + n + 1 - (i - 1))..(to + n)
      BY <1>0, <2>2
    <3>2. c[m] = IF m \in (to + n + 1 - (i - 1))..(to + n) THEN s[from + (m - to)] ELSE s[m]
      BY DEF MovedBack
    <3> QED
      BY <2>2, <3>1, <3>2
  <2> QED
    BY <2>1, <2>2
<1> QED
  BY <1>0, <1>4, <1>5 DEF MovedBack, OneBack

LEMMA MovedBackNothing ==
    ASSUME NEW s \in Seq(Nat), NEW from \in Nat, NEW n \in Nat, NEW to \in Nat
    PROVE  MovedBack(s, from, n, to, 0) = s
<1>1. s = [m \in 1..Len(s) |-> s[m]]
  OBVIOUS
<1>2. ASSUME NEW m \in 1..Len(s) PROVE ~(m \in (to + n + 1 - 0)..(to + n))
  OBVIOUS
<1> QED
  BY <1>1, <1>2 DEF MovedBack

LEMMA CopyBackwardMoves ==
    ASSUME NEW s \in Seq(Nat), NEW from \in Nat, NEW n \in Nat, NEW to \in Nat,
           from <= to, to + n <= Len(s)
    PROVE  CopyBackward(s, from, n, to) = Moved(s, from, n, to)
<1> DEFINE g == [i \in 0..n |-> MovedBack(s, from, n, to, i)]
           f == CHOOSE f : CopyBackwardSteps(f, s, from, n, to)
           P == {i \in 0..n : f[i] = MovedBack(s, from, n, to, i)}
<1>1. CopyBackwardSteps(g, s, from, n, to)
  <2>1. ASSUME NEW i \in 0..n
        PROVE  MovedBack(s, from, n, to, i)
                 = IF i = 0 THEN s
                   ELSE OneBack(g[i - 1], from, n, to, i)
    <3>1. CASE i = 0
      BY <3>1, MovedBackNothing
    <3>2. CASE i # 0
      <4>1. i \in 1..n /\ i - 1 \in 0..n
        BY <3>2
      <4>2. PICK c : c = MovedBack(s, from, n, to, i - 1)
        OBVIOUS
      <4>3. g[i - 1] = c
        BY <4>1, <4>2
      <4>4. OneBack(c, from, n, to, i) = MovedBack(s, from, n, to, i)
        BY <4>1, <4>2, CopyBackwardStep
      <4> HIDE DEF g
      <4> QED
        BY <3>2, <4>3, <4>4
    <3> QED
      BY <3>1, <3>2
  <2>2. g = [i \in 0..n |-> MovedBack(s, from, n, to, i)]
    OBVIOUS
  <2> HIDE DEF g
  <2> QED
    BY <2>1, <2>2 DEF CopyBackwardSteps
<1>2. CopyBackwardSteps(f, s, from, n, to)
  BY <1>1
<1>3. CopyBackward(s, from, n, to) = f[n]
  BY DEF CopyBackward, CopyBackwardSteps, OneBack
<1> HIDE DEF f, g
<1>4. 0 \in P
  BY <1>2, MovedBackNothing DEF CopyBackwardSteps
<1>5. ASSUME NEW i \in 1..n, i - 1 \in P PROVE i \in P
  <2>1. PICK c : c = f[i - 1]
    OBVIOUS
  <2>2. c = MovedBack(s, from, n, to, i - 1)
    BY <1>5, <2>1
  <2>3. f[i] = OneBack(c, from, n, to, i)
    <3>1. i \in 0..n /\ i # 0
      OBVIOUS
    <3> QED
      BY <1>2, <2>1, <3>1 DEF CopyBackwardSteps
  <2>4. f[i] = MovedBack(s, from, n, to, i)
    BY <2>2, <2>3, CopyBackwardStep
  <2> QED
    BY <2>4
<1>6. n \in P
  <2> HIDE DEF P
  <2>1. \A k \in 0..n : k \in P
    BY <1>4, <1>5, InductionUpTo
  <2> QED
    BY <2>1
<1>7. MovedBack(s, from, n, to, n) = Moved(s, from, n, to)
  <2>1. to + n + 1 - n = to + 1
    OBVIOUS
  <2> QED
    BY <2>1 DEF MovedBack, Moved
<1> QED
  BY <1>3, <1>6, <1>7

-----------------------------------------------------------------------------
(* What the helpers on vectors return.                                     *)

IsMoved(t, s, from, n, to) ==
    /\ t \in Seq(Nat) /\ Len(t) = Len(s)
    /\ \A i \in 1..n : t[to + i] = s[from + i]

LEMMA MovedBytes ==
    ASSUME NEW s \in Seq(Nat), NEW from \in Nat, NEW n \in Nat, NEW to \in Nat,
           from + n <= Len(s), to + n <= Len(s)
    PROVE  IsMoved(Moved(s, from, n, to), s, from, n, to)
<1>0. PICK t : t = Moved(s, from, n, to)
  OBVIOUS
<1>1. ASSUME NEW m \in 1..Len(s), m \in (to + 1)..(to + n) PROVE s[from + (m - to)] \in Nat
  BY <1>1
<1>2. t \in Seq(Nat) /\ Len(t) = Len(s)
  BY <1>0, <1>1 DEF Moved
<1>3. ASSUME NEW i \in 1..n PROVE t[to + i] = s[from + i]
  <2>1. to + i \in 1..Len(s) /\ to + i \in (to + 1)..(to + n) /\ from + ((to + i) - to) = from + i
    OBVIOUS
  <2> QED
    BY <1>0, <2>1 DEF Moved
<1> QED
  BY <1>0, <1>2, <1>3 DEF IsMoved

IsResized(t, s, n) ==
    /\ t \in Seq(Nat) /\ Len(t) = n
    /\ \A i \in 1..n : i <= Len(s) => t[i] = s[i]

LEMMA ResizedBytes ==
    ASSUME NEW s \in Seq(Nat), NEW n \in Nat
    PROVE  IsResized(Resize(s, n), s, n)
BY DEF Resize, IsResized

IsPut(t, s, at, d) ==
    /\ t \in Seq(Nat) /\ Len(t) = Len(s)
    /\ \A i \in 1..Len(d) : t[at + i] = d[i]
    /\ \A i \in 1..Len(s) : i <= at \/ i > at + Len(d) => t[i] = s[i]

LEMMA PutBytes ==
    ASSUME NEW s \in Seq(Nat), NEW at \in Nat, NEW d \in Seq(Nat), at + Len(d) <= Len(s)
    PROVE  IsPut(Put(s, at, d), s, at, d)
<1>0. PICK t : t = Put(s, at, d)
  OBVIOUS
<1>1. ASSUME NEW m \in 1..Len(s), m \in (at + 1)..(at + Len(d)) PROVE d[m - at] \in Nat
  BY <1>1
<1>2. t \in Seq(Nat) /\ Len(t) = Len(s)
  BY <1>0, <1>1 DEF Put
<1>3. ASSUME NEW i \in 1..Len(d) PROVE t[at + i] = d[i]
  <2>1. at + i \in 1..Len(s) /\ at + i \in (at + 1)..(at + Len(d)) /\ (at + i) - at = i
    OBVIOUS
  <2> QED
    BY <1>0, <2>1 DEF Put
<1>4. ASSUME NEW i \in 1..Len(s), i <= at \/ i > at + Len(d) PROVE t[i] = s[i]
  <2>1. ~(i \in (at + 1)..(at + Len(d)))
    BY <1>4
  <2> QED
    BY <1>0, <2>1 DEF Put
<1> QED
  BY <1>0, <1>2, <1>3, <1>4 DEF IsPut

-----------------------------------------------------------------------------
(* The operations.                                                         *)

Buffers == [buffer : Seq(Nat), read : Nat, write : Nat]

\* The bytes of q are those between the indices r and w of s, and there is room
\* for kPrependSize bytes, where the indices go when the buffer gets empty.
Between(s, r, w, q) ==
    /\ s \in Seq(Nat) /\ r \in Nat /\ w \in Nat /\ q \in Seq(Nat)
    /\ r <= w /\ w <= Len(s) /\ kPrependSize <= Len(s)
    /\ Len(q) = w - r
    /\ \A i \in 1..Len(q) : q[i] = s[r + i]

Holds(x, q) == x \in Buffers /\ Between(x.buffer, x.read, x.write, q)

LEMMA HoldsRecord ==
    ASSUME NEW s, NEW r, NEW w, NEW q, Between(s, r, w, q),
           NEW x, x = [buffer |-> s, read |-> r, write |-> w]
    PROVE  Holds(x, q)
<1>1. s \in Seq(Nat) /\ r \in Nat /\ w \in Nat
  BY DEF Between
<1>2. x \in Buffers
  BY <1>1 DEF Buffers
<1>3. x.buffer = s /\ x.read = r /\ x.write = w
  OBVIOUS
<1> QED
  BY <1>2, <1>3 DEF Holds

LEMMA HoldsParts ==
    ASSUME NEW x, NEW q, Holds(x, q)
    PROVE  \E s, r, w : /\ Between(s, r, w, q)
                        /\ x = [buffer |-> s, read |-> r, write |-> w]
                        /\ x.buffer = s /\ x.read = r /\ x.write = w
BY DEF Holds, Buffers

\* m bytes behind the first k.
IsPart(t, s, k, m) ==
    /\ t \in Seq(Nat) /\ Len(t) = m
    /\ \A i \in 1..m : t[i] = s[k + i]

LEMMA Part ==
    ASSUME NEW s \in Seq(Nat), NEW k \in Nat, NEW m \in Nat, k + m <= Len(s),
           NEW f, NEW l, f = k + 1, l = k + m
    PROVE  IsPart(SubSeq(s, f, l), s, k, m)
<1>1. PICK t : t = SubSeq(s, f, l)
  OBVIOUS
<1>2. f \in Int /\ l \in Int /\ f >= 1 /\ l <= Len(s) /\ l - f + 1 = m
  OBVIOUS
<1>3. \A i \in f..l : s[i] \in Nat
  BY <1>2
<1>4. /\ t \in Seq(Nat) /\ Len(t) = (IF f <= l THEN l - f + 1 ELSE 0)
      /\ \A i \in 1..(l - f + 1) : t[i] = s[f + i - 1]
  BY <1>1, <1>2, <1>3, SubSeqProperties
<1>5. Len(t) = m
  BY <1>1, <1>2, <1>4
<1>6. ASSUME NEW i \in 1..m PROVE t[i] = s[k + i]
  <2>1. f + i - 1 = k + i
    OBVIOUS
  <2> QED
    BY <1>2, <1>4, <2>1
<1> QED
  BY <1>1, <1>4, <1>5, <1>6 DEF IsPart

\* Bytes() gives what is held.
LEMMA HoldsBytes ==
    ASSUME NEW x, NEW q, Holds(x, q)
    PROVE  x.read <= x.write /\ x.write <= Len(x.buffer) /\ Bytes(x) = q
<1>1. PICK s, r, w : /\ Between(s, r, w, q)
                     /\ x.buffer = s /\ x.read = r /\ x.write = w
  BY HoldsParts
<1>2. /\ s \in Seq(Nat) /\ r \in Nat /\ w \in Nat /\ q \in Seq(Nat)
      /\ r <= w /\ w <= Len(s) /\ Len(q) = w - r
      /\ \A i \in 1..Len(q) : q[i] = s[r + i]
  BY <1>1 DEF Between
<1>3. PICK y : y = SubSeq(s, r + 1, w)
  OBVIOUS
<1>4. y \in Seq(Nat) /\ Len(y) = Len(q) /\ \A i \in 1..Len(q) : y[i] = s[r + i]
  <2>1. PICK m : m = w - r
    OBVIOUS
  <2>2. m \in Nat /\ w = r + m /\ r + m <= Len(s) /\ Len(q) = m
    BY <1>2, <2>1
  <2>3. IsPart(y, s, r, m)
    BY <1>2, <1>3, <2>2, Part
  <2> QED
    BY <2>2, <2>3 DEF IsPart
<1>5. y = q
  BY <1>2, <1>4, SeqEqual
<1> QED
  BY <1>1, <1>2, <1>3, <1>5 DEF Bytes

\* Release() (Buffer.cpp:13-29).
LEMMA ReleaseHolds ==
    ASSUME NEW x, NEW q, Holds(x, q), NEW len \in Nat, len <= Readable(x)
    PROVE  Holds(Release(x, len), SubSeq(q, len + 1, Len(q)))
<1> USE BufferAssumption
<1>1. PICK s, r, w : /\ Between(s, r, w, q)
                     /\ x = [buffer |-> s, read |-> r, write |-> w]
                     /\ x.buffer = s /\ x.read = r /\ x.write = w
  BY HoldsParts
<1>2. /\ s \in Seq(Nat) /\ r \in Nat /\ w \in Nat /\ q \in Seq(Nat)
      /\ r <= w /\ w <= Len(s) /\ kPrependSize <= Len(s) /\ Len(q) = w - r
      /\ \A i \in 1..Len(q) : q[i] = s[r + i]
  BY <1>1 DEF Between
<1>3. len <= w - r
  BY <1>1 DEF Readable
<1>4. PICK p : p = SubSeq(q, len + 1, Len(q))
  OBVIOUS
<1>5. p \in Seq(Nat) /\ Len(p) = (w - r) - len /\ \A i \in 1..Len(p) : p[i] = q[len + i]
  <2>1. PICK m : m = (w - r) - len
    OBVIOUS
  <2>2. m \in Nat /\ Len(q) = len + m
    BY <1>2, <1>3, <2>1
  <2>3. len + m <= Len(q)
    BY <2>2
  <2>4. IsPart(p, q, len, m)
    BY <1>2, <1>4, <2>2, <2>3, Part
  <2> QED
    BY <2>1, <2>4 DEF IsPart
<1>6. CASE len < w - r
  <2>1. Between(s, r + len, w, p)
    <3>1. ASSUME NEW i \in 1..Len(p) PROVE p[i] = s[(r + len) + i]
      <4>1. len + i \in 1..Len(q) /\ r + (len + i) = (r + len) + i
        BY <1>2, <1>3, <1>5
      <4> QED
        BY <1>2, <1>5, <4>1
    <3>2. r + len \in Nat /\ r + len <= w /\ Len(p) = w - (r + len)
      BY <1>2, <1>3, <1>5
    <3> QED
      BY <1>2, <1>5, <3>1, <3>2 DEF Between
  <2>2. Release(x, len) = [buffer |-> s, read |-> r + len, write |-> w]
    BY <1>1, <1>6 DEF Release, Readable
  <2> QED
    BY <1>4, <2>1, <2>2, HoldsRecord
<1>7. CASE ~(len < w - r)
  <2>1. Between(s, kPrependSize, kPrependSize, p)
    <3>1. (w - r) - len = 0
      BY <1>2, <1>3, <1>7
    <3>2. p \in Seq(Nat) /\ Len(p) = 0
      BY <1>5, <3>1
    <3>3. 1..Len(p) = {}
      BY <3>2
    <3>4. kPrependSize \in Nat /\ kPrependSize - kPrependSize = 0
      BY BufferAssumption
    <3> QED
      BY <1>2, <3>2, <3>3, <3>4 DEF Between
  <2>2. Release(x, len) = [buffer |-> s, read |-> kPrependSize, write |-> kPrependSize]
    BY <1>1, <1>7 DEF Release, Readable
  <2> QED
    BY <1>4, <2>1, <2>2, HoldsRecord
<1> QED
  BY <1>6, <1>7

\* UnWrite() takes bytes from the end.
LEMMA UnWriteHolds ==
    ASSUME NEW x, NEW q, Holds(x, q), NEW len \in Nat, len <= Readable(x)
    PROVE  Holds(UnWrite(x, len), SubSeq(q, 1, Len(q) - len))
<1>1. PICK s, r, w : /\ Between(s, r, w, q)
                     /\ x = [buffer |-> s, read |-> r, write |-> w]
                     /\ x.buffer = s /\ x.read = r /\ x.write = w
  BY HoldsParts
<1>2. /\ s \in Seq(Nat) /\ r \in Nat /\ w \in Nat /\ q \in Seq(Nat)
      /\ r <= w /\ w <= Len(s) /\ kPrependSize <= Len(s) /\ Len(q) = w - r
      /\ \A i \in 1..Len(q) : q[i] = s[r + i]
  BY <1>1 DEF Between
<1>3. len <= w - r
  BY <1>1 DEF Readable
<1>4. PICK p : p = SubSeq(q, 1, Len(q) - len)
  OBVIOUS
<1>5. p \in Seq(Nat) /\ Len(p) = (w - len) - r /\ \A i \in 1..Len(p) : p[i] = q[i]
  <2>1. PICK m : m = (w - len) - r
    OBVIOUS
  <2>2. m \in Nat /\ Len(q) - len = m /\ 0 + m <= Len(q) /\ 0 + 1 = 1 /\ 0 + m = m
    BY <1>2, <1>3, <2>1
  <2>3. IsPart(p, q, 0, m)
    BY <1>2, <1>4, <2>2, Part
  <2>4. \A i \in 1..m : 0 + i = i
    BY <2>2
  <2> QED
    BY <2>1, <2>3, <2>4 DEF IsPart
<1>6. Between(s, r, w - len, p)
  <2>1. ASSUME NEW i \in 1..Len(p) PROVE p[i] = s[r + i]
    <3>1. i \in 1..Len(q)
      BY <1>2, <1>3, <1>5
    <3> QED
      BY <1>2, <1>5, <3>1
  <2> QED
    BY <1>2, <1>3, <1>5, <2>1 DEF Between
<1>7. UnWrite(x, len) = [buffer |-> s, read |-> r, write |-> w - len]
  BY <1>1 DEF UnWrite
<1> QED
  BY <1>4, <1>6, <1>7, HoldsRecord

\* Two pieces that lie side by side.
LEMMA BetweenJoin ==
    ASSUME NEW s, NEW r, NEW k, NEW w, NEW p, NEW q, NEW t,
           Between(s, r, k, p), Between(s, k, w, q), t = p \o q
    PROVE  Between(s, r, w, t)
<1>1. /\ s \in Seq(Nat) /\ r \in Nat /\ k \in Nat /\ w \in Nat
      /\ p \in Seq(Nat) /\ q \in Seq(Nat)
      /\ r <= k /\ k <= w /\ w <= Len(s) /\ kPrependSize <= Len(s)
      /\ Len(p) = k - r /\ Len(q) = w - k
      /\ \A i \in 1..Len(p) : p[i] = s[r + i]
      /\ \A i \in 1..Len(q) : q[i] = s[k + i]
  BY DEF Between
<1>2. p \in Seq(Nat) /\ q \in Seq(Nat)
  BY <1>1
<1>3. /\ t \in Seq(Nat) /\ Len(t) = Len(p) + Len(q)
      /\ \A i \in 1..(Len(p) + Len(q)) :
            t[i] = IF i <= Len(p) THEN p[i] ELSE q[i - Len(p)]
  BY <1>2, ConcatProperties
<1>4. Len(t) = w - r /\ r <= w
  BY <1>1, <1>3
<1>5. ASSUME NEW i \in 1..Len(t) PROVE t[i] = s[r + i]
  <2>1. CASE i <= Len(p)
    <3>1. i \in 1..Len(p) /\ i \in 1..(Len(p) + Len(q))
      BY <1>1, <1>3, <2>1
    <3> QED
      BY <1>1, <1>3, <2>1, <3>1
  <2>2. CASE ~(i <= Len(p))
    <3>1. i - Len(p) \in 1..Len(q) /\ k + (i - Len(p)) = r + i /\ i \in 1..(Len(p) + Len(q))
      BY <1>1, <1>3, <2>2
    <3> QED
      BY <1>1, <1>3, <2>2, <3>1
  <2> QED
    BY <2>1, <2>2
<1> QED
  BY <1>1, <1>3, <1>4, <1>5 DEF Between

\* Another vector with the same bytes there.
LEMMA BetweenKept ==
    ASSUME NEW s, NEW r, NEW w, NEW q, Between(s, r, w, q),
           NEW t \in Seq(Nat), w <= Len(t), kPrependSize <= Len(t),
           \A i \in 1..Len(s) : i > r /\ i <= w => t[i] = s[i]
    PROVE  Between(t, r, w, q)
<1>1. /\ s \in Seq(Nat) /\ r \in Nat /\ w \in Nat /\ q \in Seq(Nat)
      /\ r <= w /\ w <= Len(s) /\ Len(q) = w - r
      /\ \A i \in 1..Len(q) : q[i] = s[r + i]
  BY DEF Between
<1>2. ASSUME NEW i \in 1..Len(q) PROVE q[i] = t[r + i]
  <2>1. r + i \in 1..Len(s) /\ r + i > r /\ r + i <= w
    <3>1. /\ Len(s) \in Nat /\ r \in Nat /\ w \in Nat /\ w <= Len(s)
          /\ i \in 1..(w - r)
      BY <1>1
    <3> QED
      BY <3>1
  <2> QED
    BY <1>1, <2>1
<1> QED
  BY <1>1, <1>2 DEF Between

\* Bytes put behind the others, where there is room for them.
Appended(x, d) == [x EXCEPT !.buffer = Put(@, x.write, d), !.write = @ + Len(d)]

LEMMA PutHolds ==
    ASSUME NEW x, NEW q, Holds(x, q), NEW d \in Seq(Nat), Len(d) <= Writable(x)
    PROVE  Holds(Appended(x, d), q \o d)
<1> USE BufferAssumption
<1>1. PICK s, r, w : /\ Between(s, r, w, q)
                     /\ x = [buffer |-> s, read |-> r, write |-> w]
                     /\ x.buffer = s /\ x.read = r /\ x.write = w
  BY HoldsParts
<1>2. /\ s \in Seq(Nat) /\ r \in Nat /\ w \in Nat /\ r <= w /\ w <= Len(s)
      /\ kPrependSize <= Len(s)
  BY <1>1 DEF Between
<1>3. PICK v : v = w + Len(d)
  OBVIOUS
<1>4. v \in Nat /\ w <= v /\ v <= Len(s) /\ Len(d) = v - w /\ w + Len(d) <= Len(s)
  BY <1>1, <1>2, <1>3 DEF Writable
<1>5. PICK t : t = Put(s, w, d)
  OBVIOUS
<1>6. /\ t \in Seq(Nat) /\ Len(t) = Len(s)
      /\ \A i \in 1..Len(d) : t[w + i] = d[i]
      /\ \A i \in 1..Len(s) : i <= w \/ i > w + Len(d) => t[i] = s[i]
  <2>1. IsPut(t, s, w, d)
    BY <1>2, <1>4, <1>5, PutBytes
  <2> QED
    BY <2>1 DEF IsPut
<1>7. Between(t, r, w, q)
  <2>1. \A i \in 1..Len(s) : i > r /\ i <= w => t[i] = s[i]
    BY <1>6
  <2>2. w <= Len(t) /\ kPrependSize <= Len(t)
    BY <1>2, <1>6
  <2> QED
    BY <1>1, <1>6, <2>1, <2>2, BetweenKept
<1>8. Between(t, w, v, d)
  BY <1>2, <1>4, <1>6 DEF Between
<1>9. PICK p : p = q \o d
  OBVIOUS
<1>10. Between(t, r, v, p)
  BY <1>7, <1>8, <1>9, BetweenJoin
<1>11. Appended(x, d) = [buffer |-> t, read |-> r, write |-> v]
  <2>1. Put(x.buffer, x.write, d) = t /\ x.write + Len(d) = v
    BY <1>1, <1>3, <1>5
  <2>2. Appended(x, d) = [x EXCEPT !.buffer = t, !.write = v]
    BY <2>1 DEF Appended
  <2>3. PICK y : y = [x EXCEPT !.buffer = t, !.write = v]
    OBVIOUS
  <2>4. x \in Buffers /\ t \in Seq(Nat) /\ v \in Nat
    BY <1>4, <1>6 DEF Holds
  <2>5. y \in Buffers
    BY <2>3, <2>4 DEF Buffers
  <2>6. y.buffer = t /\ y.read = r /\ y.write = v
    BY <1>1, <2>3, <2>4 DEF Buffers
  <2>7. y = [buffer |-> t, read |-> r, write |-> v]
    BY <2>5, <2>6 DEF Buffers
  <2> QED
    BY <2>2, <2>3, <2>7
<1> QED
  BY <1>9, <1>10, <1>11, HoldsRecord

\* Prepend() (Buffer.cpp:48-53).
LEMMA PrependHolds ==
    ASSUME NEW x, NEW q, Holds(x, q), NEW d \in Seq(Nat), Len(d) <= Prependable(x)
    PROVE  Holds(Prepend(x, d), d \o q)
<1>1. PICK s, r, w : /\ Between(s, r, w, q)
                     /\ x = [buffer |-> s, read |-> r, write |-> w]
                     /\ x.buffer = s /\ x.read = r /\ x.write = w
  BY HoldsParts
<1>2. /\ s \in Seq(Nat) /\ r \in Nat /\ w \in Nat /\ r <= w /\ w <= Len(s)
      /\ kPrependSize <= Len(s)
  BY <1>1 DEF Between
<1>3. PICK v : v = r - Len(d)
  OBVIOUS
<1>4. v \in Nat /\ v <= r /\ v <= Len(s) /\ Len(d) = r - v /\ v + Len(d) = r
      /\ v + Len(d) <= Len(s)
  BY <1>1, <1>2, <1>3 DEF Prependable
<1>5. PICK t : t = Put(s, v, d)
  OBVIOUS
<1>6. /\ t \in Seq(Nat) /\ Len(t) = Len(s)
      /\ \A i \in 1..Len(d) : t[v + i] = d[i]
      /\ \A i \in 1..Len(s) : i <= v \/ i > v + Len(d) => t[i] = s[i]
  <2>1. IsPut(t, s, v, d)
    BY <1>2, <1>4, <1>5, PutBytes
  <2> QED
    BY <2>1 DEF IsPut
<1>7. Between(t, r, w, q)
  <2>1. \A i \in 1..Len(s) : i > r /\ i <= w => t[i] = s[i]
    BY <1>4, <1>6
  <2>2. w <= Len(t) /\ kPrependSize <= Len(t)
    BY <1>2, <1>6
  <2> QED
    BY <1>1, <1>6, <2>1, <2>2, BetweenKept
<1>8. Between(t, v, r, d)
  <2>1. r <= Len(t) /\ kPrependSize <= Len(t)
    BY <1>2, <1>6
  <2>2. \A i \in 1..Len(d) : d[i] = t[v + i]
    BY <1>6
  <2> QED
    BY <1>2, <1>4, <1>6, <2>1, <2>2 DEF Between
<1>9. PICK p : p = d \o q
  OBVIOUS
<1>10. Between(t, v, w, p)
  BY <1>7, <1>8, <1>9, BetweenJoin
<1>11. Prepend(x, d) = [buffer |-> t, read |-> v, write |-> w]
  <2>1. Put(x.buffer, x.read - Len(d), d) = t /\ x.read - Len(d) = v
    BY <1>1, <1>3, <1>5
  <2>2. Prepend(x, d) = [x EXCEPT !.read = v, !.buffer = t]
    BY <2>1 DEF Prepend
  <2>3. PICK y : y = [x EXCEPT !.read = v, !.buffer = t]
    OBVIOUS
  <2>4. x \in Buffers /\ t \in Seq(Nat) /\ v \in Nat
    BY <1>4, <1>6 DEF Holds
  <2>5. y \in Buffers
    BY <2>3, <2>4 DEF Buffers
  <2>6. y.buffer = t /\ y.read = v /\ y.write = w
    BY <1>1, <2>3, <2>4 DEF Buffers
  <2>7. y = [buffer |-> t, read |-> v, write |-> w]
    BY <2>5, <2>6 DEF Buffers
  <2> QED
    BY <2>2, <2>3, <2>7
<1> QED
  BY <1>9, <1>10, <1>11, HoldsRecord

\* AlignPrepend(): the bytes are at kPrependSize, in room enough (Buffer.cpp:64-89).
LEMMA AlignPrependHolds ==
    ASSUME NEW x, NEW q, Holds(x, q)
    PROVE  Holds(AlignPrepend(x), q) /\ AlignPrepend(x).read = kPrependSize
<1> DEFINE n == Readable(x)
<1>0. kPrependSize \in Nat
  BY BufferAssumption
<1>1. PICK s, r, w : /\ Between(s, r, w, q)
                     /\ x = [buffer |-> s, read |-> r, write |-> w]
                     /\ x.buffer = s /\ x.read = r /\ x.write = w
  BY HoldsParts
<1>2. /\ s \in Seq(Nat) /\ r \in Nat /\ w \in Nat /\ r <= w /\ w <= Len(s)
      /\ kPrependSize <= Len(s) /\ q \in Seq(Nat) /\ Len(q) = w - r
      /\ \A i \in 1..Len(q) : q[i] = s[r + i]
  BY <1>1 DEF Between
<1>3. n = w - r /\ n \in Nat /\ r + n = w /\ Len(q) = n
  BY <1>1, <1>2 DEF Readable
<1> HIDE DEF n
<1>4. PICK v, e : v = kPrependSize + n /\ e = n + kPrependSize
  OBVIOUS
<1>5. v \in Nat /\ e \in Nat /\ e = v /\ kPrependSize <= v /\ n = v - kPrependSize
  BY <1>0, <1>3, <1>4
<1>6. ASSUME NEW z \in Seq(Nat), v <= Len(z), w <= Len(z),
             \A i \in 1..Len(s) : z[i] = s[i]
      PROVE  Between(Moved(z, r, n, kPrependSize), kPrependSize, v, q)
  <2>1. PICK t : t = Moved(z, r, n, kPrependSize)
    OBVIOUS
  <2>2. IsMoved(t, z, r, n, kPrependSize)
    BY <1>0, <1>2, <1>3, <1>4, <1>6, <2>1, MovedBytes
  <2>3. t \in Seq(Nat) /\ Len(t) = Len(z) /\ \A i \in 1..n : t[kPrependSize + i] = z[r + i]
    BY <2>2 DEF IsMoved
  <2>4. ASSUME NEW i \in 1..Len(q) PROVE q[i] = t[kPrependSize + i]
    <3>1. i \in 1..n /\ r + i \in 1..Len(s)
      BY <1>2, <1>3
    <3>2. q[i] = s[r + i]
      BY <1>2
    <3> QED
      BY <1>6, <2>3, <3>1, <3>2
  <2>5. v <= Len(t) /\ kPrependSize <= Len(t)
    BY <1>0, <1>5, <1>6, <2>3
  <2> QED
    BY <1>0, <1>2, <1>3, <1>5, <2>1, <2>3, <2>4, <2>5 DEF Between
<1>7. CASE r = kPrependSize
  BY <1>1, <1>7 DEF AlignPrepend
<1>8. CASE r < kPrependSize
  <2>1. PICK z : z = IF Len(s) < e THEN Resize(s, e) ELSE s
    OBVIOUS
  <2>2. z \in Seq(Nat) /\ v <= Len(z) /\ w <= Len(z) /\ \A i \in 1..Len(s) : z[i] = s[i]
    <3>1. CASE Len(s) < e
      <4>1. IsResized(z, s, e)
        BY <1>2, <1>5, <2>1, <3>1, ResizedBytes
      <4>2. z \in Seq(Nat) /\ Len(z) = e /\ \A i \in 1..e : i <= Len(s) => z[i] = s[i]
        BY <4>1 DEF IsResized
      <4>3. \A i \in 1..Len(s) : i \in 1..e /\ i <= Len(s)
        BY <1>2, <1>5, <3>1
      <4>4. v <= Len(z) /\ w <= Len(z)
        BY <1>2, <1>5, <3>1, <4>2
      <4> QED
        BY <4>2, <4>3, <4>4
    <3>2. CASE ~(Len(s) < e)
      BY <1>2, <1>5, <2>1, <3>2
    <3> QED
      BY <3>1, <3>2
  <2>3. PICK t : t = Moved(z, r, n, kPrependSize)
    OBVIOUS
  <2>4. CopyBackward(z, r, n, kPrependSize) = t
    <3>1. r <= kPrependSize /\ kPrependSize + n <= Len(z)
      BY <1>0, <1>2, <1>4, <1>8, <2>2
    <3> QED
      BY <1>0, <1>2, <1>3, <2>2, <2>3, <3>1, CopyBackwardMoves
  <2>5. Between(t, kPrependSize, v, q)
    BY <1>6, <2>2, <2>3
  <2>6. r # kPrependSize
    BY <1>0, <1>2, <1>8
  <2>7. AlignPrepend(x) = [buffer |-> t, read |-> kPrependSize, write |-> v]
    BY <1>1, <1>4, <1>8, <2>1, <2>4, <2>6 DEF AlignPrepend, n
  <2> QED
    BY <2>5, <2>7, HoldsRecord
<1>9. CASE kPrependSize < r
  <2>1. v <= Len(s)
    BY <1>0, <1>2, <1>3, <1>4, <1>9
  <2>2. PICK t : t = Moved(s, r, n, kPrependSize)
    OBVIOUS
  <2>3. Copy(s, r, n, kPrependSize) = t
    <3>1. kPrependSize <= r /\ r + n <= Len(s)
      BY <1>0, <1>2, <1>3, <1>9
    <3> QED
      BY <1>0, <1>2, <1>3, <2>2, <3>1, CopyMoves
  <2>4. Between(t, kPrependSize, v, q)
    BY <1>2, <1>6, <2>1, <2>2
  <2>5. r # kPrependSize /\ ~(r < kPrependSize)
    BY <1>0, <1>2, <1>9
  <2>6. AlignPrepend(x) = [buffer |-> t, read |-> kPrependSize, write |-> v]
    BY <1>1, <1>4, <2>3, <2>5 DEF AlignPrepend, n
  <2> QED
    BY <2>4, <2>6, HoldsRecord
<1> QED
  BY <1>0, <1>2, <1>7, <1>8, <1>9

\* resize() to a length that leaves the bytes where they are.
LEMMA ResizeHolds ==
    ASSUME NEW x, NEW q, Holds(x, q), NEW n \in Nat, x.write <= n, kPrependSize <= n
    PROVE  Holds([x EXCEPT !.buffer = Resize(@, n)], q)
<1>1. PICK s, r, w : /\ Between(s, r, w, q)
                     /\ x = [buffer |-> s, read |-> r, write |-> w]
                     /\ x.buffer = s /\ x.read = r /\ x.write = w
  BY HoldsParts
<1>2. s \in Seq(Nat) /\ r \in Nat /\ w \in Nat /\ w <= n
  BY <1>1 DEF Between
<1>3. PICK t : t = Resize(s, n)
  OBVIOUS
<1>4. IsResized(t, s, n)
  BY <1>2, <1>3, ResizedBytes
<1>5. t \in Seq(Nat) /\ Len(t) = n /\ \A i \in 1..n : i <= Len(s) => t[i] = s[i]
  BY <1>4 DEF IsResized
<1>6. ASSUME NEW i \in 1..Len(s), i > r, i <= w PROVE t[i] = s[i]
  <2>1. i \in 1..n /\ i <= Len(s)
    BY <1>2, <1>6
  <2> QED
    BY <1>5, <2>1
<1>7. Between(t, r, w, q)
  <2>1. w <= Len(t) /\ kPrependSize <= Len(t)
    BY <1>2, <1>5
  <2> QED
    BY <1>1, <1>5, <1>6, <2>1, BetweenKept
<1>8. [x EXCEPT !.buffer = Resize(@, n)] = [buffer |-> t, read |-> r, write |-> w]
  BY <1>1, <1>3
<1> QED
  BY <1>7, <1>8, HoldsRecord

\* ExtendSpace() makes room (Buffer.cpp:55-62).
LEMMA ExtendSpaceHolds ==
    ASSUME NEW x, NEW q, Holds(x, q), NEW len \in Nat
    PROVE  Holds(ExtendSpace(x, len), q) /\ len <= Writable(ExtendSpace(x, len))
<1>1. PICK y : y = AlignPrepend(x)
  OBVIOUS
<1>2. Holds(y, q)
  BY <1>1, AlignPrependHolds
<1>3. PICK s, r, w : /\ Between(s, r, w, q)
                     /\ y = [buffer |-> s, read |-> r, write |-> w]
                     /\ y.buffer = s /\ y.read = r /\ y.write = w
  BY <1>2, HoldsParts
<1>4. s \in Seq(Nat) /\ w \in Nat /\ w <= Len(s) /\ kPrependSize <= Len(s)
  BY <1>3 DEF Between
<1>5. CASE Writable(y) < len
  <2>1. PICK n : n = w + len
    OBVIOUS
  <2>2. Len(s) - w < len
    BY <1>3, <1>5 DEF Writable
  <2>3. n \in Nat /\ w <= n /\ kPrependSize <= n /\ len <= n - w
    BY <1>4, <2>1, <2>2, BufferAssumption
  <2>4. PICK z : z = [y EXCEPT !.buffer = Resize(@, n)]
    OBVIOUS
  <2>5. Holds(z, q)
    BY <1>2, <1>3, <2>3, <2>4, ResizeHolds
  <2>6. ExtendSpace(x, len) = z
    BY <1>1, <1>3, <1>5, <2>1, <2>4 DEF ExtendSpace
  <2>7. Len(z.buffer) = n /\ z.write = w
    <3>1. IsResized(Resize(s, n), s, n)
      BY <1>4, <2>3, ResizedBytes
    <3>2. z.buffer = Resize(s, n) /\ z.write = w
      BY <1>3, <2>4
    <3> QED
      BY <3>1, <3>2 DEF IsResized
  <2> QED
    BY <2>3, <2>5, <2>6, <2>7 DEF Writable
<1>6. CASE ~(Writable(y) < len)
  <2>1. ExtendSpace(x, len) = y
    BY <1>1, <1>6 DEF ExtendSpace
  <2>2. len <= Writable(y)
    BY <1>3, <1>4, <1>6 DEF Writable
  <2> QED
    BY <1>2, <2>1, <2>2
<1> QED
  BY <1>5, <1>6

\* Write() (Buffer.cpp:39-46).
LEMMA WriteHolds ==
    ASSUME NEW x, NEW q, Holds(x, q), NEW d \in Seq(Nat)
    PROVE  Holds(Write(x, d), q \o d)
<1>1. PICK y : y = IF Writable(x) < Len(d) THEN ExtendSpace(x, Len(d)) ELSE x
  OBVIOUS
<1>2. Len(d) \in Nat
  OBVIOUS
<1>3. Writable(x) \in Int
  <2>1. x.buffer \in Seq(Nat) /\ x.write \in Nat
    BY DEF Holds, Buffers
  <2> QED
    BY <2>1 DEF Writable
<1>4. Holds(y, q) /\ Len(d) <= Writable(y)
  <2>1. CASE Writable(x) < Len(d)
    BY <1>1, <1>2, <2>1, ExtendSpaceHolds
  <2>2. CASE ~(Writable(x) < Len(d))
    <3>1. y = x
      BY <1>1, <2>2
    <3>2. Len(d) <= Writable(x)
      BY <1>2, <1>3, <2>2
    <3> QED
      BY <3>1, <3>2
  <2> QED
    BY <2>1, <2>2
<1>5. Write(x, d) = Appended(y, d)
  BY <1>1 DEF Write, Appended
<1> QED
  BY <1>4, <1>5, PutHolds

\* Shrink() (Buffer.cpp:91-95).
LEMMA ShrinkHolds ==
    ASSUME NEW x, NEW q, Holds(x, q), NEW reserve \in Nat
    PROVE  Holds(Shrink(x, reserve), q)
<1>1. PICK y : y = AlignPrepend(x)
  OBVIOUS
<1>2. Holds(y, q) /\ y.read = kPrependSize
  BY <1>1, AlignPrependHolds
<1>3. y.write \in Nat /\ y.read \in Nat /\ y.read <= y.write
  BY <1>2 DEF Holds, Buffers, Between
<1>4. PICK n : n = kPrependSize + Readable(y) + reserve
  OBVIOUS
<1>5. n \in Nat /\ y.write <= n /\ kPrependSize <= n
  BY <1>2, <1>3, <1>4 DEF Readable
<1>6. Shrink(x, reserve) = [y EXCEPT !.buffer = Resize(@, n)]
  BY <1>1, <1>4 DEF Shrink
<1> QED
  BY <1>2, <1>5, <1>6, ResizeHolds

LEMMA JoinBytes ==
    ASSUME NEW S
    PROVE  \A u, v, z \in Seq(S) : (u \o v) \o z = u \o (v \o z)
BY ConcatAssociative

\* ReadFd(): what does not fit goes through extra_buf (Buffer.cpp:97-115).
LEMMA ReadFdHolds ==
    ASSUME NEW x, NEW q, Holds(x, q), NEW d \in Seq(Nat)
    PROVE  Holds(ReadFd(x, d), q \o d)
<1>1. PICK room : room = Writable(x)
  OBVIOUS
<1>2. room \in Nat
  <2>1. x.buffer \in Seq(Nat) /\ x.write \in Nat /\ x.write <= Len(x.buffer)
    BY DEF Holds, Buffers, Between
  <2> QED
    BY <1>1, <2>1 DEF Writable
<1>3. PICK m : m = IF Len(d) <= room THEN Len(d) ELSE room
  OBVIOUS
<1>4. m \in Nat /\ m <= room /\ m <= Len(d)
  BY <1>2, <1>3
<1>5. PICK head, y : head = SubSeq(d, 1, m) /\ y = Appended(x, head)
  OBVIOUS
<1>6. head \in Seq(Nat) /\ Len(head) = m /\ \A i \in 1..m : head[i] = d[i]
  <2>1. 0 + m <= Len(d) /\ 1 = 0 + 1 /\ m = 0 + m
    BY <1>4
  <2>2. IsPart(head, d, 0, m)
    BY <1>4, <1>5, <2>1, Part
  <2>3. \A i \in 1..m : 0 + i = i
    BY <1>4
  <2> QED
    BY <2>2, <2>3 DEF IsPart
<1>7. PICK p : p = q \o head
  OBVIOUS
<1>8. Holds(y, p)
  BY <1>1, <1>4, <1>5, <1>6, <1>7, PutHolds
<1>9. q \in Seq(Nat)
  BY DEF Holds, Between
<1>10. CASE Len(d) <= room
  <2>1. head = d
    BY <1>3, <1>6, <1>10, SeqEqual
  <2>2. ReadFd(x, d) = y
    BY <1>1, <1>3, <1>5, <1>10 DEF ReadFd, Appended
  <2> QED
    BY <1>7, <1>8, <2>1, <2>2
<1>11. CASE ~(Len(d) <= room)
  <2>1. PICK l, rest : l = Len(d) - m /\ rest = SubSeq(d, room + 1, Len(d))
    OBVIOUS
  <2>2. m = room /\ l \in Nat /\ m + l <= Len(d) /\ Len(d) = m + l /\ room + 1 = m + 1
    BY <1>2, <1>3, <1>4, <1>11, <2>1
  <2>3. IsPart(rest, d, m, l)
    BY <1>4, <2>1, <2>2, Part
  <2>4. rest \in Seq(Nat) /\ Len(rest) = l /\ \A i \in 1..l : rest[i] = d[m + i]
    BY <2>3 DEF IsPart
  <2>5. PICK c : c = head \o rest
    OBVIOUS
  <2>6. c = d
    <3>1. /\ c \in Seq(Nat) /\ Len(c) = m + l
          /\ \A i \in 1..(m + l) : c[i] = IF i <= m THEN head[i] ELSE rest[i - m]
      <4>1. head \in Seq(Nat) /\ rest \in Seq(Nat)
        BY <1>6, <2>4
      <4>2. /\ c \in Seq(Nat) /\ Len(c) = Len(head) + Len(rest)
            /\ \A i \in 1..(Len(head) + Len(rest)) :
                  c[i] = IF i <= Len(head) THEN head[i] ELSE rest[i - Len(head)]
        BY <2>5, <4>1, ConcatProperties
      <4>3. Len(head) = m /\ Len(rest) = l
        BY <1>6, <2>4
      <4> QED
        BY <4>2, <4>3
    <3>2. ASSUME NEW i \in 1..Len(c) PROVE c[i] = d[i]
      <4>1. CASE i <= m
        BY <1>4, <1>6, <2>2, <3>1, <4>1
      <4>2. CASE ~(i <= m)
        <5>1. i - m \in 1..l /\ m + (i - m) = i
          BY <1>4, <2>2, <3>1, <4>2
        <5> QED
          BY <2>4, <3>1, <4>2, <5>1
      <4> QED
        BY <4>1, <4>2
    <3> QED
      BY <2>2, <3>1, <3>2, SeqEqual
  <2>7. Holds(Write(y, rest), p \o rest)
    BY <1>8, <2>4, WriteHolds
  <2>8. p \o rest = q \o d
    <3>1. PICK S : S = Nat
      OBVIOUS
    <3>2. q \in Seq(S) /\ head \in Seq(S) /\ rest \in Seq(S)
      BY <1>6, <1>9, <2>4, <3>1
    <3>3. (q \o head) \o rest = q \o (head \o rest)
      BY <3>2, JoinBytes
    <3> QED
      BY <1>7, <2>5, <2>6, <3>3
  <2>9. ReadFd(x, d) = Write(y, rest)
    BY <1>1, <1>3, <1>5, <1>11, <2>1 DEF ReadFd, Appended
  <2> QED
    BY <2>7, <2>8, <2>9
<1> QED
  BY <1>10, <1>11

-----------------------------------------------------------------------------
(* The invariant.                                                          *)

LEMMA BufferInitHolds == BufferInit => Holds(b, content)
<1> SUFFICES ASSUME BufferInit PROVE Holds(b, content)
  OBVIOUS
<1>1. kPrependSize \in Nat /\ InitSize \in Nat
  BY BufferAssumption
<1>2. PICK s : s = [i \in 1..(kPrependSize + InitSize) |-> 0]
  OBVIOUS
<1>3. s \in Seq(Nat) /\ Len(s) = kPrependSize + InitSize
  BY <1>1, <1>2
<1>4. content = <<>> /\ b = [buffer |-> s, read |-> kPrependSize, write |-> kPrependSize]
  BY <1>2 DEF BufferInit
<1>5. Between(s, kPrependSize, kPrependSize, content)
  BY <1>1, <1>3, <1>4 DEF Between
<1> QED
  BY <1>4, <1>5, HoldsRecord

LEMMA BufferNextHolds ==
    ASSUME Holds(b, content), [BufferNext]_bufferVars
    PROVE  Holds(b, content)'
<1> USE BufferAssumption
<1>0. \A d \in Data : d \in Seq(Nat)
  <2>0. MaxLen \in Nat /\ Byte \subseteq Nat
    OBVIOUS
  <2>1. ASSUME NEW n \in 0..MaxLen, NEW d \in [1..n -> Byte] PROVE d \in Seq(Nat)
    <3>1. n \in Nat
      BY <2>0
    <3>2. d \in [1..n -> Nat]
      BY <2>0
    <3> QED
      BY <3>1, <3>2
  <2> QED
    BY <2>1 DEF Data
<1>1. ASSUME NEW len \in 0..MaxReadable, CallRelease(len) PROVE Holds(b, content)'
  BY <1>1, ReleaseHolds DEF CallRelease
<1>2. ASSUME NEW len \in 0..MaxReadable, CallUnWrite(len) PROVE Holds(b, content)'
  BY <1>2, UnWriteHolds DEF CallUnWrite
<1>3. ASSUME NEW d \in Data, CallWrite(d) PROVE Holds(b, content)'
  BY <1>0, <1>3, WriteHolds DEF CallWrite
<1>4. ASSUME NEW d \in Data, CallPrepend(d) PROVE Holds(b, content)'
  BY <1>0, <1>4, PrependHolds DEF CallPrepend
<1>5. ASSUME NEW d \in Data, CallReadFd(d) PROVE Holds(b, content)'
  BY <1>0, <1>5, ReadFdHolds DEF CallReadFd
<1>6. ASSUME NEW reserve \in 0..MaxLen, CallShrink(reserve) PROVE Holds(b, content)'
  BY <1>6, ShrinkHolds DEF CallShrink
<1>7. CASE UNCHANGED bufferVars
  BY <1>7 DEF bufferVars
<1> QED
  BY <1>1, <1>2, <1>3, <1>4, <1>5, <1>6, <1>7 DEF BufferNext

\* For every sequence of calls, whatever the sizes and however the regions of a
\* move overlap, the buffer holds what a queue of bytes would hold, and stays
\* inside its vector (Buffer.cpp:13-115).
THEOREM BufferIsQueue == BufferSpec => []HoldsTheBytes
<1>1. Holds(b, content) => HoldsTheBytes
  BY HoldsBytes DEF HoldsTheBytes, IndicesInBounds
<1> QED
  BY <1>1, BufferInitHolds, BufferNextHolds, PTL DEF BufferSpec
=============================================================================
