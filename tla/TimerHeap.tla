----------------------------- MODULE TimerHeap -----------------------------
(***************************************************************************)
(* The binary heap of windz::TimerManager, as operators on a sequence h of *)
(* timers; w gives the timers' deadlines.  Index i of the code's vector is *)
(* index i + 1 here: the parent of i is i \div 2, its children 2i, 2i + 1. *)
(*                                                                         *)
(* A loop of the code is a number of rounds that is enough for the path    *)
(* between the root and a leaf: each goes on from the vector and the index *)
(* of the round before it, or stays there when the loop has ended.         *)
(***************************************************************************)
EXTENDS Integers, Sequences

SwapInHeap(h, l, r) == [h EXCEPT ![l] = h[r], ![r] = h[l]]

\* One round of the loop of UpInHeap().
UpRound(s, w) ==
    LET h == s.heap
        i == s.index
    IN  IF i > 1 /\ w[h[i]] < w[h[i \div 2]]
        THEN [heap |-> SwapInHeap(h, i, i \div 2), index |-> i \div 2]
        ELSE s

UpInHeap(h, w, i) ==
    LET at[k \in 0..i] == IF k = 0 THEN [heap |-> h, index |-> i] ELSE UpRound(at[k - 1], w)
    IN  at[i].heap

MinChild(h, w, i) ==
    IF 2 * i = Len(h) \/ w[h[2 * i]] < w[h[2 * i + 1]] THEN 2 * i ELSE 2 * i + 1

\* One round of the loop of DownInHeap().
DownRound(s, w) ==
    LET h == s.heap
        i == s.index
        c == MinChild(h, w, i)
    IN  IF 2 * i > Len(h) \/ w[h[i]] <= w[h[c]] THEN s
        ELSE [heap |-> SwapInHeap(h, i, c), index |-> c]

\* DownInHeap(0): it is not called with another index.
DownInHeap(h, w) ==
    LET at[k \in 0..Len(h)] ==
            IF k = 0 THEN [heap |-> h, index |-> 1] ELSE DownRound(at[k - 1], w)
    IN  at[Len(h)].heap

PushInHeap(h, w, t) == UpInHeap(Append(h, t), w, Len(h) + 1)

PopInHeap(h, w) == DownInHeap(SubSeq(SwapInHeap(h, 1, Len(h)), 1, Len(h) - 1), w)

\* What a min-heap is.
Ordered(h, w) == \A i \in 2..Len(h) : w[h[i \div 2]] <= w[h[i]]
=============================================================================
