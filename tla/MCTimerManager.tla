--------------------------- MODULE MCTimerManager ---------------------------
(***************************************************************************)
(* TimerManager for TLC.  The heap of the runs is small; its operators are *)
(* checked here for every heap of up to HeapSize timers, by renaming that  *)
(* of the timers 1..n in the order of the vector.                          *)
(***************************************************************************)
EXTENDS TimerManager

HeapSize == 6

IsHeapOf(h, w, ts) ==
    /\ Ordered(h, w)
    /\ Len(h) = Cardinality(ts)
    /\ {h[i] : i \in 1..Len(h)} = ts

\* One PushInHeap, PopInHeap or Restart with DownInHeap(0) turns a heap into a
\* heap of the timers it should hold (Timer.cpp:46-51, 69-107).
ASSUME HeapOperators ==
    \A n \in 1..HeapSize : \A w \in [1..(n + 1) -> 0..2] :
        LET h == [i \in 1..n |-> i]
        IN  Ordered(h, w) =>
                /\ IsHeapOf(PushInHeap(h, w, n + 1), w, 1..(n + 1))
                /\ IsHeapOf(PopInHeap(h, w), w, 2..n)
                /\ \A d \in 0..3 :
                      LET v == [w EXCEPT ![1] = d]
                      IN  IsHeapOf(DownInHeap(h, v), v, 1..n)
=============================================================================
