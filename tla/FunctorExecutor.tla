-------------------------- MODULE FunctorExecutor --------------------------
(***************************************************************************)
(* What EventLoop promises to a thread that hands it a functor: a queue in *)
(* which every functor enters once, whose head is the only functor that    *)
(* may run next, and which loses nothing.  No loop, no epoll, no eventfd.  *)
(***************************************************************************)
EXTENDS Naturals, Sequences

CONSTANT Functors

VARIABLES
    queue,   \* functors handed over and not yet run, oldest first
    done     \* functors run, in that order

Elements(s) == {s[i] : i \in 1..Len(s)}

Init == queue = <<>> /\ done = <<>>

Submit(f) ==
    /\ f \notin Elements(queue) \cup Elements(done)
    /\ queue' = Append(queue, f)
    /\ UNCHANGED done

Run ==
    /\ queue # <<>>
    /\ done' = Append(done, Head(queue))
    /\ queue' = Tail(queue)

Next == Run \/ \E f \in Functors : Submit(f)

Spec == Init /\ [][Next]_<<queue, done>>
=============================================================================
