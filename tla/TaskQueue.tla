----------------------------- MODULE TaskQueue -----------------------------
(***************************************************************************)
(* What EventLoop::runinloop promises to the threads that call it: the     *)
(* functors handed to the loop wait in one queue, and the loop's thread    *)
(* runs them one at a time, each once, in the order they were handed over. *)
(* Functors are numbered in that order.  Nothing is said about when a      *)
(* functor runs, so a loop that quits with functors queued is allowed.     *)
(***************************************************************************)
EXTENDS Naturals, Sequences

VARIABLES submitted, \* how many functors have been handed to the loop
          queue,     \* functors handed over and not yet started
          ran        \* functors started, in the order they were started

vars == <<submitted, queue, ran>>

Init ==
    /\ submitted = 0
    /\ queue = <<>>
    /\ ran = <<>>

Submit ==
    /\ submitted' = submitted + 1
    /\ queue' = Append(queue, submitted + 1)
    /\ UNCHANGED ran

Run ==
    /\ queue # <<>>
    /\ ran' = Append(ran, Head(queue))
    /\ queue' = Tail(queue)
    /\ UNCHANGED submitted

Next == Submit \/ Run

Spec == Init /\ [][Next]_vars
=============================================================================
