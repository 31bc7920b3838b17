------------------------------ MODULE MCVring ------------------------------
(* Instances of Vring for TLC. *)
EXTENDS Vring, TLC

\* One worker waits for every ring: the gpu's worker for its control and cursor
\* queues, the console's main worker for its two control queues.
OneWorkerServesAll == [w \in Workers |-> Rings]

\* Eventfds are interchangeable (safety runs only; rings are not, AnyRing).
FdSymmetry == Permutations(Fds)
=============================================================================
