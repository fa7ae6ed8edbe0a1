-------------------------------- MODULE Failures --------------------------------
(***************************************************************************)
(* What may go wrong at any statement: an exception, or a process that is  *)
(* lost.  Shared by the modules it happens to, so that one bound covers    *)
(* them all.                                                               *)
(***************************************************************************)
EXTENDS Naturals

CONSTANT MaxFailures   \* bound: exceptions and lost processes

ASSUME MaxFailuresAssumption == MaxFailures \in Nat

VARIABLE failures      \* how many there have been

Fails == failures < MaxFailures /\ failures' = failures + 1

FailuresInit == failures = 0
=============================================================================
