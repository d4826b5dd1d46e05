-------------------------------- MODULE Jobs --------------------------------
(***************************************************************************)
(* Pure parts of the compiler and the library are checked on one input at  *)
(* a time: a step takes an input of the part that is asked, the job, and   *)
(* the invariants compare what the code computes for it with a reference   *)
(* definition.                                                             *)
(***************************************************************************)
EXTENDS Integers, SequencesExt, FiniteSetsExt, TLC

VARIABLE job        \* the part that is asked, and the input

Question(part) == [part |-> "none", asked |-> part]
Asked(part) == job = Question(part)

\* The sequences over S of at most n elements.
UpTo(n, S) == UNION {[1..k -> S] : k \in 0..n}
=============================================================================
