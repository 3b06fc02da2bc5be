------------------------- MODULE MCOnePassword -------------------------
(* Small instances of OnePassword for TLC.                               *)
EXTENDS OnePassword, TLC

\* Bound: a credential is rotated twice, or each of them at most once.
FewRotations ==
    {v \in [Name -> 1 .. 3] : \A m, n \in Name : m # n /\ v[m] = 3 => v[n] = 1}
NoRotation == [Name -> {1}]

\* Threads are interchangeable.
Symmetry == Permutations(Thread)
========================================================================
