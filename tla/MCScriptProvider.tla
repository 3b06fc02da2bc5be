----------------------- MODULE MCScriptProvider -----------------------
(* The script provider instantiated for TLC.                             *)
EXTENDS ScriptProvider, TLC

\* Threads are interchangeable.
Symmetry == Permutations(Caller)
========================================================================
