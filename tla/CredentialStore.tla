------------------------ MODULE CredentialStore ------------------------
(***************************************************************************)
(* What a store of credentials promises to the routes that share it,       *)
(* without caches, locks or flights.  A credential's secret is owned by a  *)
(* vault that may rotate it at any time; a value is identified by its      *)
(* rotation number, so that a larger number is a newer secret and 0 stands *)
(* for "no value".                                                         *)
(***************************************************************************)
EXTENDS Naturals

CONSTANTS
    Name        \* credential names

VARIABLES
    vault,      \* vault[n]: the secret the backend holds now
    store       \* store[n]: the secret the daemon hands out for n, 0 if none

vars == <<vault, store>>

Init ==
    /\ vault = [n \in Name |-> 1]
    /\ store = [n \in Name |-> 0]

\* The backend rotates a secret.
Rotate(n) ==
    /\ vault' = [vault EXCEPT ![n] = @ + 1]
    /\ UNCHANGED store

\* One atomic replacement of any number of credentials.  What is installed was
\* a secret of the vault, and never one older than what it replaces.
Install ==
    /\ store' \in [Name -> Nat]
    /\ \A n \in Name : store'[n] \in store[n] .. vault[n]
    /\ UNCHANGED vault

Next == Install \/ \E n \in Name : Rotate(n)

Spec == Init /\ [][Next]_vars
========================================================================
