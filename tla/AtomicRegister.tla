------------------------ MODULE AtomicRegister ------------------------
(***************************************************************************)
(* What a credproxy.Store promises for one key: Save and Load behave as if *)
(* each happened in one instant between its call and its return.           *)
(***************************************************************************)
CONSTANTS
    Writer,     \* callers of Save
    Reader,     \* callers of Load
    Data,       \* values that are saved
    Missing     \* no value: Load fails

VARIABLES
    value,      \* the value of the key
    save,       \* per writer: the value it has not saved yet, or where it is
    load        \* per reader: the value its Load has seen, or that it has none

vars == <<value, save, load>>

Idle == <<"idle">>
Of(d) == <<"value", d>>

Init ==
    /\ value = Missing
    /\ save = [w \in Writer |-> Idle]
    /\ load = [r \in Reader |-> Idle]

Save(w) ==
    /\ save[w] = Idle
    /\ \E d \in Data : save' = [save EXCEPT ![w] = Of(d)]
    /\ UNCHANGED <<value, load>>

\* The value changes in the instant the call succeeds.
Saved(w) ==
    /\ \E d \in Data : save[w] = Of(d) /\ value' = d
    /\ save' = [save EXCEPT ![w] = Idle]
    /\ UNCHANGED load

\* A call that fails, or whose process dies, changes nothing.
NotSaved(w) ==
    /\ save[w] # Idle
    /\ save' = [save EXCEPT ![w] = Idle]
    /\ UNCHANGED <<value, load>>

Load(r) ==
    /\ load[r] = Idle
    /\ load' = [load EXCEPT ![r] = Of(value)]
    /\ UNCHANGED <<value, save>>

Loaded(r) ==
    /\ load[r] # Idle
    /\ load' = [load EXCEPT ![r] = Idle]
    /\ UNCHANGED <<value, save>>

Next ==
    \/ \E w \in Writer : Save(w) \/ Saved(w) \/ NotSaved(w)
    \/ \E r \in Reader : Load(r) \/ Loaded(r)

Spec == Init /\ [][Next]_vars
========================================================================
