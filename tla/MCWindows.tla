---------------------------- MODULE MCWindows ----------------------------
(***************************************************************************)
(* What credproxyd relies on under Windows, instantiated for TLC: the      *)
(* pipe and its clients (NativePipe), the handles on a protected path      *)
(* (ProtectedPath) and the policies on owners and DACLs (AccessPolicy).    *)
(*                                                                         *)
(* They share no state: a behaviour follows one of them, part, and leaves  *)
(* the others as they start.                                               *)
(***************************************************************************)
EXTENDS NativePipe, AccessPolicy, ProtectedPath, TLC

CONSTANTS dialer, stranger, other

VARIABLE part

\* A dialer with the expected SID, one without, and another program that has it.
MCClients == {dialer, stranger, other}
MCSidOf == (dialer :> "peer") @@ (stranger :> "owner") @@ (other :> "peer")

\* Every DACL of up to two entries.
MCSids == {"me", "SYSTEM", "Administrators", "OWNER RIGHTS", "someone"}
MCMasks ==
    {{}, {"GenericRead"}, {"GenericExecute", "ReadData"}, {"GenericWrite"}, {"GenericAll"},
     {"ReadControl", "WriteDAC"}, {"ReadData", "Delete"}}
MCEntries ==
    [kind : {"allowed", "denied", "unsupported"}, sid : MCSids, mask : MCMasks,
     inheritOnly : BOOLEAN]
MCDacls == UNION {[1 .. n -> MCEntries] : n \in 0 .. 2}

\* Three components below the root; three directories, two files and a reparse point
\* that may come and go.
MCObjects == {"root", "d1", "d2", "d3", "f1", "f2", "link"}
MCKind == [o \in MCObjects |-> CASE o \in {"f1", "f2"} -> "file"
                                 [] o = "link" -> "reparse"
                                 [] OTHER -> "dir"]

ASSUME PathAssumption

-----------------------------------------------------------------------
WindowsInit ==
    /\ part \in {"pipe", "path", "policy"}
    /\ Init
    /\ PathInit
    /\ part = "path" \/ \A d \in DOMAIN child : child[d] = None
    /\ IF part = "policy" THEN PolicyInit
       ELSE /\ owner = "me" /\ dacl = <<>>
            /\ read = FALSE /\ verdict = [secret |-> FALSE, image |-> FALSE]

WindowsNext ==
    \/ part = "pipe" /\ Next /\ UNCHANGED <<part, pathVars, owner, dacl, read, verdict>>
    \/ part = "path" /\ PathNext /\ UNCHANGED <<part, vars, owner, dacl, read, verdict>>
    \/ part = "policy" /\ Judge /\ UNCHANGED <<part, vars, pathVars>>

\* A pipe nobody opens has no step that must be taken.
WindowsSpec ==
    /\ WindowsInit
    /\ [][WindowsNext]_<<part, vars, pathVars, policyVars>>
    /\ WF_vars(Server)
==========================================================================
