--------------------------- MODULE AccessPolicy ---------------------------
(***************************************************************************)
(* The two policies of winsecurefile on an owner and a DACL, against what  *)
(* Windows would grant by that DACL.  An access mask is the set of its     *)
(* bits; a SID is a name, up to case.                                      *)
(***************************************************************************)
EXTENDS Naturals, Sequences

CONSTANTS
    Sid,            \* SIDs that own or are named by an entry
    Current,        \* the SID of this process
    Dacls           \* the DACLs checked; <<>> for none, or an empty one

\* Bits; each generic bit stands for the specific ones it is mapped to.
System == "SYSTEM"
OwnerRights == "OWNER RIGHTS"
Trusted == {Current, System, "Administrators", "TrustedInstaller"}

FileGenericRead == {"ReadData", "ReadEA", "ReadAttributes", "ReadControl", "Synchronize"}
FileGenericExec == {"Execute", "ReadAttributes", "ReadControl", "Synchronize"}
ImageReadExec == FileGenericRead \cup FileGenericExec
Specific == ImageReadExec \cup {"WriteData", "WriteDAC", "Delete"}

VARIABLES
    owner, dacl,    \* the security descriptor of the handle
    read,           \* securityEntries has returned them
    verdict         \* what the policies say of them: [secret, image]

policyVars == <<owner, dacl, read, verdict>>

\* Mutation: GENERIC_ALL passes as reading.
ReadExecuteOnlyGeneric(mask) ==
    /\ "GenericWrite" \notin mask
    /\ LET allowed == (mask \ {"GenericRead", "GenericExecute", "GenericAll"})
                        \cup (IF "GenericRead" \in mask THEN FileGenericRead ELSE {})
       IN  allowed \ ImageReadExec = {}

\* readExecuteOnly
ReadExecuteOnly(mask) ==
    /\ mask \cap {"GenericWrite", "GenericAll"} = {}
    /\ LET allowed == (mask \ {"GenericRead", "GenericExecute"})
                        \cup (IF "GenericRead" \in mask THEN FileGenericRead ELSE {})
                        \cup (IF "GenericExecute" \in mask THEN FileGenericExec ELSE {})
       IN  allowed \ ImageReadExec = {}

Entries(d) == {d[k] : k \in DOMAIN d}

\* Mutation: an entry of a kind that is not understood is passed over.
SecretPolicyLenient(o, d) ==
    /\ o = Current
    /\ d # <<>>
    /\ \A e \in Entries(d) : e.inheritOnly \/ e.kind # "allowed"
                             \/ e.sid \in {Current, System, OwnerRights}

\* validateSecretPolicy
SecretPolicy(o, d) ==
    /\ o = Current
    /\ d # <<>>
    /\ \A e \in Entries(d) :
         \/ e.inheritOnly
         \/ e.kind = "denied"
         \/ e.kind = "allowed" /\ e.sid \in {Current, System, OwnerRights}

\* validateManagedImagePolicy
ImagePolicy(o, d) ==
    /\ o \in Trusted
    /\ d # <<>>
    /\ \A e \in Entries(d) :
         \/ e.inheritOnly
         \/ e.kind = "denied"
         \/ e.kind = "allowed" /\ (e.sid \in Trusted \cup {OwnerRights} \/ ReadExecuteOnly(e.mask))

PolicyInit ==
    /\ owner \in Sid
    /\ dacl \in Dacls
    /\ read = FALSE
    /\ verdict = [secret |-> FALSE, image |-> FALSE]

\* validateSecretHandle and validateManagedImageHandle, on what securityEntries read
Judge ==
    /\ ~ read
    /\ read' = TRUE
    /\ verdict' = [secret |-> SecretPolicy(owner, dacl), image |-> ImagePolicy(owner, dacl)]
    /\ UNCHANGED <<owner, dacl>>

PolicySpec == PolicyInit /\ [][Judge]_policyVars

-----------------------------------------------------------------------
(* What Windows grants: the entries in their order, an access refused by   *)
(* an earlier one stays refused; without a DACL, everything. An entry of   *)
(* another kind may grant anything.                                        *)

Mapped(mask) ==
    (mask \cap Specific)
      \cup (IF "GenericRead" \in mask THEN FileGenericRead ELSE {})
      \cup (IF "GenericExecute" \in mask THEN FileGenericExec ELSE {})
      \cup (IF "GenericWrite" \in mask THEN {"WriteData", "ReadControl", "Synchronize"} ELSE {})
      \cup (IF "GenericAll" \in mask THEN Specific ELSE {})

Names(e, sid) == e.sid = sid \/ (e.sid = OwnerRights /\ sid = owner)

Granted(sid) ==
    IF dacl = <<>> THEN Specific
    ELSE {r \in Specific : \E k \in DOMAIN dacl :
            /\ ~ dacl[k].inheritOnly
            /\ dacl[k].kind = "unsupported" \/ (dacl[k].kind = "allowed" /\ Names(dacl[k], sid)
                                               /\ r \in Mapped(dacl[k].mask))
            /\ ~ \E j \in 1 .. k - 1 : /\ dacl[j].kind = "denied" /\ ~ dacl[j].inheritOnly
                                       /\ Names(dacl[j], sid) /\ r \in Mapped(dacl[j].mask)}

-----------------------------------------------------------------------
(* Properties.                                                           *)

\* A secret the policy accepts is accessible to no one but its owner and SYSTEM.
SecretsAreConfidential ==
    verdict.secret =>
      \A s \in Sid \ {Current, System, OwnerRights} : Granted(s) = {}

\* A managed image the policy accepts can be changed by none but the trusted SIDs: the
\* others may read and execute it at most, whichever way the mask is spelt.
ImagesAreIntact ==
    verdict.image =>
      \A s \in Sid \ (Trusted \cup {OwnerRights}) : Granted(s) \subseteq ImageReadExec
========================================================================
