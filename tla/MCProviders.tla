--------------------------- MODULE MCProviders ---------------------------
(***************************************************************************)
(* The providers of cloud credentials for containers, instantiated for     *)
(* TLC: gcloud's tokens (Gcloud) and AWS credentials (AwsSso).             *)
(*                                                                         *)
(* They share no state: a behaviour follows one of them, part, and leaves  *)
(* the other as it starts.                                                 *)
(***************************************************************************)
EXTENDS AwsSso, Gcloud, TLC

CONSTANTS t1, t2, p1, p2, s1, s2

VARIABLE part

-----------------------------------------------------------------------
Account(a, s, ps) == [account |-> a, sa |-> s, active |-> "one", projects |-> ps]
TwoAccounts == {Account("alice", s1, {"one"}), Account("alice", s2, {"one"})}
\* Not configured, incomplete, a user's account, two service accounts.
NotConfigured == Account("", "", {})
AllAccounts ==
    {NotConfigured, Account("alice", "sa1", {}), Account("alice", "", {}),
     Account("alice", "sa1", {"one", "two"}), Account("alice", "sa2", {"two"})}
MCConfigs == TwoAccounts \cup AllAccounts
MCTokenLen == <<2, 1, 2>>

\* Part gcloud is bounded to two accounts and two tokens, in two goroutines and projects.
\* Its launches stop at WriteConfigDir, whose success no other step depends on.
Concurrent ==
    /\ gcp \in [GcpProject -> TwoAccounts]
    /\ Len(issued) <= 2 /\ \A p \in GcpProject : async[p] <= 1
    /\ wired = {}

\* Part alone is bounded to one goroutine at a time and one project, of any configuration.
OneAtATime ==
    /\ \A t, u \in Thread : thread[t] # IdleThread /\ thread[u] # IdleThread => t = u
    /\ \E p \in GcpProject : \A q \in GcpProject \ {p} :
         /\ gcp[p] \in AllAccounts /\ gcp[q] = NotConfigured
         /\ target[q] = NoTarget /\ \A t \in Thread : thread[t].p # q

ASSUME GcloudAssumption /\ SsoAssumption

\* Goroutines are interchangeable, and so are projects, the two service accounts and the
\* two profiles, which take the same names.
Symmetry == Permutations({t1, t2}) \cup Permutations({p1, p2}) \cup Permutations({s1, s2})

-----------------------------------------------------------------------
ProvidersInit ==
    /\ part \in {"gcloud", "alone", "awssso"}
    /\ Init
    /\ GcloudInit
    /\ CASE part = "gcloud" -> Concurrent
         [] part = "alone" -> OneAtATime
         [] part = "awssso" -> \A p \in GcpProject : gcp[p] = NotConfigured

ProvidersNext ==
    \/ part = "gcloud" /\ GcloudNext /\ Concurrent' /\ UNCHANGED <<part, vars>>
    \/ part = "alone" /\ GcloudNext /\ OneAtATime' /\ UNCHANGED <<part, vars>>
    \/ part = "awssso" /\ Next /\ UNCHANGED <<part, gcloudVars>>

ProvidersSpec ==
    ProvidersInit /\ [][ProvidersNext]_<<part, gcloudVars, vars>>
=========================================================================
