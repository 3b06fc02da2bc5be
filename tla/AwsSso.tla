---------------------------- MODULE AwsSso ----------------------------
(***************************************************************************)
(* The awssso provider: per-project allowlists of profiles, the credential *)
(* cache, and the aws CLI with its fallback to the sessions in the SSO     *)
(* cache directory.  A credential is numbered by the aws call that issued  *)
(* it; `creds` says whose it is and when it expires.                       *)
(***************************************************************************)
EXTENDS Naturals, Sequences

CONSTANTS
    Project,        \* project ids, the token_id of a request
    Profile,        \* profile keys ("default" for the unnamed one)
    Call,           \* concurrent requests
    ProfileSets,    \* what profilesFor may return
    Sessions,       \* roles with a usable session in the SSO cache directory
    Margin,         \* refreshMargin
    Lifetimes,      \* lifetimes aws grants; 0 is an expiration it does not state
    MaxTime, MaxCreds,  \* bounds
    None

VARIABLES
    allowed,    \* the allowlists, None until SetAllowedProfiles
    cache,      \* cache: a credential or None
    creds,      \* the credentials aws has issued, in order
    now,        \* time.Now
    call        \* the requests in progress and their answers

vars == <<allowed, cache, creds, now, call>>

Idle == [op |-> "idle", q |-> None, p |-> None, since |-> 0, pc |-> "idle", got |-> None]

Init ==
    /\ allowed = [q \in Project |-> None]
    /\ cache = [p \in Profile |-> None]
    /\ creds = <<>>
    /\ now = 1
    /\ call = [c \in Call |-> Idle]

-----------------------------------------------------------------------
\* ContainerSpec: a project without profiles has a zero Spec and nothing else happens;
\* SetAllowedProfiles comes first, so a later failure leaves the profiles allowed.
ContainerSpec(q) ==
    /\ \E profiles \in ProfileSets :
         allowed' = [allowed EXCEPT ![q] = IF profiles = {} THEN @ ELSE profiles]
    /\ UNCHANGED <<cache, creds, now, call>>

Fresh(n) == n # None /\ now + Margin < creds[n].expires

Allowed(q, p) == allowed[q] # None /\ p \in allowed[q]

\* The call as it leaves the first critical section: denied, answered or fetching.
Answer(op, q, p, n) ==
    [op |-> op, q |-> q, p |-> p,
     since |-> IF op = "refresh" THEN Len(creds) ELSE 0, pc |-> "served", got |-> n]
Started(op, q, p) ==
    IF ~ Allowed(q, p) THEN Idle
    ELSE IF op = "get" /\ Fresh(cache[p]) THEN Answer(op, q, p, cache[p])
    ELSE [Answer(op, q, p, None) EXCEPT !.pc = "export"]

\* Mutation: the early-refresh margin is left out.
GetNoMargin(c, q, p) ==
    LET live == Allowed(q, p) /\ cache[p] # None /\ now < creds[cache[p]].expires IN
    /\ call[c].pc = "idle"
    /\ call' = [call EXCEPT ![c] = IF live
                 THEN Answer("get", q, p, cache[p])
                 ELSE Started("get", q, p)]
    /\ UNCHANGED <<allowed, cache, creds, now>>

Get(c, q, p) ==
    /\ call[c].pc = "idle"
    /\ call' = [call EXCEPT ![c] = Started("get", q, p)]
    /\ UNCHANGED <<allowed, cache, creds, now>>

Refresh(c, q, p) ==
    /\ call[c].pc = "idle"
    /\ call' = [call EXCEPT ![c] = Started("refresh", q, p)]
    /\ cache' = [cache EXCEPT ![p] = IF Allowed(q, p) THEN None ELSE @]
    /\ UNCHANGED <<allowed, creds, now>>

-----------------------------------------------------------------------
\* fetch, outside the mutex: aws issues a credential of the role `who`.  An expiration
\* that is missing or that parseExpiration cannot read is the zero time.
Issue(c, who) ==
    /\ Len(creds) < MaxCreds
    /\ \E life \in Lifetimes :
         creds' = Append(creds, [of |-> who, expires |-> IF life = 0 THEN 0 ELSE now + life])
    /\ call' = [call EXCEPT ![c].pc = "store", ![c].got = Len(creds')]
    /\ UNCHANGED <<allowed, cache, now>>

ExportCredentials(c) ==
    /\ call[c].pc = "export"
    /\ Issue(c, call[c].p)

\* aws fails, prints no JSON or no AccessKeyId.
ExportFails(c) ==
    /\ call[c].pc = "export"
    /\ call' = [call EXCEPT ![c].pc = "sso"]
    /\ UNCHANGED <<allowed, cache, creds, now>>

\* ssoCredentials takes the first session of the directory that works.
SsoCredentials(c) ==
    /\ call[c].pc = "sso"
    /\ \E who \in Sessions : Issue(c, who)

SsoFails(c) ==
    /\ call[c].pc = "sso"
    /\ call' = [call EXCEPT ![c] = Idle]
    /\ UNCHANGED <<allowed, cache, creds, now>>

\* The result replaces what the cache holds by then.
Store(c) ==
    /\ call[c].pc = "store"
    /\ cache' = [cache EXCEPT ![call[c].p] = call[c].got]
    /\ call' = [call EXCEPT ![c].pc = "served"]
    /\ UNCHANGED <<allowed, creds, now>>

Return(c) ==
    /\ call[c].pc = "served"
    /\ call' = [call EXCEPT ![c] = Idle]
    /\ UNCHANGED <<allowed, cache, creds, now>>

Tick ==
    /\ now < MaxTime
    /\ now' = now + 1
    /\ UNCHANGED <<allowed, cache, creds, call>>

Step(c) ==
    \/ ExportCredentials(c) \/ ExportFails(c) \/ SsoCredentials(c) \/ SsoFails(c)
    \/ Store(c) \/ Return(c)

Next ==
    \/ \E c \in Call : Step(c) \/ \E q \in Project, p \in Profile : Get(c, q, p) \/ Refresh(c, q, p)
    \/ \E q \in Project : ContainerSpec(q)
    \/ Tick

Spec == Init /\ [][Next]_vars

-----------------------------------------------------------------------
(* Properties.                                                           *)

Answers(c) == call'[c].pc = "served" /\ call[c].pc # "served"

\* The cache answers a project only for a profile it may use at that moment, whichever
\* project caused the credential to be fetched.
CacheServesTheAllowed ==
    [][\A c \in Call : Answers(c) /\ call[c].pc = "idle" =>
         Allowed(call'[c].q, call'[c].p)]_vars

\* What the cache answers stays valid for longer than the margin; a credential without
\* a readable expiration is never answered from it.
CacheServesTheFresh ==
    [][\A c \in Call : Answers(c) /\ call[c].pc = "idle" =>
         now + Margin < creds[call'[c].got].expires]_vars

\* Refresh bypasses the cache: what it returns was issued after it was called, however
\* many other calls fill the cache meanwhile.
RefreshBypassesTheCache ==
    \A c \in Call : call[c].op = "refresh" /\ call[c].got # None => call[c].got > call[c].since

\* A profile's cache entry holds the credentials of that profile or of a session of the
\* SSO cache directory, never those of another project's profile.
CacheHoldsItsProfile ==
    \A p \in Profile : cache[p] # None => creds[cache[p]].of \in {p} \cup Sessions

\* What is issued is numbered in order; a call that is to store holds what it fetched for
\* its profile, and what a refresh holds is younger than the refresh.
CallState ==
    [op : {"idle", "get", "refresh"}, q : Project \cup {None}, p : Profile \cup {None},
     since : Nat, pc : {"idle", "export", "sso", "store", "served"}, got : Nat \cup {None}]
TypeOK ==
    /\ allowed \in [Project -> (SUBSET Profile) \cup {None}]
    /\ cache \in [Profile -> Nat \cup {None}]
    /\ creds \in Seq([of : Profile \cup Sessions, expires : Nat])
    /\ now \in Nat
    /\ call \in [Call -> CallState]
Fetched(p, n) == n \in DOMAIN creds /\ creds[n].of \in {p} \cup Sessions
CallInv(c) ==
    /\ call[c].since <= Len(creds)
    /\ call[c].pc # "idle" => call[c].p \in Profile
    /\ call[c].pc \in {"idle", "export", "sso"} => call[c].got = None
    /\ call[c].pc = "store" => Fetched(call[c].p, call[c].got)
    /\ call[c].op = "refresh" /\ call[c].got # None => call[c].got > call[c].since
IInv ==
    /\ TypeOK
    /\ \A p \in Profile : cache[p] # None => Fetched(p, cache[p])
    /\ \A c \in Call : CallInv(c)

\* The cache answers a project only for a profile it may use, with credentials that stay
\* valid for longer than the margin; an entry holds the credentials of its profile or of
\* an SSO session; and what Refresh returns was issued after it was called.
AnswersAreDue ==
    /\ CacheServesTheAllowed
    /\ CacheServesTheFresh
    /\ []CacheHoldsItsProfile
    /\ []RefreshBypassesTheCache
    /\ []IInv

\* A credential is not the mark of a missing one.
SsoAssumption ==
    /\ None \notin Nat
    /\ Margin \in Nat /\ MaxTime \in Nat /\ Lifetimes \subseteq Nat
    /\ ProfileSets \subseteq SUBSET Profile

\* provider.go:41: only profiles registered for the requesting project are served.
ServedIsRegistered ==
    [][\A c \in Call : Answers(c) => Allowed(call'[c].q, creds'[call'[c].got].of)]_vars
========================================================================
