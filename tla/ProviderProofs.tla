------------------------- MODULE ProviderProofs -------------------------
(***************************************************************************)
(* What the providers of credentials for containers guarantee, for any     *)
(* number of projects, requests and goroutines: awssso and gcloudcli.      *)
(***************************************************************************)
EXTENDS AwsSso, Gcloud, TLAPS

\* The provers a leaf is tried with, in turn, unless it names its own.
USE SMT, Zenon, SMTT(30)

-----------------------------------------------------------------------
(* awssso.                                                                *)

\* The initial states satisfy the invariant.
LEMMA InitIInv == ASSUME SsoAssumption, Init PROVE IInv
<1>1. Idle \in CallState
  BY DEF Idle, CallState
<1>2. creds \in Seq([of : Profile \cup Sessions, expires : Nat]) /\ Len(creds) = 0
  BY DEF Init
<1>3. TypeOK
  <2>1. allowed \in [Project -> (SUBSET Profile) \cup {None}]
    BY Zenon DEF Init
  <2>2. cache \in [Profile -> Nat \cup {None}] /\ call \in [Call -> CallState]
    BY <1>1, Zenon DEF Init
  <2>3. now \in Nat
    BY DEF Init
  <2>4. QED
    BY <1>2, <2>1, <2>2, <2>3, Zenon DEF TypeOK
<1>4. \A c \in Call : CallInv(c)
  BY <1>2 DEF Init, Idle, CallInv
<1>5. QED
  BY <1>3, <1>4 DEF Init, IInv

\* Later credentials leave the earlier ones as they are.
LEMMA Kept ==
    ASSUME TypeOK, NEW x \in [of : Profile \cup Sessions, expires : Nat],
           creds' = Append(creds, x)
    PROVE  /\ creds' \in Seq([of : Profile \cup Sessions, expires : Nat])
           /\ Len(creds') = Len(creds) + 1 /\ Len(creds) \in Nat
           /\ creds'[Len(creds')] = x /\ Len(creds') \in DOMAIN creds'
           /\ \A p, n : Fetched(p, n) => Fetched(p, n)'
           /\ \A n \in DOMAIN creds : n \in DOMAIN creds' /\ creds'[n] = creds[n]
BY DEF TypeOK, Fetched

\* A step of one call that issues nothing: the invariant holds again if it holds of the
\* call and of the cache.
LEMMA CallStep ==
    ASSUME SsoAssumption, IInv, NEW c \in Call, NEW r \in CallState,
           call' = [call EXCEPT ![c] = r],
           creds' = creds, UNCHANGED <<allowed, now>>,
           cache' \in [Profile -> Nat \cup {None}],
           \A p \in Profile : cache'[p] # None => Fetched(p, cache'[p]),
           ASSUME call'[c] = r PROVE CallInv(c)'
    PROVE  IInv'
<1>1. call' \in [Call -> CallState] /\ call'[c] = r /\ \A e \in Call \ {c} : call'[e] = call[e]
  BY DEF IInv, TypeOK
<1>2. TypeOK'
  BY <1>1, Zenon DEF IInv, TypeOK
<1>3. \A p, n : Fetched(p, n)' <=> Fetched(p, n)
  BY DEF Fetched
<1>4. ASSUME NEW e \in Call PROVE CallInv(e)'
  <2>1. CASE e = c
    BY <1>1, <2>1
  <2>2. CASE e # c
    <3>1. CallInv(e) /\ call'[e] = call[e]
      BY <1>1, <2>2 DEF IInv
    <3>2. QED
      BY <1>3, <3>1 DEF CallInv
  <2>3. QED
    BY <2>1, <2>2
<1>5. \A p \in Profile : (cache[p] # None => Fetched(p, cache[p]))'
  BY <1>3
<1>6. QED
  BY <1>2, <1>4, <1>5, Zenon DEF IInv

\* A call as it leaves the first critical section.
LEMMA StartedInv ==
    ASSUME SsoAssumption, IInv, NEW c \in Call, NEW q \in Project, NEW p \in Profile,
           NEW op \in {"get", "refresh"}, call' = [call EXCEPT ![c] = Started(op, q, p)],
           UNCHANGED <<allowed, creds, now>>,
           cache' \in [Profile -> Nat \cup {None}],
           \A x \in Profile : cache'[x] # None => Fetched(x, cache'[x])
    PROVE  IInv'
<1>1. TypeOK /\ Len(creds) \in Nat
  BY DEF IInv, TypeOK
<1>2. Idle \in CallState
  BY DEF Idle, CallState
<1>3. CASE ~ Allowed(q, p)
  <2>1. call' = [call EXCEPT ![c] = Idle]
    BY <1>3 DEF Started
  <2>2. ASSUME call'[c] = Idle PROVE CallInv(c)'
    BY <1>1, <2>2 DEF Idle, CallInv
  <2>3. QED
    BY <1>2, <2>1, <2>2, CallStep, Zenon
<1>4. CASE Allowed(q, p) /\ op = "get" /\ Fresh(cache[p])
  <2> DEFINE r == Answer(op, q, p, cache[p])
  <2>1. call' = [call EXCEPT ![c] = r]
    BY <1>4 DEF Started
  <2>2. r \in CallState
    BY <1>1, <1>4 DEF Answer, CallState, TypeOK
  <2>3. ASSUME call'[c] = r PROVE CallInv(c)'
    BY <1>1, <1>4, <2>3 DEF Answer, CallInv
  <2> HIDE DEF r
  <2>4. QED
    BY <2>1, <2>2, <2>3, CallStep, Zenon
<1>5. CASE Allowed(q, p) /\ ~ (op = "get" /\ Fresh(cache[p]))
  <2> DEFINE r == [Answer(op, q, p, None) EXCEPT !.pc = "export"]
  <2>1. call' = [call EXCEPT ![c] = r]
    BY <1>5, Zenon DEF Started
  <2>2. r \in CallState
    BY <1>1, <1>5, Zenon DEF Answer, CallState
  <2>3. ASSUME call'[c] = r PROVE CallInv(c)'
    BY <1>1, <1>5, <2>3 DEF Answer, CallInv
  <2> HIDE DEF r
  <2>4. QED
    BY <2>1, <2>2, <2>3, CallStep, Zenon
<1>6. QED
  BY <1>3, <1>4, <1>5

\* aws issues a credential of `who` to a call that asked for profile p.
LEMMA IssueInv ==
    ASSUME SsoAssumption, IInv, NEW c \in Call, NEW who \in {call[c].p} \cup Sessions,
           call[c].pc \in {"export", "sso"}, Issue(c, who)
    PROVE  IInv'
<1>0. TypeOK /\ CallInv(c) /\ call[c] \in CallState /\ call[c].p \in Profile
  BY DEF IInv, TypeOK, CallInv
<1>1. PICK life \in Lifetimes :
        creds' = Append(creds, [of |-> who, expires |-> IF life = 0 THEN 0 ELSE now + life])
  BY DEF Issue
<1> DEFINE x == [of |-> who, expires |-> IF life = 0 THEN 0 ELSE now + life]
<1>2. x \in [of : Profile \cup Sessions, expires : Nat] /\ x.of = who /\ creds' = Append(creds, x)
  <2>1. who \in Profile \cup Sessions /\ life \in Nat /\ now \in Nat
    BY <1>0, Zenon DEF SsoAssumption, TypeOK
  <2>2. creds' = Append(creds, x)
    BY <1>1, Zenon
  <2>3. x \in [of : Profile \cup Sessions, expires : Nat] /\ x.of = who
    BY ONLY <2>1
  <2>4. QED
    BY <2>2, <2>3, Zenon
<1> HIDE DEF x
<1>3. /\ creds' \in Seq([of : Profile \cup Sessions, expires : Nat])
      /\ Len(creds') = Len(creds) + 1 /\ Len(creds) \in Nat
      /\ creds'[Len(creds')] = x /\ Len(creds') \in DOMAIN creds'
      /\ \A p, n : Fetched(p, n) => Fetched(p, n)'
  BY <1>0, <1>2, Kept, Zenon
<1>4. UNCHANGED <<allowed, cache, now>>
      /\ call' = [call EXCEPT ![c].pc = "store", ![c].got = Len(creds')]
  BY DEF Issue
<1>5. [call[c] EXCEPT !.pc = "store", !.got = Len(creds')] \in CallState
  <2>1. Len(creds') \in Nat \cup {None}
    BY <1>3
  <2>2. QED
    BY <1>0, <2>1, Zenon DEF CallState
<1>6. /\ call' \in [Call -> CallState] /\ \A e \in Call \ {c} : call'[e] = call[e]
      /\ call'[c].pc = "store" /\ call'[c].got = Len(creds') /\ call'[c].op = call[c].op
      /\ call'[c].p = call[c].p /\ call'[c].since = call[c].since
  BY <1>0, <1>4, <1>5 DEF TypeOK, CallState
<1>7. TypeOK'
  BY <1>0, <1>3, <1>4, <1>6, Zenon DEF TypeOK
<1>8. CallInv(c)'
  <2>1. Len(creds') \in DOMAIN creds' /\ creds'[Len(creds')].of \in {call[c].p} \cup Sessions
    BY <1>2, <1>3
  <2>2. Len(creds') # None /\ call[c].since < Len(creds') /\ call[c].since \in Nat
    BY <1>0, <1>3 DEF CallInv, CallState, SsoAssumption
  <2>3. QED
    BY <1>0, <1>3, <1>6, <2>1, <2>2 DEF CallInv, Fetched
<1>9. ASSUME NEW e \in Call \ {c} PROVE CallInv(e)'
  <2>1. CallInv(e) /\ call'[e] = call[e] /\ call[e] \in CallState
    BY <1>0, <1>6 DEF IInv, TypeOK
  <2>2. call[e].since <= Len(creds')
    BY <1>3, <2>1 DEF CallInv, CallState
  <2>3. QED
    BY <1>3, <2>1, <2>2 DEF CallInv
<1>10. \A p \in Profile : (cache[p] # None => Fetched(p, cache[p]))'
  BY <1>3, <1>4 DEF IInv
<1>11. QED
  BY <1>7, <1>8, <1>9, <1>10, Zenon DEF IInv

\* Every step preserves the invariant.
LEMMA NextIInv == ASSUME SsoAssumption, IInv, [Next]_vars PROVE IInv'
<1>0. TypeOK /\ Idle \in CallState /\ Len(creds) \in Nat
  BY DEF IInv, TypeOK, Idle, CallState
<1>1. CASE UNCHANGED vars
  BY <1>1, Zenon DEF vars, IInv, TypeOK, CallInv, Fetched
<1>2. ASSUME NEW c \in Call, NEW q \in Project, NEW p \in Profile, Get(c, q, p) PROVE IInv'
  <2>1. UNCHANGED <<allowed, cache, creds, now>> /\ call' = [call EXCEPT ![c] = Started("get", q, p)]
    BY <1>2 DEF Get
  <2>2. cache' \in [Profile -> Nat \cup {None}]
        /\ \A x \in Profile : cache'[x] # None => Fetched(x, cache'[x])
    BY <1>0, <2>1 DEF IInv, TypeOK
  <2>3. QED
    BY <2>1, <2>2, StartedInv, Zenon
<1>3. ASSUME NEW c \in Call, NEW q \in Project, NEW p \in Profile, Refresh(c, q, p) PROVE IInv'
  <2>1. /\ UNCHANGED <<allowed, creds, now>>
        /\ call' = [call EXCEPT ![c] = Started("refresh", q, p)]
        /\ cache' = [cache EXCEPT ![p] = IF Allowed(q, p) THEN None ELSE @]
    BY <1>3 DEF Refresh
  <2>2. cache' \in [Profile -> Nat \cup {None}]
        /\ \A x \in Profile : cache'[x] \in {cache[x], None}
    BY <1>0, <2>1 DEF TypeOK
  <2>3. \A x \in Profile : cache'[x] # None => Fetched(x, cache'[x])
    BY <2>2 DEF IInv
  <2>4. QED
    BY <2>1, <2>2, <2>3, StartedInv, Zenon
<1>4. ASSUME NEW c \in Call, ExportCredentials(c) PROVE IInv'
  BY <1>4, IssueInv DEF ExportCredentials
<1>5. ASSUME NEW c \in Call, SsoCredentials(c) PROVE IInv'
  BY <1>5, IssueInv DEF SsoCredentials
<1>6. ASSUME NEW c \in Call, ExportFails(c) PROVE IInv'
  <2> DEFINE r == [call[c] EXCEPT !.pc = "sso"]
  <2>1. call[c].pc = "export" /\ UNCHANGED <<allowed, cache, creds, now>>
    BY <1>6 DEF ExportFails
  <2>2. call[c] \in CallState /\ CallInv(c)
    BY <1>0 DEF IInv, TypeOK
  <2>3. r \in CallState /\ call' = [call EXCEPT ![c] = r]
    BY <1>6, <2>2 DEF CallState, ExportFails
  <2>4. ASSUME call'[c] = r PROVE CallInv(c)'
    <3>1. /\ call'[c].pc = "sso" /\ call'[c].got = call[c].got /\ call'[c].op = call[c].op
          /\ call'[c].p = call[c].p /\ call'[c].since = call[c].since
      BY <2>2, <2>4 DEF CallState
    <3>2. QED
      BY <2>1, <2>2, <3>1 DEF CallInv
  <2> HIDE DEF r
  <2>5. QED
    BY <2>1, <2>3, <2>4, CallStep, Zenon DEF IInv, TypeOK
<1>7. ASSUME NEW c \in Call, SsoFails(c) \/ Return(c) PROVE IInv'
  <2>1. UNCHANGED <<allowed, cache, creds, now>> /\ call' = [call EXCEPT ![c] = Idle]
    BY <1>7 DEF SsoFails, Return
  <2>2. ASSUME call'[c] = Idle PROVE CallInv(c)'
    BY <1>0, <2>1, <2>2 DEF Idle, CallInv
  <2>3. QED
    BY <1>0, <2>1, <2>2, CallStep, Zenon DEF IInv, TypeOK
<1>8. ASSUME NEW c \in Call, Store(c) PROVE IInv'
  <2> DEFINE r == [call[c] EXCEPT !.pc = "served"]
  <2>1. /\ call[c].pc = "store" /\ UNCHANGED <<allowed, creds, now>>
        /\ cache' = [cache EXCEPT ![call[c].p] = call[c].got]
    BY <1>8 DEF Store
  <2>2. call[c] \in CallState /\ CallInv(c)
    BY <1>0 DEF IInv, TypeOK
  <2>3. call[c].p \in Profile /\ Fetched(call[c].p, call[c].got)
    BY <2>1, <2>2 DEF CallInv
  <2>4. r \in CallState /\ call' = [call EXCEPT ![c] = r]
    BY <1>8, <2>2 DEF CallState, Store
  <2>5. ASSUME call'[c] = r PROVE CallInv(c)'
    <3>1. /\ call'[c].pc = "served" /\ call'[c].got = call[c].got /\ call'[c].op = call[c].op
          /\ call'[c].p = call[c].p /\ call'[c].since = call[c].since
      BY <2>2, <2>5 DEF CallState
    <3>2. QED
      BY <2>1, <2>2, <3>1 DEF CallInv
  <2>6. cache' \in [Profile -> Nat \cup {None}]
    <3>1. call[c].got \in Nat \cup {None}
      BY <2>2 DEF CallState
    <3>2. QED
      BY <1>0, <2>1, <3>1, Zenon DEF TypeOK
  <2>7. \A p \in Profile : cache'[p] # None => Fetched(p, cache'[p])
    BY <1>0, <2>1, <2>3 DEF TypeOK, IInv
  <2> HIDE DEF r
  <2>8. QED
    BY <2>1, <2>4, <2>5, <2>6, <2>7, CallStep, Zenon
<1>9. ASSUME NEW q \in Project, ContainerSpec(q) PROVE IInv'
  <2>1. allowed' \in [Project -> (SUBSET Profile) \cup {None}] /\ UNCHANGED <<cache, creds, now, call>>
    BY <1>0, <1>9 DEF ContainerSpec, TypeOK, SsoAssumption
  <2>2. QED
    BY <2>1, Zenon DEF IInv, TypeOK, CallInv, Fetched
<1>10. ASSUME Tick PROVE IInv'
  <2>1. now' \in Nat /\ UNCHANGED <<allowed, cache, creds, call>>
    BY <1>0, <1>10 DEF Tick, TypeOK
  <2>2. QED
    BY <2>1, Zenon DEF IInv, TypeOK, CallInv, Fetched
<1>11. QED
  BY <1>1, <1>2, <1>3, <1>4, <1>5, <1>6, <1>7, <1>8, <1>9, <1>10 DEF Next, Step

\* The invariant of the calls and the cache.
LEMMA Invariant == ASSUME SsoAssumption PROVE Spec => []IInv
<1>1. Init => IInv
  BY InitIInv
<1>2. IInv /\ [Next]_vars => IInv'
  BY NextIInv
<1>3. QED
  BY <1>1, <1>2, PTL DEF Spec

\* Only a Get that finds a fresh entry of an allowed profile answers at once.
LEMMA AnsweredAtOnce ==
    ASSUME IInv, [Next]_vars, NEW c \in Call, Answers(c), call[c].pc = "idle"
    PROVE  /\ Allowed(call'[c].q, call'[c].p)
           /\ now + Margin < creds[call'[c].got].expires
<1>0. call \in [Call -> CallState]
  BY DEF IInv, TypeOK
<1>1. call'[c].pc = "served"
  BY DEF Answers
<1>2. \E q \in Project, p \in Profile : Get(c, q, p) \/ Refresh(c, q, p)
  <2>1. ASSUME NEW e \in Call, Step(e) PROVE call'[c] = call[c] \/ call'[c].pc # "served"
    <3>1. call[e].pc # "idle" /\ e # c
      BY <2>1 DEF Step, ExportCredentials, ExportFails, SsoCredentials, SsoFails, Store, Return
    <3>2. \E r : call' = [call EXCEPT ![e] = r]
      BY <2>1, <1>0
         DEF Step, ExportCredentials, ExportFails, SsoCredentials, SsoFails, Store, Return, Issue
    <3>3. QED
      BY <1>0, <3>1, <3>2
  <2>2. ASSUME NEW e \in Call, NEW q \in Project, NEW p \in Profile, Get(e, q, p) \/ Refresh(e, q, p),
               e # c
        PROVE  call'[c] = call[c]
    BY <1>0, <2>2 DEF Get, Refresh
  <2>3. CASE UNCHANGED call
    BY <1>1, <2>3
  <2>4. QED
    BY <1>1, <2>1, <2>2, <2>3 DEF Next, vars, ContainerSpec, Tick
<1>3. PICK q \in Project, p \in Profile : Get(c, q, p) \/ Refresh(c, q, p)
  BY <1>2
<1>4. \E op \in {"get", "refresh"} : call'[c] = Started(op, q, p)
  BY <1>0, <1>3 DEF Get, Refresh
<1>5. call'[c] = Answer("get", q, p, cache[p]) /\ Allowed(q, p) /\ Fresh(cache[p])
  BY <1>1, <1>4 DEF Started, Idle, Answer
<1>6. call'[c].q = q /\ call'[c].p = p /\ call'[c].got = cache[p]
  BY <1>5 DEF Answer
<1>7. QED
  BY <1>5, <1>6 DEF Fresh

\* What awssso answers is allowed, fresh and of the profile, and a refresh never returns what
\* was cached before it.
THEOREM SsoAnswersAreDue == ASSUME SsoAssumption PROVE Spec => AnswersAreDue
<1>1. IInv => CacheHoldsItsProfile /\ RefreshBypassesTheCache
  BY DEF IInv, CallInv, Fetched, CacheHoldsItsProfile, RefreshBypassesTheCache
<1>2. IInv /\ [Next]_vars =>
        [\A c \in Call : Answers(c) /\ call[c].pc = "idle" => Allowed(call'[c].q, call'[c].p)]_vars
  BY AnsweredAtOnce
<1>3. IInv /\ [Next]_vars =>
        [\A c \in Call : Answers(c) /\ call[c].pc = "idle" =>
           now + Margin < creds[call'[c].got].expires]_vars
  BY AnsweredAtOnce
<1>4. Spec => []IInv
  BY Invariant
<1>5. Spec => CacheServesTheAllowed
  BY <1>2, <1>4, PTL DEF Spec, CacheServesTheAllowed
<1>6. Spec => CacheServesTheFresh
  BY <1>3, <1>4, PTL DEF Spec, CacheServesTheFresh
<1>7. Spec => []CacheHoldsItsProfile /\ []RefreshBypassesTheCache
  BY <1>1, <1>4, PTL
<1>8. QED
  BY <1>4, <1>5, <1>6, <1>7 DEF AnswersAreDue

-----------------------------------------------------------------------
(* gcloudcli.                                                             *)

\* The initial states satisfy the invariant.
LEMMA GInit == ASSUME GcloudAssumption, GcloudInit PROVE GcloudInv
<1>1. IdleThread \in ThreadState
  BY DEF IdleThread, ThreadState
<1>2. /\ gcp \in [GcpProject -> GCPConfig] /\ target \in [GcpProject -> Targets \cup {NoTarget}]
      /\ file \in [GcpProject -> Seq(Nat)] /\ thread \in [Thread -> ThreadState]
      /\ overlapped \subseteq GcpProject /\ cancelled \in BOOLEAN
  <2>1. <<>> \in Seq(Nat)
    OBVIOUS
  <2>2. QED
    BY <1>1, <2>1, Zenon DEF GcloudInit
<1>3. servers \in [GcpProject -> Nat] /\ async \in [GcpProject -> Nat]
  BY DEF GcloudInit
<1>4. /\ issued \in Seq({PrintedFor(tt) : tt \in Targets}) /\ Len(issued) <= Len(TokenLen)
  BY DEF GcloudInit, GcloudAssumption
<1>5. GcloudTypeOK
  BY <1>2, <1>3, <1>4, Zenon DEF GcloudTypeOK
<1>6. RegisteredIsServed
  BY DEF GcloudInit, RegisteredIsServed
<1>7. \A t \in Thread : ThreadInv(t) /\ WriterInv(t)
  BY DEF GcloudInit, IdleThread, ThreadInv, WriterInv
<1>8. \A p \in GcpProject : FileInv(p) /\ file[p] = <<>>
  <2>1. \A p \in GcpProject : file[p] = <<>>
    BY Zenon DEF GcloudInit
  <2>2. DOMAIN <<>> = {}
    BY ONLY SMT
  <2>3. QED
    BY <2>1, <2>2, Zenon DEF FileInv
<1>9. QED
  BY <1>5, <1>6, <1>7, <1>8, Zenon DEF GcloudInv, WholeUnlessOverlapped

\* The files of a step that touches none of them, and lets nobody begin to write.
LEMMA GFilesKept ==
    ASSUME GcloudInv, UNCHANGED <<file, overlapped>>,
           \A n \in DOMAIN issued : n \in DOMAIN issued',
           \A e \in Thread : thread'[e].pc = "write" => thread'[e] = thread[e]
    PROVE  WholeUnlessOverlapped' /\ \A e \in Thread : WriterInv(e)'
<1>1. WholeUnlessOverlapped'
  BY ZenonT(30) DEF GcloudInv, WholeUnlessOverlapped, Whole, Cells
<1>2. ASSUME NEW e \in Thread PROVE WriterInv(e)'
  <2>1. WriterInv(e)
    BY DEF GcloudInv
  <2>2. QED
    BY <2>1, Zenon DEF WriterInv, Writing
<1>3. QED
  BY <1>1, <1>2

\* A step of one goroutine that leaves the targets, servers, files and tokens alone.
LEMMA GThreadStep ==
    ASSUME GcloudInv, NEW t \in Thread, NEW r \in ThreadState,
           thread' = [thread EXCEPT ![t] = r],
           UNCHANGED <<gcp, target, servers, file, overlapped, issued, cancelled>>,
           async' \in [GcpProject -> Nat],
           ASSUME thread'[t] = r PROVE ThreadInv(t)' /\ r.pc # "write"
    PROVE  GcloudInv'
<1>1. thread' \in [Thread -> ThreadState] /\ thread'[t] = r
      /\ \A e \in Thread \ {t} : thread'[e] = thread[e]
  BY DEF GcloudInv, GcloudTypeOK
<1>2. GcloudTypeOK'
  BY <1>1, Zenon DEF GcloudInv, GcloudTypeOK
<1>3. ASSUME NEW e \in Thread PROVE ThreadInv(e)'
  <2>1. CASE e = t
    BY <1>1, <2>1
  <2>2. CASE e # t
    <3>1. ThreadInv(e) /\ thread'[e] = thread[e]
      BY <1>1, <2>2 DEF GcloudInv
    <3>2. QED
      BY <3>1, Zenon DEF ThreadInv, TokenOf, Printed
  <2>3. QED
    BY <2>1, <2>2
<1>4. RegisteredIsServed' /\ \A p \in GcpProject : FileInv(p)'
  BY Zenon DEF GcloudInv, RegisteredIsServed, FileInv, TokenOf, Printed
<1>5. WholeUnlessOverlapped' /\ \A e \in Thread : WriterInv(e)'
  <2>1. \A e \in Thread : thread'[e].pc = "write" => thread'[e] = thread[e]
    BY <1>1
  <2>2. QED
    BY <2>1, GFilesKept, Zenon
<1>6. QED
  BY <1>2, <1>3, <1>4, <1>5, Zenon DEF GcloudInv

\* The end of a call or of one round of the sweep.
Ended(t, r) ==
    /\ thread' = [thread EXCEPT ![t] = r]
    /\ r.pc \in {"idle", "done", "next"}
    /\ r.pc = "next" => r.op = "sweep"
    /\ r.pc = "done" => r.p \in GcpProject
    /\ r.tok = 0 \/ (r.tok = thread[t].tok /\ r.p = thread[t].p)

\* A call that is done leaves its goroutine idle, in the next step of its sweep, or returning.
LEMMA GEnds ==
    ASSUME GcloudInv, NEW t \in Thread, NEW x \in {"ok", "error", "answered", "zero or error"},
           thread[t].pc # "idle", Done(t, x) \/ Finish(t, x)
    PROVE  \E r \in ThreadState : Ended(t, r)
<1>0. thread \in [Thread -> ThreadState] /\ thread[t] \in ThreadState /\ ThreadInv(t)
  BY Zenon DEF GcloudInv, GcloudTypeOK
<1>1. CASE thread' = [thread EXCEPT ![t] = IdleThread]
  <2>1. IdleThread \in ThreadState /\ IdleThread.pc = "idle" /\ IdleThread.tok = 0
    BY Zenon DEF IdleThread, ThreadState
  <2>2. QED
    BY <1>1, <2>1, Zenon DEF Ended
<1>2. CASE /\ thread[t].op = "materialize"
           /\ thread' = [thread EXCEPT ![t] = [thread[t] EXCEPT !.pc = "done", !.res = x]]
  <2> DEFINE r == [thread[t] EXCEPT !.pc = "done", !.res = x]
  <2>1. r \in ThreadState
    BY <1>0, ZenonT(30) DEF ThreadState
  <2>2. r.pc = "done" /\ r.p = thread[t].p /\ r.tok = thread[t].tok
    BY <1>0, Zenon DEF ThreadState
  <2>3. thread[t].p \in GcpProject
    BY <1>0, <1>2, Zenon DEF ThreadInv
  <2> HIDE DEF r
  <2>4. QED
    BY <1>2, <2>1, <2>2, <2>3, Zenon DEF Ended, r
<1>3. CASE thread[t].op = "sweep" /\ thread' = [thread EXCEPT ![t].pc = "next"]
  <2> DEFINE r == [thread[t] EXCEPT !.pc = "next"]
  <2>1. r \in ThreadState /\ thread' = [thread EXCEPT ![t] = r]
    BY <1>0, <1>3, Zenon DEF ThreadState
  <2>2. r.pc = "next" /\ r.p = thread[t].p /\ r.tok = thread[t].tok /\ r.op = "sweep"
    BY <1>0, <1>3, Zenon DEF ThreadState
  <2> HIDE DEF r
  <2>3. QED
    BY <2>1, <2>2, Zenon DEF Ended
<1>4. Done(t, x) => thread' = [thread EXCEPT ![t] = IF thread[t].op = "materialize"
                        THEN [thread[t] EXCEPT !.pc = "done", !.res = x] ELSE IdleThread]
  BY Zenon DEF Done
<1>5. Done(t, x) \/ (thread[t].op = "sweep" /\ thread' = [thread EXCEPT ![t].pc = "next"])
  BY Zenon DEF Finish, Goto
<1>6. QED
  BY <1>1, <1>2, <1>3, <1>4, <1>5, Zenon

\* What the invariant asks of a goroutine whose call or round has ended.
LEMMA GEndedInv ==
    ASSUME NEW t \in Thread, NEW r \in ThreadState, Ended(t, r), thread'[t] = r,
           thread[t].tok # 0 => TokenOf(thread[t].p, thread[t].tok),
           \A p, n : TokenOf(p, n) => TokenOf(p, n)'
    PROVE  ThreadInv(t)' /\ r.pc # "write"
BY DEF ThreadInv, Ended

\* A call or a round that ends and changes nothing else.
LEMMA GEndStep ==
    ASSUME GcloudInv, NEW t \in Thread, NEW x \in {"ok", "error", "answered", "zero or error"},
           thread[t].pc # "idle", Done(t, x) \/ Finish(t, x),
           UNCHANGED <<gcp, target, servers, file, overlapped, issued, async, cancelled>>
    PROVE  GcloudInv'
<1>1. PICK r \in ThreadState : Ended(t, r)
  BY GEnds, Zenon
<1>2. thread[t].tok # 0 => TokenOf(thread[t].p, thread[t].tok)
  BY Zenon DEF GcloudInv, ThreadInv
<1>3. \A p, n : TokenOf(p, n) => TokenOf(p, n)'
  BY ZenonT(30) DEF TokenOf, Printed
<1>4. ASSUME thread'[t] = r PROVE ThreadInv(t)' /\ r.pc # "write"
  BY <1>1, <1>2, <1>3, <1>4, GEndedInv, Zenon
<1>5. async' \in [GcpProject -> Nat]
  BY Zenon DEF GcloudInv, GcloudTypeOK
<1>6. QED
  BY <1>1, <1>4, <1>5, GThreadStep, Zenon DEF Ended

\* Calls begin in a state that holds no token.
LEMMA GBegin ==
    ASSUME GcloudInv, NEW t \in Thread, NEW r \in ThreadState, Begin(t, r),
           UNCHANGED <<gcp, target, servers, file, overlapped, issued, cancelled>>,
           async' \in [GcpProject -> Nat],
           r.tok = 0, r.pc \in {"ensure", "lookup", "next", "serve"},
           r.pc = "next" => r.op = "sweep", r.pc # "next" => r.p \in GcpProject,
           r.pc = "ensure" => r.cfg \in GCPConfig, r.pc = "serve" => target[r.p] # NoTarget
    PROVE  GcloudInv'
<1>1. thread' = [thread EXCEPT ![t] = r]
  BY DEF Begin
<1>2. ASSUME thread'[t] = r PROVE ThreadInv(t)' /\ r.pc # "write"
  BY <1>2 DEF ThreadInv
<1>3. QED
  BY <1>1, <1>2, GThreadStep, Zenon

-----------------------------------------------------------------------
\* The beginnings of calls.
LEMMA GBegins ==
    ASSUME GcloudInv, NEW t \in Thread, NEW p \in GcpProject,
           GcpContainerSpec(t, p) \/ Materialize(t, p) \/ AsyncMaterialize(t, p)
             \/ Request(t, p)
    PROVE  GcloudInv'
<1>0. GcloudTypeOK /\ IdleThread \in ThreadState
  BY DEF GcloudInv, IdleThread, ThreadState
<1>1. CASE GcpContainerSpec(t, p)
  <2> DEFINE r == [IdleThread EXCEPT !.op = "spec", !.p = p, !.cfg = gcp[p], !.pc = "ensure"]
  <2>1. r \in ThreadState
    BY <1>0, Zenon DEF ThreadState, IdleThread, GcloudTypeOK
  <2>2. r.tok = 0 /\ r.pc = "ensure" /\ r.p = p /\ r.cfg \in GCPConfig
    BY <1>0 DEF IdleThread, GcloudTypeOK
  <2>3. Begin(t, r) /\ UNCHANGED <<gcp, target, servers, file, overlapped, issued, cancelled>> /\ async' = async
    BY <1>1 DEF GcpContainerSpec, shared
  <2> HIDE DEF r
  <2>4. QED
    BY <1>0, <2>1, <2>2, <2>3, GBegin, Zenon DEF GcloudTypeOK
<1>2. CASE Materialize(t, p)
  <2> DEFINE r == [IdleThread EXCEPT !.op = "materialize", !.p = p, !.pc = "lookup"]
  <2>1. r \in ThreadState /\ r.tok = 0 /\ r.pc = "lookup" /\ r.p = p
    BY <1>0, Zenon DEF ThreadState, IdleThread
  <2>2. Begin(t, r) /\ UNCHANGED <<gcp, target, servers, file, overlapped, issued, cancelled>> /\ async' = async
    BY <1>2 DEF Materialize, shared
  <2> HIDE DEF r
  <2>3. QED
    BY <1>0, <2>1, <2>2, GBegin, Zenon DEF GcloudTypeOK
<1>3. CASE AsyncMaterialize(t, p)
  <2> DEFINE r == [IdleThread EXCEPT !.op = "async", !.p = p, !.pc = "lookup"]
  <2>1. r \in ThreadState /\ r.tok = 0 /\ r.pc = "lookup" /\ r.p = p
    BY <1>0, Zenon DEF ThreadState, IdleThread
  <2>2. Begin(t, r) /\ UNCHANGED <<gcp, target, servers, file, overlapped, issued, cancelled>>
    BY <1>3 DEF AsyncMaterialize
  <2>3. async' \in [GcpProject -> Nat]
    BY <1>0, <1>3 DEF AsyncMaterialize, GcloudTypeOK
  <2> HIDE DEF r
  <2>4. QED
    BY <2>1, <2>2, <2>3, GBegin
<1>4. CASE Request(t, p)
  <2> DEFINE r == [IdleThread EXCEPT !.op = "request", !.p = p, !.pc = "serve"]
  <2>1. r \in ThreadState /\ r.tok = 0 /\ r.pc = "serve" /\ r.p = p
    BY <1>0, Zenon DEF ThreadState, IdleThread
  <2>2. Begin(t, r) /\ UNCHANGED <<gcp, target, servers, file, overlapped, issued, cancelled>> /\ async' = async
    BY <1>4 DEF Request, shared
  \* Only a registered project has a server.
  <2>3. target[p] # NoTarget
    BY <1>4 DEF Request, GcloudInv, RegisteredIsServed
  <2> HIDE DEF r
  <2>4. QED
    BY <1>0, <2>1, <2>2, <2>3, GBegin, Zenon DEF GcloudTypeOK
<1>5. QED
  BY <1>1, <1>2, <1>3, <1>4

\* A sweep begins with the projects that are registered.
LEMMA GSweepBegins == ASSUME GcloudInv, NEW t \in Thread, RefreshAll(t) PROVE GcloudInv'
<1>0. GcloudTypeOK /\ IdleThread \in ThreadState
  BY DEF GcloudInv, IdleThread, ThreadState
<1> DEFINE r == [IdleThread EXCEPT !.op = "sweep", !.pc = "next",
                               !.left = {q \in GcpProject : target[q] # NoTarget}]
<1>1. r \in ThreadState
  BY <1>0, Zenon DEF ThreadState, IdleThread
<1>2. r.tok = 0 /\ r.pc = "next" /\ r.op = "sweep"
  BY DEF IdleThread
<1>3. Begin(t, r) /\ UNCHANGED <<gcp, target, servers, file, overlapped, issued, cancelled>> /\ async' = async
  BY DEF RefreshAll, shared
<1> HIDE DEF r
<1>4. QED
  BY <1>0, <1>1, <1>2, <1>3, GBegin, Zenon DEF GcloudTypeOK

\* A step that only moves a goroutine on, past the writing.
LEMMA GGoto ==
    ASSUME GcloudInv, NEW t \in Thread, thread[t].pc \notin {"idle", "next"},
           NEW label \in {"config", "fetch"}, Goto(t, label),
           UNCHANGED <<gcp, target, servers, file, overlapped, issued, async, cancelled>>,
           label = "fetch" => target[thread[t].p] # NoTarget
    PROVE  GcloudInv'
<1>0. thread[t] \in ThreadState /\ ThreadInv(t) /\ async' \in [GcpProject -> Nat]
  BY DEF GcloudInv, GcloudTypeOK
<1> DEFINE r == [thread[t] EXCEPT !.pc = label]
<1>1. r \in ThreadState /\ thread' = [thread EXCEPT ![t] = r]
  BY <1>0, Zenon DEF ThreadState, Goto
<1>2. r.pc = label /\ r.p = thread[t].p /\ r.tok = thread[t].tok /\ r.cfg = thread[t].cfg
  BY <1>0, Zenon DEF ThreadState
<1> HIDE DEF r
<1>3. \A p, n : TokenOf(p, n) => TokenOf(p, n)'
  BY DEF TokenOf, Printed
<1>4. ASSUME thread'[t] = r PROVE ThreadInv(t)' /\ r.pc # "write"
  BY <1>0, <1>2, <1>3, <1>4 DEF ThreadInv
<1>5. QED
  BY <1>0, <1>1, <1>4, GThreadStep, Zenon

\* ensureMetadataServer: a project that is registered keeps its target, so nothing that was
\* printed for it changes hands.
LEMMA GEnsure == ASSUME GcloudAssumption, GcloudInv, NEW t \in Thread, Ensure(t) PROVE GcloudInv'
<1> DEFINE p == thread[t].p
<1>0. GcloudTypeOK /\ thread[t] \in ThreadState /\ ThreadInv(t) /\ thread[t].pc = "ensure"
  BY DEF GcloudInv, GcloudTypeOK, Ensure
<1>1. p \in GcpProject /\ thread[t].cfg \in GCPConfig
  BY <1>0 DEF ThreadInv
<1>2. Registered(thread[t].cfg) \in Targets /\ Registered(thread[t].cfg) # NoTarget
  BY <1>1 DEF Targets, GcloudAssumption
<1>3. PICK bound \in BOOLEAN :
        /\ bound => target[p] = NoTarget
        /\ target' = [target EXCEPT ![p] = IF bound THEN Registered(thread[t].cfg) ELSE @]
        /\ servers' = [servers EXCEPT ![p] = IF bound /\ ~ cancelled THEN @ + 1 ELSE @]
  BY Zenon DEF Ensure
<1>4. UNCHANGED <<gcp, file, overlapped, issued, async, wired, cancelled>> /\ Goto(t, "config")
  BY DEF Ensure
<1>5. /\ target' \in [GcpProject -> Targets \cup {NoTarget}]
      /\ \A q \in GcpProject : target'[q] = target[q] \/ (target[q] = NoTarget /\ target'[q] # NoTarget)
  BY <1>0, <1>1, <1>2, <1>3 DEF GcloudTypeOK
<1>6. servers' \in [GcpProject -> Nat] /\ RegisteredIsServed'
  BY <1>0, <1>1, <1>2, <1>3, <1>4 DEF GcloudTypeOK, GcloudInv, RegisteredIsServed
<1>7. \A q, n : TokenOf(q, n) => TokenOf(q, n)'
  BY <1>4, <1>5 DEF TokenOf, Printed
<1> DEFINE r == [thread[t] EXCEPT !.pc = "config"]
<1>8. r \in ThreadState /\ thread' = [thread EXCEPT ![t] = r]
  BY <1>0, <1>4, Zenon DEF ThreadState, Goto
<1>9. r.pc = "config" /\ r.p = thread[t].p /\ r.tok = thread[t].tok
  BY <1>0, Zenon DEF ThreadState
<1> HIDE DEF r
<1>10. thread' \in [Thread -> ThreadState] /\ thread'[t] = r
       /\ \A e \in Thread \ {t} : thread'[e] = thread[e]
  BY <1>0, <1>8 DEF GcloudTypeOK
<1>11. GcloudTypeOK'
  BY <1>0, <1>4, <1>5, <1>6, <1>10, Zenon DEF GcloudTypeOK
<1>12. ASSUME NEW e \in Thread PROVE ThreadInv(e)'
  <2>1. CASE e = t
    BY <1>0, <1>1, <1>7, <1>9, <1>10, <2>1 DEF ThreadInv
  <2>2. CASE e # t
    <3>1. ThreadInv(e) /\ thread'[e] = thread[e]
      BY <1>10, <2>2 DEF GcloudInv
    <3>2. QED
      BY <1>5, <1>7, <3>1 DEF ThreadInv
  <2>3. QED
    BY <2>1, <2>2
<1>13. \A q \in GcpProject : FileInv(q)'
  BY <1>4, <1>7 DEF GcloudInv, FileInv
<1>14. WholeUnlessOverlapped' /\ \A e \in Thread : WriterInv(e)'
  <2>1. \A e \in Thread : thread'[e].pc = "write" => thread'[e] = thread[e]
    BY <1>9, <1>10
  <2>2. QED
    BY <1>4, <2>1, GFilesKept, Zenon
<1>15. QED
  BY <1>6, <1>11, <1>12, <1>13, <1>14, Zenon DEF GcloudInv

\* gcloud prints a token for a registered project: the goroutine holds it, as it does what
\* comes next.
LEMMA GIssued ==
    ASSUME GcloudAssumption, GcloudInv, NEW t \in Thread, thread[t].pc \in {"fetch", "serve"},
           Len(issued) < Len(TokenLen), issued' = Append(issued, Printed(thread[t].p)),
           NEW r \in ThreadState, thread' = [thread EXCEPT ![t] = r],
           r.p = thread[t].p, r.tok = Len(issued'), r.pc \in {"open", "done"},
           UNCHANGED <<gcp, target, servers, file, overlapped, cancelled>>, async' \in [GcpProject -> Nat]
    PROVE  GcloudInv'
<1> DEFINE p == thread[t].p
<1>0. GcloudTypeOK /\ ThreadInv(t) /\ p \in GcpProject /\ target[p] # NoTarget
  BY DEF GcloudInv, ThreadInv
<1>1. Printed(p) \in {PrintedFor(tt) : tt \in Targets}
  BY <1>0 DEF Printed, GcloudTypeOK
<1>2. /\ issued' \in Seq({PrintedFor(tt) : tt \in Targets})
      /\ Len(issued') = Len(issued) + 1 /\ Len(issued) \in Nat
      /\ issued'[Len(issued')] = Printed(p) /\ Len(issued') \in DOMAIN issued'
      /\ \A n \in DOMAIN issued : n \in DOMAIN issued' /\ issued'[n] = issued[n]
  BY <1>0, <1>1 DEF GcloudTypeOK
<1>3. Len(issued') <= Len(TokenLen)
  BY <1>2 DEF GcloudAssumption
<1>4. thread' \in [Thread -> ThreadState] /\ thread'[t] = r
      /\ \A e \in Thread \ {t} : thread'[e] = thread[e]
  BY <1>0 DEF GcloudTypeOK
<1>5. GcloudTypeOK'
  BY <1>0, <1>2, <1>3, <1>4, Zenon DEF GcloudTypeOK
<1>6. \A q, n : TokenOf(q, n) => TokenOf(q, n)'
  BY <1>2 DEF TokenOf, Printed
<1>7. TokenOf(p, r.tok)'
  BY <1>0, <1>2 DEF TokenOf, Printed
<1>8. ASSUME NEW e \in Thread PROVE ThreadInv(e)'
  <2>1. CASE e = t
    BY <1>0, <1>2, <1>4, <1>7, <2>1 DEF ThreadInv
  <2>2. CASE e # t
    <3>1. ThreadInv(e) /\ thread'[e] = thread[e]
      BY <1>4, <2>2 DEF GcloudInv
    <3>2. QED
      BY <1>6, <3>1 DEF ThreadInv
  <2>3. QED
    BY <2>1, <2>2
<1>9. \A q \in GcpProject : FileInv(q)'
  BY <1>6 DEF GcloudInv, FileInv
<1>10. RegisteredIsServed'
  BY Zenon DEF GcloudInv, RegisteredIsServed
<1>11. WholeUnlessOverlapped' /\ \A e \in Thread : WriterInv(e)'
  <2>1. \A e \in Thread : thread'[e].pc = "write" => thread'[e] = thread[e]
    BY <1>4
  <2>2. QED
    BY <1>2, <2>1, GFilesKept, Zenon
<1>12. QED
  BY <1>5, <1>8, <1>9, <1>10, <1>11, Zenon DEF GcloudInv

\* gcloud prints a token for the target.
LEMMA GFetch == ASSUME GcloudAssumption, GcloudInv, NEW t \in Thread, Fetch(t) PROVE GcloudInv'
<1>0. GcloudTypeOK /\ thread[t] \in ThreadState /\ thread[t].pc = "fetch"
  BY DEF GcloudInv, GcloudTypeOK, Fetch
<1>1. /\ Len(issued) < Len(TokenLen) /\ issued' = Append(issued, Printed(thread[t].p))
      /\ UNCHANGED <<gcp, target, servers, file, overlapped, async, cancelled>>
      /\ thread' = [thread EXCEPT ![t].tok = Len(issued'), ![t].pc = "open"]
  BY DEF Fetch
<1>2. Len(issued') \in Nat
  <2>1. ThreadInv(t) /\ thread[t].p \in GcpProject /\ target[thread[t].p] # NoTarget
    BY <1>0 DEF GcloudInv, ThreadInv
  <2>2. Printed(thread[t].p) \in {PrintedFor(tt) : tt \in Targets}
    BY <1>0, <2>1 DEF Printed, GcloudTypeOK
  <2>3. QED
    BY <1>0, <1>1, <2>2 DEF GcloudTypeOK
<1> DEFINE r == [thread[t] EXCEPT !.tok = Len(issued'), !.pc = "open"]
<1>3. r \in ThreadState
  BY <1>0, <1>2, Zenon DEF ThreadState
<1>4. r.p = thread[t].p /\ r.tok = Len(issued') /\ r.pc = "open"
  BY <1>0, Zenon DEF ThreadState
<1>5. thread' = [thread EXCEPT ![t] = r] /\ async' \in [GcpProject -> Nat]
  BY <1>0, <1>1, Zenon DEF GcloudTypeOK
<1> HIDE DEF r
<1>6. QED
  BY <1>0, <1>1, <1>3, <1>4, <1>5, GIssued, Zenon

\* The metadata server answers with a token of the project.
LEMMA GServeToken ==
    ASSUME GcloudAssumption, GcloudInv, NEW t \in Thread, ServeToken(t) PROVE GcloudInv'
<1>0. GcloudTypeOK /\ thread[t] \in ThreadState /\ thread[t].pc = "serve"
  BY DEF GcloudInv, GcloudTypeOK, ServeToken
<1>1. /\ Len(issued) < Len(TokenLen) /\ issued' = Append(issued, Printed(thread[t].p))
      /\ UNCHANGED <<gcp, target, servers, file, overlapped, cancelled>>
      /\ thread' = [thread EXCEPT ![t].tok = Len(issued'), ![t].pc = "done", ![t].res = "answered"]
      /\ async' = [async EXCEPT ![thread[t].p] = @ + 1]
  BY DEF ServeToken
<1>2. Len(issued') \in Nat
  <2>1. ThreadInv(t) /\ thread[t].p \in GcpProject /\ target[thread[t].p] # NoTarget
    BY <1>0 DEF GcloudInv, ThreadInv
  <2>2. Printed(thread[t].p) \in {PrintedFor(tt) : tt \in Targets}
    BY <1>0, <2>1 DEF Printed, GcloudTypeOK
  <2>3. QED
    BY <1>0, <1>1, <2>2 DEF GcloudTypeOK
<1> DEFINE r == [thread[t] EXCEPT !.tok = Len(issued'), !.pc = "done", !.res = "answered"]
<1>3. r \in ThreadState
  BY <1>0, <1>2, Zenon DEF ThreadState
<1>4. r.p = thread[t].p /\ r.tok = Len(issued') /\ r.pc = "done"
  BY <1>0, Zenon DEF ThreadState
<1>5. thread' = [thread EXCEPT ![t] = r]
  BY <1>0, <1>1, Zenon DEF GcloudTypeOK
<1>6. async' \in [GcpProject -> Nat]
  <2>1. async \in [GcpProject -> Nat] /\ async' = [async EXCEPT ![thread[t].p] = @ + 1]
    BY <1>0, <1>1 DEF GcloudTypeOK
  <2>2. thread[t].p \in GcpProject
    BY <1>0 DEF GcloudInv, ThreadInv
  <2>3. QED
    BY ONLY <2>1, <2>2
<1> HIDE DEF r
<1>7. QED
  BY <1>0, <1>1, <1>3, <1>4, <1>5, <1>6, GIssued, Zenon

\* os.WriteFile: the file is emptied, and then holds the cells of one token, or of two that
\* were both printed for the project.
LEMMA GOpenFile == ASSUME GcloudInv, NEW t \in Thread, OpenFile(t) PROVE GcloudInv'
<1> DEFINE p == thread[t].p
<1>0. /\ GcloudTypeOK /\ thread[t] \in ThreadState /\ ThreadInv(t)
      /\ thread[t].pc = "open" /\ p \in GcpProject
  BY ZenonT(30) DEF GcloudInv, GcloudTypeOK, OpenFile, ThreadInv
<1>1. /\ file' = [file EXCEPT ![p] = <<>>] /\ Goto(t, "write")
      /\ UNCHANGED <<gcp, target, servers, issued, async, cancelled>>
      /\ overlapped' = IF \E u \in Thread : Writing(u, p) THEN overlapped \cup {p}
                       ELSE overlapped \ {p}
  BY DEF OpenFile
<1>2. /\ file' \in [GcpProject -> Seq(Nat)] /\ file'[p] = <<>>
      /\ \A q \in GcpProject : file'[q] = <<>> \/ file'[q] = file[q]
  BY <1>0, <1>1 DEF GcloudTypeOK
<1> DEFINE r == [thread[t] EXCEPT !.pc = "write"]
<1>3. r \in ThreadState /\ thread' = [thread EXCEPT ![t] = r]
  BY <1>0, <1>1, Zenon DEF ThreadState, Goto
<1>4. r.pc = "write" /\ r.p = p /\ r.tok = thread[t].tok
  BY <1>0, Zenon DEF ThreadState
<1> HIDE DEF r
<1>5. thread' \in [Thread -> ThreadState] /\ thread'[t] = r
      /\ \A e \in Thread \ {t} : thread'[e] = thread[e]
  BY <1>0, <1>3 DEF GcloudTypeOK
<1>6. GcloudTypeOK'
  <2>1. overlapped' \subseteq GcpProject
    BY <1>0, <1>1 DEF GcloudTypeOK
  <2>2. QED
    BY <1>0, <1>1, <1>2, <1>5, <2>1, Zenon DEF GcloudTypeOK
<1>7. \A q, n : TokenOf(q, n) => TokenOf(q, n)'
  BY <1>1 DEF TokenOf, Printed
<1>8. ASSUME NEW e \in Thread PROVE ThreadInv(e)'
  <2>1. CASE e = t
    BY <1>0, <1>4, <1>5, <1>7, <2>1, ZenonT(30) DEF ThreadInv
  <2>2. CASE e # t
    <3>1. ThreadInv(e) /\ thread'[e] = thread[e]
      BY <1>5, <2>2 DEF GcloudInv
    <3>2. QED
      BY <1>1, <1>7, <3>1 DEF ThreadInv
  <2>3. QED
    BY <2>1, <2>2
<1>9. ASSUME NEW q \in GcpProject PROVE FileInv(q)'
  <2>1. CASE file'[q] = <<>>
    BY <2>1 DEF FileInv
  <2>2. CASE file'[q] = file[q]
    BY <1>7, <2>2, Zenon DEF GcloudInv, FileInv
  <2>3. QED
    BY <1>2, <2>1, <2>2
<1>10. RegisteredIsServed'
  BY <1>1, Zenon DEF GcloudInv, RegisteredIsServed
<1>11. WholeUnlessOverlapped'
  <2>1. ASSUME NEW q \in GcpProject \ overlapped' PROVE file'[q] = <<>> \/ Whole(q)'
    <3>1. CASE q = p
      BY <1>2, <3>1
    <3>2. CASE q # p
      <4>1. q \notin overlapped /\ file'[q] = file[q] /\ issued' = issued
        BY <1>0, <1>1, <2>1, <3>2 DEF GcloudTypeOK
      <4>2. file[q] = <<>> \/ Whole(q)
        BY <2>1, <4>1 DEF GcloudInv, WholeUnlessOverlapped
      <4>3. QED
        BY <4>1, <4>2, Zenon DEF Whole, Cells
    <3>3. QED
      BY <3>1, <3>2
  <2>2. QED
    BY <2>1, Zenon DEF WholeUnlessOverlapped
\* Who empties the file while another is writing marks it; else it is the only writer.
<1>12. ASSUME NEW e \in Thread PROVE WriterInv(e)'
  <2>1. SUFFICES ASSUME thread'[e].pc = "write", thread'[e].p \notin overlapped'
                 PROVE  /\ file'[thread'[e].p] = <<>>
                        /\ \A u \in Thread : thread'[u].p = thread'[e].p /\ thread'[u].pc = "write" => u = e
    BY DEF WriterInv, Writing
  <2>2. CASE thread'[e].p = p
    <3>1. \A u \in Thread : ~ Writing(u, p)
      BY <1>1, <2>1, <2>2
    <3>2. \A u \in Thread : thread'[u].p = p /\ thread'[u].pc = "write" => u = t
      BY <1>5, <3>1 DEF Writing
    <3>3. QED
      BY <1>2, <2>1, <2>2, <3>2 DEF Writing
  <2>3. CASE thread'[e].p # p
    <3>1. e # t /\ thread'[e] = thread[e]
      BY <1>4, <1>5, <2>3, ZenonT(30)
    <3>2. WriterInv(e) /\ thread[e].p \notin overlapped /\ thread[e].p \in GcpProject \ {p}
      <4>1. ThreadInv(e) /\ WriterInv(e)
        BY DEF GcloudInv
      <4>2. QED
        BY <1>1, <2>1, <2>3, <3>1, <4>1 DEF ThreadInv
    <3>3. /\ file[thread[e].p] = <<>>
          /\ \A u \in Thread : Writing(u, thread[e].p) => u = e
      BY <2>1, <3>1, <3>2 DEF WriterInv
    <3>4. ASSUME NEW u \in Thread, thread'[u].p = thread[e].p, thread'[u].pc = "write" PROVE u = e
      <4>1. u # t /\ thread'[u] = thread[u]
        BY <1>4, <1>5, <3>2, <3>4
      <4>2. QED
        BY <3>3, <3>4, <4>1 DEF Writing
    <3>5. file'[thread[e].p] = file[thread[e].p]
      BY <1>0, <1>1, <3>2 DEF GcloudTypeOK
    <3>6. QED
      BY <3>1, <3>3, <3>4, <3>5
  <2>4. QED
    BY <2>2, <2>3
<1>13. QED
  BY <1>6, <1>8, <1>9, <1>10, <1>11, <1>12, Zenon DEF GcloudInv

\* The cells of a token.
LEMMA Filled ==
    ASSUME NEW len \in Nat, NEW n \in Nat, NEW new, new = [k \in 1 .. len |-> n]
    PROVE  new \in Seq(Nat) /\ Len(new) = len /\ \A k \in 1 .. len : new[k] = n
OBVIOUS

\* Cell by cell, what a concatenation holds.
LEMMA Concatenated ==
    ASSUME NEW a \in Seq(Nat), NEW b \in Seq(Nat)
    PROVE  /\ a \o b \in Seq(Nat) /\ DOMAIN (a \o b) = 1 .. Len(a) + Len(b)
           /\ \A k \in DOMAIN (a \o b) :
                (a \o b)[k] = IF k <= Len(a) THEN a[k] ELSE b[k - Len(a)]
OBVIOUS

\* One write over s: the rest of s stays behind.
Over(new, s) == new \o SubSeq(s, Len(new) + 1, Len(s))
Fill(len, n) == [k \in 1 .. len |-> n]

\* The cells of token n over those of s.
LEMMA Overwritten ==
    ASSUME NEW len \in Nat, NEW n \in Nat, NEW s \in Seq(Nat)
    PROVE  /\ Over(Fill(len, n), s) \in Seq(Nat)
           /\ \A k \in DOMAIN Over(Fill(len, n), s) :
                \/ Over(Fill(len, n), s)[k] = n
                \/ \E j \in DOMAIN s : Over(Fill(len, n), s)[k] = s[j]
           /\ s = <<>> => Over(Fill(len, n), s) = Fill(len, n)
<1> DEFINE new == Fill(len, n)
           rest == SubSeq(s, len + 1, Len(s))
<1>1. new \in Seq(Nat) /\ Len(new) = len /\ \A k \in 1 .. len : new[k] = n
  BY Filled DEF Fill
<1>2. /\ rest \in Seq(Nat)
      /\ \A k \in DOMAIN rest : len + k \in DOMAIN s /\ rest[k] = s[len + k]
      /\ s = <<>> => Len(rest) = 0
  OBVIOUS
<1>3. Over(new, s) = new \o rest
  BY <1>1, Zenon DEF Over
<1> HIDE DEF rest, new
<1>4. /\ new \o rest \in Seq(Nat) /\ DOMAIN (new \o rest) = 1 .. len + Len(rest)
      /\ \A k \in DOMAIN (new \o rest) :
           (new \o rest)[k] = IF k <= len THEN new[k] ELSE rest[k - len]
  BY <1>1, <1>2, Concatenated, Zenon
<1>5. ASSUME NEW k \in DOMAIN (new \o rest)
      PROVE  (new \o rest)[k] = n \/ \E j \in DOMAIN s : (new \o rest)[k] = s[j]
  <2>1. CASE k <= len
    BY <1>1, <1>4, <2>1
  <2>2. CASE ~ (k <= len)
    <3>1. rest \in Seq(Nat) /\ len \in Nat /\ k \in 1 .. len + Len(rest)
      BY <1>2, <1>4, Zenon
    <3>2. k - len \in DOMAIN rest
      BY ONLY <2>2, <3>1
    <3>3. (new \o rest)[k] = rest[k - len]
      BY <1>4, <2>2, Zenon
    <3>4. QED
      BY <1>2, <3>2, <3>3, Zenon
  <2>3. QED
    BY <2>1, <2>2
<1>6. ASSUME s = <<>> PROVE new \o rest = new
  <2>1. rest = <<>>
    BY <1>2, <1>6
  <2>2. QED
    BY <1>1, <2>1
<1>7. /\ Over(new, s) \in Seq(Nat)
      /\ \A k \in DOMAIN Over(new, s) : Over(new, s)[k] = n \/ \E j \in DOMAIN s : Over(new, s)[k] = s[j]
      /\ s = <<>> => Over(new, s) = new
  BY <1>3, <1>4, <1>5, <1>6, Zenon
<1>8. QED
  BY <1>7, Zenon DEF new

\* The token is written over the file.
LEMMA GWriteFile ==
    ASSUME GcloudAssumption, GcloudInv, NEW t \in Thread, WriteFile(t) PROVE GcloudInv'
<1> DEFINE p == thread[t].p
           n == thread[t].tok
<1>0. /\ GcloudTypeOK /\ thread[t] \in ThreadState /\ ThreadInv(t)
      /\ thread[t].pc = "write" /\ p \in GcpProject /\ n # 0
  BY Zenon DEF GcloudInv, GcloudTypeOK, WriteFile, ThreadInv
<1>1. TokenOf(p, n) /\ n \in DOMAIN issued /\ n \in Nat
  BY <1>0, Zenon DEF ThreadInv, TokenOf, ThreadState
<1>2. TokenLen[n] \in Nat
  <2>1. TokenLen \in Seq(Nat) /\ Len(issued) <= Len(TokenLen) /\ issued \in Seq({PrintedFor(tt) : tt \in Targets})
    BY <1>0 DEF GcloudTypeOK, GcloudAssumption
  <2>2. n \in 1 .. Len(TokenLen)
    BY ONLY <1>1, <2>1
  <2>3. TokenLen \in [1 .. Len(TokenLen) -> Nat]
    BY ONLY <2>1
  <2>4. QED
    BY ONLY <2>2, <2>3, Zenon
<1> DEFINE new == Cells(n)
           w == new \o SubSeq(file[p], Len(new) + 1, Len(file[p]))
<1>3. /\ file' = [file EXCEPT ![p] = w] /\ Finish(t, "ok")
      /\ UNCHANGED <<gcp, target, servers, issued, async, overlapped, cancelled>>
  BY <1>0 DEF WriteFile, GcloudTypeOK
<1>4. /\ w \in Seq(Nat)
      /\ \A k \in DOMAIN w : w[k] = n \/ \E j \in DOMAIN file[p] : w[k] = file[p][j]
      /\ file[p] = <<>> => w = new
  <2>1. file[p] \in Seq(Nat)
    BY <1>0 DEF GcloudTypeOK
  <2>2. new = Fill(TokenLen[n], n) /\ w = Over(new, file[p])
    BY Zenon DEF Cells, Fill, Over
  <2> HIDE DEF new, w, p, n
  <2>3. n \in Nat /\ TokenLen[n] \in Nat
    BY <1>1, <1>2
  <2>4. QED
    BY ONLY <2>1, <2>2, <2>3, Overwritten, Zenon
<1> HIDE DEF w
<1>5. file' \in [GcpProject -> Seq(Nat)] /\ file'[p] = w /\ \A q \in GcpProject \ {p} : file'[q] = file[q]
  BY <1>0, <1>3, <1>4 DEF GcloudTypeOK
<1>6. PICK r \in ThreadState : Ended(t, r)
  BY <1>0, <1>3, GEnds, ZenonT(30)
<1>7. thread' \in [Thread -> ThreadState] /\ thread'[t] = r
      /\ \A e \in Thread \ {t} : thread'[e] = thread[e]
  BY <1>0, <1>6 DEF GcloudTypeOK, Ended
<1>8. GcloudTypeOK'
  BY <1>0, <1>3, <1>5, <1>7, Zenon DEF GcloudTypeOK
<1>9. \A q, m : TokenOf(q, m) => TokenOf(q, m)'
  BY <1>3 DEF TokenOf, Printed
<1>10. ASSUME NEW e \in Thread PROVE ThreadInv(e)'
  <2>1. CASE e = t
    <3>1. ThreadInv(t)'
      BY <1>1, <1>6, <1>7, <1>9, GEndedInv, ZenonT(30)
    <3>2. QED
      BY <2>1, <3>1
  <2>2. CASE e # t
    <3>1. ThreadInv(e) /\ thread'[e] = thread[e]
      BY <1>7, <2>2 DEF GcloudInv
    <3>2. QED
      BY <1>3, <1>9, <3>1 DEF ThreadInv
  <2>3. QED
    BY <2>1, <2>2
<1>11. ASSUME NEW q \in GcpProject PROVE FileInv(q)'
  <2>1. FileInv(q) /\ FileInv(p)
    BY <1>0 DEF GcloudInv
  <2>2. CASE q = p
    <3>1. \A k \in DOMAIN w : TokenOf(p, w[k])
      BY <1>1, <1>4, <2>1, ZenonT(30) DEF FileInv
    <3>2. QED
      BY <1>5, <1>9, <2>2, <3>1 DEF FileInv
  <2>3. CASE q # p
    BY <1>5, <1>9, <2>1, <2>3 DEF FileInv
  <2>4. QED
    BY <2>2, <2>3
<1>12. RegisteredIsServed'
  BY <1>3, Zenon DEF GcloudInv, RegisteredIsServed
<1>13. WholeUnlessOverlapped'
  <2>1. ASSUME NEW q \in GcpProject \ overlapped' PROVE file'[q] = <<>> \/ Whole(q)'
    <3>1. CASE q = p
      <4>1. file[p] = <<>>
        BY <1>0, <1>3, <2>1, <3>1 DEF GcloudInv, WriterInv
      <4>2. file'[p] = Cells(n)
        BY <1>4, <1>5, <4>1
      <4>3. QED
        BY <1>1, <1>3, <3>1, <4>2, Zenon DEF Whole, Cells
    <3>2. CASE q # p
      <4>1. q \notin overlapped /\ file'[q] = file[q] /\ issued' = issued
        BY <1>3, <1>5, <2>1, <3>2
      <4>2. file[q] = <<>> \/ Whole(q)
        BY <2>1, <4>1 DEF GcloudInv, WholeUnlessOverlapped
      <4>3. QED
        BY <4>1, <4>2, Zenon DEF Whole, Cells
    <3>3. QED
      BY <3>1, <3>2
  <2>2. QED
    BY <2>1, Zenon DEF WholeUnlessOverlapped
\* Whoever is left writing writes another project's file, or one that was marked.
<1>14. ASSUME NEW e \in Thread PROVE WriterInv(e)'
  <2>1. SUFFICES ASSUME thread'[e].pc = "write", thread'[e].p \notin overlapped'
                 PROVE  /\ file'[thread'[e].p] = <<>>
                        /\ \A u \in Thread : thread'[u].p = thread'[e].p /\ thread'[u].pc = "write" => u = e
    BY DEF WriterInv, Writing
  <2>2. e # t /\ thread'[e] = thread[e] /\ thread[e].p \notin overlapped
    BY <1>3, <1>6, <1>7, <2>1 DEF Ended
  <2>3. ThreadInv(e) /\ WriterInv(e)
    BY ZenonT(30) DEF GcloudInv
  <2>4. /\ file[thread[e].p] = <<>> /\ thread[e].p \in GcpProject
        /\ \A u \in Thread : Writing(u, thread[e].p) => u = e
    BY <2>1, <2>2, <2>3 DEF WriterInv, ThreadInv
  <2>5. thread[e].p # p
    BY <1>0, <2>2, <2>4 DEF Writing
  <2>6. ASSUME NEW u \in Thread, thread'[u].p = thread[e].p, thread'[u].pc = "write" PROVE u = e
    <3>1. u # t /\ thread'[u] = thread[u]
      BY <1>6, <1>7, <2>6 DEF Ended
    <3>2. QED
      BY <2>4, <2>6, <3>1 DEF Writing
  <2>7. QED
    BY <1>5, <2>2, <2>4, <2>5, <2>6 DEF Writing
<1>15. QED
  BY <1>8, <1>10, <1>11, <1>12, <1>13, <1>14, Zenon DEF GcloudInv

\* The sweep takes up the next project it found registered, without a token yet.
LEMMA GSweepNext == ASSUME GcloudInv, NEW t \in Thread, SweepNext(t) PROVE GcloudInv'
<1>0. GcloudTypeOK /\ thread[t] \in ThreadState /\ ThreadInv(t)
  BY DEF GcloudInv, GcloudTypeOK
<1>1. thread[t].pc = "next" /\ UNCHANGED <<gcp, target, servers, file, overlapped, issued, async, cancelled>>
  BY Zenon DEF SweepNext, shared
<1>2. CASE Done(t, "ok")
  BY <1>0, <1>1, <1>2, GEndStep, Zenon
<1>3. CASE \E p \in thread[t].left :
             thread' = [thread EXCEPT ![t].p = p, ![t].pc = "lookup",
                                      ![t].tok = 0, ![t].left = @ \ {p}]
  <2>1. PICK p \in thread[t].left :
             thread' = [thread EXCEPT ![t].p = p, ![t].pc = "lookup",
                                      ![t].tok = 0, ![t].left = @ \ {p}]
    BY <1>3, Zenon
  <2> DEFINE r == [thread[t] EXCEPT !.p = p, !.pc = "lookup", !.tok = 0, !.left = @ \ {p}]
  <2>2. p \in GcpProject
    BY <1>0, Zenon DEF ThreadState
  <2>3. r \in ThreadState
    BY <1>0, <2>2, Zenon DEF ThreadState
  <2>4. r.p = p /\ r.pc = "lookup" /\ r.tok = 0
    BY <1>0, Zenon DEF ThreadState
  <2>5. thread' = [thread EXCEPT ![t] = r] /\ async' \in [GcpProject -> Nat]
    BY <1>0, <1>1, <2>1, Zenon DEF GcloudTypeOK
  <2> HIDE DEF r
  <2>6. ASSUME thread'[t] = r PROVE ThreadInv(t)' /\ r.pc # "write"
    BY <2>2, <2>4, <2>6 DEF ThreadInv
  <2>7. QED
    BY <1>1, <2>3, <2>5, <2>6, GThreadStep, Zenon
<1>4. QED
  BY <1>2, <1>3, Zenon DEF SweepNext

\* The steps that only end a call, or move it on.
LEMMA GCalls ==
    ASSUME GcloudInv, NEW t \in Thread,
           Lookup(t) \/ FetchFails(t) \/ ConfigFails(t) \/ WriteConfigDir(t) \/ ServeOther(t)
    PROVE  GcloudInv'
<1>1. CASE Lookup(t)
  <2>1. thread[t].pc = "lookup" /\ UNCHANGED <<gcp, target, servers, file, overlapped, issued, async, cancelled>>
    BY <1>1 DEF Lookup, shared
  <2>2. CASE Finish(t, "ok")
    BY <2>1, <2>2, GEndStep, ZenonT(30)
  <2>3. CASE target[thread[t].p] # NoTarget /\ Goto(t, "fetch")
    BY <2>1, <2>3, GGoto, Zenon
  <2>4. QED
    BY <1>1, <2>2, <2>3, ZenonT(30) DEF Lookup
<1>2. CASE FetchFails(t)
  <2>1. /\ thread[t].pc = "fetch" /\ Finish(t, "error")
        /\ UNCHANGED <<gcp, target, servers, file, overlapped, issued, async, cancelled>>
    BY <1>2, Zenon DEF FetchFails, shared
  <2>2. QED
    BY <2>1, GEndStep, ZenonT(30)
<1>3. CASE ConfigFails(t) \/ WriteConfigDir(t)
  <2>1. /\ thread[t].pc = "config" /\ (Done(t, "zero or error") \/ Done(t, "ok"))
        /\ UNCHANGED <<gcp, target, servers, file, overlapped, issued, async, cancelled>>
    BY <1>3, ZenonT(30) DEF ConfigFails, WriteConfigDir, shared
  <2>2. QED
    BY <2>1, GEndStep, ZenonT(30)
<1>4. CASE ServeOther(t)
  <2>1. /\ thread[t].pc = "serve" /\ Done(t, "answered")
        /\ UNCHANGED <<gcp, target, servers, file, overlapped, issued, async, cancelled>>
    BY <1>4, Zenon DEF ServeOther, shared
  <2>2. QED
    BY <2>1, GEndStep, ZenonT(30)
<1>5. QED
  BY <1>1, <1>2, <1>3, <1>4

\* The goroutine returns.
LEMMA GReturn == ASSUME GcloudInv, NEW t \in Thread, GcpReturn(t) PROVE GcloudInv'
<1>1. IdleThread \in ThreadState /\ IdleThread.pc = "idle" /\ IdleThread.tok = 0
  BY DEF IdleThread, ThreadState
<1>2. /\ thread' = [thread EXCEPT ![t] = IdleThread] /\ async' \in [GcpProject -> Nat]
      /\ UNCHANGED <<gcp, target, servers, file, overlapped, issued, cancelled>>
  BY DEF GcpReturn, shared, GcloudInv, GcloudTypeOK
<1>3. ASSUME thread'[t] = IdleThread PROVE ThreadInv(t)' /\ IdleThread.pc # "write"
  BY <1>1, <1>3 DEF ThreadInv
<1>4. QED
  BY <1>1, <1>2, <1>3, GThreadStep, Zenon

\* Neither a new configuration nor the end of rootCtx touches a target or a token; the end
\* closes every server.
LEMMA GOutside ==
    ASSUME GcloudInv, (\E p \in GcpProject : Reconfigure(p)) \/ Cancel PROVE GcloudInv'
<1>1. UNCHANGED <<target, file, overlapped, issued, async, thread>>
  BY DEF Reconfigure, Cancel
<1>2. GcloudTypeOK' /\ RegisteredIsServed'
  <2>1. CASE \E p \in GcpProject : Reconfigure(p)
    <3>1. gcp' \in [GcpProject -> GCPConfig] /\ UNCHANGED <<servers, cancelled>>
      BY <2>1 DEF Reconfigure, GcloudInv, GcloudTypeOK
    <3>2. QED
      BY <1>1, <3>1, Zenon DEF GcloudInv, GcloudTypeOK, RegisteredIsServed
  <2>2. CASE Cancel
    <3>1. gcp' = gcp /\ cancelled' = TRUE /\ servers' = [p \in GcpProject |-> 0]
      BY <2>2 DEF Cancel
    <3>2. servers' \in [GcpProject -> Nat] /\ RegisteredIsServed'
      BY <3>1 DEF RegisteredIsServed
    <3>3. QED
      BY <1>1, <3>1, <3>2, Zenon DEF GcloudInv, GcloudTypeOK
  <2>3. QED
    BY <2>1, <2>2
<1>3. (\A t \in Thread : ThreadInv(t)') /\ \A p \in GcpProject : FileInv(p)'
  BY <1>1, Zenon DEF GcloudInv, ThreadInv, FileInv, TokenOf, Printed
<1>4. WholeUnlessOverlapped' /\ \A t \in Thread : WriterInv(t)'
  BY <1>1, GFilesKept, Zenon
<1>5. QED
  BY <1>2, <1>3, <1>4, Zenon DEF GcloudInv

\* A step of the rest of the system.
LEMMA GStutter == ASSUME GcloudInv, UNCHANGED gcloudVars PROVE GcloudInv'
<1>1. UNCHANGED <<gcp, target, servers, file, overlapped, issued, async, cancelled, thread>>
  BY DEF gcloudVars, shared
<1>2. QED
  BY <1>1, ZenonT(30) DEF GcloudInv, GcloudTypeOK, RegisteredIsServed, ThreadInv, FileInv, TokenOf,
    Printed, WholeUnlessOverlapped, Whole, Cells, WriterInv, Writing

\* Every step keeps the invariant: one lemma for each action.
LEMMA GNext == ASSUME GcloudAssumption, GcloudInv, [GcloudNext]_gcloudVars PROVE GcloudInv'
<1>1. ASSUME NEW t \in Thread, ThreadStep(t) PROVE GcloudInv'
  BY <1>1, GEnsure, GSweepNext, GFetch, GOpenFile, GWriteFile, GServeToken, GReturn, GCalls,
    Zenon DEF ThreadStep
<1>2. ASSUME NEW t \in Thread, NEW p \in GcpProject,
             GcpContainerSpec(t, p) \/ Materialize(t, p) \/ AsyncMaterialize(t, p)
               \/ Request(t, p)
      PROVE  GcloudInv'
  BY <1>2, GBegins, Zenon
<1>3. ASSUME NEW t \in Thread, RefreshAll(t) PROVE GcloudInv'
  BY <1>3, GSweepBegins, Zenon
<1>4. QED
  BY <1>1, <1>2, <1>3, GOutside, GStutter, Zenon DEF GcloudNext

\* The invariant of gcloudcli.
THEOREM GcloudInvariant == ASSUME GcloudAssumption PROVE GcloudSpec => []GcloudInv
<1>1. GcloudInit => GcloudInv
  BY GInit
<1>2. GcloudInv /\ [GcloudNext]_gcloudVars => GcloudInv'
  BY GNext
<1>3. QED
  BY <1>1, <1>2, PTL DEF GcloudSpec

\* Concurrent launches of a project start one metadata server, which serves its socket for
\* as long as rootCtx lives (RegisteredIsServed).
THEOREM OneServerPerProject == ASSUME GcloudAssumption PROVE GcloudSpec => []RegisteredIsServed
<1>1. GcloudInv => RegisteredIsServed
  BY Zenon DEF GcloudInv
<1>2. QED
  BY <1>1, GcloudInvariant, PTL

\* Every cell of a project's token file, and every token a call of it holds, was printed for
\* the principal registered for the project, whatever is in flight and whatever its
\* configuration has become since; and a file that was last emptied while nobody else was
\* writing it holds one whole token or, between the O_TRUNC and the write, nothing
\* (TokenFilesHold).
THEOREM TokensBelong == ASSUME GcloudAssumption PROVE GcloudSpec => []TokenFilesHold
<1>1. ASSUME GcloudInv, NEW p \in GcpProject, NEW k \in DOMAIN file[p]
      PROVE  issued[file[p][k]] = Printed(p)
  BY <1>1, ZenonT(30) DEF GcloudInv, FileInv, TokenOf
<1>2. ASSUME GcloudInv, NEW p \in GcpProject, NEW t \in Thread, thread[t].p = p, thread[t].tok # 0
      PROVE  issued[thread[t].tok] = Printed(p)
  BY <1>2 DEF GcloudInv, ThreadInv, TokenOf
<1>3. GcloudInv => TokensStayInTheirProject
  BY <1>1, <1>2, Zenon DEF TokensStayInTheirProject
<1>4. GcloudInv => TokenFilesHold
  BY <1>3, Zenon DEF GcloudInv, TokenFilesHold
<1>5. QED
  BY <1>4, GcloudInvariant, PTL
========================================================================
