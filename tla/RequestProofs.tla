-------------------------- MODULE RequestProofs --------------------------
(***************************************************************************)
(* Proofs about the request path for any number of concurrent requests,    *)
(* any routes, clients and tokens, and about the provider of a script      *)
(* route for any number of callers, any hook lifetimes and any timeout     *)
(* within the safety margin.                                               *)
(*                                                                         *)
(* The request path's properties rest on the inductive invariant IInv of   *)
(* RouteHandler: what the token table holds, what each request has passed  *)
(* so far, and what is left of its body.  The provider's rest on ScriptInv *)
(* of ScriptProvider: who leads the flights and when the hooks were run.   *)
(***************************************************************************)
EXTENDS RouteHandler, ScriptProvider, TLAPS

\* The provers a leaf is tried with, in turn, unless it names its own.
USE SMT, Zenon, SMTT(30)

-----------------------------------------------------------------------
(* The request path.                                                       *)

\* AddAuthToken keeps identifiers unique: the new entry takes the place of its
\* identifier, and every other entry stays.
LEMMA WithEntryIsCurrent ==
    ASSUME NEW table \in Seq(Entry), NEW added \in Entry,
           \A i, j \in DOMAIN table : table[i].id = table[j].id => i = j
    PROVE  LET new == WithEntry(table, added) IN
           /\ new \in Seq(Entry) /\ new # <<>>
           /\ \A i, j \in DOMAIN new : new[i].id = new[j].id => i = j
           /\ \A i \in DOMAIN new :
                \/ new[i] = added
                \/ i \in DOMAIN table /\ new[i] = table[i] /\ table[i].id # added.id
<1> DEFINE new == WithEntry(table, added)
<1>1. CASE \A i \in DOMAIN table : table[i].id # added.id
  <2>1. new = Append(table, added)
    BY <1>1, Zenon DEF WithEntry
  <2>2. /\ new \in Seq(Entry) /\ new # <<>> /\ DOMAIN new = 1 .. (Len(table) + 1)
        /\ DOMAIN table = 1 .. Len(table) /\ Len(table) \in Nat
        /\ \A i \in DOMAIN table : new[i] = table[i]
        /\ new[Len(table) + 1] = added
    BY <2>1
  <2> HIDE DEF new
  <2>3. \A i \in DOMAIN new : \/ i = Len(table) + 1 /\ new[i] = added
                              \/ i \in DOMAIN table /\ new[i] = table[i] /\ table[i].id # added.id
    BY <1>1, <2>2
  <2>4. QED
    BY <2>2, <2>3, ZenonT(30) DEF new
<1>2. CASE \E i \in DOMAIN table : table[i].id = added.id
  <2>1. new = [i \in DOMAIN table |->
                 IF table[i].id = added.id /\ \A j \in 1 .. (i - 1) : table[j].id # added.id
                 THEN added ELSE table[i]]
    BY <1>2, Zenon DEF WithEntry
  <2>2. DOMAIN table = 1 .. Len(table) /\ Len(table) \in Nat
    OBVIOUS
  <2> HIDE DEF new
  <2>3. /\ DOMAIN new = DOMAIN table
        /\ \A i \in DOMAIN table : new[i] = IF table[i].id = added.id THEN added ELSE table[i]
    <3>1. ASSUME NEW i \in DOMAIN table, table[i].id = added.id, NEW j \in 1 .. (i - 1)
          PROVE  table[j].id # added.id
      <4>1. j \in DOMAIN table /\ j # i
        BY <2>2
      <4>2. QED
        BY <3>1, <4>1, Zenon
    <3>2. QED
      BY <2>1, <3>1, ZenonT(30)
  <2>4. new \in Seq(Entry)
    <3>1. \A i \in 1 .. Len(table) : new[i] \in Entry
      BY <2>2, <2>3
    <3>2. new = [i \in 1 .. Len(table) |-> new[i]]
      BY <2>1, <2>2, <2>3
    <3>3. QED
      BY <2>2, <3>1, <3>2
  <2>5. new # <<>>
    BY <1>2, <2>3
  <2>6. QED
    BY <2>3, <2>4, <2>5, ZenonT(30) DEF new
<1>3. QED
  BY <1>1, <1>2, Zenon

\* All but the last element of a sequence is a sequence over the same set.
LEMMA FrontType ==
    ASSUME NEW S, NEW a \in Seq(S), a # <<>>
    PROVE  SubSeq(a, 1, Len(a) - 1) \in Seq(S)
  OBVIOUS

\* So is a sequence with one more element.
LEMMA AppendType ==
    ASSUME NEW S, NEW a \in Seq(S), NEW e \in S
    PROVE  Append(a, e) \in Seq(S)
  OBVIOUS

\* So are two sequences joined.
LEMMA ConcatType ==
    ASSUME NEW S, NEW a \in Seq(S), NEW b \in Seq(S)
    PROVE  a \o b \in Seq(S)
  OBVIOUS

\* SetURL joins two paths to a path.
LEMMA JoinPathType ==
    ASSUME NEW S, "" \in S, NEW a \in Seq(S), NEW b \in Seq(S)
    PROVE  JoinPath(a, b) \in Seq(S)
<1>1. EndsInSlash(a) => SubSeq(a, 1, Len(a) - 1) \in Seq(S)
  BY FrontType, Zenon DEF EndsInSlash
<1>2. QED
  BY <1>1, AppendType, ConcatType, Zenon DEF JoinPath

\* The path of the outgoing request is a path.
LEMMA RewriteType ==
    ASSUME NEW p \in Seq(STRING)
    PROVE  Rewrite(p) \in Seq(STRING)
  BY PathAssumption, JoinPathType, Zenon DEF Rewrite

-----------------------------------------------------------------------
(* The initial states.                                                   *)

\* A server that New has just made satisfies the invariant.
LEMMA Initially == Init => IInv
<1> SUFFICES ASSUME Init PROVE IInv
  OBVIOUS
<1>1. tokens \in Seq(Entry) /\ \A i, j \in DOMAIN tokens : tokens[i].id = tokens[j].id => i = j
  BY TokenAssumption DEF Init
<1>2. \A i \in DOMAIN tokens : tokens[i] \in Entry
  BY <1>1
<1>3. registered \in [Id \cup {NoId} -> SUBSET Token]
  BY <1>1, <1>2 DEF Init, Entry
<1>4. TypeOK
  <2>1. "idle" \in PC /\ "none" \in Answer /\ <<>> \in Seq(Attempt) /\ 0 \in Nat
    BY DEF PC, Answer
  <2>2. QED
    BY <1>1, <1>3, <2>1, Zenon DEF Init, TypeOK
<1>5. TableIsCurrent
  <2>1. ASSUME NEW i \in DOMAIN tokens
        PROVE  registered[tokens[i].id] = {tokens[i].token}
    <3>1. tokens[i].id \in Id \cup {NoId}
      BY <1>2 DEF Entry
    <3>2. {j \in DOMAIN tokens : tokens[j].id = tokens[i].id} = {i}
      BY <1>1
    <3>3. registered[tokens[i].id] = {tokens[j].token : j \in {i}}
      BY <3>1, <3>2, Zenon DEF Init
    <3>4. QED
      BY <3>3
  <2>2. QED
    BY <1>1, <2>1 DEF TableIsCurrent
<1>6. Requested /\ Identified /\ Progress
  BY DEF Init, Requested, Identified, Progress, Passed, InUse
<1>7. AttemptsAreWhole /\ AtMostOneRetry /\ ListedIsOpen
  BY DEF Init, AttemptsAreWhole, AtMostOneRetry, ListedIsOpen
<1>8. QED
  BY <1>4, <1>5, <1>6, <1>7 DEF IInv

-----------------------------------------------------------------------
(* What the invariant says of one request, and the steps that leave it.  *)

Sound(t) ==
    /\ req[t] = NoRequest <=> pc[t] = "idle"
    /\ Identified!(t) /\ Progress!(t)
    /\ AttemptsAreWhole!(t) /\ AtMostOneRetry!(t) /\ ListedIsOpen!(t)

\* The invariant is about the variables, the table and each request by itself.
LEMMA IInvParts == IInv <=> TypeOK /\ TableIsCurrent /\ \A t \in Thread : Sound(t)
  BY ZenonT(30) DEF IInv, Sound, Requested, Identified, Progress, AttemptsAreWhole,
               AtMostOneRetry, ListedIsOpen

\* A step of one request leaves the server and the other requests alone.
Frame(t) ==
    /\ UNCHANGED serverVars
    /\ \A u \in Thread \ {t} :
         /\ pc'[u] = pc[u] /\ req'[u] = req[u] /\ client'[u] = client[u]
         /\ buffered'[u] = buffered[u] /\ unread'[u] = unread[u] /\ sent'[u] = sent[u]
         /\ refreshes'[u] = refreshes[u] /\ retried'[u] = retried[u]
         /\ answer'[u] = answer[u] /\ listing'[u] = listing[u]
         /\ valid'[u] = valid[u] /\ guarded'[u] = guarded[u]

\* A step of one request keeps the invariant if it keeps it for that request.
LEMMA FrameKeeps ==
    ASSUME IInv, NEW t \in Thread, Frame(t), TypeOK', Sound(t)'
    PROVE  IInv'
<1>1. TableIsCurrent'
  BY DEF IInv, Frame, serverVars, TableIsCurrent
<1>2. ASSUME NEW u \in Thread, u # t PROVE Sound(u)'
  <2>1. /\ cfg' = cfg /\ tokens' = tokens /\ registered' = registered
        /\ pc'[u] = pc[u] /\ req'[u] = req[u] /\ client'[u] = client[u]
        /\ buffered'[u] = buffered[u] /\ unread'[u] = unread[u] /\ sent'[u] = sent[u]
        /\ refreshes'[u] = refreshes[u] /\ retried'[u] = retried[u]
        /\ listing'[u] = listing[u] /\ valid'[u] = valid[u] /\ guarded'[u] = guarded[u]
    BY <1>2, Zenon DEF Frame, serverVars
  <2>2. Requested!(u)' /\ AttemptsAreWhole!(u)' /\ AtMostOneRetry!(u)' /\ ListedIsOpen!(u)'
    BY <2>1 DEF IInv, Requested, AttemptsAreWhole, AtMostOneRetry, ListedIsOpen
  <2>3. Identified!(u)'
    BY <2>1 DEF IInv, Identified, Passed, InUse, Forbidden, ClientAllowed
  <2>4. Progress!(u)'
    BY <2>1 DEF IInv, Progress
  <2>5. QED
    BY <2>2, <2>3, <2>4 DEF Sound
<1>3. \A u \in Thread : Sound(u)'
  BY <1>2, Zenon
<1>4. QED
  BY <1>1, <1>3, Zenon DEF IInv, Sound, Requested, Identified, Progress, AttemptsAreWhole,
                           AtMostOneRetry, ListedIsOpen

-----------------------------------------------------------------------
(* The steps, one lemma each.                                            *)

\* A request that is past matchToken keeps what it was let in with.
LEMMA IdentityKept ==
    ASSUME NEW t \in Thread, Identified!(t), Passed(t) \/ pc[t] = "match",
           UNCHANGED <<serverVars, req, valid, guarded>>,
           pc'[t] \in {"handle", "get", "sent", "refresh", "done"},
           (Passed(t) /\ client'[t] = client[t]) \/ client'[t] \in valid[t],
           InUse(t)' => req[t].route \in Route /\ ~ Forbidden(req[t].route, client'[t])
    PROVE  Identified!(t)'
<1>1. /\ cfg' = cfg /\ tokens' = tokens /\ registered' = registered
      /\ req'[t] = req[t] /\ valid'[t] = valid[t] /\ guarded'[t] = guarded[t]
  BY Zenon DEF serverVars
<1>2. /\ pc[t] # "idle" /\ pc'[t] \notin {"idle", "admit", "match"}
  BY DEF Passed
<1>3. Forbidden(req[t].route, client[t])' <=> Forbidden(req[t].route, client'[t])
  BY <1>1, Zenon DEF Forbidden, ClientAllowed
<1>4. client'[t] # NoId => client'[t] \in valid'[t]
  BY <1>1, Zenon
<1>5. /\ \A id \in Id \cup {NoId} : req'[t].bearer \in registered'[id] => id \in valid'[t]
      /\ guarded'[t] => tokens' # <<>>
      /\ cfg'.samePeer => req'[t].peer
      /\ guarded'[t] /\ ~ cfg'.open => client'[t] \in valid'[t]
  BY <1>1, <1>2, Zenon
<1>6. InUse(t)' => req'[t].route \in Route /\ ~ Forbidden(req[t].route, client[t])'
  BY <1>1, <1>3, Zenon
<1>7. QED
  BY <1>2, <1>4, <1>5, <1>6, Zenon

\* So does a request that stays in use.
LEMMA SameIdentity ==
    ASSUME NEW t \in Thread, Sound(t), InUse(t), InUse(t)',
           UNCHANGED <<serverVars, req, client, valid, guarded>>
    PROVE  Identified!(t)'
<1>1. Identified!(t) /\ Passed(t)
  BY Zenon DEF Sound, Passed, InUse
<1>2. /\ UNCHANGED <<serverVars, req, valid, guarded>> /\ client'[t] = client[t]
      /\ req[t].route \in Route /\ ~ Forbidden(req[t].route, client'[t])
  BY <1>1, Zenon
<1>3. pc'[t] \in {"handle", "get", "sent", "refresh", "done"}
  BY Zenon DEF InUse
<1>4. QED
  BY <1>1, <1>2, <1>3, IdentityKept, Zenon

\* AddAuthToken keeps the invariant: no request under way loses an identifier.
LEMMA StepAddAuthToken ==
    ASSUME IInv, NEW token \in Token, NEW id \in Id \cup {NoId}, AddAuthToken(token, id)
    PROVE  IInv'
<1> DEFINE added == [token |-> token, id |-> id]
<1>1. TypeOK /\ TableIsCurrent
  BY DEF IInv
<1>2. added \in Entry /\ added.id = id /\ added.token = token
  BY DEF Entry
<1>3. /\ tokens' = WithEntry(tokens, added)
      /\ registered' = [registered EXCEPT ![id] = {token}]
      /\ valid' = [t \in Thread |->
                     IF pc[t] # "idle" /\ req[t].bearer = token THEN valid[t] \cup {id}
                     ELSE valid[t]]
      /\ UNCHANGED <<cfg, pc, req, client, buffered, unread, sent, refreshes, retried,
                     answer, listing, guarded>>
  BY DEF AddAuthToken, proxyVars
<1> HIDE DEF added
<1>4. /\ tokens' \in Seq(Entry) /\ tokens' # <<>>
      /\ \A i, j \in DOMAIN tokens' : tokens'[i].id = tokens'[j].id => i = j
      /\ \A i \in DOMAIN tokens' :
           \/ tokens'[i] = added
           \/ i \in DOMAIN tokens /\ tokens'[i] = tokens[i] /\ tokens[i].id # id
  <2> DEFINE new == WithEntry(tokens, added)
  <2>1. tokens \in Seq(Entry) /\ \A i, j \in DOMAIN tokens : tokens[i].id = tokens[j].id => i = j
    BY <1>1, Zenon DEF TypeOK, TableIsCurrent
  <2>2. /\ new \in Seq(Entry) /\ new # <<>>
        /\ \A i, j \in DOMAIN new : new[i].id = new[j].id => i = j
        /\ \A i \in DOMAIN new :
             \/ new[i] = added
             \/ i \in DOMAIN tokens /\ new[i] = tokens[i] /\ tokens[i].id # added.id
    BY <1>2, <2>1, WithEntryIsCurrent, Zenon
  <2>3. tokens' = new
    BY <1>3
  <2> HIDE DEF new
  <2>4. QED
    BY <1>2, <2>2, <2>3, Zenon
<1>5. TypeOK'
  <2>1. registered' \in [Id \cup {NoId} -> SUBSET Token]
    BY <1>1, <1>3 DEF TypeOK
  <2>2. valid' \in [Thread -> SUBSET (Id \cup {NoId})]
    BY <1>1, <1>3 DEF TypeOK
  <2>3. QED
    BY <1>1, <1>3, <1>4, <2>1, <2>2, Zenon DEF TypeOK
<1>6. TableIsCurrent'
  <2>1. ASSUME NEW i \in DOMAIN tokens' PROVE registered'[tokens'[i].id] = {tokens'[i].token}
    <3>1. CASE tokens'[i] = added
      BY <1>1, <1>2, <1>3, <3>1 DEF TypeOK
    <3>2. CASE i \in DOMAIN tokens /\ tokens'[i] = tokens[i] /\ tokens[i].id # id
      <4>1. tokens[i].id \in Id \cup {NoId}
        <5>1. tokens[i] \in Entry
          <6>1. tokens \in Seq(Entry) /\ i \in DOMAIN tokens
            BY <1>1, <3>2, Zenon DEF TypeOK
          <6> HIDE DEF Entry
          <6>2. QED
            BY <6>1
        <5>2. QED
          BY <5>1 DEF Entry
      <4>2. QED
        BY <1>1, <1>3, <3>2, <4>1 DEF TypeOK, TableIsCurrent
    <3>3. QED
      BY <1>4, <3>1, <3>2
  <2>2. QED
    BY <1>4, <2>1 DEF TableIsCurrent
<1>7. \A t \in Thread : valid[t] \subseteq valid'[t]
  BY <1>3
<1>8. Identified'
  <2> SUFFICES ASSUME NEW t \in Thread PROVE Identified!(t)'
    BY Zenon DEF Identified
  <2>1. pc[t] # "idle" => \A d \in Id \cup {NoId} : req[t].bearer \in registered'[d] => d \in valid'[t]
    <3>1. SUFFICES ASSUME pc[t] # "idle", NEW d \in Id \cup {NoId}, req[t].bearer \in registered'[d]
                   PROVE  d \in valid'[t]
      OBVIOUS
    <3>2. CASE d = id
      BY <1>1, <1>3, <3>1, <3>2, Zenon DEF TypeOK
    <3>3. CASE d # id
      BY <1>1, <1>3, <1>7, <3>1, <3>3, Zenon DEF TypeOK, IInv, Identified
    <3>4. QED
      BY <3>2, <3>3
  <2>2. Identified!(t)
    BY DEF IInv, Identified
  <2>3. QED
    BY <1>3, <1>4, <1>7, <2>1, <2>2 DEF Passed, InUse, Forbidden, ClientAllowed
<1>9. ListedIsOpen'
  BY <1>3, <1>7 DEF IInv, ListedIsOpen
<1>10. Requested' /\ Progress' /\ AttemptsAreWhole' /\ AtMostOneRetry'
  BY <1>3 DEF IInv, Requested, Progress, AttemptsAreWhole, AtMostOneRetry
<1>11. QED
  BY <1>5, <1>6, <1>8, <1>9, <1>10 DEF IInv

\* What a step needs to know of the types to update one thread's entry.
Total ==
    /\ DOMAIN pc = Thread /\ DOMAIN req = Thread /\ DOMAIN client = Thread
    /\ DOMAIN buffered = Thread /\ DOMAIN unread = Thread /\ DOMAIN sent = Thread
    /\ DOMAIN refreshes = Thread /\ DOMAIN retried = Thread /\ DOMAIN answer = Thread
    /\ DOMAIN listing = Thread /\ DOMAIN valid = Thread /\ DOMAIN guarded = Thread

\* The parts of the invariant that the step of one request starts from.
LEMMA Known ==
    ASSUME IInv, NEW t \in Thread
    PROVE  TypeOK /\ TableIsCurrent /\ Total /\ Sound(t)
<1>1. TypeOK /\ TableIsCurrent /\ Sound(t)
  BY IInvParts, Zenon
<1>2. Total
  BY <1>1, ZenonT(30) DEF TypeOK, Total
<1>3. QED
  BY <1>1, <1>2, Zenon

\* A request that arrives.
LEMMA StepArrive ==
    ASSUME IInv, NEW t \in Thread, NEW r \in Requests, Arrive(t, r)
    PROVE  IInv'
<1>1. TypeOK /\ Total /\ Sound(t)
  BY Known, Zenon
<1>2. pc[t] = "idle" /\ r # NoRequest
  BY RequestAssumption, Zenon DEF Arrive
<1>3. TypeOK'
  BY <1>1, ZenonT(30) DEF Arrive, TypeOK, PC, serverVars, proxyVars
<1>4. Frame(t)
  BY <1>1, ZenonT(30) DEF Arrive, Frame, Total, proxyVars
<1>5. /\ pc'[t] = "admit" /\ req'[t] = r
      /\ valid'[t] = {id \in Id \cup {NoId} : r.bearer \in registered[id]}
      /\ UNCHANGED <<serverVars, client, proxyVars, answer, listing>>
  BY <1>1, ZenonT(30) DEF Arrive, Total
<1>6. guarded'[t] <=> tokens # <<>>
  BY <1>1, ZenonT(30) DEF Arrive, Total
<1>7. Sound(t)'
  BY <1>1, <1>2, <1>5, <1>6, ZenonT(30) DEF Sound, serverVars, proxyVars, Passed, InUse
<1>8. QED
  BY <1>3, <1>4, <1>7, FrameKeeps, Zenon

\* An answer ends a request in whatever state it has reached.
LEMMA StepRespond ==
    ASSUME IInv, NEW t \in Thread, NEW a \in Answer, pc[t] # "idle", Respond(t, a),
           UNCHANGED <<serverVars, req, client, proxyVars, listing, valid, guarded>>
    PROVE  IInv'
<1>1. TypeOK /\ Total /\ Sound(t)
  BY Known, Zenon
<1>2. TypeOK'
  <2>1. pc' \in [Thread -> PC] /\ answer' \in [Thread -> Answer]
    BY <1>1, ZenonT(30) DEF TypeOK, Respond, PC
  <2>2. QED
    BY <1>1, <2>1, ZenonT(30) DEF TypeOK, serverVars, proxyVars
<1>3. Frame(t)
  BY <1>1, ZenonT(30) DEF Frame, Total, Respond, proxyVars
<1>4. pc'[t] = "done"
  BY <1>1 DEF Total, Respond
<1>5. Sound(t)'
  BY <1>1, <1>4, ZenonT(30) DEF Sound, serverVars, proxyVars, Passed, InUse
<1>6. QED
  BY <1>2, <1>3, <1>5, FrameKeeps, Zenon

\* authMiddleware up to tokenCount.
LEMMA StepAdmit ==
    ASSUME IInv, NEW t \in Thread, Admit(t)
    PROVE  IInv'
<1>1. TypeOK /\ Total /\ Sound(t)
  BY Known, Zenon
<1>2. pc[t] = "admit" /\ UNCHANGED <<serverVars, req, client, proxyVars, listing, valid, guarded>>
  BY Zenon DEF Admit
<1>3. CASE Respond(t, "forbidden") \/ Respond(t, "unauthorized")
  <2>1. PICK a \in Answer : Respond(t, a)
    BY <1>3, Zenon DEF Answer
  <2>2. QED
    BY <1>2, <2>1, StepRespond, Zenon
<1>4. ASSUME NEW p \in {"match", "handle"}, pc' = [pc EXCEPT ![t] = p], UNCHANGED answer,
             cfg.samePeer => req[t].peer, p = "handle" => cfg.open \/ tokens = <<>>
      PROVE  IInv'
  <2>1. TypeOK'
    <3>1. pc' \in [Thread -> PC]
      BY <1>1, <1>4 DEF TypeOK, PC
    <3>2. QED
      BY <1>1, <1>2, <1>4, <3>1, ZenonT(30) DEF TypeOK, serverVars, proxyVars
  <2>2. Frame(t)
    BY <1>1, <1>2, <1>4, ZenonT(30) DEF Frame, Total, proxyVars
  <2>3. pc'[t] = p
    BY <1>1, <1>4 DEF Total
  <2>4. Sound(t)'
    BY <1>1, <1>2, <1>4, <2>3, ZenonT(30) DEF Sound, serverVars, proxyVars, Passed, InUse
  <2>5. QED
    BY <2>1, <2>2, <2>4, FrameKeeps, Zenon
<1>5. \/ Respond(t, "forbidden") \/ Respond(t, "unauthorized")
      \/ \E p \in {"match", "handle"} :
           /\ pc' = [pc EXCEPT ![t] = p] /\ UNCHANGED answer
           /\ cfg.samePeer => req[t].peer
           /\ p = "handle" => cfg.open \/ tokens = <<>>
  BY DEF Admit
<1>6. QED
  BY <1>3, <1>4, <1>5, Zenon

\* matchToken: the identifier found is one the bearer is registered for now.
LEMMA StepMatch ==
    ASSUME IInv, NEW t \in Thread, Match(t)
    PROVE  IInv'
<1>1. TypeOK /\ Total /\ Sound(t) /\ TableIsCurrent
  BY Known, Zenon
<1>2. pc[t] = "match" /\ UNCHANGED <<serverVars, req, proxyVars, listing, valid, guarded>>
  BY Zenon DEF Match
<1>3. \/ Respond(t, "unauthorized") /\ UNCHANGED client
      \/ \E d \in Id \cup {NoId} : /\ client' = [client EXCEPT ![t] = d] /\ d \in valid[t]
                                   /\ pc' = [pc EXCEPT ![t] = "handle"]
                                   /\ UNCHANGED answer
  <2>1. ASSUME NEW i \in DOMAIN tokens, tokens[i].token = req[t].bearer
        PROVE  tokens[i].id \in Id \cup {NoId} /\ tokens[i].id \in valid[t]
    <3>1. tokens[i].id \in Id \cup {NoId}
      <4>1. tokens \in Seq(Entry)
        BY <1>1, Zenon DEF TypeOK
      <4>2. tokens[i] \in Entry
        BY <4>1
      <4>3. QED
        BY <4>2 DEF Entry
    <3>2. registered[tokens[i].id] = {req[t].bearer}
      BY <1>1, <2>1, Zenon DEF TableIsCurrent
    <3>3. req[t].bearer \in registered[tokens[i].id]
      BY <3>2
    <3>4. QED
      BY <1>1, <1>2, <3>1, <3>3, ZenonT(30) DEF Sound
  <2>2. QED
    BY <2>1, ZenonT(30) DEF Match
<1>4. CASE Respond(t, "unauthorized") /\ UNCHANGED client
  <2>1. "unauthorized" \in Answer
    BY DEF Answer
  <2>2. QED
    BY <1>2, <1>4, <2>1, StepRespond, Zenon
<1>5. ASSUME NEW d \in Id \cup {NoId}, client' = [client EXCEPT ![t] = d], d \in valid[t],
             pc' = [pc EXCEPT ![t] = "handle"], UNCHANGED answer
      PROVE  IInv'
  <2>1. TypeOK'
    <3>1. pc' \in [Thread -> PC] /\ client' \in [Thread -> Id \cup {NoId}]
      BY <1>1, <1>5 DEF TypeOK, PC
    <3>2. QED
      BY <1>1, <1>2, <1>5, <3>1, ZenonT(30) DEF TypeOK, serverVars, proxyVars
  <2>2. Frame(t)
    BY <1>1, <1>2, <1>5, ZenonT(30) DEF Frame, Total, proxyVars
  <2>3. pc'[t] = "handle" /\ client'[t] = d
    BY <1>1, <1>5, Zenon DEF Total
  <2>4. Sound(t)'
    <3>1. Identified!(t)'
      <4>1. Identified!(t) /\ ~ InUse(t)' /\ UNCHANGED <<serverVars, req, valid, guarded>>
        BY <1>1, <1>2, <2>3, Zenon DEF Sound, InUse
      <4>2. QED
        BY <1>2, <1>5, <2>3, <4>1, IdentityKept, Zenon
    <3>2. /\ req'[t] = req[t] /\ buffered'[t] = buffered[t] /\ unread'[t] = unread[t]
          /\ sent'[t] = sent[t] /\ refreshes'[t] = refreshes[t] /\ retried'[t] = retried[t]
          /\ listing'[t] = listing[t]
      BY <1>2, Zenon DEF proxyVars
    <3>3. /\ ~ buffered[t] /\ unread[t] /\ sent[t] = <<>> /\ refreshes[t] = 0
          /\ ~ retried[t] /\ listing[t] = {} /\ req[t] # NoRequest
      BY <1>1, <1>2, Zenon DEF Sound
    <3>4. Progress!(t)'
      BY <2>3, <3>2, <3>3, Zenon
    <3>5. AtMostOneRetry!(t)' /\ AttemptsAreWhole!(t)'
      BY <1>1, <3>2, Zenon DEF Sound
    <3>6. ListedIsOpen!(t)' /\ (req[t] = NoRequest <=> pc[t] = "idle")'
      BY <2>3, <3>2, <3>3, Zenon
    <3>7. QED
      BY <3>1, <3>4, <3>5, <3>6, Zenon DEF Sound
  <2>5. QED
    BY <2>1, <2>2, <2>4, FrameKeeps, Zenon
<1>6. QED
  BY <1>3, <1>4, <1>5, Zenon

\* handleRouteList names only routes that are open to the caller.
LEMMA StepList ==
    ASSUME IInv, NEW t \in Thread, List(t)
    PROVE  IInv'
<1>1. TypeOK /\ Total /\ Sound(t)
  BY Known, Zenon
<1>2. /\ pc[t] = "handle" /\ listing' = [listing EXCEPT ![t] = RoutesFor(client[t])]
      /\ Respond(t, "listed")
      /\ UNCHANGED <<serverVars, req, client, proxyVars, valid, guarded>>
  BY Zenon DEF List
<1>3. RoutesFor(client[t]) \subseteq Route
  BY DEF RoutesFor
<1>4. TypeOK'
  <2>1. /\ pc' \in [Thread -> PC] /\ answer' \in [Thread -> Answer]
        /\ listing' \in [Thread -> SUBSET Route]
    <3>1. "done" \in PC /\ "listed" \in Answer
      BY DEF PC, Answer
    <3>2. /\ pc \in [Thread -> PC] /\ answer \in [Thread -> Answer]
          /\ listing \in [Thread -> SUBSET Route]
      BY <1>1, Zenon DEF TypeOK
    <3>3. QED
      BY ONLY <1>2, <1>3, <3>1, <3>2 DEF Respond
  <2>2. QED
    BY <1>1, <1>2, <2>1, ZenonT(30) DEF TypeOK, serverVars, proxyVars
<1>5. Frame(t)
  BY <1>1, <1>2, ZenonT(30) DEF Frame, Total, Respond, proxyVars
<1>6. \A r \in RoutesFor(client[t]) :
        cfg.routes[r].allowed # {} => client[t] \in cfg.routes[r].allowed \cap valid[t]
  <2>1. client[t] # NoId => client[t] \in valid[t]
    BY <1>1, Zenon DEF Sound
  <2>2. QED
    BY <2>1 DEF RoutesFor, Forbidden, ClientAllowed
<1>7. pc'[t] = "done" /\ listing'[t] = RoutesFor(client[t])
  BY <1>1, <1>2, Zenon DEF Total, Respond
<1>8. Sound(t)'
  BY <1>1, <1>2, <1>6, <1>7, ZenonT(30) DEF Sound, serverVars, proxyVars, Passed, InUse
<1>9. QED
  BY <1>4, <1>5, <1>8, FrameKeeps, Zenon

\* ServeHTTP: the body is kept or still unread, never both or neither.
LEMMA StepHandle ==
    ASSUME IInv, NEW t \in Thread, Handle(t)
    PROVE  IInv'
<1>1. TypeOK /\ Total /\ Sound(t)
  BY Known, Zenon
<1>2. PICK b \in BOOLEAN : /\ buffered' = [buffered EXCEPT ![t] = b]
                           /\ unread' = [unread EXCEPT ![t] = ~ b]
  <2> DEFINE b == cfg.routes[req[t].route].refresh /\ ~ req[t].large
  <2>1. buffered' = [buffered EXCEPT ![t] = b] /\ unread' = [unread EXCEPT ![t] = ~ buffered'[t]]
    BY Zenon DEF Handle
  <2>2. b \in BOOLEAN
    OBVIOUS
  <2> HIDE DEF b
  <2>3. buffered'[t] = b
    BY <1>1, <2>1, Zenon DEF Total
  <2>4. QED
    BY <2>1, <2>2, <2>3, Zenon
<1>3. /\ pc[t] = "handle" /\ req[t].route \in Route
      /\ UNCHANGED <<serverVars, req, client, sent, refreshes, retried, listing, valid, guarded>>
  BY Zenon DEF Handle
<1>4. PICK p \in {"get", "done"} :
        /\ pc' = [pc EXCEPT ![t] = p]
        /\ p = "get" => ~ Forbidden(req[t].route, client[t])
        /\ answer' = answer \/ answer' = [answer EXCEPT ![t] = "forbidden"]
  BY DEF Handle, Respond
<1>5. TypeOK'
  <2>1. pc' \in [Thread -> PC] /\ answer' \in [Thread -> Answer]
    BY <1>1, <1>4, ZenonT(30) DEF TypeOK, PC, Answer
  <2>2. buffered' \in [Thread -> BOOLEAN] /\ unread' \in [Thread -> BOOLEAN]
    BY <1>1, <1>2, ZenonT(30) DEF TypeOK
  <2>3. QED
    BY <1>1, <1>3, <2>1, <2>2, ZenonT(30) DEF TypeOK, serverVars
<1>6. Frame(t)
  BY <1>1, <1>2, <1>3, <1>4, ZenonT(30) DEF Frame, Total
<1>7. pc'[t] = p /\ (buffered'[t] <=> b) /\ (unread'[t] <=> ~ b)
  BY <1>1, <1>2, <1>4, ZenonT(30) DEF Total
<1>8. buffered'[t] # unread'[t]
  <2>1. buffered'[t] \in BOOLEAN /\ unread'[t] \in BOOLEAN
    BY <1>5, ZenonT(30) DEF TypeOK
  <2>2. QED
    BY <1>7, <2>1, ZenonT(30)
<1>9. Sound(t)'
  <2>1. /\ cfg' = cfg /\ tokens' = tokens /\ registered' = registered /\ req'[t] = req[t]
        /\ client'[t] = client[t] /\ sent'[t] = sent[t] /\ refreshes'[t] = refreshes[t]
        /\ retried'[t] = retried[t] /\ listing'[t] = listing[t] /\ valid'[t] = valid[t]
        /\ guarded'[t] = guarded[t]
    BY <1>3, Zenon DEF serverVars
  <2>2. Identified!(t)'
    <3>1. Identified!(t) /\ Passed(t) /\ UNCHANGED <<serverVars, req, valid, guarded>>
      BY <1>1, <1>3, Zenon DEF Sound, Passed
    <3>2. pc'[t] \in {"handle", "get", "sent", "refresh", "done"}
      BY <1>7, Zenon
    <3>3. InUse(t)' => req[t].route \in Route /\ ~ Forbidden(req[t].route, client'[t])
      BY <1>3, <1>4, <1>7, <2>1, Zenon DEF InUse
    <3>4. QED
      BY <2>1, <3>1, <3>2, <3>3, IdentityKept, Zenon
  <2>3. /\ sent[t] = <<>> /\ refreshes[t] = 0 /\ ~ retried[t] /\ listing[t] = {}
        /\ req[t] # NoRequest
    BY <1>1, <1>3, ZenonT(30) DEF Sound
  <2>4. Progress!(t)' /\ AtMostOneRetry!(t)'
    <3>1. /\ pc'[t] \in {"get", "done"} /\ sent'[t] = <<>> /\ refreshes'[t] = 0 /\ ~ retried'[t]
          /\ listing'[t] = {}
      BY ONLY <1>7, <2>1, <2>3, p \in {"get", "done"}, Zenon
    <3>2. Progress!(t)'
      BY ONLY <1>8, <3>1, SMT, Zenon, SMTT(30)
    <3>3. AtMostOneRetry!(t)'
      BY ONLY <3>1, SMT, Zenon, SMTT(30)
    <3>4. QED
      BY ONLY <3>2, <3>3, Zenon
  <2>5. AttemptsAreWhole!(t)' /\ ListedIsOpen!(t)' /\ (req[t] = NoRequest <=> pc[t] = "idle")'
    BY ONLY <1>7, <2>1, <2>3, p \in {"get", "done"}
  <2>6. QED
    BY <2>2, <2>4, <2>5, Zenon DEF Sound
<1>10. QED
  BY <1>5, <1>6, <1>9, FrameKeeps, Zenon

\* ServeHTTP when the body cannot be read.
LEMMA StepReadFails ==
    ASSUME IInv, NEW t \in Thread, ReadFails(t)
    PROVE  IInv'
<1>1. "bad request" \in Answer /\ "handle" # "idle"
  BY DEF Answer
<1>2. QED
  BY <1>1, StepRespond, ZenonT(30) DEF ReadFails

\* The error handler after an attempt without a response.
LEMMA StepUpstreamFails ==
    ASSUME IInv, NEW t \in Thread, UpstreamFails(t)
    PROVE  IInv'
<1>1. "upstream error" \in Answer /\ "sent" # "idle"
  BY DEF Answer
<1>2. QED
  BY <1>1, StepRespond, ZenonT(30) DEF UpstreamFails

\* The handler returns.
LEMMA StepFinish ==
    ASSUME IInv, NEW t \in Thread, Finish(t)
    PROVE  IInv'
<1>1. TypeOK /\ Total
  BY Known, Zenon
<1>2. TypeOK'
  <2>1. "idle" \in PC /\ "none" \in Answer /\ <<>> \in Seq(Attempt) /\ 0 \in Nat
    BY DEF PC, Answer
  <2>2. /\ pc' \in [Thread -> PC] /\ req' \in [Thread -> Requests \cup {NoRequest}]
        /\ client' \in [Thread -> Id \cup {NoId}] /\ sent' \in [Thread -> Seq(Attempt)]
        /\ refreshes' \in [Thread -> Nat] /\ answer' \in [Thread -> Answer]
    BY <1>1, <2>1, ZenonT(30) DEF Finish, TypeOK
  <2>3. /\ buffered' \in [Thread -> BOOLEAN] /\ unread' \in [Thread -> BOOLEAN]
        /\ retried' \in [Thread -> BOOLEAN] /\ guarded' \in [Thread -> BOOLEAN]
        /\ listing' \in [Thread -> SUBSET Route]
        /\ valid' \in [Thread -> SUBSET (Id \cup {NoId})]
    BY <1>1, ZenonT(30) DEF Finish, TypeOK
  <2>4. QED
    BY <1>1, <2>2, <2>3, ZenonT(30) DEF Finish, TypeOK, serverVars
<1>3. Frame(t)
  BY <1>1, ZenonT(30) DEF Finish, Frame, Total
<1>4. /\ pc'[t] = "idle" /\ req'[t] = NoRequest /\ client'[t] = NoId /\ sent'[t] = <<>>
      /\ ~ buffered'[t] /\ unread'[t] /\ refreshes'[t] = 0 /\ ~ retried'[t]
      /\ listing'[t] = {} /\ ~ guarded'[t]
  BY <1>1, ZenonT(30) DEF Finish, Total
<1>5. Sound(t)'
  BY <1>4 DEF Sound, Passed, InUse
<1>6. QED
  BY <1>2, <1>3, <1>5, FrameKeeps, Zenon

\* What Send adds: one attempt, whole when the body can still be had.
LEMMA SendEffect ==
    ASSUME IInv, NEW t \in Thread, NEW c \in Cred, pc[t] \in {"get", "refresh"}, Send(t, c)
    PROVE  \E e \in Attempt : /\ sent' = [sent EXCEPT ![t] = Append(sent[t], e)]
                              /\ e.whole <=> buffered[t] \/ unread[t]
                              /\ unread' = [unread EXCEPT ![t] = FALSE]
                              /\ pc' = [pc EXCEPT ![t] = "sent"]
<1> DEFINE p == Rewrite(Outgoing(t))
           b == buffered[t] \/ unread[t]
           e == [path |-> p, cred |-> c, whole |-> b]
<1>1. sent[t] \in Seq(Attempt) /\ req[t] \in Requests \cup {NoRequest} /\ req[t] # NoRequest
  <2>1. TypeOK /\ Sound(t)
    BY Known, Zenon
  <2>2. req[t] # NoRequest
    BY <2>1, ZenonT(30) DEF Sound
  <2>3. QED
    BY <2>1, <2>2, ZenonT(30) DEF TypeOK
<1>2. Outgoing(t) \in Seq(STRING)
  <2>1. CASE sent[t] = <<>>
    <3>1. req[t].path \in Path
      BY <1>1, RequestAssumption
    <3>2. QED
      BY <2>1, <3>1, PathAssumption, ZenonT(30) DEF Outgoing
  <2>2. CASE sent[t] # <<>>
    <3>1. sent[t][Len(sent[t])] \in Attempt
      BY <1>1, <2>2
    <3>2. sent[t][Len(sent[t])].path \in Seq(STRING)
      BY <3>1 DEF Attempt
    <3>3. QED
      BY <2>2, <3>2, Zenon DEF Outgoing
  <2>3. QED
    BY <2>1, <2>2, Zenon
<1>3. p \in Seq(STRING)
  BY <1>2, RewriteType, Zenon
<1>4. b \in BOOLEAN
  OBVIOUS
<1>5. e \in Attempt /\ (e.whole <=> b)
  <2> HIDE DEF p, b
  <2>1. QED
    BY <1>3, <1>4 DEF Attempt
<1>6. QED
  BY <1>5, ZenonT(30) DEF Send

\* Every refusal is one of the answers.
LEMMA RefusedResponds ==
    ASSUME NEW t, NEW result, Refused(t, result)
    PROVE  \E a \in Answer : Respond(t, a)
<1>1. {"credential error", "reason", "body", "no upstream"} \subseteq Answer
  BY DEF Answer
<1>2. QED
  BY <1>1, ZenonT(30) DEF Refused

\* An attempt puts the request in "sent" with one more attempt made.
LEMMA StepSend ==
    ASSUME IInv, NEW t \in Thread, NEW c \in Cred, pc[t] \in {"get", "refresh"}, Send(t, c),
           UNCHANGED <<serverVars, req, client, buffered, refreshes, answer, listing, valid, guarded>>,
           retried' = [retried EXCEPT ![t] = (pc[t] = "refresh")]
    PROVE  IInv'
<1>1. TypeOK /\ Total /\ Sound(t)
  BY Known, Zenon
<1>2. PICK e \in Attempt : /\ sent' = [sent EXCEPT ![t] = Append(sent[t], e)]
                           /\ e.whole <=> buffered[t] \/ unread[t]
                           /\ unread' = [unread EXCEPT ![t] = FALSE]
                           /\ pc' = [pc EXCEPT ![t] = "sent"]
  BY SendEffect, Zenon
<1>3. /\ sent[t] \in Seq(Attempt) /\ refreshes[t] \in Nat
      /\ buffered[t] \in BOOLEAN /\ unread[t] \in BOOLEAN
  BY <1>1, ZenonT(30) DEF TypeOK
<1>4. /\ Len(sent[t]) = (IF pc[t] = "refresh" THEN 1 ELSE 0)
      /\ refreshes[t] = (IF pc[t] = "refresh" THEN 1 ELSE 0)
      /\ \A i \in DOMAIN sent[t] : sent[t][i].whole
      /\ buffered[t] \/ unread[t]
      /\ listing[t] = {}
  <2>1. CASE pc[t] = "get"
    <3>1. /\ sent[t] = <<>> /\ refreshes[t] = 0 /\ buffered[t] # unread[t] /\ listing[t] = {}
      BY <1>1, <2>1, ZenonT(30) DEF Sound
    <3>2. buffered[t] \/ unread[t]
      BY <1>3, <3>1, Zenon
    <3>3. QED
      BY <2>1, <3>1, <3>2
  <2>2. CASE pc[t] = "refresh"
    <3>1. /\ Len(sent[t]) = 1 /\ refreshes[t] = 1 /\ buffered[t] /\ listing[t] = {}
          /\ \A i \in DOMAIN sent[t] : sent[t][i].whole
      BY <1>1, <2>2, ZenonT(30) DEF Sound
    <3>2. QED
      BY <2>2, <3>1
  <2>3. QED
    BY <2>1, <2>2, Zenon
<1>5. /\ pc'[t] = "sent" /\ sent'[t] = Append(sent[t], e)
      /\ retried'[t] <=> pc[t] = "refresh"
  BY <1>1, <1>2, ZenonT(30) DEF Total
<1>6. /\ Len(sent'[t]) = (IF pc[t] = "refresh" THEN 2 ELSE 1)
      /\ \A i \in DOMAIN sent'[t] : sent'[t][i].whole
  <2>1. e.whole
    BY <1>2, <1>4, Zenon
  <2>2. QED
    BY ONLY <1>3, <1>4, <1>5, <2>1, e \in Attempt
<1>7. TypeOK'
  <2>1. pc' \in [Thread -> PC] /\ sent' \in [Thread -> Seq(Attempt)]
    <3>1. "sent" \in PC /\ Append(sent[t], e) \in Seq(Attempt)
      BY <1>3, AppendType DEF PC
    <3>2. QED
      BY <1>1, <1>2, <3>1, ZenonT(30) DEF TypeOK
  <2>2. unread' \in [Thread -> BOOLEAN] /\ retried' \in [Thread -> BOOLEAN]
    BY <1>1, <1>2, ZenonT(30) DEF TypeOK
  <2>3. QED
    BY <1>1, <2>1, <2>2, ZenonT(30) DEF TypeOK, serverVars
<1>8. Frame(t)
  BY <1>1, <1>2, ZenonT(30) DEF Frame, Total
<1>9. Sound(t)'
  <2>1. Identified!(t)'
    <3>1. InUse(t) /\ InUse(t)'
      BY <1>5, ZenonT(30) DEF InUse
    <3>2. QED
      BY <1>1, <3>1, SameIdentity, Zenon
  <2>2. Progress!(t)' /\ AtMostOneRetry!(t)'
    <3>1. refreshes'[t] = refreshes[t] /\ listing'[t] = listing[t]
      OBVIOUS
    <3>2. QED
      BY ONLY <1>4, <1>5, <1>6, <3>1, pc[t] \in {"get", "refresh"}
  <2>3. AttemptsAreWhole!(t)' /\ ListedIsOpen!(t)'
    BY <1>4, <1>6, Zenon
  <2>4. (req[t] = NoRequest <=> pc[t] = "idle")'
    BY <1>1, <1>5, ZenonT(30) DEF Sound
  <2>5. QED
    BY <2>1, <2>2, <2>3, <2>4, Zenon DEF Sound
<1>10. QED
  BY <1>7, <1>8, <1>9, FrameKeeps, Zenon

\* The first attempt, or the answer without one.
LEMMA StepGotCredential ==
    ASSUME IInv, NEW t \in Thread, NEW result \in Result, NEW c \in Cred,
           GotCredential(t, result, c)
    PROVE  IInv'
<1>1. /\ pc[t] = "get"
      /\ UNCHANGED <<serverVars, req, client, buffered, refreshes, retried, listing, valid, guarded>>
  BY Zenon DEF GotCredential
<1>2. CASE Refused(t, result) /\ UNCHANGED <<sent, unread>>
  <2>1. PICK a \in Answer : Respond(t, a)
    BY <1>2, RefusedResponds, Zenon
  <2>2. pc[t] # "idle" /\ UNCHANGED proxyVars
    BY <1>1, <1>2 DEF proxyVars
  <2>3. QED
    BY <1>1, <2>1, <2>2, StepRespond, Zenon
<1>3. CASE Send(t, c) /\ UNCHANGED answer
  <2>1. retried' = [retried EXCEPT ![t] = (pc[t] = "refresh")]
    <3>1. TypeOK /\ Sound(t)
      BY Known, Zenon
    <3>2. retried \in [Thread -> BOOLEAN] /\ ~ retried[t]
      BY <1>1, <3>1, ZenonT(30) DEF TypeOK, Sound
    <3>3. retried' = retried /\ ~ (pc[t] = "refresh")
      BY <1>1
    <3>4. QED
      BY ONLY <3>2, <3>3, t \in Thread
  <2>2. QED
    BY <1>1, <1>3, <2>1, StepSend, Zenon
<1>4. QED
  BY <1>2, <1>3, Zenon DEF GotCredential

\* modifyResponse: a refresh is asked for once, and only with the body kept.
LEMMA StepUpstreamAnswers ==
    ASSUME IInv, NEW t \in Thread, NEW refusal \in BOOLEAN, UpstreamAnswers(t, refusal)
    PROVE  IInv'
<1>1. TypeOK /\ Total /\ Sound(t)
  BY Known, Zenon
<1>2. /\ pc[t] = "sent"
      /\ UNCHANGED <<serverVars, req, client, buffered, unread, sent, retried, listing, valid, guarded>>
  BY Zenon DEF UpstreamAnswers
<1>3. CASE UNCHANGED refreshes /\ \E a \in Answer : Respond(t, a)
  <2>1. pc[t] # "idle" /\ UNCHANGED proxyVars
    BY <1>2, <1>3 DEF proxyVars
  <2>2. QED
    BY <1>2, <1>3, <2>1, StepRespond, Zenon
<1>4. CASE /\ buffered[t] /\ ~ retried[t] /\ UNCHANGED answer
           /\ refreshes' = [refreshes EXCEPT ![t] = @ + 1]
           /\ pc' = [pc EXCEPT ![t] = "refresh"]
  <2>1. TypeOK'
    <3>1. pc' \in [Thread -> PC] /\ refreshes' \in [Thread -> Nat]
      <4>1. refreshes[t] \in Nat
        BY <1>1, Zenon DEF TypeOK
      <4>2. "refresh" \in PC /\ refreshes[t] + 1 \in Nat
        BY <4>1 DEF PC
      <4>3. QED
        BY <1>1, <1>4, <4>2, ZenonT(30) DEF TypeOK
    <3>2. QED
      BY <1>1, <1>2, <1>4, <3>1, ZenonT(30) DEF TypeOK, serverVars
  <2>2. Frame(t)
    BY <1>1, <1>2, <1>4, ZenonT(30) DEF Frame, Total
  <2>3. pc'[t] = "refresh" /\ refreshes'[t] = refreshes[t] + 1
    BY <1>1, <1>4, ZenonT(30) DEF Total
  <2>4. Sound(t)'
    <3>1. Identified!(t)'
      <4>1. InUse(t) /\ InUse(t)'
        BY <1>2, <2>3, Zenon DEF InUse
      <4>2. QED
        BY <1>1, <1>2, <4>1, SameIdentity, Zenon
    <3>2. /\ buffered'[t] /\ ~ retried'[t] /\ sent'[t] = sent[t] /\ listing'[t] = listing[t]
          /\ req'[t] = req[t]
      BY <1>2, <1>4, Zenon
    <3>3. Len(sent[t]) = 1 /\ refreshes[t] = 0 /\ listing[t] = {} /\ req[t] # NoRequest
      BY <1>1, <1>2, <1>4, ZenonT(30) DEF Sound
    <3>4. Progress!(t)' /\ AtMostOneRetry!(t)'
      BY ONLY <2>3, <3>2, <3>3
    <3>5. AttemptsAreWhole!(t)' /\ ListedIsOpen!(t)'
      BY <1>1, <3>2, <3>3, Zenon DEF Sound
    <3>6. (req[t] = NoRequest <=> pc[t] = "idle")'
      BY <2>3, <3>2, <3>3
    <3>7. QED
      BY <3>1, <3>4, <3>5, <3>6, Zenon DEF Sound
  <2>5. QED
    BY <2>1, <2>2, <2>4, FrameKeeps, Zenon
<1>5. QED
  <2>1. {"upstream", "auth failure after refresh"} \subseteq Answer
    BY DEF Answer
  <2>2. QED
    BY <1>3, <1>4, <2>1, ZenonT(30) DEF UpstreamAnswers, NeedsRefresh

\* The retry, or the answer without one.
LEMMA StepRefreshed ==
    ASSUME IInv, NEW t \in Thread, NEW result \in Result, NEW c \in Cred,
           Refreshed(t, result, c)
    PROVE  IInv'
<1>1. /\ pc[t] = "refresh"
      /\ UNCHANGED <<serverVars, req, client, buffered, refreshes, listing, valid, guarded>>
  BY Zenon DEF Refreshed
<1>2. CASE Refused(t, result) /\ UNCHANGED <<sent, unread, retried>>
  <2>1. PICK a \in Answer : Respond(t, a)
    BY <1>2, RefusedResponds, Zenon
  <2>2. pc[t] # "idle" /\ UNCHANGED proxyVars
    BY <1>1, <1>2 DEF proxyVars
  <2>3. QED
    BY <1>1, <2>1, <2>2, StepRespond, Zenon
<1>3. CASE retried' = [retried EXCEPT ![t] = TRUE] /\ Send(t, c) /\ UNCHANGED answer
  <2>1. retried' = [retried EXCEPT ![t] = (pc[t] = "refresh")]
    BY <1>1, <1>3, Zenon
  <2>2. QED
    BY <1>1, <1>3, <2>1, StepSend, Zenon
<1>4. QED
  BY <1>2, <1>3, Zenon DEF Refreshed

-----------------------------------------------------------------------
(* The theorems.                                                         *)

\* The invariant holds in every behaviour of the request path.
THEOREM Invariance == Spec => []IInv
<1>1. IInv /\ [Next]_vars => IInv'
  <2>1. ASSUME IInv, UNCHANGED vars PROVE IInv'
    <3>1. TypeOK' /\ TableIsCurrent' /\ Requested'
      BY <2>1, ZenonT(30) DEF vars, serverVars, proxyVars, IInv, TypeOK, TableIsCurrent, Requested
    <3>2. Identified'
      BY <2>1, ZenonT(30) DEF vars, serverVars, IInv, Identified, Passed, InUse, Forbidden, ClientAllowed
    <3>3. Progress' /\ AttemptsAreWhole' /\ AtMostOneRetry' /\ ListedIsOpen'
      BY <2>1, ZenonT(30) DEF vars, serverVars, proxyVars, IInv, Progress, AttemptsAreWhole,
                  AtMostOneRetry, ListedIsOpen
    <3>4. QED
      BY <3>1, <3>2, <3>3 DEF IInv
  <2>2. IInv /\ Next => IInv'
    BY StepAddAuthToken, StepArrive, StepAdmit, StepMatch, StepList, StepHandle, StepReadFails,
       StepFinish, StepUpstreamFails, StepUpstreamAnswers, StepGotCredential, StepRefreshed,
       ZenonT(30) DEF Next, Local, Upstream
  <2>3. QED
    BY <2>1, <2>2
<1>2. QED
  BY <1>1, Initially, PTL DEF Spec

\* Whatever the requests, the routes and the changes of the token table, no request
\* gets as far as a provider without the peer, the token and the place on the client
\* list that authMiddleware and ServeHTTP ask for.
THEOREM Authorised == Spec => []ServedIsAuthorised
<1>1. IInv => ServedIsAuthorised
  <2> SUFFICES ASSUME IInv, NEW t \in Thread, InUse(t)
               PROVE  LET allowed == cfg.routes[req[t].route].allowed IN
                      /\ cfg.samePeer => req[t].peer
                      /\ guarded[t] /\ ~ cfg.open => client[t] \in valid[t]
                      /\ allowed # {} => client[t] \in allowed \cap valid[t] \cap Id
    BY DEF ServedIsAuthorised
  <2>1. client[t] \in Id \cup {NoId}
    BY ZenonT(30) DEF IInv, TypeOK
  <2>2. Passed(t) /\ Identified!(t)
    BY DEF IInv, InUse, Passed, Identified
  <2>3. QED
    BY <2>1, <2>2 DEF Forbidden, ClientAllowed
<1>2. QED
  BY <1>1, Invariance, PTL

\* No attempt, first or second, goes upstream with part of its body (route.go).
THEOREM WholeAttempts == Spec => []AttemptsAreWhole
<1>1. IInv => AttemptsAreWhole
  BY DEF IInv
<1>2. QED
  BY <1>1, Invariance, PTL

\* A request is forwarded at most twice after at most one refresh, and /_routes names
\* to a caller only routes that would not refuse that caller (route.go, server.go).
THEOREM RetriesAndListings == Spec => [](AtMostOneRetry /\ ListedIsOpen)
<1>1. IInv => AtMostOneRetry /\ ListedIsOpen
  BY ZenonT(30) DEF IInv
<1>2. QED
  BY <1>1, Invariance, PTL

-----------------------------------------------------------------------
(* The provider of a script route.                                         *)

\* Every step keeps the variables in their types.
LEMMA NextTypeOK == ScriptInv /\ [ScriptNext]_scriptVars => ScriptTypeOK'
<1> SUFFICES ASSUME ScriptInv, [ScriptNext]_scriptVars PROVE ScriptTypeOK'
  OBVIOUS
<1>1. /\ ScriptTypeOK /\ HookTimes
  BY DEF ScriptInv, ScriptTypeOK
<1> USE <1>1, TimeAssumption DEF ScriptTypeOK, CacheEntry, NoEntry, Output, NoOutput, Method, Phases
<1>2. CASE Rotate
  BY <1>2 DEF Rotate, threadVars
<1>3. CASE Tick
  BY <1>3 DEF Tick, threadVars
<1>4. ASSUME NEW t \in Caller, ReadCache(t) PROVE ScriptTypeOK'
  BY <1>4, Zenon DEF ReadCache
<1>5. ASSUME NEW t \in Caller, Lead(t) PROVE ScriptTypeOK'
  <2>1. op[t] \in Method /\ flight' = [flight EXCEPT ![op[t]] = t]
    BY <1>5 DEF Lead
  <2>2. at' \in [Caller -> Nat] /\ phase' \in [Caller -> Phases]
    <3>1. CASE HasCommand(op[t])
      BY <1>5, <3>1 DEF Lead
    <3>2. CASE ~ HasCommand(op[t])
      BY <1>5, <3>2, Zenon DEF Lead
    <3>3. QED
      BY <3>1, <3>2
  <2>3. res' \in [Caller -> {"none", "ok", "err", "reason"}]
    BY <1>5 DEF Lead
  <2>4. flight' \in [Method -> Caller \cup {NoThread}]
    BY <2>1
  <2>5. QED
    BY <1>5, <2>2, <2>3, <2>4 DEF Lead
<1>6. ASSUME NEW t \in Caller, Join(t) PROVE ScriptTypeOK'
  BY <1>6 DEF Join
<1>7. ASSUME NEW t \in Caller, HookReads(t) PROVE ScriptTypeOK'
  BY <1>7 DEF HookReads
<1>8. ASSUME NEW t \in Caller, HookExits(t) PROVE ScriptTypeOK'
  BY <1>8 DEF HookExits
<1>9. ASSUME NEW t \in Caller, HookFails(t) PROVE ScriptTypeOK'
  BY <1>9 DEF HookFails
<1>10. ASSUME NEW t \in Caller, Set(t) PROVE ScriptTypeOK'
  <2>1. at[t] + (out[t].ttl - Safety) \in Nat
    BY <1>10 DEF Set, HookTimes
  <2>2. entry' \in CacheEntry
    BY <1>10, <2>1 DEF Set
  <2>3. QED
    BY <1>10, <2>2 DEF Set
<1>11. ASSUME NEW t \in Caller, Forget(t) PROVE ScriptTypeOK'
  BY <1>11 DEF Forget
<1>12. ASSUME NEW t \in Caller, Return(t) PROVE ScriptTypeOK'
  BY <1>12 DEF Return
<1>13. ASSUME NEW t \in Caller, Get(t) PROVE ScriptTypeOK'
  BY <1>13 DEF Get
<1>14. ASSUME NEW t \in Caller, Refresh(t) PROVE ScriptTypeOK'
  BY <1>14 DEF Refresh
<1>15. CASE UNCHANGED scriptVars
  BY <1>15 DEF scriptVars, threadVars
<1>16. QED
  BY <1>2, <1>3, <1>4, <1>5, <1>6, <1>7, <1>8, <1>9, <1>10, <1>11, <1>12, <1>13,
     <1>14, <1>15, ZenonT(30) DEF ScriptNext, Step

\* A flight is led by the thread that runs its function, and by nobody else.
LEMMA NextFlightLed == ScriptInv /\ [ScriptNext]_scriptVars => FlightLed'
<1> SUFFICES ASSUME ScriptInv, [ScriptNext]_scriptVars PROVE FlightLed'
  OBVIOUS
<1>1. /\ FlightLed
      /\ flight \in [Method -> Caller \cup {NoThread}]
      /\ phase \in [Caller -> Phases] /\ op \in [Caller -> Method]
  BY DEF ScriptInv, ScriptTypeOK
<1> USE <1>1, ThreadAssumption DEF FlightLed, Leads, Method
<1>2. CASE Rotate
  BY <1>2 DEF Rotate, threadVars
<1>3. CASE Tick
  BY <1>3 DEF Tick, threadVars
<1>4. ASSUME NEW t \in Caller, ReadCache(t) PROVE FlightLed'
  BY <1>4 DEF ReadCache
<1>5. ASSUME NEW t \in Caller, Lead(t) PROVE FlightLed'
  BY <1>5 DEF Lead
<1>6. ASSUME NEW t \in Caller, Join(t) PROVE FlightLed'
  BY <1>6 DEF Join
<1>7. ASSUME NEW t \in Caller, HookReads(t) PROVE FlightLed'
  BY <1>7 DEF HookReads
<1>8. ASSUME NEW t \in Caller, HookExits(t) PROVE FlightLed'
  BY <1>8 DEF HookExits
<1>9. ASSUME NEW t \in Caller, HookFails(t) PROVE FlightLed'
  BY <1>9 DEF HookFails
<1>10. ASSUME NEW t \in Caller, Set(t) PROVE FlightLed'
  BY <1>10 DEF Set
<1>11. ASSUME NEW t \in Caller, Forget(t) PROVE FlightLed'
  BY <1>11 DEF Forget
<1>12. ASSUME NEW t \in Caller, Return(t) PROVE FlightLed'
  BY <1>12 DEF Return
<1>13. ASSUME NEW t \in Caller, Get(t) PROVE FlightLed'
  BY <1>13 DEF Get
<1>14. ASSUME NEW t \in Caller, Refresh(t) PROVE FlightLed'
  BY <1>14 DEF Refresh
<1>15. CASE UNCHANGED scriptVars
  BY <1>15 DEF scriptVars, threadVars
<1>16. QED
  BY <1>2, <1>3, <1>4, <1>5, <1>6, <1>7, <1>8, <1>9, <1>10, <1>11, <1>12, <1>13,
     <1>14, <1>15, Zenon DEF ScriptNext, Step

\* Clock readings of a hook stay in order: it starts, it reads the credential, and its
\* output is parsed within the timeout.
LEMMA NextHookTimes == ScriptInv /\ [ScriptNext]_scriptVars => HookTimes'
<1> SUFFICES ASSUME ScriptInv, [ScriptNext]_scriptVars PROVE HookTimes'
  OBVIOUS
<1>1. /\ HookTimes
      /\ phase \in [Caller -> Phases] /\ at \in [Caller -> Nat] /\ out \in [Caller -> Output]
      /\ now \in Nat
  BY DEF ScriptInv, ScriptTypeOK
<1> USE <1>1, TimeAssumption DEF HookTimes, Output, NoOutput
<1>2. CASE Rotate
  BY <1>2 DEF Rotate, threadVars
<1>3. CASE Tick
  BY <1>3 DEF Tick, threadVars
<1>4. ASSUME NEW t \in Caller, ReadCache(t) PROVE HookTimes'
  BY <1>4 DEF ReadCache
<1>5. ASSUME NEW t \in Caller, Lead(t) PROVE HookTimes'
  BY <1>5 DEF Lead
<1>6. ASSUME NEW t \in Caller, Join(t) PROVE HookTimes'
  BY <1>6, ZenonT(30) DEF Join
<1>7. ASSUME NEW t \in Caller, HookReads(t) PROVE HookTimes'
  BY <1>7 DEF HookReads
<1>8. ASSUME NEW t \in Caller, HookExits(t) PROVE HookTimes'
  BY <1>8 DEF HookExits
<1>9. ASSUME NEW t \in Caller, HookFails(t) PROVE HookTimes'
  BY <1>9, Zenon DEF HookFails
<1>10. ASSUME NEW t \in Caller, Set(t) PROVE HookTimes'
  BY <1>10, Zenon DEF Set
<1>11. ASSUME NEW t \in Caller, Forget(t) PROVE HookTimes'
  BY <1>11, ZenonT(30) DEF Forget
<1>12. ASSUME NEW t \in Caller, Return(t) PROVE HookTimes'
  BY <1>12 DEF Return
<1>13. ASSUME NEW t \in Caller, Get(t) PROVE HookTimes'
  BY <1>13 DEF Get
<1>14. ASSUME NEW t \in Caller, Refresh(t) PROVE HookTimes'
  BY <1>14 DEF Refresh
<1>15. CASE UNCHANGED scriptVars
  BY <1>15, ZenonT(30) DEF scriptVars, threadVars
<1>16. QED
  BY <1>2, <1>3, <1>4, <1>5, <1>6, <1>7, <1>8, <1>9, <1>10, <1>11, <1>12, <1>13,
     <1>14, <1>15, ZenonT(30) DEF ScriptNext, Step

\* An entry is dropped no later than the credential it holds dies.
LEMMA NextEntryTimes == ScriptInv /\ [ScriptNext]_scriptVars => EntryTimes'
<1> SUFFICES ASSUME ScriptInv, [ScriptNext]_scriptVars PROVE EntryTimes'
  OBVIOUS
<1>1. /\ HookTimes /\ EntryTimes
      /\ entry \in CacheEntry /\ at \in [Caller -> Nat] /\ out \in [Caller -> Output]
  BY DEF ScriptInv, ScriptTypeOK
<1> USE <1>1, TimeAssumption DEF HookTimes, EntryTimes, CacheEntry, Output, NoEntry
<1>2. CASE Rotate
  BY <1>2 DEF Rotate, threadVars
<1>3. CASE Tick
  BY <1>3 DEF Tick, threadVars
<1>4. ASSUME NEW t \in Caller, ReadCache(t) PROVE EntryTimes'
  BY <1>4, ZenonT(30) DEF ReadCache
<1>5. ASSUME NEW t \in Caller, Lead(t) PROVE EntryTimes'
  BY <1>5 DEF Lead
<1>6. ASSUME NEW t \in Caller, Join(t) PROVE EntryTimes'
  BY <1>6, ZenonT(30) DEF Join
<1>7. ASSUME NEW t \in Caller, HookReads(t) PROVE EntryTimes'
  BY <1>7 DEF HookReads
<1>8. ASSUME NEW t \in Caller, HookExits(t) PROVE EntryTimes'
  BY <1>8 DEF HookExits
<1>9. ASSUME NEW t \in Caller, HookFails(t) PROVE EntryTimes'
  BY <1>9, ZenonT(30) DEF HookFails
<1>10. ASSUME NEW t \in Caller, Set(t) PROVE EntryTimes'
  <2>1. /\ out[t].ttl > Safety /\ at[t] + out[t].ttl <= out[t].dies + Safety
        /\ entry'.exp = at[t] + (out[t].ttl - Safety) /\ entry'.dies = out[t].dies
    BY <1>10, ZenonT(30) DEF Set
  <2>2. out[t].ttl \in Nat /\ out[t].dies \in Nat /\ at[t] \in Nat /\ Safety \in Nat
    OBVIOUS
  <2>3. \A a, l, d, s \in Nat : l > s /\ a + l <= d + s => a + (l - s) <= d
    OBVIOUS
  <2>4. at[t] + (out[t].ttl - Safety) <= out[t].dies
    BY <2>1, <2>2, <2>3, Zenon
  <2>5. QED
    BY <2>1, <2>4
<1>11. ASSUME NEW t \in Caller, Forget(t) PROVE EntryTimes'
  BY <1>11, ZenonT(30) DEF Forget
<1>12. ASSUME NEW t \in Caller, Return(t) PROVE EntryTimes'
  BY <1>12 DEF Return
<1>13. ASSUME NEW t \in Caller, Get(t) PROVE EntryTimes'
  BY <1>13 DEF Get
<1>14. ASSUME NEW t \in Caller, Refresh(t) PROVE EntryTimes'
  BY <1>14 DEF Refresh
<1>15. CASE UNCHANGED scriptVars
  BY <1>15 DEF scriptVars, threadVars
<1>16. QED
  BY <1>2, <1>3, <1>4, <1>5, <1>6, <1>7, <1>8, <1>9, <1>10, <1>11, <1>12, <1>13,
     <1>14, <1>15, ZenonT(30) DEF ScriptNext, Step

\* ScriptInv is an invariant of the script provider.
THEOREM ScriptInvariance == ScriptSpec => []ScriptInv
<1>1. ScriptInit => ScriptInv
  BY ThreadAssumption DEF ScriptInit, ScriptInv, ScriptTypeOK, FlightLed, Leads, HookTimes, EntryTimes, CacheEntry,
     NoEntry, Output, NoOutput, Method, Phases
<1>2. ScriptInv /\ [ScriptNext]_scriptVars => ScriptInv'
  BY NextTypeOK, NextFlightLed, NextHookTimes, NextEntryTimes DEF ScriptInv
<1>3. QED
  BY <1>1, <1>2, PTL DEF ScriptSpec

\* The variables keep their types.
THEOREM ScriptTypeCorrect == ScriptSpec => []ScriptTypeOK
<1>1. ScriptInv => ScriptTypeOK
  BY DEF ScriptInv
<1>2. QED
  BY <1>1, ScriptInvariance, PTL

\* The cache never serves a credential that its issuer has stopped honouring, as
\* long as the hook timeout does not exceed the safety margin.
THEOREM ServesLive == ScriptSpec => []CachedIsAlive
<1>1. ScriptInv => CachedIsAlive
  BY DEF ScriptInv, ScriptTypeOK, EntryTimes, CacheEntry, CachedIsAlive, Cached
<1>2. QED
  BY <1>1, ScriptInvariance, PTL

\* Two hook processes for the same method never run at once.
THEOREM HookAlone == ScriptSpec => []OneHookPerMethod
<1>1. ScriptInv => OneHookPerMethod
  BY DEF ScriptInv, ScriptTypeOK, FlightLed, Leads, OneHookPerMethod, RunsHook
<1>2. QED
  BY <1>1, ScriptInvariance, PTL
==========================================================================
