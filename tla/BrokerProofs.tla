------------------------- MODULE BrokerProofs -------------------------
(***************************************************************************)
(* Proofs about a forwarding route with a script provider, for any number  *)
(* of concurrent requests.  The broker's steps are steps of its handler    *)
(* and of its provider, so that what is proved about each of them alone    *)
(* holds of them together; and a request fails after a refresh only if the *)
(* credential was rotated while the request was served.                    *)
(***************************************************************************)
EXTENDS Broker, TLAPS

\* The provers a leaf is tried with, in turn, unless it names its own.
USE SMT, Zenon, SMTT(30)

\* The credential of an attempt is a number, and the last attempt is the one just made.
LEMMA LastAttempt ==
  ASSUME NEW s \in Seq(H!Attempt), Len(s) # 0
  PROVE  s[Len(s)].cred \in Nat
<1>1. s[Len(s)] \in H!Attempt
  OBVIOUS
<1>2. QED
  BY <1>1 DEF H!Attempt

\* The last element of an extended sequence is the one that was added.
LEMMA LastAppended ==
  ASSUME NEW S, NEW s \in Seq(S), NEW e
  PROVE  Append(s, e)[Len(Append(s, e))] = e
  OBVIOUS

-----------------------------------------------------------------------
(* The steps, as far as the invariant sees them.                         *)

\* What the invariant of the broker needs of those of its parts.
Parts == P!ScriptTypeOK /\ P!FlightLed /\ H!TypeOK /\ H!Progress

\* The shapes of the variables that the invariant reads.
LEMMA Shapes ==
  ASSUME Parts
  PROVE  /\ phase \in [Thread -> P!Phases] /\ op \in [Thread -> {"get", "refresh"}]
         /\ res \in [Thread -> {"none", "ok", "err", "reason"}]
         /\ val \in [Thread -> Nat] /\ cred \in Nat
         /\ DOMAIN out = Thread /\ \A t \in Thread : out[t].val \in Nat
         /\ commands \subseteq {"get", "refresh"}
         /\ stage \in [Thread -> H!PC] /\ retried \in [Thread -> BOOLEAN]
         /\ answer \in [Thread -> H!Answer]
         /\ sent \in [Thread -> Seq(H!Attempt)]
<1>1. P!ScriptTypeOK /\ H!TypeOK
  BY Zenon DEF Parts
<1>2. /\ phase \in [Thread -> P!Phases] /\ op \in [Thread -> {"get", "refresh"}]
      /\ res \in [Thread -> {"none", "ok", "err", "reason"}]
      /\ val \in [Thread -> Nat] /\ cred \in Nat
      /\ commands \subseteq {"get", "refresh"}
  BY <1>1, Zenon DEF P!ScriptTypeOK, P!Phases, P!Phases, P!Method
<1>3. DOMAIN out = Thread /\ \A t \in Thread : out[t].val \in Nat
  BY <1>1 DEF P!ScriptTypeOK, P!Output
<1>4. /\ stage \in [Thread -> H!PC] /\ retried \in [Thread -> BOOLEAN]
      /\ answer \in [Thread -> H!Answer]
      /\ sent \in [Thread -> Seq(H!Attempt)]
  BY <1>1, Zenon DEF H!TypeOK, H!PC, H!PC, H!Answer, H!Answer
<1>5. QED
  BY <1>2, <1>3, <1>4, Zenon

\* A request that waits for the upstream has made an attempt.
LEMMA SentCred ==
  ASSUME Parts, NEW t \in Thread, stage[t] = "sent"
  PROVE  sent[t][Len(sent[t])].cred \in Nat
<1>1. Len(sent[t]) = (IF retried[t] THEN 2 ELSE 1)
  BY Zenon DEF Parts, H!Progress
<1>2. Len(sent[t]) # 0
  BY <1>1
<1>3. sent[t] \in Seq(H!Attempt)
  BY Shapes, Zenon
<1>4. QED
  BY <1>2, <1>3, LastAttempt, Zenon

\* What a step of the call of t does to t.
CallStep(t) ==
    /\ phase[t] # "idle"
    /\ \/ phase'[t] \in {"do", "join", "hook"}
       \/ phase[t] = "read" /\ phase'[t] = "return"
       \/ phase'[t] = "output" /\ out'[t].val = cred
       \/ phase[t] = "output" /\ phase'[t] \in {"set", "forget"} /\ val'[t] = out[t].val
       \/ phase'[t] = "forget" /\ res'[t] # "ok"
       \/ phase'[t] = "forget" /\ ~ P!HasCommand(op[t])
       \/ phase[t] = "set" /\ phase'[t] = "forget" /\ res'[t] = res[t] /\ val'[t] = val[t]
       \/ phase[t] = "forget" /\ phase'[t] = "return" /\ res'[t] = res[t] /\ val'[t] = val[t]

\* What it does to another call: nothing, or it wakes one that has joined it.
Woken(t, u) ==
    /\ phase[t] = "forget" /\ phase[u] = "join" /\ op[u] = op[t]
    /\ phase'[u] = "return" /\ res'[u] = res[t] /\ val'[u] = val[t]
Same(u) == phase'[u] = phase[u] /\ res'[u] = res[u] /\ val'[u] = val[u] /\ out'[u] = out[u]

\* A step of a call is of one of these kinds (ttlCache.do, Get and Refresh).
LEMMA CallSteps ==
  ASSUME Parts, NEW t \in Thread, P!Step(t)
  PROVE  /\ UNCHANGED <<commands, cred, op>>
         /\ CallStep(t)
         /\ \A u \in Thread : u # t => Same(u) \/ Woken(t, u)
<1> DEFINE Kind == /\ UNCHANGED <<commands, cred, op>>
                   /\ CallStep(t)
                   /\ \A u \in Thread : u # t => Same(u) \/ Woken(t, u)
<1>1. /\ phase \in [Thread -> P!Phases] /\ op \in [Thread -> {"get", "refresh"}]
      /\ res \in [Thread -> {"none", "ok", "err", "reason"}]
      /\ val \in [Thread -> Nat] /\ DOMAIN out = Thread
  BY Shapes, Zenon
<1>2. CASE P!ReadCache(t)
  BY <1>1, <1>2 DEF P!ReadCache, CallStep, Same
<1>3. CASE P!Lead(t)
  BY <1>1, <1>3 DEF P!Lead, CallStep, Same
<1>4. CASE P!Join(t)
  BY <1>1, <1>4 DEF P!Join, CallStep, Same
<1>5. CASE P!HookReads(t)
  BY <1>1, <1>5 DEF P!HookReads, CallStep, Same
<1>6. CASE P!HookExits(t)
  BY <1>1, <1>6 DEF P!HookExits, CallStep, Same
<1>7. CASE P!HookFails(t)
  BY <1>1, <1>7 DEF P!HookFails, CallStep, Same
<1>8. CASE P!Set(t)
  BY <1>1, <1>8 DEF P!Set, CallStep, Same
<1>9. CASE P!Forget(t)
  BY <1>1, <1>9 DEF P!Forget, CallStep, Same, Woken
<1>10. QED
  BY <1>2, <1>3, <1>4, <1>5, <1>6, <1>7, <1>8, <1>9, Zenon DEF P!Step

\* A flight of Refresh that t did not find under way when it arrived.
FlightCovers(t, u) ==
    op[u] = "refresh" =>
      /\ phase[u] = "output" => Covers(t, out[u].val)
      /\ phase[u] \in {"set", "forget"} /\ res[u] = "ok" => Covers(t, val[u])

\* What t itself holds of it.
HoldsCovered(t) ==
    /\ op[t] = "refresh" /\ phase[t] = "return" /\ res[t] = "ok" => Covers(t, val[t])
    /\ stage[t] = "sent" /\ retried[t] => Covers(t, sent[t][Len(sent[t])].cred)

Failed(t) == answer[t] = "auth failure after refresh"

\* The invariant, thread by thread.
LEMMA IInvParts ==
  IInv <=> /\ began \in [Thread -> Nat] /\ alone \in [Thread -> BOOLEAN]
           /\ \A t \in Thread :
                /\ began[t] <= cred
                /\ Linked!(t)
                /\ alone[t] /\ commands # {} =>
                     /\ \A u \in Thread : FlightCovers(t, u)
                     /\ HoldsCovered(t)
                     /\ Failed(t) => cred > began[t]
  BY Zenon DEF IInv, Linked, RefreshCovers, FailureMeansRotation, FlightCovers, HoldsCovered, Failed

\* The handler's steps leave other requests alone.
Others(t) ==
    \A u \in Thread : u # t =>
      /\ stage'[u] = stage[u] /\ answer'[u] = answer[u]
      /\ retried'[u] = retried[u] /\ sent'[u] = sent[u]
OtherCalls(t) == \A u \in Thread : u # t => Same(u) /\ op'[u] = op[u]

\* Flights of other calls cover t as before.
LEMMA FlightsKept ==
  ASSUME NEW t \in Thread, OtherCalls(t), cred' = cred, began'[t] = began[t],
         \A u \in Thread : FlightCovers(t, u)
  PROVE  \A u \in Thread : u # t => FlightCovers(t, u)'
<1> SUFFICES ASSUME NEW u \in Thread, u # t PROVE FlightCovers(t, u)'
  OBVIOUS
<1>1. Same(u) /\ op'[u] = op[u] /\ FlightCovers(t, u)
  BY Zenon DEF OtherCalls
<1>2. QED
  BY <1>1, Zenon DEF FlightCovers, Covers, Same

\* A step of the handler of t that keeps the invariant for t keeps it for everybody, since
\* it leaves the call of t, if there is one, before its hook.
LEMMA Moves ==
  ASSUME IInv, NEW t \in Thread, UNCHANGED <<commands, cred>>,
         Others(t), OtherCalls(t), phase'[t] \in {"idle", "read", "do"},
         began' \in [Thread -> Nat], alone' \in [Thread -> BOOLEAN],
         \A u \in Thread : u # t => began'[u] = began[u] /\ alone'[u] = alone[u],
         began'[t] <= cred, Linked!(t)',
         alone'[t] /\ commands # {} =>
           /\ \A u \in Thread : u # t => FlightCovers(t, u)'
           /\ stage'[t] = "sent" /\ retried'[t] => Covers(t, sent[t][Len(sent[t])].cred)'
           /\ Failed(t)' => cred > began'[t]
  PROVE  IInv'
<1>1. commands' = commands /\ cred' = cred
  OBVIOUS
<1>2. \A u \in Thread : FlightCovers(u, t)' /\ HoldsCovered(t)!1'
  BY DEF FlightCovers, HoldsCovered
<1>3. ASSUME NEW u \in Thread, u # t
      PROVE  /\ began'[u] <= cred'
             /\ Linked!(u)'
             /\ alone'[u] /\ commands' # {} =>
                  /\ \A w \in Thread : FlightCovers(u, w)'
                  /\ HoldsCovered(u)'
                  /\ Failed(u)' => cred' > began'[u]
  <2>1. /\ stage'[u] = stage[u] /\ answer'[u] = answer[u]
        /\ retried'[u] = retried[u] /\ sent'[u] = sent[u]
        /\ began'[u] = began[u] /\ alone'[u] = alone[u]
        /\ phase'[u] = phase[u] /\ op'[u] = op[u] /\ res'[u] = res[u] /\ val'[u] = val[u]
    BY <1>3, Zenon DEF Others, OtherCalls, Same
  <2>2. began[u] <= cred /\ Linked!(u)
    BY IInvParts, Zenon
  <2>3. Linked!(u)'
    BY <2>1, <2>2, Zenon
  <2>4. began'[u] <= cred'
    BY <1>1, <2>1, <2>2, Zenon
  <2>5. ASSUME alone'[u], commands' # {}
        PROVE  /\ \A w \in Thread : FlightCovers(u, w)'
               /\ HoldsCovered(u)'
               /\ Failed(u)' => cred' > began'[u]
    <3>1. alone[u] /\ commands # {}
      BY <1>1, <2>1, <2>5, Zenon
    <3>2. /\ \A w \in Thread : FlightCovers(u, w)
          /\ HoldsCovered(u)
          /\ Failed(u) => cred > began[u]
      BY <3>1, IInvParts, Zenon
    <3>3. ASSUME NEW w \in Thread PROVE FlightCovers(u, w)'
      <4>1. CASE w = t
        BY <1>2, <4>1, Zenon
      <4>2. CASE w # t
        <5>1. Same(w) /\ op'[w] = op[w]
          BY <4>2, Zenon DEF OtherCalls
        <5>2. QED
          BY <1>1, <2>1, <3>2, <5>1, ZenonT(30) DEF FlightCovers, Covers, Same
      <4>3. QED
        BY <4>1, <4>2, Zenon
    <3>4. HoldsCovered(u)' /\ (Failed(u)' => cred' > began'[u])
      BY <1>1, <2>1, <3>2, Zenon DEF HoldsCovered, Covers, Failed
    <3>5. QED
      BY <3>3, <3>4, Zenon
  <2>6. QED
    BY <2>3, <2>4, <2>5, Zenon
<1>4. /\ began'[t] <= cred'
      /\ Linked!(t)'
      /\ alone'[t] /\ commands' # {} =>
           /\ \A w \in Thread : FlightCovers(t, w)'
           /\ HoldsCovered(t)'
           /\ Failed(t)' => cred' > began'[t]
  BY <1>1, <1>2, Zenon DEF HoldsCovered
<1>5. /\ began' \in [Thread -> Nat] /\ alone' \in [Thread -> BOOLEAN]
      /\ \A u \in Thread :
           /\ began'[u] <= cred'
           /\ Linked!(u)'
           /\ alone'[u] /\ commands' # {} =>
                /\ \A w \in Thread : FlightCovers(u, w)'
                /\ HoldsCovered(u)'
                /\ Failed(u)' => cred' > began'[u]
  BY <1>3, <1>4, ZenonT(30)
<1>6. QED
  BY <1>5, Zenon DEF IInv, Linked, RefreshCovers, FailureMeansRotation, FlightCovers,
                     HoldsCovered, Failed

\* Most steps of the handler take place between calls of the provider and leave the history
\* of the request as it is.
LEMMA Between ==
  ASSUME IInv, NEW t \in Thread, UNCHANGED <<providerVars, began, alone>>, Others(t),
         stage[t] \notin {"get", "refresh"}, stage'[t] \notin {"get", "refresh", "sent"},
         stage'[t] = "done" \/ answer'[t] = "none",
         alone[t] /\ commands # {} /\ Failed(t)' => cred > began[t]
  PROVE  IInv'
<1>1. /\ UNCHANGED <<commands, cred, phase, op, out, res, val>>
  BY Zenon DEF providerVars
<1>2. phase[t] = "idle" /\ OtherCalls(t)
  BY <1>1, IInvParts, Zenon DEF OtherCalls, Same
<1>3. /\ began \in [Thread -> Nat] /\ alone \in [Thread -> BOOLEAN]
      /\ began[t] <= cred
      /\ alone[t] /\ commands # {} => \A u \in Thread : FlightCovers(t, u)
  BY IInvParts, Zenon
<1>4. /\ began' \in [Thread -> Nat] /\ alone' \in [Thread -> BOOLEAN]
      /\ \A u \in Thread : u # t => began'[u] = began[u] /\ alone'[u] = alone[u]
      /\ began'[t] <= cred /\ began'[t] = began[t] /\ alone'[t] = alone[t]
  BY <1>3, Zenon
<1>5. Linked!(t)'
  BY <1>1, <1>2, Zenon
<1>6. alone'[t] /\ commands # {} => \A u \in Thread : u # t => FlightCovers(t, u)'
  BY <1>1, <1>3, <1>4, Zenon DEF FlightCovers, Covers
<1>7. phase'[t] \in {"idle", "read", "do"} /\ UNCHANGED <<commands, cred>>
  BY <1>1, <1>2, Zenon
<1>8. QED
  BY <1>2, <1>4, <1>5, <1>6, <1>7, Moves, Zenon

\* A request arrives: no refresh under way then can serve it with an older credential,
\* for alone says that there is none.
LEMMA StepArrive ==
  ASSUME Parts, IInv, NEW t \in Thread, NEW r \in Requests, Arrive(t, r)
  PROVE  IInv'
<1>1. /\ UNCHANGED <<commands, cred, phase, op, out, res, val>>
      /\ began' = [began EXCEPT ![t] = cred]
      /\ alone' = [alone EXCEPT ![t] = flight["refresh"] = NoThread]
      /\ stage[t] = "idle" /\ stage' = [stage EXCEPT ![t] = "admit"]
      /\ UNCHANGED <<answer, retried, sent>>
  BY Zenon DEF Arrive, H!Arrive, H!proxyVars, providerVars
<1>2. /\ began \in [Thread -> Nat] /\ alone \in [Thread -> BOOLEAN]
      /\ Linked!(t)
  BY IInvParts, Zenon
<1>3. stage \in [Thread -> H!PC] /\ cred \in Nat
  BY Shapes, Zenon
<1>4. stage'[t] = "admit" /\ Others(t) /\ OtherCalls(t) /\ phase[t] = "idle" /\ phase'[t] = "idle"
  BY <1>1, <1>2, <1>3, Zenon DEF Others, OtherCalls, Same
<1>5. /\ began' \in [Thread -> Nat] /\ began'[t] = cred
      /\ alone' \in [Thread -> BOOLEAN] /\ alone'[t] = (flight["refresh"] = NoThread)
      /\ \A u \in Thread : u # t => began'[u] = began[u] /\ alone'[u] = alone[u]
  BY <1>1, <1>2, <1>3, Zenon
<1>6. began'[t] <= cred
  BY <1>3, <1>5
<1>7. answer'[t] = "none" /\ Linked!(t)'
  BY <1>1, <1>2, <1>4, Zenon
<1>8. ASSUME alone'[t], NEW u \in Thread PROVE FlightCovers(t, u)'
  <2>1. P!FlightLed /\ u # NoThread
    BY ProviderAssumption, Zenon DEF Parts
  <2>2. ~ (P!Leads(u) /\ op[u] = "refresh")
    BY <1>5, <1>8, <2>1, Zenon DEF P!FlightLed, P!Method
  <2>3. QED
    BY <1>1, <2>2, Zenon DEF FlightCovers, P!Leads
<1>9. ~ Failed(t)' /\ stage'[t] # "sent"
  BY <1>4, <1>7, Zenon DEF Failed
<1>10. phase'[t] \in {"idle", "read", "do"} /\ UNCHANGED <<commands, cred>>
  BY <1>1, <1>4, Zenon
<1>11. QED
  BY <1>4, <1>5, <1>6, <1>7, <1>8, <1>9, <1>10, Moves, Zenon

\* Admission, an unreadable body, a lost upstream.
LEMMA StepLocal ==
  ASSUME Parts, IInv, NEW t \in Thread, Local(t) \/ UpstreamFails(t)
  PROVE  IInv'
<1>1. stage \in [Thread -> H!PC] /\ answer \in [Thread -> H!Answer]
  BY Shapes, Zenon
<1>2. stage[t] # "done" => answer[t] = "none"
  BY IInvParts, Zenon
<1>3. CASE H!Admit(t)
  <2>1. /\ stage[t] = "admit" /\ UNCHANGED <<retried, sent>>
        /\ \/ /\ stage' = [stage EXCEPT ![t] = "handle"] \/ stage' = [stage EXCEPT ![t] = "match"]
              /\ UNCHANGED answer
           \/ /\ stage' = [stage EXCEPT ![t] = "done"]
              /\ \/ answer' = [answer EXCEPT ![t] = "forbidden"]
                 \/ answer' = [answer EXCEPT ![t] = "unauthorized"]
    BY <1>3, Zenon DEF H!Admit, H!Respond, H!proxyVars
  <2>2. /\ stage'[t] \in {"handle", "match", "done"} /\ Others(t)
        /\ stage'[t] = "done" \/ answer'[t] = "none"
        /\ ~ Failed(t)'
    BY <1>1, <1>2, <2>1, Zenon DEF Others, Failed
  <2>3. QED
    BY <2>1, <2>2, <1>3, Between, Zenon DEF Local, UpstreamFails
<1>4. CASE H!ReadFails(t) \/ H!UpstreamFails(t)
  <2>1. /\ stage[t] \in {"handle", "sent"} /\ UNCHANGED <<retried, sent>>
        /\ stage' = [stage EXCEPT ![t] = "done"]
        /\ \/ answer' = [answer EXCEPT ![t] = "bad request"]
           \/ answer' = [answer EXCEPT ![t] = "upstream error"]
    BY <1>4, Zenon DEF H!ReadFails, H!UpstreamFails, H!Respond, H!proxyVars
  <2>2. stage'[t] = "done" /\ Others(t) /\ ~ Failed(t)'
    BY <1>1, <2>1, Zenon DEF Others, Failed
  <2>3. QED
    BY <2>1, <2>2, <1>4, Between, Zenon DEF Local, UpstreamFails
<1>5. QED
  BY <1>3, <1>4, Zenon DEF Local, UpstreamFails

\* The request ends and leaves no history.
LEMMA StepFinish ==
  ASSUME Parts, IInv, NEW t \in Thread, Finish(t)
  PROVE  IInv'
<1>1. /\ UNCHANGED <<commands, cred, phase, op, out, res, val>>
      /\ began' = [began EXCEPT ![t] = 0] /\ alone' = [alone EXCEPT ![t] = FALSE]
      /\ stage[t] = "done" /\ stage' = [stage EXCEPT ![t] = "idle"]
      /\ answer' = [answer EXCEPT ![t] = "none"]
      /\ retried' = [retried EXCEPT ![t] = FALSE]
      /\ sent' = [sent EXCEPT ![t] = <<>>]
  BY Zenon DEF Finish, H!Finish, providerVars
<1>2. /\ began \in [Thread -> Nat] /\ alone \in [Thread -> BOOLEAN]
      /\ Linked!(t)
  BY IInvParts, Zenon
<1>3. /\ stage \in [Thread -> H!PC] /\ answer \in [Thread -> H!Answer] /\ cred \in Nat
      /\ retried \in [Thread -> BOOLEAN] /\ sent \in [Thread -> Seq(H!Attempt)]
  BY Shapes, Zenon
<1>4. /\ stage'[t] = "idle" /\ answer'[t] = "none" /\ Others(t) /\ OtherCalls(t)
      /\ phase[t] = "idle" /\ phase'[t] = "idle"
  BY <1>1, <1>2, <1>3, Zenon DEF Others, OtherCalls, Same
<1>5. /\ began' \in [Thread -> Nat] /\ began'[t] = 0
      /\ alone' \in [Thread -> BOOLEAN] /\ alone'[t] = FALSE
      /\ \A u \in Thread : u # t => began'[u] = began[u] /\ alone'[u] = alone[u]
  BY <1>1, <1>2
<1>6. began'[t] <= cred
  BY <1>3, <1>5
<1>7. Linked!(t)' /\ phase'[t] \in {"idle", "read", "do"} /\ UNCHANGED <<commands, cred>>
  BY <1>1, <1>2, <1>4, Zenon
<1>8. QED
  BY <1>4, <1>5, <1>6, <1>7, Moves, Zenon

\* A step that ends in a call of Get or of Refresh.
LEMMA Calling ==
  ASSUME IInv, NEW t \in Thread, NEW m \in {"get", "refresh"},
         UNCHANGED <<commands, cred, out, res, val, began, alone, answer>>,
         Others(t), \A u \in Thread : u # t => phase'[u] = phase[u] /\ op'[u] = op[u],
         stage[t] # "done", stage'[t] = m, op'[t] = m,
         (m = "get" /\ phase'[t] = "read") \/ phase'[t] = "do"
  PROVE  IInv'
<1>1. /\ began \in [Thread -> Nat] /\ alone \in [Thread -> BOOLEAN]
      /\ began[t] <= cred /\ Linked!(t)
      /\ alone[t] /\ commands # {} => \A u \in Thread : FlightCovers(t, u)
  BY IInvParts, Zenon
<1>2. OtherCalls(t) /\ phase'[t] \in {"idle", "read", "do"} /\ stage'[t] \notin {"sent", "done"}
  BY DEF OtherCalls, Same
<1>3. answer'[t] = "none" /\ Linked!(t)'
  BY <1>1, <1>2
<1>4. /\ began' \in [Thread -> Nat] /\ alone' \in [Thread -> BOOLEAN]
      /\ \A u \in Thread : u # t => began'[u] = began[u] /\ alone'[u] = alone[u]
      /\ began'[t] <= cred /\ began'[t] = began[t] /\ alone'[t] = alone[t]
  BY <1>1, Zenon
<1>5. alone'[t] /\ commands # {} => \A u \in Thread : u # t => FlightCovers(t, u)'
  BY <1>1, <1>4, ZenonT(30) DEF FlightCovers, Covers
<1>6. ~ Failed(t)' /\ UNCHANGED <<commands, cred>>
  BY <1>3, Zenon DEF Failed
<1>7. QED
  BY <1>2, <1>3, <1>4, <1>5, <1>6, Moves, Zenon

\* The request is forbidden, or its handler calls Get.
LEMMA StepHandle ==
  ASSUME Parts, IInv, NEW t \in Thread, Handle(t)
  PROVE  IInv'
<1>1. /\ stage \in [Thread -> H!PC] /\ answer \in [Thread -> H!Answer]
      /\ phase \in [Thread -> P!Phases] /\ op \in [Thread -> {"get", "refresh"}]
  BY Shapes, Zenon
<1>2. /\ stage[t] = "handle" /\ UNCHANGED <<retried, sent, began, alone>>
      /\ \/ stage' = [stage EXCEPT ![t] = "done"] /\ answer' = [answer EXCEPT ![t] = "forbidden"]
         \/ stage' = [stage EXCEPT ![t] = "get"] /\ UNCHANGED answer
      /\ IF stage'[t] = "get" THEN P!Get(t) ELSE UNCHANGED providerVars
  BY Zenon DEF Handle, H!Handle, H!Respond
<1>3. CASE stage' = [stage EXCEPT ![t] = "done"] /\ answer' = [answer EXCEPT ![t] = "forbidden"]
  <2>1. stage'[t] = "done" /\ Others(t) /\ ~ Failed(t)'
    BY <1>1, <1>2, <1>3 DEF Others, Failed
  <2>2. stage[t] \notin {"get", "refresh"} /\ stage'[t] \notin {"get", "refresh", "sent"}
    BY <1>2, <2>1
  <2>3. QED
    BY <1>2, <2>1, <2>2, Between, Zenon
<1>4. CASE stage' = [stage EXCEPT ![t] = "get"] /\ UNCHANGED answer
  <2>1. stage'[t] = "get" /\ Others(t)
    BY <1>1, <1>2, <1>4, Zenon DEF Others
  <2>2. /\ UNCHANGED <<commands, cred, out, res, val, began, alone, answer>>
        /\ op' = [op EXCEPT ![t] = "get"] /\ phase' = [phase EXCEPT ![t] = "read"]
    BY <1>2, <1>4, <2>1, Zenon DEF P!Get
  <2>3. /\ op'[t] = "get" /\ phase'[t] = "read" /\ stage[t] # "done"
        /\ \A u \in Thread : u # t => phase'[u] = phase[u] /\ op'[u] = op[u]
    BY <1>1, <1>2, <2>2
  <2>4. QED
    BY <2>1, <2>2, <2>3, Calling, Zenon
<1>5. QED
  BY <1>2, <1>3, <1>4, Zenon

\* The upstream's answer is passed on, or it refuses the first attempt and the handler calls
\* Refresh, or it refuses the second one: then the credential of that attempt, which is
\* as new as the request, is no longer honoured.
LEMMA StepUpstreamAnswers ==
  ASSUME Parts, IInv, NEW t \in Thread, UpstreamAnswers(t)
  PROVE  IInv'
<1>1. /\ stage \in [Thread -> H!PC] /\ answer \in [Thread -> H!Answer]
      /\ phase \in [Thread -> P!Phases] /\ op \in [Thread -> {"get", "refresh"}]
      /\ cred \in Nat
  BY Shapes, Zenon
<1>2. PICK refusal \in BOOLEAN :
        /\ stage[t] = "sent" /\ UNCHANGED <<retried, sent, began, alone>>
        /\ refusal => sent[t][Len(sent[t])].cred # cred
        /\ \/ stage' = [stage EXCEPT ![t] = "done"] /\ answer' = [answer EXCEPT ![t] = "upstream"]
           \/ /\ stage' = [stage EXCEPT ![t] = "done"]
              /\ answer' = [answer EXCEPT ![t] = "auth failure after refresh"]
              /\ refusal /\ retried[t]
           \/ stage' = [stage EXCEPT ![t] = "refresh"] /\ UNCHANGED answer
        /\ IF stage'[t] = "refresh" THEN P!Refresh(t) ELSE UNCHANGED providerVars
  BY Zenon DEF UpstreamAnswers, H!UpstreamAnswers, H!NeedsRefresh, H!Respond
<1>3. CASE /\ stage' = [stage EXCEPT ![t] = "done"]
           /\ \/ answer' = [answer EXCEPT ![t] = "upstream"]
              \/ /\ answer' = [answer EXCEPT ![t] = "auth failure after refresh"]
                 /\ refusal /\ retried[t]
  <2>1. stage'[t] = "done" /\ Others(t)
    BY <1>1, <1>2, <1>3, Zenon DEF Others
  <2>2. stage[t] \notin {"get", "refresh"} /\ stage'[t] \notin {"get", "refresh", "sent"}
    BY <1>2, <2>1, Zenon
  <2>3. ASSUME alone[t], commands # {}, Failed(t)' PROVE cred > began[t]
    <3>1. refusal /\ retried[t]
      BY <1>1, <1>3, <2>3, Zenon DEF Failed
    <3>2. Covers(t, sent[t][Len(sent[t])].cred) /\ began[t] \in Nat
      BY <1>2, <2>3, <3>1, IInvParts, Zenon DEF HoldsCovered
    <3>3. sent[t][Len(sent[t])].cred # cred
      BY <1>2, <3>1, Zenon
    <3>4. sent[t][Len(sent[t])].cred \in Nat
      BY <1>2, SentCred, Zenon
    <3>5. QED
      BY <3>2, <3>3, <3>4, <1>1 DEF Covers
  <2>4. QED
    BY <1>2, <2>1, <2>2, <2>3, Between, Zenon
<1>4. CASE stage' = [stage EXCEPT ![t] = "refresh"] /\ UNCHANGED answer
  <2>1. stage'[t] = "refresh" /\ Others(t)
    BY <1>1, <1>2, <1>4, Zenon DEF Others
  <2>2. /\ UNCHANGED <<commands, cred, out, res, val, began, alone, answer>>
        /\ op' = [op EXCEPT ![t] = "refresh"] /\ phase' = [phase EXCEPT ![t] = "do"]
    BY <1>2, <1>4, <2>1, Zenon DEF P!Refresh
  <2>3. /\ op'[t] = "refresh" /\ phase'[t] = "do" /\ stage[t] # "done"
        /\ \A u \in Thread : u # t => phase'[u] = phase[u] /\ op'[u] = op[u]
    BY <1>1, <1>2, <2>2, Zenon
  <2>4. QED
    BY <2>1, <2>2, <2>3, Calling, Zenon
<1>5. QED
  BY <1>2, <1>3, <1>4, Zenon

\* The provider returns: the request is answered, or it is sent with the credential that
\* came back, which after a refresh is as new as the request.
LEMMA StepProviderReturns ==
  ASSUME Parts, IInv, NEW t \in Thread, ProviderReturns(t)
  PROVE  IInv'
<1>1. /\ stage \in [Thread -> H!PC] /\ answer \in [Thread -> H!Answer]
      /\ phase \in [Thread -> P!Phases] /\ op \in [Thread -> {"get", "refresh"}]
      /\ res \in [Thread -> {"none", "ok", "err", "reason"}]
      /\ val \in [Thread -> Nat] /\ retried \in [Thread -> BOOLEAN]
      /\ sent \in [Thread -> Seq(H!Attempt)]
  BY Shapes, Zenon
<1>2. /\ UNCHANGED <<commands, cred, out, began, alone>>
      /\ phase[t] = "return" /\ phase' = [phase EXCEPT ![t] = "idle"]
      /\ op' = [op EXCEPT ![t] = "get"]
      /\ res' = [res EXCEPT ![t] = "none"] /\ val' = [val EXCEPT ![t] = 0]
  BY Zenon DEF ProviderReturns, P!Return
<1>3. /\ phase'[t] = "idle" /\ OtherCalls(t)
  BY <1>1, <1>2, Zenon DEF OtherCalls, Same
<1>4. /\ began \in [Thread -> Nat] /\ alone \in [Thread -> BOOLEAN]
      /\ began[t] <= cred /\ Linked!(t)
      /\ alone[t] /\ commands # {} => (\A u \in Thread : FlightCovers(t, u)) /\ HoldsCovered(t)
  BY IInvParts, Zenon
<1>5. PICK result \in Results(t) : H!GotCredential(t, result, val[t]) \/ H!Refreshed(t, result, val[t])
  BY Zenon DEF ProviderReturns
<1>6. stage[t] \in {"get", "refresh"} /\ op[t] = stage[t] /\ answer[t] = "none"
  BY <1>2, <1>4
<1>7. CASE H!Refused(t, result) /\ UNCHANGED <<sent, retried>>
  <2>1. /\ stage' = [stage EXCEPT ![t] = "done"]
        /\ \E a \in {"credential error", "reason", "body", "no upstream"} :
             answer' = [answer EXCEPT ![t] = a]
    BY <1>7, Zenon DEF H!Refused, H!Respond
  <2>2. stage'[t] = "done" /\ Others(t) /\ ~ Failed(t)'
    BY <1>1, <1>7, <2>1, Zenon DEF Others, Failed
  <2>3. QED
    <3>1. /\ began' \in [Thread -> Nat] /\ alone' \in [Thread -> BOOLEAN]
          /\ \A u \in Thread : u # t => began'[u] = began[u] /\ alone'[u] = alone[u]
          /\ began'[t] <= cred /\ began'[t] = began[t] /\ alone'[t] = alone[t]
      BY <1>2, <1>4, Zenon
    <3>2. Linked!(t)' /\ stage'[t] # "sent"
      BY <1>3, <2>2, Zenon
    <3>3. alone'[t] /\ commands # {} => \A u \in Thread : u # t => FlightCovers(t, u)'
      BY <1>2, <1>3, <1>4, <3>1, FlightsKept, Zenon
    <3>4. phase'[t] \in {"idle", "read", "do"} /\ UNCHANGED <<commands, cred>>
      BY <1>2, <1>3, Zenon
    <3>5. QED
      BY <1>3, <2>2, <3>1, <3>2, <3>3, <3>4, Moves, Zenon
<1>8. CASE /\ H!Forwards(t, result) /\ H!Send(t, val[t]) /\ UNCHANGED answer
           /\ \/ stage[t] = "get" /\ UNCHANGED retried
              \/ stage[t] = "refresh" /\ retried' = [retried EXCEPT ![t] = TRUE]
  <2>1. PICK a : /\ a.cred = val[t]
                 /\ sent' = [sent EXCEPT ![t] = Append(@, a)]
    <3> DEFINE a == [path |-> H!Rewrite(H!Outgoing(t)), cred |-> val[t],
                     whole |-> buffered[t] \/ unread[t]]
    <3>1. sent' = [sent EXCEPT ![t] = Append(@, a)]
      BY <1>8, Zenon DEF H!Send
    <3>2. a.cred = val[t]
      OBVIOUS
    <3> HIDE DEF a
    <3>3. QED
      BY <3>1, <3>2, Zenon
  <2>2. stage' = [stage EXCEPT ![t] = "sent"]
    BY <1>8, Zenon DEF H!Send
  <2>3. /\ stage'[t] = "sent" /\ Others(t) /\ answer'[t] = "none"
    BY <1>1, <1>6, <1>8, <2>1, <2>2, Zenon DEF Others
  <2>4. sent'[t][Len(sent'[t])].cred = val[t]
    <3>1. sent'[t] = Append(sent[t], a) /\ sent[t] \in Seq(H!Attempt)
      BY <1>1, <2>1, Zenon
    <3>2. Append(sent[t], a)[Len(Append(sent[t], a))] = a
      BY <3>1, LastAppended
    <3>3. QED
      BY <2>1, <3>1, <3>2, Zenon
  <2>5. ASSUME retried'[t], alone[t], commands # {} PROVE Covers(t, val[t])
    <3>1. stage[t] = "refresh"
      <4>1. stage[t] = "get" => ~ retried[t]
        BY Zenon DEF Parts, H!Progress
      <4>2. QED
        BY <1>8, <2>5, <4>1, Zenon
    <3>2. res[t] = "ok"
      <4>1. result = "inject" /\ result \in (IF res[t] = "ok" THEN {"inject", "body"} ELSE {res[t]})
        BY <1>8, <1>5, Zenon DEF H!Forwards, Results
      <4>2. res[t] \in {"none", "ok", "err", "reason"}
        BY <1>1, Zenon
      <4>3. QED
        BY ONLY <4>1, <4>2
    <3>3. QED
      BY <1>2, <1>4, <1>6, <2>5, <3>1, <3>2, Zenon DEF HoldsCovered
  <2>6. QED
    <3>1. /\ began' \in [Thread -> Nat] /\ alone' \in [Thread -> BOOLEAN]
          /\ \A u \in Thread : u # t => began'[u] = began[u] /\ alone'[u] = alone[u]
          /\ began'[t] <= cred /\ began'[t] = began[t] /\ alone'[t] = alone[t]
      BY <1>2, <1>4, Zenon
    <3>2. Linked!(t)' /\ ~ Failed(t)'
      BY <1>3, <2>3, ZenonT(30) DEF Failed
    <3>3. alone'[t] /\ commands # {} => \A u \in Thread : u # t => FlightCovers(t, u)'
      BY <1>2, <1>3, <1>4, <3>1, FlightsKept, Zenon
    <3>4. phase'[t] \in {"idle", "read", "do"} /\ UNCHANGED <<commands, cred>>
      BY <1>2, <1>3, Zenon
    <3>5. alone'[t] /\ commands # {} /\ retried'[t] => Covers(t, sent[t][Len(sent[t])].cred)'
      BY <1>2, <2>4, <2>5, <3>1, Zenon DEF Covers
    <3>6. QED
      BY <1>3, <2>3, <3>1, <3>2, <3>3, <3>4, <3>5, Moves, ZenonT(30)
<1>9. QED
  BY <1>5, <1>7, <1>8, Zenon DEF H!GotCredential, H!Refreshed

\* A flight of Refresh always has a hook to run when any command is configured
\* (Refresh falls back to credential_command).
LEMMA RefreshHasCommand ==
  ASSUME Parts, commands # {} PROVE P!HasCommand("refresh")
<1>1. commands \subseteq {"get", "refresh"}
  BY Shapes, Zenon
<1>2. QED
  BY <1>1, Zenon DEF P!HasCommand

\* A step inside the provider: what the hook of a refresh reads now is as new as every
\* request that arrived before, and what it read is handed on unchanged.
LEMMA StepProvider ==
  ASSUME Parts, IInv, NEW t \in Thread, ProviderStep(t)
  PROVE  IInv'
<1>1. /\ UNCHANGED <<commands, cred, op>> /\ CallStep(t)
      /\ \A u \in Thread : u # t => Same(u) \/ Woken(t, u)
  BY CallSteps, Zenon DEF ProviderStep
<1>2. UNCHANGED <<stage, answer, retried, sent, began, alone>>
  BY Zenon DEF ProviderStep, handlerVars
<1>3. cred \in Nat /\ op \in [Thread -> {"get", "refresh"}]
  BY Shapes, Zenon
<1>4. /\ began \in [Thread -> Nat] /\ alone \in [Thread -> BOOLEAN]
      /\ \A u \in Thread : began[u] <= cred /\ Linked!(u)
      /\ \A u \in Thread : alone[u] /\ commands # {} =>
           /\ \A w \in Thread : FlightCovers(u, w)
           /\ HoldsCovered(u)
           /\ Failed(u) => cred > began[u]
  BY IInvParts, Zenon
<1>5. \A u \in Thread : Linked!(u)'
  <2>1. phase[t] # "idle" /\ phase'[t] \notin {"idle", "read"}
    BY <1>1 DEF CallStep
  <2>2. ASSUME NEW u \in Thread, u # t
        PROVE  phase'[u] = phase[u] \/ (phase[u] = "join" /\ phase'[u] = "return")
    BY <1>1, <2>2, Zenon DEF Same, Woken
  <2>3. ASSUME NEW u \in Thread PROVE Linked!(u)'
    <3>1. phase'[u] = phase[u] \/ (phase[u] # "idle" /\ phase'[u] \notin {"idle", "read"})
      <4>1. "return" \notin {"idle", "read"} /\ "join" # "idle"
        OBVIOUS
      <4>2. QED
        BY <2>1, <2>2, <4>1, Zenon
    <3>2. "read" # "idle" /\ op'[u] = op[u] /\ stage'[u] = stage[u] /\ answer'[u] = answer[u]
      BY <1>1, <1>2
    <3>3. QED
      BY <1>4, <3>1, <3>2, Zenon
  <2>4. QED
    BY <2>3, Zenon
<1>6. ASSUME NEW u \in Thread, alone[u], commands # {}, NEW w \in Thread
      PROVE  FlightCovers(u, w)'
  <2>1. FlightCovers(u, w) /\ began'[u] = began[u] /\ cred' = cred /\ op'[w] = op[w]
    BY <1>1, <1>2, <1>4, <1>6, Zenon
  <2>2. CASE w # t
    <3>1. CASE Same(w)
      BY <2>1, <3>1, Zenon DEF FlightCovers, Covers, Same
    <3>2. CASE Woken(t, w)
      BY <3>2 DEF FlightCovers, Woken
    <3>3. QED
      BY <1>1, <2>2, <3>1, <3>2, Zenon
  <2>3. CASE w = t
    <3>1. SUFFICES ASSUME op[t] = "refresh"
                   PROVE  /\ phase'[t] = "output" => Covers(u, out'[t].val)
                          /\ phase'[t] \in {"set", "forget"} /\ res'[t] = "ok" => Covers(u, val'[t])
      BY <2>1, <2>3, Zenon DEF FlightCovers, Covers
    <3>2. P!HasCommand(op[t])
      BY <1>6, <3>1, RefreshHasCommand, Zenon
    <3>3. Covers(u, cred)
      BY <1>3, <1>4 DEF Covers
    <3>4. /\ phase[t] = "output" => Covers(u, out[t].val)
          /\ phase[t] \in {"set", "forget"} /\ res[t] = "ok" => Covers(u, val[t])
      BY <2>1, <2>3, <3>1, Zenon DEF FlightCovers
    <3>5. QED
      BY <1>1, <3>2, <3>3, <3>4 DEF CallStep
  <2>4. QED
    BY <2>2, <2>3, Zenon
<1>7. ASSUME NEW u \in Thread, alone[u], commands # {} PROVE HoldsCovered(u)'
  <2>1. /\ stage'[u] = stage[u] /\ retried'[u] = retried[u] /\ sent'[u] = sent[u]
        /\ began'[u] = began[u] /\ cred' = cred /\ op'[u] = op[u]
        /\ HoldsCovered(u) /\ FlightCovers(u, t)
    BY <1>1, <1>2, <1>4, <1>7, Zenon
  <2>2. SUFFICES ASSUME op[u] = "refresh", phase'[u] = "return", res'[u] = "ok"
                 PROVE  Covers(u, val'[u])
    BY <2>1, ZenonT(30) DEF HoldsCovered, Covers
  <2>3. CASE u = t
    <3>1. phase[t] # "read"
      BY <1>4, <2>2, <2>3
    <3>2. phase[t] = "forget" /\ res'[t] = res[t] /\ val'[t] = val[t]
      BY <1>1, <2>2, <2>3, <3>1 DEF CallStep
    <3>3. QED
      BY <2>1, <2>2, <2>3, <3>2 DEF FlightCovers
  <2>4. CASE u # t
    <3>1. CASE Same(u)
      BY <2>1, <2>2, <3>1, ZenonT(30) DEF Same, HoldsCovered
    <3>2. CASE Woken(t, u)
      BY <2>1, <2>2, <3>2 DEF Woken, FlightCovers
    <3>3. QED
      BY <1>1, <2>4, <3>1, <3>2, Zenon
  <2>5. QED
    BY <2>3, <2>4, Zenon
<1>8. /\ began' \in [Thread -> Nat] /\ alone' \in [Thread -> BOOLEAN]
      /\ \A u \in Thread :
           /\ began'[u] <= cred'
           /\ Linked!(u)'
           /\ alone'[u] /\ commands' # {} =>
                /\ \A w \in Thread : FlightCovers(u, w)'
                /\ HoldsCovered(u)'
                /\ Failed(u)' => cred' > began'[u]
  BY <1>1, <1>2, <1>4, <1>5, <1>6, <1>7, Zenon DEF Failed
<1>9. QED
  BY <1>8, Zenon DEF IInv, Linked, RefreshCovers, FailureMeansRotation, FlightCovers,
                     HoldsCovered, Failed

\* The clock moves, or the issuer rotates: what was as new as a request stays so.
LEMMA StepEnvironment ==
  ASSUME Parts, IInv, Environment
  PROVE  IInv'
<1>1. /\ UNCHANGED <<commands, phase, op, out, res, val, stage, answer, retried, sent, began, alone>>
      /\ cred' = cred \/ cred' = cred + 1
  BY Zenon DEF Environment, P!Rotate, P!Tick, P!threadVars, handlerVars
<1>2. cred \in Nat
  BY Shapes, Zenon
<1>3. \A b, c \in Nat : /\ b <= c /\ c <= cred => b <= c /\ c <= cred'
                        /\ b <= cred => b <= cred'
                        /\ cred > b => cred' > b
  BY <1>1, <1>2
<1>4. /\ began \in [Thread -> Nat] /\ alone \in [Thread -> BOOLEAN]
      /\ \A u \in Thread : began[u] <= cred /\ Linked!(u)
      /\ \A u \in Thread : alone[u] /\ commands # {} =>
           /\ \A w \in Thread : FlightCovers(u, w)
           /\ HoldsCovered(u)
           /\ Failed(u) => cred > began[u]
  BY IInvParts, Zenon
<1>5. \A u \in Thread : began[u] \in Nat /\ val[u] \in Nat /\ out[u].val \in Nat
  BY <1>4, Shapes, Zenon
<1>6. ASSUME NEW u \in Thread, NEW c \in Nat, Covers(u, c) PROVE Covers(u, c)'
  BY <1>1, <1>3, <1>5, <1>6, Zenon DEF Covers
<1>7. ASSUME NEW u \in Thread, alone[u], commands # {}
      PROVE  /\ \A w \in Thread : FlightCovers(u, w)'
             /\ HoldsCovered(u)'
             /\ Failed(u)' => cred' > began'[u]
  <2>1. \A w \in Thread : FlightCovers(u, w)'
    BY <1>1, <1>4, <1>5, <1>6, <1>7, Zenon DEF FlightCovers
  <2>2. HoldsCovered(u)'
    <3>1. CASE stage[u] = "sent"
      <4>1. sent[u][Len(sent[u])].cred \in Nat
        BY <3>1, SentCred, Zenon
      <4>2. QED
        BY <1>1, <1>4, <1>5, <1>6, <1>7, <4>1, Zenon DEF HoldsCovered
    <3>2. CASE stage[u] # "sent"
      BY <1>1, <1>4, <1>5, <1>6, <1>7, <3>2, Zenon DEF HoldsCovered
    <3>3. QED
      BY <3>1, <3>2, Zenon
  <2>3. Failed(u)' => cred' > began'[u]
    BY <1>1, <1>3, <1>4, <1>5, <1>7, Zenon DEF Failed
  <2>4. QED
    BY <2>1, <2>2, <2>3, Zenon
<1>8. /\ began' \in [Thread -> Nat] /\ alone' \in [Thread -> BOOLEAN]
      /\ \A u \in Thread :
           /\ began'[u] <= cred'
           /\ Linked!(u)'
           /\ alone'[u] /\ commands' # {} =>
                /\ \A w \in Thread : FlightCovers(u, w)'
                /\ HoldsCovered(u)'
                /\ Failed(u)' => cred' > began'[u]
  BY <1>1, <1>3, <1>4, <1>5, <1>7, Zenon
<1>9. QED
  BY <1>8, Zenon DEF IInv, Linked, RefreshCovers, FailureMeansRotation, FlightCovers,
                     HoldsCovered, Failed

\* The broker starts in its invariant.
LEMMA Initially == Init => IInv
<1> SUFFICES ASSUME Init PROVE IInv
  OBVIOUS
<1>1. /\ began = [t \in Thread |-> 0] /\ alone = [t \in Thread |-> FALSE]
      /\ cred = 1 /\ phase = [t \in Thread |-> "idle"] /\ stage = [t \in Thread |-> "idle"]
      /\ answer = [t \in Thread |-> "none"]
  BY Zenon DEF Init, P!ScriptInit, H!Init
<1>2. /\ began \in [Thread -> Nat] /\ alone \in [Thread -> BOOLEAN]
      /\ \A t \in Thread : began[t] <= cred
  BY ONLY <1>1
<1>3. Linked /\ FailureMeansRotation /\ \A t \in Thread : ~ alone[t]
  BY <1>1 DEF Linked, FailureMeansRotation
<1>4. QED
  BY <1>2, <1>3, Zenon DEF IInv

\* Every step keeps it.
LEMMA NextIInv == Parts /\ IInv /\ [Next]_vars => IInv'
<1> SUFFICES ASSUME Parts, IInv, [Next]_vars PROVE IInv'
  OBVIOUS
<1>1. CASE UNCHANGED vars
  <2>1. UNCHANGED <<commands, cred, phase, op, out, res, val, stage, answer, retried, sent,
                    began, alone>>
    BY <1>1, Zenon DEF vars, handlerVars, providerVars
  <2>2. QED
    BY <2>1, ZenonT(30) DEF IInv, Linked, RefreshCovers, FailureMeansRotation, Covers
<1>2. QED
  BY <1>1, StepEnvironment, StepArrive, StepLocal, StepFinish, StepHandle, StepProvider,
     StepProviderReturns, StepUpstreamAnswers, Zenon DEF Next, Serve

-----------------------------------------------------------------------
(* The provider inside the broker.                                       *)

RP == INSTANCE RequestProofs WITH pc <- stage, Cred <- Nat, Caller <- Thread

\* A step of a call is the same step in the provider's own specification.
LEMMA ProviderSteps == ASSUME NEW t \in Thread, P!Step(t) PROVE RP!Step(t)
<1>1. P!ReadCache(t) => RP!ReadCache(t)
  BY Zenon DEF P!ReadCache, RP!ReadCache, P!Cached, RP!Cached
<1>2. P!Lead(t) => RP!Lead(t)
  BY Zenon DEF P!Lead, RP!Lead, P!HasCommand, RP!HasCommand
<1>3. P!Join(t) => RP!Join(t)
  BY Zenon DEF P!Join, RP!Join
<1>4. P!HookReads(t) => RP!HookReads(t)
  BY Zenon DEF P!HookReads, RP!HookReads
<1>5. P!HookExits(t) => RP!HookExits(t)
  BY Zenon DEF P!HookExits, RP!HookExits
<1>6. P!HookFails(t) => RP!HookFails(t)
  BY Zenon DEF P!HookFails, RP!HookFails
<1>7. P!Set(t) => RP!Set(t)
  BY Zenon DEF P!Set, RP!Set
<1>8. P!Forget(t) => RP!Forget(t)
  BY ZenonT(30) DEF P!Forget, RP!Forget, P!NoOutput, RP!NoOutput
<1>9. QED
  BY <1>1, <1>2, <1>3, <1>4, <1>5, <1>6, <1>7, <1>8, ZenonT(30) DEF P!Step, RP!Step

\* Every step of the broker is a step of its provider or leaves the provider alone.
LEMMA NextProvider == [Next]_vars => [RP!ScriptNext]_(RP!scriptVars)
<1> SUFFICES ASSUME [Next]_vars PROVE RP!ScriptNext \/ UNCHANGED providerVars
  BY Zenon DEF RP!scriptVars, RP!threadVars, providerVars
<1>1. CASE Environment
  BY <1>1, ZenonT(30) DEF Environment, P!Rotate, P!Tick, RP!Rotate, RP!Tick, P!threadVars,
                     RP!threadVars, RP!ScriptNext
<1>2. ASSUME NEW t \in Thread, Handle(t) PROVE RP!ScriptNext \/ UNCHANGED providerVars
  <2>1. P!Get(t) => RP!Get(t)
    BY ZenonT(30) DEF P!Get, RP!Get
  <2>2. QED
    BY <1>2, <2>1, ZenonT(30) DEF Handle, RP!ScriptNext
<1>3. ASSUME NEW t \in Thread, UpstreamAnswers(t) PROVE RP!ScriptNext \/ UNCHANGED providerVars
  <2>1. P!Refresh(t) => RP!Refresh(t)
    BY ZenonT(30) DEF P!Refresh, RP!Refresh, P!NoEntry, RP!NoEntry
  <2>2. QED
    BY <1>3, <2>1, ZenonT(30) DEF UpstreamAnswers, RP!ScriptNext
<1>4. ASSUME NEW t \in Thread, ProviderStep(t) PROVE RP!ScriptNext
  BY <1>4, ProviderSteps, ZenonT(30) DEF ProviderStep, RP!ScriptNext
<1>5. ASSUME NEW t \in Thread, ProviderReturns(t) PROVE RP!ScriptNext
  <2>1. P!Return(t) => RP!Return(t)
    BY Zenon DEF P!Return, RP!Return
  <2>2. QED
    BY <1>5, <2>1, ZenonT(30) DEF ProviderReturns, RP!ScriptNext
<1>6. ASSUME NEW t \in Thread, Local(t) \/ UpstreamFails(t) \/ Finish(t)
      PROVE  UNCHANGED providerVars
  BY <1>6, ZenonT(30) DEF Local, UpstreamFails, Finish, providerVars
<1>7. ASSUME NEW t \in Thread, NEW r \in Requests, Arrive(t, r)
      PROVE  UNCHANGED providerVars
  BY <1>7, ZenonT(30) DEF Arrive
<1>8. CASE UNCHANGED vars
  BY <1>8, ZenonT(30) DEF vars, providerVars
<1>9. QED
  BY <1>1, <1>2, <1>3, <1>4, <1>5, <1>6, <1>7, <1>8, ZenonT(30) DEF Next, Serve

\* The broker implements its provider: the cache, the flights and the hooks behave as they
\* do alone, whatever the handlers that call them do.
THEOREM ImplementsProvider == Spec => RP!ScriptSpec
<1>1. Init => RP!ScriptInit
  BY Zenon DEF Init, P!ScriptInit, RP!ScriptInit, P!Method, RP!Method, P!NoEntry, RP!NoEntry,
               P!NoOutput, RP!NoOutput
<1>2. QED
  BY <1>1, NextProvider, PTL DEF Spec, RP!ScriptSpec

\* So the provider keeps its own invariant.
LEMMA ProviderInvariance == Spec => []RP!ScriptInv
  BY ImplementsProvider, RP!ScriptInvariance, ProviderAssumption, HandlerAssumption, PTL
     DEF H!Entry, RP!Entry

-----------------------------------------------------------------------
(* The handler inside the broker.                                        *)

\* The steps of the handler are the same steps in its own specification.
LEMMA HandlerSteps ==
  ASSUME NEW t \in Thread
  PROVE  /\ H!Admit(t) => RP!Admit(t)
         /\ H!Handle(t) => RP!Handle(t)
         /\ H!ReadFails(t) => RP!ReadFails(t)
         /\ H!Finish(t) => RP!Finish(t)
         /\ H!UpstreamFails(t) => RP!UpstreamFails(t)
         /\ \A refusal \in BOOLEAN : H!UpstreamAnswers(t, refusal) => RP!UpstreamAnswers(t, refusal)
         /\ \A result, c : H!GotCredential(t, result, c) => RP!GotCredential(t, result, c)
         /\ \A result, c : H!Refreshed(t, result, c) => RP!Refreshed(t, result, c)
<1>1. /\ H!serverVars = RP!serverVars /\ H!proxyVars = RP!proxyVars
      /\ H!serverVars' = RP!serverVars' /\ H!proxyVars' = RP!proxyVars'
  BY Zenon DEF H!serverVars, RP!serverVars, H!proxyVars, RP!proxyVars
<1>2. \A a : H!Respond(t, a) <=> RP!Respond(t, a)
  BY ZenonT(30) DEF H!Respond, RP!Respond
<1>3. \A r, id : H!Forbidden(r, id) <=> RP!Forbidden(r, id)
  BY ZenonT(30) DEF H!Forbidden, RP!Forbidden, H!ClientAllowed, RP!ClientAllowed
<1>4. \A c : H!Send(t, c) => RP!Send(t, c)
  BY ZenonT(30) DEF H!Send, RP!Send, H!Rewrite, RP!Rewrite, H!Outgoing, RP!Outgoing, H!JoinPath,
               RP!JoinPath, H!EndsInSlash, RP!EndsInSlash
<1>5. /\ \A result : H!Refused(t, result) => RP!Refused(t, result)
      /\ \A result : H!Forwards(t, result) => RP!Forwards(t, result)
  BY <1>2, ZenonT(30) DEF H!Refused, RP!Refused, H!Forwards, RP!Forwards
<1>6. H!Admit(t) => RP!Admit(t)
  BY <1>1, <1>2, ZenonT(30) DEF H!Admit, RP!Admit
<1>7. H!Handle(t) => RP!Handle(t)
  BY <1>1, <1>2, <1>3, ZenonT(30) DEF H!Handle, RP!Handle
<1>8. H!ReadFails(t) => RP!ReadFails(t)
  BY <1>1, <1>2, ZenonT(30) DEF H!ReadFails, RP!ReadFails
<1>9. H!Finish(t) => RP!Finish(t)
  BY <1>1, ZenonT(30) DEF H!Finish, RP!Finish
<1>10. H!UpstreamFails(t) => RP!UpstreamFails(t)
  BY <1>1, <1>2, ZenonT(30) DEF H!UpstreamFails, RP!UpstreamFails
<1>11. \A refusal \in BOOLEAN : H!UpstreamAnswers(t, refusal) => RP!UpstreamAnswers(t, refusal)
  BY <1>1, <1>2, ZenonT(30) DEF H!UpstreamAnswers, RP!UpstreamAnswers, H!NeedsRefresh, RP!NeedsRefresh
<1>12. \A result, c : H!GotCredential(t, result, c) => RP!GotCredential(t, result, c)
  BY <1>1, <1>4, <1>5, ZenonT(30) DEF H!GotCredential, RP!GotCredential
<1>13. \A result, c : H!Refreshed(t, result, c) => RP!Refreshed(t, result, c)
  BY <1>1, <1>4, <1>5, ZenonT(30) DEF H!Refreshed, RP!Refreshed
<1>14. QED
  BY <1>6, <1>7, <1>8, <1>9, <1>10, <1>11, <1>12, <1>13, ZenonT(30)

\* Every step of the broker is a step of its handler or leaves the handler alone.
LEMMA NextHandler == RP!ScriptInv /\ [Next]_vars => [RP!Next]_(RP!vars)
<1> SUFFICES ASSUME RP!ScriptInv, [Next]_vars PROVE RP!Next \/ UNCHANGED handlerVars
  BY Zenon DEF RP!vars, RP!serverVars, RP!proxyVars, handlerVars
<1>1. CASE Environment \/ UNCHANGED vars
  BY <1>1, ZenonT(30) DEF Environment, vars
<1>2. ASSUME NEW t \in Thread, NEW r \in Requests, Arrive(t, r) PROVE RP!Next
  <2>1. H!Arrive(t, r) => RP!Arrive(t, r)
    BY ZenonT(30) DEF H!Arrive, RP!Arrive, H!serverVars, RP!serverVars, H!proxyVars, RP!proxyVars
  <2>2. QED
    BY <1>2, <2>1, ZenonT(30) DEF Arrive, RP!Next
<1>3. ASSUME NEW t \in Thread, Local(t) \/ Handle(t) \/ Finish(t) PROVE RP!Next
  <2>1. RP!Local(t)
    BY <1>3, HandlerSteps, ZenonT(30) DEF Local, Handle, Finish, RP!Local
  <2>2. QED
    BY <2>1, ZenonT(30) DEF RP!Next
<1>4. ASSUME NEW t \in Thread, UpstreamAnswers(t) \/ UpstreamFails(t) PROVE RP!Next
  <2>1. RP!Upstream(t)
    BY <1>4, HandlerSteps, ZenonT(30) DEF UpstreamAnswers, UpstreamFails, RP!Upstream
  <2>2. QED
    BY <2>1, ZenonT(30) DEF RP!Next
<1>5. ASSUME NEW t \in Thread, ProviderReturns(t) PROVE RP!Next
  <2>1. PICK result \in Results(t) : H!GotCredential(t, result, val[t]) \/ H!Refreshed(t, result, val[t])
    BY <1>5, ZenonT(30) DEF ProviderReturns
  <2>2. val[t] \in Nat
    BY DEF RP!ScriptInv, RP!ScriptTypeOK
  <2>3. result \in RP!Result
    BY <2>1, ZenonT(30) DEF H!GotCredential, H!Refreshed, H!Refused, H!Forwards, RP!Result
  <2>4. RP!GotCredential(t, result, val[t]) \/ RP!Refreshed(t, result, val[t])
    BY <2>1, HandlerSteps, ZenonT(30)
  <2>5. QED
    BY <2>2, <2>3, <2>4, ZenonT(30) DEF RP!Next
<1>6. ASSUME NEW t \in Thread, ProviderStep(t) PROVE UNCHANGED handlerVars
  BY <1>6, ZenonT(30) DEF ProviderStep
<1>7. QED
  BY <1>1, <1>2, <1>3, <1>4, <1>5, <1>6, ZenonT(30) DEF Next, Serve

\* The broker implements its request handler: what a script provider and a judging
\* upstream do is among what the handler is specified to meet.
THEOREM ImplementsHandler == Spec => RP!Spec
<1>1. Init => RP!Init
  BY Zenon DEF Init, H!Init, RP!Init, H!NewAccepts, RP!NewAccepts
<1>2. QED
  BY <1>1, NextHandler, ProviderInvariance, PTL DEF Spec, RP!Spec

\* So the handler keeps its own invariant.
LEMMA HandlerInvariance == Spec => []RP!IInv
  BY ImplementsHandler, RP!Invariance, ProviderAssumption, HandlerAssumption, PTL
     DEF H!Entry, RP!Entry

-----------------------------------------------------------------------
(* The theorems.                                                         *)

\* The invariant of the broker: calls and requests are linked, and a refresh covers every
\* request that did not find it under way.
THEOREM Invariance == Spec => []IInv
<1>1. RP!ScriptInv /\ RP!IInv => Parts
  <2>1. RP!ScriptInv => P!ScriptTypeOK /\ P!FlightLed
    BY ZenonT(30) DEF RP!ScriptInv, RP!ScriptTypeOK, RP!FlightLed, P!ScriptTypeOK, P!FlightLed, P!Leads, RP!Leads,
                 P!Method, RP!Method, P!Phases, RP!Phases, P!CacheEntry, RP!CacheEntry, P!Output, RP!Output
  <2>2. RP!IInv => H!TypeOK /\ H!Progress
    BY ZenonT(30) DEF RP!IInv, RP!TypeOK, RP!Progress, H!TypeOK, H!Progress, H!PC, RP!PC,
                 H!Answer, RP!Answer, H!Attempt, RP!Attempt, H!Entry, RP!Entry
  <2>3. QED
    BY <2>1, <2>2, ZenonT(30) DEF Parts
<1>2. QED
  BY <1>1, Initially, NextIInv, ProviderInvariance, HandlerInvariance, PTL DEF Spec

\* A request that is answered "auth failure after refresh" saw the credential rotated while
\* it was served, unless it joined a refresh that was under way when it arrived.
THEOREM RetrySuffices == Spec => []FailureMeansRotation
<1>1. IInv => FailureMeansRotation
  BY Zenon DEF IInv
<1>2. QED
  BY <1>1, Invariance, PTL

\* In front of a script provider the handler still lets in only whom its rules let in, sends
\* whole bodies and forwards a request at most twice; and behind the handler the cache still
\* serves only what its issuer honours and runs one hook per method.
THEOREM PartsStaySafe ==
    Spec => []( /\ RP!ServedIsAuthorised /\ RP!AttemptsAreWhole /\ RP!AtMostOneRetry
                /\ RP!CachedIsAlive /\ RP!OneHookPerMethod )
<1>1. Spec => [](RP!ServedIsAuthorised)
  BY ImplementsHandler, RP!Authorised, ProviderAssumption, HandlerAssumption, PTL
     DEF H!Entry, RP!Entry
<1>2. RP!IInv => RP!AttemptsAreWhole /\ RP!AtMostOneRetry
  BY ZenonT(30) DEF RP!IInv
<1>3. Spec => [](RP!CachedIsAlive)
  BY ImplementsProvider, RP!ServesLive, ProviderAssumption, HandlerAssumption, PTL
     DEF H!Entry, RP!Entry
<1>4. Spec => [](RP!OneHookPerMethod)
  BY ImplementsProvider, RP!HookAlone, ProviderAssumption, HandlerAssumption, PTL
     DEF H!Entry, RP!Entry
<1>5. QED
  BY <1>1, <1>2, <1>3, <1>4, HandlerInvariance, PTL
========================================================================
