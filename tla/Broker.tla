---------------------------- MODULE Broker ----------------------------
(***************************************************************************)
(* A route of credproxyd that forwards with a script provider: the request *)
(* handler of RouteHandler calls the Get and Refresh of ScriptProvider and *)
(* the upstream judges the injected credential against the one its issuer  *)
(* honours.  A request and the provider call it makes run on one goroutine *)
(* and are identified by it.                                               *)
(***************************************************************************)
EXTENDS Naturals, Sequences

CONSTANTS
    Thread, Token, NoToken, Id, NoId, Route, RouteList, Path, Base, Tables,
    Configs, NoRequest, Requests,                                   \* RouteHandler
    NoThread, ExpiresIn, Timeout, Safety, MaxCred, MaxTime          \* ScriptProvider

VARIABLES
    cfg, tokens, registered, stage, req, client, buffered, unread, sent, refreshes,
    retried, answer, listing, valid, guarded,                       \* RouteHandler
    commands, cred, now, entry, flight, phase, op, at, out, res, val, start,
                                                                    \* ScriptProvider
    began,      \* history: the credential honoured when the request arrived
    alone       \* history: whether no refresh was in flight then

\* Credentials are rotation numbers; 0 is an injection without one.
H == INSTANCE RouteHandler WITH pc <- stage, Cred <- Nat
P == INSTANCE ScriptProvider WITH Caller <- Thread

ASSUME ProviderAssumption == P!ThreadAssumption /\ P!TimeAssumption
ASSUME HandlerAssumption ==
    /\ H!TokenAssumption /\ H!ConfigAssumption
    /\ H!RequestAssumption /\ H!PathAssumption

handlerVars == <<cfg, tokens, registered, stage, req, client, buffered, unread, sent,
                 refreshes, retried, answer, listing, valid, guarded>>
providerVars == <<commands, cred, now, entry, flight, phase, op, at, out, res, val, start>>
vars == <<handlerVars, providerVars, began, alone>>

Init ==
    /\ H!Init
    /\ P!ScriptInit
    /\ began = [t \in Thread |-> 0]
    /\ alone = [t \in Thread |-> FALSE]

-----------------------------------------------------------------------
\* The issuer rotates the credential or time passes.
Environment ==
    /\ P!Rotate \/ P!Tick
    /\ UNCHANGED <<handlerVars, began, alone>>

Arrive(t, r) ==
    /\ H!Arrive(t, r)
    /\ began' = [began EXCEPT ![t] = cred]
    /\ alone' = [alone EXCEPT ![t] = flight["refresh"] = NoThread]
    /\ UNCHANGED providerVars

Local(t) ==
    /\ H!Admit(t) \/ H!ReadFails(t)
    /\ UNCHANGED <<providerVars, began, alone>>

Finish(t) ==
    /\ H!Finish(t)
    /\ began' = [began EXCEPT ![t] = 0]
    /\ alone' = [alone EXCEPT ![t] = FALSE]
    /\ UNCHANGED providerVars

\* ServeHTTP ends in a call of Get.
Handle(t) ==
    /\ H!Handle(t)
    /\ IF stage'[t] = "get" THEN P!Get(t) ELSE UNCHANGED providerVars
    /\ UNCHANGED <<began, alone>>

ProviderStep(t) ==
    /\ P!Step(t)
    /\ UNCHANGED <<handlerVars, began, alone>>

\* A hook prints headers to inject or a body to return.
Results(t) == IF res[t] = "ok" THEN {"inject", "body"} ELSE {res[t]}

\* The provider returns into the handler, which reads the result.
ProviderReturns(t) ==
    /\ P!Return(t)
    /\ \E result \in Results(t) :
         \/ H!GotCredential(t, result, val[t])
         \/ H!Refreshed(t, result, val[t])
    /\ UNCHANGED <<began, alone>>

\* The upstream refuses only a credential that its issuer no longer honours.
\* modifyResponse and errorHandler may end in a call of Refresh.
UpstreamAnswers(t) ==
    /\ stage[t] = "sent"
    /\ \E refusal \in BOOLEAN :
         /\ refusal => sent[t][Len(sent[t])].cred # cred
         /\ H!UpstreamAnswers(t, refusal)
    /\ IF stage'[t] = "refresh" THEN P!Refresh(t) ELSE UNCHANGED providerVars
    /\ UNCHANGED <<began, alone>>

UpstreamFails(t) ==
    /\ H!UpstreamFails(t)
    /\ UNCHANGED <<providerVars, began, alone>>

\* What happens to a request once it has arrived.
Serve(t) ==
    \/ Local(t) \/ Handle(t) \/ ProviderStep(t) \/ ProviderReturns(t)
    \/ UpstreamAnswers(t) \/ UpstreamFails(t) \/ Finish(t)

Next ==
    \/ Environment
    \/ \E t \in Thread : Serve(t) \/ \E r \in Requests : Arrive(t, r)

Spec == Init /\ [][Next]_vars

\* A goroutine that can run does run, a hook ends at its timeout at the latest, and
\* an attempt ends with an answer, an error or the end of the client's connection.
Fairness == \A t \in Thread : WF_vars(Serve(t))
FairSpec == Spec /\ Fairness

-----------------------------------------------------------------------
(* Properties.                                                           *)

\* A request that ends in "auth failure after refresh" has a reason: the credential
\* was rotated while it was served.  One rotation before it arrived is always made
\* up for by the refresh and the retry (errorHandler, Provider.Refresh), provided
\* that a refresh is configured and that none was under way already.
FailureMeansRotation ==
    \A t \in Thread :
      answer[t] = "auth failure after refresh" /\ alone[t] /\ commands # {}
        => cred > began[t]

\* Every request is answered, and its goroutine is free again: whatever a goroutine is
\* at, it gets back to "idle".
RequestAnswered == \A t \in Thread : []<>(stage[t] = "idle")

-----------------------------------------------------------------------
(* The inductive invariant behind the safety property, beside those of   *)
(* the handler and of the provider.                                      *)

\* A goroutine is in a method of the provider exactly while its handler waits for it,
\* only Get looks at the cache, and a request has no answer before it is done.
Linked ==
    \A t \in Thread :
      /\ phase[t] # "idle" <=> stage[t] \in {"get", "refresh"}
      /\ phase[t] # "idle" => op[t] = stage[t]
      /\ phase[t] = "read" => op[t] = "get"
      /\ stage[t] # "done" => answer[t] = "none"

\* A credential as new as the request and no newer than what the issuer honours.
Covers(t, c) == began[t] <= c /\ c <= cred

\* What a refresh that began after t arrived has read so far, what it hands to t
\* and what t is retried with.
RefreshCovers(t) ==
    /\ \A u \in Thread : op[u] = "refresh" =>
         /\ phase[u] = "output" => Covers(t, out[u].val)
         /\ phase[u] \in {"set", "forget"} /\ res[u] = "ok" => Covers(t, val[u])
    /\ op[t] = "refresh" /\ phase[t] = "return" /\ res[t] = "ok" => Covers(t, val[t])
    /\ stage[t] = "sent" /\ retried[t] => Covers(t, sent[t][Len(sent[t])].cred)

IInv ==
    /\ began \in [Thread -> Nat] /\ alone \in [Thread -> BOOLEAN]
    /\ \A t \in Thread : began[t] <= cred
    /\ Linked
    /\ commands # {} => \A t \in Thread : alone[t] => RefreshCovers(t)
    /\ FailureMeansRotation
========================================================================
