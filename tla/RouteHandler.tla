------------------------- MODULE RouteHandler -------------------------
(***************************************************************************)
(* A request on its way through the credproxy server: admission by peer    *)
(* and bearer token, the route's client list, the provider call, the       *)
(* injected forward to the upstream, and the one retry after a refresh.    *)
(* The token table may change while requests are under way.                *)
(*                                                                         *)
(* The provider and the upstream are seen from the handler: a call is a    *)
(* state of the request and its result is a parameter of the next step, so *)
(* that a module that has a provider can take the step together with it.   *)
(***************************************************************************)
EXTENDS Naturals, Sequences

CONSTANTS
    Thread,         \* goroutines, each serving one request at a time
    Token,          \* bearer tokens
    NoToken,        \* a missing or malformed Authorization header
    Id,             \* identifiers of tokens that are not empty
    NoId,           \* the empty identifier, also that of an anonymous request
    Route,          \* paths of the routes
    RouteList,      \* the reserved path /_routes
    Cred,           \* credentials a provider may inject
    Path,           \* request paths after StripPrefix
    Base,           \* path of the upstream URL
    Tables,         \* AuthTokens the server may be created with
    Configs,        \* the other parts of ServerConfig it may be created with
    NoRequest,      \* an idle goroutine's request
    Requests        \* requests that may arrive

\* An entry of AuthTokens.  Tables hold no identifier twice.
Entry == [token : Token, id : Id \cup {NoId}]
ASSUME TokenAssumption ==
    /\ NoToken \notin Token /\ NoId \notin Id /\ RouteList \notin Route
    /\ \A table \in Tables :
         /\ table \in Seq(Entry)
         /\ \A i, j \in DOMAIN table : table[i].id = table[j].id => i = j
ASSUME ConfigAssumption ==
    \A c \in Configs :
      c \in [open : BOOLEAN, samePeer : BOOLEAN,
             routes : [Route -> [allowed : SUBSET (Id \cup {NoId}),
                                 upstream : BOOLEAN, refresh : BOOLEAN]]]
ASSUME RequestAssumption ==
    /\ NoRequest \notin Requests
    /\ Requests \subseteq [route : Route \cup {RouteList}, bearer : Token \cup {NoToken},
                           peer : BOOLEAN, path : Path, large : BOOLEAN]
\* A path is the sequence of its segments: <<>> is the empty string, <<"">> is "/".
ASSUME PathAssumption ==
    Base \in Seq(STRING) /\ Path \subseteq Seq(STRING) /\ "" \in STRING

VARIABLES
    cfg,            \* Server.cfg
    tokens,         \* Server.tokens
    registered,     \* history: the tokens of each identifier, by the calls that set them
    pc,             \* where each request is
    req,            \* the request
    client,         \* the token id in its context
    buffered,       \* retryState.body # nil
    unread,         \* its body can still be read from the connection
    sent,           \* the attempts made upstream
    refreshes,      \* Refresh calls made for it
    retried,        \* retryState.retried
    answer,         \* what the client got
    listing,        \* the routes /_routes named
    valid,          \* history: identifiers its bearer was registered for since it arrived
    guarded         \* history: whether the table had a token when it arrived

serverVars == <<cfg, tokens, registered>>
proxyVars == <<buffered, unread, sent, refreshes, retried>>
vars == <<serverVars, pc, req, client, proxyVars, answer, listing, valid, guarded>>

PC == {"idle", "admit", "match", "handle", "get", "sent", "refresh", "done"}
Answer == {"none", "unauthorized", "forbidden", "bad request", "listed", "body",
           "credential error", "reason", "no upstream", "upstream error",
           "auth failure after refresh", "upstream"}
Attempt == [path : Seq(STRING), cred : Cred, whole : BOOLEAN]

TypeOK ==
    /\ cfg \in Configs
    /\ tokens \in Seq(Entry)
    /\ registered \in [Id \cup {NoId} -> SUBSET Token]
    /\ pc \in [Thread -> PC]
    /\ req \in [Thread -> Requests \cup {NoRequest}]
    /\ client \in [Thread -> Id \cup {NoId}]
    /\ buffered \in [Thread -> BOOLEAN]
    /\ unread \in [Thread -> BOOLEAN]
    /\ sent \in [Thread -> Seq(Attempt)]
    /\ refreshes \in [Thread -> Nat]
    /\ retried \in [Thread -> BOOLEAN]
    /\ answer \in [Thread -> Answer]
    /\ listing \in [Thread -> SUBSET Route]
    /\ valid \in [Thread -> SUBSET (Id \cup {NoId})]
    /\ guarded \in [Thread -> BOOLEAN]

\* New: a client list needs bearer identities.  It asks nothing of the tokens.
NewAccepts(c) == c.open => \A r \in Route : c.routes[r].allowed = {}

Init ==
    /\ cfg \in Configs
    /\ tokens \in Tables
    /\ NewAccepts(cfg)
    /\ registered = [id \in Id \cup {NoId} |->
                       {tokens[i].token : i \in {j \in DOMAIN tokens : tokens[j].id = id}}]
    /\ pc = [t \in Thread |-> "idle"]
    /\ req = [t \in Thread |-> NoRequest]
    /\ client = [t \in Thread |-> NoId]
    /\ buffered = [t \in Thread |-> FALSE]
    /\ unread = [t \in Thread |-> TRUE]
    /\ sent = [t \in Thread |-> <<>>]
    /\ refreshes = [t \in Thread |-> 0]
    /\ retried = [t \in Thread |-> FALSE]
    /\ answer = [t \in Thread |-> "none"]
    /\ listing = [t \in Thread |-> {}]
    /\ valid = [t \in Thread |-> {}]
    /\ guarded = [t \in Thread |-> FALSE]

-----------------------------------------------------------------------
(* The token table.                                                      *)

\* Mutation: the entry of an identifier is not replaced.
TableAppended(table, entry) == Append(table, entry)

\* The first entry with the identifier is replaced, or one is added.
WithEntry(table, entry) ==
    IF \E i \in DOMAIN table : table[i].id = entry.id
    THEN [i \in DOMAIN table |->
            IF table[i].id = entry.id /\ \A j \in 1 .. (i - 1) : table[j].id # entry.id
            THEN entry ELSE table[i]]
    ELSE Append(table, entry)

AddAuthToken(token, id) ==
    /\ tokens' = WithEntry(tokens, [token |-> token, id |-> id])
    /\ registered' = [registered EXCEPT ![id] = {token}]
    /\ valid' = [t \in Thread |->
                   IF pc[t] # "idle" /\ req[t].bearer = token THEN valid[t] \cup {id}
                   ELSE valid[t]]
    /\ UNCHANGED <<cfg, pc, req, client, proxyVars, answer, listing, guarded>>

-----------------------------------------------------------------------
(* Admission.                                                            *)

Arrive(t, r) ==
    /\ pc[t] = "idle"
    /\ pc' = [pc EXCEPT ![t] = "admit"]
    /\ req' = [req EXCEPT ![t] = r]
    /\ valid' = [valid EXCEPT ![t] = {id \in Id \cup {NoId} : r.bearer \in registered[id]}]
    /\ guarded' = [guarded EXCEPT ![t] = tokens # <<>>]
    /\ UNCHANGED <<serverVars, client, proxyVars, answer, listing>>

Respond(t, a) ==
    /\ answer' = [answer EXCEPT ![t] = a]
    /\ pc' = [pc EXCEPT ![t] = "done"]

\* authMiddleware up to tokenCount, which locks the table for itself.
Admit(t) ==
    /\ pc[t] = "admit"
    /\ \/ /\ cfg.samePeer /\ ~ req[t].peer
          /\ Respond(t, "forbidden")
       \/ /\ cfg.samePeer => req[t].peer
          /\ \/ /\ cfg.open \/ tokens = <<>>
                /\ pc' = [pc EXCEPT ![t] = "handle"]
                /\ UNCHANGED answer
             \/ /\ ~ cfg.open /\ tokens # <<>>
                /\ req[t].bearer = NoToken
                /\ Respond(t, "unauthorized")
             \/ /\ ~ cfg.open /\ tokens # <<>>
                /\ req[t].bearer # NoToken
                /\ pc' = [pc EXCEPT ![t] = "match"]
                /\ UNCHANGED answer
    /\ UNCHANGED <<serverVars, req, client, proxyVars, listing, valid, guarded>>

\* matchToken, which locks the table again: the first entry with the token.
Match(t) ==
    /\ pc[t] = "match"
    /\ \/ /\ \A i \in DOMAIN tokens : tokens[i].token # req[t].bearer
          /\ Respond(t, "unauthorized")
          /\ UNCHANGED client
       \/ /\ \E i \in DOMAIN tokens :
               /\ tokens[i].token = req[t].bearer
               /\ \A j \in 1 .. (i - 1) : tokens[j].token # req[t].bearer
               /\ client' = [client EXCEPT ![t] = tokens[i].id]
          /\ pc' = [pc EXCEPT ![t] = "handle"]
          /\ UNCHANGED answer
    /\ UNCHANGED <<serverVars, req, proxyVars, listing, valid, guarded>>

\* Mutation: a request without an identity passes a client list.
AnonymousAllowed(allowed, id) == id = NoId \/ id \in allowed

\* clientAllowed: the empty identifier is never on a list.
ClientAllowed(allowed, id) == id # NoId /\ id \in allowed

Forbidden(r, id) ==
    cfg.routes[r].allowed # {} /\ ~ ClientAllowed(cfg.routes[r].allowed, id)

\* handleRouteList: routes with an upstream and routes closed to the caller are left out.
RoutesFor(id) == {r \in Route : ~ cfg.routes[r].upstream /\ ~ Forbidden(r, id)}

List(t) ==
    /\ pc[t] = "handle"
    /\ req[t].route = RouteList
    /\ listing' = [listing EXCEPT ![t] = RoutesFor(client[t])]
    /\ Respond(t, "listed")
    /\ UNCHANGED <<serverVars, req, client, proxyVars, valid, guarded>>

-----------------------------------------------------------------------
(* ServeHTTP up to the provider.                                         *)

\* The body of a route with a refresh is read up to a limit before anything else;
\* a larger one is put back together for a single attempt.
Handle(t) ==
    LET route == cfg.routes[req[t].route] IN
    /\ pc[t] = "handle"
    /\ req[t].route \in Route
    /\ buffered' = [buffered EXCEPT ![t] = route.refresh /\ ~ req[t].large]
    /\ unread' = [unread EXCEPT ![t] = ~ buffered'[t]]
    /\ \/ /\ Forbidden(req[t].route, client[t])
          /\ Respond(t, "forbidden")
       \/ /\ ~ Forbidden(req[t].route, client[t])
          /\ pc' = [pc EXCEPT ![t] = "get"]
          /\ UNCHANGED answer
    /\ UNCHANGED <<serverVars, req, client, sent, refreshes, retried, listing, valid, guarded>>

\* The body cannot be read.
ReadFails(t) ==
    /\ pc[t] = "handle"
    /\ req[t].route \in Route
    /\ cfg.routes[req[t].route].refresh
    /\ Respond(t, "bad request")
    /\ UNCHANGED <<serverVars, req, client, proxyVars, listing, valid, guarded>>

-----------------------------------------------------------------------
(* The upstream URL.                                                     *)

\* ProxyRequest.SetURL joins two paths with one slash between them.
EndsInSlash(p) == p # <<>> /\ p[Len(p)] = ""
JoinPath(a, b) ==
    IF b = <<>> THEN IF EndsInSlash(a) THEN a ELSE Append(a, "")
    ELSE IF EndsInSlash(a) THEN SubSeq(a, 1, Len(a) - 1) \o b ELSE a \o b

Rewrite(p) == IF p = <<>> THEN Base ELSE JoinPath(Base, p)

\* ErrorHandler is given the outgoing request of the first attempt, and the retry
\* rewrites that one.
Outgoing(t) == IF sent[t] = <<>> THEN req[t].path ELSE sent[t][Len(sent[t])].path

-----------------------------------------------------------------------
(* Provider results, attempts and answers.                               *)

\* applyPlan replays the buffered body; otherwise the connection is read.
Send(t, c) ==
    /\ sent' = [sent EXCEPT ![t] = Append(@,
                  [path |-> Rewrite(Outgoing(t)), cred |-> c,
                   whole |-> buffered[t] \/ unread[t]])]
    /\ unread' = [unread EXCEPT ![t] = FALSE]
    /\ pc' = [pc EXCEPT ![t] = "sent"]

\* decideAction on an injection, or writeCredentialError.
Result == {"err", "reason", "body", "inject"}
Refused(t, result) ==
    \/ result = "err" /\ Respond(t, "credential error")
    \/ result = "reason" /\ Respond(t, "reason")
    \/ result = "body" /\ Respond(t, "body")
    \/ result = "inject" /\ ~ cfg.routes[req[t].route].upstream /\ Respond(t, "no upstream")
Forwards(t, result) == result = "inject" /\ cfg.routes[req[t].route].upstream

GotCredential(t, result, c) ==
    /\ pc[t] = "get"
    /\ \/ Refused(t, result) /\ UNCHANGED <<sent, unread>>
       \/ Forwards(t, result) /\ Send(t, c) /\ UNCHANGED answer
    /\ UNCHANGED <<serverVars, req, client, buffered, refreshes, retried, listing, valid, guarded>>

\* Mutation: a refused attempt is retried whether or not the body was kept.
RetryUnbuffered(t, refusal) ==
    refusal /\ cfg.routes[req[t].route].refresh

\* modifyResponse: the status is in RefreshOnStatus and the body can be replayed.
NeedsRefresh(t, refusal) ==
    refusal /\ cfg.routes[req[t].route].refresh /\ buffered[t]

\* The upstream answers, with or without a status of RefreshOnStatus.
UpstreamAnswers(t, refusal) ==
    /\ pc[t] = "sent"
    /\ \/ /\ ~ NeedsRefresh(t, refusal)
          /\ Respond(t, "upstream")
          /\ UNCHANGED refreshes
       \/ /\ NeedsRefresh(t, refusal) /\ retried[t]
          /\ Respond(t, "auth failure after refresh")
          /\ UNCHANGED refreshes
       \/ /\ NeedsRefresh(t, refusal) /\ ~ retried[t]
          /\ refreshes' = [refreshes EXCEPT ![t] = @ + 1]
          /\ pc' = [pc EXCEPT ![t] = "refresh"]
          /\ UNCHANGED answer
    /\ UNCHANGED <<serverVars, req, client, buffered, unread, sent, retried, listing, valid, guarded>>

\* The attempt fails before there is a response.
UpstreamFails(t) ==
    /\ pc[t] = "sent"
    /\ Respond(t, "upstream error")
    /\ UNCHANGED <<serverVars, req, client, proxyVars, listing, valid, guarded>>

Refreshed(t, result, c) ==
    /\ pc[t] = "refresh"
    /\ \/ Refused(t, result) /\ UNCHANGED <<sent, unread, retried>>
       \/ /\ Forwards(t, result)
          /\ retried' = [retried EXCEPT ![t] = TRUE]
          /\ Send(t, c)
          /\ UNCHANGED answer
    /\ UNCHANGED <<serverVars, req, client, buffered, refreshes, listing, valid, guarded>>

\* The handler returns and its goroutine is free.
Finish(t) ==
    /\ pc[t] = "done"
    /\ pc' = [pc EXCEPT ![t] = "idle"]
    /\ req' = [req EXCEPT ![t] = NoRequest]
    /\ client' = [client EXCEPT ![t] = NoId]
    /\ buffered' = [buffered EXCEPT ![t] = FALSE]
    /\ unread' = [unread EXCEPT ![t] = TRUE]
    /\ sent' = [sent EXCEPT ![t] = <<>>]
    /\ refreshes' = [refreshes EXCEPT ![t] = 0]
    /\ retried' = [retried EXCEPT ![t] = FALSE]
    /\ answer' = [answer EXCEPT ![t] = "none"]
    /\ listing' = [listing EXCEPT ![t] = {}]
    /\ valid' = [valid EXCEPT ![t] = {}]
    /\ guarded' = [guarded EXCEPT ![t] = FALSE]
    /\ UNCHANGED serverVars

-----------------------------------------------------------------------
\* The steps that neither the provider nor the upstream takes part in.
Local(t) == Admit(t) \/ Match(t) \/ List(t) \/ Handle(t) \/ ReadFails(t) \/ Finish(t)

Upstream(t) == UpstreamFails(t) \/ \E refusal \in BOOLEAN : UpstreamAnswers(t, refusal)

Next ==
    \/ \E token \in Token, id \in Id \cup {NoId} : AddAuthToken(token, id)
    \/ \E t \in Thread :
         \/ \E r \in Requests : Arrive(t, r)
         \/ Local(t)
         \/ Upstream(t)
         \/ \E result \in Result, c \in Cred : GotCredential(t, result, c) \/ Refreshed(t, result, c)

Spec == Init /\ [][Next]_vars
-----------------------------------------------------------------------
(* Properties.                                                           *)

\* A request that uses a provider or an upstream was let in under rules that
\* held for it: its peer is the required one; if tokens were registered when it
\* arrived, its token was registered at some moment since then, for the identifier it
\* acts under, and was not one that AddAuthToken had replaced before; and on a
\* restricted route that identifier is on the list (authMiddleware, ServeHTTP;
\* types.go:70-72 and 98).
InUse(t) == pc[t] \in {"get", "sent", "refresh"}
ServedIsAuthorised ==
    \A t \in Thread : InUse(t) =>
      LET allowed == cfg.routes[req[t].route].allowed IN
      /\ cfg.samePeer => req[t].peer
      /\ guarded[t] /\ ~ cfg.open => client[t] \in valid[t]
      /\ allowed # {} => client[t] \in allowed \cap valid[t] \cap Id

\* Every attempt carries the request's whole body, the retry included: a body that
\* was not kept disables the retry (route.go:72-92, modifyResponse).
AttemptsAreWhole ==
    \A t \in Thread : \A i \in DOMAIN sent[t] : sent[t][i].whole

\* A request is forwarded at most twice and refreshes its credential at most once
\* (README.md:42, "the request is then retried once").
AtMostOneRetry ==
    \A t \in Thread : Len(sent[t]) <= 2 /\ refreshes[t] <= 1

\* /_routes names a route to a caller only if a request of the same caller to it
\* would not be answered 403 (server.go:257-259).
ListedIsOpen ==
    \A t \in Thread : \A r \in listing[t] :
      cfg.routes[r].allowed # {} => client[t] \in cfg.routes[r].allowed \cap valid[t]

\* requirements.md:12-14 of change-20260815: an empty stripped path keeps the
\* upstream's configured path, and a subtree path is appended to it once.  README.md:42:
\* the same request is sent again after a refresh.
UpstreamPathKept ==
    \A t \in Thread : \A i \in DOMAIN sent[t] : sent[t][i].path = Rewrite(req[t].path)

\* types.go:99: without tokens AllowUnauthenticated must be true, or New fails.
TokensOrOpen == tokens = <<>> => cfg.open

-----------------------------------------------------------------------
(* The inductive invariant behind the safety properties.                 *)

\* The table holds each identifier once, with the token registered last.
TableIsCurrent ==
    /\ \A i, j \in DOMAIN tokens : tokens[i].id = tokens[j].id => i = j
    /\ \A i \in DOMAIN tokens : registered[tokens[i].id] = {tokens[i].token}

\* What a request has passed so far.
Passed(t) == pc[t] \in {"handle", "get", "sent", "refresh"}
Identified ==
    \A t \in Thread :
      /\ pc[t] # "idle" => \A id \in Id \cup {NoId} : req[t].bearer \in registered[id] => id \in valid[t]
      /\ guarded[t] => tokens # <<>>
      /\ pc[t] \in {"idle", "admit", "match"} => client[t] = NoId
      /\ client[t] # NoId => client[t] \in valid[t]
      /\ (Passed(t) \/ pc[t] = "match") /\ cfg.samePeer => req[t].peer
      /\ Passed(t) /\ guarded[t] /\ ~ cfg.open => client[t] \in valid[t]
      /\ InUse(t) => req[t].route \in Route /\ ~ Forbidden(req[t].route, client[t])
Requested == \A t \in Thread : req[t] = NoRequest <=> pc[t] = "idle"

\* How far a request has come with its attempts.
Progress ==
    \A t \in Thread :
      /\ pc[t] \in {"idle", "admit", "match", "handle"} =>
           ~ buffered[t] /\ unread[t]
      /\ pc[t] \in {"idle", "admit", "match", "handle", "get"} =>
           sent[t] = <<>> /\ refreshes[t] = 0 /\ ~ retried[t]
      /\ pc[t] = "get" => buffered[t] # unread[t]
      /\ pc[t] = "sent" => Len(sent[t]) = (IF retried[t] THEN 2 ELSE 1)
                           /\ refreshes[t] = (IF retried[t] THEN 1 ELSE 0)
      /\ pc[t] = "refresh" => /\ buffered[t] /\ ~ retried[t]
                              /\ Len(sent[t]) = 1 /\ refreshes[t] = 1
      /\ pc[t] # "done" => listing[t] = {}

IInv == /\ TypeOK
        /\ TableIsCurrent
        /\ Requested
        /\ Identified
        /\ Progress
        /\ AttemptsAreWhole
        /\ AtMostOneRetry
        /\ ListedIsOpen
========================================================================
