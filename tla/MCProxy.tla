---------------------------- MODULE MCProxy ----------------------------
(***************************************************************************)
(* From the configuration to the forwarded request, instantiated for TLC:  *)
(* what serve accepts (Config), the sockets it binds and leaves (Daemon),  *)
(* who is served (RouteHandler) and what is put into the request           *)
(* (Injection).                                                            *)
(*                                                                         *)
(* Each takes over when the one before it is done, and none changes what   *)
(* another reads.  So a behaviour follows one of them, part, and leaves    *)
(* the others at one of their initial states.                              *)
(***************************************************************************)
EXTENDS RouteHandler, Daemon, Config, Injection, TLC

CONSTANTS
    Parts,                                          \* the components to follow
    ci, dev, k1, k2,                                \* client ids and tokens
    auth, beta, param, b1, b2, v1, v2, mine, blank  \* header names and tokens

VARIABLES part

routeVars == <<cfg, tokens, registered, pc, req, client, buffered, unread, sent, refreshes,
               retried, answer, listing, valid, guarded>>

-----------------------------------------------------------------------
(* Requests: "api" is forwarded, "env" returns bodies.                    *)

MCTables == {<<>>, <<[token |-> k1, id |-> ci]>>,
             <<[token |-> k1, id |-> ci], [token |-> k1, id |-> dev]>>}

Routing(apiAllowed, apiRefresh, envAllowed) ==
    [r \in Route |->
       IF r = "api" THEN [allowed |-> apiAllowed, upstream |-> TRUE, refresh |-> apiRefresh]
       ELSE [allowed |-> envAllowed, upstream |-> FALSE, refresh |-> FALSE]]

MCConfigs ==
    {[open |-> FALSE, samePeer |-> FALSE, routes |-> Routing({ci}, TRUE, {dev})],
     [open |-> FALSE, samePeer |-> TRUE, routes |-> Routing({}, TRUE, {ci, NoId})],
     [open |-> TRUE, samePeer |-> FALSE, routes |-> Routing({}, FALSE, {})]}

MCPath == {<<>>, <<"v1">>}
MCBase == <<"token">>

\* Headers and bodies vary on the forwarded route, callers on all of them.
MCRequests ==
    {r \in [route : Route \cup {RouteList}, bearer : Token \cup {NoToken},
            peer : BOOLEAN, path : Path, large : BOOLEAN] :
       /\ r.large => r.route = "api" /\ r.path = <<>>
       /\ r.path # <<>> => r.route = "api"
       /\ ~ r.peer => r.route = "api" /\ ~ r.large /\ r.path = <<>>}

-----------------------------------------------------------------------
(* Configurations.                                                       *)

\* listen, require_peer_sid, tokens file, 1Password token, ~/ paths, home, Windows.
Deployment(l, s, t, o, tilde, h, w) ==
    [listen |-> l, sid |-> s, tokensFile |-> t, opToken |-> o, tilde |-> tilde,
     home |-> h, windows |-> w]
Plain == Deployment({"unix"}, FALSE, FALSE, TRUE, TRUE, TRUE, FALSE)
MCDeployments ==
    {Plain,
     Deployment({"unix"}, FALSE, TRUE, TRUE, TRUE, FALSE, FALSE),
     Deployment({"tcp", "unix"}, FALSE, TRUE, TRUE, FALSE, FALSE, FALSE),
     Deployment({"tcp"}, FALSE, TRUE, FALSE, FALSE, TRUE, FALSE),
     Deployment({}, TRUE, TRUE, TRUE, FALSE, TRUE, TRUE),
     Deployment({"unix", "pipe"}, TRUE, FALSE, TRUE, FALSE, TRUE, TRUE),
     Deployment({}, FALSE, FALSE, TRUE, FALSE, TRUE, FALSE)}

Credential(n, r, p, t) == [name |-> n, ref |-> r, preload |-> p, ttl |-> t]
MCCredentialLists ==
    {<<>>, <<Credential("c", TRUE, TRUE, 0)>>, <<Credential("c", TRUE, FALSE, 0)>>,
     <<Credential("c", TRUE, FALSE, 0 - 1)>>, <<Credential("c", FALSE, TRUE, 1)>>,
     <<Credential("", TRUE, FALSE, 1)>>,
     <<Credential("c", TRUE, TRUE, 0), Credential("d", TRUE, FALSE, 1)>>,
     <<Credential("c", TRUE, TRUE, 0), Credential("c", TRUE, FALSE, 1)>>}

\* One route with every combination of its settings that are read together (odd header
\* names and two variables only where they are delivered), or two plain ones.
FullRoutes ==
    [path : {"/a"}, upstream : BOOLEAN, commands : SUBSET {"get", "refresh"},
     refreshOnStatus : BOOLEAN, allowed : {{}, {"ci"}, {"token-0"}},
     credential : {"", "c", "x"}, delivery : {"", "header", "env", "file"},
     header : {"", "valid", "odd"}, env : {{}, {"c"}, {"c", "d"}}]
PlainRoute(p) ==
    [path |-> p, upstream |-> TRUE, commands |-> {}, refreshOnStatus |-> FALSE,
     allowed |-> {}, credential |-> "", delivery |-> "", header |-> "", env |-> {}]
MCRouteLists ==
    {<<r>> : r \in {f \in FullRoutes :
                      /\ f.commands # {} => f.header = "" /\ f.env = {}
                      /\ f.header = "odd" => f.delivery = "header"
                      /\ f.env = {"c", "d"} => f.delivery = "env"}}
      \cup {<<PlainRoute(p), PlainRoute(q)>> :
              p \in {"/a", ""}, q \in {"/a", "/a/", "/b/", "/_routes/"}}

Line(i, v) == [id |-> i, value |-> v]
MCTokenFiles ==
    {<<>>, <<Line("", "s")>>, <<Line("ci", "s")>>, <<Line("ci", "")>>,
     <<Line("ci", "s"), Line("ci", "t")>>, <<Line("", "s"), Line("ci", "t")>>}

\* A configuration that is not looked at.
OneC == INSTANCE Config WITH
       Deployments <- {Plain}, CredentialLists <- {<<>>}, RouteLists <- {<<>>},
       TokenFiles <- {<<>>}

-----------------------------------------------------------------------
\* Two processes and three starts: next to a running process, after an exit and after
\* a crash.
ASSUME ProcessAssumption

-----------------------------------------------------------------------
(* Injections: the beta header of a request has no line, one with a       *)
(* repeated or blank token, or two; headers are set or appended to under  *)
(* either name.                                                           *)

Lines == {<<>>, <<b1>>, <<b1, blank, b1>>}
HeadersOf(N, V) == UNION {[S -> V] : S \in SUBSET N}

Inbound(a, b) == [header |-> (auth :> a) @@ (beta :> b), query |-> (param :> <<mine>>)]
MCInbounds ==
    {Inbound(a, b) :
       a \in {<<>>, << <<mine>> >>}, b \in UNION {[1 .. k -> Lines] : k \in 0 .. 2}}

\* ApplyPlan sets the query by itself, so an injection sets headers or parameters.
MCInjections ==
    {i \in [headers : HeadersOf({auth, beta}, {<<v1>>, <<v2>>}),
            appends : HeadersOf({beta}, {<<b1, b2>>, <<v1, v1, blank>>}) \cup {auth :> <<v1>>},
            query   : HeadersOf({param}, {<<v1>>, <<v2>>})] :
       DOMAIN i.query # {} => DOMAIN i.headers = {}}

-----------------------------------------------------------------------
ProxyInit ==
    /\ part \in Parts
    /\ DaemonInit
    /\ part = "daemon" \/ (config = [tcp |-> TRUE, unix |-> TRUE, store |-> TRUE]
                           /\ fs = [q \in {"main", "admin"} |-> "none"])
    /\ InjectionInit
    /\ part = "injection" \/ (strip /\ inbound = Inbound(<<>>, <<>>))
    /\ Init
    /\ part = "route" \/ (cfg.open /\ tokens = <<>>)
    /\ IF part = "config" THEN ConfigInit ELSE OneC!ConfigInit

ProxyNext ==
    \/ part = "config" /\ ConfigNext /\ UNCHANGED <<part, daemonVars, injectionVars, routeVars>>
    \/ part = "daemon" /\ DaemonNext /\ UNCHANGED <<part, configVars, injectionVars, routeVars>>
    \/ part = "injection" /\ InjectionNext /\ UNCHANGED <<part, configVars, daemonVars, routeVars>>
    \/ part = "route" /\ Next /\ UNCHANGED <<part, configVars, daemonVars, injectionVars>>

ProxySpec ==
    ProxyInit /\ [][ProxyNext]_<<part, configVars, daemonVars, injectionVars, routeVars>>

=======================================================================
