---------------------------- MODULE Config ----------------------------
(***************************************************************************)
(* What credproxyd makes of its configuration before it listens: Load with *)
(* its defaults, expansion and validation, the tokens file, the ids of its *)
(* tokens, the credential store, the routes and the checks of New.         *)
(*                                                                         *)
(* A setting that is only tested for being present is a Boolean.  A token  *)
(* is [id, value], with id "" for a line that names no client.             *)
(***************************************************************************)
EXTENDS Integers, Sequences, Functions, FiniteSets

CONSTANTS
    Deployments,        \* the other settings, and the system the daemon runs on
    CredentialLists,    \* lists of [[credential]] tables
    RouteLists,         \* lists of [[route]] tables
    TokenFiles,         \* contents of the tokens file
    DefaultTTL          \* defaultCredentialTTLSec

VARIABLES
    settings,   \* the configuration as it is known so far
    lines,      \* the lines of the tokens file
    env,        \* what the process finds: a home directory, Windows
    stage,      \* the step serve takes next, "serving" or "refused"
    reason,     \* why it was refused
    loaded,     \* the tokens with their ids
    store,      \* names of the credential store, or NoStore when it is nil
    open        \* AllowUnauthenticated

configVars == <<settings, lines, env, stage, reason, loaded, store, open>>

\* No credential has an empty name.
NoStore == {""}

\* The settings an operator writes.  listen is the set of listeners; tilde: paths are written with a leading ~/.
ConfigInit ==
    /\ \E d \in Deployments, c \in CredentialLists, r \in RouteLists :
         /\ settings = [listen |-> d.listen, sid |-> d.sid, tokensFile |-> d.tokensFile,
                      tilde |-> d.tilde, opToken |-> d.opToken,
                      credentials |-> c, routes |-> r]
         /\ env = [home |-> d.home, windows |-> d.windows]
    /\ lines \in TokenFiles
    /\ stage = "load"
    /\ reason = "none"
    /\ loaded = <<>>
    /\ store = NoStore
    /\ open = FALSE

Refuse(why) ==
    /\ stage' = "refused"
    /\ reason' = why
    /\ UNCHANGED <<settings, lines, env, loaded, store, open>>

Map(s, f(_)) == [i \in DOMAIN s |-> f(s[i])]

-----------------------------------------------------------------------
(* config.Load.                                                          *)

Defaults(c) ==
    [c EXCEPT
       !.listen = IF c.listen = {} /\ env.windows THEN {"pipe"} ELSE c.listen,
       !.credentials = Map(@, LAMBDA x : [x EXCEPT !.ttl = IF x.ttl = 0 THEN DefaultTTL ELSE x.ttl])]

\* expand: a path with ~/ needs a home directory; the other settings only have their
\* variables replaced, which the sets of inputs already contain.
Expands(c) == c.tilde => env.home

Load ==
    /\ stage = "load"
    /\ \/ Refuse("decode")
       \/ ~ Expands(settings) /\ Refuse("home")
       \/ /\ Expands(settings)
          /\ settings' = Defaults(settings)
          /\ stage' = "validate"
          /\ UNCHANGED <<lines, env, reason, loaded, store, open>>

Names(credentials) == {credentials[i].name : i \in DOMAIN credentials}

ValidCredentials(c) ==
    /\ \A x \in Range(c.credentials) :
         x.name # "" /\ x.ref /\ ~ (~ x.preload /\ x.ttl <= 0)
    /\ Cardinality(Names(c.credentials)) = Len(c.credentials)
    /\ c.credentials # <<>> => c.opToken

Preloaded(c, name) == \E x \in Range(c.credentials) : x.name = name /\ x.preload

ValidHeader(c, r) ==
    /\ r.credential \in Names(c.credentials)
    /\ r.upstream /\ r.header = "valid" /\ r.env = {}
    /\ ~ (Preloaded(c, r.credential) /\ r.refreshOnStatus)

\* Mutation: an env mapping is not checked against the credentials.
ValidEnvUnmapped(c, r) ==
    /\ ~ r.upstream /\ r.credential = "" /\ r.header = "" /\ r.env # {}

\* r.env is the set of credentials the variables of the route stand for.
ValidEnv(c, r) ==
    /\ ~ r.upstream /\ r.credential = "" /\ r.header = "" /\ r.env # {}
    /\ r.env \subseteq Names(c.credentials)

\* "get" and "refresh" are the commands that are set; a route without upstream needs
\* the first one.
ValidRoute(c, r) ==
    /\ r.path # ""
    /\ r.upstream \/ "get" \in r.commands \/ r.delivery = "env"
    /\ r.delivery # "" => r.commands = {}
    /\ CASE r.delivery = "" -> r.credential = "" /\ r.env = {}
         [] r.delivery = "header" -> ValidHeader(c, r)
         [] r.delivery = "env" -> ValidEnv(c, r)
         [] OTHER -> FALSE

Validate ==
    /\ stage = "validate"
    /\ LET valid == /\ settings.listen # {}
                    /\ settings.sid => "pipe" \in settings.listen
                    /\ ValidCredentials(settings)
                    /\ \A r \in Range(settings.routes) : ValidRoute(settings, r)
       IN IF ~ valid THEN Refuse("validate")
          ELSE /\ stage' = "tokens"
               /\ UNCHANGED <<settings, lines, env, reason, loaded, store, open>>

-----------------------------------------------------------------------
(* The tokens file and the ids of its tokens.                            *)

Named(ls) == {i \in DOMAIN ls : ls[i].id # ""}

\* parseTokens; an empty line is dropped before, a line "id=" or "=token" is refused.
Parses(ls) ==
    /\ \A i \in Named(ls) : ls[i].value # ""
    /\ \A i, j \in Named(ls) : ls[i].id = ls[j].id => i = j

\* The fallback id of an unnamed token is its position.
Positional(i) == IF i = 1 THEN "token-0" ELSE IF i = 2 THEN "token-1" ELSE "token-n"

LoadTokens ==
    /\ stage = "tokens"
    /\ \/ settings.tokensFile /\ ~ Parses(lines) /\ Refuse("tokens")
       \/ /\ settings.tokensFile => Parses(lines)
          /\ loaded' = IF ~ settings.tokensFile THEN <<>>
                       ELSE [i \in DOMAIN lines |->
                              [id |-> IF lines[i].id = "" THEN Positional(i) ELSE lines[i].id,
                               value |-> lines[i].value]]
          /\ stage' = "ids"
          /\ UNCHANGED <<settings, lines, env, reason, store, open>>

Ids == {loaded[i].id : i \in DOMAIN loaded}

ValidateClientIDs ==
    /\ stage = "ids"
    /\ IF \A r \in Range(settings.routes) : r.allowed \subseteq Ids
       THEN /\ stage' = "store"
            /\ UNCHANGED <<settings, lines, env, reason, loaded, store, open>>
       ELSE Refuse("ids")

-----------------------------------------------------------------------
(* The store, the routes and credproxy.New.                              *)

\* The service account's token is refused, or a secret cannot be preloaded.
StoreFails == stage = "store" /\ settings.credentials # <<>> /\ Refuse("onepassword")

\* onepassword.New repeats the checks of validate.
NewStore ==
    /\ stage = "store"
    /\ IF \/ \E x \in Range(settings.credentials) :
               x.name = "" \/ ~ x.ref \/ (~ x.preload /\ x.ttl <= 0)
          \/ Cardinality(Names(settings.credentials)) # Len(settings.credentials)
       THEN Refuse("store")
       ELSE /\ store' = IF settings.credentials = <<>> THEN NoStore ELSE Names(settings.credentials)
            /\ stage' = "new"
            /\ UNCHANGED <<settings, lines, env, reason, loaded, open>>

Reserved == {"/healthz", "/healthz/", "/_routes", "/_routes/"}
\* The patterns registerRoutes gives to the mux, which panics when one comes twice.
Patterns(path) == IF path = "/a" THEN {"/a", "/a/"} ELSE {path}
Collide(routes) ==
    \E i, j \in DOMAIN routes :
      i # j /\ Patterns(routes[i].path) \cap Patterns(routes[j].path) # {}

\* A listener with a peer policy, a client list without identities, a reserved path.
NewServer ==
    /\ stage = "new"
    /\ LET unauthenticated == "tcp" \notin settings.listen /\ loaded = <<>> IN
       CASE settings.sid /\ (~ env.windows \/ settings.listen # {"pipe"}) -> Refuse("peer policy")
         [] unauthenticated /\ \E r \in Range(settings.routes) : r.allowed # {} ->
              Refuse("no identities")
         [] \E r \in Range(settings.routes) : r.path \in Reserved -> Refuse("reserved")
         [] Collide(settings.routes) -> Refuse("panic")
         [] "pipe" \in settings.listen /\ ~ env.windows -> Refuse("listen")
         [] OTHER ->
              /\ open' = unauthenticated
              /\ stage' = "serving"
              /\ UNCHANGED <<settings, lines, env, reason, loaded, store>>

-----------------------------------------------------------------------
ConfigNext ==
    \/ Load \/ Validate \/ LoadTokens \/ ValidateClientIDs
    \/ StoreFails \/ NewStore \/ NewServer

ConfigSpec == ConfigInit /\ [][ConfigNext]_configVars

-----------------------------------------------------------------------
(* Properties.                                                           *)

Serving == stage = "serving"
Served == Range(settings.routes)

\* buildRoutes gives every route with a delivery the store: it is never nil, and it
\* knows every credential the route will ask it for.
RoutesHaveTheirStore ==
    Serving =>
      \A r \in Served : r.delivery # "" =>
        store # NoStore /\ (r.env \cup ({r.credential} \ {""})) \subseteq store

\* The checks of validate are those of onepassword.New: what the configuration
\* accepts, defaults filled in, the store does not refuse.
StoreAcceptsValidated == reason # "store"

\* A route with a list of clients is served only to clients with an identity: New's
\* own refusal of such a configuration is never needed.
ListsHaveIdentities == reason # "no identities"

\* validate.go:52: no upstream status makes a route replace a preloaded credential.
PreloadedNotRefreshed ==
    Serving => \A r \in Served :
      r.upstream /\ r.refreshOnStatus => ~ Preloaded(settings, r.credential)

\* The inductive invariant: what has been checked when a step is reached.
ConfigInv ==
    /\ reason \notin {"store", "no identities"}
    /\ stage \in {"tokens", "ids", "store", "new", "serving"} =>
         ValidCredentials(settings) /\ \A r \in Range(settings.routes) : ValidRoute(settings, r)
    /\ stage \in {"store", "new", "serving"} =>
         \A r \in Range(settings.routes) : r.allowed \subseteq Ids
    /\ stage \in {"new", "serving"} =>
         store = IF settings.credentials = <<>> THEN NoStore ELSE Names(settings.credentials)

\* validate.go:75 and README.md:178: every id of allowed_client_ids is a named token's.
ListedAreNamed ==
    Serving => \A r \in Served :
      r.allowed \subseteq {lines[i].id : i \in Named(lines)}

\* The later steps of serve rely on what the earlier ones have checked.  A route with a
\* delivery has a store, which knows its credentials; the store and New refuse nothing
\* that the validation accepts; no upstream status makes a route replace a preloaded
\* credential (validate.go:52).
ChecksSuffice ==
    /\ RoutesHaveTheirStore /\ StoreAcceptsValidated
    /\ ListsHaveIdentities /\ PreloadedNotRefreshed
    /\ ConfigInv
========================================================================
