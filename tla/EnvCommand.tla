--------------------------- MODULE EnvCommand ---------------------------
(***************************************************************************)
(* The credproxy client commands env, exec, run and resolve: what they ask *)
(* the broker for while it comes and goes, how the answers are merged, and *)
(* what reaches stdout, the exit status and the child process.  Modelled   *)
(* on Unix, where finding the endpoint cannot fail, from a valid command   *)
(* line on.                                                                *)
(***************************************************************************)
EXTENDS Naturals, Sequences, FiniteSets

CONSTANTS
    Options,        \* command lines: [op, strict, format, routes, token]
    RouteOrder,     \* the names /_routes may list, in sort.Strings order
    Addressable,    \* those of them that validRouteName accepts
    Env,            \* Env[r]: the env map route r serves when it serves one
    ValidNames,     \* variable names validEnvName accepts
    Base,           \* os.Environ(): a sequence of <<name, value>>
    MaxChanges,     \* bound: changes of the broker during the command
    None

\* exec is always strict; run and resolve select no route.
ASSUME CommandAssumption ==
    /\ RouteOrder \in Seq(DOMAIN Env) /\ None \notin {0, 1}
    /\ \A r \in DOMAIN Env :
         IsFiniteSet(Env[r]) /\ \A d, e \in Env[r] : d[1] = e[1] => d = e
    /\ \A o \in Options :
         /\ o.op \in {"env", "exec", "run", "resolve"} /\ o.routes \in Seq(DOMAIN Env)
         /\ o.op \in {"run", "resolve"} => o.routes = <<>>
         /\ o.op # "env" => o.strict
    /\ Base \in Seq(Seq(STRING))

Route == {RouteOrder[k] : k \in DOMAIN RouteOrder}
Shape == {"env", "other", "error"}

VARIABLES
    broker,     \* [ready, up, listed, shape]: endpoint present, reachable, its routes
    changes,
    cmd,        \* the command: [opt, pc, todo, env, asked, exit]
    stdout,     \* what it printed: an env map, or None
    child       \* the environment it ran the child with, or None

envVars == <<broker, changes, cmd, stdout, child>>

\* Maps are sets of <<name, value>>.
NoEnv == {}
Names(m) == {e[1] : e \in m}

\* The loops that keep some of a slice: SelectSeq, with the elements to keep as a set.
Filter(s, keep) ==
    LET f[k \in 0 .. Len(s)] ==
          IF k = 0 THEN <<>> ELSE IF s[k] \in keep THEN Append(f[k - 1], s[k]) ELSE f[k - 1]
    IN  f[Len(s)]

Brokers == [ready : BOOLEAN, up : BOOLEAN, listed : SUBSET Route, shape : [Route -> Shape]]

EnvInit ==
    /\ broker \in {b \in Brokers : b.up => b.ready}
    /\ changes = 0
    /\ \E o \in Options :
         cmd = [opt |-> o, pc |-> "start", todo |-> <<>>, env |-> NoEnv, asked |-> <<>>,
                exit |-> None]
    /\ stdout = None
    /\ child = None

Goto(label) == cmd' = [cmd EXCEPT !.pc = label]
Exit(status) == cmd' = [cmd EXCEPT !.pc = "exited", !.exit = status]
Fail(strict) == Exit(IF strict THEN 1 ELSE 0)

-----------------------------------------------------------------------
(* env: runEnvCmd and fetchSelectedRoutes; exec shares the request.        *)

\* loadBrokerToken, readExecToken: without the token file only env ends quietly.
LoadToken ==
    /\ cmd.pc = "start" /\ cmd.opt.op \in {"env", "exec"}
    /\ IF cmd.opt.token THEN Goto(IF cmd.opt.op = "env" THEN "ready" ELSE "routes")
       ELSE Fail(cmd.opt.strict)
    /\ UNCHANGED <<broker, changes, stdout, child>>

\* brokerEndpointReady and unavailableBroker
EndpointReady ==
    /\ cmd.pc = "ready"
    /\ IF broker.ready THEN Goto("routes") ELSE Fail(cmd.opt.strict)
    /\ UNCHANGED <<broker, changes, stdout, child>>

Fetching(routes) == cmd' = [cmd EXCEPT !.pc = "fetch", !.todo = routes]

\* fetchRouteNames: the names that cannot be addressed are dropped, the rest sorted.
SelectRoutes ==
    /\ cmd.pc = "routes"
    /\ IF cmd.opt.routes # <<>> THEN Fetching(cmd.opt.routes)
       ELSE IF broker.up THEN Fetching(Filter(RouteOrder, broker.listed \cap Addressable))
       ELSE Fail(cmd.opt.strict)
    /\ UNCHANGED <<broker, changes, stdout, child>>

\* fetchRouteEnv: an error, an env map, or a body without one.
Answer(r) == IF broker.up THEN broker.shape[r] ELSE "error"

\* The later route overrides.
Merge(m, r) == {e \in m : e[1] \notin Names(Env[r])} \cup Env[r]

\* Mutation: what an earlier route served is kept.
CollectFirst ==
    LET r == Head(cmd.todo) IN
    /\ cmd.pc = "fetch" /\ cmd.todo # <<>>
    /\ Answer(r) = "env"
    /\ cmd' = [cmd EXCEPT !.todo = Tail(@), !.asked = Append(@, r),
                 !.env = @ \cup {e \in Env[r] : e[1] \notin Names(@)}]
    /\ UNCHANGED <<broker, changes, stdout, child>>

Collect ==
    LET r == Head(cmd.todo) IN
    /\ cmd.pc = "fetch" /\ cmd.todo # <<>>
    /\ Answer(r) = "env"
    /\ cmd' = [cmd EXCEPT !.todo = Tail(@), !.asked = Append(@, r), !.env = Merge(@, r)]
    /\ UNCHANGED <<broker, changes, stdout, child>>

\* A route that fails or serves no env map: collectRouteEnv goes on,
\* collectRouteEnvStrict and fetchEnv end with an error.
CollectNothing ==
    /\ cmd.pc = "fetch" /\ cmd.todo # <<>>
    /\ Answer(Head(cmd.todo)) # "env"
    /\ IF cmd.opt.strict THEN Exit(1) ELSE cmd' = [cmd EXCEPT !.todo = Tail(@)]
    /\ UNCHANGED <<broker, changes, stdout, child>>

\* writeEnv: json prints every name, sh only those that are identifiers.
WriteEnv ==
    /\ cmd.pc = "fetch" /\ cmd.todo = <<>> /\ cmd.opt.op = "env"
    /\ stdout' = {e \in cmd.env : cmd.opt.format = "json" \/ e[1] \in ValidNames}
    /\ Exit(0)
    /\ UNCHANGED <<broker, changes, child>>

-----------------------------------------------------------------------
(* exec and run.                                                         *)

\* run and resolve: the whole env-file is resolved, or nothing is.
ResolveEnvFile ==
    /\ cmd.pc = "start" /\ cmd.opt.op \in {"run", "resolve"}
    /\ \/ Exit(1) /\ UNCHANGED stdout
       \/ \E r \in Route :
            IF cmd.opt.op = "run"
            THEN /\ cmd' = [cmd EXCEPT !.pc = "fetch", !.asked = <<r>>, !.env = Env[r]]
                 /\ UNCHANGED stdout
            ELSE /\ cmd' = [cmd EXCEPT !.pc = "exited", !.exit = 0, !.asked = <<r>>,
                                       !.env = Env[r]]
                 /\ stdout' = Env[r]
    /\ UNCHANGED <<broker, changes, child>>

\* mergeEnv: what is not overridden, then the map in whatever order it is iterated.
MergeEnv(base, resolved) ==
    {Filter(base, {base[k] : k \in {j \in DOMAIN base : base[j][1] \notin Names(resolved)}}) \o s :
       s \in {t \in [1 .. Cardinality(resolved) -> resolved] :
               \A i, j \in DOMAIN t : t[i] = t[j] => i = j}}

\* LookPath may fail; otherwise the child replaces the command.
Exec ==
    /\ cmd.pc = "fetch" /\ cmd.todo = <<>> /\ cmd.opt.op \in {"exec", "run"}
    /\ \/ Exit(1) /\ UNCHANGED child
       \/ Exit(0) /\ child' \in MergeEnv(Base, cmd.env)
    /\ UNCHANGED <<broker, changes, stdout>>

\* The daemon starts, stops, reloads or fails at any time.
BrokerChanges ==
    /\ cmd.pc # "exited" /\ changes < MaxChanges
    /\ changes' = changes + 1
    /\ \/ broker' = [broker EXCEPT !.up = ~ @, !.ready = TRUE]
       \/ \E r \in Route, s \in Shape : broker' = [broker EXCEPT !.shape[r] = s]
    /\ UNCHANGED <<cmd, stdout, child>>

EnvNext ==
    \/ LoadToken \/ EndpointReady \/ SelectRoutes \/ Collect \/ CollectNothing \/ WriteEnv
    \/ ResolveEnvFile \/ Exec \/ BrokerChanges

EnvSpec == EnvInit /\ [][EnvNext]_envVars

-----------------------------------------------------------------------
(* Properties.                                                           *)

\* README.md:420: without --strict, credproxy env never exits non-zero, whatever the
\* broker does between its requests.
DegradesQuietly ==
    cmd.opt.op = "env" /\ ~ cmd.opt.strict => cmd.exit \in {None, 0}

\* What a name is given comes from the last route, in the order asked, that serves it;
\* and every route that answered is represented.  A failing route costs only itself.
LastRouteWins ==
    /\ Names(cmd.env) = UNION {Names(Env[cmd.asked[k]]) : k \in DOMAIN cmd.asked}
    /\ \A e \in cmd.env : \E k \in DOMAIN cmd.asked :
        /\ e \in Env[cmd.asked[k]]
        /\ \A j \in DOMAIN cmd.asked : j > k => e[1] \notin Names(Env[cmd.asked[j]])

\* In strict mode, and for exec, a zero exit means that every selected route answered
\* with an env map, and a failure prints nothing and runs no child.
StrictIsAllOrNothing ==
    cmd.opt.strict =>
      /\ cmd.exit = 0 /\ cmd.opt.routes # <<>> => cmd.asked = cmd.opt.routes
      /\ cmd.exit = 1 => stdout = None /\ child = None

\* The child sees every fetched variable exactly once, with the fetched value, and its
\* other variables as they were, in their order.
Overrides(env, m) ==
    LET others(s) == {k \in DOMAIN s : s[k][1] \notin Names(m)} IN
    /\ \A e \in m : \E k \in DOMAIN env :
         env[k] = e /\ \A j \in DOMAIN env : env[j][1] = e[1] => j = k
    /\ \E f \in [others(Base) -> others(env)] :
         /\ \A k \in others(Base) : env[f[k]] = Base[k]
         /\ \A j, k \in others(Base) : j < k => f[j] < f[k]
         /\ others(env) = {f[k] : k \in others(Base)}

ChildEnvironment == child # None => Overrides(child, cmd.env)

\* What the commands leave behind: all of the above.
CommandOutput == DegradesQuietly /\ LastRouteWins /\ StrictIsAllOrNothing /\ ChildEnvironment

\* env.go:29: an unreachable broker prints nothing on stdout.
UnreachablePrintsNothing ==
    changes = 0 /\ ~ broker.up /\ cmd.opt.op = "env" => stdout \in {None, NoEnv} /\
      (cmd.opt.format = "json" => stdout = None)

\* README.md:412: without --route, a route whose body has no env key is skipped.
OtherShapesAreSkipped ==
    changes = 0 /\ broker.up /\ cmd.opt.op = "env" /\ cmd.opt.token /\ cmd.opt.routes = <<>>
      /\ (\A r \in Route : broker.shape[r] # "error") => cmd.exit \in {None, 0}
========================================================================
