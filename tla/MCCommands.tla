--------------------------- MODULE MCCommands ---------------------------
(***************************************************************************)
(* The credproxy commands instantiated for TLC: env, exec, run and resolve *)
(* (EnvCommand), connect (Relay), and the resolver that run and resolve    *)
(* use (SecretHook), which a library may also call concurrently.           *)
(*                                                                         *)
(* A process runs one command: a behaviour follows one of them, part, and  *)
(* leaves the others as they start.                                        *)
(***************************************************************************)
EXTENDS EnvCommand

CONSTANTS c1, c2

VARIABLES
    part,
    fed, sent, printed, peer, conn, copier, results, relay, cancelled,  \* of Relay
    cache, flight, runs, now, caller                        \* of SecretHook

relayVars == <<fed, sent, printed, peer, conn, copier, results, relay, cancelled>>
hookVars == <<cache, flight, runs, now, caller>>
commandVars == <<part, envVars, relayVars, hookVars>>

-----------------------------------------------------------------------
(* Three routes, one of which cannot be addressed; two serve the same     *)
(* variable, one of them also a name that sh cannot use.                  *)

Served == [r \in {"a", "b", "x"} |->
             CASE r = "a" -> {<<"K", "a">>, <<"A", "a">>}
               [] r = "b" -> {<<"K", "b">>, <<"1B", "b">>}
               [] r = "x" -> {<<"X", "x">>}]
Inherited == << <<"K", "old">>, <<"P", "p">>, <<"K", "older">>, <<"Q", "q">> >>

Opt(op, strict, format, routes, token) ==
    [op |-> op, strict |-> strict, format |-> format, routes |-> routes, token |-> token]
CommandLines ==
    {Opt("env", s, f, rs, t) : s \in BOOLEAN, f \in {"sh", "json"},
                               rs \in {<<>>, <<"b", "a">>}, t \in BOOLEAN}
      \cup {Opt("exec", TRUE, "", <<"b">>, t) : t \in BOOLEAN}
      \cup {Opt(op, TRUE, "", <<>>, TRUE) : op \in {"run", "resolve"}}

RoutesInOrder == <<"a", "b", "x">>

R == INSTANCE Relay WITH MaxIn <- 2, MaxOut <- 3

\* Two names of one reference, and two references.
Pair(n, r) == [name |-> n, ref |-> r]
EnvFiles == {<<Pair("A", "r1"), Pair("B", "r1")>>, <<Pair("A", "r2"), Pair("B", "r1")>>}
H == INSTANCE SecretHook WITH
       Caller <- {c1, c2}, Files <- EnvFiles, Ref <- {"r1", "r2"}, TTLs <- {0, 1},
       MaxTime <- 2, MaxRuns <- 3

ASSUME H!HookAssumption

-----------------------------------------------------------------------
CommandInit ==
    /\ part \in {"env", "connect", "secrets"}
    /\ R!Init /\ H!Init /\ EnvInit
    /\ part = "env" \/ (/\ cmd.opt = Opt("run", TRUE, "", <<>>, TRUE)
                        /\ ~ broker.ready /\ broker.listed = {}
                        /\ \A r \in DOMAIN Served : broker.shape[r] = "error")

CommandNext ==
    \/ part = "env" /\ EnvNext /\ UNCHANGED <<part, relayVars, hookVars>>
    \/ part = "connect" /\ R!Next /\ UNCHANGED <<part, envVars, hookVars>>
    \/ part = "secrets" /\ H!Next /\ UNCHANGED <<part, envVars, relayVars>>

\* A command that was not started has no step that must be taken.
CommandSpec ==
    CommandInit /\ [][CommandNext]_commandVars /\ R!Fairness /\ H!Fairness

-----------------------------------------------------------------------
(* The properties of the commands.                                       *)

\* Relay: connect ends when the broker does or on a signal, and without an error only when
\* everything the broker sent is printed.
RelayReturns ==
    /\ []R!NilMeansAllPrinted
    /\ R!RelayEnds

\* SecretHook: a file resolves to a value of its own reference for each of its names or
\* fails, it does so in the end, and the hook is not executed for what is cached.
FilesResolve ==
    /\ []H!AllOrNothing
    /\ []H!ValuesOfTheirReference
    /\ H!NotRunAgain
    /\ H!FilesResolve
==========================================================================
