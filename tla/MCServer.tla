---------------------------- MODULE MCServer ----------------------------
(***************************************************************************)
(* What lives as long as credproxyd does, instantiated for TLC: the        *)
(* process and its sockets, the scheduler of its hooks, the agents of the  *)
(* sshagent provider, and the file store in which state outlives it.       *)
(*                                                                         *)
(* They share no state but the end of the process, for which each has a    *)
(* Cancel, a signal or an Abandon.  So a behaviour follows one of them, part, and  *)
(* leaves the others as they start: an interleaving of all shows no state  *)
(* of one that its own steps do not reach.                                 *)
(***************************************************************************)
EXTENDS FileStore, Scheduler, SshAgent, TLC

CONSTANTS
    Parts,                      \* the components to follow
    d1, p1, p2, c1, c2

VARIABLES
    part,                               \* the component that takes steps
    config, fs, port, daemon, starts    \* of Daemon

daemonVars == <<config, fs, port, daemon, starts>>
fileVars == <<content, tmp, dst, writer, reader>>
serverVars == <<part, daemonVars, schedulerVars, agentsVars, fileVars>>

\* Two values of different length that share no cell.
MCData == {<<1, 1>>, <<2, 2, 2>>}

\* A process that is started again after an exit or a crash.
D == INSTANCE Daemon WITH Daemon <- {d1}, MaxStarts <- 2, proc <- daemon

\* Three jobs, of which one is due at every tick.
MCEvery == <<3, 1, 2>>

\* Two launches and two projects.
MCKeys == (p1 :> {"k1"}) @@ (p2 :> {"k2"})

\* Bound: where a third agent is started, none dies by itself.
FewDeaths == Len(proc) = MaxAgents => \A n \in DOMAIN proc : ~ proc[n].died

ASSUME SshAssumption /\ SchedulerAssumption

ServerInit ==
    /\ part \in Parts
    /\ D!DaemonInit /\ SchedulerInit /\ AgentsInit /\ Init
    /\ part # "daemon" =>
         /\ config = [tcp |-> TRUE, unix |-> TRUE, store |-> TRUE]
         /\ fs = [q \in {"main", "admin"} |-> "none"]

ServerNext ==
    \/ part = "daemon" /\ D!DaemonNext /\ UNCHANGED <<part, schedulerVars, agentsVars, fileVars>>
    \/ part = "scheduler" /\ SchedulerNext /\ UNCHANGED <<part, daemonVars, agentsVars, fileVars>>
    \/ part = "agents" /\ AgentsNext /\ FewDeaths' /\ UNCHANGED <<part, daemonVars, schedulerVars, fileVars>>
    \/ part = "store" /\ Next /\ UNCHANGED <<part, daemonVars, schedulerVars, agentsVars>>

\* The fairness of each component: as long as they have not begun, the process and
\* the agents have no step that must be taken; the scheduler has.
Fairness ==
    /\ D!Fairness /\ AgentsFairness
    /\ WF_schedulerVars(part = "scheduler" /\ Tick)
    /\ WF_schedulerVars(part = "scheduler" /\ Step)
    /\ SF_schedulerVars(part = "scheduler" /\ Stop)

ServerSpec == ServerInit /\ [][ServerNext]_serverVars /\ Fairness

-----------------------------------------------------------------------
(* The properties of Daemon and Scheduler; those of FileStore and SshAgent, *)
(* and JobsAreOnTime of Scheduler, are their own.                          *)

\* Daemon: the process ends after a signal, also when a request never ends, and a daemon
\* with a store does not go on serving without its admin API.
DaemonStops ==
    /\ D!SignalEnds
    /\ D!NotServingWithoutAdmin

\* Scheduler: every job runs again and again until the server stops, and then the
\* goroutine ends.
JobsRunUntilCancelled ==
    /\ part = "scheduler" => EveryJobRuns
    /\ StopsWhenCancelled
==========================================================================
