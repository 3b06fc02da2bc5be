---------------------------- MODULE SshAgent ----------------------------
(***************************************************************************)
(* The sshagent provider: ContainerSpec starts an ssh-agent for a project  *)
(* on its first call, holding b.mu until the agent answers on its socket,  *)
(* and the end of the parent context kills the agents.  Agents are         *)
(* numbered in the order they are started.                                 *)
(***************************************************************************)
EXTENDS Naturals, Sequences, FiniteSets

CONSTANTS
    Project, Caller,
    Keys,           \* keysFor: the key files of each project
    MaxAgents,      \* bound: agents started
    None

VARIABLES
    agents,     \* b.agents: the agent registered for a project, or None
    proc,       \* the ssh-agent processes: [p, live, ctx, keys, died]; died: by itself
    sock,       \* the socket file of a project: the agent that bound it, or None
    mu,         \* who holds b.mu
    ended,      \* the parent context is done
    watcher,    \* watchShutdown: "waiting", "done"
    caller      \* [p, pc] of each ContainerSpec

agentsVars == <<agents, proc, sock, mu, ended, watcher, caller>>

AgentsInit ==
    /\ agents = [p \in Project |-> None]
    /\ proc = <<>>
    /\ sock = [p \in Project |-> None]
    /\ mu = None
    /\ ended = FALSE
    /\ watcher = "waiting"
    /\ caller = [c \in Caller |-> [p |-> None, pc |-> "idle"]]

Goto(c, label) == caller' = [caller EXCEPT ![c].pc = label]
Unlock(c, label) == mu' = None /\ Goto(c, label)
Live(n) == n # None /\ proc[n].live

-----------------------------------------------------------------------
\* Without keys the Spec is zero and the call ends.
ContainerSpec(c, p) ==
    /\ caller[c].pc \in {"idle", "spec", "error"}
    /\ Keys[p] # {}
    /\ caller' = [caller EXCEPT ![c] = [p |-> p, pc |-> "lock"]]
    /\ UNCHANGED <<agents, proc, sock, mu, ended, watcher>>

\* keysSpec: a registered project keeps its agent, alive or not.
KeysSpec(c) ==
    /\ caller[c].pc = "lock"
    /\ mu = None
    /\ IF agents[caller[c].p] # None THEN Goto(c, "spec") /\ UNCHANGED mu
       ELSE Goto(c, "start") /\ mu' = c
    /\ UNCHANGED <<agents, proc, sock, ended, watcher>>

\* Mutation: the agent is started outside the parent context.
StartPlain(c) ==
    LET p == caller[c].p IN
    /\ caller[c].pc = "start"
    /\ Len(proc) < MaxAgents
    /\ sock' = [sock EXCEPT ![p] = None]
    /\ proc' = Append(proc, [p |-> p, live |-> TRUE, ctx |-> FALSE, keys |-> {}, died |-> FALSE])
    /\ Goto(c, "wait")
    /\ UNCHANGED <<agents, mu, ended, watcher>>

\* spawnAgent up to cmd.Start: a socket left behind is removed first.
Start(c) ==
    LET p == caller[c].p IN
    /\ caller[c].pc = "start"
    /\ Len(proc) < MaxAgents
    /\ ~ ended
    /\ sock' = [sock EXCEPT ![p] = None]
    /\ proc' = Append(proc, [p |-> p, live |-> TRUE, ctx |-> TRUE, keys |-> {}, died |-> FALSE])
    /\ Goto(c, "wait")
    /\ UNCHANGED <<agents, mu, ended, watcher>>

\* The run directory cannot be made, or cmd.Start fails: with the context done it must.
StartFails(c) ==
    LET p == caller[c].p IN
    /\ caller[c].pc = "start"
    /\ sock' \in {sock, [sock EXCEPT ![p] = None]}
    /\ Unlock(c, "error")
    /\ UNCHANGED <<agents, proc, ended, watcher>>

\* waitForSocket: a dial succeeds.
Ready(c) ==
    /\ caller[c].pc = "wait"
    /\ Live(sock[caller[c].p])
    /\ Goto(c, "add")
    /\ UNCHANGED <<agents, proc, sock, mu, ended, watcher>>

\* Mutation: an agent that is not ready in time is left to itself.
TimeoutKeeps(c) ==
    /\ caller[c].pc = "wait"
    /\ Unlock(c, "error")
    /\ UNCHANGED <<agents, proc, sock, ended, watcher>>

\* It does not within agentReadyTimeout: the agent is killed, its socket stays.
Timeout(c) ==
    /\ caller[c].pc = "wait"
    /\ proc' = [proc EXCEPT ![Len(proc)].live = FALSE]
    /\ Unlock(c, "error")
    /\ UNCHANGED <<agents, sock, ended, watcher>>

\* addKeys: a key that is missing or that ssh-add cannot load is skipped.
AddKeys(c) ==
    LET p == caller[c].p IN
    /\ caller[c].pc = "add"
    /\ \E some \in SUBSET Keys[p] :
         proc' = IF Live(sock[p]) THEN [proc EXCEPT ![sock[p]].keys = @ \cup some] ELSE proc
    /\ agents' = [agents EXCEPT ![p] = Len(proc)]
    /\ Unlock(c, "spec")
    /\ UNCHANGED <<sock, ended, watcher>>

-----------------------------------------------------------------------
EndContext ==
    /\ ~ ended
    /\ ended' = TRUE
    /\ UNCHANGED <<agents, proc, sock, mu, watcher, caller>>

\* watchShutdown kills the registered agents and removes their sockets.
WatchShutdown ==
    /\ watcher = "waiting" /\ ended /\ mu = None
    /\ watcher' = "done"
    /\ proc' = [n \in DOMAIN proc |-> [proc[n] EXCEPT !.live = @ /\ agents[proc[n].p] # n]]
    /\ sock' = [p \in Project |-> IF agents[p] # None THEN None ELSE sock[p]]
    /\ UNCHANGED <<agents, mu, ended, caller>>

\* exec.CommandContext kills its process when the context is done.
CtxKill(n) ==
    /\ ended /\ proc[n].ctx /\ proc[n].live
    /\ proc' = [proc EXCEPT ![n].live = FALSE]
    /\ UNCHANGED <<agents, sock, mu, ended, watcher, caller>>

\* ssh-agent binds its socket; it ends when the file is there already.
Bind(n) ==
    LET p == proc[n].p IN
    /\ proc[n].live /\ sock[p] # n
    /\ IF sock[p] = None
       THEN sock' = [sock EXCEPT ![p] = n] /\ UNCHANGED proc
       ELSE proc' = [proc EXCEPT ![n].live = FALSE] /\ UNCHANGED sock
    /\ UNCHANGED <<agents, mu, ended, watcher, caller>>

\* An agent ends by itself.
Dies(n) ==
    /\ proc[n].live
    /\ proc' = [proc EXCEPT ![n].live = FALSE, ![n].died = TRUE]
    /\ UNCHANGED <<agents, sock, mu, ended, watcher, caller>>

Call(c) == KeysSpec(c) \/ Start(c) \/ StartFails(c) \/ Ready(c) \/ Timeout(c) \/ AddKeys(c)

AgentsNext ==
    \/ \E c \in Caller : Call(c) \/ \E p \in Project : ContainerSpec(c, p)
    \/ EndContext \/ WatchShutdown
    \/ \E n \in DOMAIN proc : CtxKill(n) \/ Bind(n) \/ Dies(n)

AgentsSpec == AgentsInit /\ [][AgentsNext]_agentsVars

\* Calls make progress, since the wait for the socket is bounded; the goroutines that
\* wait for the context are scheduled.
AgentsFairness ==
    /\ \A c \in Caller : WF_agentsVars(Call(c))
    /\ SF_agentsVars(WatchShutdown)
    /\ \A n \in 1 .. MaxAgents : WF_agentsVars(n \in DOMAIN proc /\ CtxKill(n))

-----------------------------------------------------------------------
(* Properties.                                                           *)

\* Whatever launches overlap, fail and are tried again, a project never has two agents
\* running.
OneAgentPerProject ==
    \A m, n \in DOMAIN proc : proc[m].live /\ proc[n].live /\ proc[m].p = proc[n].p => m = n

\* Until shutdown the agent registered for a project answers on the project's socket,
\* unless it has died by itself, and holds no key that keysFor did not name for it.
RegisteredAnswers ==
    \A p \in Project : agents[p] # None /\ ~ ended =>
      /\ sock[p] = agents[p]
      /\ Live(sock[p]) \/ proc[agents[p]].died
      /\ proc[agents[p]].keys \subseteq Keys[p]

\* The inductive invariant.  A launch holds b.mu from the moment it found no agent
\* registered; an agent that lives is the one registered for its project or the youngest,
\* which the launch in progress waits for.
Agent == [p : Project, live : BOOLEAN, ctx : BOOLEAN, died : BOOLEAN,
          keys : SUBSET UNION {Keys[p] : p \in Project}]
CallState ==
    [p : Project \cup {None}, pc : {"idle", "lock", "start", "wait", "add", "spec", "error"}]
AgentsTypeOK ==
    /\ agents \in [Project -> Nat \cup {None}]
    /\ proc \in Seq(Agent)
    /\ sock \in [Project -> Nat \cup {None}]
    /\ mu \in Caller \cup {None}
    /\ ended \in BOOLEAN
    /\ caller \in [Caller -> CallState]
Up(n) == proc[n].live \/ proc[n].died
Awaits(c) == caller[c].pc \in {"wait", "add"}
CallerInv(c) ==
    /\ caller[c].pc # "idle" => caller[c].p \in Project
    /\ caller[c].pc = "start" \/ Awaits(c) => mu = c /\ agents[caller[c].p] = None
    /\ Awaits(c) => Len(proc) \in DOMAIN proc /\ proc[Len(proc)].p = caller[c].p
    /\ caller[c].pc = "add" /\ ~ ended => sock[caller[c].p] = Len(proc) /\ Up(Len(proc))
AgentInv(n) ==
    /\ proc[n].keys \subseteq Keys[proc[n].p]
    /\ proc[n].live =>
         \/ agents[proc[n].p] = n
         \/ n = Len(proc) /\ \E c \in Caller : Awaits(c) /\ caller[c].p = proc[n].p
ProjectInv(p) ==
    /\ sock[p] # None => sock[p] \in DOMAIN proc /\ proc[sock[p]].p = p
    /\ agents[p] # None => agents[p] \in DOMAIN proc /\ proc[agents[p]].p = p
    /\ agents[p] # None /\ ~ ended => sock[p] = agents[p] /\ Up(agents[p])
AgentsInv ==
    /\ AgentsTypeOK
    /\ \A c \in Caller : CallerInv(c)
    /\ \A n \in DOMAIN proc : AgentInv(n)
    /\ \A p \in Project : ProjectInv(p)

\* What the provider promises about agents.
ProjectHasItsAgent == OneAgentPerProject /\ RegisteredAnswers /\ AgentsInv

SshAssumption == None \notin Nat \cup Caller

\* README.md:33: once the context is done, no agent survives, not even one whose launch
\* was under way or comes later.
ShutdownKillsAgents ==
    ended ~> [](\A n \in DOMAIN proc : ~ proc[n].live)

\* README.md:33: the sockets of agents are removed when the context is done.
ShutdownRemovesSockets ==
    watcher = "done" /\ mu = None => \A p \in Project : sock[p] = None
========================================================================
