---------------------------- MODULE Daemon ----------------------------
(***************************************************************************)
(* The life of credproxyd processes that share a socket path, an admin     *)
(* socket path and a TCP port: serve's startup, the listeners it binds,    *)
(* Server.Run, the admin server's goroutine, signals, exits and crashes.   *)
(*                                                                         *)
(* A path holds nothing, a plain file, a socket that nobody listens on or  *)
(* the socket of a process whose listener is open.                         *)
(***************************************************************************)
EXTENDS Naturals

CONSTANTS
    Daemon,     \* processes
    MaxStarts   \* bound: how often processes are started

VARIABLES
    config,     \* which listeners and whether a credential store is configured
    fs,         \* what the paths "main" and "admin" hold
    port,       \* holders of the TCP port: a set with at most one process
    proc,       \* the state of each process
    starts      \* number of starts, for the bound

daemonVars == <<config, fs, port, proc, starts>>

Config == {c \in [tcp : BOOLEAN, unix : BOOLEAN, store : BOOLEAN] : c.tcp \/ c.unix}
SocketPath == {"main", "admin"}

Starting == {"load", "tcp", "stat", "remove", "listen", "chmod", "notify"}
Notified == {"lstat", "dial", "adminRemove", "adminListen", "adminChmod",
             "run", "drain", "select"}

\* admin is where the admin goroutine is, failure the channel adminFailure, busy a
\* request that is being served.  told (a signal arrived) and alone (no other
\* process was up since this one started) are history.
Process == [pc : {"down"} \cup Starting \cup Notified,
            admin : {"none", "serve", "broken", "closed", "failed", "report", "stop", "done"},
            exit : {"none", "ok", "error", "socket", "killed"},
            failure : BOOLEAN, ctx : BOOLEAN, busy : BOOLEAN,
            told : BOOLEAN, alone : BOOLEAN]

Down(how, told, alone) ==
    [pc |-> "down", admin |-> "none", exit |-> how, failure |-> FALSE, ctx |-> FALSE,
     busy |-> FALSE, told |-> told, alone |-> alone]

DaemonTypeOK ==
    /\ config \in Config
    /\ fs \in [SocketPath -> Daemon \cup {"none", "plain", "stale"}]
    /\ port \in SUBSET Daemon
    /\ proc \in [Daemon -> Process]
    /\ starts \in 0 .. MaxStarts

DaemonInit ==
    /\ config \in Config
    /\ fs \in [SocketPath -> {"none", "plain", "stale"}]
    /\ port = {}
    /\ proc = [d \in Daemon |-> Down("none", FALSE, FALSE)]
    /\ starts = 0

Up(d) == proc[d].pc # "down"

\* The end of a process: the kernel closes its listeners and leaves their paths.
Exit(d, how) ==
    /\ proc' = [proc EXCEPT ![d] = Down(how, @.told, @.alone)]
    /\ fs' = [p \in SocketPath |-> IF fs[p] = d THEN "stale" ELSE fs[p]]
    /\ port' = port \ {d}
    /\ UNCHANGED <<config, starts>>

\* A step that only moves on.
Goto(d, label) ==
    /\ proc' = [proc EXCEPT ![d].pc = label]
    /\ UNCHANGED <<config, fs, port, starts>>

-----------------------------------------------------------------------
(* Startup: configuration, tokens and preload, then credproxy.New.        *)

Start(d) ==
    /\ ~ Up(d)
    /\ starts < MaxStarts
    /\ starts' = starts + 1
    /\ proc' = [e \in Daemon |->
         IF e = d THEN [Down("none", FALSE, \A f \in Daemon : ~ Up(f)) EXCEPT !.pc = "load"]
         ELSE [proc[e] EXCEPT !.alone = @ /\ ~ Up(e)]]
    /\ UNCHANGED <<config, fs, port>>

\* The configuration, the tokens or the preload are refused before anything is bound.
LoadFails(d) == proc[d].pc = "load" /\ Exit(d, "error")

Loaded(d) == proc[d].pc = "load" /\ Goto(d, "tcp")

ListenTCP(d) ==
    /\ proc[d].pc = "tcp"
    /\ \/ config.tcp /\ port # {} /\ Exit(d, "socket")
       \/ /\ ~ config.tcp \/ port = {}
          /\ port' = IF config.tcp THEN {d} ELSE port
          /\ proc' = [proc EXCEPT ![d].pc = IF config.unix THEN "stat" ELSE "notify"]
          /\ UNCHANGED <<config, fs, starts>>

StatMain(d) ==
    /\ proc[d].pc = "stat"
    /\ \/ fs["main"] = "plain" /\ Exit(d, "socket")
       \/ fs["main"] # "plain" /\ Goto(d, IF fs["main"] = "none" THEN "listen" ELSE "remove")

Removed(d, p, next) ==
    /\ fs' = [fs EXCEPT ![p] = "none"]
    /\ proc' = [proc EXCEPT ![d].pc = next]
    /\ UNCHANGED <<config, port, starts>>

\* The error of this Remove is ignored, and the socket is not asked who listens.
RemoveMain(d) == proc[d].pc = "remove" /\ Removed(d, "main", "listen")

\* net.Listen fails when the path exists.
Bind(d, p, next) ==
    \/ fs[p] # "none" /\ Exit(d, "socket")
    \/ /\ fs[p] = "none"
       /\ fs' = [fs EXCEPT ![p] = d]
       /\ proc' = [proc EXCEPT ![d].pc = next]
       /\ UNCHANGED <<config, port, starts>>

ListenMain(d) == proc[d].pc = "listen" /\ Bind(d, "main", "chmod")

\* The path may be gone by now: then the listener is closed and startup fails.
ChmodMain(d) ==
    /\ proc[d].pc = "chmod"
    /\ \/ fs["main"] = "none" /\ Exit(d, "socket")
       \/ fs["main"] # "none" /\ Goto(d, "notify")

\* signal.NotifyContext: from here on a signal cancels ctx instead of killing.
Notify(d) ==
    /\ proc[d].pc = "notify"
    /\ Goto(d, IF config.store THEN "lstat" ELSE "run")

-----------------------------------------------------------------------
(* admin.Start.                                                          *)

\* The socket's path cannot be determined, or its directory not be made.
NoAdminPath(d) == proc[d].pc = "lstat" /\ Exit(d, "error")

LstatAdmin(d) ==
    /\ proc[d].pc = "lstat"
    /\ \/ fs["admin"] = "plain" /\ Exit(d, "socket")
       \/ fs["admin"] # "plain" /\ Goto(d, IF fs["admin"] = "none" THEN "adminListen" ELSE "dial")

\* Mutation: a refused connection is an error like any other.
DialStrict(d) == proc[d].pc = "dial" /\ Exit(d, "socket")

\* Somebody answers, or the path is gone: startup fails.  Refused: it is stale.
DialAdmin(d) ==
    /\ proc[d].pc = "dial"
    /\ \/ fs["admin"] # "stale" /\ Exit(d, "socket")
       \/ fs["admin"] = "stale" /\ Goto(d, "adminRemove")

RemoveAdmin(d) ==
    /\ proc[d].pc = "adminRemove"
    /\ \/ fs["admin"] = "none" /\ Exit(d, "socket")
       \/ fs["admin"] # "none" /\ Removed(d, "admin", "adminListen")

ListenAdmin(d) == proc[d].pc = "adminListen" /\ Bind(d, "admin", "adminChmod")

ChmodAdmin(d) ==
    /\ proc[d].pc = "adminChmod"
    /\ \/ fs["admin"] = "none" /\ Exit(d, "socket")
       \/ /\ fs["admin"] # "none"
          /\ proc' = [proc EXCEPT ![d].pc = "run", ![d].admin = "serve"]
          /\ UNCHANGED <<config, fs, port, starts>>

-----------------------------------------------------------------------
(* The admin goroutine.  Closing a Unix listener unlinks its path,       *)
(* whoever bound it last.                                                *)

\* Accept fails for good.
AdminServeFails(d) ==
    /\ proc[d].admin = "serve"
    /\ proc' = [proc EXCEPT ![d].admin = "broken"]
    /\ UNCHANGED <<config, fs, port, starts>>

\* http.Server.Serve has closed the listener when it returns.
AdminCloses(d) ==
    /\ proc[d].admin = "broken" \/ (proc[d].admin = "serve" /\ proc[d].ctx)
    /\ fs' = [fs EXCEPT !["admin"] = "none"]
    /\ proc' = [proc EXCEPT ![d].admin = IF proc[d].ctx THEN "closed" ELSE "failed"]
    /\ UNCHANGED <<config, port, starts>>

\* cleanupEndpoint, deferred by serve: the path is removed a second time.
AdminCleanup(d) ==
    /\ proc[d].admin \in {"closed", "failed"}
    /\ fs' = [fs EXCEPT !["admin"] = "none"]
    /\ proc' = [proc EXCEPT ![d].admin = IF @ = "closed" THEN "done" ELSE "report"]
    /\ UNCHANGED <<config, port, starts>>

\* Mutation: the context is cancelled before the failure is recorded.
StopsThenReports(d) ==
    /\ \/ /\ proc[d].admin = "report"
          /\ proc' = [proc EXCEPT ![d].admin = "stop", ![d].ctx = TRUE]
       \/ /\ proc[d].admin = "stop"
          /\ proc' = [proc EXCEPT ![d].admin = "done", ![d].failure = TRUE]
    /\ UNCHANGED <<config, fs, port, starts>>

\* serve's goroutine: first the failure, then stop().
AdminReports(d) ==
    /\ \/ /\ proc[d].admin = "report"
          /\ proc' = [proc EXCEPT ![d].admin = "stop", ![d].failure = TRUE]
       \/ /\ proc[d].admin = "stop"
          /\ proc' = [proc EXCEPT ![d].admin = "done", ![d].ctx = TRUE]
    /\ UNCHANGED <<config, fs, port, starts>>

-----------------------------------------------------------------------
(* Server.Run and the end of serve.                                      *)

\* A request begins or ends; one that has begun need not end.
Serve(d) ==
    /\ proc[d].pc \in {"run", "drain"}
    /\ proc[d].pc = "drain" => proc[d].busy
    /\ proc' = [proc EXCEPT ![d].busy = ~ @]
    /\ UNCHANGED <<config, fs, port, starts>>

\* Accept of a listener fails for good: Run returns the error at once.
ServeFails(d) == proc[d].pc = "run" /\ Exit(d, "error")

\* Shutdown closes the listeners first.
Shutdown(d) ==
    /\ proc[d].pc = "run"
    /\ proc[d].ctx
    /\ fs' = [fs EXCEPT !["main"] = IF config.unix THEN "none" ELSE @]
    /\ port' = port \ {d}
    /\ proc' = [proc EXCEPT ![d].pc = "drain"]
    /\ UNCHANGED <<config, starts>>

\* Mutation: Shutdown waits for the requests without a deadline.
DrainForever(d) ==
    /\ proc[d].pc = "drain"
    /\ ~ proc[d].busy
    /\ Goto(d, "select")

\* Shutdown returns when no request is left, or with an error at its deadline.
Drain(d) ==
    /\ proc[d].pc = "drain"
    /\ \/ ~ proc[d].busy /\ Goto(d, "select")
       \/ proc[d].busy /\ Exit(d, "error")

Select(d) ==
    /\ proc[d].pc = "select"
    /\ Exit(d, IF proc[d].failure THEN "error" ELSE "ok")

-----------------------------------------------------------------------
(* The operator.                                                         *)

\* SIGINT or SIGTERM.
Signal(d) ==
    \/ /\ proc[d].pc \in Notified
       /\ ~ proc[d].told
       /\ proc' = [proc EXCEPT ![d].ctx = TRUE, ![d].told = TRUE]
       /\ UNCHANGED <<config, fs, port, starts>>
    \/ proc[d].pc \in Starting /\ Exit(d, "killed")

\* SIGKILL, a panic or a power loss.
Crash(d) == Up(d) /\ Exit(d, "killed")

StartupStep(d) ==
    \/ LoadFails(d) \/ Loaded(d) \/ ListenTCP(d)
    \/ StatMain(d) \/ RemoveMain(d) \/ ListenMain(d) \/ ChmodMain(d) \/ Notify(d)
    \/ NoAdminPath(d) \/ LstatAdmin(d) \/ DialAdmin(d) \/ RemoveAdmin(d)
    \/ ListenAdmin(d) \/ ChmodAdmin(d)
AdminStep(d) == AdminCloses(d) \/ AdminCleanup(d) \/ AdminReports(d)
RunStep(d) == Shutdown(d) \/ Drain(d) \/ Select(d)

DaemonNext ==
    \E d \in Daemon :
      \/ Start(d) \/ StartupStep(d)
      \/ AdminServeFails(d) \/ AdminStep(d)
      \/ Serve(d) \/ ServeFails(d) \/ RunStep(d)
      \/ Signal(d) \/ Crash(d)

DaemonSpec == DaemonInit /\ [][DaemonNext]_daemonVars

\* Goroutines of a process that is up are scheduled, and Shutdown's deadline passes.
Fairness ==
    \A d \in Daemon :
      WF_daemonVars(StartupStep(d)) /\ WF_daemonVars(AdminStep(d)) /\ WF_daemonVars(RunStep(d))
FairSpec == DaemonSpec /\ Fairness

-----------------------------------------------------------------------
(* Properties.                                                           *)

\* A path holds the socket of a process only while the process listens on it: closing
\* a listener removes its path, and only the end of a process leaves one behind.
SocketsLive ==
    \A d \in Daemon :
      /\ fs["main"] = d => proc[d].pc \in {"chmod", "notify"} \cup (Notified \ {"drain", "select"})
      /\ fs["admin"] = d => proc[d].pc = "adminChmod" \/ proc[d].admin \in {"serve", "broken"}
Inv == DaemonTypeOK /\ SocketsLive

\* main.go:142: credproxyd ends successfully only when a signal asked it to; the
\* failure of the admin server is never taken for one, although it stops the process
\* through the same context.
SuccessMeansTold == \A d \in Daemon : proc[d].exit = "ok" => proc[d].told

\* After any crash or exit, whatever it left in the file system, a process that is
\* started with no other around gets all its sockets; only a plain file refuses it.
LoneStartSucceeds ==
    \A d \in Daemon :
      proc[d].exit = "socket" /\ proc[d].alone => \E p \in SocketPath : fs[p] = "plain"

\* While no other process is around, the sockets of a serving process are its own.
LoneIsReachable ==
    \A d \in Daemon :
      proc[d].alone /\ proc[d].pc = "run" =>
        /\ config.unix => fs["main"] = d
        /\ config.tcp => port = {d}
        /\ proc[d].admin = "serve" => fs["admin"] = d

\* The inductive invariant.  ctx is cancelled by a signal or after the failure of the
\* admin server is in the channel.
Cause(d) ==
    /\ proc[d].ctx => proc[d].told \/ proc[d].failure
    /\ proc[d].admin = "stop" => proc[d].failure
    /\ proc[d].pc \in {"drain", "select"} => proc[d].ctx
    /\ proc[d].exit = "ok" => proc[d].told

\* The admin goroutine runs only beside Server.Run; the socket is configured where it is
\* bound; the port is held from its Listen to Shutdown.
Phase(d) ==
    /\ proc[d].pc \notin {"run", "drain", "select"} => proc[d].admin = "none"
    /\ proc[d].pc \in {"stat", "remove", "listen", "chmod"} => config.unix
    /\ fs["main"] = d => config.unix
    /\ d \in port => proc[d].pc \notin {"down", "load", "tcp", "drain", "select"}

\* A plain file was refused before anything is removed.
PastMain(d) ==
    \/ proc[d].pc \in {"remove", "listen", "chmod"}
    \/ proc[d].pc \in {"notify"} \cup Notified /\ config.unix
PastAdmin(d) ==
    proc[d].pc \in {"dial", "adminRemove", "adminListen", "adminChmod"} \/ proc[d].admin # "none"
NotPlain(d) ==
    /\ PastMain(d) => fs["main"] # "plain"
    /\ PastAdmin(d) => fs["admin"] # "plain"

\* What a process that is alone finds at each step is what it found or did before.
Undisturbed(d) ==
    /\ \A e \in Daemon : Up(e) => e = d
    /\ proc[d].pc = "listen" => fs["main"] = "none"
    /\ proc[d].pc \in {"chmod", "notify"} \cup (Notified \ {"drain", "select"}) /\ config.unix
         => fs["main"] = d
    /\ proc[d].pc \notin {"load", "tcp", "drain", "select"} /\ config.tcp => d \in port
    /\ proc[d].pc \in {"dial", "adminRemove"} => fs["admin"] = "stale"
    /\ proc[d].pc = "adminListen" => fs["admin"] = "none"
    /\ proc[d].pc = "adminChmod" \/ proc[d].admin \in {"serve", "broken"} => fs["admin"] = d
Lone(d) == Up(d) /\ proc[d].alone => Undisturbed(d)

DaemonInv ==
    /\ Inv
    /\ \A d \in Daemon : Cause(d) /\ Phase(d) /\ NotPlain(d) /\ Lone(d)
    /\ LoneStartSucceeds

\* Whatever a crash left behind, a process started alone gets its sockets and can be
\* reached on them while no other one is around; no path holds the socket of a process
\* that does not listen on it.
LoneDaemonServes == LoneStartSucceeds /\ LoneIsReachable /\ DaemonInv

\* A process is none of the other things a path may hold.
ProcessAssumption == Daemon \cap {"none", "plain", "stale"} = {} /\ MaxStarts \in Nat

\* admin/server.go:62: a daemon that has a credential store serves requests only while its
\* admin API works, or on the way down.
NotServingWithoutAdmin ==
    \A d \in Daemon :
      (proc[d].pc = "run" /\ config.store) ~>
        (proc[d].pc # "run" \/ proc[d].admin = "serve")

\* The process ends after a signal, also when a request never ends.
SignalEnds == \A d \in Daemon : (proc[d].told /\ Up(d)) ~> ~ Up(d)

\* admin/server_test.go:95 and :99: the admin socket of a running daemon is neither
\* replaced nor lost.
AdminSocketKept ==
    \A d \in Daemon :
      proc[d].pc = "run" /\ proc[d].admin = "serve" /\ ~ proc[d].ctx => fs["admin"] = d
========================================================================
