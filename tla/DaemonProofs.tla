-------------------------- MODULE DaemonProofs --------------------------
(***************************************************************************)
(* What credproxyd guarantees of itself: processes that share their        *)
(* sockets, for any number of processes and starts, the checks of its      *)
(* configuration, whatever it is, and its periodic jobs, for any number of *)
(* them and any periods.                                                   *)
(***************************************************************************)
EXTENDS Daemon, Config, Scheduler, TLAPS

\* The provers a leaf is tried with, in turn, unless it names its own.
USE SMT, Zenon, SMTT(30)

-----------------------------------------------------------------------
(* The processes.                                                        *)

\* What the invariant says of one process.
Fine(d) ==
    /\ fs["main"] = d => proc[d].pc \in {"chmod", "notify"} \cup (Notified \ {"drain", "select"})
    /\ fs["admin"] = d => proc[d].pc = "adminChmod" \/ proc[d].admin \in {"serve", "broken"}
    /\ Cause(d) /\ Phase(d) /\ NotPlain(d) /\ Lone(d)

Refused(d) ==
    proc[d].exit = "socket" /\ proc[d].alone => \E p \in SocketPath : fs[p] = "plain"

\* The invariant, process by process.
LEMMA IInvParts == DaemonInv <=> DaemonTypeOK /\ \A d \in Daemon : Fine(d) /\ Refused(d)
BY Zenon DEF DaemonInv, Inv, SocketsLive, LoneStartSucceeds, Fine, Refused

\* The initial states satisfy the invariant.
LEMMA InitIInv == ASSUME ProcessAssumption, DaemonInit PROVE DaemonInv
<1>1. DaemonTypeOK
  <2>1. Down("none", FALSE, FALSE) \in Process
    BY DEF Down, Process
  <2>2. proc \in [Daemon -> Process] /\ port \in SUBSET Daemon /\ config \in Config
    BY <2>1, Zenon DEF DaemonInit
  <2>3. fs \in [SocketPath -> Daemon \cup {"none", "plain", "stale"}]
    BY DEF DaemonInit
  <2>4. starts \in 0 .. MaxStarts
    BY DEF DaemonInit, ProcessAssumption
  <2>5. QED
    BY <2>2, <2>3, <2>4, Zenon DEF DaemonTypeOK
<1>2. ASSUME NEW d \in Daemon PROVE Fine(d) /\ Refused(d)
  <2>1. proc[d].pc = "down" /\ proc[d].admin = "none" /\ proc[d].exit = "none" /\ ~ proc[d].ctx
    BY DEF DaemonInit, Down
  <2>2. fs["main"] # d /\ fs["admin"] # d /\ d \notin port
    BY DEF DaemonInit, ProcessAssumption, SocketPath
  <2>3. QED
    BY <2>1, <2>2 DEF Fine, Refused, Cause, Phase, NotPlain, PastMain, PastAdmin, Lone, Up, Notified
<1>3. QED
  BY <1>1, <1>2, IInvParts

-----------------------------------------------------------------------
(* A step of process d, seen from the others.                             *)

\* d is up, keeps the processes' states, the port's other holders and the plain files,
\* and binds no path for anybody else.
Apart(d) ==
    /\ Up(d)
    /\ \A e \in Daemon \ {d} : proc'[e] = proc[e] /\ (e \in port' <=> e \in port)
    /\ config' = config
    /\ \A p \in SocketPath : fs'[p] = fs[p] \/ (fs[p] # "plain" /\ fs'[p] \in {"none", "stale", d})

\* A process that is alone is never another one's victim, since there is no other.
LEMMA OthersStay ==
    ASSUME ProcessAssumption, DaemonInv, NEW d \in Daemon, Apart(d), NEW e \in Daemon, e # d
    PROVE  Fine(e)' /\ Refused(e)'
<1>1. Fine(e) /\ Refused(e)
  BY IInvParts
<1>2. /\ proc'[e] = proc[e] /\ config' = config
      /\ e \in port' <=> e \in port
      /\ \A p \in SocketPath : (fs'[p] = e => fs[p] = e) /\ (fs'[p] = "plain" <=> fs[p] = "plain")
  BY DEF Apart, ProcessAssumption
<1>3. "main" \in SocketPath /\ "admin" \in SocketPath
  BY DEF SocketPath
<1>4. ~ (Up(e) /\ proc[e].alone)
  BY <1>1 DEF Fine, Lone, Undisturbed, Apart
<1>5. Lone(e)'
  BY <1>2, <1>4 DEF Lone, Up
<1>6. Cause(e)' /\ Phase(e)' /\ NotPlain(e)'
  BY <1>1, <1>2, <1>3, ZenonT(30) DEF Fine, Cause, Phase, NotPlain, PastMain, PastAdmin
<1>7. QED
  BY <1>1, <1>2, <1>3, <1>5, <1>6, Zenon DEF Fine, Refused

\* So a step preserves the invariant as soon as it does for the process that takes it.
LEMMA StepIInv ==
    ASSUME ProcessAssumption, DaemonInv, NEW d \in Daemon, Apart(d), DaemonTypeOK', Fine(d)', Refused(d)'
    PROVE  DaemonInv'
<1>1. \A e \in Daemon : Fine(e)' /\ Refused(e)'
  BY OthersStay
<1>2. QED
  BY <1>1, Zenon DEF DaemonInv, Inv, SocketsLive, LoneStartSucceeds, Fine, Refused

-----------------------------------------------------------------------
(* The end of a process.                                                  *)

\* A process may end at any time, if not unasked with success, and refused by a socket only
\* if another process was up or a plain file is in the way.
LEMMA ExitIInv ==
    ASSUME ProcessAssumption, DaemonInv, NEW d \in Daemon, Up(d),
           NEW how \in {"ok", "error", "socket", "killed"}, Exit(d, how),
           how = "ok" => proc[d].told, how = "socket" => Refused(d)'
    PROVE  DaemonInv'
<1>0. DaemonTypeOK
  BY IInvParts
<1>1. proc[d] \in Process /\ proc[d].told \in BOOLEAN /\ proc[d].alone \in BOOLEAN
  BY <1>0 DEF DaemonTypeOK, Process
<1>2. Down(how, proc[d].told, proc[d].alone) \in Process
  BY <1>1, Zenon DEF Down, Process
<1>3. proc'[d] = Down(how, proc[d].told, proc[d].alone) /\ proc' \in [Daemon -> Process]
  BY <1>0, <1>2 DEF Exit, DaemonTypeOK
<1>4. /\ proc'[d].pc = "down" /\ proc'[d].admin = "none" /\ proc'[d].exit = how
      /\ proc'[d].ctx = FALSE /\ proc'[d].told = proc[d].told /\ proc'[d].alone = proc[d].alone
  BY <1>3 DEF Down
<1>5. fs' \in [SocketPath -> Daemon \cup {"none", "plain", "stale"}] /\ DaemonTypeOK'
  BY <1>0, <1>3 DEF Exit, DaemonTypeOK
<1>6. \A p \in SocketPath : fs'[p] # d /\ (fs'[p] = fs[p] \/ (fs[p] = d /\ fs'[p] = "stale"))
  BY DEF Exit, ProcessAssumption
<1>7. Apart(d)
  <2>1. \A e \in Daemon \ {d} : proc'[e] = proc[e] /\ (e \in port' <=> e \in port)
    BY <1>0 DEF Exit, DaemonTypeOK
  <2>2. QED
    BY <1>6, <2>1 DEF Apart, Exit, ProcessAssumption
<1>8. Fine(d)'
  <2>1. fs'["main"] # d /\ fs'["admin"] # d /\ d \notin port'
    BY <1>6 DEF SocketPath, Exit
  <2>2. QED
    BY <1>4, <2>1 DEF Fine, Cause, Phase, NotPlain, PastMain, PastAdmin, Lone, Up, Notified
<1>9. Refused(d)'
  BY <1>4 DEF Refused
<1>10. QED
  BY <1>5, <1>7, <1>8, <1>9, StepIInv

-----------------------------------------------------------------------
(* The state of a process after a step that changes some of it.            *)

Steps == {"down"} \cup Starting \cup Notified

\* Of the processes only the place of d's main goroutine changes.
Kept(d) ==
    /\ \A e \in Daemon \ {d} : proc'[e] = proc[e]
    /\ proc'[d].admin = proc[d].admin /\ proc'[d].exit = proc[d].exit
    /\ proc'[d].failure = proc[d].failure /\ proc'[d].ctx = proc[d].ctx
    /\ proc'[d].told = proc[d].told /\ proc'[d].alone = proc[d].alone

\* A step that moves on.
LEMMA PcStep ==
    ASSUME DaemonTypeOK, NEW d \in Daemon, NEW label \in Steps,
           proc' = [proc EXCEPT ![d].pc = label]
    PROVE  proc' \in [Daemon -> Process] /\ proc'[d].pc = label /\ Kept(d)
<1>0. proc[d] \in Process
  BY DEF DaemonTypeOK
<1>1. [proc[d] EXCEPT !.pc = label] \in Process
  BY <1>0, Zenon DEF Process, Steps
<1>2. proc' = [proc EXCEPT ![d] = [proc[d] EXCEPT !.pc = label]]
  BY DEF DaemonTypeOK
<1>3. QED
  BY <1>1, <1>2 DEF DaemonTypeOK, Process, Kept

\* A step after which the process is still up.
LEMMA MoveIInv ==
    ASSUME ProcessAssumption, DaemonInv, NEW d \in Daemon, Apart(d), DaemonTypeOK', Fine(d)',
           proc'[d].exit = proc[d].exit, proc'[d].alone = proc[d].alone
    PROVE  DaemonInv'
<1>1. Refused(d)
  BY IInvParts
<1>2. \A p \in SocketPath : fs[p] = "plain" => fs'[p] = "plain"
  BY DEF Apart
<1>3. Refused(d)'
  BY <1>1, <1>2 DEF Refused
<1>4. QED
  BY <1>3, StepIInv

\* What the invariant asks of the process that takes a step, without Lone.
Own(d) ==
    /\ fs["main"] = d => proc[d].pc \in {"chmod", "notify"} \cup (Notified \ {"drain", "select"})
    /\ fs["admin"] = d => proc[d].pc = "adminChmod" \/ proc[d].admin \in {"serve", "broken"}
    /\ Cause(d) /\ Phase(d) /\ NotPlain(d)

\* The two parts of Fine, put together.
LEMMA FineParts ==
    ASSUME NEW d, Own(d)', (proc[d].alone => Undisturbed(d))' PROVE Fine(d)'
BY Zenon DEF Own, Fine, Lone

\* A step that only moves on disturbs nobody.
LEMMA GotoIInv ==
    ASSUME ProcessAssumption, DaemonInv, NEW d \in Daemon, Up(d), NEW label \in Steps,
           Goto(d, label),
           ASSUME proc'[d].pc = label, Kept(d), UNCHANGED <<config, fs, port>> PROVE Fine(d)'
    PROVE  DaemonInv'
<1>0. DaemonTypeOK
  BY IInvParts
<1>1. proc' = [proc EXCEPT ![d].pc = label] /\ UNCHANGED <<config, fs, port, starts>>
  BY DEF Goto
<1>2. proc' \in [Daemon -> Process] /\ proc'[d].pc = label /\ Kept(d)
  BY <1>0, <1>1, PcStep, Zenon
<1>3. DaemonTypeOK'
  BY <1>0, <1>1, <1>2, Zenon DEF DaemonTypeOK
<1>4. Apart(d) /\ proc'[d].exit = proc[d].exit /\ proc'[d].alone = proc[d].alone
  BY <1>1, <1>2, Zenon DEF Apart, Kept
<1>5. Fine(d)'
  BY <1>1, <1>2
<1>6. QED
  BY <1>3, <1>4, <1>5, MoveIInv

-----------------------------------------------------------------------
(* Startup.                                                               *)

\* The configuration, the tokens and the preload are accepted.
LEMMA LoadedIInv == ASSUME ProcessAssumption, DaemonInv, NEW d \in Daemon, Loaded(d) PROVE DaemonInv'
<1>0. DaemonTypeOK /\ Fine(d)
  BY IInvParts
<1>1. proc[d].pc = "load" /\ Goto(d, "tcp") /\ Up(d) /\ "tcp" \in Steps
  BY DEF Loaded, Up, Steps, Starting
<1>2. ASSUME proc'[d].pc = "tcp", Kept(d), UNCHANGED <<config, fs, port>> PROVE Fine(d)'
  BY <1>0, <1>1, <1>2
     DEF Kept, Fine, Cause, Phase, NotPlain, PastMain, PastAdmin, Lone, Undisturbed, Up, Notified
<1>3. QED
  BY <1>1, <1>2, GotoIInv, Zenon

\* The signal handler is installed.
LEMMA NotifyIInv == ASSUME ProcessAssumption, DaemonInv, NEW d \in Daemon, Notify(d) PROVE DaemonInv'
<1>0. DaemonTypeOK /\ Fine(d)
  BY IInvParts
<1> DEFINE label == IF config.store THEN "lstat" ELSE "run"
<1>1. proc[d].pc = "notify" /\ Goto(d, label) /\ Up(d) /\ label \in Steps
  BY DEF Notify, Up, Steps, Notified
<1>2. ASSUME proc'[d].pc = label, Kept(d), UNCHANGED <<config, fs, port>> PROVE Fine(d)'
  BY <1>0, <1>1, <1>2
     DEF Kept, Fine, Cause, Phase, NotPlain, PastMain, PastAdmin, Lone, Undisturbed, Up, Notified
<1> HIDE DEF label
<1>3. QED
  BY <1>1, <1>2, GotoIInv, Zenon

\* The TCP listener is bound, or the port is taken and startup fails.
LEMMA ListenTCPIInv == ASSUME ProcessAssumption, DaemonInv, NEW d \in Daemon, ListenTCP(d) PROVE DaemonInv'
<1>0. DaemonTypeOK /\ Fine(d)
  BY IInvParts
<1>1. proc[d].pc = "tcp" /\ Up(d)
  BY DEF ListenTCP, Up
<1>2. CASE config.tcp /\ port # {} /\ Exit(d, "socket")
  <2>1. PICK e \in port : TRUE
    BY <1>2
  <2>2. e \in Daemon /\ Fine(e) /\ e # d /\ Up(e)
    BY <1>0, <1>1, IInvParts DEF DaemonTypeOK, Fine, Phase, Up
  <2>3. ~ proc[d].alone
    BY <1>0, <1>1, <2>2 DEF Fine, Lone, Undisturbed
  <2>4. proc'[d].alone = proc[d].alone
    BY <1>0, <1>2 DEF Exit, Down, DaemonTypeOK
  <2>5. QED
    BY <1>1, <1>2, <2>3, <2>4, ExitIInv DEF Refused
<1>3. CASE /\ ~ config.tcp \/ port = {}
           /\ port' = IF config.tcp THEN {d} ELSE port
           /\ proc' = [proc EXCEPT ![d].pc = IF config.unix THEN "stat" ELSE "notify"]
           /\ UNCHANGED <<config, fs, starts>>
  <2> DEFINE label == IF config.unix THEN "stat" ELSE "notify"
  <2>1. proc' = [proc EXCEPT ![d].pc = label] /\ label \in Steps
    BY <1>3 DEF Steps, Starting
  <2>2. (config.unix => label = "stat") /\ (~ config.unix => label = "notify")
    OBVIOUS
  <2> HIDE DEF label
  <2>3. proc' \in [Daemon -> Process] /\ proc'[d].pc = label /\ Kept(d)
    BY <1>0, <2>1, PcStep, Zenon
  <2>4. port' \in SUBSET Daemon /\ \A e \in Daemon \ {d} : e \in port' <=> e \in port
    BY <1>0, <1>3 DEF DaemonTypeOK
  <2>5. DaemonTypeOK'
    BY <1>0, <1>3, <2>3, <2>4, Zenon DEF DaemonTypeOK
  <2>6. Apart(d) /\ proc'[d].exit = proc[d].exit /\ proc'[d].alone = proc[d].alone
    BY <1>1, <1>3, <2>3, <2>4, Zenon DEF Apart, Kept
  <2>7. Own(d)'
    BY <1>0, <1>1, <1>3, <2>2, <2>3
       DEF Kept, Fine, Own, Cause, Phase, NotPlain, PastMain, PastAdmin, Notified
  <2>8. (proc[d].alone => Undisturbed(d))'
    <3> SUFFICES ASSUME proc[d].alone PROVE Undisturbed(d)'
      BY <2>6
    <3>1. Undisturbed(d)
      BY <1>0, <1>1 DEF Fine, Lone
    <3>2. (\A e \in Daemon : Up(e) => e = d)'
      BY <2>3, <3>1, ZenonT(30) DEF Undisturbed, Up, Kept
    <3>3. proc'[d].admin = "none" /\ (config.tcp => d \in port')
      BY <1>0, <1>1, <1>3, <2>3 DEF Fine, Phase, Kept
    <3>4. QED
      BY <1>3, <2>2, <2>3, <3>2, <3>3 DEF Undisturbed, Notified
  <2>9. QED
    BY <2>5, <2>6, <2>7, <2>8, FineParts, MoveIInv
<1>4. QED
  BY <1>2, <1>3 DEF ListenTCP

\* The main socket's path is looked at.
LEMMA StatMainIInv == ASSUME ProcessAssumption, DaemonInv, NEW d \in Daemon, StatMain(d) PROVE DaemonInv'
<1>0. DaemonTypeOK /\ Fine(d)
  BY IInvParts
<1>1. proc[d].pc = "stat" /\ Up(d) /\ "main" \in SocketPath
  BY DEF StatMain, Up, SocketPath
<1>2. CASE fs["main"] = "plain" /\ Exit(d, "socket")
  <2>1. fs'["main"] = "plain"
    BY <1>1, <1>2 DEF Exit, ProcessAssumption
  <2>2. QED
    BY <1>1, <1>2, <2>1, ExitIInv DEF Refused
<1>3. CASE fs["main"] # "plain" /\ Goto(d, IF fs["main"] = "none" THEN "listen" ELSE "remove")
  <2> DEFINE label == IF fs["main"] = "none" THEN "listen" ELSE "remove"
  <2>1. Goto(d, label) /\ label \in Steps
    BY <1>3 DEF Steps, Starting
  <2>2. label \in {"listen", "remove"} /\ (label = "listen" => fs["main"] = "none")
    OBVIOUS
  <2> HIDE DEF label
  <2>3. ASSUME proc'[d].pc = label, Kept(d), UNCHANGED <<config, fs, port>> PROVE Fine(d)'
    BY <1>0, <1>1, <1>3, <2>2, <2>3
       DEF Kept, Fine, Cause, Phase, NotPlain, PastMain, PastAdmin, Lone, Undisturbed, Up, Notified
  <2>4. QED
    BY <1>1, <2>1, <2>3, GotoIInv, Zenon
<1>4. QED
  BY <1>2, <1>3 DEF StatMain

\* Removed, which both sockets share: of what is not a plain file.
LEMMA RemovedIInv ==
    ASSUME ProcessAssumption, DaemonInv, NEW d \in Daemon, Up(d), NEW p \in SocketPath,
           NEW next \in Steps, Removed(d, p, next), fs[p] # "plain",
           ASSUME proc'[d].pc = next, Kept(d), UNCHANGED <<config, port>>, fs'[p] = "none",
                  \A q \in SocketPath \ {p} : fs'[q] = fs[q]
           PROVE  Fine(d)'
    PROVE  DaemonInv'
<1>0. DaemonTypeOK
  BY IInvParts
<1>1. proc' \in [Daemon -> Process] /\ proc'[d].pc = next /\ Kept(d)
  BY <1>0, PcStep, Zenon DEF Removed
<1>2. UNCHANGED <<config, port, starts>> /\ fs' = [fs EXCEPT ![p] = "none"]
  BY DEF Removed
<1>3. /\ fs' \in [SocketPath -> Daemon \cup {"none", "plain", "stale"}]
      /\ fs'[p] = "none" /\ \A q \in SocketPath \ {p} : fs'[q] = fs[q]
  BY <1>0, <1>2 DEF DaemonTypeOK
<1>4. DaemonTypeOK'
  BY <1>0, <1>1, <1>2, <1>3, Zenon DEF DaemonTypeOK
<1>5. Apart(d) /\ proc'[d].exit = proc[d].exit /\ proc'[d].alone = proc[d].alone
  BY <1>1, <1>2, <1>3 DEF Apart, Kept
<1>6. Fine(d)'
  BY <1>1, <1>2, <1>3
<1>7. QED
  BY <1>4, <1>5, <1>6, MoveIInv

\* A stale main socket is removed.
LEMMA RemoveMainIInv ==
    ASSUME ProcessAssumption, DaemonInv, NEW d \in Daemon, RemoveMain(d) PROVE DaemonInv'
<1>0. DaemonTypeOK /\ Fine(d)
  BY IInvParts
<1>1. proc[d].pc = "remove" /\ Up(d) /\ "listen" \in Steps /\ "main" \in SocketPath
  BY DEF RemoveMain, Up, Steps, Starting, SocketPath
<1>2. fs["main"] # "plain"
  BY <1>0, <1>1 DEF Fine, NotPlain, PastMain
<1>3. ASSUME proc'[d].pc = "listen", Kept(d), UNCHANGED <<config, port>>, fs'["main"] = "none",
             \A q \in SocketPath \ {"main"} : fs'[q] = fs[q]
      PROVE  Fine(d)'
  <2>1. fs'["admin"] = fs["admin"] /\ fs'["main"] # d
    BY <1>3 DEF SocketPath, ProcessAssumption
  <2>2. QED
    BY <1>0, <1>1, <1>3, <2>1
       DEF Kept, Fine, Cause, Phase, NotPlain, PastMain, PastAdmin, Lone, Undisturbed, Up, Notified
<1>4. QED
  BY <1>1, <1>2, <1>3, RemovedIInv, Zenon DEF RemoveMain

\* Bind, which both sockets share: it fails only where a path is taken.
LEMMA BindIInv ==
    ASSUME ProcessAssumption, DaemonInv, NEW d \in Daemon, Up(d), NEW p \in SocketPath,
           NEW next \in Steps, Bind(d, p, next), proc[d].alone => fs[p] = "none",
           ASSUME proc'[d].pc = next, Kept(d), UNCHANGED <<config, port>>, fs'[p] = d,
                  \A q \in SocketPath \ {p} : fs'[q] = fs[q]
           PROVE  Fine(d)'
    PROVE  DaemonInv'
<1>0. DaemonTypeOK
  BY IInvParts
<1>1. CASE fs[p] # "none" /\ Exit(d, "socket")
  <2>1. proc'[d].alone = proc[d].alone
    BY <1>0, <1>1 DEF Exit, Down, DaemonTypeOK
  <2>2. QED
    BY <1>1, <2>1, ExitIInv DEF Refused
<1>2. CASE /\ fs[p] = "none"
           /\ fs' = [fs EXCEPT ![p] = d]
           /\ proc' = [proc EXCEPT ![d].pc = next]
           /\ UNCHANGED <<config, port, starts>>
  <2>1. proc' \in [Daemon -> Process] /\ proc'[d].pc = next /\ Kept(d)
    BY <1>0, <1>2, PcStep, Zenon
  <2>2. /\ fs' \in [SocketPath -> Daemon \cup {"none", "plain", "stale"}]
        /\ fs'[p] = d /\ \A q \in SocketPath \ {p} : fs'[q] = fs[q]
    BY <1>0, <1>2 DEF DaemonTypeOK
  <2>3. DaemonTypeOK'
    BY <1>0, <1>2, <2>1, <2>2, Zenon DEF DaemonTypeOK
  <2>4. Apart(d) /\ proc'[d].exit = proc[d].exit /\ proc'[d].alone = proc[d].alone
    BY <1>2, <2>1, <2>2 DEF Apart, Kept
  <2>5. Fine(d)'
    BY <1>2, <2>1, <2>2
  <2>6. QED
    BY <2>3, <2>4, <2>5, MoveIInv
<1>3. QED
  BY <1>1, <1>2 DEF Bind

\* The main socket is bound.
LEMMA ListenMainIInv ==
    ASSUME ProcessAssumption, DaemonInv, NEW d \in Daemon, ListenMain(d) PROVE DaemonInv'
<1>0. DaemonTypeOK /\ Fine(d)
  BY IInvParts
<1>1. proc[d].pc = "listen" /\ Up(d) /\ "chmod" \in Steps /\ "main" \in SocketPath
  BY DEF ListenMain, Up, Steps, Starting, SocketPath
<1>2. proc[d].alone => fs["main"] = "none"
  BY <1>0, <1>1, ZenonT(30) DEF Fine, Lone, Undisturbed
<1>3. ASSUME proc'[d].pc = "chmod", Kept(d), UNCHANGED <<config, port>>, fs'["main"] = d,
             \A q \in SocketPath \ {"main"} : fs'[q] = fs[q]
      PROVE  Fine(d)'
  <2>1. fs'["admin"] = fs["admin"] /\ fs'["main"] # "plain"
    BY <1>3 DEF SocketPath, ProcessAssumption
  <2>2. QED
    BY <1>0, <1>1, <1>3, <2>1
       DEF Kept, Fine, Cause, Phase, NotPlain, PastMain, PastAdmin, Lone, Undisturbed, Up, Notified
<1>4. QED
  BY <1>1, <1>2, <1>3, BindIInv, Zenon DEF ListenMain

\* The main socket gets its mode, or its path is gone and startup fails.
LEMMA ChmodMainIInv ==
    ASSUME ProcessAssumption, DaemonInv, NEW d \in Daemon, ChmodMain(d) PROVE DaemonInv'
<1>0. DaemonTypeOK /\ Fine(d)
  BY IInvParts
<1>1. proc[d].pc = "chmod" /\ Up(d) /\ "notify" \in Steps
  BY DEF ChmodMain, Up, Steps, Starting
<1>2. CASE fs["main"] = "none" /\ Exit(d, "socket")
  <2>1. ~ proc[d].alone
    BY <1>0, <1>1, <1>2 DEF Fine, Phase, Lone, Undisturbed, ProcessAssumption
  <2>2. proc'[d].alone = proc[d].alone
    BY <1>0, <1>2 DEF Exit, Down, DaemonTypeOK
  <2>3. QED
    BY <1>1, <1>2, <2>1, <2>2, ExitIInv DEF Refused
<1>3. CASE Goto(d, "notify")
  <2>1. ASSUME proc'[d].pc = "notify", Kept(d), UNCHANGED <<config, fs, port>> PROVE Fine(d)'
    BY <1>0, <1>1, <2>1
       DEF Kept, Fine, Cause, Phase, NotPlain, PastMain, PastAdmin, Lone, Undisturbed, Up, Notified
  <2>2. QED
    BY <1>1, <1>3, <2>1, GotoIInv, ZenonT(30)
<1>4. QED
  BY <1>2, <1>3 DEF ChmodMain

\* The admin socket's path is looked at.
LEMMA LstatAdminIInv ==
    ASSUME ProcessAssumption, DaemonInv, NEW d \in Daemon, LstatAdmin(d) PROVE DaemonInv'
<1>0. DaemonTypeOK /\ Fine(d)
  BY IInvParts
<1>1. proc[d].pc = "lstat" /\ Up(d) /\ "admin" \in SocketPath
  BY DEF LstatAdmin, Up, SocketPath
<1>2. CASE fs["admin"] = "plain" /\ Exit(d, "socket")
  <2>1. fs'["admin"] = "plain"
    BY <1>1, <1>2 DEF Exit, ProcessAssumption
  <2>2. QED
    BY <1>1, <1>2, <2>1, ExitIInv DEF Refused
<1>3. CASE fs["admin"] # "plain" /\ Goto(d, IF fs["admin"] = "none" THEN "adminListen" ELSE "dial")
  <2> DEFINE label == IF fs["admin"] = "none" THEN "adminListen" ELSE "dial"
  <2>1. Goto(d, label) /\ label \in Steps
    BY <1>3 DEF Steps, Notified
  <2>2. /\ label \in {"adminListen", "dial"}
        /\ label = "adminListen" => fs["admin"] = "none"
        /\ label = "dial" => fs["admin"] # "none"
    OBVIOUS
  <2> HIDE DEF label
  \* A process that is alone finds nobody listening on the path.
  <2>3. proc[d].alone => fs["admin"] \notin Daemon
    <3> SUFFICES ASSUME proc[d].alone, fs["admin"] \in Daemon PROVE FALSE
      OBVIOUS
    <3>1. Fine(fs["admin"])
      BY IInvParts
    <3>2. Up(fs["admin"])
      BY <3>1 DEF Fine, Phase, Up
    <3>3. fs["admin"] = d
      BY <1>0, <1>1, <3>2 DEF Fine, Lone, Undisturbed
    <3>4. QED
      BY <1>0, <1>1, <3>3 DEF Fine, Phase
  <2>4. proc[d].alone => fs["admin"] \in {"none", "stale"}
    BY <1>0, <1>1, <1>3, <2>3 DEF DaemonTypeOK
  <2>5. ASSUME proc'[d].pc = label, Kept(d), UNCHANGED <<config, fs, port>> PROVE Fine(d)'
    <3>1. Own(d)'
      BY <1>0, <1>1, <1>3, <2>2, <2>5
         DEF Kept, Own, Fine, Cause, Phase, NotPlain, PastMain, PastAdmin, Notified
    <3>2. (proc[d].alone => Undisturbed(d))'
      BY <1>0, <1>1, <2>2, <2>4, <2>5 DEF Kept, Fine, Phase, Lone, Undisturbed, Up, Notified
    <3>3. QED
      BY <3>1, <3>2, FineParts
  <2>6. QED
    BY <1>1, <2>1, <2>5, GotoIInv, Zenon
<1>4. QED
  BY <1>2, <1>3 DEF LstatAdmin

\* Whether someone answers on the admin socket.
LEMMA DialAdminIInv ==
    ASSUME ProcessAssumption, DaemonInv, NEW d \in Daemon, DialAdmin(d) PROVE DaemonInv'
<1>0. DaemonTypeOK /\ Fine(d)
  BY IInvParts
<1>1. proc[d].pc = "dial" /\ Up(d) /\ "adminRemove" \in Steps
  BY DEF DialAdmin, Up, Steps, Notified
<1>2. CASE fs["admin"] # "stale" /\ Exit(d, "socket")
  <2>1. ~ proc[d].alone
    BY <1>0, <1>1, <1>2 DEF Fine, Lone, Undisturbed
  <2>2. proc'[d].alone = proc[d].alone
    BY <1>0, <1>2 DEF Exit, Down, DaemonTypeOK
  <2>3. QED
    BY <1>1, <1>2, <2>1, <2>2, ExitIInv, ZenonT(30) DEF Refused
<1>3. CASE fs["admin"] = "stale" /\ Goto(d, "adminRemove")
  <2>1. ASSUME proc'[d].pc = "adminRemove", Kept(d), UNCHANGED <<config, fs, port>>
        PROVE  Fine(d)'
    BY <1>0, <1>1, <1>3, <2>1, ZenonT(30)
       DEF Kept, Fine, Cause, Phase, NotPlain, PastMain, PastAdmin, Lone, Undisturbed, Up, Notified
  <2>2. QED
    BY <1>1, <1>3, <2>1, GotoIInv, ZenonT(30)
<1>4. QED
  BY <1>2, <1>3 DEF DialAdmin

\* An admin socket nobody answers on is removed.
LEMMA RemoveAdminIInv ==
    ASSUME ProcessAssumption, DaemonInv, NEW d \in Daemon, RemoveAdmin(d) PROVE DaemonInv'
<1>0. DaemonTypeOK /\ Fine(d)
  BY IInvParts
<1>1. proc[d].pc = "adminRemove" /\ Up(d) /\ "adminListen" \in Steps /\ "admin" \in SocketPath
  BY DEF RemoveAdmin, Up, Steps, Notified, SocketPath
<1>2. CASE fs["admin"] = "none" /\ Exit(d, "socket")
  <2>1. ~ proc[d].alone
    BY <1>0, <1>1, <1>2 DEF Fine, Lone, Undisturbed
  <2>2. proc'[d].alone = proc[d].alone
    BY <1>0, <1>2 DEF Exit, Down, DaemonTypeOK
  <2>3. QED
    BY <1>1, <1>2, <2>1, <2>2, ExitIInv DEF Refused
<1>3. CASE fs["admin"] # "none" /\ Removed(d, "admin", "adminListen")
  <2>1. fs["admin"] # "plain"
    BY <1>0, <1>1 DEF Fine, NotPlain, PastAdmin
  <2>2. ASSUME proc'[d].pc = "adminListen", Kept(d), UNCHANGED <<config, port>>,
               fs'["admin"] = "none", \A q \in SocketPath \ {"admin"} : fs'[q] = fs[q]
        PROVE  Fine(d)'
    <3>1. fs'["main"] = fs["main"] /\ fs'["admin"] # d
      BY <2>2 DEF SocketPath, ProcessAssumption
    <3>2. QED
      BY <1>0, <1>1, <2>2, <3>1
         DEF Kept, Fine, Cause, Phase, NotPlain, PastMain, PastAdmin, Lone, Undisturbed, Up, Notified
  <2>3. QED
    BY <1>1, <1>3, <2>1, <2>2, RemovedIInv, Zenon
<1>4. QED
  BY <1>2, <1>3 DEF RemoveAdmin

\* The admin socket is bound.
LEMMA ListenAdminIInv ==
    ASSUME ProcessAssumption, DaemonInv, NEW d \in Daemon, ListenAdmin(d) PROVE DaemonInv'
<1>0. DaemonTypeOK /\ Fine(d)
  BY IInvParts
<1>1. proc[d].pc = "adminListen" /\ Up(d) /\ "adminChmod" \in Steps /\ "admin" \in SocketPath
  BY DEF ListenAdmin, Up, Steps, Notified, SocketPath
<1>2. proc[d].alone => fs["admin"] = "none"
  BY <1>0, <1>1, ZenonT(30) DEF Fine, Lone, Undisturbed
<1>3. ASSUME proc'[d].pc = "adminChmod", Kept(d), UNCHANGED <<config, port>>, fs'["admin"] = d,
             \A q \in SocketPath \ {"admin"} : fs'[q] = fs[q]
      PROVE  Fine(d)'
  <2>1. fs'["main"] = fs["main"] /\ fs'["admin"] # "plain"
    BY <1>3 DEF SocketPath, ProcessAssumption
  <2>2. QED
    BY <1>0, <1>1, <1>3, <2>1
       DEF Kept, Fine, Cause, Phase, NotPlain, PastMain, PastAdmin, Lone, Undisturbed, Up, Notified
<1>4. QED
  BY <1>1, <1>2, <1>3, BindIInv, Zenon DEF ListenAdmin

\* The admin socket gets its mode.
LEMMA ChmodAdminIInv ==
    ASSUME ProcessAssumption, DaemonInv, NEW d \in Daemon, ChmodAdmin(d) PROVE DaemonInv'
<1>0. DaemonTypeOK /\ Fine(d) /\ proc[d] \in Process
  BY IInvParts DEF DaemonTypeOK
<1>1. proc[d].pc = "adminChmod" /\ Up(d) /\ "run" \in Steps
  BY DEF ChmodAdmin, Up, Steps, Notified
<1>2. CASE fs["admin"] = "none" /\ Exit(d, "socket")
  <2>1. ~ proc[d].alone
    BY <1>0, <1>1, <1>2 DEF Fine, Lone, Undisturbed, ProcessAssumption
  <2>2. proc'[d].alone = proc[d].alone
    BY <1>0, <1>2 DEF Exit, Down, DaemonTypeOK
  <2>3. QED
    BY <1>1, <1>2, <2>1, <2>2, ExitIInv DEF Refused
<1>3. CASE /\ fs["admin"] # "none"
           /\ proc' = [proc EXCEPT ![d].pc = "run", ![d].admin = "serve"]
           /\ UNCHANGED <<config, fs, port, starts>>
  <2>1. [proc[d] EXCEPT !.pc = "run", !.admin = "serve"] \in Process
    BY <1>0, <1>1, Zenon DEF Process, Steps
  <2>2. proc' = [proc EXCEPT ![d] = [proc[d] EXCEPT !.pc = "run", !.admin = "serve"]]
    BY <1>3, Zenon
  <2>3. /\ proc' \in [Daemon -> Process]
        /\ \A e \in Daemon \ {d} : proc'[e] = proc[e]
        /\ proc'[d].pc = "run" /\ proc'[d].admin = "serve" /\ proc'[d].exit = proc[d].exit
        /\ proc'[d].failure = proc[d].failure /\ proc'[d].ctx = proc[d].ctx
        /\ proc'[d].told = proc[d].told /\ proc'[d].alone = proc[d].alone
    BY <1>0, <2>1, <2>2 DEF DaemonTypeOK, Process
  <2>4. DaemonTypeOK'
    BY <1>0, <1>3, <2>3, Zenon DEF DaemonTypeOK
  <2>5. Apart(d)
    BY <1>1, <1>3, <2>3, Zenon DEF Apart
  <2>6. Fine(d)'
    BY <1>0, <1>1, <1>3, <2>3
       DEF Fine, Cause, Phase, NotPlain, PastMain, PastAdmin, Lone, Undisturbed, Up, Notified
  <2>7. QED
    BY <2>3, <2>4, <2>5, <2>6, MoveIInv
<1>4. QED
  BY <1>2, <1>3 DEF ChmodAdmin

-----------------------------------------------------------------------
(* The admin goroutine, requests and signals.                             *)

\* What these steps leave as it is.
Beside(d) ==
    /\ \A e \in Daemon \ {d} : proc'[e] = proc[e]
    /\ proc'[d].pc = proc[d].pc /\ proc'[d].exit = proc[d].exit
    /\ proc'[d].alone = proc[d].alone
    /\ UNCHANGED <<config, port, starts>>

\* A step beside the main goroutine that at most empties the admin path.
LEMMA BesideIInv ==
    ASSUME ProcessAssumption, DaemonInv, NEW d \in Daemon, Up(d), Beside(d),
           proc' \in [Daemon -> Process],
           fs' = fs \/ (fs' = [fs EXCEPT !["admin"] = "none"] /\ fs["admin"] # "plain"),
           ASSUME fs'["main"] = fs["main"],
                  fs'["admin"] = fs["admin"] \/ (fs' # fs /\ fs'["admin"] = "none")
           PROVE  Fine(d)'
    PROVE  DaemonInv'
<1>0. DaemonTypeOK
  BY IInvParts
<1>1. /\ fs' \in [SocketPath -> Daemon \cup {"none", "plain", "stale"}]
      /\ fs'["main"] = fs["main"]
      /\ fs'["admin"] = fs["admin"] \/ (fs' # fs /\ fs["admin"] # "plain" /\ fs'["admin"] = "none")
  BY <1>0 DEF DaemonTypeOK, SocketPath
<1>2. DaemonTypeOK'
  BY <1>0, <1>1, Zenon DEF DaemonTypeOK, Beside
<1>3. Apart(d)
  BY <1>1 DEF Apart, Beside, SocketPath
<1>4. Fine(d)'
  BY <1>1
<1>5. QED
  BY <1>2, <1>3, <1>4, MoveIInv DEF Beside

\* Accept on the admin socket fails for good.
LEMMA AdminServeFailsIInv ==
    ASSUME ProcessAssumption, DaemonInv, NEW d \in Daemon, AdminServeFails(d) PROVE DaemonInv'
<1>0. DaemonTypeOK /\ Fine(d) /\ proc[d] \in Process
  BY IInvParts DEF DaemonTypeOK
<1>1. proc[d].admin = "serve" /\ Up(d)
  BY <1>0 DEF AdminServeFails, Fine, Phase, Up
<1>2. /\ proc' = [proc EXCEPT ![d].admin = "broken"]
      /\ UNCHANGED <<config, fs, port, starts>>
  BY DEF AdminServeFails
<1>3. [proc[d] EXCEPT !.admin = "broken"] \in Process
  BY <1>0, Zenon DEF Process
<1>4. /\ proc' \in [Daemon -> Process] /\ Beside(d)
      /\ proc'[d].admin = "broken" /\ proc'[d].failure = proc[d].failure
      /\ proc'[d].ctx = proc[d].ctx /\ proc'[d].told = proc[d].told
  BY <1>0, <1>2, <1>3 DEF DaemonTypeOK, Process, Beside
<1>5. Fine(d)'
  BY <1>0, <1>1, <1>2, <1>4
     DEF Beside, Fine, Cause, Phase, NotPlain, PastMain, PastAdmin, Lone, Undisturbed, Up, Notified
<1>6. QED
  BY <1>1, <1>2, <1>4, <1>5, BesideIInv, Zenon

\* The admin server's listener is closed, which unlinks the path.
LEMMA AdminClosesIInv ==
    ASSUME ProcessAssumption, DaemonInv, NEW d \in Daemon, AdminCloses(d) PROVE DaemonInv'
<1>0. DaemonTypeOK /\ Fine(d) /\ proc[d] \in Process
  BY IInvParts DEF DaemonTypeOK
<1>1. proc[d].admin \in {"broken", "serve"} /\ Up(d)
  BY <1>0 DEF AdminCloses, Fine, Phase, Up
<1> DEFINE next == IF proc[d].ctx THEN "closed" ELSE "failed"
<1>2. /\ proc' = [proc EXCEPT ![d].admin = next]
      /\ fs' = [fs EXCEPT !["admin"] = "none"]
      /\ UNCHANGED <<config, port, starts>>
  BY DEF AdminCloses
<1>3. next \in {"closed", "failed"}
  OBVIOUS
<1> HIDE DEF next
<1>4. [proc[d] EXCEPT !.admin = next] \in Process
  BY <1>0, <1>3, Zenon DEF Process
<1>5. /\ proc' \in [Daemon -> Process] /\ Beside(d)
      /\ proc'[d].admin = next /\ proc'[d].failure = proc[d].failure
      /\ proc'[d].ctx = proc[d].ctx /\ proc'[d].told = proc[d].told
  BY <1>0, <1>2, <1>4 DEF DaemonTypeOK, Process, Beside
<1>6. fs["admin"] # "plain" /\ fs'["main"] = fs["main"] /\ fs'["admin"] = "none" /\ d # "none"
  BY <1>0, <1>1, <1>2, ZenonT(30) DEF Fine, NotPlain, PastAdmin, DaemonTypeOK, SocketPath, ProcessAssumption
<1>7. Fine(d)'
  BY <1>0, <1>1, <1>3, <1>5, <1>6
     DEF Beside, Fine, Cause, Phase, NotPlain, PastMain, PastAdmin, Lone, Undisturbed, Up, Notified
<1>8. QED
  BY <1>1, <1>2, <1>5, <1>6, <1>7, BesideIInv, Zenon

\* cleanupEndpoint removes the path a second time.
LEMMA AdminCleanupIInv ==
    ASSUME ProcessAssumption, DaemonInv, NEW d \in Daemon, AdminCleanup(d) PROVE DaemonInv'
<1>0. DaemonTypeOK /\ Fine(d) /\ proc[d] \in Process
  BY IInvParts DEF DaemonTypeOK
<1>1. proc[d].admin \in {"closed", "failed"} /\ Up(d)
  BY <1>0 DEF AdminCleanup, Fine, Phase, Up
<1> DEFINE next == IF proc[d].admin = "closed" THEN "done" ELSE "report"
<1>2. /\ proc' = [proc EXCEPT ![d].admin = next]
      /\ fs' = [fs EXCEPT !["admin"] = "none"]
      /\ UNCHANGED <<config, port, starts>>
  BY <1>0 DEF AdminCleanup, DaemonTypeOK
<1>3. next \in {"done", "report"}
  OBVIOUS
<1> HIDE DEF next
<1>4. [proc[d] EXCEPT !.admin = next] \in Process
  BY <1>0, <1>3, Zenon DEF Process
<1>5. /\ proc' \in [Daemon -> Process] /\ Beside(d)
      /\ proc'[d].admin = next /\ proc'[d].failure = proc[d].failure
      /\ proc'[d].ctx = proc[d].ctx /\ proc'[d].told = proc[d].told
  BY <1>0, <1>2, <1>4 DEF DaemonTypeOK, Process, Beside
<1>6. fs["admin"] # "plain" /\ fs'["main"] = fs["main"] /\ fs'["admin"] = "none" /\ d # "none"
  BY <1>0, <1>1, <1>2, ZenonT(30) DEF Fine, NotPlain, PastAdmin, DaemonTypeOK, SocketPath, ProcessAssumption
<1>7. Fine(d)'
  BY <1>0, <1>1, <1>3, <1>5, <1>6
     DEF Beside, Fine, Cause, Phase, NotPlain, PastMain, PastAdmin, Lone, Undisturbed, Up, Notified
<1>8. QED
  BY <1>1, <1>2, <1>5, <1>6, <1>7, BesideIInv, Zenon

\* The failure is in the channel before the context is cancelled.
LEMMA AdminReportsIInv ==
    ASSUME ProcessAssumption, DaemonInv, NEW d \in Daemon, AdminReports(d) PROVE DaemonInv'
<1>0. DaemonTypeOK /\ Fine(d) /\ proc[d] \in Process
  BY IInvParts DEF DaemonTypeOK
<1>1. proc[d].admin \in {"report", "stop"} /\ Up(d)
  BY <1>0 DEF AdminReports, Fine, Phase, Up
<1>2. UNCHANGED <<config, fs, port, starts>>
  BY DEF AdminReports
<1>3. CASE /\ proc[d].admin = "report"
           /\ proc' = [proc EXCEPT ![d].admin = "stop", ![d].failure = TRUE]
  <2>1. [proc[d] EXCEPT !.admin = "stop", !.failure = TRUE] \in Process
    BY <1>0, Zenon DEF Process
  <2>2. /\ proc' \in [Daemon -> Process] /\ Beside(d)
        /\ proc'[d].admin = "stop" /\ proc'[d].failure = TRUE
        /\ proc'[d].ctx = proc[d].ctx /\ proc'[d].told = proc[d].told
    BY <1>0, <1>2, <1>3, <2>1 DEF DaemonTypeOK, Process, Beside
  <2>3. Fine(d)'
    BY <1>0, <1>2, <1>3, <2>2
       DEF Beside, Fine, Cause, Phase, NotPlain, PastMain, PastAdmin, Lone, Undisturbed, Up, Notified
  <2>4. QED
    BY <1>1, <1>2, <2>2, <2>3, BesideIInv, Zenon
<1>4. CASE /\ proc[d].admin = "stop"
           /\ proc' = [proc EXCEPT ![d].admin = "done", ![d].ctx = TRUE]
  <2>1. [proc[d] EXCEPT !.admin = "done", !.ctx = TRUE] \in Process
    BY <1>0, Zenon DEF Process
  <2>2. /\ proc' \in [Daemon -> Process] /\ Beside(d)
        /\ proc'[d].admin = "done" /\ proc'[d].failure = proc[d].failure
        /\ proc'[d].ctx = TRUE /\ proc'[d].told = proc[d].told
    BY <1>0, <1>2, <1>4, <2>1 DEF DaemonTypeOK, Process, Beside
  <2>3. Fine(d)'
    BY <1>0, <1>2, <1>4, <2>2
       DEF Beside, Fine, Cause, Phase, NotPlain, PastMain, PastAdmin, Lone, Undisturbed, Up, Notified
  <2>4. QED
    BY <1>1, <1>2, <2>2, <2>3, BesideIInv, Zenon
<1>5. QED
  BY <1>3, <1>4 DEF AdminReports

\* A request begins or ends.
LEMMA ServeIInv == ASSUME ProcessAssumption, DaemonInv, NEW d \in Daemon, Serve(d) PROVE DaemonInv'
<1>0. DaemonTypeOK /\ Fine(d) /\ proc[d] \in Process
  BY IInvParts DEF DaemonTypeOK
<1>1. Up(d) /\ UNCHANGED <<config, fs, port, starts>> /\ proc' = [proc EXCEPT ![d].busy = ~ @]
  BY DEF Serve, Up
<1>2. [proc[d] EXCEPT !.busy = ~ @] \in Process
  BY <1>0, Zenon DEF Process
<1>3. /\ proc' \in [Daemon -> Process] /\ Beside(d)
      /\ proc'[d].admin = proc[d].admin /\ proc'[d].failure = proc[d].failure
      /\ proc'[d].ctx = proc[d].ctx /\ proc'[d].told = proc[d].told
  BY <1>0, <1>1, <1>2 DEF DaemonTypeOK, Process, Beside
<1>4. Fine(d)'
  BY <1>0, <1>1, <1>3
     DEF Beside, Fine, Cause, Phase, NotPlain, PastMain, PastAdmin, Lone, Undisturbed, Up
<1>5. QED
  BY <1>1, <1>3, <1>4, BesideIInv, Zenon

\* A signal before NotifyContext kills the process, one after it is remembered.
LEMMA SignalIInv == ASSUME ProcessAssumption, DaemonInv, NEW d \in Daemon, Signal(d) PROVE DaemonInv'
<1>0. DaemonTypeOK /\ Fine(d) /\ proc[d] \in Process
  BY IInvParts DEF DaemonTypeOK
<1>1. Up(d)
  BY DEF Signal, Up, Starting, Notified
<1>2. CASE proc[d].pc \in Starting /\ Exit(d, "killed")
  BY <1>1, <1>2, ExitIInv
<1>3. CASE /\ proc' = [proc EXCEPT ![d].ctx = TRUE, ![d].told = TRUE]
           /\ UNCHANGED <<config, fs, port, starts>>
  <2>1. [proc[d] EXCEPT !.ctx = TRUE, !.told = TRUE] \in Process
    BY <1>0, Zenon DEF Process
  <2>2. /\ proc' \in [Daemon -> Process] /\ Beside(d)
        /\ proc'[d].admin = proc[d].admin /\ proc'[d].failure = proc[d].failure
        /\ proc'[d].ctx = TRUE /\ proc'[d].told = TRUE
    BY <1>0, <1>3, <2>1 DEF DaemonTypeOK, Process, Beside
  <2>3. Fine(d)'
    BY <1>0, <1>3, <2>2
       DEF Beside, Fine, Cause, Phase, NotPlain, PastMain, PastAdmin, Lone, Undisturbed, Up
  <2>4. QED
    BY <1>1, <1>3, <2>2, <2>3, BesideIInv, Zenon
<1>4. QED
  BY <1>2, <1>3, Zenon DEF Signal

-----------------------------------------------------------------------
(* Server.Run and the end of serve.                                        *)

\* The context is cancelled: the main listeners are closed.
LEMMA ShutdownIInv == ASSUME ProcessAssumption, DaemonInv, NEW d \in Daemon, Shutdown(d) PROVE DaemonInv'
<1>0. DaemonTypeOK /\ Fine(d)
  BY IInvParts
<1>1. proc[d].pc = "run" /\ proc[d].ctx /\ Up(d) /\ "drain" \in Steps
  BY DEF Shutdown, Up, Steps, Notified
<1>2. /\ fs' = [fs EXCEPT !["main"] = IF config.unix THEN "none" ELSE fs["main"]]
      /\ port' = port \ {d} /\ UNCHANGED <<config, starts>>
  BY <1>0 DEF Shutdown, DaemonTypeOK, SocketPath
<1>3. proc' \in [Daemon -> Process] /\ proc'[d].pc = "drain" /\ Kept(d)
  BY <1>0, <1>1, PcStep, Zenon DEF Shutdown
<1>4. /\ fs' \in [SocketPath -> Daemon \cup {"none", "plain", "stale"}]
      /\ fs'["admin"] = fs["admin"]
      /\ config.unix => fs'["main"] = "none" /\ fs["main"] # "plain"
      /\ ~ config.unix => fs'["main"] = fs["main"]
  BY <1>0, <1>1, <1>2 DEF DaemonTypeOK, SocketPath, Fine, NotPlain, PastMain, Notified
<1>5. port' \in SUBSET Daemon /\ d \notin port' /\ \A e \in Daemon \ {d} : e \in port' <=> e \in port
  BY <1>0, <1>2 DEF DaemonTypeOK
<1>6. DaemonTypeOK'
  BY <1>0, <1>2, <1>3, <1>4, <1>5, ZenonT(30) DEF DaemonTypeOK
<1>7. Apart(d) /\ proc'[d].exit = proc[d].exit /\ proc'[d].alone = proc[d].alone
  BY <1>1, <1>2, <1>3, <1>4, <1>5 DEF Apart, Kept, SocketPath
<1>8. Own(d)'
  BY <1>0, <1>1, <1>2, <1>3, <1>4, <1>5
     DEF Kept, Fine, Own, Cause, Phase, NotPlain, PastMain, PastAdmin, Notified, ProcessAssumption
<1>9. (proc[d].alone => Undisturbed(d))'
  BY <1>0, <1>1, <1>3, <1>4 DEF Kept, Fine, Lone, Undisturbed, Up
<1>10. QED
  BY <1>6, <1>7, <1>8, <1>9, FineParts, MoveIInv

\* Shutdown returns, at its deadline if a request is left.
LEMMA DrainIInv == ASSUME ProcessAssumption, DaemonInv, NEW d \in Daemon, Drain(d) PROVE DaemonInv'
<1>0. DaemonTypeOK /\ Fine(d)
  BY IInvParts
<1>1. proc[d].pc = "drain" /\ Up(d) /\ "select" \in Steps
  BY DEF Drain, Up, Steps, Notified
<1>2. CASE Exit(d, "error")
  BY <1>1, <1>2, ExitIInv
<1>3. CASE Goto(d, "select")
  <2>1. ASSUME proc'[d].pc = "select", Kept(d), UNCHANGED <<config, fs, port>> PROVE Fine(d)'
    BY <1>0, <1>1, <2>1
       DEF Kept, Fine, Cause, Phase, NotPlain, PastMain, PastAdmin, Lone, Undisturbed, Up, Notified
  <2>2. QED
    BY <1>1, <1>3, <2>1, GotoIInv, ZenonT(30)
<1>4. QED
  BY <1>2, <1>3 DEF Drain

\* Run returns without an error, and nothing in the channel: a signal was the cause.
LEMMA SelectIInv == ASSUME ProcessAssumption, DaemonInv, NEW d \in Daemon, Select(d) PROVE DaemonInv'
<1>1. Fine(d) /\ proc[d].pc = "select" /\ Up(d)
  BY IInvParts DEF Select, Up
<1>2. ~ proc[d].failure => proc[d].told
  BY <1>1 DEF Fine, Cause
<1>3. CASE proc[d].failure
  BY <1>1, <1>3, ExitIInv DEF Select
<1>4. CASE ~ proc[d].failure
  BY <1>1, <1>2, <1>4, ExitIInv DEF Select
<1>5. QED
  BY <1>3, <1>4

-----------------------------------------------------------------------
(* Starts.                                                                *)

\* A start leaves a process alone that is up no more, and what it finds it leaves as it is.
LEMMA StartIInv == ASSUME ProcessAssumption, DaemonInv, NEW d \in Daemon, Start(d) PROVE DaemonInv'
<1>0. DaemonTypeOK
  BY IInvParts
<1> DEFINE fresh == [Down("none", FALSE, \A f \in Daemon : ~ Up(f)) EXCEPT !.pc = "load"]
<1>1. fresh \in Process
  <2>1. (\A f \in Daemon : ~ Up(f)) \in BOOLEAN /\ "load" \in Steps
    BY DEF Steps, Starting
  <2>2. Down("none", FALSE, \A f \in Daemon : ~ Up(f)) \in Process
    BY <2>1, Zenon DEF Down, Process
  <2>3. QED
    BY <2>1, <2>2, Zenon DEF Process, Steps
<1>2. /\ fresh.pc = "load" /\ fresh.admin = "none" /\ fresh.exit = "none" /\ fresh.ctx = FALSE
      /\ fresh.alone <=> \A f \in Daemon : ~ Up(f)
  BY DEF Down
<1>3. proc' = [e \in Daemon |-> IF e = d THEN fresh ELSE [proc[e] EXCEPT !.alone = @ /\ ~ Up(e)]]
  BY DEF Start
<1> HIDE DEF fresh
<1>4. ~ Up(d) /\ UNCHANGED <<config, fs, port>> /\ starts < MaxStarts /\ starts' = starts + 1
  BY DEF Start
<1>5. proc'[d] = fresh
  BY <1>3
<1>6. ASSUME NEW e \in Daemon \ {d}
      PROVE  /\ proc'[e] \in Process
             /\ proc'[e].pc = proc[e].pc /\ proc'[e].admin = proc[e].admin
             /\ proc'[e].exit = proc[e].exit /\ proc'[e].failure = proc[e].failure
             /\ proc'[e].ctx = proc[e].ctx /\ proc'[e].told = proc[e].told
             /\ proc'[e].alone <=> proc[e].alone /\ ~ Up(e)
  <2>1. proc[e] \in Process /\ (proc[e].alone /\ ~ Up(e)) \in BOOLEAN
    BY <1>0 DEF DaemonTypeOK
  <2>2. proc'[e] = [proc[e] EXCEPT !.alone = proc[e].alone /\ ~ Up(e)]
    BY <1>3, Zenon
  <2>3. proc'[e] \in Process
    BY <2>1, <2>2, Zenon DEF Process
  <2>4. QED
    BY <2>1, <2>2, <2>3 DEF Process
<1>7. DaemonTypeOK'
  <2>1. proc' \in [Daemon -> Process]
    <3>1. \A e \in Daemon : proc'[e] \in Process
      BY <1>1, <1>5, <1>6
    <3>2. QED
      BY <1>3, <3>1, Zenon
  <2>2. starts' \in 0 .. MaxStarts
    BY <1>0, <1>4 DEF DaemonTypeOK, ProcessAssumption
  <2>3. QED
    BY <1>0, <1>4, <2>1, <2>2, Zenon DEF DaemonTypeOK
<1>8. Fine(d)' /\ Refused(d)'
  <2>1. Fine(d) /\ proc[d].pc = "down"
    BY <1>4, IInvParts DEF Up
  <2>2. fs["main"] # d /\ fs["admin"] # d /\ d \notin port
    BY <2>1 DEF Fine, Phase, Notified
  <2>3. (proc[d].alone => Undisturbed(d))'
    <3> SUFFICES ASSUME fresh.alone PROVE Undisturbed(d)'
      BY <1>5
    <3>1. \A e \in Daemon : proc'[e].pc # "down" => e = d
      BY <1>2, <1>6 DEF Up
    <3>2. "load" \notin Notified
      BY DEF Notified
    <3>3. QED
      BY <1>2, <1>5, <3>1, <3>2 DEF Undisturbed, Up
  <2>4. Own(d)'
    BY <1>2, <1>4, <1>5, <2>2, ZenonT(30) DEF Own, Cause, Phase, NotPlain, PastMain, PastAdmin, Notified
  <2>5. QED
    BY <1>2, <1>5, <2>3, <2>4, FineParts DEF Refused
<1>9. ASSUME NEW e \in Daemon \ {d} PROVE Fine(e)' /\ Refused(e)'
  <2>1. Fine(e) /\ Refused(e)
    BY IInvParts
  <2>2. Lone(e)'
    BY <1>6 DEF Lone, Up
  <2>3. QED
    BY <1>4, <1>6, <2>1, <2>2
       DEF Fine, Refused, Cause, Phase, NotPlain, PastMain, PastAdmin
<1>10. \A e \in Daemon : Fine(e)' /\ Refused(e)'
  BY <1>8, <1>9
<1>11. QED
  BY <1>7, <1>10, Zenon DEF DaemonInv, Inv, SocketsLive, LoneStartSucceeds, Fine, Refused

-----------------------------------------------------------------------
(* The theorems.                                                          *)

\* Every step keeps the invariant: one lemma for each action.
LEMMA NextIInv == ASSUME ProcessAssumption, DaemonInv, [DaemonNext]_daemonVars PROVE DaemonInv'
<1>1. CASE UNCHANGED daemonVars
  BY <1>1, ZenonT(60)
     DEF daemonVars, DaemonInv, Inv, DaemonTypeOK, SocketsLive, Cause, Phase, NotPlain, PastMain, PastAdmin,
         Lone, Undisturbed, Up, LoneStartSucceeds
<1>2. ASSUME NEW d \in Daemon, Start(d) \/ Signal(d) \/ Serve(d) \/ RunStep(d) PROVE DaemonInv'
  BY <1>2, StartIInv, SignalIInv, ServeIInv, ShutdownIInv, DrainIInv, SelectIInv DEF RunStep
<1>3. ASSUME NEW d \in Daemon, AdminServeFails(d) \/ AdminStep(d) PROVE DaemonInv'
  BY <1>3, AdminServeFailsIInv, AdminClosesIInv, AdminCleanupIInv, AdminReportsIInv DEF AdminStep
<1>4. ASSUME NEW d \in Daemon, StartupStep(d) PROVE DaemonInv'
  <2>1. CASE LoadFails(d)
    BY <2>1, ExitIInv DEF LoadFails, Up
  <2>2. CASE NoAdminPath(d)
    BY <2>2, ExitIInv DEF NoAdminPath, Up
  <2>3. QED
    BY <1>4, <2>1, <2>2, LoadedIInv, ListenTCPIInv, StatMainIInv, RemoveMainIInv, ListenMainIInv,
       ChmodMainIInv, NotifyIInv, LstatAdminIInv, DialAdminIInv, RemoveAdminIInv,
       ListenAdminIInv, ChmodAdminIInv, Zenon
       DEF StartupStep
<1>5. ASSUME NEW d \in Daemon, ServeFails(d) \/ Crash(d) PROVE DaemonInv'
  BY <1>5, ExitIInv DEF ServeFails, Crash, Up
<1>6. QED
  BY <1>1, <1>2, <1>3, <1>4, <1>5, Zenon DEF DaemonNext

\* The inductive invariant holds of any number of processes and starts.
THEOREM Invariance == ASSUME ProcessAssumption PROVE DaemonSpec => []DaemonInv
<1>1. DaemonInit => DaemonInv
  BY InitIInv
<1>2. DaemonInv /\ [DaemonNext]_daemonVars => DaemonInv'
  BY NextIInv
<1>3. QED
  BY <1>1, <1>2, PTL DEF DaemonSpec

\* credproxyd ends successfully only when a signal asked it to (main.go:142).
THEOREM OnlySignalsSucceed == ASSUME ProcessAssumption PROVE DaemonSpec => []SuccessMeansTold
<1>1. DaemonInv => SuccessMeansTold
  BY DEF DaemonInv, Cause, SuccessMeansTold
<1>2. QED
  BY <1>1, Invariance, PTL

\* Whatever crashes, exits and signals left behind, a process started alone gets its sockets
\* and is reached on them.
THEOREM LoneServes == ASSUME ProcessAssumption PROVE DaemonSpec => []LoneDaemonServes
<1>1. ASSUME DaemonInv PROVE LoneIsReachable
  <2> SUFFICES ASSUME NEW d \in Daemon, proc[d].alone, proc[d].pc = "run"
               PROVE  /\ config.unix => fs["main"] = d
                      /\ config.tcp => port = {d}
                      /\ proc[d].admin = "serve" => fs["admin"] = d
    BY DEF LoneIsReachable
  <2>1. Undisturbed(d) /\ DaemonTypeOK
    BY <1>1 DEF DaemonInv, Lone, Up, Inv
  <2>2. ASSUME NEW e \in port PROVE e = d
    <3>1. e \in Daemon /\ Up(e)
      BY <1>1, <2>1 DEF DaemonTypeOK, DaemonInv, Phase, Up
    <3>2. QED
      BY <2>1, <3>1 DEF Undisturbed
  <2>3. QED
    BY <2>1, <2>2 DEF Undisturbed, Notified
<1>2. DaemonInv => LoneDaemonServes
  BY <1>1 DEF DaemonInv, LoneDaemonServes
<1>3. QED
  BY <1>2, Invariance, PTL

-----------------------------------------------------------------------
(* The configuration.                                                    *)

\* A refusal changes nothing that has been checked.
LEMMA CRefuse ==
    ASSUME ConfigInv, NEW why, Refuse(why), why \notin {"store", "no identities"}
    PROVE  ConfigInv'
<1>1. stage' = "refused" /\ reason' = why
  BY Zenon DEF Refuse
<1>2. QED
  BY <1>1, Zenon DEF ConfigInv

\* Defaults are filled in before anything is checked.
LEMMA CLoad == ASSUME ConfigInv, Load PROVE ConfigInv'
<1>1. Refuse("decode") \/ Refuse("home") \/ (stage' = "validate" /\ reason' = reason)
  BY Zenon DEF Load
<1>2. CASE stage' = "validate" /\ reason' = reason
  BY <1>2, Zenon DEF ConfigInv
<1>3. QED
  BY <1>1, <1>2, CRefuse, Zenon

\* validate lets only configurations through that satisfy its checks.
LEMMA CValidate == ASSUME ConfigInv, Validate PROVE ConfigInv'
<1>1. CASE Refuse("validate")
  BY <1>1, CRefuse, Zenon
<1>2. CASE ~ Refuse("validate")
  <2>1. /\ stage' = "tokens" /\ reason' = reason /\ settings' = settings
        /\ ValidCredentials(settings)
        /\ \A r \in Range(settings.routes) : ValidRoute(settings, r)
    BY <1>2, Zenon DEF Validate
  <2>2. QED
    BY <2>1, Zenon DEF ConfigInv
<1>3. QED
  BY <1>1, <1>2

\* The tokens are loaded after the configuration was validated.
LEMMA CLoadTokens == ASSUME ConfigInv, LoadTokens PROVE ConfigInv'
<1>1. CASE Refuse("tokens")
  BY <1>1, CRefuse, Zenon
<1>2. CASE ~ Refuse("tokens")
  <2>1. stage = "tokens" /\ stage' = "ids" /\ reason' = reason /\ settings' = settings
    BY <1>2, Zenon DEF LoadTokens
  <2>2. QED
    BY <2>1, Zenon DEF ConfigInv
<1>3. QED
  BY <1>1, <1>2

\* The lists of clients are compared with the ids of the tokens.
LEMMA CValidateClientIDs == ASSUME ConfigInv, ValidateClientIDs PROVE ConfigInv'
<1>1. CASE Refuse("ids")
  BY <1>1, CRefuse, Zenon
<1>2. CASE ~ Refuse("ids")
  <2>1. /\ stage = "ids" /\ stage' = "store" /\ reason' = reason /\ settings' = settings
        /\ loaded' = loaded /\ \A r \in Range(settings.routes) : r.allowed \subseteq Ids
    BY <1>2, Zenon DEF ValidateClientIDs
  <2>2. Ids' = Ids
    BY <2>1 DEF Ids
  <2>3. QED
    BY <2>1, <2>2, Zenon DEF ConfigInv
<1>3. QED
  BY <1>1, <1>2

\* onepassword.New has nothing to refuse: validate has checked the same.
LEMMA CNewStore == ASSUME ConfigInv, NewStore PROVE ConfigInv'
<1>1. stage = "store" /\ ValidCredentials(settings)
  BY Zenon DEF NewStore, ConfigInv
<1>2. ~ \E x \in Range(settings.credentials) : x.name = "" \/ ~ x.ref \/ (~ x.preload /\ x.ttl <= 0)
  BY <1>1, Zenon DEF ValidCredentials
<1>3. /\ store' = IF settings.credentials = <<>> THEN NoStore ELSE Names(settings.credentials)
      /\ stage' = "new" /\ reason' = reason /\ settings' = settings /\ loaded' = loaded
  BY <1>1, <1>2, Zenon DEF NewStore, ValidCredentials
<1>4. Ids' = Ids
  BY <1>3 DEF Ids
<1>5. QED
  BY <1>1, <1>3, <1>4, Zenon DEF ConfigInv

\* Without tokens there are no identities, so no route can have passed ValidateClientIDs
\* with a list.
LEMMA CNewServer == ASSUME ConfigInv, NewServer PROVE ConfigInv'
<1> DEFINE unauthenticated == "tcp" \notin settings.listen /\ loaded = <<>>
<1>1. stage = "new" /\ \A r \in Range(settings.routes) : r.allowed \subseteq Ids
  BY Zenon DEF NewServer, ConfigInv
<1>2. ~ (unauthenticated /\ \E r \in Range(settings.routes) : r.allowed # {})
  <2>1. loaded = <<>> => Ids = {}
    BY DEF Ids
  <2>2. QED
    BY <1>1, <2>1
<1>3. \/ Refuse("peer policy") \/ Refuse("reserved") \/ Refuse("panic") \/ Refuse("listen")
      \/ UNCHANGED <<settings, reason, loaded, store>> /\ stage' = "serving"
  BY <1>2, Zenon DEF NewServer
<1>4. CASE UNCHANGED <<settings, reason, loaded, store>> /\ stage' = "serving"
  <2>1. Ids' = Ids
    BY <1>4 DEF Ids
  <2>2. QED
    BY <1>1, <1>4, <2>1, Zenon DEF ConfigInv
<1>5. QED
  BY <1>3, <1>4, CRefuse, Zenon

\* Every step keeps the invariant.
LEMMA CNext == ASSUME ConfigInv, [ConfigNext]_(configVars) PROVE ConfigInv'
<1>1. CASE StoreFails
  <2>1. Refuse("onepassword")
    BY <1>1, Zenon DEF StoreFails
  <2>2. QED
    BY <2>1, CRefuse, Zenon
<1>2. CASE UNCHANGED configVars
  <2>1. UNCHANGED <<settings, stage, reason, loaded, store>>
    BY <1>2, Zenon DEF configVars
  <2>2. Ids' = Ids
    BY <2>1 DEF Ids
  <2>3. QED
    BY <2>1, <2>2, Zenon DEF ConfigInv
<1>3. QED
  BY <1>1, <1>2, CLoad, CValidate, CLoadTokens, CValidateClientIDs, CNewStore, CNewServer, Zenon
     DEF ConfigNext

\* Whatever is configured: a route with a delivery has a store that knows its credentials,
\* onepassword.New refuses nothing that validate accepted, credproxy.New no list of clients
\* for want of identities, and no upstream status replaces a preloaded credential.
THEOREM ConfigChecksSuffice == ConfigSpec => []ChecksSuffice
<1>1. ConfigInit => ConfigInv
  BY DEF ConfigInit, ConfigInv
<1>2. ConfigInv /\ [ConfigNext]_(configVars) => ConfigInv'
  BY CNext
<1>3. ConfigInv => ChecksSuffice
  <2> SUFFICES ASSUME ConfigInv PROVE ChecksSuffice
    OBVIOUS
  <2>1. StoreAcceptsValidated /\ ListsHaveIdentities
    BY Zenon DEF ConfigInv, StoreAcceptsValidated, ListsHaveIdentities
  <2>2. ASSUME stage = "serving", NEW r \in Range(settings.routes)
        PROVE  /\ ValidCredentials(settings) /\ ValidRoute(settings, r)
               /\ store = IF settings.credentials = <<>> THEN NoStore
                          ELSE Names(settings.credentials)
    BY <2>2, Zenon DEF ConfigInv
  <2>3. ASSUME ValidCredentials(settings), settings.credentials # <<>>
        PROVE  "" \notin Names(settings.credentials)
    BY <2>3, Zenon DEF ValidCredentials, Names, Range
  <2>4. settings.credentials = <<>> => Names(settings.credentials) = {}
    BY DEF Names
  <2>5. RoutesHaveTheirStore
    <3> SUFFICES ASSUME stage = "serving", NEW r \in Range(settings.routes), r.delivery # ""
                 PROVE  store # NoStore /\ (r.env \cup ({r.credential} \ {""})) \subseteq store
      BY Zenon DEF RoutesHaveTheirStore, Serving, Served
    <3> DEFINE names == Names(settings.credentials)
    <3>1. (r.env \cup ({r.credential} \ {""})) \subseteq names /\ names # {}
      BY <2>2, Zenon DEF ValidRoute, ValidHeader, ValidEnv
    <3>2. settings.credentials # <<>> /\ store = names /\ "" \notin names
      BY <2>2, <2>3, <2>4, <3>1, Zenon
    <3>3. QED
      BY <3>1, <3>2, Zenon DEF NoStore
  <2>6. PreloadedNotRefreshed
    <3> SUFFICES ASSUME stage = "serving", NEW r \in Range(settings.routes),
                        r.upstream, r.refreshOnStatus, Preloaded(settings, r.credential)
                 PROVE  FALSE
      BY DEF PreloadedNotRefreshed, Serving, Served
    <3>1. r.credential # ""
      BY <2>2, Zenon DEF Preloaded, ValidCredentials
    <3>2. QED
      BY <2>2, <3>1, Zenon DEF ValidRoute, ValidHeader, ValidEnv
  <2>7. QED
    BY <2>1, <2>5, <2>6, Zenon DEF ChecksSuffice
<1>4. QED
  BY <1>1, <1>2, <1>3, PTL DEF ConfigSpec

-----------------------------------------------------------------------
(* The periodic jobs.                                                    *)

INSTANCE WellFoundedInduction

\* A set of numbers that is not empty has a least element.
LEMMA LeastNumber ==
    ASSUME NEW D, D \subseteq Nat, D # {} PROVE \E d \in D : \A e \in D : d <= e
<1>1. \E d \in D : \A e \in D : ~ (<<e, d>> \in OpToRel(<, Nat))
  BY NatLessThanWellFounded, WFMin, Zenon
<1>2. PICK d \in D : \A e \in D : ~ (<<e, d>> \in OpToRel(<, Nat))
  BY <1>1, Zenon
<1>3. ASSUME NEW e \in D PROVE d <= e
  <2>1. e \in Nat /\ d \in Nat
    OBVIOUS
  <2>2. ~ (<<e, d>> \in {p \in Nat \X Nat : p[1] < p[2]})
    BY <1>2, Zenon DEF OpToRel
  <2>3. QED
    BY ONLY <2>1, <2>2
<1>4. QED
  BY <1>3, Zenon

\* The timer is set to a due time that no other one comes before.
LEMMA JEarliest ==
    ASSUME SchedulerAssumption, NEW d \in [Job -> Nat]
    PROVE  Earliest(d) \in Nat /\ \A j \in Job : Earliest(d) <= d[j]
<1> DEFINE D == {d[j] : j \in Job}
<1>1. D \subseteq Nat
  OBVIOUS
<1>2. 1 \in Job
  BY DEF Job, SchedulerAssumption
<1>3. D # {}
  BY <1>2
<1>4. \A j \in Job : d[j] \in D
  BY Zenon
<1> HIDE DEF D
<1>5. PICK x \in D : \A y \in D : x <= y
  BY <1>1, <1>3, LeastNumber, Zenon
<1>6. x \in D /\ \A j \in Job : x <= d[j]
  BY <1>4, <1>5, Zenon
<1>7. Earliest(d) \in D /\ \A j \in Job : Earliest(d) <= d[j]
  BY <1>6, Zenon DEF Earliest, D
<1>8. QED
  BY <1>1, <1>7, Zenon

\* The timer is set for the first time.
LEMMA JInit == ASSUME SchedulerAssumption, SchedulerInit PROVE SchedulerInv
<1>0. Every \in [Job -> Nat]
  BY Zenon DEF SchedulerAssumption, Job
<1>1. Earliest(Every) \in Nat /\ \A j \in Job : Earliest(Every) <= Every[j]
  BY <1>0, JEarliest, Zenon
<1>2. SchedulerTypeOK
  <2>1. i = 1 /\ 1 \in 1 .. Jobs + 1 /\ rested = [j \in Job |-> 0] /\ rested \in [Job -> Nat]
    BY DEF SchedulerInit, SchedulerAssumption
  <2>2. due \in [Job -> Nat] /\ timer \in Nat /\ batch = {} /\ cancelled = FALSE /\ pc = "wait"
    BY <1>0, <1>1, Zenon DEF SchedulerInit
  <2>3. QED
    BY <2>1, <2>2, Zenon DEF SchedulerTypeOK
<1>3. WakesForTheEarliest
  BY <1>1, <1>2 DEF SchedulerInit, WakesForTheEarliest
<1>4. \A j \in Job : rested[j] <= Every[j] /\ Every[j] <= rested[j] + due[j]
  BY DEF SchedulerInit, SchedulerAssumption, Job
<1>5. QED
  BY <1>3, <1>4 DEF SchedulerInit, SchedulerInv

\* Time brings the timer and all due times nearer by the same, and an interval ends no later
\* than its job is due.
LEMMA JTick == ASSUME SchedulerAssumption, SchedulerInv, Tick PROVE SchedulerInv'
<1>0. /\ SchedulerTypeOK /\ UNCHANGED <<pc, i, batch, cancelled>> /\ batch \subseteq Job
      /\ due' = [j \in Job |-> Before(due[j])] /\ timer' = Before(timer)
      /\ rested' = [j \in Job |-> IF (pc = "run" /\ i = j) \/ rested[j] = Every[j] THEN rested[j]
                                    ELSE rested[j] + 1]
  BY DEF SchedulerInv, WakesForTheEarliest, SchedulerTypeOK, Tick
<1>1. ASSUME NEW j \in Job
      PROVE  /\ due[j] \in Nat /\ rested[j] \in Nat /\ Every[j] \in Nat /\ timer \in Nat
             /\ rested[j] <= Every[j] /\ Every[j] <= rested[j] + due[j]
             /\ pc = "wait" => timer <= due[j]
             /\ (pc = "run" /\ i = j) => due[j] = 0
  <2>1. due[j] \in Nat /\ rested[j] \in Nat /\ Every[j] \in Nat /\ timer \in Nat /\ j <= j
    BY <1>0 DEF SchedulerTypeOK, SchedulerAssumption, Job
  <2>2. QED
    BY <2>1 DEF SchedulerInv, WakesForTheEarliest
<1>2. ASSUME NEW j \in Job
      PROVE  /\ due'[j] = (IF due[j] = 0 THEN 0 ELSE due[j] - 1)
             /\ timer' = (IF timer = 0 THEN 0 ELSE timer - 1)
             /\ rested'[j] = (IF (pc = "run" /\ i = j) \/ rested[j] = Every[j] THEN rested[j]
                              ELSE rested[j] + 1)
  BY <1>0 DEF Before
<1>3. ASSUME NEW j \in Job
      PROVE  /\ due'[j] \in Nat /\ rested'[j] \in Nat
             /\ rested'[j] <= Every[j] /\ Every[j] <= rested'[j] + due'[j]
             /\ pc' = "wait" => timer' <= due'[j]
             /\ due[j] = 0 => due'[j] = 0
  BY <1>0, <1>1, <1>2
<1>4. timer' \in Nat
  BY <1>0 DEF SchedulerTypeOK, Before
<1>5. SchedulerTypeOK'
  BY <1>0, <1>3, <1>4 DEF SchedulerTypeOK
<1>6. WakesForTheEarliest'
  BY <1>3, <1>5 DEF WakesForTheEarliest
<1>7. (pc \in {"scan", "run"} => \A j \in batch : i <= j => due[j] = 0)'
  BY <1>0, <1>3 DEF SchedulerInv
<1>8. QED
  BY <1>0, <1>3, <1>6, <1>7 DEF SchedulerInv

\* The scan runs what was due when it began, and sleeps until the earliest due time.
LEMMA JSteps ==
    ASSUME SchedulerAssumption, SchedulerInv, Cancel \/ Wake \/ Stop \/ Sleep \/ Scan
    PROVE  SchedulerInv'
<1>0. SchedulerTypeOK
  BY DEF SchedulerInv, WakesForTheEarliest
<1>1. CASE Cancel
  BY <1>0, <1>1 DEF Cancel, SchedulerInv, WakesForTheEarliest, SchedulerTypeOK
<1>2. CASE Wake
  <2>1. SchedulerTypeOK'
    BY <1>0, <1>2 DEF Wake, SchedulerTypeOK, SchedulerAssumption
  <2>2. QED
    BY <1>2, <2>1 DEF Wake, SchedulerInv, WakesForTheEarliest
<1>3. CASE Stop
  BY <1>0, <1>3 DEF Stop, SchedulerInv, WakesForTheEarliest, SchedulerTypeOK
<1>4. CASE Sleep
  <2>1. Earliest(due) \in Nat /\ \A j \in Job : Earliest(due) <= due[j]
    BY <1>0, JEarliest DEF SchedulerTypeOK
  <2>2. timer' = Earliest(due) /\ pc' = "wait" /\ batch' = {} /\ UNCHANGED <<i, due, cancelled, rested>>
    BY <1>4 DEF Sleep
  <2>3. SchedulerTypeOK'
    BY <1>0, <2>1, <2>2 DEF SchedulerTypeOK
  <2>4. WakesForTheEarliest'
    BY <2>1, <2>2, <2>3 DEF WakesForTheEarliest
  <2>5. QED
    BY <2>2, <2>4 DEF SchedulerInv
<1>5. CASE Scan
  <2>1. /\ pc = "scan" /\ i <= Jobs /\ UNCHANGED <<due, batch, timer, cancelled, rested>>
        /\ \/ i \in batch /\ pc' = "run" /\ i' = i
           \/ i \notin batch /\ pc' = "scan" /\ i' = i + 1
    BY <1>5 DEF Scan
  <2>2. SchedulerTypeOK'
    BY <1>0, <2>1 DEF SchedulerTypeOK, SchedulerAssumption
  <2>3. \A j \in batch : i' <= j => due[j] = 0
    <3>1. \A j \in batch : j \in Nat /\ i \in Nat /\ (i <= j => due[j] = 0)
      BY <1>0, <2>1 DEF SchedulerInv, SchedulerTypeOK, Job
    <3>2. QED
      BY <2>1, <3>1
  <2>4. QED
    BY <2>1, <2>2, <2>3 DEF SchedulerInv, WakesForTheEarliest
<1>6. QED
  BY <1>1, <1>2, <1>3, <1>4, <1>5

\* A job that has returned is due a whole period later.
LEMMA JReturns == ASSUME SchedulerAssumption, SchedulerInv, Returns PROVE SchedulerInv'
<1>0. /\ SchedulerTypeOK /\ pc = "run" /\ i \in batch /\ i \in Job /\ i \in 1 .. Jobs
      /\ due' = [due EXCEPT ![i] = Every[i]] /\ rested' = [rested EXCEPT ![i] = 0]
      /\ pc' = "scan" /\ i' = i + 1 /\ UNCHANGED <<batch, timer, cancelled>>
  BY DEF SchedulerInv, WakesForTheEarliest, SchedulerTypeOK, Returns, Job
<1>1. Every[i] \in Nat
  BY <1>0 DEF SchedulerAssumption
<1>2. SchedulerTypeOK'
  BY <1>0, <1>1 DEF SchedulerTypeOK, SchedulerAssumption
<1>3. ASSUME NEW j \in Job
      PROVE  rested'[j] <= Every[j] /\ Every[j] <= rested'[j] + due'[j]
  <2>1. CASE j = i
    BY <1>0, <1>1, <2>1 DEF SchedulerTypeOK
  <2>2. CASE j # i
    BY <1>0, <2>2 DEF SchedulerInv, SchedulerTypeOK
  <2>3. QED
    BY <2>1, <2>2
<1>4. \A j \in batch : i' <= j => due'[j] = 0
  <2>1. \A j \in batch : j \in Nat /\ j \in Job /\ (i <= j => due[j] = 0)
    BY <1>0 DEF SchedulerInv, SchedulerTypeOK, Job
  <2>2. \A j \in batch : i + 1 <= j => i <= j /\ j # i
    BY <1>0, <2>1
  <2>3. QED
    BY <1>0, <2>1, <2>2 DEF SchedulerTypeOK
<1>5. QED
  BY <1>0, <1>2, <1>3, <1>4 DEF SchedulerInv, WakesForTheEarliest

\* Every step keeps the invariant.
LEMMA JNext == ASSUME SchedulerAssumption, SchedulerInv, [SchedulerNext]_(schedulerVars) PROVE SchedulerInv'
<1>1. CASE UNCHANGED schedulerVars
  BY <1>1 DEF schedulerVars, SchedulerInv, WakesForTheEarliest, SchedulerTypeOK
<1>2. QED
  BY <1>1, JTick, JSteps, JReturns, Zenon DEF SchedulerNext, Step

\* With any jobs of any periods, the goroutine of runScheduler never sleeps past the moment
\* some job is due, and starts a job only when its period has passed since it ended.
THEOREM SchedulerOnTime == ASSUME SchedulerAssumption PROVE SchedulerSpec => []JobsAreOnTime
<1>1. SchedulerInit => SchedulerInv
  BY JInit
<1>2. SchedulerInv /\ [SchedulerNext]_(schedulerVars) => SchedulerInv'
  BY JNext
<1>3. SchedulerInv => WakesForTheEarliest
  BY Zenon DEF SchedulerInv
<1>4. SchedulerInv => NeverEarly
  <2> SUFFICES ASSUME SchedulerInv, pc = "run" PROVE rested[i] = Every[i]
    BY Zenon DEF NeverEarly
  <2>2. i \in batch /\ SchedulerTypeOK
    BY Zenon DEF SchedulerInv, WakesForTheEarliest
  <2>3. i \in Job /\ i <= i /\ due[i] \in Nat /\ rested[i] \in Nat /\ Every[i] \in Nat
    BY <2>2 DEF SchedulerTypeOK, SchedulerAssumption, Job
  <2>4. due[i] = 0 /\ rested[i] <= Every[i] /\ Every[i] <= rested[i] + due[i]
    BY <2>2, <2>3 DEF SchedulerInv
  <2>5. QED
    BY <2>3, <2>4
<1>5. SchedulerInv => JobsAreOnTime
  BY <1>3, <1>4, Zenon DEF JobsAreOnTime
<1>6. QED
  BY <1>1, <1>2, <1>5, PTL DEF SchedulerSpec
=========================================================================
