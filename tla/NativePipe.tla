---------------------------- MODULE NativePipe ----------------------------
(***************************************************************************)
(* The named pipe of credproxyd on Windows: the listener that admits one   *)
(* connection after another, after a handshake and a look at the client's  *)
(* SID under impersonation, and DialPipe on the other side.                *)
(*                                                                         *)
(* A deadline that is armed may run out in any state that waits on the     *)
(* connection.  Windows and winio are external: a dial goes through while  *)
(* an Accept is under way.                                                 *)
(***************************************************************************)
EXTENDS Naturals

CONSTANTS
    Client,         \* processes that open the pipe
    Dialer,         \* those that do it by DialPipe; the others do as they like
    SidOf,          \* the SID of each
    Expected        \* sidListener.expected

ASSUME ClientAssumption == Client # {} /\ Dialer \subseteq Client /\ DOMAIN SidOf = Client

VARIABLES
    srv,            \* the goroutine in Accept: pc, and the connection it has in hand
    conn,           \* of each client: pc, what it wrote, what it was sent, both ends, deadlines
    worker,         \* the thread that runs impersonatedSIDOnThread, or "none": the token it has
    pool            \* tokens of the threads that have run it and went back to the scheduler

vars == <<srv, conn, worker, pool>>

Fresh == [pc |-> "away", wrote |-> "nothing", got |-> "nothing", gone |-> FALSE,
          state |-> "none", srvTimer |-> FALSE, cliTimer |-> FALSE]

Init ==
    /\ srv = [pc |-> "accept", c |-> CHOOSE c \in Client : TRUE]
    /\ conn = [c \in Client |-> Fresh]
    /\ worker = "none"
    /\ pool = {}

Cur == conn[srv.c]
Step(pc) == srv' = [srv EXCEPT !.pc = pc]
SetCur(r) == conn' = [conn EXCEPT ![srv.c] = r]

-----------------------------------------------------------------------
(* sidListener.Accept and authenticatePipeClient.                         *)

\* Mutation: the preface is read without a deadline.
AcceptUntimed(c) ==
    /\ srv.pc = "accept" /\ conn[c].pc = "dialing"
    /\ srv' = [pc |-> "preface", c |-> c]
    /\ conn' = [conn EXCEPT ![c] = [@ EXCEPT !.pc = "connected", !.state = "open"]]
    /\ UNCHANGED <<worker, pool>>

\* Listener.Accept and the first SetDeadline
Accept(c) ==
    /\ srv.pc = "accept" /\ conn[c].pc = "dialing"
    /\ srv' = [pc |-> "preface", c |-> c]
    /\ conn' = [conn EXCEPT ![c] = [@ EXCEPT !.pc = "connected", !.state = "open",
                                             !.srvTimer = TRUE]]
    /\ UNCHANGED <<worker, pool>>

\* any error: the connection is closed and the next one accepted
Reject == SetCur([Cur EXCEPT !.state = "closed", !.srvTimer = FALSE]) /\ Step("accept")

ReadPreface ==
    /\ srv.pc = "preface" /\ Cur.wrote # "nothing"
    /\ \/ Cur.wrote = "preface" /\ SetCur([Cur EXCEPT !.srvTimer = FALSE]) /\ Step("impersonate")
       \/ Cur.wrote # "preface" /\ Reject
    /\ UNCHANGED <<worker, pool>>

ReadFails ==
    /\ srv.pc = "preface" /\ (Cur.srvTimer \/ Cur.gone)
    /\ Reject
    /\ UNCHANGED <<worker, pool>>

\* impersonatedSID: a goroutine locked to its thread, ImpersonateNamedPipeClient
Impersonate ==
    /\ srv.pc = "impersonate"
    /\ worker' = "client"
    /\ Step("token")
    /\ UNCHANGED <<conn, pool>>

ImpersonateFails ==
    /\ srv.pc = "impersonate"
    /\ pool' = pool \cup {"self"}
    /\ Reject
    /\ UNCHANGED worker

\* The token's SID is read, or not, and compared; the deadline for the acknowledgement
Verdict(ok) ==
    \/ ok /\ SidOf[srv.c] = Expected /\ SetCur([Cur EXCEPT !.srvTimer = TRUE]) /\ Step("ack")
    \/ ~ (ok /\ SidOf[srv.c] = Expected) /\ Reject

\* RevertToSelf worked: the thread is unlocked
Revert(ok) ==
    /\ srv.pc = "token"
    /\ worker' = "none"
    /\ pool' = pool \cup {"self"}
    /\ Verdict(ok)

\* Mutation: the thread is unlocked whatever RevertToSelf said.
RevertFailsUnlocks ==
    /\ srv.pc = "token"
    /\ worker' = "none"
    /\ pool' = pool \cup {worker}
    /\ Reject

\* RevertToSelf failed: the goroutine ends locked, and its thread with it
RevertFails ==
    /\ srv.pc = "token"
    /\ worker' = "none"
    /\ Reject
    /\ UNCHANGED pool

\* the acknowledgement is written and the connection returned to http.Serve, which accepts again
WriteAck ==
    /\ srv.pc = "ack" /\ ~ Cur.gone
    /\ SetCur([Cur EXCEPT !.got = "ack", !.state = "admitted", !.srvTimer = FALSE])
    /\ Step("accept")
    /\ UNCHANGED <<worker, pool>>

\* a timeout, before or after the last byte, or the client is gone
AckFails ==
    /\ srv.pc = "ack" /\ (Cur.srvTimer \/ Cur.gone)
    /\ \E got \in {"nothing", "ack"} :
         SetCur([Cur EXCEPT !.got = got, !.state = "closed", !.srvTimer = FALSE])
    /\ Step("accept")
    /\ UNCHANGED <<worker, pool>>

\* The listener is closed
CloseListener ==
    /\ srv.pc = "accept"
    /\ Step("closed")
    /\ UNCHANGED <<conn, worker, pool>>

-----------------------------------------------------------------------
(* DialPipe, and clients that are something else.                         *)

Client1(c, pc, r) ==
    /\ conn[c].pc = pc
    /\ conn' = [conn EXCEPT ![c] = r]
    /\ UNCHANGED <<srv, worker, pool>>

Failed(c) == [conn[c] EXCEPT !.pc = "failed", !.gone = TRUE, !.cliTimer = FALSE]

Dial(c) == Client1(c, "away", [Fresh EXCEPT !.pc = "dialing"])
DialFails(c) == Client1(c, "dialing", Failed(c))

\* verifyPipeServer
VerifyServer(c) == c \in Dialer /\ Client1(c, "connected", [conn[c] EXCEPT !.pc = "verified"])
VerifyFails(c) == c \in Dialer /\ Client1(c, "connected", Failed(c))

\* clientPipeHandshake: the deadline and the preface
SendPreface(c) ==
    /\ conn[c].state = "open"
    /\ Client1(c, "verified", [conn[c] EXCEPT !.pc = "await", !.wrote = "preface",
                                              !.cliTimer = TRUE])
SendFails(c) == Client1(c, "verified", Failed(c))

ReadAck(c) ==
    /\ conn[c].got = "ack"
    /\ Client1(c, "await", [conn[c] EXCEPT !.pc = "ready", !.cliTimer = FALSE])

AwaitFails(c) ==
    (conn[c].cliTimer \/ conn[c].state = "closed") /\ Client1(c, "await", Failed(c))

\* Another program: it writes the preface or something else, or nothing
Write(c, data) ==
    /\ c \notin Dialer /\ conn[c].wrote = "nothing"
    /\ Client1(c, "connected", [conn[c] EXCEPT !.wrote = data])

\* Any client leaves; it may come back once the server has closed its end
Leave(c) ==
    /\ ~ conn[c].gone
    /\ \/ Client1(c, "ready", [conn[c] EXCEPT !.gone = TRUE])
       \/ c \notin Dialer /\ Client1(c, "connected", [conn[c] EXCEPT !.gone = TRUE])
Return(c) ==
    /\ conn[c].gone /\ ~ (srv.c = c /\ srv.pc \notin {"accept", "closed"})
    /\ Client1(c, conn[c].pc, Fresh)

-----------------------------------------------------------------------
Server ==
    \/ ReadPreface \/ ReadFails \/ Impersonate \/ ImpersonateFails
    \/ \E ok \in BOOLEAN : Revert(ok)
    \/ RevertFails \/ WriteAck \/ AckFails

Next ==
    \/ Server \/ CloseListener
    \/ \E c \in Client :
         \/ Accept(c) \/ Dial(c) \/ DialFails(c) \/ VerifyServer(c) \/ VerifyFails(c)
         \/ SendPreface(c) \/ SendFails(c) \/ ReadAck(c) \/ AwaitFails(c)
         \/ \E data \in {"preface", "other"} : Write(c, data)
         \/ Leave(c) \/ Return(c)

Spec == Init /\ [][Next]_vars

\* The server's own steps are taken, and a deadline that is armed runs out in the end.
FairSpec == Spec /\ WF_vars(Server)

-----------------------------------------------------------------------
(* Properties.                                                           *)

\* A connection is admitted, and acknowledged, for a client with the expected SID that
\* wrote the preface; the SID that PeerSID reports is the client's own, and DialPipe
\* returns a connection to nobody else.
AdmittedAreVerified ==
    \A c \in Client :
      (conn[c].state = "admitted" \/ conn[c].got = "ack" \/ conn[c].pc = "ready") =>
        SidOf[c] = Expected /\ conn[c].wrote = "preface"

\* No thread goes back to the scheduler with a client's token: the goroutines that run on
\* it later act as the process itself, also after RevertToSelf has failed.
PoolActsAsItself == "client" \notin pool

\* A connection that HTTP is spoken over has no deadline of the handshake left, on either
\* side, which would cut off a long request.
NoDeadlineLeft ==
    \A c \in Client :
      /\ conn[c].state = "admitted" => ~ conn[c].srvTimer
      /\ conn[c].pc = "ready" => ~ conn[c].cliTimer

\* The three together: who is served, on which thread, and for how long.
PipeIsSafe == AdmittedAreVerified /\ PoolActsAsItself /\ NoDeadlineLeft

\* A client that connects and says nothing does not keep the others out: Accept always gets
\* back to the listener, though it serves one handshake at a time.
AcceptsAgain == []<>(srv.pc \in {"accept", "closed"})
========================================================================
