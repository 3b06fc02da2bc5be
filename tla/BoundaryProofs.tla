-------------------------- MODULE BoundaryProofs -------------------------
(***************************************************************************)
(* Proofs about the boundary of credproxyd.  Under Windows: who comes in   *)
(* by the named pipe, for any number of clients, of any SIDs; the two      *)
(* policies for files, for every owner and every DACL, of any length and   *)
(* with any masks; and the handles on a protected path of any depth, for   *)
(* any number of openers.  And what goes out to the upstream: the headers  *)
(* and the query, whatever the request and the injection hold.             *)
(***************************************************************************)
EXTENDS NativePipe, AccessPolicy, ProtectedPath, Injection, TLAPS

\* The provers a leaf is tried with, in turn, unless it names its own.
USE SMT, Zenon, SMTT(30)

-----------------------------------------------------------------------
(* The named pipe.                                                       *)

ConnState ==
    [pc : {"away", "dialing", "connected", "verified", "await", "ready", "failed"},
     wrote : {"nothing", "preface", "other"}, got : {"nothing", "ack"}, gone : BOOLEAN,
     state : {"none", "open", "admitted", "closed"}, srvTimer : BOOLEAN, cliTimer : BOOLEAN]

TypeOK ==
    /\ srv \in [pc : {"accept", "preface", "impersonate", "token", "ack", "closed"}, c : Client]
    /\ conn \in [Client -> ConnState]

\* The connection in the server's hands is open, its client has not come back for another,
\* and it has passed the steps the server has taken.
InHand ==
    srv.pc \in {"preface", "impersonate", "token", "ack"} =>
      /\ Cur.state = "open" /\ Cur.got = "nothing" /\ Cur.pc \notin {"away", "dialing"}
      /\ srv.pc # "preface" => Cur.wrote = "preface"
      /\ srv.pc = "ack" => SidOf[srv.c] = Expected

\* What is known of a connection that was acknowledged, admitted or returned by DialPipe.
Acked(c) ==
    /\ conn[c].got = "ack" => SidOf[c] = Expected /\ conn[c].wrote = "preface"
    /\ conn[c].state = "admitted" => conn[c].got = "ack" /\ ~ conn[c].srvTimer
    /\ conn[c].pc = "ready" => conn[c].got = "ack" /\ ~ conn[c].cliTimer
    /\ conn[c].pc \in {"away", "dialing"} => conn[c].got = "nothing"

IInv == TypeOK /\ InHand /\ \A c \in Client : Acked(c)

-----------------------------------------------------------------------
\* There is a client to start with.
LEMMA InitIInv == Init => IInv
  BY ClientAssumption DEF Init, IInv, TypeOK, ConnState, Fresh, InHand, Cur, Acked

\* A step of the server that puts r in place of the connection in hand keeps the invariant
\* when r keeps what is known of connections, and the server's next state what it knows of r.
LEMMA ServerStep ==
    ASSUME IInv, NEW r \in ConnState, SetCur(r),
           NEW p \in {"accept", "impersonate", "token", "ack"}, Step(p),
           r.got = "ack" => SidOf[srv.c] = Expected /\ r.wrote = "preface",
           r.state = "admitted" => r.got = "ack" /\ ~ r.srvTimer,
           r.pc = "ready" => r.got = "ack" /\ ~ r.cliTimer,
           r.pc \notin {"away", "dialing"},
           p # "accept" => r.state = "open" /\ r.got = "nothing" /\ r.wrote = "preface",
           p = "ack" => SidOf[srv.c] = Expected
    PROVE  IInv'
<1>1. /\ srv' = [srv EXCEPT !.pc = p] /\ conn' = [conn EXCEPT ![srv.c] = r]
      /\ srv.c \in Client /\ TypeOK
  BY DEF SetCur, Step, IInv, TypeOK
<1>2. TypeOK' /\ srv'.pc = p /\ srv'.c = srv.c /\ conn'[srv.c] = r
  BY <1>1 DEF TypeOK
<1>3. InHand'
  BY <1>2 DEF InHand, Cur
<1>4. ASSUME NEW c \in Client PROVE Acked(c)'
  <2>1. CASE c = srv.c
    BY <1>2, <2>1 DEF Acked
  <2>2. CASE c # srv.c
    BY <1>1, <2>2 DEF Acked, IInv, TypeOK
  <2>3. QED
    BY <2>1, <2>2
<1>5. QED
  BY <1>2, <1>3, <1>4 DEF IInv

\* The same of a step of one client c that puts r in place of its connection.
LEMMA ClientStep ==
    ASSUME IInv, NEW c \in Client, NEW r \in ConnState,
           conn' = [conn EXCEPT ![c] = r], srv' = srv,
           r.got = "ack" => SidOf[c] = Expected /\ r.wrote = "preface",
           r.state = "admitted" => r.got = "ack" /\ ~ r.srvTimer,
           r.pc = "ready" => r.got = "ack" /\ ~ r.cliTimer,
           r.pc \in {"away", "dialing"} => r.got = "nothing",
           srv.c = c /\ srv.pc \in {"preface", "impersonate", "token", "ack"} =>
             /\ r.state = conn[c].state /\ r.got = conn[c].got /\ r.pc \notin {"away", "dialing"}
             /\ r.wrote = conn[c].wrote \/ r.wrote = "preface" \/ conn[c].wrote = "nothing"
    PROVE  IInv'
<1>1. TypeOK' /\ srv.c \in Client /\ conn'[c] = r
  BY DEF IInv, TypeOK
<1>2. InHand'
  <2>1. CASE c = srv.c
    BY <1>1, <2>1 DEF InHand, Cur, IInv
  <2>2. CASE c # srv.c
    BY <1>1, <2>2 DEF InHand, Cur, IInv, TypeOK
  <2>3. QED
    BY <2>1, <2>2
<1>3. ASSUME NEW d \in Client PROVE Acked(d)'
  <2>1. CASE d = c
    BY <1>1, <2>1 DEF Acked
  <2>2. CASE d # c
    BY <2>2 DEF Acked, IInv, TypeOK
  <2>3. QED
    BY <2>1, <2>2
<1>4. QED
  BY <1>1, <1>2, <1>3 DEF IInv

\* Closing the connection in hand keeps the invariant.
LEMMA RejectStep == ASSUME IInv, srv.pc \notin {"accept", "closed"}, Reject PROVE IInv'
<1> DEFINE r == [Cur EXCEPT !.state = "closed", !.srvTimer = FALSE]
<1>1. srv.c \in Client /\ Cur \in ConnState /\ Acked(srv.c) /\ Cur.pc \notin {"away", "dialing"}
  BY DEF IInv, TypeOK, Cur, InHand
<1>2. /\ r \in ConnState /\ r.state = "closed" /\ r.got = Cur.got /\ r.wrote = Cur.wrote
      /\ r.pc = Cur.pc /\ r.cliTimer = Cur.cliTimer
  BY <1>1, Zenon DEF ConnState
<1>3. SetCur(r) /\ Step("accept")
  BY DEF Reject
<1> HIDE DEF r
<1>4. QED
  BY <1>1, <1>2, <1>3, ServerStep DEF Acked, Cur

\* Every step of the server keeps the invariant.
LEMMA ServerIInv == ASSUME IInv, Server PROVE IInv'
<1>1. srv.c \in Client /\ Cur \in ConnState /\ Acked(srv.c) /\ InHand
  BY DEF IInv, TypeOK, Cur
<1>2. CASE ReadPreface
  <2>1. CASE Cur.wrote = "preface" /\ SetCur([Cur EXCEPT !.srvTimer = FALSE]) /\ Step("impersonate")
    <3> DEFINE r == [Cur EXCEPT !.srvTimer = FALSE]
    <3>1. /\ r \in ConnState /\ r.state = Cur.state /\ r.got = Cur.got /\ r.wrote = Cur.wrote
          /\ r.pc = Cur.pc /\ r.cliTimer = Cur.cliTimer /\ ~ r.srvTimer
      BY <1>1, Zenon DEF ConnState
    <3>2. SetCur(r) /\ Cur.state = "open" /\ Cur.got = "nothing" /\ Cur.pc \notin {"away", "dialing"}
      BY <1>1, <1>2, <2>1 DEF InHand, ReadPreface
    <3> HIDE DEF r
    <3>3. QED
      BY <1>1, <2>1, <3>1, <3>2, ServerStep DEF Acked, Cur
  <2>2. QED
    BY <1>2, <2>1, RejectStep DEF ReadPreface
<1>3. CASE ReadFails
  BY <1>3, RejectStep DEF ReadFails
<1>4. CASE Impersonate
  BY <1>4 DEF Impersonate, Step, IInv, TypeOK, InHand, Cur, Acked
<1>5. CASE ImpersonateFails
  BY <1>5, RejectStep DEF ImpersonateFails
<1>6. ASSUME NEW ok \in BOOLEAN, Revert(ok) PROVE IInv'
  <2>1. CASE /\ SidOf[srv.c] = Expected /\ SetCur([Cur EXCEPT !.srvTimer = TRUE]) /\ Step("ack")
    <3> DEFINE r == [Cur EXCEPT !.srvTimer = TRUE]
    <3>1. /\ r \in ConnState /\ r.state = Cur.state /\ r.got = Cur.got /\ r.wrote = Cur.wrote
          /\ r.pc = Cur.pc /\ r.cliTimer = Cur.cliTimer
      BY <1>1, Zenon DEF ConnState
    <3>2. /\ SetCur(r) /\ Cur.state = "open" /\ Cur.wrote = "preface"
          /\ Cur.got = "nothing" /\ Cur.pc \notin {"away", "dialing"}
      BY <1>1, <1>6, <2>1 DEF InHand, Revert
    <3> HIDE DEF r
    <3>3. QED
      BY <1>1, <2>1, <3>1, <3>2, ServerStep DEF Acked, Cur
  <2>2. QED
    BY <1>6, <2>1, RejectStep DEF Revert, Verdict
<1>7. CASE RevertFails
  BY <1>7, RejectStep DEF RevertFails
<1>8. CASE WriteAck
  <2> DEFINE r == [Cur EXCEPT !.got = "ack", !.state = "admitted", !.srvTimer = FALSE]
  <2>1. /\ r \in ConnState /\ r.state = "admitted" /\ r.got = "ack" /\ r.wrote = Cur.wrote
        /\ r.pc = Cur.pc /\ r.cliTimer = Cur.cliTimer /\ ~ r.srvTimer
    BY <1>1, Zenon DEF ConnState
  <2>2. /\ SetCur(r) /\ Step("accept") /\ Cur.wrote = "preface" /\ SidOf[srv.c] = Expected
        /\ Cur.pc \notin {"away", "dialing"}
    BY <1>1, <1>8 DEF InHand, WriteAck
  <2> HIDE DEF r
  <2>3. QED
    BY <1>1, <2>1, <2>2, ServerStep DEF Acked, Cur
<1>9. CASE AckFails
  <2>1. PICK got \in {"nothing", "ack"} :
          SetCur([Cur EXCEPT !.got = got, !.state = "closed", !.srvTimer = FALSE])
    BY <1>9, Zenon DEF AckFails
  <2> DEFINE r == [Cur EXCEPT !.got = got, !.state = "closed", !.srvTimer = FALSE]
  <2>2. /\ r \in ConnState /\ r.state = "closed" /\ r.got = got /\ r.wrote = Cur.wrote
        /\ r.pc = Cur.pc /\ r.cliTimer = Cur.cliTimer
    BY <1>1, Zenon DEF ConnState
  <2>3. /\ SetCur(r) /\ Step("accept") /\ Cur.wrote = "preface" /\ SidOf[srv.c] = Expected
        /\ Cur.got = "nothing" /\ Cur.pc \notin {"away", "dialing"}
    BY <1>1, <1>9, <2>1 DEF InHand, AckFails
  <2> HIDE DEF r
  <2>4. QED
    BY <1>1, <2>2, <2>3, ServerStep DEF Acked, Cur
<1>10. QED
  BY <1>2, <1>3, <1>4, <1>5, <1>6, <1>7, <1>8, <1>9 DEF Server

\* Every step of a client keeps the invariant.
LEMMA ClientIInv ==
    ASSUME IInv, NEW c \in Client,
           \/ Accept(c) \/ Dial(c) \/ DialFails(c) \/ VerifyServer(c) \/ VerifyFails(c)
           \/ SendPreface(c) \/ SendFails(c) \/ ReadAck(c) \/ AwaitFails(c)
           \/ \E data \in {"preface", "other"} : Write(c, data)
           \/ Leave(c) \/ Return(c)
    PROVE  IInv'
<1>1. conn[c] \in ConnState /\ Acked(c) /\ InHand /\ TypeOK /\ srv.c \in Client
  BY DEF IInv, TypeOK
<1> DEFINE busy == srv.c = c /\ srv.pc \in {"preface", "impersonate", "token", "ack"}
<1>2. busy => conn[c].pc \notin {"away", "dialing"} /\ conn[c].got = "nothing"
  BY <1>1 DEF InHand, Cur
<1>3. CASE Accept(c)
  <2> DEFINE r == [conn[c] EXCEPT !.pc = "connected", !.state = "open", !.srvTimer = TRUE]
  <2>1. r \in ConnState /\ r.pc = "connected" /\ r.state = "open" /\ r.got = "nothing"
    BY <1>1, <1>3, Zenon DEF ConnState, Accept, Acked
  <2>2. conn' = [conn EXCEPT ![c] = r] /\ srv' = [pc |-> "preface", c |-> c]
    BY <1>3 DEF Accept
  <2> HIDE DEF r
  <2>3. TypeOK' /\ conn'[c] = r
    BY <1>1, <2>1, <2>2 DEF TypeOK
  <2>4. InHand'
    BY <2>1, <2>2, <2>3 DEF InHand, Cur
  <2>5. ASSUME NEW d \in Client PROVE Acked(d)'
    <3>1. CASE d = c
      BY <2>1, <2>3, <3>1 DEF Acked
    <3>2. CASE d # c
      BY <2>2, <3>2 DEF Acked, IInv, TypeOK
    <3>3. QED
      BY <3>1, <3>2
  <2>6. QED
    BY <2>3, <2>4, <2>5 DEF IInv
<1>4. Failed(c) \in ConnState
  BY <1>1, Zenon DEF Failed, ConnState
<1>5. /\ Failed(c).pc = "failed" /\ Failed(c).got = conn[c].got /\ Failed(c).state = conn[c].state
      /\ Failed(c).wrote = conn[c].wrote /\ Failed(c).srvTimer = conn[c].srvTimer
  BY <1>1 DEF Failed, ConnState
<1>6. ASSUME conn' = [conn EXCEPT ![c] = Failed(c)], srv' = srv PROVE IInv'
  BY <1>1, <1>4, <1>5, <1>6, ClientStep, Zenon DEF Acked
<1>7. CASE DialFails(c) \/ VerifyFails(c) \/ SendFails(c) \/ AwaitFails(c)
  BY <1>6, <1>7 DEF DialFails, VerifyFails, SendFails, AwaitFails, Client1
<1>8. CASE Dial(c)
  <2> DEFINE r == [Fresh EXCEPT !.pc = "dialing"]
  <2>1. r \in ConnState /\ r.pc = "dialing" /\ r.state = "none" /\ r.got = "nothing"
    BY Zenon DEF ConnState, Fresh
  <2>2. conn' = [conn EXCEPT ![c] = r] /\ srv' = srv /\ ~ busy
    BY <1>2, <1>8 DEF Dial, Client1
  <2> HIDE DEF r
  <2>3. QED
    BY <2>1, <2>2, ClientStep, Zenon
<1>9. CASE Return(c)
  <2>1. Fresh \in ConnState /\ Fresh.pc = "away" /\ Fresh.state = "none" /\ Fresh.got = "nothing"
    BY DEF ConnState, Fresh
  <2>2. conn' = [conn EXCEPT ![c] = Fresh] /\ srv' = srv /\ ~ busy
    BY <1>9 DEF Return, Client1
  <2>3. QED
    BY <2>1, <2>2, ClientStep, Zenon
<1>10. CASE VerifyServer(c)
  <2> DEFINE r == [conn[c] EXCEPT !.pc = "verified"]
  <2>1. /\ r \in ConnState /\ r.pc = "verified" /\ r.state = conn[c].state
        /\ r.got = conn[c].got /\ r.wrote = conn[c].wrote /\ r.srvTimer = conn[c].srvTimer
    BY <1>1 DEF ConnState
  <2>2. conn' = [conn EXCEPT ![c] = r] /\ srv' = srv
    BY <1>10 DEF VerifyServer, Client1
  <2> HIDE DEF r
  <2>3. QED
    BY <1>1, <2>1, <2>2, ClientStep, Zenon DEF Acked
<1>11. CASE SendPreface(c)
  <2> DEFINE r == [conn[c] EXCEPT !.pc = "await", !.wrote = "preface", !.cliTimer = TRUE]
  <2>1. /\ r \in ConnState /\ r.pc = "await" /\ r.state = conn[c].state
        /\ r.got = conn[c].got /\ r.wrote = "preface" /\ r.srvTimer = conn[c].srvTimer
    BY <1>1, Zenon DEF ConnState
  <2>2. conn' = [conn EXCEPT ![c] = r] /\ srv' = srv
    BY <1>11 DEF SendPreface, Client1
  <2> HIDE DEF r
  <2>3. QED
    BY <1>1, <2>1, <2>2, ClientStep, Zenon DEF Acked
<1>12. CASE ReadAck(c)
  <2> DEFINE r == [conn[c] EXCEPT !.pc = "ready", !.cliTimer = FALSE]
  <2>1. /\ r \in ConnState /\ r.pc = "ready" /\ r.state = conn[c].state /\ ~ r.cliTimer
        /\ r.got = conn[c].got /\ r.wrote = conn[c].wrote /\ r.srvTimer = conn[c].srvTimer
    BY <1>1, Zenon DEF ConnState
  <2>2. conn' = [conn EXCEPT ![c] = r] /\ srv' = srv /\ conn[c].got = "ack"
    BY <1>12 DEF ReadAck, Client1
  <2> HIDE DEF r
  <2>3. QED
    BY <1>1, <2>1, <2>2, ClientStep, Zenon DEF Acked
<1>13. ASSUME NEW data \in {"preface", "other"}, Write(c, data) PROVE IInv'
  <2> DEFINE r == [conn[c] EXCEPT !.wrote = data]
  <2>1. /\ r \in ConnState /\ r.pc = conn[c].pc /\ r.state = conn[c].state
        /\ r.got = conn[c].got /\ r.srvTimer = conn[c].srvTimer /\ r.cliTimer = conn[c].cliTimer
    BY <1>1 DEF ConnState
  <2>2. /\ conn' = [conn EXCEPT ![c] = r] /\ srv' = srv
        /\ conn[c].wrote = "nothing" /\ conn[c].pc = "connected"
    BY <1>13 DEF Write, Client1
  <2> HIDE DEF r
  <2>3. QED
    BY <1>1, <2>1, <2>2, ClientStep, Zenon DEF Acked
<1>14. CASE Leave(c)
  <2> DEFINE r == [conn[c] EXCEPT !.gone = TRUE]
  <2>1. /\ r \in ConnState /\ r.pc = conn[c].pc /\ r.state = conn[c].state
        /\ r.got = conn[c].got /\ r.wrote = conn[c].wrote
        /\ r.srvTimer = conn[c].srvTimer /\ r.cliTimer = conn[c].cliTimer
    BY <1>1, Zenon DEF ConnState
  <2>2. conn' = [conn EXCEPT ![c] = r] /\ srv' = srv /\ conn[c].pc \in {"ready", "connected"}
    BY <1>14 DEF Leave, Client1
  <2> HIDE DEF r
  <2>3. QED
    BY <1>1, <2>1, <2>2, ClientStep, Zenon DEF Acked
<1>15. QED
  BY <1>3, <1>7, <1>8, <1>9, <1>10, <1>11, <1>12, <1>13, <1>14

\* The invariant of the pipe.
LEMMA Invariant == Spec => []IInv
<1>1. IInv /\ [Next]_vars => IInv'
  <2> SUFFICES ASSUME IInv, [Next]_vars PROVE IInv'
    OBVIOUS
  <2>1. CASE CloseListener
    BY <2>1 DEF CloseListener, Step, IInv, TypeOK, InHand, Cur, Acked
  <2>2. CASE UNCHANGED vars
    BY <2>2 DEF vars, IInv, TypeOK, InHand, Cur, Acked
  <2>3. QED
    BY <2>1, <2>2, ServerIInv, ClientIInv DEF Next
<1>2. QED
  BY InitIInv, <1>1, PTL DEF Spec

\* Only clients with the expected SID that spoke the preface are admitted, acknowledged or
\* handed a connection.
LEMMA OnlyVerifiedAreAdmitted == Spec => []AdmittedAreVerified
<1>1. IInv => AdmittedAreVerified
  BY DEF IInv, Acked, AdmittedAreVerified
<1>2. QED
  BY Invariant, <1>1, PTL

\* No connection in use has a deadline of the handshake left.
LEMMA DeadlinesAreCleared == Spec => []NoDeadlineLeft
<1>1. IInv => NoDeadlineLeft
  BY Zenon DEF IInv, Acked, NoDeadlineLeft
<1>2. QED
  BY Invariant, <1>1, PTL

\* No thread that impersonates a client is given back.
LEMMA PoolIsNeverTainted == Spec => []PoolActsAsItself
<1>1. Init => PoolActsAsItself
  BY DEF Init, PoolActsAsItself
<1>2. PoolActsAsItself /\ [Next]_vars => PoolActsAsItself'
  <2> SUFFICES ASSUME PoolActsAsItself, [Next]_vars PROVE PoolActsAsItself'
    OBVIOUS
  <2>1. CASE Server
    BY <2>1 DEF Server, ReadPreface, ReadFails, Impersonate, ImpersonateFails, Revert,
                RevertFails, WriteAck, AckFails, PoolActsAsItself
  <2>2. ASSUME NEW c \in Client, pool' = pool PROVE PoolActsAsItself'
    BY <2>2 DEF PoolActsAsItself
  <2>3. CASE UNCHANGED vars \/ CloseListener
    BY <2>3 DEF vars, CloseListener, PoolActsAsItself
  <2>4. QED
    BY <2>1, <2>2, <2>3, Zenon DEF Next, Accept, Dial, DialFails, VerifyServer, VerifyFails,
       SendPreface, SendFails, ReadAck, AwaitFails, Write, Leave, Return, Client1
<1>3. QED
  BY <1>1, <1>2, PTL DEF Spec

\* Who is served was verified, on threads that act as the process, and without a deadline of
\* the handshake.
THEOREM PipeSafe == Spec => []PipeIsSafe
<1>1. AdmittedAreVerified /\ PoolActsAsItself /\ NoDeadlineLeft => PipeIsSafe
  BY DEF PipeIsSafe
<1>2. QED
  BY OnlyVerifiedAreAdmitted, PoolIsNeverTainted, DeadlinesAreCleared, <1>1, PTL

-----------------------------------------------------------------------
(* The policies.                                                         *)

\* A mask readExecuteOnly lets through maps to rights of reading and executing only,
\* whether they are spelt by generic or by specific bits.
LEMMA ReadExecuteOnlySound ==
    ASSUME NEW mask, ReadExecuteOnly(mask)
    PROVE  Mapped(mask) \subseteq ImageReadExec
<1>1. "GenericWrite" \notin mask /\ "GenericAll" \notin mask
  BY DEF ReadExecuteOnly
<1>2. mask \ {"GenericRead", "GenericExecute"} \subseteq ImageReadExec
  BY DEF ReadExecuteOnly
<1>3. mask \cap Specific \subseteq ImageReadExec
  BY <1>2 DEF Specific, ImageReadExec, FileGenericRead, FileGenericExec
<1>4. QED
  BY <1>1, <1>3 DEF Mapped, ImageReadExec

\* What validateSecretPolicy accepts gives nothing to the others.
LEMMA SecretPolicySound ==
    ASSUME SecretPolicy(owner, dacl), NEW s, s \notin {Current, System, OwnerRights}
    PROVE  Granted(s) = {}
<1>1. /\ dacl # <<>> /\ owner = Current
      /\ \A k \in DOMAIN dacl :
           \/ dacl[k].inheritOnly
           \/ dacl[k].kind = "denied"
           \/ dacl[k].kind = "allowed" /\ dacl[k].sid \in {Current, System, OwnerRights}
  BY DEF SecretPolicy, Entries
<1>2. ASSUME NEW k \in DOMAIN dacl, ~ dacl[k].inheritOnly
      PROVE  dacl[k].kind # "unsupported" /\ ~ (dacl[k].kind = "allowed" /\ Names(dacl[k], s))
  BY <1>1, <1>2 DEF Names
<1>3. QED
  BY <1>1, <1>2 DEF Granted

\* What validateManagedImagePolicy accepts gives the others reading and executing.
LEMMA ImagePolicySound ==
    ASSUME ImagePolicy(owner, dacl), NEW s, s \notin Trusted \cup {OwnerRights}
    PROVE  Granted(s) \subseteq ImageReadExec
<1>1. /\ dacl # <<>> /\ owner \in Trusted
      /\ \A k \in DOMAIN dacl :
           \/ dacl[k].inheritOnly
           \/ dacl[k].kind = "denied"
           \/ /\ dacl[k].kind = "allowed"
              /\ dacl[k].sid \in Trusted \cup {OwnerRights} \/ ReadExecuteOnly(dacl[k].mask)
  BY DEF ImagePolicy, Entries
<1>2. ASSUME NEW k \in DOMAIN dacl, ~ dacl[k].inheritOnly
      PROVE  /\ dacl[k].kind # "unsupported"
             /\ dacl[k].kind = "allowed" /\ Names(dacl[k], s)
                  => Mapped(dacl[k].mask) \subseteq ImageReadExec
  <2>1. Names(dacl[k], s) => dacl[k].sid = s
    BY <1>1 DEF Names
  <2>2. QED
    BY <1>1, <1>2, <2>1, ReadExecuteOnlySound
<1>3. QED
  BY <1>1, <1>2 DEF Granted

\* The verdict is given once, by the policies, on the descriptor it is about.
Judged ==
    /\ verdict.secret => SecretPolicy(owner, dacl)
    /\ verdict.image => ImagePolicy(owner, dacl)

\* The verdict stays that of the policies.
LEMMA JudgedInvariant == PolicySpec => []Judged
<1>1. PolicyInit => Judged
  BY DEF PolicyInit, Judged
<1>2. Judged /\ [Judge]_policyVars => Judged'
  <2> SUFFICES ASSUME Judged, [Judge]_policyVars PROVE Judged'
    OBVIOUS
  <2>1. CASE Judge
    BY <2>1 DEF Judge, Judged, SecretPolicy, ImagePolicy
  <2>2. CASE UNCHANGED policyVars
    BY <2>2 DEF policyVars, Judged, SecretPolicy, ImagePolicy
  <2>3. QED
    BY <2>1, <2>2
<1>3. QED
  BY <1>1, <1>2, PTL DEF PolicySpec

\* An accepted secret is accessible to its owner and SYSTEM only.
THEOREM AcceptedSecretsAreConfidential == PolicySpec => []SecretsAreConfidential
<1>1. Judged => SecretsAreConfidential
  BY SecretPolicySound DEF Judged, SecretsAreConfidential
<1>2. QED
  BY JudgedInvariant, <1>1, PTL

\* An accepted image can be changed by the trusted SIDs only.
THEOREM AcceptedImagesAreIntact == PolicySpec => []ImagesAreIntact
<1>1. Judged => ImagesAreIntact
  BY ImagePolicySound DEF Judged, ImagesAreIntact
<1>2. QED
  BY JudgedInvariant, <1>1, PTL

-----------------------------------------------------------------------
(* The protected path.                                                   *)

INSTANCE WellFoundedInduction

\* A set of numbers that is not empty has a least element.
LEMMA LeastNumber ==
    ASSUME NEW D, D \subseteq Nat, D # {} PROVE \E d \in D : \A e \in D : d <= e
<1>1. \E d \in D : \A e \in D : ~ (<<e, d>> \in OpToRel(<, Nat))
  BY NatLessThanWellFounded, WFMin, Zenon
<1>2. PICK d \in D : \A e \in D : ~ (<<e, d>> \in OpToRel(<, Nat))
  BY <1>1, Zenon
<1>3. ASSUME NEW e \in D PROVE d <= e
  <2>1. e \in Nat /\ d \in Nat
    OBVIOUS
  <2>2. ~ (<<e, d>> \in {p \in Nat \X Nat : p[1] < p[2]})
    BY <1>2, Zenon DEF OpToRel
  <2>3. QED
    BY ONLY <2>1, <2>2
<1>4. QED
  BY <1>3, Zenon

\* One step of the path, and its first n steps.
Down(o) == IF o # None /\ Kind[o] = "dir" THEN child[o] ELSE None
Steps(n, g) == g[0] = Root /\ \A i \in 1 .. n : g[i] = Down(g[i - 1])

\* There are n steps for every n ...
LEMMA StepsExist == \A n \in Nat : \E g : Steps(n, g)
<1> DEFINE D == {n \in Nat : ~ \E g : Steps(n, g)}
<1> SUFFICES ASSUME D # {} PROVE FALSE
  BY Zenon
<1>1. PICK d \in D : \A e \in D : d <= e
  <2>1. D \subseteq Nat
    BY Zenon
  <2> HIDE DEF D
  <2>2. QED
    BY <2>1, LeastNumber, Zenon
<1>2. d \in Nat /\ ~ \E g : Steps(d, g)
  BY Zenon
<1>3. CASE d = 0
  <2>1. Steps(0, [i \in {0} |-> Root])
    BY DEF Steps
  <2>2. QED
    BY <1>2, <1>3, <2>1, Zenon
<1>4. CASE d # 0
  <2>1. d - 1 \in Nat /\ ~ (d <= d - 1)
    BY <1>2, <1>4
  <2>2. d - 1 \notin D
    BY <1>1, <2>1, Zenon
  <2>3. PICK g : Steps(d - 1, g)
    BY <2>1, <2>2, Zenon
  <2> DEFINE h == [i \in 0 .. d |-> IF i = d THEN Down(g[d - 1]) ELSE g[i]]
  <2>4. Steps(d, h)
    BY <1>2, <1>4, <2>3 DEF Steps
  <2>5. QED
    BY <1>2, <2>4, Zenon
<1>5. QED
  BY <1>3, <1>4

\* ... and only one way to take them.
LEMMA StepsAgree ==
    ASSUME NEW n \in Nat, NEW m \in Nat, NEW g, NEW h, Steps(n, g), Steps(m, h),
           NEW k \in Nat, k <= n, k <= m
    PROVE  g[k] = h[k]
<1> DEFINE D == {i \in Nat : i <= n /\ i <= m /\ g[i] # h[i]}
<1> SUFFICES ASSUME D # {} PROVE FALSE
  BY Zenon
<1>1. PICK d \in D : \A e \in D : d <= e
  <2>1. D \subseteq Nat
    BY Zenon
  <2> HIDE DEF D
  <2>2. QED
    BY <2>1, LeastNumber, Zenon
<1>2. d \in Nat /\ d <= n /\ d <= m /\ g[d] # h[d]
  BY Zenon
<1>3. d # 0
  BY <1>2 DEF Steps
<1>4. d - 1 \in Nat /\ ~ (d <= d - 1) /\ d - 1 <= n /\ d - 1 <= m /\ d \in 1 .. n /\ d \in 1 .. m
  BY <1>2, <1>3
<1>5. g[d - 1] = h[d - 1]
  BY <1>1, <1>4, Zenon
<1>6. g[d] = Down(g[d - 1]) /\ h[d] = Down(h[d - 1])
  BY <1>4, Zenon DEF Steps
<1>7. QED
  BY <1>2, <1>5, <1>6, Zenon

\* The recursive definition of Resolve defines a function.
LEMMA ResolveStep ==
    Resolve[0] = Root /\ \A k \in Nat \ {0} : Resolve[k] = Down(Resolve[k - 1])
<1> DEFINE f == [k \in Nat |-> (CHOOSE g : Steps(k, g))[k]]
           Eq(e) == e = [k \in Nat |-> IF k = 0 THEN Root ELSE Down(e[k - 1])]
<1>1. ASSUME NEW k \in Nat, NEW g, Steps(k, g) PROVE f[k] = g[k]
  <2> DEFINE c == CHOOSE x : Steps(k, x)
  <2>1. Steps(k, c) /\ f[k] = c[k]
    BY <1>1, Zenon
  <2> HIDE DEF c, f
  <2>2. k <= k
    OBVIOUS
  <2>3. c[k] = g[k]
    BY <1>1, <2>1, <2>2, StepsAgree
  <2>4. QED
    BY <2>1, <2>3, Zenon
<1>2. ASSUME NEW k \in Nat PROVE f[k] = IF k = 0 THEN Root ELSE Down(f[k - 1])
  <2>1. PICK g : Steps(k, g)
    BY StepsExist, Zenon
  <2>2. f[k] = g[k]
    BY <1>1, <2>1, Zenon
  <2>3. CASE k = 0
    BY <2>1, <2>2, <2>3, Zenon DEF Steps
  <2>4. CASE k # 0
    <3>1. k - 1 \in Nat /\ k \in 1 .. k /\ \A i \in 1 .. k - 1 : i \in 1 .. k
      BY <2>4
    <3>2. Steps(k - 1, g)
      BY <2>1, <3>1, Zenon DEF Steps
    <3>3. f[k - 1] = g[k - 1]
      BY <1>1, <3>1, <3>2, Zenon
    <3>4. g[k] = Down(g[k - 1])
      BY <2>1, <3>1, Zenon DEF Steps
    <3>5. QED
      BY <2>2, <2>4, <3>3, <3>4, Zenon
  <2>5. QED
    BY <2>3, <2>4
<1>3. Eq(f)
  <2>1. f = [k \in Nat |-> f[k]]
    OBVIOUS
  <2> HIDE DEF f
  <2>2. QED
    BY <1>2, <2>1
<1>4. Resolve = CHOOSE e : Eq(e)
  BY Zenon DEF Resolve, Down
<1>5. Eq(Resolve)
  <2> HIDE DEF Eq, f
  <2>1. QED
    BY <1>3, <1>4, Zenon
<1>6. QED
  BY <1>5

\* The handles of an opener are the path as it is.
LEMMA LinkedIsThePath ==
    ASSUME PathAssumption, NEW hs \in Seq(Object), Linked(hs), Len(hs) <= Depth + 1,
           NEW k \in DOMAIN hs
    PROVE  hs[k] = Resolve[k - 1]
<1> DEFINE D == {i \in Nat : i \in DOMAIN hs /\ hs[i] # Resolve[i - 1]}
<1>0. Len(hs) \in Nat /\ DOMAIN hs = 1 .. Len(hs) /\ Depth \in Nat
  BY DEF PathAssumption
<1> SUFFICES ASSUME D # {} PROVE FALSE
  <2>1. k \in Nat
    BY <1>0
  <2>2. QED
    BY <2>1, Zenon
<1>1. PICK d \in D : \A e \in D : d <= e
  <2>1. D \subseteq Nat
    BY Zenon
  <2> HIDE DEF D
  <2>2. QED
    BY <2>1, LeastNumber, Zenon
<1>2. d \in Nat /\ d \in DOMAIN hs /\ hs[d] # Resolve[d - 1]
  BY Zenon
<1>3. CASE d = 1
  <2>1. hs[1] = Root
    BY <1>2, <1>3 DEF Linked
  <2>2. 1 - 1 = 0
    OBVIOUS
  <2>3. QED
    BY <1>2, <1>3, <2>1, <2>2, ResolveStep, Zenon
<1>4. CASE d # 1
  <2> DEFINE j == d - 1
  <2>1. j \in Nat \ {0} /\ j \in DOMAIN hs /\ ~ (d <= j) /\ j + 1 = d /\ j # Depth + 1
    BY <1>0, <1>2, <1>4
  <2>2. hs[j] = Resolve[j - 1]
    <3> HIDE DEF j
    <3>1. QED
      BY <1>1, <2>1, Zenon
  <2>3. child[hs[j]] = hs[j + 1] /\ Kind[hs[j]] = "dir"
    <3> HIDE DEF j
    <3>1. QED
      BY <1>2, <2>1, Zenon DEF Linked
  <2>4. hs[j] \in Object /\ hs[j] # None
    BY <2>1 DEF PathAssumption
  <2>5. Resolve[j] = Down(Resolve[j - 1])
    BY <2>1, ResolveStep
  <2>6. QED
    BY <1>2, <2>1, <2>2, <2>3, <2>4, <2>5 DEF Down
<1>5. QED
  BY <1>3, <1>4

\* The initial states satisfy the invariant.
LEMMA FInit == ASSUME PathAssumption, PathInit PROVE PathInv
<1>1. Closed \in [pc : {"idle", "walk", "admitted"}, handles : Seq(Object)]
      /\ Closed.pc = "idle" /\ Closed.handles = <<>>
  BY DEF Closed
<1>2. PathTypeOK /\ \A t \in Opener : open[t] = Closed
  BY <1>1, Zenon DEF PathInit, PathTypeOK
<1>3. Linked(<<>>) /\ Len(<<>>) <= Depth + 1
  BY DEF Linked, PathAssumption
<1>4. QED
  BY <1>1, <1>2, <1>3, Zenon DEF PathInv, OpenerInv

\* A step of one opener.
LEMMA FOpenerStep ==
    ASSUME PathInv, NEW t \in Opener, child' = child,
           NEW r \in [pc : {"idle", "walk", "admitted"}, handles : Seq(Object)],
           open' = [open EXCEPT ![t] = r], Linked(r.handles),
           r.pc = "idle" <=> r.handles = <<>>, Len(r.handles) <= Depth + 1,
           r.pc = "admitted" => /\ Len(r.handles) = Depth + 1 /\ Depth >= 3
                                /\ Protected(r.handles) \subseteq Valid
    PROVE  PathInv'
<1>1. PathTypeOK' /\ open'[t] = r /\ \A e \in Opener \ {t} : open'[e] = open[e]
  BY DEF PathInv, PathTypeOK
<1>2. \A hs : Linked(hs) => Linked(hs)'
  BY DEF Linked
<1>3. ASSUME NEW e \in Opener PROVE OpenerInv(e)'
  <2>1. CASE e = t
    BY <1>1, <1>2, <2>1 DEF OpenerInv, Protected
  <2>2. CASE e # t
    <3>1. OpenerInv(e) /\ open'[e] = open[e]
      BY <1>1, <2>2 DEF PathInv
    <3>2. QED
      BY <1>2, <3>1 DEF OpenerInv, Protected
  <2>3. QED
    BY <2>1, <2>2
<1>4. QED
  BY <1>1, <1>3 DEF PathInv

\* The path is refused, or the File closed: every handle goes.
LEMMA FFail == ASSUME PathAssumption, PathInv, NEW t \in Opener, Fail(t), child' = child PROVE PathInv'
<1>1. Closed \in [pc : {"idle", "walk", "admitted"}, handles : Seq(Object)]
      /\ Closed.pc = "idle" /\ Closed.handles = <<>>
  BY DEF Closed
<1>2. Linked(Closed.handles) /\ Len(Closed.handles) <= Depth + 1
  BY <1>1 DEF Linked, PathAssumption
<1>3. QED
  BY <1>1, <1>2, FOpenerStep, Zenon DEF Fail

\* The first handle is that of the root.
LEMMA FOpenRoot == ASSUME PathAssumption, PathInv, NEW t \in Opener, OpenRoot(t) PROVE PathInv'
<1> DEFINE r == [pc |-> "walk", handles |-> <<Root>>]
<1>1. r \in [pc : {"idle", "walk", "admitted"}, handles : Seq(Object)] /\ r.pc = "walk"
      /\ r.handles = <<Root>>
  BY DEF PathAssumption
<1>2. Len(<<Root>>) = 1 /\ <<Root>>[1] = Root /\ DOMAIN <<Root>> = {1} /\ <<Root>> # <<>>
  OBVIOUS
<1>3. Linked(<<Root>>) /\ 1 <= Depth + 1
  BY <1>2 DEF Linked, PathAssumption
<1>4. open' = [open EXCEPT ![t] = r] /\ child' = child
  BY DEF OpenRoot
<1> HIDE DEF r
<1>5. QED
  BY <1>1, <1>2, <1>3, <1>4, FOpenerStep, Zenon

\* A handle is added at the end.
LEMMA Appended ==
    ASSUME NEW hs \in Seq(Object), NEW o \in Object
    PROVE  /\ Append(hs, o) \in Seq(Object) /\ Len(Append(hs, o)) = Len(hs) + 1
           /\ DOMAIN Append(hs, o) = 1 .. Len(hs) + 1 /\ Append(hs, o) # <<>>
           /\ Append(hs, o)[Len(hs) + 1] = o
           /\ \A k \in 1 .. Len(hs) : Append(hs, o)[k] = hs[k]
<1>1. Append(hs, o) \in Seq(Object) /\ Len(Append(hs, o)) = Len(hs) + 1
  OBVIOUS
<1>2. Append(hs, o)[Len(hs) + 1] = o /\ \A k \in 1 .. Len(hs) : Append(hs, o)[k] = hs[k]
  OBVIOUS
<1>3. DOMAIN Append(hs, o) = 1 .. Len(hs) + 1
  BY <1>1
<1>4. Append(hs, o) # <<>>
  <2>1. Len(hs) \in Nat /\ Len(<<>>) = 0
    OBVIOUS
  <2>2. Len(Append(hs, o)) # Len(<<>>)
    BY ONLY <1>1, <2>1
  <2>3. QED
    BY <2>2, Zenon
<1>5. QED
  BY <1>1, <1>2, <1>3, <1>4, Zenon

\* The full path leads to what the last handle's directory holds, so one handle more is one
\* step more.
LEMMA FOpenComponent ==
    ASSUME PathAssumption, PathInv, NEW t \in Opener, OpenComponent(t) PROVE PathInv'
<1> DEFINE hs == open[t].handles
           n == Len(hs)
           o == Resolve[n]
           new == Append(hs, o)
           r == [open[t] EXCEPT !.handles = new]
<1>1. /\ open[t].pc = "walk" /\ n <= Depth /\ o # None /\ Kind[o] = Wanted(t)
      /\ open' = [open EXCEPT ![t].handles = Append(@, o)] /\ child' = child
  BY Zenon DEF OpenComponent
<1>2. /\ PathTypeOK /\ open[t] \in [pc : {"idle", "walk", "admitted"}, handles : Seq(Object)]
      /\ OpenerInv(t) /\ hs \in Seq(Object)
  BY DEF PathInv, PathTypeOK
<1>3. Linked(hs) /\ hs # <<>> /\ n \in Nat \ {0} /\ n \in DOMAIN hs /\ Depth \in Nat
  <2>1. Linked(hs) /\ hs # <<>>
    BY <1>1, <1>2 DEF OpenerInv
  <2>2. QED
    BY <1>2, <2>1 DEF PathAssumption
<1>4. hs[n] = Resolve[n - 1]
  BY <1>1, <1>2, <1>3, LinkedIsThePath
<1>5. hs[n] \in Object /\ Kind[hs[n]] = "dir" /\ hs[n] # None
  BY <1>1, <1>2, <1>3 DEF Linked, PathAssumption
<1>6. o = child[hs[n]] /\ o \in Object
  <2>1. o = Down(hs[n])
    BY <1>3, <1>4, ResolveStep
  <2>2. o = child[hs[n]]
    BY <1>5, <2>1 DEF Down
  <2>3. QED
    BY <1>1, <1>2, <1>5, <2>2 DEF PathTypeOK, Entry
<1>7. open' = [open EXCEPT ![t] = r]
  BY <1>1
<1>8. Kind[o] = IF n + 1 = Depth + 1 THEN "file" ELSE "dir"
  BY <1>1, <1>3 DEF Wanted
<1> HIDE DEF o
<1>9. /\ new \in Seq(Object) /\ Len(new) = n + 1 /\ DOMAIN new = 1 .. n + 1 /\ new # <<>>
      /\ new[n + 1] = o /\ \A k \in 1 .. n : new[k] = hs[k]
  BY <1>2, <1>6, Appended, ZenonT(30)
<1>10. r \in [pc : {"idle", "walk", "admitted"}, handles : Seq(Object)]
       /\ r.pc = "walk" /\ r.handles = new
  BY <1>1, <1>2, <1>9, Zenon
<1> HIDE DEF new, r
<1>11. Linked(new)
  <2>1. new[1] = Root
    BY <1>3, <1>9 DEF Linked
  <2>2. ASSUME NEW k \in DOMAIN new
        PROVE  /\ Kind[new[k]] = IF k = Depth + 1 THEN "file" ELSE "dir"
               /\ k + 1 \in DOMAIN new => child[new[k]] = new[k + 1]
    <3>1. CASE k = n + 1
      BY <1>3, <1>8, <1>9, <3>1
    <3>2. CASE k # n + 1
      <4>1. k \in DOMAIN hs /\ new[k] = hs[k] /\ k \in 1 .. n
        BY <1>2, <1>3, <1>9, <3>2
      <4>2. Kind[new[k]] = IF k = Depth + 1 THEN "file" ELSE "dir"
        BY <1>3, <4>1, ZenonT(30) DEF Linked
      <4>3. CASE k = n
        BY <1>6, <1>9, <4>1, <4>2, <4>3
      <4>4. CASE k # n
        <5>1. k + 1 \in DOMAIN hs /\ k + 1 \in 1 .. n
          BY <1>2, <1>3, <4>1, <4>4
        <5>2. child[hs[k]] = hs[k + 1]
          BY <1>3, <4>1, <5>1, Zenon DEF Linked
        <5>3. QED
          BY <1>9, <4>1, <4>2, <5>1, <5>2, Zenon
      <4>5. QED
        BY <4>3, <4>4
    <3>3. QED
      BY <3>1, <3>2
  <2>3. QED
    BY <2>1, <2>2, Zenon DEF Linked
<1>12. Len(new) <= Depth + 1
  BY <1>1, <1>3, <1>9
<1>13. QED
  BY <1>1, <1>7, <1>9, <1>10, <1>11, <1>12, FOpenerStep, Zenon

\* The walk is complete, and the path is admitted or refused.
LEMMA FValidate == ASSUME PathAssumption, PathInv, NEW t \in Opener, Validate(t) PROVE PathInv'
<1> DEFINE hs == open[t].handles
           r == [open[t] EXCEPT !.pc = "admitted"]
<1>1. open[t].pc = "walk" /\ Len(hs) = Depth + 1 /\ child' = child
  BY Zenon DEF Validate
<1>2. CASE Fail(t)
  BY <1>1, <1>2, FFail
<1>3. CASE Depth >= 3 /\ Protected(hs) \subseteq Valid /\ open' = [open EXCEPT ![t].pc = "admitted"]
  <2>1. /\ open[t] \in [pc : {"idle", "walk", "admitted"}, handles : Seq(Object)]
        /\ Linked(hs) /\ hs # <<>>
    BY <1>1 DEF PathInv, PathTypeOK, OpenerInv
  <2>2. /\ r \in [pc : {"idle", "walk", "admitted"}, handles : Seq(Object)]
        /\ r.pc = "admitted" /\ r.handles = hs
    BY <2>1
  <2>3. open' = [open EXCEPT ![t] = r]
    BY <1>3
  <2> HIDE DEF r
  <2>4. Linked(r.handles) /\ (r.pc = "idle" <=> r.handles = <<>>)
    BY <2>1, <2>2, Zenon
  <2>5. Len(r.handles) <= Depth + 1
    BY <1>1, <2>2 DEF PathAssumption
  <2>6. Len(r.handles) = Depth + 1 /\ Depth >= 3 /\ Protected(r.handles) \subseteq Valid
    BY <1>1, <1>3, <2>2, Zenon
  <2>7. QED
    BY ONLY PathInv, t \in Opener, <1>1, <2>2, <2>3, <2>4, <2>5, <2>6, FOpenerStep, Zenon
<1>4. QED
  BY <1>2, <1>3, Zenon DEF Validate

\* What somebody holds cannot be replaced, so every link of every opener stays.
LEMMA FReplace == ASSUME PathInv, NEW d \in DOMAIN child, Replace(d) PROVE PathInv'
<1>1. PICK o \in Entry : child' = [child EXCEPT ![d] = o]
  BY Zenon DEF Replace
<1>2. child[d] \notin Held /\ open' = open
  BY Zenon DEF Replace
<1>3. PathTypeOK'
  BY <1>1, <1>2 DEF PathInv, PathTypeOK
<1>4. ASSUME NEW t \in Opener PROVE OpenerInv(t)'
  <2> DEFINE hs == open[t].handles
  <2>1. OpenerInv(t) /\ Linked(hs) /\ hs \in Seq(Object)
    BY DEF PathInv, OpenerInv, PathTypeOK
  <2>2. \A k \in DOMAIN hs : hs[k] \in Held
    <3>1. \A k \in DOMAIN hs : hs[k] \in Range(hs)
      BY Zenon DEF Range
    <3>2. Range(hs) \in {Range(open[e].handles) : e \in Opener}
      BY ZenonT(30)
    <3>3. QED
      BY <3>1, <3>2, Zenon DEF Held
  <2>3. ASSUME NEW k \in DOMAIN hs, k + 1 \in DOMAIN hs PROVE child'[hs[k]] = hs[k + 1]
    <3>1. child[hs[k]] = hs[k + 1] /\ hs[k] # d
      BY <1>2, <2>1, <2>2, <2>3, ZenonT(30) DEF Linked
    <3>2. QED
      BY <1>1, <3>1 DEF PathInv, PathTypeOK
  <2>4. Linked(hs)'
    BY <1>2, <2>1, <2>3 DEF Linked
  <2>5. QED
    BY <1>2, <2>1, <2>4 DEF OpenerInv, Protected
<1>5. QED
  BY <1>3, <1>4 DEF PathInv

\* Every step keeps the invariant: one lemma for each action.
LEMMA FNext == ASSUME PathAssumption, PathInv, [PathNext]_(pathVars) PROVE PathInv'
<1>1. ASSUME NEW t \in Opener, ComponentFails(t) \/ Close(t) PROVE PathInv'
  <2>1. Fail(t) /\ child' = child
    BY <1>1, Zenon DEF ComponentFails, Close
  <2>2. QED
    BY <2>1, FFail
<1>2. CASE UNCHANGED pathVars
  <2>1. child' = child /\ open' = open
    BY <1>2, Zenon DEF pathVars
  <2>2. \A hs : Linked(hs) => Linked(hs)'
    BY <2>1 DEF Linked
  <2>3. \A t \in Opener : OpenerInv(t) => OpenerInv(t)'
    BY <2>1, <2>2 DEF OpenerInv, Protected
  <2>4. QED
    BY <2>1, <2>3 DEF PathInv, PathTypeOK
<1>3. QED
  BY <1>1, <1>2, FOpenRoot, FOpenComponent, FValidate, FReplace, Zenon DEF PathNext

\* The invariant of openPath.
THEOREM PathInvariance == ASSUME PathAssumption PROVE PathSpec => []PathInv
<1>1. PathInit => PathInv
  BY FInit
<1>2. PathInv /\ [PathNext]_(pathVars) => PathInv'
  BY FNext
<1>3. QED
  BY <1>1, <1>2, PTL DEF PathSpec

\* Whoever opens the path and however it is rebuilt meanwhile, the handles held are the path
\* as it is at that moment, component by component, for a path of any depth.
THEOREM HeldHandlesAreThePath ==
    ASSUME PathAssumption PROVE PathSpec => [](HandlesAreThePath /\ NothingLeftHeld)
<1>1. PathInv => HandlesAreThePath
  <2> SUFFICES ASSUME PathInv, NEW t \in Opener, NEW k \in DOMAIN open[t].handles
               PROVE  open[t].handles[k] = Resolve[k - 1]
    BY Zenon DEF HandlesAreThePath
  <2>1. open[t].handles \in Seq(Object) /\ OpenerInv(t)
    BY DEF PathInv, PathTypeOK
  <2>2. QED
    BY <2>1, LinkedIsThePath DEF OpenerInv
<1>2. PathInv => NothingLeftHeld
  BY DEF PathInv, PathTypeOK, OpenerInv, NothingLeftHeld
<1>3. QED
  BY <1>1, <1>2, PathInvariance, PTL

\* What Open admits is a file, and it, its parent and its grandparent were validated and are
\* still where the path leads.
THEOREM AdmittedStaysProtected ==
    ASSUME PathAssumption PROVE PathSpec => []AdmittedIsProtected
<1>1. PathInv => AdmittedIsProtected
  <2> SUFFICES ASSUME PathInv, NEW t \in Opener, open[t].pc = "admitted"
               PROVE  /\ {Resolve[k] : k \in Depth - 2 .. Depth} \subseteq Valid
                      /\ Kind[Resolve[Depth]] = "file"
    BY Zenon DEF AdmittedIsProtected
  <2> DEFINE hs == open[t].handles
  <2>1. /\ hs \in Seq(Object) /\ Linked(hs) /\ Len(hs) = Depth + 1 /\ Depth >= 3
        /\ Protected(hs) \subseteq Valid
    BY DEF PathInv, PathTypeOK, OpenerInv
  <2>2. Depth \in Nat
    BY DEF PathAssumption
  <2>3. ASSUME NEW k \in Depth - 2 .. Depth
        PROVE  Resolve[k] = hs[k + 1] /\ k + 1 \in Len(hs) - 2 .. Len(hs)
    <3>1. k + 1 \in DOMAIN hs /\ (k + 1) - 1 = k /\ k + 1 \in Len(hs) - 2 .. Len(hs)
      BY <2>1, <2>2
    <3>2. Len(hs) <= Depth + 1
      BY <2>1, <2>2
    <3>3. hs[k + 1] = Resolve[(k + 1) - 1]
      BY <2>1, <3>1, <3>2, LinkedIsThePath
    <3>4. QED
      BY <3>1, <3>3
  <2>4. {Resolve[k] : k \in Depth - 2 .. Depth} \subseteq Valid
    BY <2>1, <2>3 DEF Protected
  <2>5. Depth \in Depth - 2 .. Depth /\ Depth + 1 \in DOMAIN hs
    BY <2>1, <2>2
  <2>6. Kind[Resolve[Depth]] = "file"
    BY <2>1, <2>3, <2>5, Zenon DEF Linked
  <2>7. QED
    BY <2>4, <2>6
<1>2. QED
  BY <1>1, PathInvariance, PTL

\* What an opener holds is the path, what it is given stays protected, and what it was
\* refused or has closed is free, for any tree, depth and openers.
THEOREM HeldIsAlwaysThePath == ASSUME PathAssumption PROVE PathSpec => []HeldIsThePath
<1>1. HandlesAreThePath /\ NothingLeftHeld /\ AdmittedIsProtected /\ PathInv => HeldIsThePath
  BY Zenon DEF HeldIsThePath
<1>2. QED
  BY <1>1, PathInvariance, HeldHandlesAreThePath, AdmittedStaysProtected, PTL

-----------------------------------------------------------------------
(* The injection.                                                        *)

\* Induction: a set of naturals that holds 0 and the successor of each of its elements.
LEMMA SetInduction ==
    ASSUME NEW S \in SUBSET Nat, 0 \in S, \A n \in S : n + 1 \in S
    PROVE  S = Nat
<1> SUFFICES ASSUME Nat \ S # {} PROVE FALSE
  BY Zenon
<1> DEFINE Rest == Nat \ S
<1>1. PICK x \in Rest : \A y \in Rest : x <= y
  BY LeastNumber, Zenon
<1>2. x # 0 /\ x - 1 \in Nat /\ ~ (x <= x - 1)
  OBVIOUS
<1>3. x - 1 \in S
  BY <1>1, <1>2, Zenon
<1>4. QED
  BY <1>2, <1>3

-----------------------------------------------------------------------
(* mergeCSV.                                                             *)

\* The loop over the tokens of s, with out as f leaves it after each.
Loop(s, f) == f = [k \in 0 .. Len(s) |-> IF k = 0 THEN <<>> ELSE AppendToken(f[k - 1], s[k])]
Rounds(n, s, f) == f[0] = <<>> /\ \A k \in 1 .. n : f[k] = AppendToken(f[k - 1], s[k])

\* What appendToken appends to.
LEMMA AppendTokenType ==
    ASSUME NEW T, NEW out \in Seq(T), NEW t \in T PROVE AppendToken(out, t) \in Seq(T)
  BY DEF AppendToken

\* The loop is defined, however many tokens there are.
LEMMA LoopRuns ==
    ASSUME NEW T, NEW s \in Seq(T)
    PROVE  \A n \in Nat : n <= Len(s) => \E f \in [0 .. n -> Seq(T)] : Rounds(n, s, f)
<1> DEFINE P(n) == n <= Len(s) => \E f \in [0 .. n -> Seq(T)] : Rounds(n, s, f)
           S == {n \in Nat : P(n)}
<1>1. P(0)
  <2> DEFINE f == [k \in 0 .. 0 |-> <<>>]
  <2>1. f \in [0 .. 0 -> Seq(T)] /\ f[0] = <<>>
    OBVIOUS
  <2>2. Rounds(0, s, f)
    BY <2>1 DEF Rounds
  <2>3. QED
    BY <2>1, <2>2, Zenon
<1>2. ASSUME NEW n \in Nat, P(n) PROVE P(n + 1)
  <2>1. SUFFICES ASSUME n + 1 <= Len(s)
                 PROVE  \E g \in [0 .. n + 1 -> Seq(T)] : Rounds(n + 1, s, g)
    BY Zenon
  <2>2. n <= Len(s) /\ n + 1 \in 1 .. Len(s) /\ s[n + 1] \in T
    BY <2>1
  <2>3. PICK f \in [0 .. n -> Seq(T)] : Rounds(n, s, f)
    BY <1>2, <2>2, Zenon
  <2> DEFINE v == AppendToken(f[n], s[n + 1])
             g == [k \in 0 .. n + 1 |-> IF k = n + 1 THEN v ELSE f[k]]
  <2>4. v \in Seq(T)
    <3>1. f[n] \in Seq(T)
      OBVIOUS
    <3>2. QED
      BY <2>2, <3>1, AppendTokenType, Zenon
  <2> HIDE DEF v
  <2>5. g \in [0 .. n + 1 -> Seq(T)]
    BY <2>4
  <2>6. g[0] = f[0] /\ g[n + 1] = v /\ \A k \in 1 .. n : g[k] = f[k] /\ g[k - 1] = f[k - 1]
    OBVIOUS
  <2>7. g[(n + 1) - 1] = f[n]
    OBVIOUS
  <2> HIDE DEF g
  <2>8. ASSUME NEW k \in 1 .. n + 1 PROVE g[k] = AppendToken(g[k - 1], s[k])
    <3>1. CASE k = n + 1
      BY <2>6, <2>7, <3>1 DEF v
    <3>2. CASE k # n + 1
      <4>1. k \in 1 .. n
        BY <3>2
      <4>2. QED
        BY <2>3, <2>6, <4>1, Zenon DEF Rounds
    <3>3. QED
      BY <3>1, <3>2
  <2>9. QED
    BY <2>3, <2>5, <2>6, <2>8, Zenon DEF Rounds
<1>3. \A n \in S : n + 1 \in S
  <2>1. ASSUME NEW n \in S PROVE n + 1 \in S
    <3>1. n \in Nat /\ P(n) /\ n + 1 \in Nat
      OBVIOUS
    <3> HIDE DEF P
    <3>2. P(n + 1)
      BY <1>2, <3>1
    <3>3. QED
      BY <3>1, <3>2
  <2>2. QED
    BY <2>1
<1> HIDE DEF P
<1>4. S = Nat
  BY <1>1, <1>3, SetInduction, Zenon
<1>5. QED
  BY <1>4 DEF P

\* mergeCSV returns what is left after the last token.
LEMMA MergeLoop ==
    ASSUME NEW T, NEW e \in Seq(T), NEW a \in Seq(T)
    PROVE  \E f \in [0 .. Len(e \o a) -> Seq(T)] :
             Rounds(Len(e \o a), e \o a, f) /\ MergeCSV(e, a) = f[Len(e \o a)]
<1> DEFINE s == e \o a
           g == CHOOSE f : Loop(s, f)
<1>1. s \in Seq(T) /\ Len(s) \in Nat
  OBVIOUS
<1>2. MergeCSV(e, a) = g[Len(s)]
  BY Zenon DEF MergeCSV, Loop
<1> HIDE DEF s
<1>3. PICK f \in [0 .. Len(s) -> Seq(T)] : Rounds(Len(s), s, f)
  <2>1. Len(s) <= Len(s)
    BY <1>1
  <2>2. QED
    BY <1>1, <2>1, LoopRuns, Zenon
<1>4. Loop(s, f)
  <2>1. f = [k \in 0 .. Len(s) |-> f[k]]
    OBVIOUS
  <2>2. \A k \in 0 .. Len(s) : f[k] = IF k = 0 THEN <<>> ELSE AppendToken(f[k - 1], s[k])
    BY <1>1, <1>3 DEF Rounds
  <2>3. QED
    BY <2>1, <2>2, Zenon DEF Loop
<1>5. Loop(s, g)
  BY <1>4, Zenon
<1> HIDE DEF g
\* The loop is one: both start empty, and each round depends on the one before.
<1>6. g[0] = <<>> /\ \A k \in 1 .. Len(s) : g[k] = AppendToken(g[k - 1], s[k])
  BY <1>1, <1>5 DEF Loop
<1>7. \A n \in Nat : n <= Len(s) => g[n] = f[n]
  <2> DEFINE S == {n \in Nat : n <= Len(s) => g[n] = f[n]}
  <2>1. 0 \in S
    BY <1>3, <1>6 DEF Rounds
  <2>2. ASSUME NEW n \in S PROVE n + 1 \in S
    <3>1. CASE n + 1 <= Len(s)
      <4>1. n + 1 \in 1 .. Len(s) /\ (n + 1) - 1 = n /\ g[n] = f[n]
        BY <1>1, <3>1
      <4>2. g[n + 1] = AppendToken(g[n], s[n + 1]) /\ f[n + 1] = AppendToken(f[n], s[n + 1])
        BY <1>3, <1>6, <4>1 DEF Rounds
      <4>3. QED
        BY <4>1, <4>2
    <3>2. QED
      BY <3>1
  <2>3. S = Nat
    BY <2>1, <2>2, SetInduction, Zenon
  <2>4. QED
    BY <2>3
<1>8. g[Len(s)] = f[Len(s)]
  BY <1>1, <1>7
<1>9. QED
  BY <1>2, <1>3, <1>8, Zenon DEF s

Before(k, s) == {s[i] : i \in 1 .. k}
Once(s) == \A i, j \in DOMAIN s : s[i] = s[j] => i = j

\* One round adds its token unless it is blank or there already.
LEMMA RoundAdds ==
    ASSUME NEW T, NEW out \in Seq(T), NEW t \in T, Once(out)
    PROVE  /\ Tokens(AppendToken(out, t)) = Tokens(out) \cup ({t} \ {Blank})
           /\ Once(AppendToken(out, t))
<1>1. CASE t = Blank \/ t \in Tokens(out)
  BY <1>1 DEF AppendToken, Tokens
<1>2. CASE ~ (t = Blank \/ t \in Tokens(out))
  <2> DEFINE new == Append(out, t)
  <2>1. AppendToken(out, t) = new
    BY <1>2 DEF AppendToken
  <2>2. /\ DOMAIN new = 1 .. Len(out) + 1 /\ DOMAIN out = 1 .. Len(out) /\ Len(out) \in Nat
        /\ new[Len(out) + 1] = t /\ \A i \in 1 .. Len(out) : new[i] = out[i]
    OBVIOUS
  <2> HIDE DEF new
  <2>3. Tokens(new) = Tokens(out) \cup {t}
    BY <2>2 DEF Tokens
  <2>4. ASSUME NEW i \in DOMAIN new, NEW j \in DOMAIN new, new[i] = new[j] PROVE i = j
    <3>1. CASE i \in 1 .. Len(out) /\ j \in 1 .. Len(out)
      BY <2>2, <2>4, <3>1 DEF Once
    <3>2. CASE i = Len(out) + 1 /\ j \in 1 .. Len(out)
      BY <1>2, <2>2, <2>4, <3>2 DEF Tokens
    <3>3. CASE j = Len(out) + 1 /\ i \in 1 .. Len(out)
      BY <1>2, <2>2, <2>4, <3>3 DEF Tokens
    <3>4. CASE i = Len(out) + 1 /\ j = Len(out) + 1
      BY <3>4
    <3>5. QED
      BY <2>2, <3>1, <3>2, <3>3, <3>4
  <2>5. QED
    BY <1>2, <2>1, <2>3, <2>4 DEF Once
<1>3. QED
  BY <1>1, <1>2

\* After k rounds the first k tokens are there, once each and without the blank one.
LEMMA RoundsHold ==
    ASSUME NEW T, NEW s \in Seq(T), NEW f \in [0 .. Len(s) -> Seq(T)], Rounds(Len(s), s, f)
    PROVE  \A n \in Nat : n <= Len(s) => Tokens(f[n]) = Before(n, s) \ {Blank} /\ Once(f[n])
<1> DEFINE Q(n) == Tokens(f[n]) = Before(n, s) \ {Blank} /\ Once(f[n])
           S == {n \in Nat : n <= Len(s) => Q(n)}
<1>0. Len(s) \in Nat /\ DOMAIN s = 1 .. Len(s)
  OBVIOUS
<1>1. Q(0)
  <2>1. f[0] = <<>>
    BY DEF Rounds
  <2>2. QED
    BY <2>1 DEF Tokens, Before, Once
<1>2. ASSUME NEW n \in Nat, Q(n), n + 1 <= Len(s) PROVE Q(n + 1)
  <2>1. n + 1 \in 1 .. Len(s) /\ (n + 1) - 1 = n /\ n \in 0 .. Len(s) /\ s[n + 1] \in T
    BY <1>0, <1>2
  <2>2. f[n + 1] = AppendToken(f[n], s[n + 1]) /\ f[n] \in Seq(T)
    BY <2>1 DEF Rounds
  <2>3. Before(n + 1, s) = Before(n, s) \cup {s[n + 1]}
    BY <1>2, <2>1 DEF Before
  <2>4. /\ Tokens(f[n + 1]) = Tokens(f[n]) \cup ({s[n + 1]} \ {Blank})
        /\ Once(f[n + 1])
    <3>1. Once(f[n])
      BY <1>2
    <3>2. /\ Tokens(AppendToken(f[n], s[n + 1])) = Tokens(f[n]) \cup ({s[n + 1]} \ {Blank})
          /\ Once(AppendToken(f[n], s[n + 1]))
      BY ONLY <2>1, <2>2, <3>1, RoundAdds, Zenon
    <3>3. QED
      BY ONLY <2>2, <3>2, Zenon
  <2>5. QED
    BY <1>2, <2>3, <2>4
<1> HIDE DEF Q
<1>3. ASSUME NEW n \in S PROVE n + 1 \in S
  BY <1>0, <1>2, <1>3
<1>4. S = Nat
  BY <1>1, <1>3, SetInduction, Zenon
<1>5. QED
  BY <1>4 DEF Q

\* mergeCSV: the tokens of both, without the blank one, each once.
LEMMA Merged ==
    ASSUME NEW T, NEW e \in Seq(T), NEW a \in Seq(T)
    PROVE  /\ MergeCSV(e, a) \in Seq(T)
           /\ Tokens(MergeCSV(e, a)) = (Tokens(e) \cup Tokens(a)) \ {Blank}
           /\ Once(MergeCSV(e, a))
<1> DEFINE s == e \o a
<1>1. /\ s \in Seq(T) /\ Len(s) \in Nat /\ Len(s) <= Len(s)
      /\ Before(Len(s), s) = Tokens(s)
  BY DEF Before, Tokens
<1>2. Tokens(s) = Tokens(e) \cup Tokens(a)
  <2>1. /\ DOMAIN s = 1 .. Len(e) + Len(a) /\ DOMAIN e = 1 .. Len(e) /\ DOMAIN a = 1 .. Len(a)
        /\ Len(e) \in Nat /\ Len(a) \in Nat
        /\ \A k \in 1 .. Len(e) : s[k] = e[k]
        /\ \A k \in 1 .. Len(a) : s[Len(e) + k] = a[k]
    OBVIOUS
  <2> HIDE DEF s
  <2>2. Tokens(s) \subseteq Tokens(e) \cup Tokens(a)
    <3>1. ASSUME NEW k \in DOMAIN s PROVE s[k] \in Tokens(e) \cup Tokens(a)
      <4>1. CASE k <= Len(e)
        BY <2>1, <4>1 DEF Tokens
      <4>2. CASE k > Len(e)
        <5>1. k - Len(e) \in 1 .. Len(a) /\ Len(e) + (k - Len(e)) = k
          BY <2>1, <4>2
        <5>2. s[k] = a[k - Len(e)]
          BY <2>1, <5>1
        <5>3. QED
          BY <2>1, <5>1, <5>2 DEF Tokens
      <4>3. QED
        BY <2>1, <4>1, <4>2
    <3>2. QED
      BY <3>1 DEF Tokens
  <2>3. Tokens(e) \cup Tokens(a) \subseteq Tokens(s)
    <3>1. /\ \A k \in DOMAIN e : k \in DOMAIN s /\ s[k] = e[k]
          /\ \A k \in DOMAIN a : Len(e) + k \in DOMAIN s /\ s[Len(e) + k] = a[k]
      BY <2>1
    <3>2. QED
      BY <3>1 DEF Tokens
  <2>4. QED
    BY <2>2, <2>3
<1> HIDE DEF s
<1>3. PICK f \in [0 .. Len(s) -> Seq(T)] : Rounds(Len(s), s, f) /\ MergeCSV(e, a) = f[Len(s)]
  BY MergeLoop, Zenon DEF s
<1>4. Tokens(f[Len(s)]) = Before(Len(s), s) \ {Blank} /\ Once(f[Len(s)])
  BY <1>1, <1>3, RoundsHold, Zenon
<1>5. f[Len(s)] \in Seq(T)
  <2>1. Len(s) \in 0 .. Len(s)
    BY <1>1
  <2>2. QED
    BY <2>1, Zenon
<1>6. QED
  BY <1>1, <1>2, <1>3, <1>4, <1>5, Zenon

\* Merging the same tokens again changes nothing.
LEMMA MergedAgain ==
    ASSUME NEW T, NEW g \in Seq(T), NEW a \in Seq(T), Once(g), Blank \notin Tokens(g),
           Tokens(a) \ {Blank} \subseteq Tokens(g)
    PROVE  MergeCSV(g, a) = g
<1> DEFINE s == g \o a
           P(n) == IF n <= Len(g) THEN n ELSE Len(g)
<1>1. /\ Len(s) = Len(g) + Len(a) /\ Len(g) \in Nat /\ Len(a) \in Nat
      /\ \A k \in 1 .. Len(g) : s[k] = g[k]
      /\ \A k \in Len(g) + 1 .. Len(g) + Len(a) : k - Len(g) \in 1 .. Len(a) /\ s[k] = a[k - Len(g)]
      /\ DOMAIN g = 1 .. Len(g) /\ DOMAIN a = 1 .. Len(a)
  OBVIOUS
<1>0. Len(g) \in Nat /\ Len(a) \in Nat /\ Len(s) = Len(g) + Len(a)
  BY <1>1
<1> HIDE DEF s
<1>2. PICK f \in [0 .. Len(s) -> Seq(T)] : Rounds(Len(s), s, f) /\ MergeCSV(g, a) = f[Len(s)]
  BY MergeLoop, Zenon DEF s
<1> DEFINE S == {n \in Nat : n <= Len(s) => f[n] = SubSeq(g, 1, P(n))}
<1>3. 0 \in S
  <2>1. f[0] = <<>>
    BY <1>2 DEF Rounds
  <2>2. P(0) = 0 /\ SubSeq(g, 1, 0) = <<>>
    BY <1>1
  <2>3. QED
    BY <2>1, <2>2
<1>4. ASSUME NEW n \in Nat, n + 1 <= Len(s), f[n] = SubSeq(g, 1, P(n))
      PROVE  f[n + 1] = SubSeq(g, 1, P(n + 1))
  <2>1. f[n + 1] = AppendToken(f[n], s[n + 1])
    <3>1. n + 1 \in 1 .. Len(s) /\ (n + 1) - 1 = n
      BY <1>1, <1>4
    <3>2. QED
      BY <1>2, <3>1 DEF Rounds
  <2>2. CASE n + 1 <= Len(g)
    <3>1. P(n) = n /\ P(n + 1) = n + 1 /\ s[n + 1] = g[n + 1] /\ n + 1 \in DOMAIN g
      <4>1. n <= Len(g) /\ n + 1 \in 1 .. Len(g)
        BY <1>1, <2>2
      <4>2. QED
        BY <1>1, <2>2, <4>1, Zenon
    <3>2. g[n + 1] \notin Tokens(SubSeq(g, 1, n)) /\ g[n + 1] # Blank
      <4>1. \A i \in DOMAIN SubSeq(g, 1, n) : i \in 1 .. n /\ i \in DOMAIN g /\ SubSeq(g, 1, n)[i] = g[i]
        BY <1>1, <2>2
      <4>2. QED
        BY <3>1, <4>1 DEF Once, Tokens
    <3>3. SubSeq(g, 1, n + 1) = Append(SubSeq(g, 1, n), g[n + 1])
      BY <1>1, <2>2
    <3>4. QED
      BY <1>4, <2>1, <3>1, <3>2, <3>3, Zenon DEF AppendToken
  <2>3. CASE n + 1 > Len(g)
    <3>1. P(n) = Len(g) /\ P(n + 1) = Len(g) /\ n + 1 \in Len(g) + 1 .. Len(g) + Len(a)
      <4>1. ~ (n + 1 <= Len(g)) /\ (n <= Len(g) => n = Len(g))
        BY ONLY <1>0, <2>3, n \in Nat
      <4>2. n + 1 \in Len(g) + 1 .. Len(g) + Len(a)
        BY <1>1, <1>4, <2>3
      <4>3. QED
        BY <4>1, <4>2, Zenon
    <3>2. SubSeq(g, 1, Len(g)) = g
      BY <1>1
    <3>3. s[n + 1] \in Tokens(a)
      BY <1>1, <3>1, ZenonT(30) DEF Tokens
    <3>4. QED
      BY <1>4, <2>1, <3>1, <3>2, <3>3, ZenonT(30) DEF AppendToken
  <2>4. QED
    BY <1>1, <2>2, <2>3
<1> HIDE DEF P
<1>5. ASSUME NEW n \in S PROVE n + 1 \in S
  BY <1>1, <1>4, <1>5
<1>6. S = Nat
  BY <1>3, <1>5, SetInduction, Zenon
<1>7. f[Len(s)] = SubSeq(g, 1, P(Len(s))) /\ P(Len(s)) = Len(g)
  <2>1. Len(s) \in Nat /\ Len(s) <= Len(s) /\ (Len(s) <= Len(g) => Len(s) = Len(g))
    BY ONLY <1>0
  <2>2. P(Len(s)) = Len(g)
    BY <2>1, Zenon DEF P
  <2>3. QED
    BY <1>6, <2>1, <2>2
<1>8. SubSeq(g, 1, Len(g)) = g
  BY <1>1
<1>9. QED
  BY <1>2, <1>7, <1>8

-----------------------------------------------------------------------
(* planRequest and applyPlan.                                             *)

Headers == [Name -> Seq(Seq(HeaderToken))]

\* The header with what the injection sets.
WithHeaders(header, inj) ==
    [n \in Name |-> IF n \in DOMAIN inj.headers THEN <<inj.headers[n]>> ELSE header[n]]

\* What an injection makes of a header, name by name: it is set ...
LEMMA HeaderSet ==
    ASSUME NEW header, NEW inj, NEW n \in Name, n \in DOMAIN inj.headers
    PROVE  WithHeaders(header, inj)[n] = <<inj.headers[n]>>
  BY Zenon DEF WithHeaders

\* ... a header the injection does not set stays.
LEMMA HeaderKept ==
    ASSUME NEW header, NEW inj, NEW n \in Name, n \notin DOMAIN inj.headers
    PROVE  WithHeaders(header, inj)[n] = header[n]
  BY Zenon DEF WithHeaders

\* A header the injection appends to is merged into one line ...
LEMMA InjectedMerged ==
    ASSUME NEW header, NEW inj, NEW n \in Name, n \in DOMAIN inj.appends
    PROVE  Injected(header, inj)[n] = <<MergeCSV(GetHeader(WithHeaders(header, inj)[n]), inj.appends[n])>>
  BY Zenon DEF Injected, WithHeaders

\* ... and one it does not append to stays.
LEMMA InjectedKept ==
    ASSUME NEW header, NEW inj, NEW n \in Name, n \notin DOMAIN inj.appends
    PROVE  Injected(header, inj)[n] = WithHeaders(header, inj)[n]
  BY Zenon DEF Injected, WithHeaders

\* What is appended depends on nothing but what is there.
LEMMA InjectedSame ==
    ASSUME NEW b, NEW h, NEW inj, NEW n \in Name, WithHeaders(b, inj)[n] = WithHeaders(h, inj)[n]
    PROVE  Injected(b, inj)[n] = Injected(h, inj)[n]
<1>1. CASE n \in DOMAIN inj.appends
  BY <1>1, InjectedMerged
<1>2. CASE n \notin DOMAIN inj.appends
  BY <1>2, InjectedKept
<1>3. QED
  BY <1>1, <1>2

\* The first line of a header.
LEMMA GetHeaderType ==
    ASSUME NEW lines \in Seq(Seq(HeaderToken)) PROVE GetHeader(lines) \in Seq(HeaderToken)
  BY DEF GetHeader

\* The header of a request that is sent on, in the types of the one that came in.
LEMMA PlanHeader ==
    ASSUME InjectionAssumption, NEW header \in Headers, NEW inj \in Injections
    PROVE  /\ Stripped(header) \in Headers
           /\ WithHeaders(header, inj) \in Headers
           /\ Injected(header, inj) \in Headers
<1>1. Stripped(header) \in Headers
  BY DEF InjectionAssumption, Stripped, Headers
<1>2. WithHeaders(header, inj) \in Headers
  <2>1. ASSUME NEW n \in Name PROVE WithHeaders(header, inj)[n] \in Seq(Seq(HeaderToken))
    <3>1. CASE n \in DOMAIN inj.headers
      <4>1. inj.headers[n] \in Seq(HeaderToken) /\ WithHeaders(header, inj)[n] = <<inj.headers[n]>>
        BY <3>1, HeaderSet DEF InjectionAssumption
      <4>2. QED
        BY <4>1
    <3>2. CASE n \notin DOMAIN inj.headers
      BY <3>2, HeaderKept DEF Headers
    <3>3. QED
      BY <3>1, <3>2
  <2>2. WithHeaders(header, inj) = [n \in Name |-> WithHeaders(header, inj)[n]]
    BY DEF WithHeaders
  <2>3. QED
    BY <2>1, <2>2, ZenonT(30) DEF Headers
<1>3. ASSUME NEW n \in Name PROVE Injected(header, inj)[n] \in Seq(Seq(HeaderToken))
  <2>1. WithHeaders(header, inj)[n] \in Seq(Seq(HeaderToken))
    BY <1>2 DEF Headers
  <2>2. CASE n \in DOMAIN inj.appends
    <3>1. inj.appends[n] \in Seq(HeaderToken) /\ GetHeader(WithHeaders(header, inj)[n]) \in Seq(HeaderToken)
      BY <2>1, <2>2, GetHeaderType, Zenon DEF InjectionAssumption
    <3>2. MergeCSV(GetHeader(WithHeaders(header, inj)[n]), inj.appends[n]) \in Seq(HeaderToken)
      BY <3>1, Merged, ZenonT(30)
    <3>3. Injected(header, inj)[n] = <<MergeCSV(GetHeader(WithHeaders(header, inj)[n]), inj.appends[n])>>
      BY <2>2, InjectedMerged
    <3>4. QED
      BY <3>2, <3>3
  <2>3. CASE n \notin DOMAIN inj.appends
    BY <2>1, <2>3, InjectedKept
  <2>4. QED
    BY <2>2, <2>3
<1>4. Injected(header, inj) = [n \in Name |-> Injected(header, inj)[n]]
  BY DEF Injected
<1>5. QED
  BY <1>1, <1>2, <1>3, <1>4, ZenonT(30) DEF Headers

\* What was set is found again: applying an injection of the same names to a request that
\* was injected into gives what applying it to the original does.
LEMMA PlanAgain ==
    ASSUME InjectionAssumption, NEW r, r.header \in Headers, NEW i \in Injections,
           NEW j \in Injections, SameNames(i, j)
    PROVE  ApplyPlan(ApplyPlan(r, i), j) = ApplyPlan(r, j)
<1> DEFINE h == Stripped(r.header)
           g == Injected(h, i)
           b == Stripped(g)
<1>1. h \in Headers /\ g \in Headers /\ b \in Headers
  BY PlanHeader, Zenon
<1> HIDE DEF h, b
<1>2. ASSUME NEW n \in Name PROVE Injected(b, j)[n] = Injected(h, j)[n]
  <2>1. CASE n \in DOMAIN j.headers
    <3>1. WithHeaders(b, j)[n] = WithHeaders(h, j)[n]
      BY <2>1, HeaderSet, ZenonT(30)
    <3>2. QED
      BY <3>1, InjectedSame
  <2>2. CASE n \notin DOMAIN j.headers
    <3>1. n \notin DOMAIN i.headers /\ i.appends = j.appends
      BY <2>2, Zenon DEF SameNames
    <3>2. WithHeaders(b, j)[n] = b[n] /\ WithHeaders(h, j)[n] = h[n] /\ WithHeaders(h, i)[n] = h[n]
      BY <2>2, <3>1, HeaderKept, ZenonT(30)
    <3>3. CASE strip /\ n = Authorization
      <4>1. b[n] = <<>> /\ h[n] = <<>>
        BY <1>1, <3>3, Zenon DEF Stripped, Headers, b, h
      <4>2. QED
        <5>1. WithHeaders(b, j)[n] = WithHeaders(h, j)[n]
          BY <3>2, <4>1, Zenon
        <5>2. QED
          BY ONLY <5>1, n \in Name, InjectedSame
    <3>4. CASE ~ (strip /\ n = Authorization)
      <4>1. b[n] = g[n]
        BY <1>1, <3>4, Zenon DEF Stripped, Headers, b
      <4>2. CASE n \notin DOMAIN j.appends
        <5>1. g[n] = h[n]
          <6>1. n \notin DOMAIN i.appends /\ WithHeaders(h, i)[n] = h[n]
            BY <3>1, <3>2, <4>2, Zenon
          <6>2. Injected(h, i)[n] = WithHeaders(h, i)[n]
            BY ONLY n \in Name, <6>1, InjectedKept, Zenon
          <6>3. QED
            BY <6>1, <6>2, Zenon
        <5>2. QED
          BY <3>2, <4>1, <4>2, <5>1, InjectedKept, ZenonT(30)
      <4>3. CASE n \in DOMAIN j.appends
        <5> DEFINE e == GetHeader(h[n])
                   a == j.appends[n]
                   m == MergeCSV(e, a)
        <5>1. e \in Seq(HeaderToken) /\ a \in Seq(HeaderToken)
          <6>1. h[n] \in Seq(Seq(HeaderToken))
            BY <1>1, ZenonT(30) DEF Headers
          <6>2. QED
            BY <4>3, <6>1, GetHeaderType, Zenon DEF InjectionAssumption
        <5>2. g[n] = <<m>>
          <6>1. n \in DOMAIN i.appends /\ i.appends[n] = a /\ WithHeaders(h, i)[n] = h[n]
            BY <3>1, <3>2, <4>3, Zenon
          <6>2. Injected(h, i)[n] = <<MergeCSV(GetHeader(WithHeaders(h, i)[n]), i.appends[n])>>
            BY ONLY n \in Name, <6>1, InjectedMerged, Zenon
          <6>3. QED
            BY <6>1, <6>2, Zenon
        <5>3. GetHeader(<<m>>) = m
          BY DEF GetHeader
        <5>4. MergeCSV(m, a) = m
          <6> HIDE DEF e, a
          <6>1. /\ m \in Seq(HeaderToken) /\ Once(m)
                /\ Tokens(m) = (Tokens(e) \cup Tokens(a)) \ {Blank}
            BY ONLY <5>1, Merged, ZenonT(30)
          <6>2. Blank \notin Tokens(m) /\ Tokens(a) \ {Blank} \subseteq Tokens(m)
            BY <6>1
          <6> HIDE DEF m
          <6>3. QED
            BY <5>1, <6>1, <6>2, MergedAgain, Zenon
        <5>5. Injected(b, j)[n] = <<MergeCSV(GetHeader(b[n]), a)>> /\ Injected(h, j)[n] = <<m>>
          BY <3>2, <4>3, InjectedMerged, ZenonT(30)
        <5> HIDE DEF m
        <5>6. QED
          BY <4>1, <5>2, <5>3, <5>4, <5>5, Zenon
      <4>4. QED
        BY <4>2, <4>3, Zenon
    <3>5. QED
      BY <3>3, <3>4
  <2>3. QED
    BY <2>1, <2>2, ZenonT(30)
<1>3. Injected(b, j) = Injected(h, j)
  <2>1. /\ Injected(b, j) = [n \in Name |-> Injected(b, j)[n]]
        /\ Injected(h, j) = [n \in Name |-> Injected(h, j)[n]]
    BY ZenonT(30) DEF Injected
  <2>2. QED
    BY <1>2, <2>1, Zenon
<1> USE DEF h, b
<1>4. Overlay(j.query, Overlay(i.query, r.query)) = Overlay(j.query, r.query)
  BY ZenonT(30) DEF Overlay, SameNames
<1>5. ApplyPlan(r, i).header = g /\ ApplyPlan(r, i).query = Overlay(i.query, r.query)
  BY DEF ApplyPlan
<1>6. QED
  BY <1>3, <1>4, <1>5, Zenon DEF ApplyPlan

-----------------------------------------------------------------------
(* The requests of an exchange.                                          *)

\* Each request was made from the one before it.
AsPlanned ==
    /\ inbound \in Inbounds
    /\ \/ used = <<>> /\ forwarded = <<>>
       \/ \E i \in Injections : used = <<i>> /\ forwarded = <<ApplyPlan(inbound, i)>>
       \/ \E i, j \in Injections :
            /\ used = <<i, j>>
            /\ forwarded = <<ApplyPlan(inbound, i), ApplyPlan(ApplyPlan(inbound, i), j)>>

\* A sequence is built up.
LEMMA ForwardedAppended ==
    ASSUME NEW x, NEW y
    PROVE  /\ Append(<<>>, x) = <<x>> /\ Append(<<x>>, y) = <<x, y>>
           /\ Len(<<>>) = 0 /\ Len(<<x>>) = 1 /\ Len(<<x, y>>) = 2
           /\ <<x>>[1] = x /\ <<x, y>>[1] = x /\ <<x, y>>[2] = y
           /\ DOMAIN <<>> = {} /\ DOMAIN <<x>> = {1} /\ DOMAIN <<x, y>> = {1, 2}
<1>1. Len(<<>>) = 0 /\ Len(<<x>>) = 1 /\ Len(<<x, y>>) = 2
  OBVIOUS
<1>2. <<x>>[1] = x /\ <<x, y>>[1] = x /\ <<x, y>>[2] = y
  OBVIOUS
<1>3. DOMAIN <<>> = {} /\ DOMAIN <<x>> = {1} /\ DOMAIN <<x, y>> = {1, 2}
  OBVIOUS
<1>4. Append(<<>>, x) = <<x>>
  OBVIOUS
<1>5. Append(<<x>>, y) = <<x, y>>
  <2>1. <<x>> \in Seq({x, y}) /\ <<x, y>> \in Seq({x, y})
    OBVIOUS
  <2> DEFINE z == Append(<<x>>, y)
  <2>2. z \in Seq({x, y}) /\ Len(z) = 2 /\ z[1] = x /\ z[2] = y
    BY <1>1, <1>2, <2>1
  <2> HIDE DEF z
  <2>3. z = <<z[1], z[2]>>
    BY <2>2
  <2>4. QED
    BY <2>2, <2>3 DEF z
<1>6. QED
  BY <1>1, <1>2, <1>3, <1>4, <1>5, Zenon

\* The first request is made from the client's, the second from the first.
LEMMA PlannedSteps == InjectionSpec => []AsPlanned
<1>1. InjectionInit => AsPlanned
  BY DEF InjectionInit, AsPlanned
<1>2. AsPlanned /\ [InjectionNext]_injectionVars => AsPlanned'
  <2> SUFFICES ASSUME AsPlanned, [InjectionNext]_injectionVars PROVE AsPlanned'
    OBVIOUS
  <2>1. ASSUME NEW i \in Injections, Forward(i) PROVE AsPlanned'
    <3>1. /\ used' = Append(used, i) /\ forwarded' = Append(forwarded, ApplyPlan(inbound, i))
          /\ inbound' = inbound /\ strip' = strip /\ forwarded = <<>>
      BY <2>1, Zenon DEF Forward, Apply
    <3>2. used = <<>>
      BY <3>1 DEF AsPlanned
    <3>3. used' = <<i>> /\ forwarded' = <<ApplyPlan(inbound, i)>>
      BY <3>1, <3>2, ForwardedAppended, Zenon
    <3>4. ApplyPlan(inbound, i)' = ApplyPlan(inbound, i)
      BY <3>1, Zenon DEF ApplyPlan, Stripped
    <3>5. QED
      BY <3>1, <3>3, <3>4, Zenon DEF AsPlanned
  <2>2. ASSUME NEW j \in Injections, Retry(j) PROVE AsPlanned'
    <3>1. /\ used' = Append(used, j) /\ forwarded' = Append(forwarded, ApplyPlan(forwarded[1], j))
          /\ inbound' = inbound /\ strip' = strip /\ Len(forwarded) = 1
      BY <2>2, Zenon DEF Retry, Apply
    <3>2. PICK i \in Injections : used = <<i>> /\ forwarded = <<ApplyPlan(inbound, i)>>
      <4>1. \A x, y : Len(<<x, y>>) # 1 /\ Len(<<>>) # 1
        OBVIOUS
      <4>2. QED
        BY <3>1, <4>1, Zenon DEF AsPlanned
    <3>3. /\ used' = <<i, j>>
          /\ forwarded' = <<ApplyPlan(inbound, i), ApplyPlan(ApplyPlan(inbound, i), j)>>
      <4>1. forwarded[1] = ApplyPlan(inbound, i)
        BY <3>2, ForwardedAppended, Zenon
      <4>2. QED
        BY <3>1, <3>2, <4>1, ForwardedAppended, Zenon
    <3>4. /\ ApplyPlan(inbound, i)' = ApplyPlan(inbound, i)
          /\ ApplyPlan(ApplyPlan(inbound, i), j)' = ApplyPlan(ApplyPlan(inbound, i), j)
      BY <3>1, Zenon DEF ApplyPlan, Stripped
    <3>5. QED
      BY <3>1, <3>3, <3>4, Zenon DEF AsPlanned
  <2>3. ASSUME UNCHANGED injectionVars PROVE AsPlanned'
    BY <2>3, Zenon DEF injectionVars, AsPlanned, ApplyPlan, Stripped
  <2>4. QED
    BY <2>1, <2>2, <2>3, Zenon DEF InjectionNext
<1>3. QED
  BY <1>1, <1>2, PTL DEF InjectionSpec

\* A provider that injects under the same names each time: the retry forwards exactly what a
\* first attempt with the refreshed injection would have, though it starts from a request
\* already injected into (RetryIsAsFresh).
THEOREM RetryForwardsAfresh ==
    ASSUME InjectionAssumption PROVE InjectionSpec => []RetryIsAsFresh
<1>1. ASSUME AsPlanned PROVE RetryIsAsFresh
  <2> SUFFICES ASSUME Len(forwarded) = 2, SameNames(used[1], used[2])
               PROVE  forwarded[2] = ApplyPlan(inbound, used[2])
    BY DEF RetryIsAsFresh
  <2>1. PICK i \in Injections, j \in Injections :
          /\ used = <<i, j>>
          /\ forwarded = <<ApplyPlan(inbound, i), ApplyPlan(ApplyPlan(inbound, i), j)>>
    <3>1. \A x : Len(<<x>>) # 2 /\ Len(<<>>) # 2
      OBVIOUS
    <3>2. QED
      BY <1>1, <3>1, Zenon DEF AsPlanned
  <2>2. used[1] = i /\ used[2] = j /\ forwarded[2] = ApplyPlan(ApplyPlan(inbound, i), j)
    BY <2>1, ForwardedAppended, Zenon
  <2>3. inbound.header \in Headers
    BY <1>1, Zenon DEF AsPlanned, InjectionAssumption, Headers
  <2>4. QED
    BY <2>2, <2>3, PlanAgain, ZenonT(30)
<1>2. QED
  BY <1>1, PlannedSteps, PTL

\* Merged, for the lines of a header.
LEMMA MergedLines ==
    ASSUME NEW e \in Seq(HeaderToken), NEW a \in Seq(HeaderToken)
    PROVE  Once(MergeCSV(e, a)) /\ Tokens(MergeCSV(e, a)) = (Tokens(e) \cup Tokens(a)) \ {Blank}
  BY Merged

\* What one injection makes of any request.
Clean(r, inj) ==
    /\ strip =>
         AllTokens(ApplyPlan(r, inj).header[Authorization]) \ {Blank}
           = (Tokens(ValueOf(inj.headers, Authorization))
                \cup Tokens(ValueOf(inj.appends, Authorization))) \ {Blank}
    /\ \A n \in DOMAIN inj.appends :
         LET line == GetHeader(ApplyPlan(r, inj).header[n])
         IN  /\ Len(ApplyPlan(r, inj).header[n]) = 1
             /\ Tokens(inj.appends[n]) \ {Blank} \subseteq Tokens(line)
             /\ \A i, j \in DOMAIN line : line[i] = line[j] => i = j

\* The tokens of at most one line.
LEMMA LineTokens ==
    ASSUME NEW line
    PROVE  /\ Tokens(<<>>) = {} /\ Tokens(<<line>>) = {line} /\ GetHeader(<<line>>) = line
           /\ AllTokens(<<line>>) = Tokens(line) /\ AllTokens(<<>>) = {}
           /\ GetHeader(<<>>) = <<>> /\ Len(<<line>>) = 1
<1>1. Tokens(<<>>) = {} /\ Tokens(<<line>>) = {line}
  BY DEF Tokens
<1>2. GetHeader(<<line>>) = line /\ GetHeader(<<>>) = <<>> /\ Len(<<line>>) = 1
  BY DEF GetHeader
<1>3. UNION {Tokens(l) : l \in {line}} = Tokens(line) /\ UNION {Tokens(l) : l \in {}} = {}
  OBVIOUS
<1>4. QED
  BY <1>1, <1>2, <1>3, Zenon DEF AllTokens

\* Whatever it was made from, a forwarded request is clean.
LEMMA PlanClean ==
    ASSUME InjectionAssumption, NEW r, r.header \in Headers, NEW inj \in Injections
    PROVE  Clean(r, inj)
<1> DEFINE h == Stripped(r.header)
           A == Authorization
<1>1. h \in Headers /\ ApplyPlan(r, inj).header = Injected(h, inj)
  BY PlanHeader DEF ApplyPlan
<1>2. ASSUME NEW n \in DOMAIN inj.appends
      PROVE  \E e \in Seq(HeaderToken) :
               /\ inj.appends[n] \in Seq(HeaderToken) /\ n \in Name
               /\ e = GetHeader(WithHeaders(h, inj)[n])
               /\ Injected(h, inj)[n] = <<MergeCSV(e, inj.appends[n])>>
  <2>1. n \in Name /\ inj.appends[n] \in Seq(HeaderToken)
    BY ZenonT(30) DEF InjectionAssumption
  <2>2. WithHeaders(h, inj)[n] \in Seq(Seq(HeaderToken))
    <3>1. WithHeaders(h, inj) \in Headers
      BY <1>1, PlanHeader, Zenon
    <3>2. QED
      BY <2>1, <3>1 DEF Headers
  <2>3. GetHeader(WithHeaders(h, inj)[n]) \in Seq(HeaderToken)
    BY <2>2, GetHeaderType, Zenon
  <2> HIDE DEF h
  <2>4. Injected(h, inj)[n] = <<MergeCSV(GetHeader(WithHeaders(h, inj)[n]), inj.appends[n])>>
    BY <2>1, InjectedMerged, ZenonT(30)
  <2>5. QED
    BY <2>1, <2>3, <2>4, Zenon
<1> HIDE DEF h
<1>3. ASSUME NEW n \in DOMAIN inj.appends
      PROVE  LET line == GetHeader(Injected(h, inj)[n])
             IN  /\ Len(Injected(h, inj)[n]) = 1
                 /\ Tokens(inj.appends[n]) \ {Blank} \subseteq Tokens(line)
                 /\ \A i, j \in DOMAIN line : line[i] = line[j] => i = j
  <2>1. PICK e \in Seq(HeaderToken) :
               /\ inj.appends[n] \in Seq(HeaderToken)
               /\ Injected(h, inj)[n] = <<MergeCSV(e, inj.appends[n])>>
    BY <1>2, ZenonT(30)
  <2> DEFINE m == MergeCSV(e, inj.appends[n])
  <2>2. Once(m) /\ Tokens(m) = (Tokens(e) \cup Tokens(inj.appends[n])) \ {Blank}
    BY <2>1, MergedLines
  <2> HIDE DEF m
  <2>3. Injected(h, inj)[n] = <<m>> /\ GetHeader(<<m>>) = m /\ Len(<<m>>) = 1
    BY <2>1, LineTokens, ZenonT(30) DEF m
  <2>4. QED
    BY <2>2, <2>3 DEF Once
<1>4. ASSUME strip
      PROVE  AllTokens(Injected(h, inj)[A]) \ {Blank}
               = (Tokens(ValueOf(inj.headers, A)) \cup Tokens(ValueOf(inj.appends, A))) \ {Blank}
  <2>1. A \in Name /\ h[A] = <<>>
    BY <1>4, Zenon DEF h, Stripped, InjectionAssumption, Headers
  <2> DEFINE own == ValueOf(inj.headers, A)
             more == ValueOf(inj.appends, A)
             all == AllTokens(Injected(h, inj)[A])
             base == WithHeaders(h, inj)[A]
  <2> SUFFICES all \ {Blank} = (Tokens(own) \cup Tokens(more)) \ {Blank}
    BY ZenonT(30)
  <2>2. GetHeader(base) = own /\ AllTokens(base) = Tokens(own)
    <3>1. CASE A \in DOMAIN inj.headers
      <4>1. base = <<own>>
        BY <2>1, <3>1, HeaderSet DEF ValueOf
      <4> HIDE DEF base, own
      <4>2. QED
        BY <4>1, LineTokens, ZenonT(30)
    <3>2. CASE A \notin DOMAIN inj.headers
      <4>1. base = <<>> /\ own = <<>>
        BY <2>1, <3>2, HeaderKept DEF ValueOf
      <4> HIDE DEF base, own
      <4>2. QED
        BY <4>1, LineTokens, ZenonT(30)
    <3>3. QED
      BY <3>1, <3>2
  <2>3. CASE A \in DOMAIN inj.appends
    <3>1. PICK e \in Seq(HeaderToken) :
               /\ inj.appends[A] \in Seq(HeaderToken) /\ e = GetHeader(base)
               /\ Injected(h, inj)[A] = <<MergeCSV(e, inj.appends[A])>>
      BY <1>2, <2>3, ZenonT(30)
    <3> DEFINE m == MergeCSV(e, inj.appends[A])
    <3>2. Tokens(m) = (Tokens(own) \cup Tokens(inj.appends[A])) \ {Blank}
      BY <2>2, <3>1, MergedLines
    <3> HIDE DEF m
    <3>3. all = Tokens(m)
      BY <3>1, LineTokens, Zenon DEF m
    <3>4. more = inj.appends[A]
      BY <2>3 DEF ValueOf
    <3>5. all = (Tokens(own) \cup Tokens(more)) \ {Blank}
      BY <3>2, <3>3, <3>4, ZenonT(30)
    <3> HIDE DEF own, more, all
    <3>6. all \ {Blank} = (Tokens(own) \cup Tokens(more)) \ {Blank}
      BY <3>5
    <3>7. QED
      BY <3>6
  <2>4. CASE A \notin DOMAIN inj.appends
    <3>1. Injected(h, inj)[A] = base
      BY <2>1, <2>4, InjectedKept
    <3>2. Tokens(<<>>) = {}
      BY LineTokens, ZenonT(30)
    <3>3. more = <<>>
      BY <2>4 DEF ValueOf
    <3>4. all = Tokens(own)
      <4> HIDE DEF base, own
      <4>1. QED
        BY <2>2, <3>1, ZenonT(30)
    <3> HIDE DEF base, own, more, all
    <3>5. all \ {Blank} = (Tokens(own) \cup Tokens(more)) \ {Blank}
      BY <3>2, <3>3, <3>4
    <3>6. QED
      BY <3>5
  <2>5. QED
    BY <2>3, <2>4
<1>5. QED
  BY <1>1, <1>3, <1>4, ZenonT(30) DEF Clean

\* With StripInboundAuth the upstream sees the Authorization that the latest injection makes,
\* all of it and nothing else; and a header that is merged into holds every injected token,
\* once, on one line (ForwardedIsClean).
THEOREM UpstreamSeesTheInjection ==
    ASSUME InjectionAssumption PROVE InjectionSpec => []ForwardedIsClean
<1>1. ASSUME AsPlanned, NEW k \in DOMAIN forwarded
      PROVE  \E r : /\ r.header \in Headers /\ used[k] \in Injections
                    /\ forwarded[k] = ApplyPlan(r, used[k])
  <2>1. inbound.header \in Headers
    BY <1>1, ZenonT(30) DEF AsPlanned, InjectionAssumption, Headers
  <2>2. ASSUME NEW i \in Injections, used = <<i>>, forwarded = <<ApplyPlan(inbound, i)>>
        PROVE  used[k] = i /\ forwarded[k] = ApplyPlan(inbound, i)
    BY <2>2, ForwardedAppended
  <2>3. ASSUME NEW i \in Injections, NEW j \in Injections, used = <<i, j>>,
               forwarded = <<ApplyPlan(inbound, i), ApplyPlan(ApplyPlan(inbound, i), j)>>
        PROVE  \/ used[k] = i /\ forwarded[k] = ApplyPlan(inbound, i)
               \/ used[k] = j /\ forwarded[k] = ApplyPlan(ApplyPlan(inbound, i), j)
    BY <2>3, ForwardedAppended
  <2>4. \A i \in Injections : ApplyPlan(inbound, i).header \in Headers
    BY <2>1, PlanHeader, ZenonT(30) DEF ApplyPlan
  <2>5. forwarded # <<>>
    BY ForwardedAppended
  <2>6. QED
    BY <1>1, <2>1, <2>2, <2>3, <2>4, <2>5, ZenonT(30) DEF AsPlanned
<1>2. ASSUME AsPlanned, NEW k \in DOMAIN forwarded PROVE \E r : forwarded[k] = ApplyPlan(r, used[k]) /\ Clean(r, used[k])
  BY <1>1, <1>2, PlanClean, Zenon
<1>3. AsPlanned => ForwardedIsClean
  <2>1. ASSUME AsPlanned, NEW k \in DOMAIN forwarded, strip
        PROVE  AllTokens(forwarded[k].header[Authorization]) \ {Blank}
                 = (Tokens(ValueOf(used[k].headers, Authorization))
                      \cup Tokens(ValueOf(used[k].appends, Authorization))) \ {Blank}
    BY <1>2, <2>1, Zenon DEF Clean
  <2>2. ASSUME AsPlanned, NEW k \in DOMAIN forwarded, NEW n \in DOMAIN used[k].appends
        PROVE  LET line == GetHeader(forwarded[k].header[n])
               IN  /\ Len(forwarded[k].header[n]) = 1
                   /\ Tokens(used[k].appends[n]) \ {Blank} \subseteq Tokens(line)
                   /\ \A i, j \in DOMAIN line : line[i] = line[j] => i = j
    <3>1. PICK r : forwarded[k] = ApplyPlan(r, used[k]) /\ Clean(r, used[k])
      BY <1>2, <2>2
    <3>2. QED
      BY <3>1, <2>2, ZenonT(30) DEF Clean
  <2>3. QED
    BY <2>1, <2>2, Zenon DEF ForwardedIsClean, AuthorizationIsInjected, MergedOnce
<1>4. QED
  BY <1>3, PlannedSteps, PTL
=======================================================================
