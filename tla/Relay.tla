------------------------------ MODULE Relay ------------------------------
(***************************************************************************)
(* credproxy connect: relayStdio with its two copying goroutines, their    *)
(* results channel and the select over it and the context.  Both streams   *)
(* are FIFO and copied unchanged, so they are counted.                     *)
(***************************************************************************)
EXTENDS Naturals, Sequences

CONSTANTS MaxIn, MaxOut     \* bounds: chunks of stdin, chunks the broker sends

VARIABLES
    fed,        \* chunks of stdin written to the connection
    sent,       \* chunks the broker has written
    printed,    \* chunks written to stdout
    peer,       \* the broker's end: "open", "closed", "reset"
    conn,       \* our end is open
    copier,     \* the goroutines "in" and "out": TRUE while they copy
    results,    \* the channel: [output, err]
    relay,      \* relayStdio: "select", or what it returned: "nil", "error", "ctx"
    cancelled   \* ctx.Done

vars == <<fed, sent, printed, peer, conn, copier, results, relay, cancelled>>
streams == <<fed, sent, printed>>

Init ==
    /\ fed = 0 /\ sent = 0 /\ printed = 0
    /\ peer = "open" /\ conn = TRUE
    /\ copier = [in |-> TRUE, out |-> TRUE]
    /\ results = <<>>
    /\ relay = "select"
    /\ cancelled = FALSE

\* A goroutine ends; the channel has room for both results.
Report(which, err) ==
    /\ copier' = [copier EXCEPT ![which] = FALSE]
    /\ results' = Append(results, [output |-> which = "out", err |-> err])
    /\ UNCHANGED <<streams, peer, conn, relay, cancelled>>

-----------------------------------------------------------------------
(* copyToConnection: stdin may stall, end or fail at any chunk.            *)

CopyIn ==
    /\ copier.in /\ conn /\ peer = "open" /\ fed < MaxIn
    /\ fed' = fed + 1
    /\ UNCHANGED <<sent, printed, peer, conn, copier, results, relay, cancelled>>

\* End of stdin: the connection is half closed where it can be.
InputEnds == copier.in /\ Report("in", FALSE)

\* stdin cannot be read, or the connection not written or half closed.
InputFails == copier.in /\ Report("in", TRUE)

(* copyFromConnection                                                      *)

CopyOut ==
    /\ copier.out /\ conn /\ peer # "reset" /\ printed < sent
    /\ printed' = printed + 1
    /\ UNCHANGED <<fed, sent, peer, conn, copier, results, relay, cancelled>>

OutputEnds == copier.out /\ conn /\ peer = "closed" /\ printed = sent /\ Report("out", FALSE)

\* Our end is closed, the broker's is reset, or stdout cannot be written.
OutputFails == copier.out /\ (~ conn \/ peer = "reset" \/ printed < sent) /\ Report("out", TRUE)

-----------------------------------------------------------------------
(* relayStdio                                                              *)

Return(how) == relay' = how /\ conn' = FALSE

\* Mutation: only an error ends the relay.
TakeErrors ==
    /\ relay = "select" /\ results # <<>>
    /\ results' = Tail(results)
    /\ IF Head(results).err THEN Return("error") ELSE UNCHANGED <<relay, conn>>
    /\ UNCHANGED <<streams, peer, copier, cancelled>>

TakeResult ==
    /\ relay = "select" /\ results # <<>>
    /\ results' = Tail(results)
    /\ IF Head(results).err THEN Return("error")
       ELSE IF Head(results).output THEN Return("nil") ELSE UNCHANGED <<relay, conn>>
    /\ UNCHANGED <<streams, peer, copier, cancelled>>

\* With a result and the context both ready, select takes either.
TakeCancel ==
    /\ relay = "select" /\ cancelled
    /\ Return("ctx")
    /\ UNCHANGED <<streams, peer, copier, results, cancelled>>

-----------------------------------------------------------------------
Signal ==
    /\ ~ cancelled /\ cancelled' = TRUE
    /\ UNCHANGED <<streams, peer, conn, copier, results, relay>>

Broker ==
    /\ peer = "open"
    /\ \/ sent < MaxOut /\ sent' = sent + 1 /\ UNCHANGED peer
       \/ peer' \in {"closed", "reset"} /\ UNCHANGED sent
    /\ UNCHANGED <<fed, printed, conn, copier, results, relay, cancelled>>

Output == CopyOut \/ OutputEnds \/ OutputFails
Main == TakeResult \/ TakeCancel
Next == CopyIn \/ InputEnds \/ InputFails \/ Output \/ Main \/ Signal \/ Broker

Spec == Init /\ [][Next]_vars

\* The goroutines are scheduled; stdin and the broker owe nothing.
Fairness == WF_vars(Output) /\ WF_vars(Main)
FairSpec == Spec /\ Fairness

-----------------------------------------------------------------------
(* Properties.                                                           *)

\* A relay that returns no error has printed everything the broker sent until it closed
\* its end, even when stdin ended long before.
NilMeansAllPrinted == relay = "nil" => peer = "closed" /\ printed = sent

\* The relay ends when the broker does or a signal arrives, though stdin may never end.
RelayEnds == peer # "open" \/ cancelled ~> relay # "select"
========================================================================
