---------------------------- MODULE Gcloud ----------------------------
(***************************************************************************)
(* The gcloudcli provider: ContainerSpec with its per-project metadata     *)
(* servers, Materialize, the periodic sweep and the metadata handler, all  *)
(* of which end up writing a project's token file in place.                *)
(*                                                                         *)
(* A token is the number of the gcloud call that printed it; it is as many *)
(* cells long as TokenLen says, and a file is a sequence of cells.         *)
(***************************************************************************)
EXTENDS Naturals, Sequences, FiniteSets

CONSTANTS
    Thread,         \* goroutines
    GcpProject,        \* project paths
    GCPConfig,      \* configurations a project may have: [account, sa, active, projects]
    NoTarget,       \* the project has no tokenTarget
    TokenLen,       \* lengths of the tokens gcloud prints, and their bound
    MaxAsync        \* bound: goroutines the metadata handler has started for a project

VARIABLES
    gcp,        \* gcpFor: the configuration of each project, which may change
    target,     \* tokenTargets, with what its metadata handler captured
    servers,    \* metadata servers that serve the project's socket
    file,       \* the token file of each project
    issued,     \* the tokens gcloud has printed: as whom, and through which account
    async,      \* goroutines started by the metadata handler that wait to run
    overlapped, \* history: the last writers of the file had it open at the same time
    wired,      \* history: ContainerSpec returned a Spec that is not zero
    cancelled,  \* rootCtx is cancelled
    thread      \* what each goroutine does

shared == <<gcp, target, servers, file, issued, async, overlapped, wired, cancelled>>
gcloudVars == <<shared, thread>>

IdleThread == [op |-> "idle", p |-> NoTarget, cfg |-> NoTarget, pc |-> "idle", tok |-> 0,
         left |-> {}, res |-> "none"]

GcloudInit ==
    /\ gcp \in [GcpProject -> GCPConfig]
    /\ target = [p \in GcpProject |-> NoTarget]
    /\ servers = [p \in GcpProject |-> 0]
    /\ file = [p \in GcpProject |-> <<>>]
    /\ issued = <<>>
    /\ async = [p \in GcpProject |-> 0]
    /\ overlapped = {}
    /\ wired = {}
    /\ cancelled = FALSE
    /\ thread = [t \in Thread |-> IdleThread]

Goto(t, label) == thread' = [thread EXCEPT ![t].pc = label]
\* A call ends; only what Materialize returns to a launch is of interest.
Done(t, result) ==
    thread' = [thread EXCEPT ![t] = IF @.op = "materialize"
                                    THEN [@ EXCEPT !.pc = "done", !.res = result] ELSE IdleThread]
Begin(t, r) == thread[t].pc = "idle" /\ thread' = [thread EXCEPT ![t] = r]

-----------------------------------------------------------------------
(* ContainerSpec.                                                        *)

\* cmp.Or(sa, account)
Principal(c) == IF c.sa # "" THEN c.sa ELSE c.account

Complete(c) == c.account # "" /\ c.active # "" /\ (c.sa # "" => c.projects # {})

\* gcpFor is asked once. Without configuration the Spec is zero and an incomplete one is
\* an error: neither does anything else.
GcpContainerSpec(t, p) ==
    /\ Complete(gcp[p])
    /\ Begin(t, [IdleThread EXCEPT !.op = "spec", !.p = p, !.cfg = gcp[p], !.pc = "ensure"])
    /\ UNCHANGED shared

Registered(c) == [account |-> Principal(c), sa |-> c.sa, host |-> c.account]

\* Mutation: the target is registered whether or not its socket could be bound.
EnsureRegisters(t) ==
    LET p == thread[t].p IN
    /\ thread[t].pc = "ensure"
    /\ \E bound \in BOOLEAN :
         /\ target' = [target EXCEPT ![p] = IF @ = NoTarget THEN Registered(thread[t].cfg) ELSE @]
         /\ servers' = [servers EXCEPT ![p] =
                          @ + IF target[p] = NoTarget /\ bound /\ ~ cancelled THEN 1 ELSE 0]
    /\ Goto(t, "config")
    /\ UNCHANGED <<gcp, file, issued, async, overlapped, wired, cancelled>>

\* ensureMetadataServer, all of it under b.mu: a registered project keeps its server
\* and target; a socket that cannot be bound is only a warning to ContainerSpec.
Ensure(t) ==
    LET p == thread[t].p IN
    /\ thread[t].pc = "ensure"
    /\ \E bound \in IF target[p] = NoTarget THEN BOOLEAN ELSE {FALSE} :
         /\ target' = [target EXCEPT ![p] = IF bound THEN Registered(thread[t].cfg) ELSE @]
         /\ servers' = [servers EXCEPT ![p] = IF bound /\ ~ cancelled THEN @ + 1 ELSE @]
    /\ Goto(t, "config")
    /\ UNCHANGED <<gcp, file, issued, async, overlapped, wired, cancelled>>

\* WriteConfigDir, which stops at the first project id that is invalid or cannot be
\* written.
ConfigFails(t) ==
    /\ thread[t].pc = "config"
    /\ Done(t, "zero or error")
    /\ UNCHANGED shared

WriteConfigDir(t) ==
    /\ thread[t].pc = "config"
    /\ wired' = wired \cup {thread[t].p}
    /\ Done(t, "ok")
    /\ UNCHANGED <<gcp, target, servers, file, issued, async, overlapped, cancelled>>

-----------------------------------------------------------------------
(* Materialize: by a launch, by the sweep and by the metadata handler.    *)

Materialize(t, p) ==
    /\ Begin(t, [IdleThread EXCEPT !.op = "materialize", !.p = p, !.pc = "lookup"])
    /\ UNCHANGED shared

RefreshAll(t) ==
    /\ Begin(t, [IdleThread EXCEPT !.op = "sweep", !.pc = "next",
                 !.left = {p \in GcpProject : target[p] # NoTarget}])
    /\ UNCHANGED shared

SweepNext(t) ==
    /\ thread[t].pc = "next"
    /\ IF thread[t].left = {} THEN Done(t, "ok")
       ELSE \E p \in thread[t].left :
              thread' = [thread EXCEPT ![t].p = p, ![t].pc = "lookup",
                                          ![t].tok = 0, ![t].left = @ \ {p}]
    /\ UNCHANGED shared

AsyncMaterialize(t, p) ==
    /\ async[p] > 0
    /\ async' = [async EXCEPT ![p] = @ - 1]
    /\ Begin(t, [IdleThread EXCEPT !.op = "async", !.p = p, !.pc = "lookup"])
    /\ UNCHANGED <<gcp, target, servers, file, issued, overlapped, wired, cancelled>>

\* The end of one Materialize: the sweep only logs a failure and goes on.
Finish(t, result) ==
    IF thread[t].op = "sweep" THEN Goto(t, "next") ELSE Done(t, result)

Lookup(t) ==
    /\ thread[t].pc = "lookup"
    /\ IF target[thread[t].p] = NoTarget THEN Finish(t, "ok") ELSE Goto(t, "fetch")
    /\ UNCHANGED shared

\* gcloud fails, or the deadline of the call kills it.
FetchFails(t) ==
    /\ thread[t].pc = "fetch"
    /\ Finish(t, "error")
    /\ UNCHANGED shared

\* buildPrintAccessTokenArgs: --impersonate-service-account and --account in SA mode,
\* the application default credentials otherwise.
PrintedFor(tt) ==
    [as |-> IF tt.sa # "" THEN tt.sa ELSE "adc",
     via |-> IF tt.sa # "" THEN tt.account ELSE ""]
Printed(p) == PrintedFor(target[p])

\* Mutation: the token is fetched as the configuration of the moment says, not as the
\* registered target does.
FetchCurrent(t) ==
    LET c == gcp[thread[t].p] IN
    /\ thread[t].pc = "fetch"
    /\ Len(issued) < Len(TokenLen)
    /\ issued' = Append(issued, [as |-> c.sa, via |-> Principal(c)])
    /\ thread' = [thread EXCEPT ![t].tok = Len(issued'), ![t].pc = "open"]
    /\ UNCHANGED <<gcp, target, servers, file, async, overlapped, wired, cancelled>>

Fetch(t) ==
    /\ thread[t].pc = "fetch"
    /\ Len(issued) < Len(TokenLen)
    /\ issued' = Append(issued, Printed(thread[t].p))
    /\ thread' = [thread EXCEPT ![t].tok = Len(issued'), ![t].pc = "open"]
    /\ UNCHANGED <<gcp, target, servers, file, async, overlapped, wired, cancelled>>

Writing(t, p) == thread[t].p = p /\ thread[t].pc = "write"

\* os.WriteFile opens with O_TRUNC and then writes at the start of the file.
OpenFile(t) ==
    LET p == thread[t].p IN
    /\ thread[t].pc = "open"
    /\ file' = [file EXCEPT ![p] = <<>>]
    /\ overlapped' = IF \E u \in Thread : Writing(u, p) THEN overlapped \cup {p}
                     ELSE overlapped \ {p}
    /\ Goto(t, "write")
    /\ UNCHANGED <<gcp, target, servers, issued, async, wired, cancelled>>

Cells(n) == [k \in 1 .. TokenLen[n] |-> n]

WriteFile(t) ==
    LET new == Cells(thread[t].tok) IN
    /\ thread[t].pc = "write"
    /\ file' = [file EXCEPT ![thread[t].p] = new \o SubSeq(@, Len(new) + 1, Len(@))]
    /\ Finish(t, "ok")
    /\ UNCHANGED <<gcp, target, servers, issued, async, overlapped, wired, cancelled>>

-----------------------------------------------------------------------
(* The metadata server of a project.                                     *)

Request(t, p) ==
    /\ servers[p] > 0
    /\ Begin(t, [IdleThread EXCEPT !.op = "request", !.p = p, !.pc = "serve"])
    /\ UNCHANGED shared

\* A request without the Metadata-Flavor header, for the identity or the project id,
\* or whose gcloud fails; the identity is the principal the handler captured.
ServeOther(t) ==
    /\ thread[t].pc = "serve"
    /\ Done(t, "answered")
    /\ UNCHANGED shared

\* A token request: the answer does not wait for the goroutine that writes the file.
ServeToken(t) ==
    LET p == thread[t].p IN
    /\ thread[t].pc = "serve"
    /\ Len(issued) < Len(TokenLen)
    /\ async[p] < MaxAsync
    /\ issued' = Append(issued, Printed(p))
    /\ async' = [async EXCEPT ![p] = @ + 1]
    /\ thread' = [thread EXCEPT ![t].tok = Len(issued'), ![t].pc = "done",
                                ![t].res = "answered"]
    /\ UNCHANGED <<gcp, target, servers, file, overlapped, wired, cancelled>>

-----------------------------------------------------------------------
GcpReturn(t) ==
    /\ thread[t].pc = "done"
    /\ thread' = [thread EXCEPT ![t] = IdleThread]
    /\ UNCHANGED shared

\* The operator edits a project's configuration.
Reconfigure(p) ==
    /\ \E c \in GCPConfig : gcp' = [gcp EXCEPT ![p] = c]
    /\ UNCHANGED <<target, servers, file, issued, async, overlapped, wired, cancelled, thread>>

\* rootCtx ends: the listeners are closed, the targets stay.
Cancel ==
    /\ cancelled' = TRUE
    /\ servers' = [p \in GcpProject |-> 0]
    /\ UNCHANGED <<gcp, target, file, issued, async, overlapped, wired, thread>>

ThreadStep(t) ==
    \/ Ensure(t) \/ ConfigFails(t) \/ WriteConfigDir(t)
    \/ SweepNext(t) \/ Lookup(t) \/ Fetch(t) \/ FetchFails(t) \/ OpenFile(t) \/ WriteFile(t)
    \/ ServeOther(t) \/ ServeToken(t) \/ GcpReturn(t)

GcloudNext ==
    \/ \E t \in Thread :
         \/ \E p \in GcpProject : GcpContainerSpec(t, p) \/ Materialize(t, p)
                               \/ AsyncMaterialize(t, p) \/ Request(t, p)
         \/ RefreshAll(t)
         \/ ThreadStep(t)
    \/ \E p \in GcpProject : Reconfigure(p)
    \/ Cancel

GcloudSpec == GcloudInit /\ [][GcloudNext]_gcloudVars

-----------------------------------------------------------------------
(* Properties.                                                           *)

Writes(t, p) == thread[t].p = p /\ thread[t].pc \in {"open", "write"}
Whole(p) == \E n \in DOMAIN issued : file[p] = Cells(n)

\* A project is registered exactly as long as one metadata server serves its socket:
\* concurrent launches start one, and a socket that could not be bound is tried again.
RegisteredIsServed ==
    \A p \in GcpProject :
      /\ target[p] # NoTarget /\ ~ cancelled => servers[p] = 1
      /\ target[p] = NoTarget => servers[p] = 0

\* What reaches a project, in its token file or from its metadata server, was issued
\* to the principal registered for it, whatever the other projects do at that time.
TokensStayInTheirProject ==
    \A p \in GcpProject :
      /\ \A k \in DOMAIN file[p] : issued[file[p][k]] = Printed(p)
      /\ \A t \in Thread : thread[t].p = p /\ thread[t].tok # 0 =>
           issued[thread[t].tok] = Printed(p)

\* A token file is a whole token, or empty before the first write and during one, unless
\* its last writers had it open at the same time: whatever came before, one call that has
\* the file to itself makes it whole again.
WholeUnlessOverlapped ==
    \A p \in GcpProject \ overlapped : file[p] = <<>> \/ Whole(p)

\* The inductive invariant.  Tokens are numbered in order; a token a goroutine or a file
\* holds was printed for the project's target, which stays as it was registered; who writes
\* a file that was not opened again writes into an empty one, alone.
ThreadState ==
    [op : {"idle", "spec", "materialize", "sweep", "async", "request"},
     p : GcpProject \cup {NoTarget}, cfg : GCPConfig \cup {NoTarget},
     pc : {"idle", "ensure", "config", "next", "lookup", "fetch", "open", "write", "serve", "done"},
     tok : Nat, left : SUBSET GcpProject,
     res : {"none", "ok", "error", "answered", "zero or error"}]
Targets == {Registered(c) : c \in GCPConfig}
GcloudTypeOK ==
    /\ gcp \in [GcpProject -> GCPConfig]
    /\ target \in [GcpProject -> Targets \cup {NoTarget}]
    /\ servers \in [GcpProject -> Nat]
    /\ file \in [GcpProject -> Seq(Nat)]
    /\ issued \in Seq({PrintedFor(tt) : tt \in Targets}) /\ Len(issued) <= Len(TokenLen)
    /\ async \in [GcpProject -> Nat]
    /\ overlapped \subseteq GcpProject
    /\ cancelled \in BOOLEAN
    /\ thread \in [Thread -> ThreadState]
TokenOf(p, n) ==
    p \in GcpProject /\ target[p] # NoTarget /\ n \in DOMAIN issued /\ issued[n] = Printed(p)
ThreadInv(t) ==
    /\ thread[t].pc \notin {"idle", "next"} => thread[t].p \in GcpProject
    /\ thread[t].pc = "next" => thread[t].op = "sweep"
    /\ thread[t].pc = "ensure" => thread[t].cfg \in GCPConfig
    /\ thread[t].pc \in {"fetch", "serve"} => target[thread[t].p] # NoTarget
    /\ thread[t].pc \in {"open", "write"} => thread[t].tok # 0
    /\ thread[t].tok # 0 => TokenOf(thread[t].p, thread[t].tok)
FileInv(p) == \A k \in DOMAIN file[p] : TokenOf(p, file[p][k])
WriterInv(t) ==
    thread[t].pc = "write" /\ thread[t].p \notin overlapped =>
      file[thread[t].p] = <<>> /\ \A u \in Thread : Writing(u, thread[t].p) => u = t
GcloudInv ==
    /\ GcloudTypeOK
    /\ RegisteredIsServed
    /\ \A t \in Thread : ThreadInv(t)
    /\ \A p \in GcpProject : FileInv(p)
    /\ WholeUnlessOverlapped
    /\ \A t \in Thread : WriterInv(t)

\* What the provider promises about token files: whose tokens they hold, and when whole.
TokenFilesHold == TokensStayInTheirProject /\ WholeUnlessOverlapped /\ GcloudInv

GcloudAssumption ==
    /\ NoTarget \notin Targets
    /\ TokenLen \in Seq(Nat)

\* spec.go:81: after any successful call the file's observable state is a valid token,
\* at the latest when no call is writing it any more.
SuccessLeavesToken ==
    \A t \in Thread :
      (/\ thread[t].op = "materialize" /\ thread[t].res = "ok" /\ thread[t].tok # 0
       /\ \A u \in Thread : ~ Writes(u, thread[t].p)) => Whole(thread[t].p)

\* spec.go:83: Materialize returns nil without a token only for a project whose
\* ContainerSpec was zero.
NilMeansUnwired ==
    \A t \in Thread :
      thread[t].op = "materialize" /\ thread[t].pc = "done" /\ thread[t].res = "ok"
        /\ thread[t].tok = 0 => thread[t].p \notin wired

\* gcloudcli/README.md:75: in SA mode the host account generates the token.
HostAccountImpersonates ==
    \A p \in GcpProject, n \in DOMAIN issued :
      target[p] # NoTarget /\ target[p].sa # "" /\ issued[n] = Printed(p)
        => issued[n].via = target[p].host
========================================================================
