---------------------------- MODULE Injection ----------------------------
(***************************************************************************)
(* What the route handler puts into the request it forwards: planRequest   *)
(* and applyPlan, and the same again on the retry, which starts from the   *)
(* request that was forwarded and not from the one that came in.           *)
(*                                                                         *)
(* A header is the sequence of its lines, a line the sequence of its       *)
(* comma-separated tokens; Blank is a token of spaces only.  Names are     *)
(* canonical.  A query parameter is the sequence of its values.            *)
(***************************************************************************)
EXTENDS Naturals, Sequences

CONSTANTS
    Name,           \* header names
    Authorization,  \* the one that carries the client's own token
    HeaderToken,    \* the tokens of header lines
    Blank,          \* an empty token
    Inbounds,       \* requests that come in, [header, query], with every name in header
    Injections      \* what a provider may return, [headers, appends, query]

\* http.Header, with a sequence of lines for every name, and the lines of an injection.
ASSUME InjectionAssumption ==
    /\ Authorization \in Name
    /\ \A r \in Inbounds : r.header \in [Name -> Seq(Seq(HeaderToken))]
    /\ \A inj \in Injections :
         /\ DOMAIN inj.headers \subseteq Name /\ DOMAIN inj.appends \subseteq Name
         /\ \A n \in DOMAIN inj.headers : inj.headers[n] \in Seq(HeaderToken)
         /\ \A n \in DOMAIN inj.appends : inj.appends[n] \in Seq(HeaderToken)

VARIABLES
    strip,          \* Route.StripInboundAuth
    inbound,        \* the client's request
    used,           \* the injections, from Get and from Refresh
    forwarded       \* the requests sent upstream with them

injectionVars == <<strip, inbound, used, forwarded>>

Tokens(line) == {line[i] : i \in DOMAIN line}

\* mergeCSV's appendToken
AppendToken(out, t) == IF t = Blank \/ t \in Tokens(out) THEN out ELSE Append(out, t)

\* Mutation: only the tokens that were there before are looked up.
MergeCSVOnce(existing, add) ==
    LET known(t) == t = Blank \/ t \in Tokens(existing)
    IN  SelectSeq(existing, LAMBDA t : t # Blank) \o SelectSeq(add, LAMBDA t : ~ known(t))

\* mergeCSV: out after k tokens of the two lines
MergeCSV(existing, add) ==
    LET toks == existing \o add
        out[k \in 0 .. Len(toks)] == IF k = 0 THEN <<>> ELSE AppendToken(out[k - 1], toks[k])
    IN  out[Len(toks)]

\* http.Header.Get: the first line, or the empty string
GetHeader(lines) == IF lines = <<>> THEN <<>> ELSE Head(lines)

\* deleteHeaders
Stripped(header) == IF strip THEN [header EXCEPT ![Authorization] = <<>>] ELSE header

\* setHeaders, then mergeHeaders
Injected(header, inj) ==
    LET set == [n \in Name |-> IF n \in DOMAIN inj.headers THEN <<inj.headers[n]>> ELSE header[n]]
    IN  [n \in Name |-> IF n \in DOMAIN inj.appends
                        THEN <<MergeCSV(GetHeader(set[n]), inj.appends[n])>> ELSE set[n]]

\* url.Values.Set for each parameter of new
Overlay(new, old) ==
    [p \in DOMAIN new \cup DOMAIN old |-> IF p \in DOMAIN new THEN new[p] ELSE old[p]]

\* Mutation: the query parameters are added (url.Values.Add) and not set.
ApplyPlanAddsQuery(r, inj) ==
    [header |-> Injected(Stripped(r.header), inj),
     query |-> Overlay([p \in DOMAIN inj.query |->
                          IF p \in DOMAIN r.query THEN r.query[p] \o inj.query[p]
                          ELSE inj.query[p]], r.query)]

\* applyPlan of planRequest
ApplyPlan(r, inj) ==
    [header |-> Injected(Stripped(r.header), inj), query |-> Overlay(inj.query, r.query)]

InjectionInit ==
    /\ strip \in BOOLEAN
    /\ inbound \in Inbounds
    /\ used = <<>> /\ forwarded = <<>>

Apply(r, inj) ==
    /\ used' = Append(used, inj)
    /\ forwarded' = Append(forwarded, ApplyPlan(r, inj))
    /\ UNCHANGED <<strip, inbound>>

\* ServeHTTP, from the injection of Get to the proxy
Forward(inj) == forwarded = <<>> /\ Apply(inbound, inj)

\* errorHandler after a status that asks for a refresh: its request is the one sent upstream
Retry(inj) == Len(forwarded) = 1 /\ Apply(forwarded[1], inj)

InjectionNext == \E inj \in Injections : Forward(inj) \/ Retry(inj)
InjectionSpec == InjectionInit /\ [][InjectionNext]_injectionVars

-----------------------------------------------------------------------
(* Properties.                                                           *)

\* A provider that injects under the same names each time sees its retry forwarded exactly
\* as if it had given the refreshed injection at once: nothing of the first is left, and
\* nothing was added twice, though the retry starts from a request already injected into.
SameNames(i, j) ==
    /\ DOMAIN i.headers = DOMAIN j.headers
    /\ DOMAIN i.query = DOMAIN j.query
    /\ i.appends = j.appends

RetryIsAsFresh ==
    Len(forwarded) = 2 /\ SameNames(used[1], used[2]) => forwarded[2] = ApplyPlan(inbound, used[2])

\* The tokens of all lines of a header, and what is injected under a name.
AllTokens(lines) == UNION {Tokens(line) : line \in Tokens(lines)}
ValueOf(m, n) == IF n \in DOMAIN m THEN m[n] ELSE <<>>

\* With StripInboundAuth the upstream sees the Authorization the latest injection makes, all
\* of it, and never the client's own nor the one a refresh has replaced.
AuthorizationIsInjected ==
    strip => \A k \in DOMAIN forwarded :
      AllTokens(forwarded[k].header[Authorization]) \ {Blank}
        = (Tokens(ValueOf(used[k].headers, Authorization))
             \cup Tokens(ValueOf(used[k].appends, Authorization))) \ {Blank}

\* A merged header holds every token of the injection and of the value merged into, once.
MergedOnce ==
    \A k \in DOMAIN forwarded : \A n \in DOMAIN used[k].appends :
      LET line == GetHeader(forwarded[k].header[n])
      IN  /\ Len(forwarded[k].header[n]) = 1
          /\ Tokens(used[k].appends[n]) \ {Blank} \subseteq Tokens(line)
          /\ \A i, j \in DOMAIN line : line[i] = line[j] => i = j

\* What is sent upstream is clean: both of the above.
ForwardedIsClean == AuthorizationIsInjected /\ MergedOnce

\* "AppendHeaders are merged into existing comma-separated header values rather than
\* replacing them": what the client sent under such a name is still there.
ClientTokensStay ==
    \A k \in DOMAIN forwarded : \A n \in DOMAIN used[k].appends :
      (n # Authorization /\ \A j \in 1 .. k : n \notin DOMAIN used[j].headers) =>
        AllTokens(inbound.header[n]) \ {Blank}
          \subseteq UNION {Tokens(line) : line \in Tokens(forwarded[k].header[n])}
==========================================================================
