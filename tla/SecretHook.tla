--------------------------- MODULE SecretHook ---------------------------
(***************************************************************************)
(* secretenv: Resolver.ResolveFile over an env-file's entries, each        *)
(* resolved by ScriptHook.Resolve with its per-reference cache and flight. *)
(* A value is the number of the hook execution that printed it.            *)
(***************************************************************************)
EXTENDS Naturals, Sequences

CONSTANTS
    Caller,
    Files,          \* env-files: sequences of [name, ref]
    Ref,            \* the references they name
    TTLs,           \* lifetimes the hook may print; 0 is one the safety margin uses up
    MaxTime, MaxRuns,   \* bounds
    None

\* Env-files are sequences of entries with a reference, and None is no caller.
HookAssumption ==
    /\ None \notin Caller
    /\ \A f \in Files : /\ Len(f) \in Nat /\ DOMAIN f = 1 .. Len(f)
                        /\ \A k \in DOMAIN f : f[k].ref \in Ref

VARIABLES
    cache,      \* cache: [value, expires] of each reference, or None
    flight,     \* singleflight: the leader of the flight of each reference, or None
    runs,       \* the references the hook was executed for, in order
    now,
    caller      \* each ResolveFile: [file, i, pc, got, out]

vars == <<cache, flight, runs, now, caller>>

Idle == [file |-> <<>>, i |-> 1, pc |-> "idle", got |-> None, out |-> {}]

Init ==
    /\ cache = [r \in Ref |-> None]
    /\ flight = [r \in Ref |-> None]
    /\ runs = <<>>
    /\ now = 1
    /\ caller = [c \in Caller |-> Idle]

Entry(c) == caller[c].file[caller[c].i]
RefOf(c) == Entry(c).ref

\* cacheGet at this moment
Cached(r) == cache[r] # None /\ now < cache[r].expires

-----------------------------------------------------------------------
(* ResolveFile.                                                          *)

\* An entry is resolved after the other; all of them make the result.
At(file, i, out) ==
    [Idle EXCEPT !.file = file, !.i = i, !.out = out,
                 !.pc = IF i > Len(file) THEN "resolved" ELSE "resolve"]

ResolveFile(c) ==
    /\ caller[c].pc = "idle"
    /\ \E f \in Files : caller' = [caller EXCEPT ![c] = At(f, 1, {})]
    /\ UNCHANGED <<cache, flight, runs, now>>

\* Resolve returns v to ResolveFile, None for an error: one failure is the file's.
Resolved(c, v) ==
    caller' = [caller EXCEPT ![c] =
      IF v = None THEN [@ EXCEPT !.pc = "failed", !.out = {}]
      ELSE At(@.file, @.i + 1, @.out \cup {<<Entry(c).name, v>>})]

-----------------------------------------------------------------------
(* Resolve.                                                              *)

CacheHit(c) ==
    /\ caller[c].pc = "resolve"
    /\ Cached(RefOf(c))
    /\ Resolved(c, cache[RefOf(c)].value)
    /\ UNCHANGED <<cache, flight, runs, now>>

CacheMiss(c) ==
    /\ caller[c].pc = "resolve"
    /\ ~ Cached(RefOf(c))
    /\ caller' = [caller EXCEPT ![c].pc = "flight"]
    /\ UNCHANGED <<cache, flight, runs, now>>

\* sf.Do: the first caller leads the flight of its reference, the others wait for it.
Lead(c) ==
    /\ caller[c].pc = "flight"
    /\ flight[RefOf(c)] = None
    /\ flight' = [flight EXCEPT ![RefOf(c)] = c]
    /\ caller' = [caller EXCEPT ![c].pc = "again"]
    /\ UNCHANGED <<cache, runs, now>>

Join(c) ==
    /\ caller[c].pc = "flight"
    /\ flight[RefOf(c)] # None
    /\ caller' = [caller EXCEPT ![c].pc = "wait", ![c].got = RefOf(c)]
    /\ UNCHANGED <<cache, flight, runs, now>>

\* The flight ends with value v for its leader and for everyone who waits.
Land(c, v) ==
    LET r == RefOf(c)
        done == {c} \cup {d \in Caller : caller[d].pc = "wait" /\ caller[d].got = r} IN
    /\ flight' = [flight EXCEPT ![r] = None]
    /\ caller' = [d \in Caller |->
         IF d \notin done THEN caller[d]
         ELSE [caller[d] EXCEPT !.pc = "landed", !.got = v]]

\* The second look into the cache.
AgainHit(c) ==
    /\ caller[c].pc = "again"
    /\ Cached(RefOf(c))
    /\ Land(c, cache[RefOf(c)].value)
    /\ UNCHANGED <<cache, runs, now>>

\* Mutation: the flight does not look into the cache a second time.
RunUnchecked(c) ==
    /\ caller[c].pc = "again"
    /\ Len(runs) < MaxRuns
    /\ runs' = Append(runs, RefOf(c))
    /\ caller' = [caller EXCEPT ![c].pc = "run", ![c].got = Len(runs')]
    /\ UNCHANGED <<cache, flight, now>>

Run(c) ==
    /\ caller[c].pc = "again"
    /\ ~ Cached(RefOf(c))
    /\ Len(runs) < MaxRuns
    /\ runs' = Append(runs, RefOf(c))
    /\ caller' = [caller EXCEPT ![c].pc = "run", ![c].got = Len(runs')]
    /\ UNCHANGED <<cache, flight, now>>

\* The hook exits and parseResp accepts its answer: a lifetime within the safety margin
\* is not cached.
RunReturns(c) ==
    LET r == RefOf(c)
        v == caller[c].got IN
    /\ caller[c].pc = "run"
    /\ \E ttl \in TTLs :
         cache' = IF ttl = 0 THEN cache
                  ELSE [cache EXCEPT ![r] = [value |-> v, expires |-> now + ttl]]
    /\ Land(c, v)
    /\ UNCHANGED <<runs, now>>

\* The hook fails, runs into the timeout or its leader's context ends, or its answer is
\* no JSON, has an unknown field or no value.
RunFails(c) ==
    /\ caller[c].pc = "run"
    /\ Land(c, None)
    /\ UNCHANGED <<cache, runs, now>>

Landed(c) ==
    /\ caller[c].pc = "landed"
    /\ Resolved(c, caller[c].got)
    /\ UNCHANGED <<cache, flight, runs, now>>

Return(c) ==
    /\ caller[c].pc \in {"resolved", "failed"}
    /\ caller' = [caller EXCEPT ![c] = Idle]
    /\ UNCHANGED <<cache, flight, runs, now>>

Tick ==
    /\ now < MaxTime
    /\ now' = now + 1
    /\ UNCHANGED <<cache, flight, runs, caller>>

Work(c) ==
    \/ CacheHit(c) \/ CacheMiss(c) \/ Lead(c) \/ Join(c) \/ AgainHit(c) \/ Run(c)
    \/ RunReturns(c) \/ RunFails(c) \/ Landed(c) \/ Return(c)

Next == (\E c \in Caller : ResolveFile(c) \/ Work(c)) \/ Tick

Spec == Init /\ [][Next]_vars

\* Every goroutine makes progress: the hook's execution is bounded by its timeout.
Fairness == \A c \in Caller : WF_vars(Work(c))
FairSpec == Spec /\ Fairness

-----------------------------------------------------------------------
(* Properties.                                                           *)

\* ResolveFile is all or nothing: a result holds a value for every name of its file.
AllOrNothing ==
    \A c \in Caller : caller[c].pc = "resolved" =>
      {e[1] : e \in caller[c].out} = {caller[c].file[k].name : k \in DOMAIN caller[c].file}

\* A name is given the value of its own reference, whichever flights and cache entries
\* its callers share.
ValuesOfTheirReference ==
    \A c \in Caller : \A e \in caller[c].out : \E k \in DOMAIN caller[c].file :
      caller[c].file[k].name = e[1] /\ caller[c].file[k].ref = runs[e[2]]

\* The hook is not executed for a reference whose value is cached and valid, nor twice
\* at the same time.
NotRunAgain ==
    [][\A r \in Ref : Len(runs') > Len(runs) /\ runs'[Len(runs')] = r =>
         ~ Cached(r) /\ ~ \E c \in Caller : caller[c].pc = "run" /\ RefOf(c) = r]_vars

\* Every ResolveFile returns, unless the bound on executions is used up.
FilesResolve ==
    \A c \in Caller : caller[c].pc = "resolve" ~>
      (caller[c].pc \in {"resolved", "failed"} \/ Len(runs) = MaxRuns)
========================================================================
