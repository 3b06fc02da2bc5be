------------------------ MODULE ScriptProvider ------------------------
(***************************************************************************)
(* The provider of a script route of credproxyd: hook subprocesses that    *)
(* print a credential, a cache of one entry with a time to live, and       *)
(* singleflight coalescing of concurrent hooks, one group for Get and one  *)
(* for Refresh.                                                            *)
(*                                                                         *)
(* A credential is the number of times its issuer has rotated it.  0 is    *)
(* the empty Injection of a route without a command, or no entry at all.   *)
(***************************************************************************)
EXTENDS Naturals

CONSTANTS
    Caller,         \* goroutines that serve requests of the route
    NoThread,       \* "nobody": no flight
    ExpiresIn,      \* values of expires_in_sec a hook may print
    Timeout,        \* hook_timeout_sec
    Safety,         \* defaultSafety
    MaxCred,        \* bound: versions of the credential, the first is 1
    MaxTime         \* bound: the clock

ASSUME ThreadAssumption == NoThread \notin Caller
ASSUME TimeAssumption ==
    /\ ExpiresIn \subseteq Nat
    /\ Timeout \in Nat /\ Safety \in Nat
    /\ Timeout <= Safety
    /\ MaxCred \in Nat /\ MaxTime \in Nat

VARIABLES
    commands,   \* which of credential_command and refresh_command are configured
    cred,       \* the credential the issuer honours now
    now,        \* the daemon's clock
    entry,      \* ttlCache.e
    flight,     \* ttlCache.sf: leader of the call in flight under each key
    phase,         \* where each thread is
    op,         \* which method it runs
    at,         \* when its hook was started, and then when its output was parsed
    out,        \* what its hook read: the credential and its lifetime
    res,        \* outcome: "ok", "err" or "reason" (a classified hook failure)
    val,        \* the credential it returns
    start       \* history: the credential when the call began

threadVars == <<phase, op, at, out, res, val, start>>
scriptVars == <<commands, cred, now, entry, flight, threadVars>>

\* dies is not in the code: the moment the issuer stops honouring the value.
Output == [val : Nat, ttl : Nat, dies : Nat]
NoOutput == [val |-> 0, ttl |-> 0, dies |-> 0]
CacheEntry == [val : Nat, exp : Nat, dies : Nat]
NoEntry == [val |-> 0, exp |-> 0, dies |-> 0]

Method == {"get", "refresh"}
Phases == {"idle", "read", "do", "join", "hook", "output", "set", "forget", "return"}

ScriptTypeOK ==
    /\ commands \in SUBSET Method
    /\ cred \in Nat
    /\ now \in Nat
    /\ entry \in CacheEntry
    /\ flight \in [Method -> Caller \cup {NoThread}]
    /\ phase \in [Caller -> Phases]
    /\ op \in [Caller -> Method]
    /\ at \in [Caller -> Nat]
    /\ out \in [Caller -> Output]
    /\ res \in [Caller -> {"none", "ok", "err", "reason"}]
    /\ val \in [Caller -> Nat]
    /\ start \in [Caller -> Nat]

ScriptInit ==
    /\ commands \in SUBSET Method
    /\ cred = 1
    /\ now = 0
    /\ entry = NoEntry
    /\ flight = [m \in Method |-> NoThread]
    /\ phase = [t \in Caller |-> "idle"]
    /\ op = [t \in Caller |-> "get"]
    /\ at = [t \in Caller |-> 0]
    /\ out = [t \in Caller |-> NoOutput]
    /\ res = [t \in Caller |-> "none"]
    /\ val = [t \in Caller |-> 0]
    /\ start = [t \in Caller |-> 0]

-----------------------------------------------------------------------
(* The environment: the issuer and the clock.                            *)

Rotate ==
    /\ cred < MaxCred
    /\ cred' = cred + 1
    /\ UNCHANGED <<commands, now, entry, flight, threadVars>>

Tick ==
    /\ now < MaxTime
    /\ now' = now + 1
    /\ UNCHANGED <<commands, cred, entry, flight, threadVars>>

-----------------------------------------------------------------------
(* Get and Refresh up to their hook.                                     *)

Get(t) ==
    /\ phase[t] = "idle"
    /\ op' = [op EXCEPT ![t] = "get"]
    /\ phase' = [phase EXCEPT ![t] = "read"]
    /\ start' = [start EXCEPT ![t] = cred]
    /\ UNCHANGED <<commands, cred, now, entry, flight, at, out, res, val>>

\* Mutation: Refresh keeps the cached entry and may return it.
RefreshFromCache(t) ==
    /\ phase[t] = "idle"
    /\ op' = [op EXCEPT ![t] = "refresh"]
    /\ phase' = [phase EXCEPT ![t] = "read"]
    /\ start' = [start EXCEPT ![t] = cred]
    /\ UNCHANGED <<commands, cred, now, entry, flight, at, out, res, val>>

\* Refresh drops the cached entry before anything else.
Refresh(t) ==
    /\ phase[t] = "idle"
    /\ op' = [op EXCEPT ![t] = "refresh"]
    /\ phase' = [phase EXCEPT ![t] = "do"]
    /\ start' = [start EXCEPT ![t] = cred]
    /\ entry' = NoEntry
    /\ UNCHANGED <<commands, cred, now, flight, at, out, res, val>>

Cached == entry.val # 0 /\ now < entry.exp

ReadCache(t) ==
    /\ phase[t] = "read"
    /\ \/ /\ Cached
          /\ res' = [res EXCEPT ![t] = "ok"]
          /\ val' = [val EXCEPT ![t] = entry.val]
          /\ phase' = [phase EXCEPT ![t] = "return"]
       \/ /\ ~ Cached
          /\ phase' = [phase EXCEPT ![t] = "do"]
          /\ UNCHANGED <<res, val>>
    /\ UNCHANGED <<commands, cred, now, entry, flight, op, at, out, start>>

\* Refresh falls back to credential_command.
HasCommand(method) == method \in commands \/ "get" \in commands

\* Mutation: a caller that finds a flight under its key starts one of its own.
LeadAlways(t) ==
    /\ phase[t] = "do"
    /\ HasCommand(op[t])
    /\ flight' = [flight EXCEPT ![op[t]] = t]
    /\ at' = [at EXCEPT ![t] = now]
    /\ phase' = [phase EXCEPT ![t] = "hook"]
    /\ UNCHANGED <<commands, cred, now, entry, op, out, res, val, start>>

\* sf.Do: the first caller under a key leads.  Without a command its result is an
\* empty Injection, which is not cached.
Lead(t) ==
    /\ phase[t] = "do"
    /\ flight[op[t]] = NoThread
    /\ flight' = [flight EXCEPT ![op[t]] = t]
    /\ \/ /\ HasCommand(op[t])
          /\ at' = [at EXCEPT ![t] = now]
          /\ phase' = [phase EXCEPT ![t] = "hook"]
          /\ UNCHANGED res
       \/ /\ ~ HasCommand(op[t])
          /\ res' = [res EXCEPT ![t] = "ok"]
          /\ phase' = [phase EXCEPT ![t] = "forget"]
          /\ UNCHANGED at
    /\ UNCHANGED <<commands, cred, now, entry, op, out, val, start>>

Join(t) ==
    /\ phase[t] = "do"
    /\ flight[op[t]] # NoThread
    /\ phase' = [phase EXCEPT ![t] = "join"]
    /\ UNCHANGED <<commands, cred, now, entry, flight, op, at, out, res, val, start>>

-----------------------------------------------------------------------
(* The hook subprocess and what follows it.                              *)

\* The hook obtains the credential from wherever it keeps it.
HookReads(t) ==
    /\ phase[t] = "hook"
    /\ now <= at[t] + Timeout
    /\ \E ttl \in ExpiresIn :
         out' = [out EXCEPT ![t] = [val |-> cred, ttl |-> ttl, dies |-> now + ttl]]
    /\ phase' = [phase EXCEPT ![t] = "output"]
    /\ UNCHANGED <<commands, cred, now, entry, flight, op, at, res, val, start>>

\* It exits and its output is parsed; the deadline counts from this moment.
HookExits(t) ==
    /\ phase[t] = "output"
    /\ now <= at[t] + Timeout
    /\ res' = [res EXCEPT ![t] = "ok"]
    /\ val' = [val EXCEPT ![t] = out[t].val]
    /\ at' = [at EXCEPT ![t] = now]
    /\ phase' = [phase EXCEPT ![t] = IF out[t].ttl > Safety THEN "set" ELSE "forget"]
    /\ UNCHANGED <<commands, cred, now, entry, flight, op, out, start>>

\* Mutation: the failed call stays in the group.
FailKeepsFlight(t) ==
    /\ phase[t] \in {"hook", "output"}
    /\ res' = [res EXCEPT ![t] = "err"]
    /\ phase' = [phase EXCEPT ![t] = "return"]
    /\ UNCHANGED <<commands, cred, now, entry, flight, op, at, out, val, start>>

\* It exits with an error, its output does not parse, it runs into the timeout
\* or the context of the request that started it is cancelled.
HookFails(t) ==
    /\ phase[t] \in {"hook", "output"}
    /\ \E failure \in {"err", "reason"} : res' = [res EXCEPT ![t] = failure]
    /\ phase' = [phase EXCEPT ![t] = "forget"]
    /\ UNCHANGED <<commands, cred, now, entry, flight, op, at, out, val, start>>

\* Mutation: the safety margin is not subtracted.
SetWithoutMargin(t) ==
    /\ phase[t] = "set"
    /\ entry' = [val |-> out[t].val, exp |-> at[t] + out[t].ttl, dies |-> out[t].dies]
    /\ phase' = [phase EXCEPT ![t] = "forget"]
    /\ UNCHANGED <<commands, cred, now, flight, op, at, out, res, val, start>>

Set(t) ==
    /\ phase[t] = "set"
    /\ entry' = [val |-> out[t].val, exp |-> at[t] + (out[t].ttl - Safety),
                 dies |-> out[t].dies]
    /\ phase' = [phase EXCEPT ![t] = "forget"]
    /\ UNCHANGED <<commands, cred, now, flight, op, at, out, res, val, start>>

\* singleflight removes the finished call and wakes everyone who joined it.
Forget(t) ==
    /\ phase[t] = "forget"
    /\ LET woken == {u \in Caller : phase[u] = "join" /\ op[u] = op[t]} \cup {t} IN
         /\ phase' = [u \in Caller |-> IF u \in woken THEN "return" ELSE phase[u]]
         /\ res' = [u \in Caller |-> IF u \in woken THEN res[t] ELSE res[u]]
         /\ val' = [u \in Caller |-> IF u \in woken THEN val[t] ELSE val[u]]
    /\ flight' = [flight EXCEPT ![op[t]] = NoThread]
    /\ at' = [at EXCEPT ![t] = 0]
    /\ out' = [out EXCEPT ![t] = NoOutput]
    /\ UNCHANGED <<commands, cred, now, entry, op, start>>

Return(t) ==
    /\ phase[t] = "return"
    /\ phase' = [phase EXCEPT ![t] = "idle"]
    /\ op' = [op EXCEPT ![t] = "get"]
    /\ res' = [res EXCEPT ![t] = "none"]
    /\ val' = [val EXCEPT ![t] = 0]
    /\ start' = [start EXCEPT ![t] = 0]
    /\ UNCHANGED <<commands, cred, now, entry, flight, at, out>>

-----------------------------------------------------------------------
Step(t) ==
    \/ ReadCache(t) \/ Lead(t) \/ Join(t)
    \/ HookReads(t) \/ HookExits(t) \/ HookFails(t)
    \/ Set(t) \/ Forget(t)

ScriptNext ==
    \/ Rotate
    \/ Tick
    \/ \E t \in Caller : Get(t) \/ Refresh(t) \/ Step(t) \/ Return(t)

ScriptSpec == ScriptInit /\ [][ScriptNext]_scriptVars

\* A goroutine that can run does run, and a hook ends at the latest when its
\* timeout kills it (exec.CommandContext).
Fairness == \A t \in Caller : WF_scriptVars(Step(t) \/ Return(t))
FairSpec == ScriptSpec /\ Fairness

-----------------------------------------------------------------------
(* Properties.                                                           *)

\* What the cache serves is still honoured by its issuer: the margin of
\* parseHookResponse makes up for the time between the moment the hook read the
\* credential and the moment its output was parsed.
CachedIsAlive == Cached => now < entry.dies

\* Of each of the two commands at most one process runs (ttlCache.do).
RunsHook(t) == phase[t] \in {"hook", "output"}
OneHookPerMethod ==
    \A t, u \in Caller : RunsHook(t) /\ RunsHook(u) /\ op[t] = op[u] => t = u

\* Every Get and every Refresh returns, whoever led the flight it waits for.
EveryCallReturns == \A t \in Caller : phase[t] # "idle" ~> phase[t] = "idle"

\* README.md:268: while a response is cached the hook is not executed again.
GetHookStarts == \E t \in Caller : op[t] = "get" /\ phase[t] = "do" /\ phase'[t] = "hook"
NotReexecuted == [][GetHookStarts => ~ Cached]_scriptVars

\* credproxy/types.go:17: Refresh forces a refresh, so that what it returns is not
\* older than what the issuer honoured when it was called.
RefreshForces ==
    \A t \in Caller :
      op[t] = "refresh" /\ phase[t] = "return" /\ res[t] = "ok" /\ commands # {}
        => val[t] >= start[t]

-----------------------------------------------------------------------
(* The inductive invariant behind the safety properties.                 *)

Leads(t) == phase[t] \in {"hook", "output", "set", "forget"}
FlightLed ==
    \A t \in Caller, m \in Method : flight[m] = t <=> Leads(t) /\ op[t] = m

\* When a hook read its credential it had been running for a while, and when it was
\* parsed at most Timeout had passed since then.
HookTimes ==
    \A t \in Caller :
      /\ phase[t] = "hook" => at[t] <= now
      /\ phase[t] = "output" => at[t] + out[t].ttl <= out[t].dies
      /\ phase[t] = "set" => /\ out[t].ttl > Safety
                         /\ at[t] + out[t].ttl <= out[t].dies + Safety
EntryTimes == entry.exp <= entry.dies

ScriptInv == ScriptTypeOK /\ FlightLed /\ HookTimes /\ EntryTimes
========================================================================
