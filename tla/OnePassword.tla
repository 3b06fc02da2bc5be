-------------------------- MODULE OnePassword --------------------------
(***************************************************************************)
(* The 1Password provider of credproxyd: one in-memory cache of resolved   *)
(* references shared by all routes, a lock per credential, singleflight    *)
(* coalescing of misses, and batch refresh from the admin socket.          *)
(*                                                                         *)
(* A thread is a goroutine that serves one request at a time.  Secret      *)
(* values are rotation numbers of the vault: 0 is the empty string (and an *)
(* entry with value 0 is the zero entry of an absent map key), a larger    *)
(* number is a newer secret.                                               *)
(***************************************************************************)
EXTENDS Naturals

CONSTANTS
    Thread,         \* goroutines that call the provider
    NoThread,       \* "nobody": a free lock, an absent flight
    Name,           \* names of the configured credentials, ordered as sort.Strings orders them
    MaxName,        \* a bound of the order
    Pinned,         \* the credentials with preload = true
    Stranger,       \* a name that no credential has
    TTL,            \* TTL of a credential that is not pinned
    Vaults,         \* bound: the versions the secrets rotate to, the first is 1
    MaxTime         \* bound: the clock

ASSUME ThreadAssumption == NoThread \notin Thread
ASSUME NameAssumption ==
    /\ MaxName \in Nat
    /\ Name \subseteq 0 .. MaxName
    /\ Pinned \subseteq Name
    /\ Stranger \in Nat \ Name
ASSUME BoundAssumption == TTL \in Nat \ {0} /\ MaxTime \in Nat

VARIABLES
    vault,      \* the secret 1Password holds for each credential
    now,        \* the daemon's clock
    phase,      \* "preload" before the listeners open, then "serving"
    boot,       \* values Preload has resolved so far, 0 if not yet
    cache,      \* Provider.cache
    lock,       \* Provider.locks: owner of each credential's mutex
    flight,     \* Provider.group: leader of the call in flight for a name
    pc,         \* where each thread is
    op,         \* which method it runs
    sel,        \* the credentials that call works on
    got,        \* entries it has resolved and not stored yet
    res,        \* "ok" or "err" once the outcome is known
    val,        \* the value it returns
    start       \* history: what the vault held of sel when the call began

threadVars == <<pc, op, sel, got, res, val, start>>
vars == <<vault, now, phase, boot, cache, lock, flight, threadVars>>

Entry == [val : Nat, exp : Nat]
NoEntry == [val |-> 0, exp |-> 0]
NothingYet == [n \in Name |-> NoEntry]

PC == {"idle", "read", "do", "join", "lock", "recheck", "resolve", "store",
       "unlock", "forget", "return"}

TypeOK ==
    /\ vault \in [Name -> Nat]
    /\ now \in Nat
    /\ phase \in {"preload", "serving"}
    /\ boot \in [Name -> Nat]
    /\ cache \in [Name -> Entry]
    /\ lock \in [Name -> Thread \cup {NoThread}]
    /\ flight \in [Name -> Thread \cup {NoThread}]
    /\ pc \in [Thread -> PC]
    /\ op \in [Thread -> {"Get", "Refresh", "RefreshMany"}]
    /\ sel \in [Thread -> SUBSET Name]
    /\ got \in [Thread -> [Name -> Entry]]
    /\ res \in [Thread -> {"none", "ok", "err"}]
    /\ val \in [Thread -> Nat]
    /\ start \in [Thread -> [Name -> Nat]]

Init ==
    /\ vault = [n \in Name |-> 1]
    /\ now = 0
    /\ phase = "preload"
    /\ boot = [n \in Name |-> 0]
    /\ cache = NothingYet
    /\ lock = [n \in Name |-> NoThread]
    /\ flight = [n \in Name |-> NoThread]
    /\ pc = [t \in Thread |-> "idle"]
    /\ op = [t \in Thread |-> "Get"]
    /\ sel = [t \in Thread |-> {}]
    /\ got = [t \in Thread |-> NothingYet]
    /\ res = [t \in Thread |-> "none"]
    /\ val = [t \in Thread |-> 0]
    /\ start = [t \in Thread |-> [n \in Name |-> 0]]

-----------------------------------------------------------------------
(* The environment: the vault and the clock.                             *)

Rotate(n) ==
    /\ vault' = [vault EXCEPT ![n] = @ + 1]
    /\ vault' \in Vaults
    /\ UNCHANGED <<now, phase, boot, cache, lock, flight, threadVars>>

Tick ==
    /\ now < MaxTime
    /\ now' = now + 1
    /\ UNCHANGED <<vault, phase, boot, cache, lock, flight, threadVars>>

-----------------------------------------------------------------------
(* Startup.  Preload resolves the pinned credentials in map order and    *)
(* installs them together; a failure ends the process, and the service   *)
(* manager starts it again with nothing in memory.                       *)

PreloadResolve(n) ==
    /\ phase = "preload"
    /\ n \in Pinned
    /\ boot[n] = 0
    /\ boot' = [boot EXCEPT ![n] = vault[n]]
    /\ UNCHANGED <<vault, now, phase, cache, lock, flight, threadVars>>

PreloadFail ==
    /\ phase = "preload"
    /\ \E n \in Pinned : boot[n] = 0
    /\ boot' = [n \in Name |-> 0]
    /\ UNCHANGED <<vault, now, phase, cache, lock, flight, threadVars>>

PreloadStore ==
    /\ phase = "preload"
    /\ \A n \in Pinned : boot[n] # 0
    /\ cache' = [n \in Name |-> IF n \in Pinned THEN [val |-> boot[n], exp |-> 0]
                                ELSE cache[n]]
    /\ boot' = [n \in Name |-> 0]
    /\ phase' = "serving"
    /\ UNCHANGED <<vault, now, lock, flight, threadVars>>

-----------------------------------------------------------------------
(* Calls.  Their bodies are the steps that follow.                       *)

Begin(t, method, S, at) ==
    /\ phase = "serving"
    /\ pc[t] = "idle"
    /\ op' = [op EXCEPT ![t] = method]
    /\ sel' = [sel EXCEPT ![t] = S]
    /\ pc' = [pc EXCEPT ![t] = at]
    /\ start' = [start EXCEPT ![t] = [n \in Name |-> IF n \in S THEN vault[n] ELSE 0]]
    /\ UNCHANGED <<vault, now, phase, boot, cache, lock, flight, got, res, val>>

Get(t, n) == Begin(t, "Get", {n}, "read")

\* Mutation: the credential's mutex is not taken.
RefreshUnlocked(t, n) == Begin(t, "Refresh", {n}, "resolve")
\* Mutation: a refresh joins the flight of a Get of the same name.
RefreshCoalesced(t, n) == Begin(t, "Refresh", {n}, "do")
Refresh(t, n) == Begin(t, "Refresh", {n}, "lock")

\* selectedNames sorts and deduplicates, which leaves a set in name order.
\* all selects the pinned credentials whatever the caller named.
SelectedNames(names, all) == IF all THEN Pinned ELSE names

RefreshMany(t, names, all) ==
    LET selected == SelectedNames(names, all) IN
    /\ selected # {}
    /\ selected \subseteq Name
    /\ Begin(t, "RefreshMany", selected, "lock")

\* Get and Refresh of an unknown name, and RefreshMany of an empty selection
\* or with an unknown name, fail before they touch any shared state.
Refuse(t, method, selected) ==
    /\ phase = "serving"
    /\ pc[t] = "idle"
    /\ \/ ~ selected \subseteq Name
       \/ method = "RefreshMany" /\ selected = {}
    /\ op' = [op EXCEPT ![t] = method]
    /\ pc' = [pc EXCEPT ![t] = "return"]
    /\ res' = [res EXCEPT ![t] = "err"]
    /\ UNCHANGED <<vault, now, phase, boot, cache, lock, flight, sel, got, val, start>>

-----------------------------------------------------------------------
(* Get: the cache, then singleflight.                                    *)

\* Mutation: pinned entries expire too.
FreshWithoutPin(n) == cache[n].val # 0 /\ now < cache[n].exp

\* cached.valid && (spec.Preload || p.now().Before(cached.expires))
Fresh(n) == cache[n].val # 0 /\ (n \in Pinned \/ now < cache[n].exp)

ReadCache(t) ==
    /\ pc[t] = "read"
    /\ \E n \in sel[t] :
         \/ /\ Fresh(n)
            /\ res' = [res EXCEPT ![t] = "ok"]
            /\ val' = [val EXCEPT ![t] = cache[n].val]
            /\ pc' = [pc EXCEPT ![t] = "return"]
         \/ /\ ~ Fresh(n)
            /\ pc' = [pc EXCEPT ![t] = "do"]
            /\ UNCHANGED <<res, val>>
    /\ UNCHANGED <<vault, now, phase, boot, cache, lock, flight, op, sel, got, start>>

\* group.Do: the first caller of a name leads, the others wait for its result.
Lead(t) ==
    /\ pc[t] = "do"
    /\ \E n \in sel[t] :
         /\ flight[n] = NoThread
         /\ flight' = [flight EXCEPT ![n] = t]
    /\ pc' = [pc EXCEPT ![t] = "lock"]
    /\ UNCHANGED <<vault, now, phase, boot, cache, lock, op, sel, got, res, val, start>>

Join(t) ==
    /\ pc[t] = "do"
    /\ \E n \in sel[t] : flight[n] # NoThread
    /\ pc' = [pc EXCEPT ![t] = "join"]
    /\ UNCHANGED <<vault, now, phase, boot, cache, lock, flight, op, sel, got, res, val, start>>

-----------------------------------------------------------------------
(* The locked section of Get's flight, of Refresh and of RefreshMany.    *)

Held(t) == {n \in Name : lock[n] = t}
IsLeast(n, S) == n \in S /\ \A m \in S : n <= m
IsGreatest(n, S) == n \in S /\ \A m \in S : m <= n

\* Mutation: the locks are taken in any order.
WantsUnsorted(t, n) == pc[t] = "lock" /\ n \in sel[t] \ Held(t)

\* The lock a thread asks for next: the selection is sorted.
Wants(t, n) == pc[t] = "lock" /\ IsLeast(n, sel[t] \ Held(t))

Lock(t) ==
    \E n \in Name :
      /\ Wants(t, n)
      /\ lock[n] = NoThread
      /\ lock' = [lock EXCEPT ![n] = t]
      /\ pc' = [pc EXCEPT ![t] = IF sel[t] \ Held(t) # {n} THEN "lock"
                                 ELSE IF op[t] = "Get" THEN "recheck" ELSE "resolve"]
      /\ UNCHANGED <<vault, now, phase, boot, cache, flight, op, sel, got, res, val, start>>

\* Mutation: no second look at the cache.
RecheckSkipped(t) ==
    /\ pc[t] = "recheck"
    /\ pc' = [pc EXCEPT ![t] = "resolve"]
    /\ UNCHANGED <<vault, now, phase, boot, cache, lock, flight, op, sel, got, res, val, start>>

\* Get looks at the cache again: a refresh may have filled it meanwhile.
Recheck(t) ==
    /\ pc[t] = "recheck"
    /\ \E n \in sel[t] :
         \/ /\ Fresh(n)
            /\ res' = [res EXCEPT ![t] = "ok"]
            /\ val' = [val EXCEPT ![t] = cache[n].val]
            /\ pc' = [pc EXCEPT ![t] = "unlock"]
         \/ /\ ~ Fresh(n)
            /\ pc' = [pc EXCEPT ![t] = "resolve"]
            /\ UNCHANGED <<res, val>>
    /\ UNCHANGED <<vault, now, phase, boot, cache, lock, flight, op, sel, got, start>>

Unresolved(t) == {n \in sel[t] : got[t][n].val = 0}

\* Mutation: every entry is published as soon as it is resolved.
ResolveInPlace(t) ==
    /\ pc[t] = "resolve"
    /\ \E n \in Name :
         LET e == [val |-> vault[n], exp |-> IF n \in Pinned THEN 0 ELSE now + TTL] IN
         /\ IsLeast(n, Unresolved(t))
         /\ got' = [got EXCEPT ![t] = [@ EXCEPT ![n] = e]]
         /\ cache' = [cache EXCEPT ![n] = e]
         /\ val' = [val EXCEPT ![t] = IF op[t] = "RefreshMany" THEN 0 ELSE vault[n]]
         /\ pc' = [pc EXCEPT ![t] = IF Unresolved(t) = {n} THEN "store" ELSE "resolve"]
    /\ UNCHANGED <<vault, now, phase, boot, lock, flight, op, sel, res, start>>

\* The resolver answers with a secret; the expiry is taken at that moment.
Resolve(t) ==
    /\ pc[t] = "resolve"
    /\ \E n \in Name :
         /\ IsLeast(n, Unresolved(t))
         /\ got' = [got EXCEPT ![t] = [@ EXCEPT ![n] =
                      [val |-> vault[n], exp |-> IF n \in Pinned THEN 0 ELSE now + TTL]]]
         /\ val' = [val EXCEPT ![t] = IF op[t] = "RefreshMany" THEN 0 ELSE vault[n]]
         /\ pc' = [pc EXCEPT ![t] = IF Unresolved(t) = {n} THEN "store" ELSE "resolve"]
    /\ UNCHANGED <<vault, now, phase, boot, cache, lock, flight, op, sel, res, start>>

\* Mutation: an empty value is a success.
EmptyAccepted(t) ==
    /\ pc[t] = "resolve"
    /\ res' = [res EXCEPT ![t] = "ok"]
    /\ pc' = [pc EXCEPT ![t] = "unlock"]
    /\ UNCHANGED <<vault, now, phase, boot, cache, lock, flight, op, sel, got, val, start>>

\* Mutation: the error path returns without the deferred unlocks.
FailWithoutUnlock(t) ==
    /\ pc[t] = "resolve"
    /\ res' = [res EXCEPT ![t] = "err"]
    /\ got' = [got EXCEPT ![t] = NothingYet]
    /\ pc' = [pc EXCEPT ![t] = "return"]
    /\ UNCHANGED <<vault, now, phase, boot, cache, lock, flight, op, sel, val, start>>

\* The resolver fails, returns an empty value, or the caller's context ends.
ResolveFail(t) ==
    /\ pc[t] = "resolve"
    /\ res' = [res EXCEPT ![t] = "err"]
    /\ got' = [got EXCEPT ![t] = NothingYet]
    /\ pc' = [pc EXCEPT ![t] = "unlock"]
    /\ UNCHANGED <<vault, now, phase, boot, cache, lock, flight, op, sel, val, start>>

\* All resolved entries replace the cached ones in one critical section of mu.
Store(t) ==
    /\ pc[t] = "store"
    /\ cache' = [n \in Name |-> IF n \in sel[t] THEN got[t][n] ELSE cache[n]]
    /\ res' = [res EXCEPT ![t] = "ok"]
    /\ got' = [got EXCEPT ![t] = NothingYet]
    /\ pc' = [pc EXCEPT ![t] = "unlock"]
    /\ UNCHANGED <<vault, now, phase, boot, lock, flight, op, sel, val, start>>

\* Deferred unlocks, in the reverse order of the locks.
Unlock(t) ==
    /\ pc[t] = "unlock"
    /\ \E n \in Name :
         /\ IsGreatest(n, Held(t))
         /\ lock' = [lock EXCEPT ![n] = NoThread]
         /\ pc' = [pc EXCEPT ![t] = IF Held(t) # {n} THEN "unlock"
                                    ELSE IF op[t] = "Get" THEN "forget" ELSE "return"]
    /\ UNCHANGED <<vault, now, phase, boot, cache, flight, op, sel, got, res, val, start>>

\* singleflight removes the finished call and wakes everyone who joined it.
Forget(t) ==
    /\ pc[t] = "forget"
    /\ LET woken == {u \in Thread : pc[u] = "join" /\ sel[u] = sel[t]} \cup {t} IN
         /\ flight' = [n \in Name |-> IF n \in sel[t] THEN NoThread ELSE flight[n]]
         /\ pc' = [u \in Thread |-> IF u \in woken THEN "return" ELSE pc[u]]
         /\ res' = [u \in Thread |-> IF u \in woken THEN res[t] ELSE res[u]]
         /\ val' = [u \in Thread |-> IF u \in woken THEN val[t] ELSE val[u]]
    /\ UNCHANGED <<vault, now, phase, boot, cache, lock, op, sel, got, start>>

\* The caller has its result; what the call kept on its stack is gone.
Return(t) ==
    /\ pc[t] = "return"
    /\ pc' = [pc EXCEPT ![t] = "idle"]
    /\ op' = [op EXCEPT ![t] = "Get"]
    /\ sel' = [sel EXCEPT ![t] = {}]
    /\ res' = [res EXCEPT ![t] = "none"]
    /\ val' = [val EXCEPT ![t] = 0]
    /\ start' = [start EXCEPT ![t] = [n \in Name |-> 0]]
    /\ UNCHANGED <<vault, now, phase, boot, cache, lock, flight, got>>

-----------------------------------------------------------------------
Call(t) ==
    \/ \E n \in Name : Get(t, n) \/ Refresh(t, n)
    \/ \E names \in SUBSET (Name \cup {Stranger}), all \in BOOLEAN :
         \/ RefreshMany(t, names, all)
         \/ Refuse(t, "RefreshMany", SelectedNames(names, all))
    \/ \E method \in {"Get", "Refresh"} : Refuse(t, method, {Stranger})

\* The steps a call takes by itself.
Step(t) ==
    \/ ReadCache(t) \/ Lead(t) \/ Join(t)
    \/ Recheck(t) \/ Resolve(t) \/ ResolveFail(t) \/ Store(t)
    \/ Unlock(t) \/ Forget(t) \/ Return(t)

Next ==
    \/ Tick
    \/ \E n \in Name : Rotate(n) \/ PreloadResolve(n)
    \/ PreloadFail
    \/ PreloadStore
    \/ \E t \in Thread : Call(t) \/ Lock(t) \/ Step(t)

Spec == Init /\ [][Next]_vars

\* A goroutine that can run does run, the resolver answers or fails, and Go's
\* mutex hands itself to a waiter that has starved: no waiter is passed over
\* forever.  Nothing is assumed of callers, of the vault or of the clock.
Fairness == \A t \in Thread : WF_vars(Step(t)) /\ SF_vars(Lock(t))
FairSpec == Spec /\ Fairness

-----------------------------------------------------------------------
(* Properties.                                                           *)

\* A credential is resolved by one goroutine at a time, whichever of Get,
\* Refresh and RefreshMany it runs (provider.go: the per-name mutex held around
\* every Resolve).
Resolving(t, n) == pc[t] \in {"resolve", "store"} /\ n \in sel[t]
OneResolverPerCredential ==
    \A t, u \in Thread, n \in Name : Resolving(t, n) /\ Resolving(u, n) => t = u

\* Get goes to 1Password only while the cache has nothing fresh: a Get that waited
\* behind a refresh uses the refreshed value (provider.go, the second look at
\* the cache inside group.Do).
GetResolvesOnlyStale ==
    \A t \in Thread, n \in Name : op[t] = "Get" /\ Resolving(t, n) => ~ Fresh(n)

\* Once a refresh has succeeded, every credential it selected is cached at least
\* as new as 1Password held it when the refresh was requested; results of calls
\* that were in flight do not undo it (Refresh and RefreshMany, provider.go).
RefreshTakesEffect ==
    \A t \in Thread :
      op[t] # "Get" /\ pc[t] = "return" /\ res[t] = "ok"
        => \A n \in sel[t] : cache[n].val >= start[t][n]

\* A value leaves the provider only if 1Password issued it for that credential
\* and no Get or Refresh succeeds with the empty string.
ResultsAreSecrets ==
    \A t \in Thread :
      pc[t] = "return" /\ res[t] = "ok" /\ op[t] # "RefreshMany"
        => \A n \in sel[t] : val[t] \in 1 .. vault[n]

\* No set of goroutines waits on each other in a ring: one that waits for a
\* mutex or for a flight waits for somebody outside the set, or not at all.
WaitsFor(t, u) ==
    \/ \E n \in Name : Wants(t, n) /\ lock[n] = u
    \/ pc[t] = "join" /\ \E n \in sel[t] : flight[n] = u
NoCircularWait ==
    \A T \in SUBSET Thread :
      T # {} => \E t \in T : \A u \in T : ~ WaitsFor(t, u)

\* A pinned credential changes only by a refresh: never because a Get found it
\* old, and never back to an older secret (design-daemon-hook-runtime.md:94).
PinnedFixed ==
    \A n \in Pinned :
      phase = "serving" /\ cache'[n] # cache[n]
        => \E t \in Thread : /\ op[t] # "Get" /\ n \in sel[t]
                             /\ pc[t] = "store" /\ res'[t] = "ok"
PinnedFixedUntilRefresh == [][PinnedFixed]_vars

\* While a call resolves its selection, no step touches the cached values of that
\* selection except its own success, which replaces all of them at once: a batch
\* that fails has replaced nothing (RefreshMany, provider.go:126).
BatchStep ==
    \A t \in Thread :
      pc[t] \in {"resolve", "store"} /\ (\E n \in sel[t] : cache'[n] # cache[n])
        => /\ pc[t] = "store"
           /\ res'[t] = "ok"
           /\ \A n \in sel[t] : cache'[n] = got[t][n]
BatchIsAllOrNothing == [][BatchStep]_vars

\* Every call returns: nobody waits forever for a lock or for a flight.
EveryCallReturns == \A t \in Thread : pc[t] # "idle" ~> pc[t] = "idle"

\* The provider implements the abstract store: the cache only ever moves
\* forward through secrets of the vault.
Abstract == INSTANCE CredentialStore WITH store <- [n \in Name |-> cache[n].val]
ImplementsStore == Abstract!Spec

-----------------------------------------------------------------------
(* The inductive invariant behind the safety properties.                 *)

\* Who owns locks and flights, and which selections the methods have.
InSection(t) == pc[t] \in {"recheck", "resolve", "store"}
SectionLocked ==
    \A t \in Thread, n \in Name : InSection(t) /\ n \in sel[t] => lock[n] = t
LockOwned ==
    \A t \in Thread, n \in Name :
      lock[n] = t => n \in sel[t] /\ (InSection(t) \/ pc[t] \in {"lock", "unlock"})
FlightLed ==
    \A t \in Thread, n \in Name :
      flight[n] = t => /\ n \in sel[t] /\ op[t] = "Get"
                       /\ InSection(t) \/ pc[t] \in {"lock", "unlock", "forget"}
LockedInOrder ==
    \A t \in Thread, n, m \in Name :
      pc[t] = "lock" /\ lock[n] = t /\ m \in sel[t] /\ lock[m] # t => n < m
GetOfOne ==
    \A t \in Thread :
      /\ pc[t] \in {"read", "do", "join", "recheck", "forget"} => op[t] = "Get"
      /\ op[t] = "Get" => \A n, m \in sel[t] : n = m
      /\ pc[t] = "idle" => sel[t] = {}
Ownership == SectionLocked /\ LockOwned /\ FlightLed /\ LockedInOrder /\ GetOfOne

\* Resolved values lie between what they replace and what the vault holds.
VaultBounds ==
    \A n \in Name : vault[n] >= 1 /\ cache[n].val <= vault[n] /\ boot[n] <= vault[n]
StartBounds ==
    \A t \in Thread, n \in Name : start[t][n] <= vault[n]
GotBounds ==
    \A t \in Thread, n \in Name :
      got[t][n].val # 0 =>
        /\ pc[t] \in {"resolve", "store"} /\ n \in sel[t]
        /\ cache[n].val <= got[t][n].val /\ got[t][n].val <= vault[n]
        /\ start[t][n] <= got[t][n].val
GotAll ==
    \A t \in Thread : pc[t] = "store" => \A n \in sel[t] : got[t][n].val # 0
Versions == VaultBounds /\ StartBounds /\ GotBounds /\ GotAll

\* Preload comes first and leaves every pinned credential in the cache.
Startup ==
    /\ phase = "preload" => /\ \A n \in Name : cache[n].val = 0
                            /\ \A t \in Thread : pc[t] = "idle"
    /\ phase = "serving" => \A n \in Pinned : cache[n].val # 0

RefreshDone ==
    \A t \in Thread :
      op[t] # "Get" /\ pc[t] \in {"unlock", "return"} /\ res[t] = "ok"
        => \A n \in sel[t] : start[t][n] <= cache[n].val

\* Get and Refresh work on one credential, and what they are about to return is
\* a value that 1Password issued for it.
Answered(t) ==
    \/ pc[t] = "store"
    \/ pc[t] \in {"unlock", "forget", "return"} /\ res[t] = "ok"
Answers ==
    \A t \in Thread :
      op[t] # "RefreshMany" =>
        /\ \A n, m \in sel[t] : n = m
        /\ Answered(t) => \A n \in sel[t] : val[t] >= 1 /\ val[t] <= vault[n]

IInv == /\ TypeOK
        /\ Ownership
        /\ Versions
        /\ Startup
        /\ GetResolvesOnlyStale
        /\ RefreshDone
        /\ Answers
========================================================================
