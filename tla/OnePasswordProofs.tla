----------------------- MODULE OnePasswordProofs -----------------------
(***************************************************************************)
(* Proofs about the 1Password provider for any number of threads and       *)
(* credentials.  The properties rest on one inductive invariant, IInv: who *)
(* owns locks, in which order, and between which versions the values that  *)
(* are resolved but not yet stored must lie.                               *)
(***************************************************************************)
EXTENDS OnePassword, TLAPS

\* The provers a leaf is tried with, in turn, unless it names its own.
USE SMT, Zenon, SMTT(30)

\* Every step keeps the variables in their types (all methods of Provider).
LEMMA NextTypeOK == TypeOK /\ [Next]_vars => TypeOK'
<1> SUFFICES ASSUME TypeOK, [Next]_vars PROVE TypeOK'
  OBVIOUS
<1> USE NameAssumption, BoundAssumption DEF TypeOK, Entry, NoEntry, NothingYet, PC
<1>1. CASE Tick
  BY <1>1 DEF Tick, threadVars
<1>2. ASSUME NEW n \in Name, Rotate(n) PROVE TypeOK'
  BY <1>2 DEF Rotate, threadVars
<1>3. ASSUME NEW n \in Name, PreloadResolve(n) PROVE TypeOK'
  BY <1>3 DEF PreloadResolve, threadVars
<1>4. CASE PreloadFail
  BY <1>4 DEF PreloadFail, threadVars
<1>5. CASE PreloadStore
  BY <1>5 DEF PreloadStore, threadVars
<1>6. ASSUME NEW t \in Thread, Call(t) PROVE TypeOK'
  <2>1. ASSUME NEW method \in {"Get", "Refresh", "RefreshMany"},
               NEW S \in SUBSET Name, NEW at \in {"read", "lock"},
               Begin(t, method, S, at)
        PROVE TypeOK'
    BY <2>1 DEF Begin
  <2>2. ASSUME NEW method \in {"Get", "Refresh", "RefreshMany"}, NEW S,
               Refuse(t, method, S)
        PROVE TypeOK'
    BY <2>2 DEF Refuse
  <2>3. ASSUME NEW n \in Name, Get(t, n) \/ Refresh(t, n) PROVE TypeOK'
    BY <2>1, <2>3, Zenon DEF Get, Refresh
  <2>4. ASSUME NEW names, NEW all, RefreshMany(t, names, all) PROVE TypeOK'
    BY <2>1, <2>4, Zenon DEF RefreshMany
  <2>5. QED
    BY <1>6, <2>2, <2>3, <2>4 DEF Call
<1>7. ASSUME NEW t \in Thread, Lock(t) PROVE TypeOK'
  BY <1>7 DEF Lock
<1>8. ASSUME NEW t \in Thread, ReadCache(t) PROVE TypeOK'
  <2>1. PICK n \in sel[t] : \/ /\ res' = [res EXCEPT ![t] = "ok"]
                              /\ val' = [val EXCEPT ![t] = cache[n].val]
                              /\ pc' = [pc EXCEPT ![t] = "return"]
                           \/ /\ pc' = [pc EXCEPT ![t] = "do"]
                              /\ UNCHANGED <<res, val>>
    BY <1>8, Zenon DEF ReadCache
  <2>2. n \in Name /\ cache[n].val \in Nat
    OBVIOUS
  <2>3. QED
    BY <1>8, <2>1, <2>2, Zenon DEF ReadCache
<1>9. ASSUME NEW t \in Thread, Lead(t) PROVE TypeOK'
  BY <1>9 DEF Lead
<1>10. ASSUME NEW t \in Thread, Join(t) PROVE TypeOK'
  BY <1>10 DEF Join
<1>11. ASSUME NEW t \in Thread, Recheck(t) PROVE TypeOK'
  <2>1. PICK n \in sel[t] : \/ /\ res' = [res EXCEPT ![t] = "ok"]
                              /\ val' = [val EXCEPT ![t] = cache[n].val]
                              /\ pc' = [pc EXCEPT ![t] = "unlock"]
                           \/ /\ pc' = [pc EXCEPT ![t] = "resolve"]
                              /\ UNCHANGED <<res, val>>
    BY <1>11, Zenon DEF Recheck
  <2>2. n \in Name /\ cache[n].val \in Nat
    OBVIOUS
  <2>3. QED
    BY <1>11, <2>1, <2>2, Zenon DEF Recheck
<1>12. ASSUME NEW t \in Thread, Resolve(t) PROVE TypeOK'
  BY <1>12 DEF Resolve
<1>13. ASSUME NEW t \in Thread, ResolveFail(t) PROVE TypeOK'
  BY <1>13 DEF ResolveFail
<1>14. ASSUME NEW t \in Thread, Store(t) PROVE TypeOK'
  BY <1>14 DEF Store
<1>15. ASSUME NEW t \in Thread, Unlock(t) PROVE TypeOK'
  BY <1>15 DEF Unlock
<1>16. ASSUME NEW t \in Thread, Forget(t) PROVE TypeOK'
  BY <1>16 DEF Forget
<1>17. ASSUME NEW t \in Thread, Return(t) PROVE TypeOK'
  BY <1>17 DEF Return
<1>18. CASE UNCHANGED vars
  BY <1>18 DEF vars, threadVars
<1>19. QED
  <2> HIDE DEF TypeOK
  <2>1. QED
    BY <1>1, <1>2, <1>3, <1>4, <1>5, <1>6, <1>7, <1>8, <1>9, <1>10, <1>11, <1>12,
       <1>13, <1>14, <1>15, <1>16, <1>17, <1>18 DEF Next, Step

\* The variables keep their types in every behaviour of the provider.
THEOREM TypeCorrect == Spec => []TypeOK
<1>1. Init => TypeOK
  BY NameAssumption DEF Init, TypeOK, Entry, NoEntry, NothingYet, PC
<1>2. QED
  BY <1>1, NextTypeOK, PTL DEF Spec

-----------------------------------------------------------------------
\* A call either starts one of the three methods on known credentials or is
\* refused at once (Get, Refresh, RefreshMany).
LEMMA CallCases ==
  ASSUME NEW t \in Thread, Call(t)
  PROVE  \/ \E method \in {"Refresh", "RefreshMany"}, S \in SUBSET Name :
              Begin(t, method, S, "lock")
         \/ \E n \in Name : Begin(t, "Get", {n}, "read")
         \/ \E method \in {"Get", "Refresh", "RefreshMany"}, S \in SUBSET Nat :
              Refuse(t, method, S)
BY NameAssumption DEF Call, Get, Refresh, RefreshMany, SelectedNames

\* Inside its section a thread holds the lock of everything it selected: Lock
\* enters the section with the last lock, and only the owner unlocks.
LEMMA NextSectionLocked == IInv /\ [Next]_vars => SectionLocked'
<1> SUFFICES ASSUME IInv, [Next]_vars PROVE SectionLocked'
  OBVIOUS
<1>1. /\ pc \in [Thread -> PC]
      /\ sel \in [Thread -> SUBSET Name]
      /\ lock \in [Name -> Thread \cup {NoThread}]
  BY DEF IInv, TypeOK
<1>2. SectionLocked /\ LockOwned
  BY DEF IInv, Ownership, Versions
<1> USE ThreadAssumption, <1>1, <1>2 DEF SectionLocked, LockOwned, InSection
<1>3. ASSUME NEW t \in Thread, Call(t) PROVE SectionLocked'
  BY <1>3, CallCases DEF Begin, Refuse
<1>4. ASSUME NEW t \in Thread, Lock(t) PROVE SectionLocked'
  BY <1>4 DEF Lock, Wants, IsLeast, Held
<1>5. ASSUME NEW t \in Thread, ReadCache(t) PROVE SectionLocked'
  BY <1>5 DEF ReadCache
<1>6. ASSUME NEW t \in Thread, Lead(t) PROVE SectionLocked'
  BY <1>6 DEF Lead
<1>7. ASSUME NEW t \in Thread, Join(t) PROVE SectionLocked'
  BY <1>7 DEF Join
<1>8. ASSUME NEW t \in Thread, Recheck(t) PROVE SectionLocked'
  BY <1>8 DEF Recheck
<1>9. ASSUME NEW t \in Thread, Resolve(t) PROVE SectionLocked'
  BY <1>9 DEF Resolve
<1>10. ASSUME NEW t \in Thread, ResolveFail(t) PROVE SectionLocked'
  BY <1>10 DEF ResolveFail
<1>11. ASSUME NEW t \in Thread, Store(t) PROVE SectionLocked'
  BY <1>11 DEF Store
<1>12. ASSUME NEW t \in Thread, Unlock(t) PROVE SectionLocked'
  BY <1>12 DEF Unlock, IsGreatest, Held
<1>13. ASSUME NEW t \in Thread, Forget(t) PROVE SectionLocked'
  BY <1>13 DEF Forget
<1>14. ASSUME NEW t \in Thread, Return(t) PROVE SectionLocked'
  BY <1>14 DEF Return
<1>15. CASE UNCHANGED <<pc, sel, lock>>
  BY <1>15
<1>16. QED
  <2> HIDE DEF SectionLocked, LockOwned
  <2>1. QED
    BY <1>3, <1>4, <1>5, <1>6, <1>7, <1>8, <1>9, <1>10, <1>11, <1>12, <1>13, <1>14,
       <1>15 DEF Next, Step, vars, threadVars, Tick, Rotate, PreloadResolve,
       PreloadFail, PreloadStore

\* A lock is held only by a thread that selected it and has not finished unlocking.
LEMMA NextLockOwned == IInv /\ [Next]_vars => LockOwned'
<1> SUFFICES ASSUME IInv, [Next]_vars PROVE LockOwned'
  OBVIOUS
<1>1. /\ pc \in [Thread -> PC]
      /\ sel \in [Thread -> SUBSET Name]
      /\ lock \in [Name -> Thread \cup {NoThread}]
  BY DEF IInv, TypeOK
<1>2. LockOwned
  BY DEF IInv, Ownership, Versions
<1> USE ThreadAssumption, <1>1, <1>2 DEF LockOwned, InSection
<1>3. ASSUME NEW t \in Thread, Call(t) PROVE LockOwned'
  BY <1>3, CallCases DEF Begin, Refuse
<1>4. ASSUME NEW t \in Thread, Lock(t) PROVE LockOwned'
  BY <1>4 DEF Lock, Wants, IsLeast, Held
<1>5. ASSUME NEW t \in Thread, ReadCache(t) PROVE LockOwned'
  BY <1>5 DEF ReadCache
<1>6. ASSUME NEW t \in Thread, Lead(t) PROVE LockOwned'
  BY <1>6 DEF Lead
<1>7. ASSUME NEW t \in Thread, Join(t) PROVE LockOwned'
  BY <1>7 DEF Join
<1>8. ASSUME NEW t \in Thread, Recheck(t) PROVE LockOwned'
  BY <1>8 DEF Recheck
<1>9. ASSUME NEW t \in Thread, Resolve(t) PROVE LockOwned'
  BY <1>9 DEF Resolve
<1>10. ASSUME NEW t \in Thread, ResolveFail(t) PROVE LockOwned'
  BY <1>10 DEF ResolveFail
<1>11. ASSUME NEW t \in Thread, Store(t) PROVE LockOwned'
  BY <1>11 DEF Store
<1>12. ASSUME NEW t \in Thread, Unlock(t) PROVE LockOwned'
  BY <1>12 DEF Unlock, IsGreatest, Held
<1>13. ASSUME NEW t \in Thread, Forget(t) PROVE LockOwned'
  BY <1>13 DEF Forget
<1>14. ASSUME NEW t \in Thread, Return(t) PROVE LockOwned'
  BY <1>14 DEF Return
<1>15. CASE UNCHANGED <<pc, sel, lock>>
  BY <1>15
<1>16. QED
  <2> HIDE DEF LockOwned
  <2>1. QED
    BY <1>3, <1>4, <1>5, <1>6, <1>7, <1>8, <1>9, <1>10, <1>11, <1>12, <1>13, <1>14,
       <1>15 DEF Next, Step, vars, threadVars, Tick, Rotate, PreloadResolve,
       PreloadFail, PreloadStore

\* A flight is led by a Get that runs its function, from Lead to Forget.
LEMMA NextFlightLed == IInv /\ [Next]_vars => FlightLed'
<1> SUFFICES ASSUME IInv, [Next]_vars PROVE FlightLed'
  OBVIOUS
<1>1. /\ pc \in [Thread -> PC]
      /\ op \in [Thread -> {"Get", "Refresh", "RefreshMany"}]
      /\ sel \in [Thread -> SUBSET Name]
      /\ flight \in [Name -> Thread \cup {NoThread}]
  BY DEF IInv, TypeOK
<1>2. FlightLed /\ GetOfOne
  BY DEF IInv, Ownership, Versions
<1> USE ThreadAssumption, <1>1, <1>2 DEF FlightLed, GetOfOne, InSection
<1>3. ASSUME NEW t \in Thread, Call(t) PROVE FlightLed'
  BY <1>3, CallCases DEF Begin, Refuse
<1>4. ASSUME NEW t \in Thread, Lock(t) PROVE FlightLed'
  BY <1>4 DEF Lock, Wants, IsLeast, Held
<1>5. ASSUME NEW t \in Thread, ReadCache(t) PROVE FlightLed'
  BY <1>5 DEF ReadCache
<1>6. ASSUME NEW t \in Thread, Lead(t) PROVE FlightLed'
  BY <1>6 DEF Lead
<1>7. ASSUME NEW t \in Thread, Join(t) PROVE FlightLed'
  BY <1>7 DEF Join
<1>8. ASSUME NEW t \in Thread, Recheck(t) PROVE FlightLed'
  BY <1>8 DEF Recheck
<1>9. ASSUME NEW t \in Thread, Resolve(t) PROVE FlightLed'
  BY <1>9 DEF Resolve
<1>10. ASSUME NEW t \in Thread, ResolveFail(t) PROVE FlightLed'
  BY <1>10 DEF ResolveFail
<1>11. ASSUME NEW t \in Thread, Store(t) PROVE FlightLed'
  BY <1>11 DEF Store
<1>12. ASSUME NEW t \in Thread, Unlock(t) PROVE FlightLed'
  BY <1>12 DEF Unlock, IsGreatest, Held
<1>13. ASSUME NEW t \in Thread, Forget(t) PROVE FlightLed'
  BY <1>13 DEF Forget
<1>14. ASSUME NEW t \in Thread, Return(t) PROVE FlightLed'
  BY <1>14 DEF Return
<1>15. CASE UNCHANGED <<pc, op, sel, flight>>
  BY <1>15
<1>16. QED
  <2> HIDE DEF FlightLed, GetOfOne
  <2>1. QED
    BY <1>3, <1>4, <1>5, <1>6, <1>7, <1>8, <1>9, <1>10, <1>11, <1>12, <1>13, <1>14,
       <1>15 DEF Next, Step, vars, threadVars, Tick, Rotate, PreloadResolve,
       PreloadFail, PreloadStore

\* A thread that still collects locks holds only smaller ones than those it lacks,
\* because the selection is sorted (selectedNames).
LEMMA NextLockedInOrder == IInv /\ [Next]_vars => LockedInOrder'
<1> SUFFICES ASSUME IInv, [Next]_vars PROVE LockedInOrder'
  OBVIOUS
<1>1. /\ pc \in [Thread -> PC]
      /\ sel \in [Thread -> SUBSET Name]
      /\ lock \in [Name -> Thread \cup {NoThread}]
  BY DEF IInv, TypeOK
<1>2. LockOwned /\ LockedInOrder
  BY DEF IInv, Ownership, Versions
<1> USE ThreadAssumption, <1>1, <1>2 DEF LockOwned, LockedInOrder, InSection
<1>3. ASSUME NEW t \in Thread, Call(t) PROVE LockedInOrder'
  BY <1>3, CallCases DEF Begin, Refuse
<1>4. ASSUME NEW t \in Thread, Lock(t) PROVE LockedInOrder'
  <2>1. PICK l \in Name : /\ IsLeast(l, sel[t] \ Held(t)) /\ lock[l] = NoThread
                          /\ lock' = [lock EXCEPT ![l] = t]
                          /\ \A u \in Thread : u # t => pc'[u] = pc[u]
                          /\ pc[t] = "lock" /\ sel' = sel
    BY <1>4, Zenon DEF Lock, Wants
  <2>2. SUFFICES ASSUME NEW u \in Thread, NEW n \in Name, NEW m \in Name,
                        pc'[u] = "lock", lock'[n] = u, m \in sel[u], lock'[m] # u
                 PROVE  n < m
    BY <2>1
  <2>3. CASE u # t
    BY <2>1, <2>2, <2>3
  <2>4. CASE u = t /\ n # l
    BY <2>1, <2>2, <2>4
  <2>5. CASE u = t /\ n = l
    <3>1. n <= m /\ n # m
      BY <2>1, <2>2, <2>5 DEF IsLeast, Held
    <3>2. n \in Nat /\ m \in Nat
      BY NameAssumption
    <3>3. QED
      BY <3>1, <3>2
  <2>6. QED
    BY <2>3, <2>4, <2>5
<1>5. ASSUME NEW t \in Thread, ReadCache(t) PROVE LockedInOrder'
  BY <1>5 DEF ReadCache
<1>6. ASSUME NEW t \in Thread, Lead(t) PROVE LockedInOrder'
  BY <1>6 DEF Lead
<1>7. ASSUME NEW t \in Thread, Join(t) PROVE LockedInOrder'
  BY <1>7 DEF Join
<1>8. ASSUME NEW t \in Thread, Recheck(t) PROVE LockedInOrder'
  BY <1>8 DEF Recheck
<1>9. ASSUME NEW t \in Thread, Resolve(t) PROVE LockedInOrder'
  BY <1>9 DEF Resolve
<1>10. ASSUME NEW t \in Thread, ResolveFail(t) PROVE LockedInOrder'
  BY <1>10 DEF ResolveFail
<1>11. ASSUME NEW t \in Thread, Store(t) PROVE LockedInOrder'
  BY <1>11 DEF Store
<1>12. ASSUME NEW t \in Thread, Unlock(t) PROVE LockedInOrder'
  BY <1>12 DEF Unlock, IsGreatest, Held
<1>13. ASSUME NEW t \in Thread, Forget(t) PROVE LockedInOrder'
  BY <1>13 DEF Forget
<1>14. ASSUME NEW t \in Thread, Return(t) PROVE LockedInOrder'
  BY <1>14 DEF Return
<1>15. CASE UNCHANGED <<pc, sel, lock>>
  BY <1>15
<1>16. QED
  <2> HIDE DEF LockOwned, LockedInOrder
  <2>1. QED
    BY <1>3, <1>4, <1>5, <1>6, <1>7, <1>8, <1>9, <1>10, <1>11, <1>12, <1>13, <1>14,
       <1>15 DEF Next, Step, vars, threadVars, Tick, Rotate, PreloadResolve,
       PreloadFail, PreloadStore

\* Only Get uses flights, and it works on one credential.
LEMMA NextGetOfOne == IInv /\ [Next]_vars => GetOfOne'
<1> SUFFICES ASSUME IInv, [Next]_vars PROVE GetOfOne'
  OBVIOUS
<1>1. /\ pc \in [Thread -> PC]
      /\ op \in [Thread -> {"Get", "Refresh", "RefreshMany"}]
      /\ sel \in [Thread -> SUBSET Name]
  BY DEF IInv, TypeOK
<1>2. GetOfOne
  BY DEF IInv, Ownership, Versions
<1> USE ThreadAssumption, <1>1, <1>2 DEF GetOfOne
<1>3. ASSUME NEW t \in Thread, Call(t) PROVE GetOfOne'
  <2>1. ASSUME NEW method, NEW S \in SUBSET Name, Begin(t, method, S, "lock"),
               method # "Get"
        PROVE  GetOfOne'
    BY <2>1 DEF Begin
  <2>2. ASSUME NEW n \in Name, Begin(t, "Get", {n}, "read") PROVE GetOfOne'
    BY <2>2 DEF Begin
  <2>3. ASSUME NEW method, NEW S, Refuse(t, method, S) PROVE GetOfOne'
    BY <2>3 DEF Refuse
  <2>4. QED
    BY <1>3, <2>1, <2>2, <2>3, CallCases, Zenon
<1>4. ASSUME NEW t \in Thread, Lock(t) PROVE GetOfOne'
  BY <1>4 DEF Lock, Wants, IsLeast, Held
<1>5. ASSUME NEW t \in Thread, ReadCache(t) PROVE GetOfOne'
  BY <1>5 DEF ReadCache
<1>6. ASSUME NEW t \in Thread, Lead(t) PROVE GetOfOne'
  BY <1>6 DEF Lead
<1>7. ASSUME NEW t \in Thread, Join(t) PROVE GetOfOne'
  BY <1>7 DEF Join
<1>8. ASSUME NEW t \in Thread, Recheck(t) PROVE GetOfOne'
  BY <1>8 DEF Recheck
<1>9. ASSUME NEW t \in Thread, Resolve(t) PROVE GetOfOne'
  BY <1>9 DEF Resolve
<1>10. ASSUME NEW t \in Thread, ResolveFail(t) PROVE GetOfOne'
  BY <1>10 DEF ResolveFail
<1>11. ASSUME NEW t \in Thread, Store(t) PROVE GetOfOne'
  BY <1>11 DEF Store
<1>12. ASSUME NEW t \in Thread, Unlock(t) PROVE GetOfOne'
  BY <1>12 DEF Unlock, IsGreatest, Held
<1>13. ASSUME NEW t \in Thread, Forget(t) PROVE GetOfOne'
  BY <1>13 DEF Forget
<1>14. ASSUME NEW t \in Thread, Return(t) PROVE GetOfOne'
  BY <1>14 DEF Return
<1>15. CASE UNCHANGED <<pc, op, sel>>
  BY <1>15
<1>16. QED
  <2> HIDE DEF GetOfOne
  <2>1. QED
    BY <1>3, <1>4, <1>5, <1>6, <1>7, <1>8, <1>9, <1>10, <1>11, <1>12, <1>13, <1>14,
       <1>15 DEF Next, Step, vars, threadVars, Tick, Rotate, PreloadResolve,
       PreloadFail, PreloadStore

\* No step of a call but Store writes the cache, and none writes the vault.
LEMMA CallsKeepCache ==
  ASSUME NEW t \in Thread, Call(t) \/ Lock(t) \/ (Step(t) /\ ~ Store(t))
  PROVE  UNCHANGED <<vault, cache, boot>>
<1>1. CASE Call(t)
  BY <1>1, CallCases, ZenonT(30) DEF Begin, Refuse
<1>2. CASE Lock(t)
  BY <1>2, ZenonT(30) DEF Lock
<1>3. CASE ReadCache(t) \/ Recheck(t)
  BY <1>3, ZenonT(30) DEF ReadCache, Recheck
<1>4. CASE Lead(t) \/ Join(t)
  BY <1>4, ZenonT(30) DEF Lead, Join
<1>5. CASE Resolve(t) \/ ResolveFail(t)
  BY <1>5, ZenonT(30) DEF Resolve, ResolveFail
<1>6. CASE Unlock(t) \/ Forget(t) \/ Return(t)
  BY <1>6, ZenonT(30) DEF Unlock, Forget, Return
<1>7. QED
  BY <1>1, <1>2, <1>3, <1>4, <1>5, <1>6, ZenonT(30) DEF Step

\* Nothing is cached that the vault has not held.
LEMMA NextVaultBounds == IInv /\ [Next]_vars => VaultBounds'
<1> SUFFICES ASSUME IInv, [Next]_vars PROVE VaultBounds'
  OBVIOUS
<1>1. /\ vault \in [Name -> Nat]
      /\ cache \in [Name -> Entry]
      /\ boot \in [Name -> Nat]
      /\ got \in [Thread -> [Name -> Entry]]
      /\ sel \in [Thread -> SUBSET Name]
  BY DEF IInv, TypeOK
<1>2. VaultBounds /\ GotBounds /\ GotAll
  BY DEF IInv, Ownership, Versions
<1> USE <1>1, <1>2 DEF VaultBounds, GotBounds, GotAll, Entry
<1>3. ASSUME NEW n \in Name, Rotate(n) PROVE VaultBounds'
  BY <1>3 DEF Rotate, threadVars
<1>4. ASSUME NEW n \in Name, PreloadResolve(n) PROVE VaultBounds'
  BY <1>4 DEF PreloadResolve, threadVars
<1>5. CASE PreloadFail
  BY <1>5 DEF PreloadFail, threadVars
<1>6. CASE PreloadStore
  BY <1>6 DEF PreloadStore, threadVars
<1>7. ASSUME NEW t \in Thread, Store(t) PROVE VaultBounds'
  BY <1>7 DEF Store, NothingYet, NoEntry
<1>8. CASE UNCHANGED <<vault, cache, boot>>
  BY <1>8, ZenonT(30)
<1>9. QED
  <2> HIDE DEF VaultBounds
  <2>1. CASE Tick \/ UNCHANGED vars
    BY <1>8, <2>1 DEF Tick, vars, threadVars
  <2>2. QED
    BY <1>3, <1>4, <1>5, <1>6, <1>7, <1>8, <2>1, CallsKeepCache, ZenonT(30) DEF Next, Step

\* Rotations only add to what a call saw when it began.
LEMMA NextStartBounds == IInv /\ [Next]_vars => StartBounds'
<1> SUFFICES ASSUME IInv, [Next]_vars PROVE StartBounds'
  OBVIOUS
<1>1. /\ vault \in [Name -> Nat]
      /\ start \in [Thread -> [Name -> Nat]]
  BY DEF IInv, TypeOK
<1>2. StartBounds
  BY DEF IInv, Ownership, Versions
<1> USE <1>1, <1>2 DEF StartBounds
<1>3. ASSUME NEW n \in Name, Rotate(n) PROVE StartBounds'
  BY <1>3 DEF Rotate, threadVars
<1>4. ASSUME NEW t \in Thread, Call(t) PROVE StartBounds'
  <2>1. ASSUME NEW method, NEW S \in SUBSET Name, NEW at \in {"read", "lock"},
               Begin(t, method, S, at)
        PROVE  StartBounds'
    BY <2>1 DEF Begin
  <2>2. ASSUME NEW method, NEW S, Refuse(t, method, S) PROVE StartBounds'
    BY <2>2 DEF Refuse
  <2>3. QED
    BY ONLY <1>4, <2>1, <2>2, CallCases, Zenon
<1>5. ASSUME NEW t \in Thread, Return(t) PROVE StartBounds'
  BY <1>5 DEF Return
<1>6. CASE UNCHANGED <<vault, start>>
  BY <1>6
<1>7. QED
  <2> HIDE DEF StartBounds
  <2>1. QED
    BY <1>3, <1>4, <1>5, <1>6 DEF Next, Step, vars, threadVars, Tick, PreloadResolve,
       PreloadFail, PreloadStore, Lock, ReadCache, Lead, Join, Recheck, Resolve,
       ResolveFail, Store, Unlock, Forget

\* A resolved value is at least as new as the cached one it will replace, because
\* nobody else can store under the lock that was held while it was resolved.
LEMMA NextGotBounds == IInv /\ [Next]_vars => GotBounds'
<1> SUFFICES ASSUME IInv, [Next]_vars PROVE GotBounds'
  OBVIOUS
<1>1. /\ vault \in [Name -> Nat] /\ cache \in [Name -> Entry]
      /\ got \in [Thread -> [Name -> Entry]] /\ start \in [Thread -> [Name -> Nat]]
      /\ sel \in [Thread -> SUBSET Name] /\ pc \in [Thread -> PC]
  BY DEF IInv, TypeOK
<1>2. VaultBounds /\ StartBounds /\ GotBounds /\ GotAll /\ Startup /\ SectionLocked
  BY DEF IInv, Ownership, Versions
<1> DEFINE Busy(u) == pc[u] \in {"resolve", "store"}
\* Steps that leave the values and every thread between its resolutions alone.
<1>3. ASSUME UNCHANGED <<vault, cache, got>>,
             \A u \in Thread : Busy(u) =>
               pc'[u] = pc[u] /\ sel'[u] = sel[u] /\ start'[u] = start[u]
      PROVE  GotBounds'
  BY <1>2, <1>3 DEF GotBounds
<1>4. ASSUME NEW t \in Thread, Call(t) PROVE GotBounds'
  BY <1>1, <1>3, <1>4, CallCases DEF Begin, Refuse
<1>5. ASSUME NEW t \in Thread, Lock(t) PROVE GotBounds'
  BY <1>1, <1>3, <1>5 DEF Lock, Wants
<1>6. ASSUME NEW t \in Thread, ReadCache(t) PROVE GotBounds'
  BY <1>1, <1>3, <1>6 DEF ReadCache
<1>7. ASSUME NEW t \in Thread, Lead(t) \/ Join(t) PROVE GotBounds'
  BY <1>1, <1>3, <1>7 DEF Lead, Join
<1>8. ASSUME NEW t \in Thread, Recheck(t) PROVE GotBounds'
  BY <1>1, <1>3, <1>8 DEF Recheck
<1>9. ASSUME NEW t \in Thread, Unlock(t) PROVE GotBounds'
  BY <1>1, <1>3, <1>9 DEF Unlock
<1>10. ASSUME NEW t \in Thread, Forget(t) PROVE GotBounds'
  BY <1>1, <1>3, <1>10 DEF Forget
<1>11. ASSUME NEW t \in Thread, Return(t) PROVE GotBounds'
  BY <1>1, <1>3, <1>11 DEF Return
<1>12. CASE Tick \/ PreloadFail \/ (\E n \in Name : PreloadResolve(n)) \/ UNCHANGED vars
  BY <1>3, <1>12 DEF Tick, PreloadFail, PreloadResolve, vars, threadVars
<1>13. ASSUME NEW n \in Name, Rotate(n) PROVE GotBounds'
  BY <1>1, <1>2, <1>13 DEF Rotate, threadVars, GotBounds, Entry
<1>14. CASE PreloadStore
  <2>1. \A t \in Thread, n \in Name : got[t][n].val = 0
    BY <1>2, <1>14 DEF PreloadStore, Startup, GotBounds
  <2>2. QED
    BY <1>14, <2>1 DEF PreloadStore, threadVars, GotBounds
<1>15. ASSUME NEW t \in Thread, Resolve(t) PROVE GotBounds'
  <2>1. PICK n \in Name :
          /\ n \in sel[t] /\ pc[t] = "resolve"
          /\ got' = [got EXCEPT ![t] = [@ EXCEPT ![n] =
                       [val |-> vault[n], exp |-> IF n \in Pinned THEN 0 ELSE now + TTL]]]
          /\ UNCHANGED <<vault, cache, sel, start>>
          /\ pc' = [pc EXCEPT ![t] = IF Unresolved(t) = {n} THEN "store" ELSE "resolve"]
    BY <1>15, ZenonT(30) DEF Resolve, IsLeast, Unresolved
  <2>2. /\ got'[t][n].val = vault[n]
        /\ \A u \in Thread, m \in Name : u # t \/ m # n => got'[u][m] = got[u][m]
    BY <1>1, <2>1
  <2>3. \A u \in Thread : pc'[u] = pc[u] \/ (u = t /\ pc'[u] \in {"resolve", "store"})
    BY <1>1, <2>1
  <2>4. vault[n] \in Nat /\ cache[n].val <= vault[n] /\ start[t][n] <= vault[n]
    BY <1>1, <1>2 DEF VaultBounds, StartBounds
  <2>5. QED
    BY <1>2, <2>1, <2>2, <2>3, <2>4 DEF GotBounds
<1>16. ASSUME NEW t \in Thread, ResolveFail(t) PROVE GotBounds'
  BY <1>1, <1>2, <1>16 DEF ResolveFail, NothingYet, NoEntry, GotBounds
<1>17. ASSUME NEW t \in Thread, Store(t) PROVE GotBounds'
  <2>1. /\ \A n \in Name : got'[t][n].val = 0
        /\ \A u \in Thread : u # t => got'[u] = got[u] /\ pc'[u] = pc[u]
        /\ UNCHANGED <<vault, sel, start>>
    BY <1>1, <1>17 DEF Store, NothingYet, NoEntry
  <2>2. \A u \in Thread, n \in Name : u # t /\ Busy(u) /\ n \in sel[u] => n \notin sel[t]
    <3>1. pc[t] = "store"
      BY <1>17 DEF Store
    <3>2. QED
      BY <1>1, <1>2, <3>1 DEF SectionLocked, InSection
  <2>3. \A n \in Name : n \notin sel[t] => cache'[n] = cache[n]
    BY <1>17 DEF Store
  <2>4. QED
    BY <1>2, <2>1, <2>2, <2>3, ZenonT(30) DEF GotBounds
<1>18. QED
  BY <1>4, <1>5, <1>6, <1>7, <1>8, <1>9, <1>10, <1>11, <1>12, <1>13, <1>14, <1>15,
     <1>16, <1>17 DEF Next, Step

\* A thread stores only when its whole selection is resolved.
LEMMA NextGotAll == IInv /\ [Next]_vars => GotAll'
<1> SUFFICES ASSUME IInv, [Next]_vars PROVE GotAll'
  OBVIOUS
<1>1. /\ vault \in [Name -> Nat]
      /\ got \in [Thread -> [Name -> Entry]]
      /\ sel \in [Thread -> SUBSET Name]
      /\ pc \in [Thread -> PC]
  BY DEF IInv, TypeOK
<1>2. VaultBounds /\ GotAll
  BY DEF IInv, Ownership, Versions
\* Steps after which only threads that were about to store before are.
<1>3. ASSUME \A u \in Thread : pc'[u] = "store" =>
               pc[u] = "store" /\ sel'[u] = sel[u] /\ got'[u] = got[u]
      PROVE  GotAll'
  BY <1>2, <1>3 DEF GotAll
<1>4. ASSUME NEW t \in Thread, Call(t) PROVE GotAll'
  BY <1>1, <1>3, <1>4, CallCases DEF Begin, Refuse
<1>5. ASSUME NEW t \in Thread, Lock(t) PROVE GotAll'
  BY <1>1, <1>3, <1>5 DEF Lock, Wants
<1>6. ASSUME NEW t \in Thread, ReadCache(t) PROVE GotAll'
  BY <1>1, <1>3, <1>6 DEF ReadCache
<1>7. ASSUME NEW t \in Thread, Lead(t) \/ Join(t) PROVE GotAll'
  BY <1>1, <1>3, <1>7 DEF Lead, Join
<1>8. ASSUME NEW t \in Thread, Recheck(t) PROVE GotAll'
  BY <1>1, <1>3, <1>8 DEF Recheck
<1>9. ASSUME NEW t \in Thread, ResolveFail(t) PROVE GotAll'
  BY <1>1, <1>3, <1>9 DEF ResolveFail
<1>10. ASSUME NEW t \in Thread, Store(t) PROVE GotAll'
  BY <1>1, <1>3, <1>10 DEF Store
<1>11. ASSUME NEW t \in Thread, Unlock(t) PROVE GotAll'
  BY <1>1, <1>3, <1>11 DEF Unlock
<1>12. ASSUME NEW t \in Thread, Forget(t) PROVE GotAll'
  BY <1>1, <1>3, <1>12 DEF Forget
<1>13. ASSUME NEW t \in Thread, Return(t) PROVE GotAll'
  BY <1>1, <1>3, <1>13 DEF Return
<1>14. CASE Tick \/ (\E n \in Name : Rotate(n)) \/ (\E n \in Name :
       PreloadResolve(n)) \/ PreloadFail \/ PreloadStore \/ UNCHANGED vars
  BY <1>3, <1>14 DEF Tick, Rotate, PreloadResolve, PreloadFail, PreloadStore, vars, threadVars
<1>15. ASSUME NEW t \in Thread, Resolve(t) PROVE GotAll'
  <2>1. PICK n \in Name :
          /\ got' = [got EXCEPT ![t] = [@ EXCEPT ![n] =
                       [val |-> vault[n], exp |-> IF n \in Pinned THEN 0 ELSE now + TTL]]]
          /\ pc' = [pc EXCEPT ![t] = IF Unresolved(t) = {n} THEN "store" ELSE "resolve"]
          /\ sel' = sel
    BY <1>15, ZenonT(30) DEF Resolve
  <2>2. /\ \A u \in Thread : u # t => got'[u] = got[u] /\ pc'[u] = pc[u]
        /\ got'[t][n].val = vault[n]
        /\ \A m \in Name : m # n => got'[t][m] = got[t][m]
        /\ pc'[t] = "store" => Unresolved(t) = {n}
    BY <1>1, <2>1
  <2>3. pc'[t] = "store" => \A m \in sel[t] : got'[t][m].val # 0
    <3>1. vault[n] # 0
      BY <1>1, <1>2 DEF VaultBounds
    <3>2. QED
      BY <1>1, <2>2, <3>1 DEF Unresolved
  <2>4. QED
    BY <1>2, <2>1, <2>2, <2>3 DEF GotAll
<1>16. QED
  BY <1>4, <1>5, <1>6, <1>7, <1>8, <1>9, <1>10, <1>11, <1>12, <1>13, <1>14, <1>15
     DEF Next, Step

\* Calls wait for Preload, and pinned credentials stay in the cache after it.
LEMMA NextStartup == IInv /\ [Next]_vars => Startup'
<1> SUFFICES ASSUME IInv, [Next]_vars PROVE Startup'
  OBVIOUS
<1>1. /\ phase \in {"preload", "serving"}
      /\ cache \in [Name -> Entry]
      /\ got \in [Thread -> [Name -> Entry]]
      /\ sel \in [Thread -> SUBSET Name]
      /\ pc \in [Thread -> PC]
  BY DEF IInv, TypeOK
<1>2. Startup /\ VaultBounds /\ GotAll
  BY ZenonT(30) DEF IInv, Ownership, Versions
\* Steps that leave the cache alone once calls are served.
<1>3. ASSUME \/ phase = "serving" \/ pc' = pc, UNCHANGED <<phase, cache>>
      PROVE  Startup'
  BY <1>2, <1>3 DEF Startup
<1>4. ASSUME NEW t \in Thread, Call(t) PROVE Startup'
  BY <1>1, <1>3, <1>4, CallCases DEF Begin, Refuse, Startup
<1>5. ASSUME NEW t \in Thread, Lock(t) PROVE Startup'
  BY <1>2, <1>3, <1>5 DEF Lock, Wants, Startup
<1>6. ASSUME NEW t \in Thread, ReadCache(t) PROVE Startup'
  BY <1>2, <1>3, <1>6 DEF ReadCache, Startup
<1>7. ASSUME NEW t \in Thread, Lead(t) \/ Join(t) PROVE Startup'
  BY <1>2, <1>3, <1>7 DEF Lead, Join, Startup
<1>8. ASSUME NEW t \in Thread, Recheck(t) PROVE Startup'
  BY <1>2, <1>3, <1>8 DEF Recheck, Startup
<1>9. ASSUME NEW t \in Thread, Resolve(t) PROVE Startup'
  BY <1>2, <1>3, <1>9 DEF Resolve, Startup
<1>10. ASSUME NEW t \in Thread, ResolveFail(t) PROVE Startup'
  BY <1>2, <1>3, <1>10 DEF ResolveFail, Startup
<1>11. ASSUME NEW t \in Thread, Unlock(t) PROVE Startup'
  BY <1>2, <1>3, <1>11, ZenonT(30) DEF Unlock, Startup
<1>12. ASSUME NEW t \in Thread, Forget(t) PROVE Startup'
  BY <1>2, <1>3, <1>12 DEF Forget, Startup
<1>13. ASSUME NEW t \in Thread, Return(t) PROVE Startup'
  BY <1>2, <1>3, <1>13 DEF Return, Startup
<1>14. CASE Tick \/ (\E n \in Name : Rotate(n)) \/ (\E n \in Name :
       PreloadResolve(n)) \/ PreloadFail \/ UNCHANGED vars
  BY <1>3, <1>14 DEF Tick, Rotate, PreloadResolve, PreloadFail, vars, threadVars
<1>15. ASSUME NEW t \in Thread, Store(t) PROVE Startup'
  <2>1. phase = "serving" /\ phase' = "serving"
    BY <1>1, <1>2, <1>15 DEF Store, Startup
  <2>2. \A n \in sel[t] : got[t][n].val # 0
    BY <1>2, <1>15 DEF Store, GotAll
  <2>3. \A n \in Pinned : cache'[n].val # 0
    BY <1>2, <1>15, <2>1, <2>2, NameAssumption DEF Store, Startup
  <2>4. QED
    BY <2>1, <2>3 DEF Startup
<1>16. CASE PreloadStore
  BY <1>16, NameAssumption DEF PreloadStore, Startup
<1>17. QED
  BY <1>4, <1>5, <1>6, <1>7, <1>8, <1>9, <1>10, <1>11, <1>12, <1>13, <1>14, <1>15,
     <1>16 DEF Next, Step

\* The cache stays stale while a Get resolves: the clock makes nothing fresh, and
\* whoever could store holds the same lock.
LEMMA NextGetResolvesOnlyStale == IInv /\ [Next]_vars => GetResolvesOnlyStale'
<1> SUFFICES ASSUME IInv, [Next]_vars PROVE GetResolvesOnlyStale'
  OBVIOUS
<1>1. /\ now \in Nat
      /\ cache \in [Name -> Entry]
      /\ sel \in [Thread -> SUBSET Name]
      /\ pc \in [Thread -> PC]
      /\ op \in [Thread -> {"Get", "Refresh", "RefreshMany"}]
  BY DEF IInv, TypeOK
<1>2. GetResolvesOnlyStale /\ SectionLocked /\ GetOfOne /\ Startup
  BY DEF IInv, Ownership, Versions
\* Steps that start no resolution of a Get.
<1>3. ASSUME UNCHANGED <<now, cache>>,
             \A u \in Thread : op'[u] = "Get" /\ pc'[u] \in {"resolve", "store"} =>
               /\ pc[u] \in {"resolve", "store"}
               /\ op[u] = "Get" /\ sel'[u] = sel[u]
      PROVE  GetResolvesOnlyStale'
  BY <1>2, <1>3 DEF GetResolvesOnlyStale, Resolving, Fresh
<1>4. ASSUME NEW t \in Thread, Call(t) PROVE GetResolvesOnlyStale'
  BY <1>1, <1>3, <1>4, CallCases DEF Begin, Refuse
<1>5. ASSUME NEW t \in Thread, Lock(t) PROVE GetResolvesOnlyStale'
  BY <1>1, <1>3, <1>5 DEF Lock, Wants
<1>6. ASSUME NEW t \in Thread, ReadCache(t) PROVE GetResolvesOnlyStale'
  BY <1>1, <1>3, <1>6 DEF ReadCache
<1>7. ASSUME NEW t \in Thread, Lead(t) \/ Join(t) PROVE GetResolvesOnlyStale'
  BY <1>1, <1>3, <1>7 DEF Lead, Join
<1>8. ASSUME NEW t \in Thread, Resolve(t) PROVE GetResolvesOnlyStale'
  BY <1>1, <1>3, <1>8 DEF Resolve
<1>9. ASSUME NEW t \in Thread, ResolveFail(t) PROVE GetResolvesOnlyStale'
  BY <1>1, <1>3, <1>9 DEF ResolveFail
<1>10. ASSUME NEW t \in Thread, Unlock(t) PROVE GetResolvesOnlyStale'
  BY <1>1, <1>3, <1>10, ZenonT(30) DEF Unlock
<1>11. ASSUME NEW t \in Thread, Forget(t) PROVE GetResolvesOnlyStale'
  BY <1>1, <1>3, <1>11 DEF Forget
<1>12. ASSUME NEW t \in Thread, Return(t) PROVE GetResolvesOnlyStale'
  BY <1>1, <1>3, <1>12 DEF Return
<1>13. CASE (\E n \in Name : Rotate(n)) \/ (\E n \in Name : PreloadResolve(n))
       \/ PreloadFail \/ UNCHANGED vars
  BY <1>3, <1>13 DEF Rotate, PreloadResolve, PreloadFail, vars, threadVars
<1>14. ASSUME NEW t \in Thread, Recheck(t) PROVE GetResolvesOnlyStale'
  <2>1. PICK n \in sel[t] : \/ pc' = [pc EXCEPT ![t] = "unlock"]
                           \/ /\ ~ Fresh(n)
                              /\ pc' = [pc EXCEPT ![t] = "resolve"]
    BY <1>14 DEF Recheck
  <2>2. /\ UNCHANGED <<now, cache, op, sel>>
        /\ \A u \in Thread : u # t => pc'[u] = pc[u]
        /\ pc'[t] \in {"resolve", "store"} => ~ Fresh(n)
    BY <1>1, <1>14, <2>1 DEF Recheck
  <2>3. \A m \in sel[t] : op[t] = "Get" => m = n
    BY <1>2 DEF GetOfOne
  <2>4. \A m \in Name : Fresh(m)' = Fresh(m)
    BY <2>2 DEF Fresh
  <2>5. \A u \in Thread, m \in Name : u # t => Resolving(u, m)' = Resolving(u, m)
    BY <2>2, ZenonT(30) DEF Resolving
  <2>6. QED
    BY <1>1, <1>2, <2>2, <2>3, <2>4, <2>5, ZenonT(30) DEF GetResolvesOnlyStale, Resolving
<1>15. ASSUME NEW t \in Thread, Store(t) PROVE GetResolvesOnlyStale'
  <2>1. /\ UNCHANGED <<now, op, sel>> /\ pc'[t] = "unlock"
        /\ \A u \in Thread : u # t => pc'[u] = pc[u]
        /\ \A n \in Name : n \notin sel[t] => cache'[n] = cache[n]
    BY <1>1, <1>15 DEF Store
  <2>2. \A u \in Thread, n \in Name : u # t /\ Resolving(u, n) => n \notin sel[t]
    BY <1>2, <1>15 DEF Store, SectionLocked, InSection, Resolving
  <2>3. QED
    BY <1>2, <2>1, <2>2 DEF GetResolvesOnlyStale, Resolving, Fresh
<1>16. CASE Tick
  <2>1. UNCHANGED <<cache, sel, pc, op>> /\ now' = now + 1
    BY <1>16 DEF Tick, threadVars
  <2>2. ASSUME NEW n \in Name, ~ Fresh(n) PROVE ~ Fresh(n)'
    <3>1. cache[n].exp \in Nat
      BY <1>1 DEF Entry
    <3>2. QED
      BY <1>1, <2>1, <2>2, <3>1 DEF Fresh
  <2>3. QED
    BY <1>2, <2>1, <2>2 DEF GetResolvesOnlyStale, Resolving
<1>17. CASE PreloadStore
  BY <1>2, <1>17 DEF PreloadStore, threadVars, Startup, GetResolvesOnlyStale, Resolving
<1>18. QED
  BY <1>4, <1>5, <1>6, <1>7, <1>8, <1>9, <1>10, <1>11, <1>12, <1>13, <1>14, <1>15,
     <1>16, <1>17 DEF Next, Step

\* What a refresh has stored is only ever replaced by something newer.
LEMMA NextRefreshDone == IInv /\ [Next]_vars => RefreshDone'
<1> SUFFICES ASSUME IInv, [Next]_vars PROVE RefreshDone'
  OBVIOUS
<1>1. /\ cache \in [Name -> Entry]
      /\ got \in [Thread -> [Name -> Entry]]
      /\ sel \in [Thread -> SUBSET Name]
      /\ pc \in [Thread -> PC]
      /\ op \in [Thread -> {"Get", "Refresh", "RefreshMany"}]
      /\ res \in [Thread -> {"none", "ok", "err"}]
      /\ start \in [Thread -> [Name -> Nat]]
  BY DEF IInv, TypeOK
<1>2. RefreshDone /\ GotBounds /\ GotAll /\ GetOfOne /\ Startup
  BY DEF IInv, Ownership, Versions
\* Steps with which no refresh succeeds.
<1>3. ASSUME cache' = cache,
             \A u \in Thread :
               op'[u] # "Get" /\ pc'[u] \in {"unlock", "return"} /\ res'[u] = "ok" =>
                 /\ op[u] # "Get" /\ pc[u] \in {"unlock", "return"} /\ res[u] = "ok"
                 /\ sel'[u] = sel[u] /\ start'[u] = start[u]
      PROVE  RefreshDone'
  BY <1>2, <1>3 DEF RefreshDone
<1>4. ASSUME NEW t \in Thread, Call(t) PROVE RefreshDone'
  BY <1>1, <1>3, <1>4, CallCases DEF Begin, Refuse
<1>5. ASSUME NEW t \in Thread, Lock(t) PROVE RefreshDone'
  BY <1>1, <1>3, <1>5 DEF Lock, Wants
<1>6. ASSUME NEW t \in Thread, ReadCache(t) PROVE RefreshDone'
  BY <1>1, <1>2, <1>3, <1>6 DEF ReadCache, GetOfOne
<1>7. ASSUME NEW t \in Thread, Lead(t) \/ Join(t) PROVE RefreshDone'
  BY <1>1, <1>3, <1>7 DEF Lead, Join
<1>8. ASSUME NEW t \in Thread, Recheck(t) PROVE RefreshDone'
  BY <1>1, <1>2, <1>3, <1>8 DEF Recheck, GetOfOne
<1>9. ASSUME NEW t \in Thread, Resolve(t) PROVE RefreshDone'
  BY <1>1, <1>3, <1>9 DEF Resolve
<1>10. ASSUME NEW t \in Thread, ResolveFail(t) PROVE RefreshDone'
  BY <1>1, <1>3, <1>10 DEF ResolveFail
<1>11. ASSUME NEW t \in Thread, Unlock(t) PROVE RefreshDone'
  BY <1>1, <1>3, <1>11 DEF Unlock
<1>12. ASSUME NEW t \in Thread, Forget(t) PROVE RefreshDone'
  BY <1>1, <1>2, <1>3, <1>12 DEF Forget, GetOfOne
<1>13. ASSUME NEW t \in Thread, Return(t) PROVE RefreshDone'
  BY <1>1, <1>3, <1>13 DEF Return
<1>14. CASE Tick \/ (\E n \in Name : Rotate(n)) \/ (\E n \in Name :
       PreloadResolve(n)) \/ PreloadFail \/ UNCHANGED vars
  BY <1>3, <1>14 DEF Tick, Rotate, PreloadResolve, PreloadFail, vars, threadVars
<1>15. ASSUME NEW t \in Thread, Store(t) PROVE RefreshDone'
  <2>1. /\ UNCHANGED <<op, sel, start>>
        /\ \A u \in Thread : u # t => pc'[u] = pc[u] /\ res'[u] = res[u]
        /\ \A n \in Name : n \notin sel[t] => cache'[n] = cache[n]
        /\ \A n \in sel[t] : cache'[n] = got[t][n]
    BY <1>1, <1>15 DEF Store
  <2>2. \A n \in sel[t] : /\ start[t][n] <= got[t][n].val
                         /\ cache[n].val <= got[t][n].val
    BY <1>1, <1>2, <1>15 DEF Store, GotAll, GotBounds
  <2>3. \A n \in Name : cache[n].val \in Nat /\ cache'[n].val \in Nat
                         /\ cache[n].val <= cache'[n].val
    <3>1. \A n \in Name : cache[n].val \in Nat /\ got[t][n].val \in Nat
      BY <1>1 DEF Entry
    <3>2. \A n \in Name : n \in sel[t] \/ cache'[n] = cache[n]
      BY <2>1, Zenon
    <3>3. \A n \in sel[t] : cache'[n].val = got[t][n].val
      BY <2>1, Zenon
    <3>4. \A v \in Nat : v <= v
      OBVIOUS
    <3>5. QED
      BY <2>2, <3>1, <3>2, <3>3, <3>4, Zenon
  <2>4. \A u \in Thread : \A n \in sel[u] : start[u][n] \in Nat /\ n \in Name
    BY <1>1
  <2>5. \A n \in sel[t] : start'[t][n] <= cache'[n].val
    BY <2>1, <2>2, ZenonT(30)
  <2>6. ASSUME NEW u \in Thread, u # t, NEW n \in sel[u],
               op[u] # "Get", pc[u] \in {"unlock", "return"}, res[u] = "ok"
        PROVE  start'[u][n] <= cache'[n].val
    <3>1. start[u][n] <= cache[n].val
      BY <1>2, <2>6, ZenonT(30) DEF RefreshDone
    <3>2. start'[u][n] = start[u][n] /\ start[u][n] \in Nat /\ n \in Name
      BY <2>1, <2>4, ZenonT(30)
    <3>3. QED
      BY ONLY <2>3, <3>1, <3>2
  <2>7. SUFFICES ASSUME NEW u \in Thread, NEW n \in sel'[u],
                        op'[u] # "Get", pc'[u] \in {"unlock", "return"}, res'[u] = "ok"
                 PROVE  start'[u][n] <= cache'[n].val
    BY ZenonT(30) DEF RefreshDone
  <2>8. CASE u = t
    BY ONLY <2>1, <2>5, <2>8, n \in sel'[u], ZenonT(30)
  <2>9. CASE u # t
    BY <2>1, <2>6, <2>7, <2>9
  <2>10. QED
    BY <2>8, <2>9
<1>16. CASE PreloadStore
  BY <1>2, <1>16 DEF PreloadStore, threadVars, Startup, RefreshDone
<1>17. QED
  BY <1>4, <1>5, <1>6, <1>7, <1>8, <1>9, <1>10, <1>11, <1>12, <1>13, <1>14, <1>15,
     <1>16 DEF Next, Step

\* The answer of Get and Refresh is taken from the cache or from the vault itself,
\* and a secret once issued stays one: rotations only add newer ones.
LEMMA NextAnswers == IInv /\ [Next]_vars => Answers'
<1> SUFFICES ASSUME IInv, [Next]_vars PROVE Answers'
  OBVIOUS
<1>1. /\ vault \in [Name -> Nat]
      /\ cache \in [Name -> Entry]
      /\ sel \in [Thread -> SUBSET Name]
      /\ pc \in [Thread -> PC]
      /\ op \in [Thread -> {"Get", "Refresh", "RefreshMany"}]
      /\ res \in [Thread -> {"none", "ok", "err"}]
      /\ val \in [Thread -> Nat]
  BY DEF IInv, TypeOK
<1>2. Answers /\ VaultBounds /\ GetOfOne
  BY DEF IInv, Ownership, Versions
\* Steps with which no call comes by an answer.
<1>3. ASSUME vault' = vault,
             \A u \in Thread :
               op'[u] # "RefreshMany" =>
                 /\ op[u] # "RefreshMany" /\ sel'[u] = sel[u]
                 /\ Answered(u)' => Answered(u) /\ val'[u] = val[u]
      PROVE  Answers'
  BY <1>2, <1>3, ZenonT(30) DEF Answers
\* Steps with which only t comes by one.
<1>4. ASSUME NEW t \in Thread, vault' = vault, UNCHANGED <<op, sel>>,
             \A u \in Thread : u # t /\ Answered(u)' => Answered(u) /\ val'[u] = val[u],
             op[t] # "RefreshMany" /\ Answered(t)' =>
               \A n \in sel[t] : val'[t] >= 1 /\ val'[t] <= vault[n]
      PROVE  Answers'
  BY <1>2, <1>4, ZenonT(30) DEF Answers
<1>5. ASSUME NEW t \in Thread, Call(t) PROVE Answers'
  <2>1. CASE \E n \in Name : Get(t, n) \/ Refresh(t, n)
    BY <1>1, <1>2, <2>1 DEF Get, Refresh, Begin, Answers, Answered
  <2>2. ASSUME NEW names \in SUBSET (Name \cup {Stranger}), NEW all \in BOOLEAN,
               RefreshMany(t, names, all)
        PROVE  Answers'
    BY <1>1, <1>2, <2>2 DEF RefreshMany, Begin, Answers, Answered
  <2>3. ASSUME NEW method \in {"Get", "Refresh", "RefreshMany"}, NEW S,
               Refuse(t, method, S)
        PROVE  Answers'
    BY <1>1, <1>2, <2>3 DEF Refuse, GetOfOne, Answers, Answered
  <2>4. QED
    BY <1>5, <2>1, <2>2, <2>3 DEF Call
<1>6. ASSUME NEW t \in Thread, Lock(t) PROVE Answers'
  BY <1>1, <1>3, <1>6 DEF Lock, Answered
<1>7. ASSUME NEW t \in Thread, ReadCache(t) \/ Recheck(t) PROVE Answers'
  <2>1. /\ vault' = vault /\ UNCHANGED <<op, sel>>
        /\ \A u \in Thread : u # t /\ Answered(u)' => Answered(u) /\ val'[u] = val[u]
    BY <1>1, <1>7, ZenonT(30) DEF ReadCache, Recheck, Answered
  <2>2. op[t] = "Get"
    BY <1>2, <1>7 DEF ReadCache, Recheck, GetOfOne
  <2>3. ASSUME Answered(t)', NEW n \in sel[t] PROVE val'[t] >= 1 /\ val'[t] <= vault[n]
    <3>1. PICK m \in sel[t] : cache[m].val # 0 /\ val'[t] = cache[m].val
      BY <1>1, <1>7, <2>3 DEF ReadCache, Recheck, Answered, Fresh
    <3>2. m = n /\ n \in Name /\ cache[n].val \in Nat /\ cache[n].val <= vault[n]
      BY <1>1, <1>2, <2>2 DEF GetOfOne, VaultBounds, Entry
    <3>3. QED
      BY ONLY <3>1, <3>2, SMT
  <2>4. QED
    BY <1>4, <2>1, <2>3, Zenon
<1>8. ASSUME NEW t \in Thread, Lead(t) \/ Join(t) PROVE Answers'
  BY <1>1, <1>3, <1>8 DEF Lead, Join, Answered
<1>9. ASSUME NEW t \in Thread, Resolve(t) PROVE Answers'
  <2>1. /\ vault' = vault /\ UNCHANGED <<op, sel>>
        /\ \A u \in Thread : u # t /\ Answered(u)' => Answered(u) /\ val'[u] = val[u]
    BY <1>1, <1>9 DEF Resolve, Answered
  <2>2. ASSUME op[t] # "RefreshMany", NEW n \in sel[t]
        PROVE  val'[t] >= 1 /\ val'[t] <= vault[n]
    <3>1. PICK m \in Name : /\ m \in sel[t]
                            /\ val' = [val EXCEPT ![t] = IF op[t] = "RefreshMany" THEN 0
                                                         ELSE vault[m]]
      BY <1>9, Zenon DEF Resolve, IsLeast, Unresolved
    <3>2. m = n
      BY <1>2, <2>2, <3>1 DEF Answers
    <3>3. val'[t] = vault[n] /\ vault[n] \in Nat /\ vault[n] >= 1
      BY <1>1, <1>2, <2>2, <3>1, <3>2 DEF VaultBounds
    <3>4. QED
      BY ONLY <3>3, SMT
  <2>3. QED
    BY <1>4, <2>1, <2>2, ZenonT(30)
<1>10. ASSUME NEW t \in Thread, ResolveFail(t) PROVE Answers'
  BY <1>1, <1>3, <1>10 DEF ResolveFail, Answered
<1>11. ASSUME NEW t \in Thread, Store(t) PROVE Answers'
  BY <1>1, <1>3, <1>11 DEF Store, Answered
<1>12. ASSUME NEW t \in Thread, Unlock(t) PROVE Answers'
  BY <1>1, <1>3, <1>12 DEF Unlock, Answered
<1>13. ASSUME NEW t \in Thread, Forget(t) PROVE Answers'
  <2>1. op[t] = "Get" /\ \A u \in Thread : pc[u] = "join" => op[u] = "Get"
    BY <1>2, <1>13, ZenonT(30) DEF Forget, GetOfOne
  <2>2. /\ vault' = vault /\ UNCHANGED <<op, sel>>
        /\ \A u \in Thread : Answered(u)' =>
             \/ Answered(u) /\ val'[u] = val[u]
             \/ sel[u] = sel[t] /\ Answered(t) /\ val'[u] = val[t]
    BY <1>1, <1>13 DEF Forget, Answered
  <2>3. QED
    BY <1>2, <2>1, <2>2, ZenonT(30) DEF Answers
<1>14. ASSUME NEW t \in Thread, Return(t) PROVE Answers'
  BY <1>1, <1>2, <1>14 DEF Return, Answers, Answered
<1>15. ASSUME NEW n \in Name, Rotate(n) PROVE Answers'
  BY <1>1, <1>2, <1>15 DEF Rotate, threadVars, Answers, Answered
<1>16. CASE Tick \/ (\E n \in Name : PreloadResolve(n)) \/ PreloadFail \/ PreloadStore
              \/ UNCHANGED vars
  <2>1. vault' = vault /\ UNCHANGED threadVars
    BY <1>16 DEF Tick, PreloadResolve, PreloadFail, PreloadStore, vars
  <2>2. QED
    BY <1>3, <2>1, ZenonT(30) DEF threadVars, Answered
<1>17. QED
  BY <1>5, <1>6, <1>7, <1>8, <1>9, <1>10, <1>11, <1>12, <1>13, <1>14, <1>15, <1>16
     DEF Next, Step

\* IInv is an invariant of the provider.
THEOREM Invariance == Spec => []IInv
<1>1. Init => IInv
  <2> SUFFICES ASSUME Init PROVE IInv
    OBVIOUS
  <2>1. TypeOK
    BY NameAssumption DEF Init, TypeOK, Entry, NoEntry, NothingYet, PC
  <2>2. Ownership
    BY ThreadAssumption DEF Init, Ownership, SectionLocked, LockOwned, FlightLed,
       LockedInOrder, GetOfOne, InSection
  <2>3. Versions
    BY DEF Init, Versions, VaultBounds, StartBounds, GotBounds, GotAll, NothingYet, NoEntry
  <2>4. Startup /\ GetResolvesOnlyStale /\ RefreshDone
    BY DEF Init, Startup, GetResolvesOnlyStale, Resolving, RefreshDone, NothingYet, NoEntry
  <2>5. Answers
    BY DEF Init, Answers, Answered
  <2>6. QED
    BY <2>1, <2>2, <2>3, <2>4, <2>5 DEF IInv
<1>2. IInv /\ [Next]_vars => IInv'
  BY NextTypeOK, NextSectionLocked, NextLockOwned, NextFlightLed, NextLockedInOrder,
     NextGetOfOne, NextVaultBounds, NextStartBounds, NextGotBounds, NextGotAll,
     NextStartup, NextGetResolvesOnlyStale, NextRefreshDone, NextAnswers
     DEF IInv, Ownership, Versions
<1>3. QED
  BY <1>1, <1>2, PTL DEF Spec

-----------------------------------------------------------------------
(* The properties.                                                       *)

\* Only the end of Preload and the end of a refresh or a flight write the cache.
LEMMA CacheWriters ==
  ASSUME Next
  PROVE  \/ UNCHANGED <<vault, cache>>
         \/ \E n \in Name : Rotate(n) /\ UNCHANGED cache
         \/ PreloadStore
         \/ \E t \in Thread : Store(t)
<1>1. CASE Tick \/ PreloadFail \/ \E n \in Name : PreloadResolve(n)
  BY <1>1 DEF Tick, PreloadFail, PreloadResolve
<1>2. ASSUME NEW n \in Name, Rotate(n) PROVE Rotate(n) /\ UNCHANGED cache
  BY <1>2 DEF Rotate
<1>3. QED
  BY <1>1, <1>2, CallsKeepCache, ZenonT(30) DEF Next

\* Two goroutines never resolve the same credential at once, because each holds
\* the credential's mutex around its resolution.
THEOREM ResolverAlone == Spec => []OneResolverPerCredential
<1>1. IInv => OneResolverPerCredential
  BY DEF IInv, Ownership, SectionLocked, InSection, OneResolverPerCredential, Resolving
<1>2. QED
  BY <1>1, Invariance, PTL

\* Get goes to 1Password only while the cache has nothing fresh.
THEOREM StaleOnly == Spec => []GetResolvesOnlyStale
<1>1. IInv => GetResolvesOnlyStale
  BY DEF IInv
<1>2. QED
  BY <1>1, Invariance, PTL

\* A Get or Refresh that succeeds returns a secret 1Password issued for that very
\* credential, never the empty string and never another credential's.
THEOREM AnswersAreSecrets == Spec => []ResultsAreSecrets
<1>1. IInv => ResultsAreSecrets
  <2> SUFFICES ASSUME IInv, NEW t \in Thread, NEW n \in sel[t],
                      pc[t] = "return", res[t] = "ok", op[t] # "RefreshMany"
               PROVE  val[t] \in 1 .. vault[n]
    BY DEF ResultsAreSecrets
  <2>1. val[t] >= 1 /\ val[t] <= vault[n]
    BY DEF IInv, Answers, Answered
  <2>2. val[t] \in Nat /\ vault[n] \in Nat
    BY DEF IInv, TypeOK
  <2>3. QED
    BY <2>1, <2>2
<1>2. QED
  BY <1>1, Invariance, PTL

\* A refresh that returned without error is not undone by calls in flight.
THEOREM RefreshEffective == Spec => []RefreshTakesEffect
<1>1. IInv => RefreshTakesEffect
  <2> SUFFICES ASSUME IInv, NEW t \in Thread, NEW n \in sel[t],
                      op[t] # "Get", pc[t] = "return", res[t] = "ok"
               PROVE  cache[n].val >= start[t][n]
    BY DEF RefreshTakesEffect
  <2>1. start[t][n] <= cache[n].val
    BY DEF IInv, RefreshDone
  <2>2. start[t][n] \in Nat /\ cache[n].val \in Nat
    BY DEF IInv, TypeOK, Entry
  <2>3. QED
    BY <2>1, <2>2
<1>2. QED
  BY <1>1, Invariance, PTL

\* A pinned credential changes only when a refresh that selected it succeeds.
THEOREM PinnedStays == Spec => PinnedFixedUntilRefresh
<1>1. IInv /\ [Next]_vars => [PinnedFixed]_vars
  <2> SUFFICES ASSUME IInv, Next PROVE PinnedFixed
    BY DEF vars, threadVars
  <2>1. ASSUME NEW t \in Thread, Store(t) PROVE PinnedFixed
    <3> SUFFICES ASSUME NEW n \in Pinned, phase = "serving", cache'[n] # cache[n]
                 PROVE  op[t] # "Get" /\ n \in sel[t] /\ pc[t] = "store" /\ res'[t] = "ok"
      BY DEF PinnedFixed
    <3>1. n \in Name /\ n \in sel[t] /\ pc[t] = "store"
      BY <2>1, NameAssumption DEF Store
    <3>2. res'[t] = "ok"
      BY <2>1 DEF Store, IInv, TypeOK
    <3>3. Fresh(n)
      BY <3>1 DEF Fresh, IInv, Startup
    <3>4. op[t] # "Get"
      BY <3>1, <3>3 DEF IInv, GetResolvesOnlyStale, Resolving
    <3>5. QED
      BY <3>1, <3>2, <3>4
  <2>2. CASE PreloadStore
    BY <2>2, ZenonT(30) DEF PreloadStore, PinnedFixed
  <2>3. CASE cache' = cache
    BY <2>3 DEF PinnedFixed
  <2>4. QED
    BY <2>1, <2>2, <2>3, CacheWriters
<1>2. QED
  BY <1>1, Invariance, PTL DEF Spec, PinnedFixedUntilRefresh

\* Until a batch succeeds nothing it selected changes in the cache, and then all
\* of it does.
THEOREM BatchAtomic == Spec => BatchIsAllOrNothing
<1>1. IInv /\ [Next]_vars => [BatchStep]_vars
  <2> SUFFICES ASSUME IInv, Next PROVE BatchStep
    BY DEF vars, threadVars
  <2>1. ASSUME NEW u \in Thread, Store(u) PROVE BatchStep
    <3> SUFFICES ASSUME NEW t \in Thread, pc[t] \in {"resolve", "store"},
                        NEW m \in sel[t], cache'[m] # cache[m]
                 PROVE  /\ pc[t] = "store"
                        /\ res'[t] = "ok"
                        /\ \A n \in sel[t] : cache'[n] = got[t][n]
      BY DEF BatchStep
    <3>1. m \in Name /\ sel[t] \subseteq Name
      BY DEF IInv, TypeOK
    <3>2. m \in sel[u] /\ pc[u] = "store"
      <4>1. pc[u] = "store" /\ (m \notin sel[u] => cache'[m] = cache[m])
        BY <2>1, <3>1 DEF Store
      <4>2. QED
        BY <4>1, ZenonT(30)
    <3>3. t = u
      BY <3>1, <3>2, ZenonT(30) DEF IInv, Ownership, SectionLocked, InSection
    <3>4. res'[u] = "ok"
      BY <2>1 DEF Store, IInv, TypeOK
    <3>5. \A n \in sel[u] : cache'[n] = got[u][n]
      BY <2>1, <3>1, <3>3, ZenonT(30) DEF Store
    <3>6. QED
      BY <3>2, <3>3, <3>4, <3>5
  <2>2. CASE PreloadStore
    <3>1. \A t \in Thread : pc[t] = "idle"
      BY <2>2 DEF PreloadStore, IInv, Startup
    <3>2. QED
      BY <3>1, ZenonT(30) DEF BatchStep
  <2>3. CASE cache' = cache
    BY <2>3 DEF BatchStep
  <2>4. QED
    BY <2>1, <2>2, <2>3, CacheWriters
<1>2. QED
  BY <1>1, Invariance, PTL DEF Spec, BatchIsAllOrNothing

\* The provider implements the abstract store: its cache only moves forward
\* through secrets that the vault has held.
THEOREM Refinement == Spec => ImplementsStore
<1> DEFINE value == [n \in Name |-> cache[n].val]
<1>1. Init => Abstract!Init
  BY DEF Init, Abstract!Init, NothingYet, NoEntry
<1>2. IInv /\ [Next]_vars => [Abstract!Next]_(Abstract!vars)
  <2> SUFFICES ASSUME IInv, [Next]_vars
               PROVE  Abstract!Next \/ UNCHANGED <<vault, value>>
    BY DEF Abstract!vars
  <2>1. ASSUME NEW n \in Name, Rotate(n) PROVE Abstract!Next
    BY <2>1, ZenonT(30) DEF Rotate, Abstract!Next, Abstract!Rotate
  <2>2. CASE PreloadStore
    <3>1. \A n \in Name : /\ cache'[n].val \in Nat
                          /\ cache[n].val <= cache'[n].val
                          /\ cache'[n].val <= vault[n]
      BY <2>2 DEF PreloadStore, IInv, TypeOK, Entry, Startup, Versions, VaultBounds
    <3>2. QED
      BY <2>2, <3>1 DEF PreloadStore, Abstract!Next, Abstract!Install, IInv, TypeOK, Entry
  <2>3. ASSUME NEW t \in Thread, Store(t) PROVE Abstract!Next
    <3>1. \A n \in Name : n \notin sel[t] => cache'[n] = cache[n]
      BY <2>3 DEF Store
    <3>2. \A n \in sel[t] : /\ cache'[n] = got[t][n]
                            /\ cache[n].val <= got[t][n].val
                            /\ got[t][n].val <= vault[n]
      <4>1. /\ pc[t] = "store"
            /\ cache' = [n \in Name |-> IF n \in sel[t] THEN got[t][n] ELSE cache[n]]
        BY <2>3, ZenonT(30) DEF Store
      <4>2. sel[t] \subseteq Name /\ GotAll /\ GotBounds
        BY DEF IInv, TypeOK, Versions
      <4>3. \A n \in sel[t] : n \in Name /\ got[t][n].val # 0
        BY <4>1, <4>2, ZenonT(30) DEF GotAll
      <4>4. QED
        BY <4>1, <4>2, <4>3, ZenonT(30) DEF GotBounds
    <3>3. \A n \in Name : /\ cache[n].val \in Nat /\ got[t][n].val \in Nat
                          /\ vault[n] \in Nat /\ cache[n].val <= vault[n]
      BY DEF IInv, TypeOK, Entry, Versions, VaultBounds
    <3>4. \A n \in Name : /\ cache'[n].val \in Nat
                          /\ cache[n].val <= cache'[n].val
                          /\ cache'[n].val <= vault[n]
      <4>1. SUFFICES ASSUME NEW n \in Name
                     PROVE  /\ cache'[n].val \in Nat
                            /\ cache[n].val <= cache'[n].val
                            /\ cache'[n].val <= vault[n]
        BY ZenonT(30)
      <4>2. CASE n \in sel[t]
        BY ONLY <3>2, <3>3, <4>2, n \in Name
      <4>3. CASE n \notin sel[t]
        BY ONLY <3>1, <3>3, <4>3, n \in Name
      <4>4. QED
        BY ONLY <4>2, <4>3, ZenonT(30)
    <3>5. vault' = vault
      BY <2>3 DEF Store
    <3>6. \A n \in Name : /\ cache[n].val \in Nat /\ vault[n] \in Nat
      BY <3>3
    <3>7. Abstract!Install
      <4>1. value' \in [Name -> Nat] /\ \A n \in Name : value'[n] \in value[n] .. vault[n]
        BY ONLY <3>4, <3>6
      <4>2. QED
        BY ONLY <3>5, <4>1 DEF Abstract!Install
    <3>8. QED
      BY ONLY <3>7 DEF Abstract!Next
  <2>4. CASE UNCHANGED <<vault, cache>>
    BY <2>4
  <2>5. QED
    BY <2>1, <2>2, <2>3, <2>4, CacheWriters, ZenonT(30) DEF Next, vars
<1>3. QED
  BY <1>1, <1>2, Invariance, PTL DEF Spec, ImplementsStore, Abstract!Spec

INSTANCE WellFoundedInduction

\* A non-empty set of names has a greatest one.
LEMMA GreatestExists ==
  ASSUME NEW S \in SUBSET (0 .. MaxName), S # {}
  PROVE  \E n \in S : \A m \in S : m <= n
<1> DEFINE D == {d \in Nat : \E n \in S : d = MaxName - n}
<1> USE NameAssumption
<1>1. D \subseteq Nat /\ D # {}
  <2>1. PICK n \in S : TRUE
    BY ZenonT(30)
  <2>2. MaxName - n \in D
    OBVIOUS
  <2>3. QED
    BY <2>2, ZenonT(30)
<1>2. \E d \in D : \A e \in D : ~ (<<e, d>> \in OpToRel(<, Nat))
  <2> HIDE DEF D
  <2>1. QED
    BY <1>1, NatLessThanWellFounded, WFMin, Zenon
<1>3. PICK d \in D : \A e \in D : ~ (<<e, d>> \in OpToRel(<, Nat))
  BY <1>2, ZenonT(30)
<1>4. ASSUME NEW e \in D PROVE d <= e
  <2>1. e \in Nat /\ d \in Nat
    OBVIOUS
  <2>2. ~ (<<e, d>> \in {p \in Nat \X Nat : p[1] < p[2]})
    BY <1>3, Zenon DEF OpToRel
  <2>3. QED
    BY ONLY <2>1, <2>2
<1>5. PICK n \in S : d = MaxName - n
  OBVIOUS
<1>6. ASSUME NEW m \in S PROVE m <= n
  <2>1. MaxName - m \in D
    OBVIOUS
  <2>2. d <= MaxName - m
    BY <1>4, <2>1, ZenonT(30)
  <2>3. QED
    BY <1>5, <2>2
<1>7. QED
  BY <1>6

\* Goroutines never wait for each other in a ring.  Of all the mutexes that a ring
\* would wait for take the greatest: its owner would have to wait for a mutex
\* that is greater still, because everybody takes mutexes in name order
\* (selectedNames); and a flight is waited for only by threads that hold none.
THEOREM NoDeadlock == Spec => []NoCircularWait
<1>1. IInv => NoCircularWait
  <2> SUFFICES ASSUME IInv, NEW T \in SUBSET Thread, T # {},
                      \A t \in T : \E u \in T : WaitsFor(t, u)
               PROVE  FALSE
    BY DEF NoCircularWait
  <2> DEFINE Ring(n) == \E t \in T : Wants(t, n) /\ lock[n] \in T
             W == {n \in Name : Ring(n)}
  <2>1. LockOwned /\ FlightLed /\ LockedInOrder
    BY DEF IInv, Ownership
  <2>2. ASSUME NEW t \in T, pc[t] # "join" PROVE \E n \in W : Wants(t, n)
    BY <2>2 DEF WaitsFor
  <2>3. ASSUME NEW t \in T, pc[t] = "join" PROVE \E u \in T : pc[u] # "join"
    <3>1. PICK u \in T : \E n \in sel[t] : flight[n] = u
      BY <2>3, ZenonT(30) DEF WaitsFor, Wants
    <3>2. sel[t] \subseteq Name
      BY DEF IInv, TypeOK
    <3>3. pc[u] # "join"
      BY <2>1, <3>1, <3>2 DEF FlightLed, InSection
    <3>4. QED
      BY <3>3
  <2>4. W # {}
    BY <2>2, <2>3
  <2>5. ASSUME NEW n \in W PROVE \E m \in W : n < m
    <3>1. lock[n] \in T /\ pc[lock[n]] # "join"
      BY <2>1 DEF LockOwned, InSection
    <3>2. PICK m \in W : Wants(lock[n], m)
      BY <2>2, <3>1, ZenonT(30)
    <3>3. n < m
      BY <2>1, <3>1, <3>2 DEF LockedInOrder, Wants, IsLeast, Held
    <3>4. QED
      BY <3>3
  <2>6. \E n \in W : \A m \in W : m <= n
    BY <2>4, NameAssumption, GreatestExists, ZenonT(30)
  <2>7. QED
    BY <2>5, <2>6, NameAssumption
<1>2. QED
  BY <1>1, Invariance, PTL

========================================================================
