-------------------------- MODULE CommandProofs --------------------------
(***************************************************************************)
(* Proofs about the credproxy commands: env, exec, run and resolve, for    *)
(* any routes and variables; connect, whatever the broker sends; and the   *)
(* resolver of env-files, for any number of concurrent calls.              *)
(***************************************************************************)
EXTENDS EnvCommand, TLAPS

\* The provers a leaf is tried with, in turn, unless it names its own.
USE SMT, Zenon, SMTT(30)

-----------------------------------------------------------------------
(* The commands env, exec, run and resolve.                                *)

\* The first of a list becomes the last of another.
LEMMA HeadMoves ==
    ASSUME NEW D, NEW a \in Seq(D), NEW t \in Seq(D), t # <<>>
    PROVE  /\ Head(t) \in D /\ Tail(t) \in Seq(D) /\ Append(a, Head(t)) \in Seq(D)
           /\ Append(a, Head(t)) \o Tail(t) = a \o t
<1>1. Head(t) \in D /\ Tail(t) \in Seq(D)
  OBVIOUS
<1>2. Append(a, Head(t)) \in Seq(D)
  BY <1>1
<1>3. Append(a, Head(t)) \o Tail(t) = a \o t
  OBVIOUS
<1>4. QED
  BY <1>1, <1>2, <1>3

\* A function from 1 .. n is a list of n elements.
LEMMA ListOf ==
    ASSUME NEW n \in Nat, NEW S, NEW u \in [1 .. n -> S]
    PROVE  u \in Seq(S) /\ Len(u) = n
  OBVIOUS

\* LastRouteWins, of a map m and the routes a it was merged from.
Wins(m, a) ==
    /\ \A x : x \in Names(m) <=> \E k \in DOMAIN a : x \in Names(Env[a[k]])
    /\ \A e \in m : \E k \in DOMAIN a :
        /\ e \in Env[a[k]]
        /\ \A j \in DOMAIN a : j > k => e[1] \notin Names(Env[a[j]])

\* A map: finite, with one value for a name.
IsMap(m) == IsFiniteSet(m) /\ \A d, e \in m : d[1] = e[1] => d = e

\* The invariant: what was fetched so far is what the routes asked serve, the routes still to
\* ask are the rest of those selected, and nothing is left behind before the end.
EnvInv ==
    /\ cmd \in [opt : Options, pc : {"start", "ready", "routes", "fetch", "exited"},
                todo : Seq(DOMAIN Env), env : SUBSET UNION {Env[r] : r \in DOMAIN Env},
                asked : Seq(DOMAIN Env), exit : {None, 0, 1}]
    /\ IsMap(cmd.env) /\ Wins(cmd.env, cmd.asked)
    /\ cmd.pc # "exited" => cmd.exit = None /\ stdout = None /\ child = None
    /\ cmd.pc \in {"start", "ready", "routes"} => cmd.asked = <<>> /\ cmd.env = {}
    /\ cmd.exit = 1 => stdout = None /\ child = None
    /\ DegradesQuietly
    /\ cmd.opt.strict /\ cmd.opt.routes # <<>> =>
         /\ cmd.pc = "fetch" => cmd.asked \o cmd.todo = cmd.opt.routes
         /\ cmd.exit = 0 => cmd.asked = cmd.opt.routes
    /\ ChildEnvironment

\* What the library's theorems say of finite sets, and induction over the naturals.  The
\* last section proves it, so that the rest does not depend on the size of the library.
LibraryFacts ==
    /\ IsFiniteSet({})
    /\ \A S : IsFiniteSet(S) => \A T \in SUBSET S : IsFiniteSet(T)
    /\ \A S, T : IsFiniteSet(S) /\ IsFiniteSet(T) => IsFiniteSet(S \cup T)
    /\ \A S : IsFiniteSet(S) =>
         /\ Cardinality(S) \in Nat
         /\ \A t \in [1 .. Cardinality(S) -> S] :
              (\A i, j \in DOMAIN t : t[i] = t[j] => i = j)
                => \A e \in S : \E i \in 1 .. Cardinality(S) : t[i] = e
    /\ \A S \in SUBSET Nat : 0 \in S /\ (\A n \in S : n + 1 \in S) => S = Nat

\* The places of what Filter keeps, among the first k.
Place(s, keep, k) == {j \in 1 .. k : s[j] \in keep}

\* g takes the places kept among the first k of s to those of t, in order.
Places(s, keep, k, t, g) ==
    /\ t \in Seq(keep)
    /\ g \in [Place(s, keep, k) -> DOMAIN t]
    /\ \A j \in Place(s, keep, k) : t[g[j]] = s[j]
    /\ \A i, j \in Place(s, keep, k) : i < j => g[i] < g[j]
    /\ \A m \in DOMAIN t : \E j \in Place(s, keep, k) : g[j] = m

\* An element that is not kept has no place, one that is kept takes the next.
LEMMA PlacesStep ==
    ASSUME NEW s, NEW keep, NEW k \in Nat, NEW t, NEW g, Places(s, keep, k, t, g)
    PROVE  /\ s[k + 1] \notin keep => Places(s, keep, k + 1, t, g)
           /\ s[k + 1] \in keep =>
                \E h : Places(s, keep, k + 1, Append(t, s[k + 1]), h)
<1>1. CASE s[k + 1] \notin keep
  <2>1. Place(s, keep, k + 1) = Place(s, keep, k)
    BY <1>1 DEF Place
  <2>2. QED
    BY <1>1, <2>1, Zenon DEF Places
<1>2. CASE s[k + 1] \in keep
  <2> DEFINE P == Place(s, keep, k)
             u == Append(t, s[k + 1])
             h == [j \in P \cup {k + 1} |-> IF j = k + 1 THEN Len(t) + 1 ELSE g[j]]
  <2>1. /\ Place(s, keep, k + 1) = P \cup {k + 1} /\ \A j \in P : j \in Nat /\ j < k + 1
    BY <1>2 DEF Place
  <2>2. /\ t \in Seq(keep) /\ u \in Seq(keep) /\ Len(t) \in Nat /\ Len(u) = Len(t) + 1
        /\ DOMAIN t = 1 .. Len(t) /\ DOMAIN u = 1 .. Len(t) + 1 /\ u[Len(t) + 1] = s[k + 1]
        /\ \A m \in 1 .. Len(t) : u[m] = t[m]
    BY <1>2 DEF Places
  <2>3. /\ \A j \in P : g[j] \in 1 .. Len(t) /\ t[g[j]] = s[j]
        /\ \A i, j \in P : i < j => g[i] < g[j]
        /\ \A m \in 1 .. Len(t) : \E j \in P : g[j] = m
    BY <2>2 DEF Places
  <2> HIDE DEF P, u
  <2>4. h \in [P \cup {k + 1} -> DOMAIN u]
    BY <2>2, <2>3
  <2>5. h[k + 1] = Len(t) + 1 /\ \A j \in P : h[j] = g[j]
    BY <2>1
  <2> HIDE DEF h
  <2>6. \A j \in P \cup {k + 1} : u[h[j]] = s[j]
    BY <2>2, <2>3, <2>5
  <2>7. \A i, j \in P \cup {k + 1} : i < j => h[i] < h[j]
    BY <2>1, <2>2, <2>3, <2>5
  <2>8. \A m \in DOMAIN u : \E j \in P \cup {k + 1} : h[j] = m
    BY <2>2, <2>3, <2>5
  <2>9. Places(s, keep, k + 1, u, h)
    BY <2>1, <2>2, <2>4, <2>6, <2>7, <2>8, Zenon DEF Places
  <2>10. QED
    BY <1>2, <2>9, Zenon DEF u
<1>3. QED
  BY <1>1, <1>2

\* One round of Filter, and n of them.
Round(s, keep, t, k) == IF s[k] \in keep THEN Append(t, s[k]) ELSE t
Rounds(s, keep, n, f) == f[0] = <<>> /\ \A k \in 1 .. n : f[k] = Round(s, keep, f[k - 1], k)

\* Filter's loop, as a function of its rounds.
Loop(s, keep, n, f) ==
    f = [k \in 0 .. n |-> IF k = 0 THEN <<>> ELSE Round(s, keep, f[k - 1], k)]

\* Any number of rounds can be made.
LEMMA RoundsRun ==
    ASSUME LibraryFacts, NEW s, NEW keep
    PROVE  \A n \in Nat : \E f : f = [k \in 0 .. n |-> f[k]] /\ Rounds(s, keep, n, f)
<1> DEFINE S == {n \in Nat : \E f : f = [k \in 0 .. n |-> f[k]] /\ Rounds(s, keep, n, f)}
<1>1. 0 \in S
  <2> DEFINE f == [k \in 0 .. 0 |-> <<>>]
  <2>1. f = [k \in 0 .. 0 |-> f[k]] /\ Rounds(s, keep, 0, f)
    BY DEF Rounds
  <2>2. QED
    BY <2>1
<1>2. ASSUME NEW n \in S PROVE n + 1 \in S
  <2>1. PICK f : f = [k \in 0 .. n |-> f[k]] /\ Rounds(s, keep, n, f)
    OBVIOUS
  <2> DEFINE v == Round(s, keep, f[n], n + 1)
             g == [k \in 0 .. n + 1 |-> IF k = n + 1 THEN v ELSE f[k]]
  <2>2. n \in Nat
    OBVIOUS
  <2> HIDE DEF v
  <2>3. g = [k \in 0 .. n + 1 |-> g[k]]
    OBVIOUS
  <2>4. /\ g[0] = f[0] /\ g[n + 1] = v /\ g[(n + 1) - 1] = f[n]
        /\ \A k \in 1 .. n : g[k] = f[k] /\ g[k - 1] = f[k - 1]
    BY <2>2
  <2> HIDE DEF g
  <2>5. ASSUME NEW k \in 1 .. n + 1 PROVE g[k] = Round(s, keep, g[k - 1], k)
    <3>1. CASE k = n + 1
      BY <2>4, <3>1, Zenon DEF v
    <3>2. CASE k \in 1 .. n
      BY <2>1, <2>4, <3>2, Zenon DEF Rounds
    <3>3. QED
      BY <2>2, <3>1, <3>2
  <2>6. Rounds(s, keep, n + 1, g)
    BY <2>1, <2>4, <2>5, Zenon DEF Rounds
  <2>7. n + 1 \in Nat
    BY <2>2
  <2>8. QED
    BY <2>3, <2>6, <2>7, Zenon
<1>3. S = Nat
  <2> HIDE DEF S
  <2>1. S \subseteq Nat
    BY DEF S
  <2>2. QED
    BY <1>1, <1>2, <2>1, Zenon DEF LibraryFacts
<1>4. QED
  BY <1>3

\* Filter keeps the elements it should, in their order.
LEMMA Filtered ==
    ASSUME LibraryFacts, NEW T, NEW s \in Seq(T), NEW keep
    PROVE  \E g : Places(s, keep, Len(s), Filter(s, keep), g)
<1> DEFINE n == Len(s)
           f == CHOOSE h : Loop(s, keep, n, h)
<1>1. n \in Nat
  OBVIOUS
<1>2. \E h : Loop(s, keep, n, h)
  <2>1. PICK h : h = [k \in 0 .. n |-> h[k]] /\ Rounds(s, keep, n, h)
    BY <1>1, RoundsRun, Zenon
  <2>2. \A k \in 0 .. n : h[k] = IF k = 0 THEN <<>> ELSE Round(s, keep, h[k - 1], k)
    <3>1. h[0] = <<>> /\ \A k \in 1 .. n : h[k] = Round(s, keep, h[k - 1], k)
      BY <2>1, Zenon DEF Rounds
    <3>2. \A k \in 0 .. n : k = 0 \/ k \in 1 .. n
      BY <1>1
    <3>3. \A k \in 1 .. n : k # 0
      OBVIOUS
    <3>4. QED
      BY <3>1, <3>2, <3>3, Zenon
  <2> HIDE DEF n
  <2>3. Loop(s, keep, n, h)
    BY <2>1, <2>2, Zenon DEF Loop
  <2>4. QED
    BY <2>3, Zenon
<1>3. Loop(s, keep, n, f)
  BY <1>2, Zenon
<1>4. Filter(s, keep) = f[n]
  BY Zenon DEF Filter, Loop, Round
<1> HIDE DEF f
<1>41. f[0] = <<>> /\ \A k \in 1 .. n : f[k] = Round(s, keep, f[k - 1], k)
  BY <1>1, <1>3 DEF Loop
<1> DEFINE Good == {k \in Nat : k <= n => \E g : Places(s, keep, k, f[k], g)}
<1>5. 0 \in Good
  <2>1. Place(s, keep, 0) = {} /\ f[0] \in Seq(keep) /\ DOMAIN f[0] = {}
    BY <1>41 DEF Place
  <2>2. Places(s, keep, 0, f[0], [j \in {} |-> 0])
    BY <2>1 DEF Places
  <2>3. QED
    BY <2>2
<1>6. ASSUME NEW k \in Good PROVE k + 1 \in Good
  <2>1. SUFFICES ASSUME k + 1 <= n PROVE \E g : Places(s, keep, k + 1, f[k + 1], g)
    OBVIOUS
  <2>2. k \in Nat /\ k <= n /\ k + 1 \in 1 .. n /\ (k + 1) - 1 = k
    BY <1>1, <2>1
  <2>3. PICK g : Places(s, keep, k, f[k], g)
    BY <2>2
  <2>4. f[k + 1] = IF s[k + 1] \in keep THEN Append(f[k], s[k + 1]) ELSE f[k]
    BY <1>41, <2>2 DEF Round
  <2>5. QED
    BY <2>2, <2>3, <2>4, PlacesStep, ZenonT(30)
<1>7. Good = Nat
  <2> HIDE DEF Good
  <2>1. Good \subseteq Nat
    BY DEF Good
  <2>2. QED
    BY <1>5, <1>6, <2>1, Zenon DEF LibraryFacts
<1>8. QED
  BY <1>1, <1>4, <1>7

\* Filter adds nothing.
LEMMA FilterType ==
    ASSUME LibraryFacts, NEW T, NEW s \in Seq(T), NEW keep
    PROVE  Filter(s, keep) \in Seq(T)
<1> DEFINE t == Filter(s, keep)
<1>1. PICK g : Places(s, keep, Len(s), t, g)
  BY Filtered
<1> HIDE DEF t
<1>2. /\ t \in Seq(keep) /\ \A j \in Place(s, keep, Len(s)) : t[g[j]] = s[j] /\ s[j] \in T
      /\ \A m \in DOMAIN t : \E j \in Place(s, keep, Len(s)) : g[j] = m
  BY <1>1 DEF Places, Place
<1>3. \A m \in DOMAIN t : t[m] \in T
  BY <1>2, Zenon
<1>4. t \in Seq(T)
  BY <1>2, <1>3
<1>5. QED
  BY <1>4 DEF t

\* Nothing was fetched.
LEMMA NothingFetched == ASSUME LibraryFacts PROVE IsMap({}) /\ Wins({}, <<>>)
<1>1. IsFiniteSet({})
  BY DEF LibraryFacts
<1>2. QED
  BY <1>1 DEF IsMap, Wins, Names

\* Merging another route's map.
LEMMA MergeWins ==
    ASSUME CommandAssumption, LibraryFacts, NEW m, NEW a \in Seq(DOMAIN Env), IsMap(m), Wins(m, a), NEW r \in DOMAIN Env
    PROVE  IsMap(Merge(m, r)) /\ Wins(Merge(m, r), Append(a, r))
<1> DEFINE b == Append(a, r)
           n == Len(a) + 1
<1>1. /\ DOMAIN b = DOMAIN a \cup {n} /\ b[n] = r /\ \A k \in DOMAIN a : b[k] = a[k] /\ k < n /\ k \in Nat
      /\ n \in Nat
  OBVIOUS
<1> HIDE DEF b, n
<1>2. IsMap(Merge(m, r))
  <2>1. IsFiniteSet(Env[r]) /\ \A d, e \in Env[r] : d[1] = e[1] => d = e
    BY DEF CommandAssumption
  <2>2. IsFiniteSet({e \in m : e[1] \notin Names(Env[r])})
    BY Zenon DEF LibraryFacts, IsMap
  <2>3. IsFiniteSet(Merge(m, r))
    BY <2>1, <2>2, Zenon DEF LibraryFacts, Merge
  <2>4. QED
    BY <2>1, <2>3 DEF IsMap, Merge, Names
<1>3. \A x : x \in Names(Merge(m, r)) <=> x \in Names(m) \/ x \in Names(Env[r])
  <2>1. Env[r] \subseteq Merge(m, r) /\ \A e \in Merge(m, r) : e \in m \/ e \in Env[r]
    BY Zenon DEF Merge
  <2>2. \A e \in m : e[1] \notin Names(Env[r]) => e \in Merge(m, r)
    BY Zenon DEF Merge
  <2>3. \A S, x : x \in Names(S) <=> \E e \in S : x = e[1]
    BY Zenon DEF Names
  <2>4. ASSUME NEW x PROVE x \in Names(Merge(m, r)) => x \in Names(m) \/ x \in Names(Env[r])
    BY <2>1, <2>3
  <2>5. ASSUME NEW x, x \in Names(Env[r]) PROVE x \in Names(Merge(m, r))
    BY <2>1, <2>3, <2>5
  <2>6. ASSUME NEW x, x \in Names(m), x \notin Names(Env[r]) PROVE x \in Names(Merge(m, r))
    <3>1. PICK e \in m : x = e[1]
      BY <2>3, <2>6
    <3>2. QED
      BY <2>2, <2>3, <2>6, <3>1, Zenon
  <2>7. QED
    BY <2>4, <2>5, <2>6, Zenon
<1>4. \A x : (\E k \in DOMAIN b : x \in Names(Env[b[k]]))
              <=> (\E k \in DOMAIN a : x \in Names(Env[a[k]])) \/ x \in Names(Env[r])
  BY <1>1, Zenon
<1>5. ASSUME NEW e \in Merge(m, r)
      PROVE  \E k \in DOMAIN b : /\ e \in Env[b[k]]
                                 /\ \A j \in DOMAIN b : j > k => e[1] \notin Names(Env[b[j]])
  <2>1. CASE e \in Env[r]
    <3>1. e \in Env[b[n]] /\ n \in DOMAIN b /\ \A j \in DOMAIN b : ~ (j > n)
      BY <1>1, <2>1
    <3>2. QED
      BY <3>1, Zenon
  <2>2. CASE e \in m /\ e[1] \notin Names(Env[r])
    <3>1. PICK k \in DOMAIN a : /\ e \in Env[a[k]]
                                /\ \A j \in DOMAIN a : j > k => e[1] \notin Names(Env[a[j]])
      BY <2>2 DEF Wins
    <3>2. QED
      BY <1>1, <2>2, <3>1, Zenon
  <2>3. QED
    BY <2>1, <2>2 DEF Merge
<1>6. Wins(Merge(m, r), b)
  <2>1. \A x : x \in Names(m) <=> \E k \in DOMAIN a : x \in Names(Env[a[k]])
    BY Zenon DEF Wins
  <2>2. \A x : x \in Names(Merge(m, r)) <=> \E k \in DOMAIN b : x \in Names(Env[b[k]])
    BY <1>3, <1>4, <2>1, Zenon
  <2>3. QED
    BY <1>5, <2>2, Zenon DEF Wins
<1>7. QED
  BY <1>2, <1>6 DEF b

\* mergeEnv gives the child what ChildEnvironment says.
LEMMA ChildIsMerged ==
    ASSUME CommandAssumption, LibraryFacts, NEW m, IsMap(m), NEW c \in MergeEnv(Base, m)
    PROVE  Overrides(c, m)
<1> DEFINE N == Names(m)
           keep == {Base[k] : k \in {j \in DOMAIN Base : Base[j][1] \notin N}}
           kept == Filter(Base, keep)
           n == Cardinality(m)
           P == {k \in DOMAIN Base : Base[k][1] \notin N}
           Q == {k \in DOMAIN c : c[k][1] \notin N}
<1>1. PICK t \in [1 .. n -> m] :
        c = kept \o t /\ \A i, j \in DOMAIN t : t[i] = t[j] => i = j
  BY Zenon DEF MergeEnv
<1>2. n \in Nat /\ \A e \in m : \E i \in 1 .. n : t[i] = e
  <2>1. IsFiniteSet(m)
    BY Zenon DEF IsMap
  <2>2. /\ Cardinality(m) \in Nat
        /\ \A u \in [1 .. Cardinality(m) -> m] :
             (\A i, j \in DOMAIN u : u[i] = u[j] => i = j)
               => \A e \in m : \E i \in 1 .. Cardinality(m) : u[i] = e
    BY <2>1, Zenon DEF LibraryFacts
  <2>3. QED
    BY <1>1, <2>2, Zenon
<1>3. Base \in Seq(Seq(STRING))
  BY DEF CommandAssumption
<1>4. PICK g : Places(Base, keep, Len(Base), kept, g)
  BY <1>3, Filtered, Zenon
<1>5. Place(Base, keep, Len(Base)) = P
  BY <1>3 DEF Place
<1> HIDE DEF kept
<1>6. kept \in Seq(keep) /\ t \in Seq(m) /\ Len(t) = n /\ Len(kept) \in Nat
  <2>1. kept \in Seq(keep)
    BY <1>4, Zenon DEF Places
  <2>2. \A S : \A u \in [1 .. n -> S] : u \in Seq(S) /\ Len(u) = n
    BY <1>2, ListOf, Zenon
  <2> HIDE DEF keep, n
  <2>3. t \in Seq(m) /\ Len(t) = n
    BY <2>2, Zenon
  <2>4. Len(kept) \in Nat
    BY <2>1
  <2>5. QED
    BY <2>1, <2>3, <2>4, Zenon
<1>7. \A v \in keep : v[1] \notin N
  BY Zenon
<1> HIDE DEF keep
<1>8. /\ DOMAIN c = 1 .. Len(kept) + n /\ DOMAIN kept = 1 .. Len(kept)
      /\ \A k \in 1 .. Len(kept) : c[k] = kept[k] /\ kept[k] \in keep
      /\ \A k \in 1 .. n : c[Len(kept) + k] = t[k] /\ t[k] \in m
  BY <1>1, <1>2, <1>6
<1>9. \A e \in m : e[1] \in N
  BY DEF Names
<1> HIDE DEF N, n
<1>10. \A k \in DOMAIN c : \/ k \in 1 .. Len(kept)
                               \/ \E i \in 1 .. n : k = Len(kept) + i
  <2>1. \A k \in 1 .. Len(kept) + n : k \in 1 .. Len(kept) \/ k - Len(kept) \in 1 .. n
    BY <1>2, <1>6
  <2>2. \A k \in 1 .. Len(kept) + n : k = Len(kept) + (k - Len(kept))
    BY <1>2, <1>6
  <2>3. QED
    BY <1>8, <2>1, <2>2, Zenon
<1>11. \A k \in DOMAIN c : c[k][1] \notin N <=> k \in 1 .. Len(kept)
  <2>1. \A k \in 1 .. Len(kept) : c[k][1] \notin N
    BY <1>7, <1>8, Zenon
  <2>2. \A i \in 1 .. n : c[Len(kept) + i][1] \in N
    BY <1>8, <1>9, Zenon
  <2>3. QED
    BY <1>10, <2>1, <2>2, Zenon
<1>12. Q = 1 .. Len(kept)
  BY <1>2, <1>6, <1>8, <1>11
<1>13. ASSUME NEW e \in m
       PROVE  \E k \in DOMAIN c :
                c[k] = e /\ \A j \in DOMAIN c : c[j][1] = e[1] => j = k
  <2>1. PICK i \in 1 .. n : t[i] = e
    BY <1>2, Zenon
  <2>2. Len(kept) + i \in DOMAIN c /\ c[Len(kept) + i] = e
    BY <1>2, <1>6, <1>8, <2>1
  <2>3. ASSUME NEW j \in DOMAIN c, c[j][1] = e[1] PROVE j = Len(kept) + i
    <3>1. c[j][1] \in N
      BY <1>9, <2>3, Zenon
    <3>2. PICK h \in 1 .. n : j = Len(kept) + h
      BY <1>10, <1>11, <3>1, Zenon
    <3>3. t[h] = t[i]
      BY <1>8, <2>1, <2>3, <3>2, ZenonT(30) DEF IsMap
    <3>4. QED
      BY <1>1, <3>2, <3>3, Zenon
  <2>4. QED
    BY <2>2, <2>3, Zenon
<1>14. /\ g \in [P -> 1 .. Len(kept)] /\ \A k \in P : kept[g[k]] = Base[k]
       /\ \A j, k \in P : j < k => g[j] < g[k]
       /\ \A i \in 1 .. Len(kept) : \E k \in P : g[k] = i
  BY <1>4, <1>5, <1>8, Zenon DEF Places
<1> HIDE DEF P
<1>15. g \in [P -> Q] /\ \A k \in P : c[g[k]] = Base[k]
  BY <1>8, <1>12, <1>14, ZenonT(30)
<1>16. Q = {g[k] : k \in P}
  BY <1>12, <1>14
<1>17. QED
  BY <1>13, <1>14, <1>15, <1>16, Zenon DEF Overrides, P, N

\* The env map of one route.
LEMMA OneRoute == ASSUME CommandAssumption, NEW r \in DOMAIN Env PROVE IsMap(Env[r]) /\ Wins(Env[r], <<r>>)
<1>1. IsMap(Env[r])
  BY DEF CommandAssumption, IsMap
<1>2. DOMAIN <<r>> = {1} /\ <<r>>[1] = r
  OBVIOUS
<1>3. QED
  BY <1>1, <1>2 DEF Wins

\* The commands start with the invariant.
LEMMA EnvInitInv == ASSUME CommandAssumption, LibraryFacts, EnvInit PROVE EnvInv
<1>1. PICK o \in Options :
        cmd = [opt |-> o, pc |-> "start", todo |-> <<>>, env |-> NoEnv, asked |-> <<>>, exit |-> None]
  BY DEF EnvInit
<1>2. stdout = None /\ child = None
  BY DEF EnvInit
<1>3. QED
  BY <1>1, <1>2, NothingFetched DEF EnvInv, NoEnv, CommandAssumption, DegradesQuietly, ChildEnvironment

\* A step that ends the command, or goes on to another, leaves what was fetched.
LEMMA EnvStep ==
    ASSUME CommandAssumption, EnvInv, NEW p, NEW todo \in Seq(DOMAIN Env),
           NEW x \in {None, 0, 1},
           cmd' = [cmd EXCEPT !.pc = p, !.todo = todo, !.exit = x], stdout' = stdout, child' = child,
           cmd.pc # "exited",
           \/ p = "exited" /\ x # None
           \/ p \in {"ready", "routes"} /\ x = None /\ cmd.pc \in {"start", "ready"}
           \/ p = "fetch" /\ x = None,
           cmd.opt.op = "env" /\ ~ cmd.opt.strict => x # 1,
           cmd.opt.strict /\ cmd.opt.routes # <<>> =>
             /\ p = "fetch" => cmd.asked \o todo = cmd.opt.routes
             /\ x # 0
    PROVE  EnvInv'
<1>1. /\ cmd \in [opt : Options, pc : {"start", "ready", "routes", "fetch", "exited"},
                todo : Seq(DOMAIN Env), env : SUBSET UNION {Env[r] : r \in DOMAIN Env},
                asked : Seq(DOMAIN Env), exit : {None, 0, 1}]
      /\ stdout = None /\ child = None
  BY DEF EnvInv
<1>2. /\ cmd' \in [opt : Options, pc : {"start", "ready", "routes", "fetch", "exited"},
                todo : Seq(DOMAIN Env), env : SUBSET UNION {Env[r] : r \in DOMAIN Env},
                asked : Seq(DOMAIN Env), exit : {None, 0, 1}]
      /\ cmd'.opt = cmd.opt /\ cmd'.env = cmd.env /\ cmd'.asked = cmd.asked
      /\ cmd'.pc = p /\ cmd'.todo = todo /\ cmd'.exit = x
  BY <1>1, Zenon
<1>3. IsMap(cmd'.env) /\ Wins(cmd'.env, cmd'.asked)
  BY <1>2, Zenon DEF EnvInv
<1>4. DegradesQuietly' /\ ChildEnvironment'
  BY <1>1, <1>2 DEF DegradesQuietly, ChildEnvironment
<1>5. QED
  BY <1>1, <1>2, <1>3, <1>4, Zenon DEF EnvInv, CommandAssumption

\* Every step keeps the invariant.
LEMMA EnvNextInv == ASSUME CommandAssumption, LibraryFacts, EnvInv, [EnvNext]_envVars PROVE EnvInv'
<1> DEFINE D == DOMAIN Env
           T == [opt : Options, pc : {"start", "ready", "routes", "fetch", "exited"},
                 todo : Seq(D), env : SUBSET UNION {Env[r] : r \in D}, asked : Seq(D),
                 exit : {None, 0, 1}]
<1>1. /\ cmd \in T /\ IsMap(cmd.env) /\ Wins(cmd.env, cmd.asked)
      /\ cmd.pc # "exited" => cmd.exit = None /\ stdout = None /\ child = None
      /\ cmd.pc \in {"start", "ready", "routes"} => cmd.asked = <<>> /\ cmd.env = {}
      /\ cmd.opt.strict /\ cmd.opt.routes # <<>> /\ cmd.pc = "fetch" => cmd.asked \o cmd.todo = cmd.opt.routes
  BY DEF EnvInv
<1>2. /\ cmd.opt.routes \in Seq(D) /\ cmd.opt.op \in {"env", "exec", "run", "resolve"}
      /\ cmd.opt.op \in {"run", "resolve"} => cmd.opt.routes = <<>>
      /\ cmd.opt.op # "env" => cmd.opt.strict
      /\ None # 0 /\ None # 1
  BY <1>1 DEF CommandAssumption
<1>3. ASSUME NEW x \in {0, 1}, Exit(x), cmd.pc # "exited", UNCHANGED <<stdout, child>>,
             cmd.opt.op = "env" /\ ~ cmd.opt.strict => x # 1,
             cmd.opt.strict /\ cmd.opt.routes # <<>> => x # 0
      PROVE  EnvInv'
  <2>1. cmd' = [cmd EXCEPT !.pc = "exited", !.todo = cmd.todo, !.exit = x]
    BY <1>1, <1>3, Zenon DEF Exit
  <2>2. cmd.todo \in Seq(DOMAIN Env) /\ x \in {None, 0, 1} /\ x # None
    BY <1>1, <1>2
  <2> HIDE DEF D, T
  <2>3. QED
    BY <1>3, <2>1, <2>2, EnvStep, Zenon
<1>4. ASSUME NEW p \in {"ready", "routes"}, Goto(p), cmd.pc \in {"start", "ready"}, UNCHANGED <<stdout, child>>
      PROVE  EnvInv'
  <2>1. cmd' = [cmd EXCEPT !.pc = p, !.todo = cmd.todo, !.exit = None]
    BY <1>1, <1>4, Zenon DEF Goto
  <2>2. cmd.todo \in Seq(DOMAIN Env) /\ None \in {None, 0, 1} /\ p # "fetch" /\ cmd.pc # "exited"
    BY <1>1, <1>4
  <2> HIDE DEF D, T
  <2>3. QED
    BY <1>2, <1>4, <2>1, <2>2, EnvStep, Zenon
<1>5. ASSUME NEW todo \in Seq(D), cmd' = [cmd EXCEPT !.pc = "fetch", !.todo = todo],
             cmd.pc # "exited", UNCHANGED <<stdout, child>>,
             cmd.opt.strict /\ cmd.opt.routes # <<>> => cmd.asked \o todo = cmd.opt.routes
      PROVE  EnvInv'
  <2>1. cmd' = [cmd EXCEPT !.pc = "fetch", !.todo = todo, !.exit = None]
    BY <1>1, <1>5, Zenon
  <2>2. todo \in Seq(DOMAIN Env) /\ None \in {None, 0, 1}
    OBVIOUS
  <2> DEFINE p == "fetch"
  <2> HIDE DEF D, T, p
  <2>3. cmd' = [cmd EXCEPT !.pc = p, !.todo = todo, !.exit = None] /\ p = "fetch"
    BY <2>1 DEF p
  <2>4. cmd.opt.strict /\ cmd.opt.routes # <<>> =>
          (p = "fetch" => cmd.asked \o todo = cmd.opt.routes) /\ None # 0
    BY <1>2, <1>5
  <2>5. cmd.opt.op = "env" /\ ~ cmd.opt.strict => None # 1
    BY <1>2
  <2>6. stdout' = stdout /\ child' = child /\ cmd.pc # "exited"
    BY <1>5
  <2>7. QED
    BY <2>2, <2>3, <2>4, <2>5, <2>6, EnvStep, Zenon
<1>13. CASE LoadToken
  BY <1>1, <1>2, <1>3, <1>4, <1>13 DEF LoadToken, Fail
<1>14. CASE EndpointReady
  BY <1>1, <1>2, <1>3, <1>4, <1>14 DEF EndpointReady, Fail
<1>15. CASE SelectRoutes
  <2>1. cmd.pc = "routes" /\ cmd.asked = <<>> /\ UNCHANGED <<stdout, child>>
    BY <1>1, <1>15 DEF SelectRoutes
  <2>2. \A todo \in Seq(D) : <<>> \o todo = todo
    OBVIOUS
  <2>3. CASE cmd.opt.routes # <<>>
    BY <1>2, <1>5, <1>15, <2>1, <2>2, <2>3, ZenonT(30) DEF SelectRoutes, Fetching
  <2>4. CASE cmd.opt.routes = <<>> /\ broker.up
    <3>1. Filter(RouteOrder, broker.listed \cap Addressable) \in Seq(D)
      BY FilterType, Zenon DEF CommandAssumption
    <3>2. QED
      BY <1>5, <1>15, <2>1, <2>4, <3>1, Zenon DEF SelectRoutes, Fetching
  <2>5. CASE cmd.opt.routes = <<>> /\ ~ broker.up
    BY <1>2, <1>3, <1>15, <2>1, <2>5 DEF SelectRoutes, Fail
  <2>6. QED
    BY <2>3, <2>4, <2>5
<1>6. CASE Collect
  <2> DEFINE r == Head(cmd.todo)
             m == Merge(cmd.env, r)
  <2>1. /\ cmd.pc = "fetch" /\ cmd.todo # <<>> /\ UNCHANGED <<stdout, child>>
        /\ cmd' = [cmd EXCEPT !.todo = Tail(@), !.asked = Append(@, r), !.env = m]
    BY <1>6 DEF Collect
  <2>2. /\ r \in D /\ Tail(cmd.todo) \in Seq(D) /\ Append(cmd.asked, r) \in Seq(D)
        /\ Append(cmd.asked, r) \o Tail(cmd.todo) = cmd.asked \o cmd.todo
    <3>1. cmd.asked \in Seq(D) /\ cmd.todo \in Seq(D) /\ cmd.todo # <<>>
      BY <1>1, <2>1, Zenon
    <3> HIDE DEF D
    <3>2. /\ Head(cmd.todo) \in D /\ Tail(cmd.todo) \in Seq(D) /\ Append(cmd.asked, Head(cmd.todo)) \in Seq(D)
          /\ Append(cmd.asked, Head(cmd.todo)) \o Tail(cmd.todo) = cmd.asked \o cmd.todo
      BY ONLY <3>1, HeadMoves, ZenonT(30)
    <3>3. QED
      BY <3>2, Zenon
  <2>3. IsMap(m) /\ Wins(m, Append(cmd.asked, r))
    BY <1>1, <2>2, MergeWins, Zenon
  <2>4. m \in SUBSET UNION {Env[q] : q \in D}
    BY <1>1, <2>2 DEF Merge
  <2> HIDE DEF r, m
  <2>5. /\ cmd' \in T /\ cmd'.env = m /\ cmd'.asked = Append(cmd.asked, r) /\ cmd'.opt = cmd.opt
        /\ cmd'.pc = "fetch" /\ cmd'.todo = Tail(cmd.todo) /\ cmd'.exit = None
    BY <1>1, <2>1, <2>2, <2>4, Zenon
  <2>6. DegradesQuietly' /\ ChildEnvironment'
    BY <1>1, <2>1, <2>5 DEF DegradesQuietly, ChildEnvironment
  <2>7. IsMap(cmd'.env) /\ Wins(cmd'.env, cmd'.asked)
    BY <2>3, <2>5
  <2>8. QED
    BY <1>1, <1>2, <2>1, <2>2, <2>5, <2>6, <2>7, ZenonT(30) DEF EnvInv
<1>7. CASE CollectNothing
  <2>1. CASE cmd.opt.strict
    BY <1>3, <1>7, <2>1 DEF CollectNothing
  <2>2. CASE ~ cmd.opt.strict
    <3>1. cmd' = [cmd EXCEPT !.pc = "fetch", !.todo = Tail(cmd.todo)]
      <4>1. \A v : cmd.pc = "fetch" => [cmd EXCEPT !.todo = v] = [cmd EXCEPT !.pc = "fetch", !.todo = v]
        BY <1>1, Zenon
      <4>2. cmd.pc = "fetch" /\ cmd' = [cmd EXCEPT !.todo = Tail(cmd.todo)]
        BY <1>7, <2>2, Zenon DEF CollectNothing
      <4>3. QED
        BY <4>1, <4>2, Zenon
    <3>2. Tail(cmd.todo) \in Seq(D)
      BY <1>1, <1>7 DEF CollectNothing
    <3>3. QED
      BY <1>5, <1>7, <2>2, <3>1, <3>2, Zenon DEF CollectNothing
  <2>3. QED
    BY <2>1, <2>2
<1>8. ASSUME NEW x \in {0, 1}, cmd.pc = "fetch", cmd.todo = <<>>, Exit(x)
      PROVE  /\ cmd' \in T /\ cmd'.env = cmd.env /\ cmd'.asked = cmd.asked /\ cmd'.opt = cmd.opt
             /\ cmd'.pc = "exited" /\ cmd'.exit = x
             /\ cmd.opt.strict /\ cmd.opt.routes # <<>> => cmd.asked = cmd.opt.routes
  <2>1. \A a \in Seq(D) : a \o <<>> = a
    OBVIOUS
  <2>2. cmd.asked \in Seq(D)
    BY <1>1
  <2>3. cmd.opt.strict /\ cmd.opt.routes # <<>> => cmd.asked = cmd.opt.routes
    BY <1>1, <1>8, <2>1, <2>2
  <2>4. /\ cmd' \in T /\ cmd'.env = cmd.env /\ cmd'.asked = cmd.asked /\ cmd'.opt = cmd.opt
        /\ cmd'.pc = "exited" /\ cmd'.exit = x
    BY <1>1, <1>8, Zenon DEF Exit
  <2>5. QED
    BY <2>3, <2>4
<1>9. CASE WriteEnv
  <2>1. cmd.pc = "fetch" /\ cmd.todo = <<>> /\ Exit(0) /\ child' = child
    BY <1>9 DEF WriteEnv
  <2>2. DegradesQuietly' /\ ChildEnvironment'
    BY <1>1, <1>8, <2>1 DEF DegradesQuietly, ChildEnvironment
  <2>3. IsMap(cmd'.env) /\ Wins(cmd'.env, cmd'.asked)
    BY <1>1, <1>8, <2>1
  <2>4. QED
    BY <1>1, <1>2, <1>8, <2>1, <2>2, <2>3 DEF EnvInv
<1>10. CASE Exec
  <2>1. cmd.pc = "fetch" /\ cmd.todo = <<>> /\ stdout' = stdout /\ cmd.opt.op # "env"
    BY <1>10 DEF Exec
  <2>2. CASE Exit(1) /\ child' = child
    BY <1>2, <1>3, <2>1, <2>2
  <2>3. CASE Exit(0) /\ child' \in MergeEnv(Base, cmd.env)
    <3>1. DegradesQuietly'
      BY <1>8, <2>1, <2>3 DEF DegradesQuietly
    <3>2. Overrides(child', cmd.env)
      BY <1>1, <2>3, ChildIsMerged, Zenon
    <3>3. ChildEnvironment'
      BY <1>8, <2>1, <2>3, <3>2 DEF ChildEnvironment
    <3>4. IsMap(cmd'.env) /\ Wins(cmd'.env, cmd'.asked)
      BY <1>1, <1>8, <2>1, <2>3
    <3>5. QED
      BY <1>1, <1>2, <1>8, <2>1, <2>3, <3>1, <3>3, <3>4 DEF EnvInv
  <2>4. QED
    BY <1>10, <2>2, <2>3 DEF Exec
<1>16. CASE ResolveEnvFile
  <2>1. cmd.pc = "start" /\ cmd.opt.op \in {"run", "resolve"} /\ child' = child
    BY <1>16, Zenon DEF ResolveEnvFile
  <2>2. CASE Exit(1) /\ stdout' = stdout
    BY <1>2, <1>3, <2>1, <2>2
  <2>3. ASSUME NEW r \in Route, NEW p \in {"fetch", "exited"}, NEW x \in {None, 0},
               p = "fetch" => x = None /\ stdout' = stdout, p = "exited" => x = 0,
               cmd' = [cmd EXCEPT !.pc = p, !.exit = x, !.asked = <<r>>, !.env = Env[r]]
        PROVE  EnvInv'
    <3>1. r \in D
      BY DEF Route, CommandAssumption
    <3>2. <<r>> \in Seq(D) /\ Env[r] \in SUBSET UNION {Env[q] : q \in D}
      BY <3>1
    <3>3. /\ cmd' \in T /\ cmd'.opt = cmd.opt /\ cmd'.pc = p /\ cmd'.exit = x
          /\ cmd'.asked = <<r>> /\ cmd'.env = Env[r]
      BY <1>1, <2>3, <3>2, Zenon
    <3>4. IsMap(cmd'.env) /\ Wins(cmd'.env, cmd'.asked)
      BY <3>1, <3>3, OneRoute
    <3>5. DegradesQuietly' /\ ChildEnvironment'
      BY <1>1, <2>1, <3>3 DEF DegradesQuietly, ChildEnvironment
    <3>6. QED
      BY <1>1, <1>2, <2>1, <2>3, <3>3, <3>4, <3>5 DEF EnvInv
  <2>4. ASSUME NEW r \in Route, cmd.opt.op = "run", UNCHANGED stdout,
               cmd' = [cmd EXCEPT !.pc = "fetch", !.asked = <<r>>, !.env = Env[r]]
        PROVE  EnvInv'
    <3>1. cmd' = [cmd EXCEPT !.pc = "fetch", !.exit = None, !.asked = <<r>>, !.env = Env[r]]
      BY <1>1, <2>1, <2>4, Zenon
    <3>2. QED
      BY <2>3, <2>4, <3>1, Zenon
  <2>5. QED
    BY <1>16, <2>2, <2>3, <2>4, ZenonT(30) DEF ResolveEnvFile
<1>11. CASE cmd' = cmd /\ stdout' = stdout /\ child' = child
  <2>1. DegradesQuietly' /\ ChildEnvironment'
    BY <1>11 DEF EnvInv, DegradesQuietly, ChildEnvironment
  <2>2. QED
    BY <1>11, <2>1, Zenon DEF EnvInv
<1>12. QED
  BY <1>13, <1>14, <1>15, <1>6, <1>7, <1>9, <1>10, <1>11, <1>16 DEF EnvNext, BrokerChanges, envVars

\* The invariant implies what the commands promise.
LEMMA EnvInvOutput == ASSUME EnvInv PROVE CommandOutput
<1>1. Names(cmd.env) = UNION {Names(Env[cmd.asked[k]]) : k \in DOMAIN cmd.asked}
  BY DEF EnvInv, Wins
<1>2. LastRouteWins
  BY <1>1, Zenon DEF EnvInv, Wins, LastRouteWins
<1>3. QED
  BY <1>2 DEF EnvInv, CommandOutput, StrictIsAllOrNothing

-----------------------------------------------------------------------
(* The two components that the commands use, or run beside them.           *)

CONSTANTS MaxIn, MaxOut, Caller, Files, Ref, TTLs, MaxTime, MaxRuns

VARIABLES
    fed, sent, printed, peer, conn, copier, results, relay, cancelled,  \* of Relay
    cache, flight, runs, now, caller                        \* of SecretHook

R == INSTANCE Relay
H == INSTANCE SecretHook

-----------------------------------------------------------------------
(* credproxy connect.                                                      *)

\* A result of the output copier without an error is one of a stream printed to its end.
RelayInv ==
    /\ sent \in Nat /\ printed \in Nat
    /\ results \in Seq([output : BOOLEAN, err : BOOLEAN])
    /\ \A k \in DOMAIN results :
         results[k].output /\ ~ results[k].err => peer = "closed" /\ printed = sent
    /\ R!NilMeansAllPrinted

\* What the head and the rest of a sequence are.
LEMMA HeadTail ==
    ASSUME NEW T, NEW s \in Seq(T), s # <<>>
    PROVE  /\ Head(s) = s[1] /\ 1 \in DOMAIN s /\ Tail(s) \in Seq(T)
           /\ \A k \in DOMAIN Tail(s) : k + 1 \in DOMAIN s /\ Tail(s)[k] = s[k + 1]
  OBVIOUS

\* What an element is when one is added.
LEMMA AppendOne ==
    ASSUME NEW T, NEW s \in Seq(T), NEW x \in T
    PROVE  /\ Append(s, x) \in Seq(T)
           /\ \A k \in DOMAIN Append(s, x) :
                Append(s, x)[k] = x \/ (k \in DOMAIN s /\ Append(s, x)[k] = s[k])
  OBVIOUS

\* relayStdio returns nil only when everything the broker sent is printed, whichever of the
\* copiers, the broker and a signal come first.
THEOREM NilIsAllPrinted == R!Spec => []R!NilMeansAllPrinted
<1> DEFINE Result == [output : BOOLEAN, err : BOOLEAN]
<1>1. R!Init => RelayInv
  BY DEF R!Init, RelayInv, R!NilMeansAllPrinted
<1>2. ASSUME RelayInv, [R!Next]_(R!vars) PROVE RelayInv'
  <2>1. /\ results \in Seq(Result) /\ sent \in Nat /\ printed \in Nat
        /\ \A k \in DOMAIN results :
             results[k].output /\ ~ results[k].err => peer = "closed" /\ printed = sent
        /\ relay = "nil" => peer = "closed" /\ printed = sent
    BY <1>2 DEF RelayInv, R!NilMeansAllPrinted
  <2>2. ASSUME NEW which \in {"in", "out"}, NEW e \in BOOLEAN, R!Report(which, e),
               which = "out" /\ ~ e => peer = "closed" /\ printed = sent
        PROVE  RelayInv'
    <3> DEFINE r == [output |-> which = "out", err |-> e]
    <3>1. r \in Result /\ (r.output /\ ~ r.err => peer = "closed" /\ printed = sent)
      BY <2>2
    <3>2. /\ results' = Append(results, r) /\ peer' = peer /\ printed' = printed /\ sent' = sent
          /\ relay' = relay
      BY <2>2 DEF R!Report, R!streams
    <3> HIDE DEF r, Result
    <3>3. /\ results' \in Seq(Result)
          /\ \A k \in DOMAIN results' :
               results'[k] = r \/ (k \in DOMAIN results /\ results'[k] = results[k])
      BY <2>1, <3>1, <3>2, AppendOne
    <3>4. QED
      BY <2>1, <3>1, <3>2, <3>3 DEF RelayInv, R!NilMeansAllPrinted, Result
  <2>3. CASE R!InputEnds \/ R!InputFails
    BY <2>2, <2>3, Zenon DEF R!InputEnds, R!InputFails
  <2>4. CASE R!OutputEnds \/ R!OutputFails
    BY <2>2, <2>4, Zenon DEF R!OutputEnds, R!OutputFails
  <2>5. CASE R!CopyOut
    <3>1. /\ results' = results /\ relay' = relay /\ printed # sent
          /\ sent' = sent /\ printed' \in Nat
      BY <2>1, <2>5 DEF R!CopyOut
    <3>2. QED
      BY <2>1, <3>1 DEF RelayInv, R!NilMeansAllPrinted
  <2>6. CASE R!Broker
    <3>1. /\ results' = results /\ relay' = relay /\ peer = "open"
          /\ sent' \in Nat /\ printed' = printed
      BY <2>1, <2>6 DEF R!Broker
    <3>2. QED
      BY <2>1, <3>1 DEF RelayInv, R!NilMeansAllPrinted
  <2>7. CASE R!TakeResult
    <3>1. /\ results # <<>> /\ results' = Tail(results)
          /\ peer' = peer /\ printed' = printed /\ sent' = sent
          /\ relay' = "nil" => (Head(results).output /\ ~ Head(results).err) \/ relay = "nil"
      BY <2>7 DEF R!TakeResult, R!Return, R!streams
    <3>2. /\ Head(results) = results[1] /\ 1 \in DOMAIN results /\ Tail(results) \in Seq(Result)
          /\ \A k \in DOMAIN Tail(results) : k + 1 \in DOMAIN results /\ Tail(results)[k] = results[k + 1]
      BY <2>1, <3>1, HeadTail
    <3> HIDE DEF Result
    <3>3. QED
      BY <2>1, <3>1, <3>2 DEF RelayInv, R!NilMeansAllPrinted, Result
  <2>8. CASE R!TakeCancel
    BY <2>1, <2>8 DEF RelayInv, R!NilMeansAllPrinted, R!TakeCancel, R!Return, R!streams
  <2>9. CASE R!CopyIn \/ R!Signal \/ UNCHANGED R!vars
    BY <2>1, <2>9 DEF RelayInv, R!NilMeansAllPrinted, R!CopyIn, R!Signal, R!vars, R!streams
  <2>10. QED
    BY <1>2, <2>3, <2>4, <2>5, <2>6, <2>7, <2>8, <2>9 DEF R!Next, R!Output, R!Main
<1>3. RelayInv => R!NilMeansAllPrinted
  BY DEF RelayInv
<1>4. QED
  BY <1>1, <1>2, <1>3, PTL DEF R!Spec

-----------------------------------------------------------------------
(* The resolver of env-files.                                              *)

\* v is what the hook printed for r, in the executions rs.
Of(rs, v, r) == v \in DOMAIN rs /\ rs[v] = r

Busy == {"resolve", "flight", "wait", "again", "run", "landed"}

\* What is known of a call of ResolveFile: how far it is in its file, what it waits for or was
\* given, and that it has a value, of the right reference, for every name before.
Has(rs, d) ==
    /\ \A k \in 1 .. d.i - 1 : \E e \in d.out : e[1] = d.file[k].name
    /\ \A e \in d.out : \E k \in 1 .. d.i - 1 : e[1] = d.file[k].name /\ Of(rs, e[2], d.file[k].ref)

Record(d) == d \in [file : {d.file}, i : {d.i}, pc : {d.pc}, got : {d.got}, out : {d.out}]

Call(rs, d) ==
    /\ Record(d)
    /\ d.pc \in Busy \cup {"resolved", "failed", "idle"}
    /\ d.pc \in Busy => d.file \in Files /\ d.i \in DOMAIN d.file
    /\ d.pc = "resolved" => d.file \in Files /\ d.i = Len(d.file) + 1
    /\ d.pc = "wait" => d.got = d.file[d.i].ref
    /\ d.pc = "run" => Of(rs, d.got, d.file[d.i].ref)
    /\ d.pc = "landed" => d.got = None \/ Of(rs, d.got, d.file[d.i].ref)
    /\ d.pc \in {"idle", "failed"} => d.out = {}
    /\ d.pc \in Busy \cup {"resolved"} => Has(rs, d)

\* The hook is executed by the leader of its reference's flight.
Leads(c, d, led) == d.pc \in {"again", "run"} => led[d.file[d.i].ref] = c

HookInv ==
    /\ runs \in Seq(Ref)
    /\ cache = [r \in Ref |-> cache[r]] /\ flight = [r \in Ref |-> flight[r]]
    /\ caller = [c \in Caller |-> caller[c]]
    /\ \A r \in Ref : cache[r] # None => Of(runs, cache[r].value, r)
    /\ \A c \in Caller : Call(runs, caller[c]) /\ Leads(c, caller[c], flight)

-----------------------------------------------------------------------
\* No call has begun.
LEMMA HookInit == H!Init => HookInv
<1>1. ASSUME H!Init PROVE HookInv
  <2>1. /\ runs = <<>> /\ cache = [r \in Ref |-> None] /\ flight = [r \in Ref |-> None]
        /\ caller = [c \in Caller |-> H!Idle]
    BY <1>1 DEF H!Init
  <2>2. Call(runs, H!Idle) /\ H!Idle.pc = "idle"
    BY Zenon DEF Call, Record, H!Idle, Busy
  <2>3. \A c \in Caller : Call(runs, caller[c]) /\ Leads(c, caller[c], flight)
    BY <2>1, <2>2 DEF Leads
  <2>4. QED
    BY <2>1, <2>3 DEF HookInv
<1>2. QED
  BY <1>1

\* A call goes on: the others, the flights and the cache stay as they are.
LEMMA CallStep ==
    ASSUME HookInv, NEW c \in Caller, NEW d, caller' = [caller EXCEPT ![c] = d],
           Call(runs, d), Leads(c, d, flight), UNCHANGED <<cache, flight, runs>>
    PROVE  HookInv'
<1>1. caller'[c] = d /\ \A b \in Caller : b # c => caller'[b] = caller[b]
  BY DEF HookInv
<1>2. caller' = [b \in Caller |-> caller'[b]]
  BY DEF HookInv
<1>3. \A b \in Caller : Call(runs, caller'[b]) /\ Leads(b, caller'[b], flight)
  BY <1>1, Zenon DEF HookInv
<1>4. QED
  BY <1>2, <1>3 DEF HookInv

\* Where a call stands at an entry of its file, or after the last.
LEMMA AtCall ==
    ASSUME H!HookAssumption, NEW rs, NEW f \in Files, NEW i \in 1 .. Len(f) + 1, NEW o,
           \A k \in 1 .. i - 1 : \E e \in o : e[1] = f[k].name,
           \A e \in o : \E k \in 1 .. i - 1 : e[1] = f[k].name /\ Of(rs, e[2], f[k].ref)
    PROVE  Call(rs, H!At(f, i, o)) /\ H!At(f, i, o).pc \in {"resolve", "resolved"}
<1> DEFINE d == H!At(f, i, o)
           p == IF i > Len(f) THEN "resolved" ELSE "resolve"
<1>1. Record(d) /\ d.file = f /\ d.i = i /\ d.out = o /\ d.pc = p
  <2> HIDE DEF p
  <2>1. d = [H!Idle EXCEPT !.file = f, !.i = i, !.out = o, !.pc = p]
    BY Zenon DEF H!At, p
  <2> HIDE DEF d
  <2>2. QED
    BY <2>1, Zenon DEF H!Idle, Record
<1>2. Len(f) \in Nat /\ DOMAIN f = 1 .. Len(f)
  BY DEF H!HookAssumption
<1> HIDE DEF d
<1>3. Has(rs, d)
  BY <1>1, Zenon DEF Has
<1>4. Call(rs, d) /\ d.pc \in {"resolve", "resolved"}
  BY <1>1, <1>2, <1>3 DEF Call, Busy
<1>5. QED
  BY <1>4 DEF d

\* Resolve returns: with a value of the entry's reference the call goes on to the next entry,
\* with an error it gives up everything.
LEMMA ResolvedStep ==
    ASSUME H!HookAssumption, HookInv, NEW c \in Caller, caller[c].pc \in Busy, NEW v,
           v = None \/ Of(runs, v, H!RefOf(c)), H!Resolved(c, v),
           UNCHANGED <<cache, flight, runs>>
    PROVE  HookInv'
<1> DEFINE d == caller[c]
<1>1. Call(runs, d) /\ d.pc \in Busy /\ c \in DOMAIN caller
  BY Zenon DEF HookInv
<1>2. CASE v = None
  <2> DEFINE n == [d EXCEPT !.pc = "failed", !.out = {}]
  <2>1. caller' = [caller EXCEPT ![c] = n]
    BY <1>2 DEF H!Resolved
  <2>2. Record(n) /\ n.pc = "failed" /\ n.out = {}
    <3>1. Record(d)
      BY <1>1 DEF Call
    <3> HIDE DEF d
    <3>2. QED
      BY <3>1, Zenon DEF Record
  <2> HIDE DEF n
  <2>3. Call(runs, n) /\ Leads(c, n, flight)
    BY <2>2 DEF Call, Busy, Leads
  <2>4. QED
    BY <2>1, <2>3, CallStep, Zenon
<1>3. CASE v # None
  <2> DEFINE f == d.file
             i == d.i
             o == d.out \cup {<<f[i].name, v>>}
             n == H!At(f, i + 1, o)
  <2>1. caller' = [caller EXCEPT ![c] = n]
    BY <1>3 DEF H!Resolved, H!Entry
  <2>2. f \in Files /\ i \in 1 .. Len(f) /\ Len(f) \in Nat /\ Of(runs, v, f[i].ref) /\ Has(runs, d)
    BY <1>1, <1>3 DEF Call, H!HookAssumption, H!RefOf, H!Entry
  <2>3. \A k \in 1 .. (i + 1) - 1 : k \in 1 .. i - 1 \/ k = i
    BY <2>2
  <2>4. \A k \in 1 .. i - 1 : k \in 1 .. (i + 1) - 1
    BY <2>2
  <2>5. i \in 1 .. (i + 1) - 1 /\ i + 1 \in 1 .. Len(f) + 1
    BY <2>2
  <2>6. /\ \A k \in 1 .. i - 1 : \E e \in d.out : e[1] = f[k].name
        /\ \A e \in d.out : \E k \in 1 .. i - 1 : e[1] = f[k].name /\ Of(runs, e[2], f[k].ref)
    BY <2>2, Zenon DEF Has
  <2>7. <<f[i].name, v>>[1] = f[i].name /\ <<f[i].name, v>>[2] = v
    OBVIOUS
  <2> HIDE DEF f, i, d
  <2>8. \A k \in 1 .. (i + 1) - 1 : \E e \in o : e[1] = f[k].name
    BY <2>3, <2>6, <2>7, Zenon
  <2>9. \A e \in o : \E k \in 1 .. (i + 1) - 1 : e[1] = f[k].name /\ Of(runs, e[2], f[k].ref)
    BY <2>2, <2>4, <2>5, <2>6, <2>7, Zenon
  <2> HIDE DEF o
  <2>10. Call(runs, n) /\ n.pc \in {"resolve", "resolved"}
    BY <2>2, <2>5, <2>8, <2>9, AtCall, Zenon
  <2> HIDE DEF n
  <2>11. Leads(c, n, flight)
    BY <2>10 DEF Leads
  <2>12. QED
    BY <2>1, <2>10, <2>11, CallStep, Zenon
<1>4. QED
  BY <1>2, <1>3

\* A call whose hook is executed, or that waits for it, is given its result.
LEMMA LandStep ==
    ASSUME H!HookAssumption, HookInv, NEW c \in Caller, caller[c].pc \in {"again", "run"}, NEW v,
           v = None \/ Of(runs, v, H!RefOf(c)), H!Land(c, v), runs' = runs,
           cache' = [r \in Ref |-> cache'[r]],
           \A r \in Ref : cache'[r] # None => Of(runs, cache'[r].value, r)
    PROVE  HookInv'
<1> DEFINE r == H!RefOf(c)
           done == {c} \cup {d \in Caller : caller[d].pc = "wait" /\ caller[d].got = r}
<1>1. /\ flight' = [flight EXCEPT ![r] = None]
      /\ caller' = [d \in Caller |-> IF d \notin done THEN caller[d]
                                     ELSE [caller[d] EXCEPT !.pc = "landed", !.got = v]]
  BY Zenon DEF H!Land
<1>2. \A d \in Caller : Call(runs, caller[d]) /\ Leads(d, caller[d], flight)
  BY DEF HookInv
<1>3. r \in Ref /\ r = caller[c].file[caller[c].i].ref
  BY <1>2 DEF Call, Busy, H!HookAssumption, H!RefOf, H!Entry
<1>4. \A d \in done : d \in Caller /\ caller[d].pc \in Busy /\ caller[d].file[caller[d].i].ref = r
  BY <1>2, <1>3 DEF Call, Busy
<1>5. flight' = [q \in Ref |-> flight'[q]] /\ \A q \in Ref : q # r => flight'[q] = flight[q]
  BY <1>1, Zenon DEF HookInv
<1>6. ASSUME NEW d \in Caller PROVE Call(runs, caller'[d]) /\ Leads(d, caller'[d], flight')
  <2>1. CASE d \in done
    <3> DEFINE o == caller[d]
               n == [o EXCEPT !.pc = "landed", !.got = v]
    <3>1. caller'[d] = n
      BY <1>1, <2>1, Zenon
    <3>2. Record(o)
      BY <1>2 DEF Call
    <3>4. /\ Record(n) /\ n.file = o.file /\ n.i = o.i /\ n.out = o.out /\ n.pc = "landed" /\ n.got = v
      <4> HIDE DEF o
      <4>1. QED
        BY <3>2, ZenonT(30) DEF Record
    <3> HIDE DEF n
    <3>5. /\ o.file \in Files /\ o.i \in DOMAIN o.file /\ Has(runs, o) /\ o.file[o.i].ref = r
      BY <1>2, <1>4, <2>1 DEF Call
    <3> HIDE DEF o
    <3>6. Has(runs, n)
      BY <3>4, <3>5 DEF Has
    <3>7. Call(runs, n)
      BY <3>4, <3>5, <3>6 DEF Call, Busy
    <3>8. Leads(d, n, flight')
      BY <3>4 DEF Leads
    <3>9. QED
      BY <3>1, <3>7, <3>8
  <2>2. CASE d \notin done
    <3>1. caller'[d] = caller[d] /\ d # c
      BY <1>1, <2>2, ZenonT(30)
    <3>2. ASSUME caller[d].pc \in {"again", "run"} PROVE flight'[caller[d].file[caller[d].i].ref] = d
      <4>1. flight[caller[d].file[caller[d].i].ref] = d /\ flight[r] = c
        BY <1>2, <1>3, <3>2 DEF Leads
      <4>2. caller[d].file[caller[d].i].ref \in Ref
        BY <1>2, <3>2 DEF Call, Busy, H!HookAssumption
      <4>3. QED
        BY <1>5, <3>1, <4>1, <4>2
    <3>3. QED
      BY <1>2, <3>1, <3>2 DEF Leads
  <2>3. QED
    BY <2>1, <2>2
<1>7. caller' = [d \in Caller |-> caller'[d]]
  BY <1>1, Zenon
<1>8. QED
  BY <1>5, <1>6, <1>7 DEF HookInv

\* What is known of a call stays true when the hook is executed once more.
LEMMA CallLater ==
    ASSUME NEW rs \in Seq(Ref), NEW x \in Ref, NEW d, Call(rs, d)
    PROVE  Call(Append(rs, x), d)
<1>1. \A v, r : Of(rs, v, r) => Of(Append(rs, x), v, r)
  BY DEF Of
<1>2. Has(rs, d) => Has(Append(rs, x), d)
  BY <1>1, ZenonT(30) DEF Has
<1>3. QED
  BY <1>1, <1>2, Zenon DEF Call

\* A call that leaves its entry, and what it has, as they are.
LEMMA CallMoves ==
    ASSUME NEW rs, NEW d, Call(rs, d), d.pc \in Busy,
           NEW n, Record(n), n.file = d.file, n.i = d.i, n.out = d.out,
           n.pc \in {"flight", "wait", "again", "run"},
           n.pc = "wait" => n.got = d.file[d.i].ref, n.pc = "run" => Of(rs, n.got, d.file[d.i].ref)
    PROVE  Call(rs, n)
<1>1. d.file \in Files /\ d.i \in DOMAIN d.file /\ Has(rs, d)
  BY DEF Call
<1>2. Has(rs, n)
  BY <1>1 DEF Has
<1>3. QED
  BY <1>1, <1>2 DEF Call, Busy

\* Every step keeps the invariant.
LEMMA HookNext == ASSUME H!HookAssumption, HookInv, [H!Next]_(H!vars) PROVE HookInv'
<1>1. CASE \E c \in Caller : H!ResolveFile(c)
  <2>1. PICK c \in Caller, f \in Files :
          caller' = [caller EXCEPT ![c] = H!At(f, 1, {})] /\ UNCHANGED <<cache, flight, runs>>
    BY <1>1, Zenon DEF H!ResolveFile
  <2>2. 1 \in 1 .. Len(f) + 1 /\ 1 .. 1 - 1 = {}
    BY DEF H!HookAssumption
  <2> DEFINE d == H!At(f, 1, {})
  <2>3. Call(runs, d) /\ d.pc \in {"resolve", "resolved"}
    BY <2>2, AtCall, Zenon
  <2> HIDE DEF d
  <2>4. Leads(c, d, flight)
    BY <2>3 DEF Leads
  <2>5. QED
    BY <2>1, <2>3, <2>4, CallStep, Zenon DEF d
<1>2. ASSUME NEW c \in Caller, H!Work(c) PROVE HookInv'
  <2> DEFINE d == caller[c]
             r == H!RefOf(c)
  <2>1. /\ Call(runs, d) /\ Record(d) /\ Leads(c, d, flight) /\ r = d.file[d.i].ref
        /\ d.pc \in Busy => r \in Ref
        /\ \A q \in Ref : cache[q] # None => Of(runs, cache[q].value, q)
        /\ runs \in Seq(Ref) /\ cache = [q \in Ref |-> cache[q]] /\ flight = [q \in Ref |-> flight[q]]
        /\ caller = [b \in Caller |-> caller[b]]
    BY Zenon DEF HookInv, Call, H!HookAssumption, H!RefOf, H!Entry
  <2> HIDE DEF r
  <2>2. CASE H!CacheHit(c)
    <3>1. d.pc \in Busy /\ cache[r] # None /\ H!Resolved(c, cache[r].value) /\ UNCHANGED <<cache, flight, runs>>
      BY <2>2 DEF H!CacheHit, H!Cached, Busy, r
    <3>2. Of(runs, cache[r].value, H!RefOf(c))
      BY <2>1, <3>1, Zenon DEF r
    <3>3. QED
      BY <3>1, <3>2, ResolvedStep
  <2>3. ASSUME NEW x \in {"flight", "wait", "again"}, NEW y, x = "wait" => y = r, d.pc \in Busy,
               caller' = [caller EXCEPT ![c] = [d EXCEPT !.pc = x, !.got = y]],
               UNCHANGED <<cache, flight, runs>>, x # "again"
        PROVE  HookInv'
    <3> DEFINE n == [d EXCEPT !.pc = x, !.got = y]
    <3>1. Record(n) /\ n.file = d.file /\ n.i = d.i /\ n.out = d.out /\ n.pc = x /\ n.got = y
      <4> HIDE DEF d
      <4>1. QED
        BY <2>1, Zenon DEF Record
    <3> HIDE DEF n, d
    <3>2. Call(runs, n)
      BY <2>1, <2>3, <3>1, CallMoves
    <3>3. Leads(c, n, flight)
      BY <2>3, <3>1 DEF Leads
    <3>4. QED
      BY <2>3, <3>2, <3>3, CallStep, Zenon DEF n
  <2>4. CASE H!CacheMiss(c)
    <3>1. caller' = [caller EXCEPT ![c] = [d EXCEPT !.pc = "flight", !.got = d.got]]
      <4>1. [d EXCEPT !.pc = "flight"] = [d EXCEPT !.pc = "flight", !.got = d.got]
        <5> HIDE DEF d
        <5>1. QED
          BY <2>1, Zenon DEF Record
      <4>2. caller' = [caller EXCEPT ![c] = [d EXCEPT !.pc = "flight"]]
        BY <2>4 DEF H!CacheMiss
      <4>3. QED
        BY <4>1, <4>2, Zenon
    <3>2. d.pc \in Busy /\ UNCHANGED <<cache, flight, runs>>
      BY <2>4 DEF H!CacheMiss, Busy
    <3>3. QED
      BY <2>3, <3>1, <3>2, Zenon
  <2>5. CASE H!Join(c)
    <3>1. caller' = [caller EXCEPT ![c] = [d EXCEPT !.pc = "wait", !.got = r]]
      BY <2>1, <2>5, Zenon DEF H!Join, r
    <3>2. d.pc \in Busy /\ UNCHANGED <<cache, flight, runs>>
      BY <2>5, ZenonT(30) DEF H!Join, Busy
    <3>3. QED
      BY <2>3, <3>1, <3>2, Zenon
  <2>6. CASE H!Lead(c)
    <3> DEFINE n == [d EXCEPT !.pc = "again"]
    <3>1. /\ d.pc \in Busy /\ r \in Ref /\ flight[r] = None /\ flight' = [flight EXCEPT ![r] = c]
          /\ caller' = [caller EXCEPT ![c] = n] /\ UNCHANGED <<cache, runs>>
      BY <2>1, <2>6 DEF H!Lead, Busy, r
    <3>2. Record(n) /\ n.file = d.file /\ n.i = d.i /\ n.out = d.out /\ n.pc = "again"
      <4> HIDE DEF d
      <4>1. QED
        BY <2>1 DEF Record
    <3> HIDE DEF n, d
    <3>3. Call(runs, n) /\ n.pc = "again" /\ n.file[n.i].ref = r
      BY <2>1, <3>1, <3>2, CallMoves
    <3>4. flight' = [q \in Ref |-> flight'[q]] /\ flight'[r] = c /\ \A q \in Ref : q # r => flight'[q] = flight[q]
      BY <2>1, <3>1
    <3>5. /\ caller' = [b \in Caller |-> caller'[b]] /\ caller'[c] = n
          /\ \A b \in Caller : b # c => caller'[b] = caller[b]
      BY <2>1, <3>1, Zenon
    <3>6. ASSUME NEW b \in Caller, b # c PROVE Call(runs, caller[b]) /\ Leads(b, caller[b], flight')
      <4>1. Call(runs, caller[b]) /\ Leads(b, caller[b], flight)
        BY DEF HookInv
      <4>2. ASSUME caller[b].pc \in {"again", "run"} PROVE flight'[caller[b].file[caller[b].i].ref] = b
        <5>1. caller[b].file[caller[b].i].ref \in Ref
          BY <4>1, <4>2 DEF Call, Busy, H!HookAssumption
        <5>2. flight[caller[b].file[caller[b].i].ref] = b
          BY <4>1, <4>2 DEF Leads
        <5>3. caller[b].file[caller[b].i].ref # r
          BY <3>1, <5>2 DEF H!HookAssumption
        <5>4. QED
          BY <3>4, <5>1, <5>2, <5>3
      <4>3. QED
        BY <4>1, <4>2 DEF Leads
    <3>7. Leads(c, n, flight')
      BY <3>3, <3>4 DEF Leads
    <3>8. \A b \in Caller : Call(runs, caller'[b]) /\ Leads(b, caller'[b], flight')
      BY <3>3, <3>5, <3>6, <3>7
    <3>9. QED
      BY <2>1, <3>1, <3>4, <3>5, <3>8 DEF HookInv
  <2>7. CASE H!AgainHit(c)
    <3>1. /\ caller[c].pc = "again" /\ cache[r] # None /\ H!Land(c, cache[r].value)
          /\ UNCHANGED <<cache, runs>> /\ r \in Ref
      BY <2>1, <2>7, ZenonT(30) DEF H!AgainHit, H!Cached, Busy, r
    <3>2. Of(runs, cache[r].value, H!RefOf(c))
      BY <2>1, <3>1, ZenonT(30) DEF r
    <3>3. QED
      BY <2>1, <3>1, <3>2, LandStep, ZenonT(30)
  <2>8. CASE H!Run(c)
    <3> DEFINE rs == Append(runs, r)
               n == [d EXCEPT !.pc = "run", !.got = Len(rs)]
    <3>1. /\ d.pc = "again" /\ r \in Ref /\ runs' = rs /\ caller' = [caller EXCEPT ![c] = n]
          /\ UNCHANGED <<cache, flight>>
      BY <2>1, <2>8, ZenonT(30) DEF H!Run, Busy, r
    <3>2. rs \in Seq(Ref) /\ Len(rs) \in DOMAIN rs /\ rs[Len(rs)] = r /\ \A k \in DOMAIN runs : k \in DOMAIN rs /\ rs[k] = runs[k]
      BY <2>1, <3>1
    <3>3. \A b \in Caller : Call(rs, caller[b]) /\ Leads(b, caller[b], flight)
      BY <2>1, <3>1, CallLater DEF HookInv
    <3> HIDE DEF rs
    <3>4. Call(rs, n) /\ n.pc = "run" /\ n.file[n.i].ref = r
      <4>1. Record(n) /\ n.file = d.file /\ n.i = d.i /\ n.out = d.out /\ n.pc = "run" /\ n.got = Len(rs)
        <5> HIDE DEF d
        <5>1. QED
          BY <2>1, Zenon DEF Record
      <4>2. Call(rs, d) /\ d.pc \in Busy /\ Of(rs, Len(rs), d.file[d.i].ref)
        BY <2>1, <3>1, <3>2, <3>3 DEF Of, Busy
      <4> HIDE DEF d, n
      <4>3. QED
        BY <2>1, <4>1, <4>2, CallMoves
    <3> HIDE DEF n
    <3>5. Leads(c, n, flight)
      BY <2>1, <3>1, <3>4 DEF Leads
    <3>6. /\ caller' = [b \in Caller |-> caller'[b]] /\ caller'[c] = n
          /\ \A b \in Caller : b # c => caller'[b] = caller[b]
      BY <2>1, <3>1
    <3>7. \A b \in Caller : Call(rs, caller'[b]) /\ Leads(b, caller'[b], flight)
      BY <3>3, <3>4, <3>5, <3>6
    <3>8. \A q \in Ref : cache[q] # None => Of(rs, cache[q].value, q)
      BY <2>1, <3>2 DEF Of
    <3>9. QED
      BY <2>1, <3>1, <3>2, <3>6, <3>7, <3>8 DEF HookInv
  <2>9. CASE H!RunReturns(c)
    <3> DEFINE v == d.got
    <3>1. d.pc = "run" /\ H!Land(c, v) /\ runs' = runs /\ r \in Ref /\ Of(runs, v, r)
      BY <2>1, <2>9 DEF H!RunReturns, Busy, Call
    <3>2. \/ cache' = cache
          \/ \E t : cache' = [cache EXCEPT ![r] = [value |-> v, expires |-> t]]
      BY <2>9, Zenon DEF H!RunReturns, r
    <3>3. /\ cache' = [q \in Ref |-> cache'[q]]
          /\ \A q \in Ref : cache'[q] # None => Of(runs, cache'[q].value, q)
      <4> HIDE DEF d, v
      <4>1. CASE cache' = cache
        BY <2>1, <4>1
      <4>2. ASSUME NEW t, cache' = [cache EXCEPT ![r] = [value |-> v, expires |-> t]]
            PROVE  /\ cache' = [q \in Ref |-> cache'[q]]
                   /\ \A q \in Ref : cache'[q] # None => Of(runs, cache'[q].value, q)
        <5> DEFINE e == [value |-> v, expires |-> t]
        <5>1. e.value = v
          OBVIOUS
        <5> HIDE DEF e
        <5>2. cache' = [cache EXCEPT ![r] = e]
          BY <4>2 DEF e
        <5>3. cache' = [q \in Ref |-> cache'[q]] /\ cache'[r] = e /\ \A q \in Ref : q # r => cache'[q] = cache[q]
          BY <2>1, <3>1, <5>2
        <5>4. QED
          BY <2>1, <3>1, <5>1, <5>3
      <4>3. QED
        BY <3>2, <4>1, <4>2
    <3>4. QED
      BY <3>1, <3>3, LandStep DEF r
  <2>10. CASE H!RunFails(c)
    <3>1. caller[c].pc = "run" /\ H!Land(c, None) /\ UNCHANGED <<cache, runs>>
      BY <2>10 DEF H!RunFails
    <3>2. QED
      BY <2>1, <3>1, LandStep
  <2>11. CASE H!Landed(c)
    <3>1. d.pc = "landed" /\ H!Resolved(c, d.got) /\ UNCHANGED <<cache, flight, runs>>
      BY <2>11 DEF H!Landed
    <3>2. d.got = None \/ Of(runs, d.got, H!RefOf(c))
      BY <2>1, <3>1 DEF Call, r
    <3>3. d.pc \in Busy
      BY <3>1 DEF Busy
    <3>4. QED
      BY <3>1, <3>2, <3>3, ResolvedStep
  <2>12. CASE H!Return(c)
    <3>1. caller' = [caller EXCEPT ![c] = H!Idle] /\ UNCHANGED <<cache, flight, runs>>
      BY <2>12 DEF H!Return
    <3>2. Call(runs, H!Idle) /\ Leads(c, H!Idle, flight)
      BY Zenon DEF Call, Record, H!Idle, Busy, Leads
    <3>3. QED
      BY <3>1, <3>2, CallStep, Zenon
  <2>13. QED
    BY <1>2, <2>2, <2>4, <2>5, <2>6, <2>7, <2>8, <2>9, <2>10, <2>11, <2>12 DEF H!Work
<1>3. CASE H!Tick \/ UNCHANGED H!vars
  BY <1>3, ZenonT(30) DEF H!Tick, H!vars, HookInv
<1>4. QED
  BY <1>1, <1>2, <1>3 DEF H!Next

\* The invariant holds of any number of concurrent calls.
THEOREM HookInvariance == ASSUME H!HookAssumption PROVE H!Spec => []HookInv
  BY HookInit, HookNext, PTL DEF H!Spec

\* ResolveFile returns a value for every name of its file or for none, and each is one the
\* hook printed for that name's own reference, whichever cache entries and flights it shares.
THEOREM FilesAreResolvedWhole ==
    ASSUME H!HookAssumption PROVE H!Spec => [](H!AllOrNothing /\ H!ValuesOfTheirReference)
<1>1. ASSUME HookInv, NEW c \in Caller PROVE Call(runs, caller[c])
  BY <1>1, Zenon DEF HookInv
<1>2. HookInv => H!AllOrNothing
  <2> SUFFICES ASSUME HookInv, NEW c \in Caller, caller[c].pc = "resolved"
               PROVE  {e[1] : e \in caller[c].out} = {caller[c].file[k].name : k \in DOMAIN caller[c].file}
    BY ZenonT(30) DEF H!AllOrNothing
  <2> DEFINE d == caller[c]
  <2>1. d.file \in Files /\ d.i = Len(d.file) + 1 /\ Has(runs, d)
    BY <1>1 DEF Call
  <2>2. 1 .. d.i - 1 = DOMAIN d.file
    BY <2>1 DEF H!HookAssumption
  <2> HIDE DEF d
  <2>3. {e[1] : e \in d.out} = {d.file[k].name : k \in DOMAIN d.file}
    <3>1. \A e \in d.out : \E k \in DOMAIN d.file : e[1] = d.file[k].name
      BY <2>1, <2>2, Zenon DEF Has
    <3>2. \A k \in DOMAIN d.file : \E e \in d.out : e[1] = d.file[k].name
      BY <2>1, <2>2, ZenonT(30) DEF Has
    <3>3. QED
      BY <3>1, <3>2
  <2>4. QED
    BY <2>3, Zenon DEF d
<1>3. HookInv => H!ValuesOfTheirReference
  <2> SUFFICES ASSUME HookInv, NEW c \in Caller, NEW e \in caller[c].out
               PROVE  \E k \in DOMAIN caller[c].file :
                        caller[c].file[k].name = e[1] /\ caller[c].file[k].ref = runs[e[2]]
    BY DEF H!ValuesOfTheirReference
  <2> DEFINE d == caller[c]
  <2>1. /\ d.file \in Files /\ Has(runs, d) /\ (d.i \in DOMAIN d.file \/ d.i = Len(d.file) + 1)
    BY <1>1 DEF Call
  <2>2. \A k \in 1 .. d.i - 1 : k \in DOMAIN d.file
    BY <2>1 DEF H!HookAssumption
  <2> HIDE DEF d
  <2>3. \E k \in DOMAIN d.file : d.file[k].name = e[1] /\ d.file[k].ref = runs[e[2]]
    BY <2>1, <2>2 DEF Has, Of, d
  <2>4. QED
    BY <2>3 DEF d
<1>4. QED
  BY <1>2, <1>3, HookInvariance, PTL

\* The hook is never executed for a reference whose value is cached and still valid, nor twice
\* at the same time for one reference.
THEOREM HookIsNotRunAgain == ASSUME H!HookAssumption PROVE H!Spec => H!NotRunAgain
<1> DEFINE Once == \A r \in Ref : Len(runs') > Len(runs) /\ runs'[Len(runs')] = r =>
                     ~ H!Cached(r) /\ ~ \E c \in Caller : caller[c].pc = "run" /\ H!RefOf(c) = r
<1>1. ASSUME HookInv, [H!Next]_(H!vars) PROVE [Once]_(H!vars)
  <2> SUFFICES ASSUME NEW r \in Ref, Len(runs') > Len(runs), runs'[Len(runs')] = r
               PROVE  ~ H!Cached(r) /\ ~ \E c \in Caller : caller[c].pc = "run" /\ H!RefOf(c) = r
    BY <1>1
  <2>1. runs' # runs
    BY <1>1 DEF HookInv
  <2>2. PICK c \in Caller : H!Run(c)
    <3>1. PICK c \in Caller : H!ResolveFile(c) \/ H!Work(c)
      BY <1>1, <2>1 DEF H!Next, H!Tick, H!vars
    <3>2. H!Run(c)
      BY <2>1, <3>1 DEF H!ResolveFile, H!Work, H!CacheHit, H!CacheMiss, H!Lead, H!Join, H!AgainHit,
                        H!RunReturns, H!RunFails, H!Landed, H!Return
    <3>3. QED
      BY <3>2
  <2>3. runs' = Append(runs, H!RefOf(c)) /\ H!RefOf(c) \in Ref /\ ~ H!Cached(H!RefOf(c)) /\ caller[c].pc = "again"
    <3>1. caller[c].pc = "again" /\ runs' = Append(runs, H!RefOf(c)) /\ ~ H!Cached(H!RefOf(c))
      BY <2>2 DEF H!Run
    <3>2. Call(runs, caller[c])
      BY <1>1, ZenonT(30) DEF HookInv
    <3>3. caller[c].file \in Files /\ caller[c].i \in DOMAIN caller[c].file
      BY <3>1, <3>2 DEF Call, Busy
    <3>4. H!RefOf(c) \in Ref
      BY <3>3 DEF H!HookAssumption, H!RefOf, H!Entry
    <3>5. QED
      BY <3>1, <3>4
  <2>4. H!RefOf(c) = r
    BY <1>1, <2>3 DEF HookInv
  <2>5. ASSUME NEW b \in Caller, caller[b].pc = "run", H!RefOf(b) = r PROVE FALSE
    BY <1>1, <2>3, <2>4, <2>5 DEF HookInv, Leads, H!RefOf, H!Entry
  <2>6. QED
    BY <2>3, <2>4, <2>5
<1>2. QED
  BY <1>1, HookInvariance, PTL DEF H!Spec, H!NotRunAgain

-----------------------------------------------------------------------
(* What the library's theorems are used for, and the commands' theorems.   *)

INSTANCE FiniteSetTheorems
INSTANCE WellFoundedInduction

\* Induction over the naturals, by way of a least number outside.
LEMMA SetInduction ==
    ASSUME NEW S, S \subseteq Nat, 0 \in S, \A n \in S : n + 1 \in S
    PROVE  S = Nat
<1> SUFFICES ASSUME Nat \ S # {} PROVE FALSE
  BY Zenon
<1> DEFINE Rest == Nat \ S
<1>1. Rest \subseteq Nat /\ Rest # {}
  OBVIOUS
<1> HIDE DEF Rest
<1>2. PICK x \in Rest : \A y \in Rest : <<y, x>> \notin OpToRel(<, Nat)
  BY ONLY <1>1, NatLessThanWellFounded, WFMin, ZenonT(30)
<1>3. x \in Nat /\ x # 0 /\ x - 1 \in Nat /\ x - 1 < x
  BY DEF Rest
<1>4. x - 1 \in S
  <2>1. <<x - 1, x>> \in OpToRel(<, Nat)
    BY <1>3 DEF OpToRel
  <2>2. QED
    BY <1>2, <1>3, <2>1, ZenonT(30) DEF Rest
<1>5. QED
  BY <1>3, <1>4 DEF Rest

\* As many different elements of a finite set as it has are all of them.
LEMMA AllOfThem ==
    ASSUME NEW m, IsFiniteSet(m), NEW t \in [1 .. Cardinality(m) -> m],
           \A i, j \in DOMAIN t : t[i] = t[j] => i = j
    PROVE  \A e \in m : \E i \in 1 .. Cardinality(m) : t[i] = e
<1> DEFINE n == Cardinality(m)
<1>1. n \in Nat
  BY FS_CardinalityType, ZenonT(30)
<1>2. t \in Injection(1 .. n, m)
  BY Zenon DEF Injection, IsInjective
<1>3. IsFiniteSet(1 .. n) /\ Cardinality(1 .. n) = n
  <2> HIDE DEF n
  <2>1. 1 \in Int /\ n \in Int
    BY <1>1
  <2>2. IsFiniteSet(1 .. n) /\ Cardinality(1 .. n) = IF 1 > n THEN 0 ELSE n - 1 + 1
    BY ONLY <2>1, FS_Interval, ZenonT(30)
  <2>3. QED
    BY <1>1, <2>2
<1>4. t \in Surjection(1 .. n, m)
  BY <1>1, <1>2, <1>3, FS_Injection, ZenonT(30)
<1>5. QED
  BY <1>1, <1>4, ZenonT(30) DEF Surjection

\* The library says so.
LEMMA LibraryHolds == LibraryFacts
<1>1. \A S : IsFiniteSet(S) => \A T \in SUBSET S : IsFiniteSet(T)
  BY FS_Subset, Zenon
<1>2. \A S, T : IsFiniteSet(S) /\ IsFiniteSet(T) => IsFiniteSet(S \cup T)
  BY FS_Union, Zenon
<1>3. \A S : IsFiniteSet(S) => Cardinality(S) \in Nat
  BY FS_CardinalityType, ZenonT(30)
<1>4. IsFiniteSet({})
  BY FS_EmptySet, ZenonT(30)
<1>5. \A S \in SUBSET Nat : 0 \in S /\ (\A n \in S : n + 1 \in S) => S = Nat
  BY SetInduction, ZenonT(30)
<1>6. QED
  BY <1>1, <1>2, <1>3, <1>4, <1>5, AllOfThem, ZenonT(30) DEF LibraryFacts

\* The invariant holds of every command.
THEOREM EnvInvariance == ASSUME CommandAssumption PROVE EnvSpec => []EnvInv
<1>1. EnvInit => EnvInv
  BY EnvInitInv, LibraryHolds, ZenonT(30)
<1>2. EnvInv /\ [EnvNext]_envVars => EnvInv'
  BY EnvNextInv, LibraryHolds, ZenonT(30)
<1>3. QED
  BY <1>1, <1>2, PTL DEF EnvSpec

\* Without --strict env exits with 0 whatever the broker does; a variable comes from the last
\* route, in the order asked, that serves it; with --strict a zero exit means every selected
\* route was fetched, and a failure leaves nothing; and the child has each fetched variable
\* once and its others as they were (CommandOutput).
THEOREM CommandsLeaveTheirOutput == ASSUME CommandAssumption PROVE EnvSpec => []CommandOutput
<1>1. EnvInv => CommandOutput
  BY EnvInvOutput
<1>2. QED
  BY <1>1, EnvInvariance, PTL
==========================================================================
