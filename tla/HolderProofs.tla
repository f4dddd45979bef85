---------------------------- MODULE HolderProofs ----------------------------
(***************************************************************************)
(* Proofs about the holder's registry, its input queue, its socket and its *)
(* wire format.  The registry: for every set of ids, launches and ring     *)
(* sizes, and any memory cap.  The queue: for any connections, sizes of    *)
(* inputs and cap.  The socket: for every finite set of holders and any    *)
(* number of crashes and removals.  The wire: for every value of a         *)
(* message's fields.                                                       *)
(***************************************************************************)
EXTENDS HolderRegistry, HolderInput, HolderSocket, Wire, FiniteSetTheorems,
        SequenceTheorems, TLAPS

-----------------------------------------------------------------------------
(***************************************************************************)
(* Totals.                                                                 *)
(***************************************************************************)
(* n units of one owner.                                                   *)
LEMMA UnitsOfOne ==
  ASSUME NEW x, NEW n \in Nat
  PROVE  IsFiniteSet({x} \X (1 .. n)) /\ Cardinality({x} \X (1 .. n)) = n
<1>1. IsFiniteSet({x}) /\ Cardinality({x}) = 1
  BY FS_Singleton
<1>2. IsFiniteSet(1 .. n) /\ Cardinality(1 .. n) = n
  BY FS_Interval
<1>3. /\ IsFiniteSet({x} \X (1 .. n))
      /\ Cardinality({x} \X (1 .. n)) = Cardinality({x}) * Cardinality(1 .. n)
  BY <1>1, <1>2, FS_Product
<1> QED BY <1>1, <1>2, <1>3

(* Nobody's units.                                                         *)
LEMMA TotalNone == ASSUME NEW f, DOMAIN f = {} PROVE Total(f) = 0 /\ IsFiniteSet(Units(f))
BY FS_EmptySet DEF Total, Units

(* One more owner adds its units, and one less takes them away.            *)
LEMMA TotalAdd ==
  ASSUME NEW f, NEW x, NEW g, x \notin DOMAIN f, DOMAIN g = DOMAIN f \cup {x},
         \A y \in DOMAIN f : g[y] = f[y], g[x] \in Nat,
         IsFiniteSet(Units(f)) \/ IsFiniteSet(Units(g))
  PROVE  /\ IsFiniteSet(Units(f)) /\ IsFiniteSet(Units(g))
         /\ Total(f) \in Nat /\ Total(g) = Total(f) + g[x]
<1> DEFINE U == {x} \X (1 .. g[x])
<1>1. Units(g) = Units(f) \cup U
  <2>1. ASSUME NEW u, u \in Units(g) PROVE u \in Units(f) \cup U
    BY <2>1 DEF Units
  <2>2. ASSUME NEW u, u \in Units(f) \cup U PROVE u \in Units(g)
    BY <2>2 DEF Units
  <2> QED BY <2>1, <2>2
<1>2. Units(f) \cap U = {}
  BY DEF Units
<1>3. IsFiniteSet(U) /\ Cardinality(U) = g[x]
  BY UnitsOfOne
<1> HIDE DEF U
<1>4. IsFiniteSet(Units(f)) /\ Units(f) \subseteq Units(g)
  <2>1. Units(f) \subseteq Units(g)
    BY <1>1
  <2> QED BY <2>1, FS_Subset
<1>5. /\ IsFiniteSet(Units(f) \cup U)
      /\ Cardinality(Units(f) \cup U) =
           Cardinality(Units(f)) + Cardinality(U) - Cardinality(Units(f) \cap U)
  BY <1>3, <1>4, FS_Union
<1>6. Cardinality(Units(f)) \in Nat /\ Cardinality(Units(f) \cap U) = 0
  BY <1>2, <1>4, FS_CardinalityType, FS_EmptySet
<1> QED BY <1>1, <1>3, <1>4, <1>5, <1>6 DEF Total

(* Renumbering changes no total: the units of 2 .. n + 1 are those of 1 .. n. *)
LEMMA TotalShift ==
  ASSUME NEW f, NEW g, NEW n \in Nat, DOMAIN f = 2 .. n + 1, DOMAIN g = 1 .. n,
         \A i \in 1 .. n : g[i] = f[i + 1], IsFiniteSet(Units(f))
  PROVE  IsFiniteSet(Units(g)) /\ Total(g) = Total(f)
<1> DEFINE b == [u \in Units(f) |-> <<u[1] - 1, u[2]>>]
<1>1. \A u : u \in Units(f) <=> \E i \in 2 .. n + 1 : \E k \in 1 .. f[i] : u = <<i, k>>
  BY DEF Units
<1>2. \A u : u \in Units(g) <=> \E i \in 1 .. n : \E k \in 1 .. g[i] : u = <<i, k>>
  BY DEF Units
<1>3. b \in [Units(f) -> Units(g)]
  BY <1>1, <1>2
<1>4. \A u, v \in Units(f) : b[u] = b[v] => u = v
  BY <1>1
<1>5. \A v \in Units(g) : \E u \in Units(f) : b[u] = v
  <2> SUFFICES ASSUME NEW v \in Units(g) PROVE \E u \in Units(f) : b[u] = v
    OBVIOUS
  <2> PICK i \in 1 .. n : \E k \in 1 .. g[i] : v = <<i, k>>
    BY <1>2
  <2> PICK k \in 1 .. g[i] : v = <<i, k>>
    OBVIOUS
  <2>1. <<i + 1, k>> \in Units(f)
    BY <1>1
  <2>2. b[<<i + 1, k>>] = <<i, k>>
    BY <2>1
  <2> QED BY <2>1, <2>2
<1> HIDE DEF b
<1>6. b \in Bijection(Units(f), Units(g))
  BY <1>3, <1>4, <1>5 DEF Bijection, Injection, Surjection, IsInjective
<1> QED BY <1>6, FS_Bijection DEF ExistsBijection, Total

-----------------------------------------------------------------------------
(***************************************************************************)
(* The registry.                                                           *)
(***************************************************************************)
(* What admit collected is a registered tombstone until it is evicted,     *)
(* whatever children exit meanwhile; only a create in admit has victims.   *)
Condemned ==
  /\ victims \subseteq Ids
  /\ \A id \in victims : Tombstone(id)
  /\ stage # "admit" => victims = {}

Sound == TypeOK /\ Condemned

(***************************************************************************)
(* Every step keeps types and Condemned; they need each other, as the      *)
(* refund of an eviction is a capacity only if the victim is registered.   *)
(***************************************************************************)
LEMMA SoundStep == Sound /\ [Next]_vars => Sound'
<1> SUFFICES ASSUME Sound, [Next]_vars PROVE Sound'
  OBVIOUS
<1> USE RegistryAssumption
<1> USE DEF Sound, TypeOK, Condemned, Unlocked
<1>1. ASSUME NEW id \in Ids, NEW l \in Launches, CreateExisting(id, l)
      PROVE  Sound'
  BY <1>1 DEF CreateExisting, Touch, createVars, sessionVars, childVars,
     Tombstone, Registered
<1>2. ASSUME NEW id \in Ids, NEW l \in Launches, NEW need \in Capacities,
             CreateNew(id, l, need)
      PROVE  Sound'
  <2> USE DEF CreateNew, sessionVars, childVars
  <2>1. need \in Nat
    BY <1>2
  <2>2. request' \in IF Unlocked' THEN {None} ELSE Request
    BY <1>2 DEF Request
  <2>3. used' \in Nat /\ stage' \in Stages
    BY <1>2, <2>1 DEF Reserve, Stages
  <2>4. /\ victims' \subseteq Ids
        /\ \A old \in victims' : Tombstone(old)
        /\ victims' = {} \/ stage' = "admit"
    <3>1. CASE Fits(need)
      BY <1>2, <3>1
    <3>2. CASE ~Fits(need)
      BY <1>2, <3>2
    <3> QED
      BY <3>1, <3>2
  <2>5. \A old \in Ids : Tombstone(old)' <=> Tombstone(old)
    BY <1>2 DEF Tombstone, Registered
  <2>6. Condemned'
    BY <2>4, <2>5
  <2>7. TypeOK'
    BY <1>2, <2>2, <2>3, <2>6
  <2> QED
    BY <2>6, <2>7
<1>3. ASSUME NEW id \in Ids, AdmitEvict(id) PROVE Sound'
  <2> USE DEF AdmitEvict, RemoveSession, sessionVars, childVars
  <2>1. sessions[id] \in Sessions
    BY <1>3 DEF Tombstone, Registered
  <2>2. used' \in Nat
    <3>1. capacity[sessions[id]] \in Nat
      BY <2>1
    <3> QED
      BY <1>3, <3>1
  <2>3. /\ sessions' \in [Ids -> Sessions \cup {None}]
        /\ access' \in [Ids -> Nat]
    BY <1>3
  <2>4. TypeOK'
    BY <1>3, <2>2, <2>3
  <2>5. \A old \in victims \ {id} : sessions'[old] = sessions[old]
    BY <1>3
  <2>6. Condemned'
    BY <1>3, <2>5 DEF Tombstone, Registered
  <2> QED
    BY <2>4, <2>6
<1>4. CASE AdmitFits \/ AdmitRefused
  <2>1. stage = "admit"
    BY <1>4 DEF AdmitFits, AdmitRefused
  <2>2. request \in Request
    BY <2>1
  <2>3. request.need \in Nat
    BY <2>2 DEF Request
  <2> QED
    BY <1>4, <2>2, <2>3 DEF AdmitFits, AdmitRefused, Reserve, Unlock, Stages,
       registryVars, sessionVars, childVars
<1>5. ASSUME stage = "spawn"
      PROVE  /\ request.id \in Ids /\ request.launch \in Launches
             /\ request.need \in Nat
  BY <1>5 DEF Request
<1>6. ASSUME NEW x \in Sessions, NEW fate \in {"alive", "stray"},
             stage = "spawn", Born(x, fate)
      PROVE  /\ state' \in [Sessions -> States]
             /\ name' \in [Sessions -> Ids \cup {None}]
             /\ launch' \in [Sessions -> Launches \cup {None}]
             /\ capacity' \in [Sessions -> Nat]
  BY <1>5, <1>6 DEF Born, States
<1>7. ASSUME NEW x \in Sessions, Spawned(x) PROVE Sound'
  <2>1. stage = "spawn" /\ Born(x, "alive") /\ victims' = {}
    BY <1>7 DEF Spawned, Unlock
  <2>2. TypeOK'
    BY <1>5, <1>6, <1>7, <2>1 DEF Spawned, Touch, Unlock, Stages
  <2> QED
    BY <2>1, <2>2
<1>8. CASE SpawnFailed
  <2>1. stage = "spawn" /\ victims' = {}
    BY <1>8 DEF SpawnFailed, Unlock
  <2>2. used' \in Nat
    BY <1>5, <1>8, <2>1 DEF SpawnFailed
  <2>3. /\ state' \in [Sessions -> States]
        /\ name' \in [Sessions -> Ids \cup {None}]
        /\ launch' \in [Sessions -> Launches \cup {None}]
        /\ capacity' \in [Sessions -> Nat]
    BY <1>6, <1>8, <2>1 DEF SpawnFailed, sessionVars, childVars
  <2>5. refused' \subseteq Ids
    BY <1>5, <1>8, <2>1 DEF SpawnFailed
  <2>4. TypeOK'
    BY <1>8, <2>1, <2>2, <2>3, <2>5 DEF SpawnFailed, Unlock, Stages
  <2> QED
    BY <2>1, <2>4
<1>9. ASSUME NEW id \in Ids, Get(id) PROVE Sound'
  BY <1>9 DEF Get, Touch, Registered, Tombstone, createVars,
     sessionVars, childVars
<1>10. ASSUME NEW id \in Ids, Purge(id) PROVE Sound'
  <2>1. sessions[id] \in Sessions /\ victims = {}
    BY <1>10 DEF Purge, Tombstone, Registered
  <2>2. used' \in Nat
    <3>1. capacity[sessions[id]] \in Nat
      BY <2>1
    <3> QED
      BY <1>10, <3>1 DEF Purge, RemoveSession
  <2> QED
    BY <1>10, <2>1, <2>2 DEF Purge, RemoveSession, createVars, sessionVars, childVars
<1>11. ASSUME NEW x \in Sessions, Exit(x) PROVE Sound'
  <2>1. state' \in [Sessions -> States]
    BY <1>11 DEF Exit, States
  <2> QED
    BY <1>11, <2>1 DEF Exit, Registered, Tombstone, registryVars, createVars
<1>12. CASE UNCHANGED vars
  BY <1>12 DEF vars, registryVars, createVars, sessionVars, childVars,
     Registered, Tombstone
<1> QED
  BY <1>1, <1>2, <1>3, <1>4, <1>7, <1>8, <1>9, <1>10, <1>11, <1>12
     DEF Next, Create

(***************************************************************************)
(* Every state is well typed and an eviction in progress concerns          *)
(* tombstones only.                                                        *)
(***************************************************************************)
LEMMA SoundAlways == Spec => []Sound
<1>1. Init => Sound
  BY RegistryAssumption DEF Init, Sound, TypeOK, Condemned, Unlocked, Stages,
     States
<1> QED
  BY <1>1, SoundStep, PTL DEF Spec

(***************************************************************************)
(* Type correctness; that a refund never takes the bytes in use below zero *)
(* is part of it.                                                          *)
(***************************************************************************)
THEOREM RegistryTypes == Spec => []TypeOK
<1>1. Sound => TypeOK
  BY DEF Sound
<1> QED
  BY <1>1, SoundAlways, PTL

-----------------------------------------------------------------------------
(* A registered object bears the id it is registered under and was born; a *)
(* create in progress holds an id that is not registered.                  *)
Named ==
  \A id \in Ids : Registered(id) =>
    name[sessions[id]] = id /\ state[sessions[id]] # "unborn"
Pending == stage # "unlocked" => ~Registered(request.id)

Reach == Named /\ Pending /\ LiveReachable

(***************************************************************************)
(* A step that leaves the sessions and the registrations alone keeps       *)
(* Reach, if it holds the mutex for an unregistered id only.               *)
(***************************************************************************)
LEMMA ReachSame ==
  ASSUME Reach, UNCHANGED <<sessions, state, name>>, Pending'
  PROVE  Reach'
BY DEF Reach, Named, LiveReachable, Registered

(***************************************************************************)
(* RemoveSession keeps Reach as long as the one removed is not alive.       *)
(***************************************************************************)
LEMMA ReachRemove ==
  ASSUME Sound, Reach, NEW id \in Ids, Tombstone(id),
         sessions' = [sessions EXCEPT ![id] = None],
         UNCHANGED <<state, name>>, Pending'
  PROVE  Reach'
<1> USE RegistryAssumption DEF Sound, TypeOK
<1>1. Named'
  BY DEF Reach, Named, Registered
<1>2. ASSUME NEW x \in Sessions, state[x] = "alive"
      PROVE  name[x] # id
  BY <1>2 DEF Reach, LiveReachable, Tombstone
<1>3. LiveReachable'
  BY <1>2 DEF Reach, LiveReachable
<1> QED
  BY <1>1, <1>3 DEF Reach

(***************************************************************************)
(* Every step of the registry, or of a child keeps Reach.                  *)
(***************************************************************************)
LEMMA ReachStep == Sound /\ Reach /\ [Next]_vars => Reach'
<1> SUFFICES ASSUME Sound, Reach, [Next]_vars PROVE Reach'
  OBVIOUS
<1> USE RegistryAssumption
<1>1. ASSUME NEW id \in Ids,
             \/ Get(id)
             \/ \E l \in Launches :
                  \/ CreateExisting(id, l)
                  \/ \E need \in Capacities : CreateNew(id, l, need)
      PROVE  Reach'
  <2>1. UNCHANGED <<sessions, state, name>>
    BY <1>1 DEF CreateExisting, Get, CreateNew, sessionVars, childVars
  <2>2. Pending'
    BY <1>1 DEF CreateExisting, Get, CreateNew, createVars,
       Reach, Pending, Registered, Unlocked
  <2> QED
    BY <2>1, <2>2, ReachSame
<1>2. ASSUME NEW id \in Ids, AdmitEvict(id) \/ Purge(id) PROVE Reach'
  <2>1. Tombstone(id) /\ UNCHANGED <<state, name>>
    BY <1>2 DEF AdmitEvict, Purge, Sound, Condemned, sessionVars, childVars
  <2>2. sessions' = [sessions EXCEPT ![id] = None]
    BY <1>2 DEF AdmitEvict, Purge, RemoveSession
  <2>3. UNCHANGED <<stage, request>>
    BY <1>2 DEF AdmitEvict, Purge, createVars
  <2>4. stage = "unlocked" \/ request.id \in Ids
    BY DEF Sound, TypeOK, Unlocked, Request
  <2>5. Pending'
    BY <2>2, <2>3, <2>4 DEF Sound, TypeOK, Reach, Pending, Registered
  <2> QED
    BY <2>1, <2>2, <2>5, ReachRemove
<1>3. CASE AdmitFits \/ AdmitRefused \/ UNCHANGED vars
  <2>1. UNCHANGED <<sessions, state, name>>
    BY <1>3 DEF AdmitFits, AdmitRefused, registryVars, sessionVars, childVars, vars
  <2>2. Pending'
    BY <1>3, <2>1 DEF AdmitFits, AdmitRefused, Unlock, vars, createVars,
       registryVars, Reach, Pending, Registered
  <2> QED
    BY <2>1, <2>2, ReachSame
<1>4. ASSUME NEW x \in Sessions, NEW fate \in {"alive", "stray"},
             stage = "spawn", Born(x, fate)
      PROVE  /\ \A id \in Ids : sessions[id] # x
             /\ request.id \in Ids /\ ~Registered(request.id)
             /\ state' = [state EXCEPT ![x] = fate]
             /\ name' = [name EXCEPT ![x] = request.id]
  BY <1>4 DEF Born, Reach, Named, Pending, Registered, Sound, TypeOK, Unlocked,
     Request
<1>5. ASSUME NEW x \in Sessions, Spawned(x) PROVE Reach'
  <2> DEFINE id == request.id
  <2>1. /\ sessions' = [sessions EXCEPT ![id] = x]
        /\ stage' = "unlocked"
        /\ stage = "spawn" /\ Born(x, "alive")
    BY <1>5 DEF Spawned, Unlock
  <2>2. /\ \A other \in Ids : sessions[other] # x
        /\ id \in Ids /\ sessions[id] = None
        /\ state' = [state EXCEPT ![x] = "alive"]
        /\ name' = [name EXCEPT ![x] = id]
    BY <2>1, <1>4 DEF Registered
  <2> HIDE DEF id
  <2>3. Named'
    BY <2>1, <2>2 DEF Reach, Named, Registered, Sound, TypeOK
  <2>4. LiveReachable'
    BY <2>1, <2>2 DEF Reach, LiveReachable, Sound, TypeOK
  <2> QED
    BY <2>1, <2>3, <2>4 DEF Reach, Pending
<1>6. CASE SpawnFailed
  <2>1. stage' = "unlocked" /\ stage = "spawn" /\ sessions' = sessions
    BY <1>6 DEF SpawnFailed, Unlock
  <2>2. CASE UNCHANGED childVars
    BY <2>1, <2>2, ReachSame DEF childVars, Pending
  <2>3. ASSUME NEW x \in Sessions, Born(x, "stray") PROVE Reach'
    <3>1. /\ \A other \in Ids : sessions[other] # x
          /\ state' = [state EXCEPT ![x] = "stray"]
          /\ name' = [name EXCEPT ![x] = request.id]
      BY <1>4, <2>1, <2>3
    <3>2. Named' /\ LiveReachable'
      BY <2>1, <3>1 DEF Reach, Named, LiveReachable, Registered, Sound, TypeOK
    <3> QED
      BY <2>1, <3>2 DEF Reach, Pending
  <2> QED
    BY <1>6, <2>2, <2>3 DEF SpawnFailed
<1>7. ASSUME NEW x \in Sessions, Exit(x) PROVE Reach'
  <2>1. UNCHANGED <<sessions, name, stage, request>>
    BY <1>7 DEF Exit, registryVars, createVars
  <2>2. state' = [state EXCEPT ![x] = "dead"]
    BY <1>7 DEF Exit
  <2> QED
    BY <2>1, <2>2 DEF Reach, Named, Pending, LiveReachable, Registered, Sound,
       TypeOK
<1> QED
  BY <1>1, <1>2, <1>3, <1>5, <1>6, <1>7 DEF Next, Create

(***************************************************************************)
(* Reach is an invariant of the registry.                                  *)
(***************************************************************************)
LEMMA ReachAlways == Spec => []Reach
<1>1. Init => Reach
  BY RegistryAssumption DEF Init, Reach, Named, Pending, LiveReachable,
     Registered
<1> QED
  BY <1>1, SoundAlways, ReachStep, PTL DEF Spec

(***************************************************************************)
(* A live child whose create succeeded is never evicted nor purged, in any *)
(* interleaving of creates, purges and exits.                              *)
(***************************************************************************)
THEOREM LiveStaysReachable == Spec => []LiveReachable
<1>1. Reach => LiveReachable
  BY DEF Reach
<1> QED
  BY <1>1, ReachAlways, PTL

(***************************************************************************)
(* A child left behind by its create bears an id whose create was refused. *)
(***************************************************************************)
Strays == \A x \in Sessions : state[x] = "stray" => name[x] \in refused

(***************************************************************************)
(* Only a refused create leaves a child behind, and its id is remembered.  *)
(***************************************************************************)
LEMMA StraysStep == Sound /\ Strays /\ [Next]_vars => Strays'
<1> SUFFICES ASSUME Sound, Strays, [Next]_vars PROVE Strays'
  OBVIOUS
<1> USE DEF Sound, TypeOK, Strays
<1>1. ASSUME UNCHANGED <<state, name, refused>> PROVE Strays'
  BY <1>1
<1>2. ASSUME NEW id \in Ids,
             \/ Get(id) \/ Purge(id) \/ AdmitEvict(id)
             \/ \E l \in Launches :
                  \/ CreateExisting(id, l)
                  \/ \E need \in Capacities : CreateNew(id, l, need)
      PROVE  Strays'
  BY <1>1, <1>2 DEF CreateExisting, Get, Purge, AdmitEvict, CreateNew,
     sessionVars, childVars
<1>3. CASE AdmitFits \/ AdmitRefused \/ UNCHANGED vars
  BY <1>1, <1>3 DEF AdmitFits, AdmitRefused, sessionVars, childVars, vars
<1>4. ASSUME NEW x \in Sessions, Spawned(x) PROVE Strays'
  BY <1>4 DEF Spawned, Born
<1>5. CASE SpawnFailed
  <2>1. CASE UNCHANGED childVars
    BY <1>5, <2>1 DEF SpawnFailed, childVars
  <2>2. ASSUME NEW x \in Sessions, Born(x, "stray") PROVE Strays'
    BY <1>5, <2>2 DEF SpawnFailed, Born
  <2> QED
    BY <1>5, <2>1, <2>2 DEF SpawnFailed
<1>6. ASSUME NEW x \in Sessions, Exit(x) PROVE Strays'
  BY <1>6 DEF Exit
<1> QED
  BY <1>2, <1>3, <1>4, <1>5, <1>6 DEF Next, Create

(***************************************************************************)
(* However often create is repeated for an id, a second child of it runs   *)
(* only after a create that was answered with SPAWN_FAILED, and at most    *)
(* one of its running children is registered.                              *)
(***************************************************************************)
THEOREM SingleChild == Spec => []OneChildPerId
<1>1. Init => Strays
  BY DEF Init, Strays
<1>2. Reach /\ Strays => OneChildPerId
  BY DEF Reach, LiveReachable, Strays, OneChildPerId, Running
<1> QED
  BY <1>1, <1>2, StraysStep, SoundAlways, ReachAlways, PTL DEF Spec

-----------------------------------------------------------------------------
(* No access is later than the clock.                                      *)
Recency ==
  /\ RecencyTotal
  /\ \A id \in Ids : Registered(id) => access[id] <= tick

(***************************************************************************)
(* A touch makes an id, registered before or by the same step, the only    *)
(* one with the latest tick.                                               *)
(***************************************************************************)
LEMMA RecencyTouch ==
  ASSUME Sound, Recency, NEW id \in Ids, Touch(id),
         \A other \in Ids \ {id} : sessions'[other] = sessions[other]
  PROVE  Recency'
BY DEF Sound, TypeOK, Recency, RecencyTotal, Touch, Registered

(***************************************************************************)
(* Every step keeps the access ticks apart and at most the clock.          *)
(***************************************************************************)
LEMMA RecencyStep == Sound /\ Recency /\ [Next]_vars => Recency'
<1> SUFFICES ASSUME Sound, Recency, [Next]_vars PROVE Recency'
  OBVIOUS
<1>1. ASSUME NEW id \in Ids,
             \/ Get(id)
             \/ \E l \in Launches : CreateExisting(id, l)
      PROVE  Recency'
  BY <1>1, RecencyTouch DEF Get, CreateExisting
<1>2. ASSUME NEW x \in Sessions, Spawned(x) PROVE Recency'
  <2>1. request.id \in Ids
    BY <1>2 DEF Spawned, Sound, TypeOK, Unlocked, Request
  <2>2. \A other \in Ids \ {request.id} : sessions'[other] = sessions[other]
    BY <1>2 DEF Spawned, Sound, TypeOK
  <2>3. Touch(request.id)
    BY <1>2 DEF Spawned
  <2> QED
    BY <2>1, <2>2, <2>3, RecencyTouch
<1>3. ASSUME NEW id \in Ids, AdmitEvict(id) \/ Purge(id) PROVE Recency'
  <2>1. /\ sessions' = [sessions EXCEPT ![id] = None]
        /\ access' = [access EXCEPT ![id] = 0]
        /\ tick' = tick
    BY <1>3 DEF AdmitEvict, Purge, RemoveSession
  <2> QED
    BY <2>1 DEF Sound, TypeOK, Recency, RecencyTotal, Registered
<1>4. CASE UNCHANGED <<sessions, tick, access>>
  BY <1>4 DEF Recency, RecencyTotal, Registered
<1>5. \/ UNCHANGED <<sessions, tick, access>>
      \/ \E x \in Sessions : Spawned(x)
      \/ \E id \in Ids : \/ Get(id) \/ AdmitEvict(id)
                        \/ Purge(id)
                        \/ \E l \in Launches : CreateExisting(id, l)
  BY DEF Next, Create, CreateNew, AdmitFits, AdmitRefused, SpawnFailed,
     Exit, registryVars, vars
<1> QED
  BY <1>1, <1>2, <1>3, <1>4, <1>5

(***************************************************************************)
(* Registered sessions are totally ordered by their last access, so admit  *)
(* evicts a well-defined least recently used tombstone.                    *)
(***************************************************************************)
THEOREM EvictionOrderTotal == Spec => []RecencyTotal
<1>1. Init => Recency
  BY DEF Init, Recency, RecencyTotal, Registered
<1>2. Recency => RecencyTotal
  BY DEF Recency
<1> QED
  BY <1>1, <1>2, SoundAlways, RecencyStep, PTL DEF Spec

(***************************************************************************)
(* The ring bytes the registry accounts for never exceed the cap.          *)
(***************************************************************************)
THEOREM CapHolds == Spec => []WithinCap
<1>1. Init => WithinCap
  BY RegistryAssumption DEF Init, WithinCap
<1>2. Sound /\ WithinCap /\ [Next]_vars => WithinCap'
  <2> SUFFICES ASSUME Sound, WithinCap, [Next]_vars PROVE WithinCap'
    OBVIOUS
  <2>1. ASSUME NEW id \in Ids, AdmitEvict(id) \/ Purge(id)
        PROVE  used' \in Nat /\ used' <= used
    <3>1. Tombstone(id)
      BY <2>1 DEF AdmitEvict, Purge, Sound, Condemned
    <3>2. capacity[sessions[id]] \in Nat /\ used \in Nat
      BY <3>1 DEF Tombstone, Registered, Sound, TypeOK
    <3> QED
      BY <2>1, <3>2 DEF AdmitEvict, Purge, RemoveSession
  <2>2. CASE SpawnFailed
    <3>1. used \in Nat /\ request.need \in Nat
      BY <2>2, RegistryAssumption DEF SpawnFailed, Sound, TypeOK, Unlocked, Request
    <3> QED
      BY <2>2, <3>1, RegistryAssumption DEF SpawnFailed, WithinCap
  <2>3. ASSUME NEW id \in Ids, NEW l \in Launches, NEW need \in Capacities,
               CreateNew(id, l, need)
        PROVE  WithinCap'
    BY <2>3 DEF CreateNew, Fits, Reserve, WithinCap
  <2>4. CASE AdmitFits
    BY <2>4 DEF AdmitFits, Fits, Reserve, WithinCap
  <2>5. CASE UNCHANGED used
    BY <2>5 DEF WithinCap
  <2>6. \/ UNCHANGED used \/ AdmitFits \/ SpawnFailed
        \/ \E id \in Ids : AdmitEvict(id) \/ Purge(id)
        \/ \E id \in Ids, l \in Launches, need \in Capacities :
              CreateNew(id, l, need)
    BY DEF Next, Create, CreateExisting, AdmitRefused, Spawned, Get,
       Exit, registryVars, vars
  <2> QED
    BY <2>1, <2>2, <2>3, <2>4, <2>5, <2>6, RegistryAssumption
       DEF WithinCap, Sound, TypeOK
<1> QED
  BY <1>1, <1>2, SoundAlways, PTL DEF Spec

(* What the registry counts is what it keeps, ring by ring, and what the   *)
(* create in progress has reserved.                                        *)
Books == IsFiniteSet(Units(Rings)) /\ used = Total(Rings) + Reserved

(* The rings change only with the registrations and the capacities.        *)
LEMMA RingsKept ==
  ASSUME Sound, UNCHANGED sessions, \A x \in Kept : capacity'[x] = capacity[x]
  PROVE  Rings' = Rings
BY DEF Rings, Kept

(* A step of the counter and the reservation together keeps the books.     *)
LEMMA BooksSame ==
  ASSUME Sound, Books, UNCHANGED <<sessions, capacity>>, used' - Reserved' = used - Reserved,
         used' \in Nat, Reserved' \in Nat, Reserved \in Nat
  PROVE  Books'
<1>1. Rings' = Rings
  BY RingsKept
<1>2. Total(Rings) \in Nat
  BY FS_CardinalityType DEF Books, Total
<1> QED BY <1>1, <1>2 DEF Books, Sound, TypeOK

(* A removal gives back what the removed ring took, and finds it in the count. *)
LEMMA BooksRemove ==
  ASSUME Sound, Reach, Books, NEW id \in Ids, Tombstone(id), RemoveSession(id),
         UNCHANGED <<capacity, Reserved>>, Reserved \in Nat
  PROVE  Books'
<1> USE RegistryAssumption DEF Sound, TypeOK
<1> DEFINE x == sessions[id]
<1>1. x \in Sessions /\ sessions' = [sessions EXCEPT ![id] = None]
  BY DEF Tombstone, Registered, RemoveSession
<1>2. \A other \in Ids : sessions[other] = x => other = id
  BY <1>1 DEF Reach, Named, Registered
<1>3. Kept = Kept' \cup {x} /\ x \notin Kept'
  BY <1>1, <1>2 DEF Kept
<1>4. /\ DOMAIN Rings = DOMAIN Rings' \cup {x} /\ x \notin DOMAIN Rings'
      /\ \A y \in DOMAIN Rings' : Rings[y] = Rings'[y]
      /\ Rings[x] = capacity[x] /\ capacity[x] \in Nat
  BY <1>1, <1>3 DEF Rings
<1>5. /\ IsFiniteSet(Units(Rings')) /\ Total(Rings') \in Nat
      /\ Total(Rings) = Total(Rings') + capacity[x]
  <2> DEFINE f == Rings'
  <2> HIDE DEF f, x
  <2>1. IsFiniteSet(Units(Rings)) /\ x \notin DOMAIN f /\ DOMAIN Rings = DOMAIN f \cup {x}
    BY <1>4 DEF Books, f
  <2>2. Rings[x] \in Nat /\ \A y \in DOMAIN f : Rings[y] = f[y]
    BY <1>4 DEF f
  <2>3. IsFiniteSet(Units(f)) /\ Total(f) \in Nat /\ Total(Rings) = Total(f) + Rings[x]
    BY <2>1, <2>2, TotalAdd
  <2> QED BY <1>4, <2>3 DEF f
<1>6. used' = IF used >= capacity[x] THEN used - capacity[x] ELSE 0
  BY DEF RemoveSession
<1> QED BY <1>4, <1>5, <1>6 DEF Books

(* Every step keeps the books.                                             *)
LEMMA BooksStep ==
  ASSUME Sound, Reach, Books, Sound', [Next]_vars
  PROVE  Books'
<1> USE RegistryAssumption
<1>1. /\ used \in Nat /\ used' \in Nat /\ Reserved \in Nat /\ Reserved' \in Nat
      /\ stage = "spawn" => request.need \in Nat
      /\ Total(Rings) \in Nat
  BY FS_CardinalityType DEF Sound, TypeOK, Reserved, Unlocked, Request, Books, Total
<1>2. ASSUME NEW id \in Ids, Get(id) \/ \E l \in Launches : CreateExisting(id, l) PROVE Books'
  BY <1>1, <1>2, BooksSame DEF Get, CreateExisting, createVars, sessionVars, childVars, Reserved
<1>3. ASSUME NEW id \in Ids, NEW l \in Launches, NEW need \in Capacities, CreateNew(id, l, need)
      PROVE  Books'
  <2>1. UNCHANGED <<sessions, capacity>> /\ need \in Nat /\ Reserved = 0
    BY <1>3 DEF CreateNew, sessionVars, childVars, Reserved, Unlocked
  <2>2. used' - Reserved' = used
    <3>1. CASE Fits(need)
      <4>1. used' = used + need /\ stage' = "spawn" /\ request'.need = need
        BY <1>3, <3>1 DEF CreateNew, Reserve
      <4> QED BY <1>1, <2>1, <4>1 DEF Reserved
    <3>2. CASE ~Fits(need)
      <4>1. used' = used /\ stage' = "admit"
        BY <1>3, <3>2 DEF CreateNew
      <4> QED BY <1>1, <2>1, <4>1 DEF Reserved
    <3> QED BY <3>1, <3>2
  <2> QED BY <1>1, <2>1, <2>2, BooksSame
<1>4. ASSUME NEW id \in Ids, AdmitEvict(id) \/ Purge(id) PROVE Books'
  <2>1. Tombstone(id) /\ RemoveSession(id) /\ UNCHANGED <<capacity, Reserved>>
    BY <1>4 DEF AdmitEvict, Purge, Sound, Condemned, createVars, sessionVars, childVars, Reserved
  <2> QED BY <1>1, <2>1, BooksRemove
<1>5. CASE AdmitFits
  <2>1. /\ UNCHANGED <<sessions, capacity>> /\ Reserved = 0 /\ request.need \in Nat
        /\ used' = used + request.need /\ Reserved' = request.need
    BY <1>5 DEF AdmitFits, Reserve, Reserved, sessionVars, childVars, Sound, TypeOK, Unlocked, Request
  <2> QED BY <1>1, <2>1, BooksSame
<1>6. CASE AdmitRefused
  BY <1>1, <1>6, BooksSame DEF AdmitRefused, Unlock, registryVars, sessionVars, childVars, Reserved
<1>7. ASSUME NEW x \in Sessions, Spawned(x) PROVE Books'
  <2> DEFINE id == request.id
  <2>1. /\ sessions' = [sessions EXCEPT ![id] = x] /\ capacity' = [capacity EXCEPT ![x] = Reserved]
        /\ used' = used /\ Reserved' = 0 /\ state[x] = "unborn"
    BY <1>7 DEF Spawned, Born, Unlock, Reserved
  <2>2. id \in Ids /\ sessions[id] = None
    BY <1>7 DEF Spawned, Sound, TypeOK, Unlocked, Request, Reach, Pending, Registered
  <2>3. \A other \in Ids : sessions[other] # x
    BY <2>1 DEF Reach, Named, Registered
  <2> HIDE DEF id
  <2>4. Kept' = Kept \cup {x} /\ x \notin Kept
    BY <2>1, <2>2, <2>3 DEF Kept, Sound, TypeOK
  <2>5. /\ DOMAIN Rings' = DOMAIN Rings \cup {x} /\ x \notin DOMAIN Rings
        /\ \A y \in DOMAIN Rings : Rings'[y] = Rings[y]
        /\ Rings'[x] = Reserved
    BY <2>1, <2>4 DEF Rings, Kept, Sound, TypeOK
  <2>6. IsFiniteSet(Units(Rings')) /\ Total(Rings') = Total(Rings) + Reserved
    BY <1>1, <2>5, TotalAdd DEF Books
  <2> QED BY <1>1, <2>1, <2>6 DEF Books
<1>8. CASE SpawnFailed
  <2>1. /\ sessions' = sessions /\ Reserved = request.need /\ Reserved' = 0
        /\ used' = IF used >= Reserved THEN used - Reserved ELSE 0
    BY <1>8 DEF SpawnFailed, Unlock, Reserved
  <2>2. \A x \in Kept : capacity'[x] = capacity[x]
    BY <1>8 DEF SpawnFailed, sessionVars, childVars, Born, Kept, Reach, Named, Registered, Sound, TypeOK
  <2>3. Rings' = Rings
    BY <2>1, <2>2, RingsKept
  <2> QED BY <1>1, <2>1, <2>3 DEF Books
<1>9. CASE UNCHANGED vars \/ \E x \in Sessions : Exit(x)
  BY <1>1, <1>9, BooksSame DEF vars, Exit, registryVars, createVars, sessionVars, childVars, Reserved
<1> QED BY <1>2, <1>3, <1>4, <1>5, <1>6, <1>7, <1>8, <1>9 DEF Next, Create

(* The bytes in use are exactly the rings of the registered sessions and   *)
(* the reservation of the create in progress: no failed spawn, eviction or *)
(* purge leaks a byte or gives one back twice, for any sessions and rings. *)
THEOREM AccountsBalance == Spec => []Accounted
<1>1. Init => Books
  <2> SUFFICES ASSUME Init PROVE Books
    OBVIOUS
  <2>1. DOMAIN Rings = {} /\ Reserved = 0 /\ used = 0
    BY RegistryAssumption DEF Init, Rings, Kept, Reserved
  <2> QED BY <2>1, TotalNone DEF Books
<1>2. Sound /\ Reach /\ Sound' /\ Books /\ [Next]_vars => Books'
  BY BooksStep
<1>3. Books /\ WithinCap => Accounted
  BY DEF Books, Accounted
<1> QED BY <1>1, <1>2, <1>3, SoundAlways, ReachAlways, CapHolds, PTL DEF Spec

-----------------------------------------------------------------------------
(***************************************************************************)
(* The input queue.                                                        *)
(***************************************************************************)
(* The counter is exact, and what it counts is finite.                     *)
Counted ==
  /\ QueueTypeOK /\ QueueCounted
  /\ IsFiniteSet(Units(Waiting)) /\ IsFiniteSet(Units(Held))

(* The parts of the count.                                                 *)
LEMMA CountsTypes ==
  ASSUME Counted
  PROVE  Total(Waiting) \in Nat /\ Total(Held) \in Nat /\ Written \in Nat
BY FS_CardinalityType DEF Counted, QueueTypeOK, Total, Written, Input

(* A step that changes nothing the counter counts.                         *)
LEMMA CountedSame ==
  ASSUME Counted, QueueTypeOK', Held' = Held, UNCHANGED <<queued, channel, writing>>
  PROVE  Counted'
BY DEF Counted, QueueCounted, Waiting, Written

(* A handler's reservation joins what is held.                             *)
LEMMA HeldJoins ==
  ASSUME QueueTypeOK, NEW c \in Conns, UNCHANGED input, IsFiniteSet(Units(Held)),
         handler[c] \notin {"reserved", "undo"}, HandlerTo(c, "reserved")
  PROVE  IsFiniteSet(Units(Held')) /\ Total(Held') = Total(Held) + input[c]
<1> DEFINE f == Held
           g == Held'
<1>1. /\ c \notin DOMAIN f /\ DOMAIN g = DOMAIN f \cup {c} /\ g[c] = input[c] /\ input[c] \in Nat
      /\ \A y \in DOMAIN f : g[y] = f[y]
  BY DEF Held, HandlerTo, QueueTypeOK
<1>2. IsFiniteSet(Units(f))
  OBVIOUS
<1> HIDE DEF f, g
<1>3. IsFiniteSet(Units(g)) /\ Total(g) = Total(f) + g[c]
  BY <1>1, <1>2, TotalAdd
<1> QED BY <1>1, <1>3 DEF f, g

(* It leaves, having been sent or taken back.                              *)
LEMMA HeldLeaves ==
  ASSUME QueueTypeOK, NEW c \in Conns, UNCHANGED input, IsFiniteSet(Units(Held)),
         handler[c] \in {"reserved", "undo"}, HandlerTo(c, "idle")
  PROVE  /\ IsFiniteSet(Units(Held')) /\ Total(Held') \in Nat
         /\ Total(Held) = Total(Held') + input[c]
<1> DEFINE f == Held'
           g == Held
<1>1. /\ c \notin DOMAIN f /\ DOMAIN g = DOMAIN f \cup {c} /\ g[c] = input[c] /\ input[c] \in Nat
      /\ \A y \in DOMAIN f : g[y] = f[y]
  BY DEF Held, HandlerTo, QueueTypeOK
<1>2. IsFiniteSet(Units(g))
  OBVIOUS
<1> HIDE DEF f, g
<1>3. IsFiniteSet(Units(f)) /\ Total(f) \in Nat /\ Total(g) = Total(f) + g[c]
  BY <1>1, <1>2, TotalAdd
<1> QED BY <1>1, <1>3 DEF f, g

(* An input is queued.                                                     *)
LEMMA WaitingJoins ==
  ASSUME channel \in Seq(Input), NEW i \in Input, channel' = Append(channel, i),
         IsFiniteSet(Units(Waiting))
  PROVE  IsFiniteSet(Units(Waiting')) /\ Total(Waiting') = Total(Waiting) + i.size
<1> DEFINE f == Waiting
           g == Waiting'
           n == Len(channel) + 1
<1>1. /\ n \notin DOMAIN f /\ DOMAIN g = DOMAIN f \cup {n} /\ g[n] = i.size /\ i.size \in Nat
      /\ \A y \in DOMAIN f : g[y] = f[y]
  BY DEF Waiting, Input
<1>2. IsFiniteSet(Units(f))
  OBVIOUS
<1> HIDE DEF f, g, n
<1>3. IsFiniteSet(Units(g)) /\ Total(g) = Total(f) + g[n]
  BY <1>1, <1>2, TotalAdd
<1> QED BY <1>1, <1>3 DEF f, g

(* It is taken from the queue.                                             *)
LEMMA WaitingLeaves ==
  ASSUME channel \in Seq(Input), channel # <<>>, channel' = Tail(channel),
         IsFiniteSet(Units(Waiting))
  PROVE  /\ IsFiniteSet(Units(Waiting')) /\ Total(Waiting') \in Nat
         /\ Total(Waiting) = Total(Waiting') + Head(channel).size
<1> DEFINE one == 1
           n == Len(channel) - 1
           f == [i \in 2 .. n + 1 |-> channel[i].size]
           g == Waiting
           h == Waiting'
<1>1. /\ n \in Nat /\ Len(channel) = n + 1 /\ Head(channel) = channel[1]
      /\ channel \in [1 .. n + 1 -> Input]
  OBVIOUS
<1>2. /\ one \notin DOMAIN f /\ DOMAIN g = DOMAIN f \cup {one}
      /\ g[one] = Head(channel).size /\ g[one] \in Nat
      /\ \A y \in DOMAIN f : g[y] = f[y]
  <2> HIDE DEF n
  <2>1. DOMAIN f = 2 .. n + 1 /\ DOMAIN g = 1 .. n + 1
    BY <1>1 DEF Waiting
  <2>2. one \in 1 .. n + 1 /\ one \notin 2 .. n + 1 /\ 1 .. n + 1 = (2 .. n + 1) \cup {one}
    BY <1>1
  <2>3. g[one] = channel[one].size /\ channel[one] \in Input
    BY <1>1, <2>1, <2>2 DEF Waiting
  <2>4. \A y \in 2 .. n + 1 : g[y] = channel[y].size /\ f[y] = channel[y].size
    BY <1>1 DEF Waiting
  <2> QED BY <1>1, <2>1, <2>2, <2>3, <2>4 DEF Input
<1>3. DOMAIN f = 2 .. n + 1 /\ DOMAIN h = 1 .. n /\ \A i \in 1 .. n : h[i] = f[i + 1]
  BY <1>1 DEF Waiting
<1>4. IsFiniteSet(Units(g))
  OBVIOUS
<1> HIDE DEF f, g, h, n, one
<1>5. IsFiniteSet(Units(f)) /\ Total(f) \in Nat /\ Total(g) = Total(f) + g[one]
  BY <1>2, <1>4, TotalAdd
<1>6. IsFiniteSet(Units(h)) /\ Total(h) = Total(f)
  BY <1>1, <1>3, <1>5, TotalShift
<1> QED BY <1>2, <1>5, <1>6 DEF g, h

(* Every step of a handler, the writer thread or the child keeps the       *)
(* count.                                                                  *)
LEMMA CountedStep == Counted /\ [QueueNext]_queueVars => Counted'
<1> SUFFICES ASSUME Counted, [QueueNext]_queueVars PROVE Counted'
  OBVIOUS
<1> USE InputAssumption
<1> USE DEF statusVars, writerVars
<1>1. /\ QueueTypeOK /\ Total(Waiting) \in Nat /\ Total(Held) \in Nat /\ Written \in Nat
      /\ queued = Total(Waiting) + Written + Total(Held)
      /\ IsFiniteSet(Units(Waiting)) /\ IsFiniteSet(Units(Held))
  BY CountsTypes DEF Counted, QueueCounted
<1>2. ASSUME NEW c \in Conns, NEW size \in Sizes, Receive(c, size) PROVE Counted'
  <2>1. QueueTypeOK'
    BY <1>1, <1>2 DEF Receive, HandlerTo, QueueTypeOK, Handlers
  <2>2. Held' = Held
    BY <1>1, <1>2 DEF Receive, HandlerTo, QueueTypeOK, Held
  <2> QED BY <1>2, <2>1, <2>2, CountedSame DEF Receive
<1>3. ASSUME NEW c \in Conns, Admit(c) PROVE Counted'
  <2>1. QueueTypeOK'
    BY <1>1, <1>3 DEF Admit, HandlerTo, QueueTypeOK, Handlers
  <2>2. Held' = Held
    BY <1>1, <1>3 DEF Admit, HandlerTo, QueueTypeOK, Held
  <2> QED BY <1>3, <2>1, <2>2, CountedSame DEF Admit
<1>4. ASSUME NEW c \in Conns, ReserveRoom(c) PROVE Counted'
  <2>1. QueueTypeOK' /\ input[c] \in Nat /\ queued' = queued + input[c]
    BY SMTT(30), <1>1, <1>4 DEF ReserveRoom, HandlerTo, QueueTypeOK, Handlers
  <2>2. IsFiniteSet(Units(Held')) /\ Total(Held') = Total(Held) + input[c]
    BY <1>1, <1>4, <2>1, HeldJoins DEF ReserveRoom
  <2>3. Waiting' = Waiting /\ Written' = Written
    BY <1>4 DEF ReserveRoom, Waiting, Written
  <2> QED BY <1>1, <2>1, <2>2, <2>3 DEF Counted, QueueCounted
<1>5. ASSUME NEW c \in Conns, Send(c) PROVE Counted'
  <2> DEFINE i == [from |-> c, size |-> input[c]]
  <2>1. i \in Input /\ i.size = input[c] /\ input[c] \in Nat /\ channel \in Seq(Input)
    BY <1>1 DEF QueueTypeOK, Input
  <2>2. QueueTypeOK'
    <3>1. channel' \in Seq(Input)
      BY <1>5, <2>1 DEF Send
    <3>2. handler' \in [Conns -> Handlers]
      BY <1>1, <1>5 DEF Send, HandlerTo, QueueTypeOK, Handlers
    <3> QED BY <1>1, <1>5, <3>1, <3>2 DEF Send, QueueTypeOK
  <2>3. CASE channel' = Append(channel, i) /\ HandlerTo(c, "idle")
    <3>1. /\ IsFiniteSet(Units(Held')) /\ Total(Held') \in Nat
          /\ Total(Held) = Total(Held') + input[c]
      BY <1>1, <1>5, <2>2, <2>3, HeldLeaves DEF Send
    <3>2. IsFiniteSet(Units(Waiting')) /\ Total(Waiting') = Total(Waiting) + input[c]
      BY <1>1, <2>1, <2>3, WaitingJoins
    <3>3. Written' = Written /\ queued' = queued
      BY <1>5 DEF Send, Written
    <3> QED BY <1>1, <2>1, <2>2, <3>1, <3>2, <3>3 DEF Counted, QueueCounted
  <2>4. CASE channel' = channel /\ HandlerTo(c, "undo")
    <3>1. Held' = Held
      BY <1>1, <1>5, <2>4 DEF Send, HandlerTo, QueueTypeOK, Held
    <3> QED BY <1>5, <2>2, <2>4, <3>1, CountedSame DEF Send
  <2> QED BY <1>5, <2>3, <2>4 DEF Send
<1>6. ASSUME NEW c \in Conns, Undo(c) PROVE Counted'
  <2>1. /\ input[c] \in Nat /\ queued' = queued - input[c]
        /\ Waiting' = Waiting /\ Written' = Written
    BY <1>1, <1>6 DEF Undo, QueueTypeOK, Waiting, Written
  <2>2. handler' \in [Conns -> Handlers] /\ HandlerTo(c, "idle")
    BY <1>1, <1>6 DEF Undo, HandlerTo, QueueTypeOK, Handlers
  <2>3. /\ IsFiniteSet(Units(Held')) /\ Total(Held') \in Nat
        /\ Total(Held) = Total(Held') + input[c]
    BY <1>1, <1>6, HeldLeaves DEF Undo
  <2>4. QueueTypeOK'
    <3>1. queued' \in Nat
      BY <1>1, <2>1, <2>3
    <3> QED BY <1>1, <1>6, <2>2, <3>1 DEF Undo, QueueTypeOK
  <2> QED BY <1>1, <2>1, <2>3, <2>4 DEF Counted, QueueCounted
<1>7. ASSUME NEW c \in Conns, Takeover(c) \/ Detach(c) PROVE Counted'
  <2>1. QueueTypeOK' /\ Held' = Held
    BY <1>1, <1>7 DEF Takeover, Detach, QueueTypeOK, Held
  <2> QED BY <1>7, <2>1, CountedSame DEF Takeover, Detach
<1>8. CASE Take
  <2>1. /\ channel \in Seq(Input) /\ channel # <<>> /\ channel' = Tail(channel)
        /\ Head(channel) \in Input /\ writing' = Head(channel) /\ writing = NoInput
    BY <1>1, <1>8 DEF Take, QueueTypeOK
  <2>2. QueueTypeOK'
    BY <1>1, <1>8, <2>1 DEF Take, QueueTypeOK
  <2>3. /\ IsFiniteSet(Units(Waiting')) /\ Total(Waiting') \in Nat
        /\ Total(Waiting) = Total(Waiting') + Head(channel).size
    BY <1>1, <2>1, WaitingLeaves
  <2>4. Held' = Held /\ queued' = queued
    BY <1>8 DEF Take, Held
  <2>5. Written = 0 /\ Written' = Head(channel).size /\ Head(channel).size \in Nat
    BY <2>1 DEF Written, Input
  <2> QED BY <1>1, <2>2, <2>3, <2>4, <2>5 DEF Counted, QueueCounted
<1>9. CASE Write
  <2>1. Written = writing.size /\ Written' = 0 /\ queued' = queued - Written
    BY <1>9 DEF Write, Written
  <2>2. Waiting' = Waiting /\ Held' = Held
    BY <1>9 DEF Write, Waiting, Held
  <2>3. QueueTypeOK'
    <3>1. queued' \in Nat
      BY <1>1, <2>1
    <3> QED BY <1>1, <1>9, <3>1 DEF Write, QueueTypeOK
  <2> QED BY <1>1, <2>1, <2>2, <2>3 DEF Counted, QueueCounted
<1>10. CASE WriterEnd \/ ChildExits \/ Release \/ UNCHANGED queueVars
  <2>1. QueueTypeOK' /\ Held' = Held /\ UNCHANGED <<queued, channel, writing>>
    BY <1>1, <1>10 DEF WriterEnd, ChildExits, Release, queueVars, QueueTypeOK, Held
  <2> QED BY <2>1, CountedSame
<1> QED BY <1>2, <1>3, <1>4, <1>5, <1>6, <1>7, <1>8, <1>9, <1>10 DEF QueueNext, Handle

(* The count is exact in every reachable state.                            *)
LEMMA CountedAlways == QueueSpec => []Counted
<1>1. QueueInit => Counted
  <2> SUFFICES ASSUME QueueInit PROVE Counted
    OBVIOUS
  <2>1. DOMAIN Waiting = {} /\ DOMAIN Held = {} /\ Written = 0 /\ queued = 0
    BY DEF QueueInit, Waiting, Held, Written
  <2>2. QueueTypeOK
    BY DEF QueueInit, QueueTypeOK, Handlers
  <2> QED BY <2>1, <2>2, TotalNone DEF Counted, QueueCounted
<1> QED BY <1>1, CountedStep, PTL DEF QueueSpec

(* Types; the code's unsigned counter never goes below zero, whatever the  *)
(* sizes of the inputs and the number of connections.                      *)
THEOREM QueueTypes == QueueSpec => []QueueTypeOK
<1>1. Counted => QueueTypeOK
  BY DEF Counted
<1> QED BY <1>1, CountedAlways, PTL

(* The counter is exactly the input on its way: what waits, what is being  *)
(* written and what handlers have reserved and not sent or taken back, of  *)
(* any number of connections, for inputs of any sizes and any cap.         *)
THEOREM QueueBalances == QueueSpec => []QueueCounted
<1>1. Counted => QueueCounted
  BY DEF Counted
<1> QED BY <1>1, CountedAlways, PTL

-----------------------------------------------------------------------------
(***************************************************************************)
(* The socket.                                                             *)
(***************************************************************************)
Pcs == {"off", "probe", "cleared", "unlinked", "bound", "serving", "look",
        "refused", "leaving", "gone"}
Process == [pc : Pcs, takeover : BOOLEAN, watch : BOOLEAN, probes : {0, 1, 2},
            before : SUBSET Holders, ino : Holders \cup {"none"}, met : BOOLEAN,
            dead : SUBSET Holders, told : {"no", "Live"}]

SockTypes ==
  /\ path \in Holders \cup {"none"} /\ live \subseteq Holders /\ ghosts \subseteq Holders
  /\ proc \in [Holders -> Process]

(* A holder listens from its bind to its exit, also while it binds again;  *)
(* what a forked child still holds is of a holder that is gone.            *)
Listens(h) == \/ proc[h].pc \in {"bound", "serving", "look"}
              \/ proc[h].watch /\ proc[h].pc \in {"probe", "cleared", "unlinked"}
Listening ==
  \A h \in Holders : /\ h \in live <=> Listens(h)
                     /\ h \in ghosts => proc[h].pc \in {"leaving", "gone"}
                     /\ proc[h].pc = "look" => proc[h].watch
                     /\ proc[h].pc = "off" => proc[h] = New

(* Without a race the inode a holder remembers is its own.                 *)
OwnInode ==
  "race" \notin events =>
    \A h \in Holders : Listens(h) /\ (proc[h].pc = "bound" => proc[h].watch) => proc[h].ino = h

(* Until a live holder answers, there is a different dead one for every    *)
(* probe answered: they stay dead, and do not answer again.                *)
AnsweredBy(h) ==
  /\ proc[h].pc \in {"cleared", "unlinked", "bound", "serving"} => proc[h].dead = {}
  /\ proc[h].pc = "probe" /\ ~proc[h].watch =>
       proc[h].met \/ Cardinality(proc[h].dead) = proc[h].probes
  /\ proc[h].pc = "refused" => proc[h].met \/ Cardinality(proc[h].dead) = CONFIRMATIONS
  /\ proc[h].pc \in {"probe", "look"} =>
       \A x \in proc[h].dead : /\ proc[x].pc \in {"leaving", "gone"}
                               /\ x \in ghosts => x \in proc[h].before
Answered == \A h \in Holders : AnsweredBy(h)

(* As long as nothing has parted a holder from its path, the one that      *)
(* listens has the path, and nobody clears it under one.                   *)
Sole ==
  events = {} =>
    \A h \in Holders : /\ ~proc[h].watch
                       /\ proc[h].pc \in {"bound", "serving"} => path = h
                       /\ proc[h].pc \in {"cleared", "unlinked"} => live = {}

(* A process with some of its fields changed.                              *)
LEMMA ProcessWith ==
  ASSUME NEW x \in Process, NEW pc \in Pcs
  PROVE  /\ [x EXCEPT !.pc = pc] \in Process
         /\ [x EXCEPT !.pc = pc, !.watch = TRUE] \in Process
         /\ [x EXCEPT !.pc = pc, !.met = TRUE] \in Process
         /\ \A b \in BOOLEAN : [x EXCEPT !.pc = pc, !.takeover = b] \in Process
         /\ \A ino \in Holders :
              [x EXCEPT !.pc = pc, !.ino = ino, !.takeover = FALSE, !.told = "no"] \in Process
BY DEF Process

(* ... or with what its probes found.                                      *)
LEMMA ProbesWith ==
  ASSUME NEW x \in Process, NEW t \in SUBSET Holders
  PROVE  /\ \A n \in {0, 1, 2} : \A s \in SUBSET Holders :
              [x EXCEPT !.probes = n, !.before = s, !.dead = t] \in Process
         /\ \A b \in BOOLEAN : [x EXCEPT !.met = b, !.probes = 0] \in Process
         /\ \A pc \in Pcs : /\ [x EXCEPT !.pc = pc, !.before = {}, !.dead = t] \in Process
                          /\ [x EXCEPT !.pc = pc, !.told = "Live", !.before = {}, !.dead = t] \in Process
BY DEF Process

(* A process whose probing ends.                                           *)
LEMMA MetTypes == ASSUME SockTypes, NEW h \in Holders PROVE Met(h) \in Process
<1> DEFINE b == proc[h].met \/ path \in live
<1>1. proc[h] \in Process /\ b \in BOOLEAN /\ {} \in SUBSET Holders
  BY DEF SockTypes, Process
<1> HIDE DEF b
<1>2. [proc[h] EXCEPT !.met = b, !.probes = 0] \in Process
  BY <1>1, ProbesWith
<1> QED BY <1>2 DEF Met, b

(* One process changed, the others as they were.                           *)
LEMMA ProcChanged ==
  ASSUME SockTypes, NEW h \in Holders, NEW r \in Process, Set(h, r)
  PROVE  proc' \in [Holders -> Process]
BY DEF SockTypes, Set

(* What a failed bind leaves of a process.                                 *)
LEMMA FailedLeaves ==
  ASSUME SockTypes, NEW h \in Holders, Set(h, Failed(h))
  PROVE  /\ proc[h].watch => proc'[h].pc = "serving"
         /\ ~proc[h].watch => proc'[h].pc = "refused"
         /\ proc'[h].dead = proc[h].dead /\ proc'[h].met /\ proc'[h].watch = proc[h].watch
         /\ proc'[h].ino = proc[h].ino
         /\ \A g \in Holders \ {h} : proc'[g] = proc[g]
<1> DEFINE to == IF proc[h].watch THEN "serving" ELSE "refused"
<1> HIDE DEF to
<1>1. proc' = [proc EXCEPT ![h] = [proc[h] EXCEPT !.pc = to, !.met = TRUE]]
  BY DEF Set, Failed, to
<1>2. proc[h] \in Process
  BY DEF SockTypes
<1>3. /\ proc'[h].pc = to /\ proc'[h].met /\ proc'[h].watch = proc[h].watch
      /\ proc'[h].dead = proc[h].dead /\ proc'[h].ino = proc[h].ino
      /\ \A g \in Holders \ {h} : proc'[g] = proc[g]
  BY <1>1, <1>2 DEF SockTypes, Process
<1> QED BY <1>3 DEF to

(* What a stat that finds a file leaves of it.                             *)
LEMMA ServingLeaves ==
  ASSUME SockTypes, NEW h \in Holders,
         Set(h, [proc[h] EXCEPT !.pc = "serving", !.ino = path, !.takeover = FALSE, !.told = "no"])
  PROVE  /\ proc'[h].pc = "serving" /\ proc'[h].watch = proc[h].watch /\ proc'[h].ino = path
         /\ proc'[h].dead = proc[h].dead
         /\ \A g \in Holders \ {h} : proc'[g] = proc[g]
BY DEF Set, SockTypes, Process

(* Two holders that bind are more than one.                                *)
LEMMA TwoBinding ==
  ASSUME NEW g \in Binding, NEW h \in Binding, g # h
  PROVE  Cardinality(Binding) > 1
<1>1. {g, h} \subseteq Binding /\ IsFiniteSet(Binding)
  BY SocketAssumption, FS_Subset DEF Binding
<1>2. Cardinality({g}) = 1 /\ IsFiniteSet({g})
  BY FS_Singleton
<1>3. Cardinality({g} \cup {h}) = 2 /\ IsFiniteSet({g} \cup {h})
  BY <1>2, FS_AddElement
<1>4. {g} \cup {h} = {g, h}
  OBVIOUS
<1> QED BY <1>1, <1>3, <1>4, FS_Subset, FS_CardinalityType

(* What the others have heard, when only one holder moves.                 *)
LEMMA AnsweredKept ==
  ASSUME SockTypes, Answered, NEW h \in Holders,
         \A g \in Holders \ {h} : proc'[g] = proc[g],
         proc[h].pc \in {"leaving", "gone"} => proc'[h].pc \in {"leaving", "gone"},
         \A g \in ghosts' : g \in ghosts \/ proc[g].pc \notin {"leaving", "gone"},
         AnsweredBy(h)'
  PROVE  Answered'
<1> SUFFICES ASSUME NEW g \in Holders \ {h} PROVE AnsweredBy(g)'
  BY DEF Answered
<1>1. AnsweredBy(g) /\ proc'[g] = proc[g] /\ proc[g].dead \subseteq Holders
  BY DEF Answered, SockTypes, Process
<1>2. ASSUME NEW x \in proc[g].dead, proc[x].pc \in {"leaving", "gone"},
             x \in ghosts => x \in proc[g].before
      PROVE  proc'[x].pc \in {"leaving", "gone"} /\ (x \in ghosts' => x \in proc'[g].before)
  BY <1>1, <1>2
<1> QED BY <1>1, <1>2 DEF AnsweredBy

(* A probe answered by a dead holder is answered by one more.              *)
LEMMA HeardCounts ==
  ASSUME SockTypes, Answered, NEW h \in Holders, SocketState = "Live",
         proc[h].pc = "probe", ~proc[h].watch, ghosts \cap proc[h].before = {}
  PROVE  \/ proc[h].met \/ path \in live
         \/ Cardinality(Heard(h)) = proc[h].probes + 1
<1> SUFFICES ASSUME ~proc[h].met, path \notin live
             PROVE  Cardinality(Heard(h)) = proc[h].probes + 1
  OBVIOUS
<1>1. path \in ghosts /\ Heard(h) = proc[h].dead \cup {path}
  BY DEF SocketState, Heard
<1>2. path \notin proc[h].dead
  BY <1>1 DEF Answered, AnsweredBy
<1>3. IsFiniteSet(proc[h].dead)
  BY SocketAssumption, FS_Subset DEF SockTypes, Process
<1>4. Cardinality(Heard(h)) = Cardinality(proc[h].dead) + 1
  BY <1>1, <1>2, <1>3, FS_AddElement
<1> QED BY <1>4 DEF Answered, AnsweredBy

(* The types are kept, one step per action.                                *)
LEMMA SockTypesStep ==
  ASSUME SockTypes, [SockNext]_sockVars
  PROVE  SockTypes'
<1> USE SocketAssumption DEF sockVars, SockTypes
<1>1. ASSUME NEW h \in Holders, NEW takeover \in BOOLEAN, Start(h, takeover) PROVE SockTypes'
  <2>1. proc[h] \in Process /\ {} \in SUBSET Holders
    BY <1>1, MetTypes DEF SockTypes
  <2>2. [proc[h] EXCEPT !.pc = "probe", !.takeover = takeover] \in Process
    BY <2>1, ProcessWith, ProbesWith DEF Pcs
  <2>3. proc' \in [Holders -> Process]
    BY <1>1, <2>2, ProcChanged DEF Start
  <2> QED BY <1>1, <2>3 DEF Start, SockTypes
<1>2. ASSUME NEW h \in Holders, ProbeAgain(h) PROVE SockTypes'
  <2>1. /\ proc[h] \in Process /\ {} \in SUBSET Holders /\ Met(h) \in Process
        /\ Heard(h) \in SUBSET Holders
        /\ ghosts \in SUBSET Holders /\ proc[h].probes + 1 \in {0, 1, 2}
    BY <1>2, MetTypes DEF SockTypes, Process, ProbeAgain, Heard, Confirmed, CONFIRMATIONS
  <2>2. [Met(h) EXCEPT !.probes = proc[h].probes + 1, !.before = ghosts, !.dead = Heard(h)] \in Process
    BY <2>1, ProcessWith, ProbesWith DEF Pcs
  <2>3. proc' \in [Holders -> Process]
    BY <1>2, <2>2, ProcChanged DEF ProbeAgain
  <2> QED BY <1>2, <2>3 DEF ProbeAgain, SockTypes
<1>3. ASSUME NEW h \in Holders, Bindable(h) PROVE SockTypes'
  <2>1. proc[h] \in Process /\ {} \in SUBSET Holders /\ Met(h) \in Process
    BY <1>3, MetTypes DEF SockTypes
  <2>2. [Met(h) EXCEPT !.pc = "cleared", !.before = {}, !.dead = {}] \in Process
    BY <2>1, ProcessWith, ProbesWith DEF Pcs
  <2>3. proc' \in [Holders -> Process]
    BY <1>3, <2>2, ProcChanged DEF Bindable
  <2> QED BY <1>3, <2>3 DEF Bindable, SockTypes
<1>4. ASSUME NEW h \in Holders, Refused(h) PROVE SockTypes'
  <2>1. proc[h] \in Process /\ {} \in SUBSET Holders /\ Met(h) \in Process /\ Heard(h) \in SUBSET Holders
    BY <1>4, MetTypes DEF SockTypes, Process, Heard
  <2>2. /\ [Met(h) EXCEPT !.pc = "serving", !.before = {}, !.dead = {}] \in Process
        /\ [Met(h) EXCEPT !.pc = "refused", !.before = {}, !.dead = Heard(h)] \in Process
    BY <2>1, ProcessWith, ProbesWith DEF Pcs
  <2>3. proc' \in [Holders -> Process]
    BY <1>4, <2>2, ProcChanged DEF Refused
  <2> QED BY <1>4, <2>3 DEF Refused, SockTypes
<1>5. ASSUME NEW h \in Holders, Unlink(h) PROVE SockTypes'
  <2>1. proc[h] \in Process /\ {} \in SUBSET Holders
    BY <1>5, MetTypes DEF SockTypes
  <2>2. [proc[h] EXCEPT !.pc = "unlinked"] \in Process
    BY <2>1, ProcessWith, ProbesWith DEF Pcs
  <2>3. proc' \in [Holders -> Process]
    BY <1>5, <2>2, ProcChanged DEF Unlink
  <2> QED BY <1>5, <2>3 DEF Unlink, SockTypes
<1>6. ASSUME NEW h \in Holders, Bind(h) PROVE SockTypes'
  <2>1. proc[h] \in Process /\ {} \in SUBSET Holders
    BY <1>6, MetTypes DEF SockTypes
  <2>2. /\ [proc[h] EXCEPT !.pc = "serving", !.met = TRUE] \in Process
        /\ [proc[h] EXCEPT !.pc = "refused", !.met = TRUE] \in Process
        /\ [proc[h] EXCEPT !.pc = "bound"] \in Process
    BY <2>1, ProcessWith, ProbesWith DEF Pcs
  <2>3. proc' \in [Holders -> Process]
    BY <1>6, <2>2, ProcChanged DEF Bind, Failed
  <2> QED BY <1>6, <2>3 DEF Bind, SockTypes
<1>7. ASSUME NEW h \in Holders, Stat(h) PROVE SockTypes'
  <2>1. proc[h] \in Process /\ (path # "none" => path \in Holders)
    BY DEF SockTypes
  <2>2. Failed(h) \in Process
    BY <2>1, ProcessWith DEF Pcs, Failed
  <2>3. CASE path = "none"
    BY <1>7, <2>2, <2>3, ProcChanged DEF Stat, SockTypes
  <2>4. CASE path # "none"
    <3>1. [proc[h] EXCEPT !.pc = "serving", !.ino = path, !.takeover = FALSE, !.told = "no"] \in Process
      BY <2>1, <2>4, ProcessWith DEF Pcs
    <3> QED BY <1>7, <2>4, <3>1, ProcChanged DEF Stat, SockTypes
  <2> QED BY <2>3, <2>4
<1>8. ASSUME NEW h \in Holders, Tick(h) PROVE SockTypes'
  <2>1. proc[h] \in Process /\ {} \in SUBSET Holders
    BY <1>8, MetTypes DEF SockTypes
  <2>2. [proc[h] EXCEPT !.pc = "look", !.watch = TRUE] \in Process
    BY <2>1, ProcessWith, ProbesWith DEF Pcs
  <2>3. proc' \in [Holders -> Process]
    BY <1>8, <2>2, ProcChanged DEF Tick
  <2> QED BY <1>8, <2>3 DEF Tick, SockTypes
<1>9. ASSUME NEW h \in Holders, Look(h) PROVE SockTypes'
  <2>1. proc[h] \in Process /\ {} \in SUBSET Holders /\ Met(h) \in Process
    BY <1>9, MetTypes DEF SockTypes
  <2>2. /\ [Met(h) EXCEPT !.pc = "serving", !.told = "Live", !.before = {}, !.dead = {}] \in Process
        /\ [Met(h) EXCEPT !.pc = "probe", !.before = {}, !.dead = {}] \in Process
    BY <2>1, ProcessWith, ProbesWith DEF Pcs
  <2>3. proc' \in [Holders -> Process]
    BY <1>9, <2>2, ProcChanged DEF Look
  <2> QED BY <1>9, <2>3 DEF Look, SockTypes
<1>10. ASSUME NEW h \in Holders, Leave(h) PROVE SockTypes'
  <2>1. proc[h] \in Process /\ {} \in SUBSET Holders
    BY <1>10, MetTypes DEF SockTypes
  <2>2. [proc[h] EXCEPT !.pc = "leaving"] \in Process
    BY <2>1, ProcessWith, ProbesWith DEF Pcs
  <2>3. proc' \in [Holders -> Process]
    BY <1>10, <2>2, ProcChanged DEF Leave
  <2> QED BY <1>10, <2>3 DEF Leave, SockTypes
<1>11. ASSUME NEW h \in Holders, CleanUp(h) PROVE SockTypes'
  <2>1. proc[h] \in Process /\ {} \in SUBSET Holders
    BY <1>11, MetTypes DEF SockTypes
  <2>2. [proc[h] EXCEPT !.pc = "gone"] \in Process
    BY <2>1, ProcessWith, ProbesWith DEF Pcs
  <2>3. proc' \in [Holders -> Process]
    BY <1>11, <2>2, ProcChanged DEF CleanUp
  <2> QED BY <1>11, <2>3 DEF CleanUp, SockTypes
<1>12. ASSUME NEW h \in Holders, Crash(h) PROVE SockTypes'
  <2>1. proc[h] \in Process /\ {} \in SUBSET Holders
    BY <1>12, MetTypes DEF SockTypes
  <2>2. [proc[h] EXCEPT !.pc = "gone"] \in Process
    BY <2>1, ProcessWith, ProbesWith DEF Pcs
  <2>3. proc' \in [Holders -> Process]
    BY <1>12, <2>2, ProcChanged DEF Crash
  <2> QED BY <1>12, <2>3 DEF Crash, SockTypes
<1>13. ASSUME NEW h \in Holders, Execs(h) PROVE SockTypes'
  BY <1>13 DEF Execs
<1>14. CASE Rm
  BY <1>14 DEF Rm, Note
<1>15. CASE UNCHANGED sockVars
  BY <1>15
<1> QED BY <1>1, <1>2, <1>3, <1>4, <1>5, <1>6, <1>7, <1>8, <1>9, <1>10, <1>11, <1>12,
           <1>13, <1>14, <1>15 DEF SockNext

(* Who listens is what its process says, after every step.                 *)
LEMMA ListeningStep ==
  ASSUME SockTypes, Listening, [SockNext]_sockVars
  PROVE  Listening'
<1> USE SocketAssumption DEF sockVars, SockTypes, Pcs, Listening, Listens
<1>1. ASSUME NEW h \in Holders, NEW takeover \in BOOLEAN, Start(h, takeover) PROVE Listening'
  BY <1>1 DEF Start, Set, Process, New
<1>2. ASSUME NEW h \in Holders, ProbeAgain(h) PROVE Listening'
  BY <1>2 DEF ProbeAgain, Set, Process, Met, Heard, Confirmed, CONFIRMATIONS
<1>3. ASSUME NEW h \in Holders, Bindable(h) PROVE Listening'
  BY <1>3 DEF Bindable, Set, Process, Met, Note
<1>4. ASSUME NEW h \in Holders, Refused(h) PROVE Listening'
  BY <1>4 DEF Refused, Set, Process, Met, Heard, Confirmed, CONFIRMATIONS
<1>5. ASSUME NEW h \in Holders, Unlink(h) PROVE Listening'
  BY <1>5 DEF Unlink, Set, Process, Note
<1>6. ASSUME NEW h \in Holders, Bind(h) PROVE Listening'
  <2>1. CASE path # "none"
    <3>1. Set(h, Failed(h))
      BY <1>6, <2>1 DEF Bind
    <3> QED BY <1>6, <2>1, <3>1, FailedLeaves DEF Bind, Note
  <2>2. CASE path = "none"
    BY <1>6, <2>2 DEF Bind, Note, Set, Process
  <2> QED BY <2>1, <2>2
<1>7. ASSUME NEW h \in Holders, Stat(h) PROVE Listening'
  <2>1. CASE path = "none"
    <3>1. Set(h, Failed(h))
      BY <1>7, <2>1 DEF Stat
    <3> QED BY <1>7, <2>1, <3>1, FailedLeaves DEF Stat, Note
  <2>2. CASE path # "none"
    <3>1. Set(h, [proc[h] EXCEPT !.pc = "serving", !.ino = path, !.takeover = FALSE, !.told = "no"])
      BY <1>7, <2>2 DEF Stat
    <3> QED BY ZenonT(60), <1>7, <2>2, <3>1, ServingLeaves DEF Stat, Note
  <2> QED BY <2>1, <2>2
<1>8. ASSUME NEW h \in Holders, Tick(h) PROVE Listening'
  BY <1>8 DEF Tick, Set, Process, Displaced
<1>9. ASSUME NEW h \in Holders, Look(h) PROVE Listening'
  BY <1>9 DEF Look, Set, Process, Met
<1>10. ASSUME NEW h \in Holders, Leave(h) PROVE Listening'
  BY <1>10 DEF Leave, Set, Process
<1>11. ASSUME NEW h \in Holders, CleanUp(h) PROVE Listening'
  BY <1>11 DEF CleanUp, Set, Process, Note
<1>12. ASSUME NEW h \in Holders, Crash(h) PROVE Listening'
  BY <1>12 DEF Crash, Set, Process
<1>13. ASSUME NEW h \in Holders, Execs(h) PROVE Listening'
  BY <1>13 DEF Execs, Set, Process
<1>14. CASE Rm
  BY <1>14 DEF Rm, Note
<1>15. CASE UNCHANGED sockVars
  BY <1>15
<1> QED BY <1>1, <1>2, <1>3, <1>4, <1>5, <1>6, <1>7, <1>8, <1>9, <1>10, <1>11, <1>12,
           <1>13, <1>14, <1>15 DEF SockNext

(* A bind takes another's inode for its own only in a race: the stat then  *)
(* finds a path that is not the binder's.                                  *)
LEMMA OwnInodeStep ==
  ASSUME SockTypes, Listening, OwnInode, [SockNext]_sockVars
  PROVE  OwnInode'
<1> USE SocketAssumption DEF sockVars, SockTypes, Pcs, Listening, OwnInode, Listens
<1>1. ASSUME NEW h \in Holders, NEW takeover \in BOOLEAN, Start(h, takeover) PROVE OwnInode'
  BY <1>1 DEF Start, Set, Process, New
<1>2. ASSUME NEW h \in Holders, ProbeAgain(h) PROVE OwnInode'
  BY <1>2 DEF ProbeAgain, Set, Process, Met, Heard, Confirmed, CONFIRMATIONS
<1>3. ASSUME NEW h \in Holders, Bindable(h) PROVE OwnInode'
  BY <1>3 DEF Bindable, Set, Process, Met, Note
<1>4. ASSUME NEW h \in Holders, Refused(h) PROVE OwnInode'
  BY <1>4 DEF Refused, Set, Process, Met, Heard, Confirmed, CONFIRMATIONS
<1>5. ASSUME NEW h \in Holders, Unlink(h) PROVE OwnInode'
  BY <1>5 DEF Unlink, Set, Process, Note
<1>6. ASSUME NEW h \in Holders, Bind(h) PROVE OwnInode'
  BY <1>6 DEF Bind, Set, Process, Failed, Note
<1>7. ASSUME NEW h \in Holders, Stat(h) PROVE OwnInode'
  <2>1. CASE path = "none"
    <3>1. Set(h, Failed(h))
      BY <1>7, <2>1 DEF Stat
    <3> QED BY <1>7, <2>1, <3>1, FailedLeaves DEF Stat, Note
  <2>2. CASE path # "none"
    <3>1. Set(h, [proc[h] EXCEPT !.pc = "serving", !.ino = path, !.takeover = FALSE, !.told = "no"])
      BY <1>7, <2>2 DEF Stat
    <3>2. /\ proc'[h].ino = path
          /\ \A g \in Holders \ {h} : proc'[g] = proc[g]
      BY <3>1, ServingLeaves
    <3>3. events' = IF path # h THEN events \cup {"race"} ELSE events
      BY <1>7 DEF Stat, Note
    <3>4. "race" \notin events' => path = h /\ "race" \notin events
      BY <3>3
    <3> HIDE DEF SockTypes, Listening
    <3> QED BY <3>2, <3>4
  <2> QED BY <2>1, <2>2
<1>8. ASSUME NEW h \in Holders, Tick(h) PROVE OwnInode'
  BY <1>8 DEF Tick, Set, Process, Displaced
<1>9. ASSUME NEW h \in Holders, Look(h) PROVE OwnInode'
  BY <1>9 DEF Look, Set, Process, Met
<1>10. ASSUME NEW h \in Holders, Leave(h) PROVE OwnInode'
  BY <1>10 DEF Leave, Set, Process
<1>11. ASSUME NEW h \in Holders, CleanUp(h) PROVE OwnInode'
  BY <1>11 DEF CleanUp, Set, Process, Note
<1>12. ASSUME NEW h \in Holders, Crash(h) PROVE OwnInode'
  BY <1>12 DEF Crash, Set, Process
<1>13. ASSUME NEW h \in Holders, Execs(h) PROVE OwnInode'
  BY <1>13 DEF Execs, Set, Process
<1>14. CASE Rm
  BY <1>14 DEF Rm, Note
<1>15. CASE UNCHANGED sockVars
  BY <1>15
<1> QED BY <1>1, <1>2, <1>3, <1>4, <1>5, <1>6, <1>7, <1>8, <1>9, <1>10, <1>11, <1>12,
           <1>13, <1>14, <1>15 DEF SockNext

(* A holder leaves a path that has not been parted from it only by exiting;*)
(* whoever clears a path was told that nobody answers there, and, without a*)
(* race, is the only one to bind.                                          *)
LEMMA SoleStep ==
  ASSUME SockTypes, Listening, OwnInode, Sole, [SockNext]_sockVars
  PROVE  Sole'
<1> USE SocketAssumption DEF sockVars, SockTypes, Pcs, Listening, OwnInode, Listens, Sole
<1>1. ASSUME NEW h \in Holders, NEW takeover \in BOOLEAN, Start(h, takeover) PROVE Sole'
  BY <1>1 DEF Start, Set, Process, New
<1>2. ASSUME NEW h \in Holders, ProbeAgain(h) PROVE Sole'
  BY <1>2 DEF ProbeAgain, Set, Process, Met, Heard, Confirmed, CONFIRMATIONS, SocketState
<1>3. ASSUME NEW h \in Holders, Bindable(h) PROVE Sole'
  BY <1>3 DEF Bindable, Set, Process, Met, Note, SocketState
<1>4. ASSUME NEW h \in Holders, Refused(h) PROVE Sole'
  BY <1>4 DEF Refused, Set, Process, Met, Heard, Confirmed, CONFIRMATIONS, SocketState
<1>5. ASSUME NEW h \in Holders, Unlink(h) PROVE Sole'
  BY <1>5 DEF Unlink, Set, Process, Note
<1>6. ASSUME NEW h \in Holders, Bind(h) PROVE Sole'
  <2> SUFFICES ASSUME events' = {} PROVE Sole'
    BY DEF Sole
  <2>1. events = {} /\ path = "none" /\ ~(Cardinality(Binding) > 1)
    BY <1>6 DEF Bind, Note
  <2>2. \A g \in Holders : proc[g].pc \in {"cleared", "unlinked", "bound"} => g = h
    BY <1>6, <2>1, TwoBinding DEF Bind, Binding
  <2>3. live = {} /\ ~proc[h].watch
    BY <1>6, <2>1 DEF Bind
  <2>4. /\ live' = {h} /\ path' = h /\ proc'[h].pc = "bound" /\ ~proc'[h].watch
        /\ \A g \in Holders \ {h} : proc'[g] = proc[g]
    BY <1>6, <2>1, <2>3 DEF Bind, Set, Process
  <2> QED BY <2>1, <2>2, <2>3, <2>4
<1>7. ASSUME NEW h \in Holders, Stat(h) PROVE Sole'
  <2> SUFFICES ASSUME events' = {} PROVE Sole'
    BY DEF Sole
  <2>1. events = {} /\ path = h /\ path # "none"
    BY <1>7 DEF Stat, Note
  <2>2. /\ live' = live /\ path' = h /\ proc'[h].pc = "serving" /\ ~proc'[h].watch
        /\ \A g \in Holders \ {h} : proc'[g] = proc[g]
    BY <1>7, <2>1, ServingLeaves DEF Stat
  <2> QED BY <2>1, <2>2
<1>8. ASSUME NEW h \in Holders, Tick(h) PROVE Sole'
  BY <1>8 DEF Tick, Set, Process, Displaced
<1>9. ASSUME NEW h \in Holders, Look(h) PROVE Sole'
  BY <1>9 DEF Look, Set, Process, Met, SocketState
<1>10. ASSUME NEW h \in Holders, Leave(h) PROVE Sole'
  BY <1>10 DEF Leave, Set, Process
<1>11. ASSUME NEW h \in Holders, CleanUp(h) PROVE Sole'
  <2> SUFFICES ASSUME events' = {} PROVE Sole'
    BY DEF Sole
  <2>1. events = {} /\ path \notin live
    BY <1>11 DEF CleanUp, Note
  <2>2. \A g \in Holders : proc[g].pc \notin {"bound", "serving"}
    BY <2>1
  <2> QED BY <1>11, <2>1, <2>2 DEF CleanUp, Set, Process
<1>12. ASSUME NEW h \in Holders, Crash(h) PROVE Sole'
  BY <1>12 DEF Crash, Set, Process
<1>13. ASSUME NEW h \in Holders, Execs(h) PROVE Sole'
  BY <1>13 DEF Execs, Set, Process
<1>14. CASE Rm
  BY <1>14 DEF Rm, Note
<1>15. CASE UNCHANGED sockVars
  BY <1>15
<1> QED BY <1>1, <1>2, <1>3, <1>4, <1>5, <1>6, <1>7, <1>8, <1>9, <1>10, <1>11, <1>12,
           <1>13, <1>14, <1>15 DEF SockNext

(* Each probe answered is answered by a listener of a holder that died     *)
(* since the one before.                                                   *)
LEMMA AnsweredStep ==
  ASSUME SockTypes, Listening, Answered, [SockNext]_sockVars
  PROVE  Answered'
<1> USE SocketAssumption DEF sockVars, SockTypes, Pcs, Listening, Listens, Answered
<1>1. ASSUME NEW h \in Holders, NEW takeover \in BOOLEAN, Start(h, takeover) PROVE Answered'
  <2>1. /\ proc[h].pc = "off" /\ ghosts' = ghosts
        /\ proc'[h].pc = "probe" /\ proc'[h].dead = {} /\ proc'[h].probes = 0
        /\ \A g \in Holders \ {h} : proc'[g] = proc[g]
    BY <1>1 DEF Start, Set, Process, New
  <2>2. Cardinality({}) = 0
    BY FS_EmptySet
  <2>3. AnsweredBy(h)'
    BY <2>1, <2>2 DEF AnsweredBy
  <2> QED BY <2>1, <2>3, AnsweredKept
<1>2. ASSUME NEW h \in Holders, ProbeAgain(h) PROVE Answered'
  <2>1. /\ proc[h].pc \in {"probe", "look"} /\ ghosts \cap proc[h].before = {}
        /\ SocketState = "Live" /\ ghosts' = ghosts
    BY <1>2 DEF ProbeAgain
  <2>2. /\ proc'[h].pc = proc[h].pc /\ proc'[h].watch = proc[h].watch
        /\ proc'[h].met = (proc[h].met \/ path \in live) /\ proc'[h].probes = proc[h].probes + 1
        /\ proc'[h].before = ghosts /\ proc'[h].dead = Heard(h)
        /\ \A g \in Holders \ {h} : proc'[g] = proc[g]
    BY <1>2 DEF ProbeAgain, Set, Process, Met
  <2>3. \A x \in Heard(h) : x \in Holders /\ proc[x].pc \in {"leaving", "gone"}
    BY <2>1 DEF Heard, AnsweredBy, Process
  <2>4. \A x \in Heard(h) : proc'[x].pc \in {"leaving", "gone"}
    BY <2>1, <2>2, <2>3
  <2>5. CASE proc[h].pc = "probe" /\ ~proc[h].watch
    <3>1. proc'[h].met \/ Cardinality(Heard(h)) = proc'[h].probes
      BY <2>1, <2>2, <2>5, HeardCounts
    <3> QED BY <2>1, <2>2, <2>4, <3>1, AnsweredKept DEF AnsweredBy
  <2>6. CASE ~(proc[h].pc = "probe" /\ ~proc[h].watch)
    BY <2>1, <2>2, <2>4, <2>6, AnsweredKept DEF AnsweredBy
  <2> QED BY <2>5, <2>6
<1>3. ASSUME NEW h \in Holders, Bindable(h) PROVE Answered'
  <2>1. /\ proc[h].pc = "probe" /\ ghosts' = ghosts
        /\ proc'[h].pc = "cleared" /\ proc'[h].dead = {}
        /\ \A g \in Holders \ {h} : proc'[g] = proc[g]
    BY <1>3 DEF Bindable, Set, Process, Met
  <2> QED BY <2>1, AnsweredKept DEF AnsweredBy
<1>4. ASSUME NEW h \in Holders, Refused(h) PROVE Answered'
  <2>1. /\ proc[h].pc = "probe" /\ ghosts \cap proc[h].before = {} /\ ghosts' = ghosts
        /\ SocketState = "Live" /\ proc[h].probes + 1 = CONFIRMATIONS
    BY <1>4 DEF Refused, Confirmed
  <2>2. CASE proc[h].watch
    <3>1. /\ proc'[h].pc = "serving" /\ proc'[h].dead = {}
          /\ \A g \in Holders \ {h} : proc'[g] = proc[g]
      BY <1>4, <2>2 DEF Refused, Set, Process, Met
    <3> QED BY <2>1, <3>1, AnsweredKept DEF AnsweredBy
  <2>3. CASE ~proc[h].watch
    <3>1. /\ proc'[h].pc = "refused" /\ proc'[h].dead = Heard(h)
          /\ proc'[h].met = (proc[h].met \/ path \in live)
          /\ \A g \in Holders \ {h} : proc'[g] = proc[g]
      BY <1>4, <2>3 DEF Refused, Set, Process, Met
    <3>2. proc'[h].met \/ Cardinality(Heard(h)) = CONFIRMATIONS
      BY <2>1, <2>3, <3>1, HeardCounts
    <3> QED BY <2>1, <3>1, <3>2, AnsweredKept DEF AnsweredBy
  <2> QED BY <2>2, <2>3
<1>5. ASSUME NEW h \in Holders, Unlink(h) PROVE Answered'
  <2>1. /\ proc[h].pc = "cleared" /\ ghosts' = ghosts
        /\ proc'[h].pc = "unlinked" /\ proc'[h].dead = {}
        /\ \A g \in Holders \ {h} : proc'[g] = proc[g]
    BY <1>5 DEF Unlink, Set, Process, AnsweredBy
  <2> QED BY <2>1, AnsweredKept DEF AnsweredBy
<1>6. ASSUME NEW h \in Holders, Bind(h) PROVE Answered'
  <2>1. proc[h].pc = "unlinked" /\ ghosts' = ghosts /\ proc[h].dead = {}
    BY <1>6 DEF Bind, AnsweredBy
  <2>2. CASE path # "none"
    <3>1. Set(h, Failed(h))
      BY <1>6, <2>2 DEF Bind
    <3> QED BY <2>1, <3>1, FailedLeaves, AnsweredKept DEF AnsweredBy, Process
  <2>3. CASE path = "none"
    <3>1. /\ proc'[h].pc = "bound" /\ proc'[h].dead = {}
          /\ \A g \in Holders \ {h} : proc'[g] = proc[g]
      BY <1>6, <2>1, <2>3 DEF Bind, Set, Process
    <3> QED BY <2>1, <3>1, AnsweredKept DEF AnsweredBy
  <2> QED BY <2>2, <2>3
<1>7. ASSUME NEW h \in Holders, Stat(h) PROVE Answered'
  <2>1. proc[h].pc = "bound" /\ ghosts' = ghosts /\ proc[h].dead = {}
    BY <1>7 DEF Stat, AnsweredBy
  <2>2. CASE path = "none"
    <3>1. Set(h, Failed(h))
      BY <1>7, <2>2 DEF Stat
    <3> QED BY <2>1, <3>1, FailedLeaves, AnsweredKept DEF AnsweredBy, Process
  <2>3. CASE path # "none"
    <3>1. Set(h, [proc[h] EXCEPT !.pc = "serving", !.ino = path, !.takeover = FALSE, !.told = "no"])
      BY <1>7, <2>3 DEF Stat
    <3>2. /\ proc'[h].pc = "serving" /\ proc'[h].dead = {}
          /\ \A g \in Holders \ {h} : proc'[g] = proc[g]
      BY <2>1, <3>1, ServingLeaves
    <3> QED BY <2>1, <3>2, AnsweredKept DEF AnsweredBy
  <2> QED BY <2>2, <2>3
<1>8. ASSUME NEW h \in Holders, Tick(h) PROVE Answered'
  <2>1. /\ proc[h].pc = "serving" /\ ghosts' = ghosts
        /\ proc'[h].pc = "look" /\ proc'[h].dead = {}
        /\ \A g \in Holders \ {h} : proc'[g] = proc[g]
    BY <1>8 DEF Tick, Set, Process, AnsweredBy
  <2> QED BY <2>1, AnsweredKept DEF AnsweredBy
<1>9. ASSUME NEW h \in Holders, Look(h) PROVE Answered'
  <2>1. /\ proc[h].pc = "look" /\ ghosts' = ghosts
        /\ proc'[h].pc \in {"serving", "probe"} /\ proc'[h].dead = {} /\ proc'[h].watch
        /\ \A g \in Holders \ {h} : proc'[g] = proc[g]
    BY <1>9 DEF Look, Set, Process, Met
  <2> QED BY <2>1, AnsweredKept DEF AnsweredBy
<1>10. ASSUME NEW h \in Holders, Leave(h) PROVE Answered'
  <2>1. /\ proc'[h].pc = "leaving"
        /\ \A g \in ghosts' : g \in ghosts \/ proc[g].pc \notin {"leaving", "gone"}
        /\ \A g \in Holders \ {h} : proc'[g] = proc[g]
    BY <1>10 DEF Leave, Set, Process
  <2> QED BY <2>1, AnsweredKept DEF AnsweredBy
<1>11. ASSUME NEW h \in Holders, CleanUp(h) PROVE Answered'
  <2>1. /\ proc'[h].pc = "gone"
        /\ \A g \in ghosts' : g \in ghosts \/ proc[g].pc \notin {"leaving", "gone"}
        /\ \A g \in Holders \ {h} : proc'[g] = proc[g]
    BY <1>11 DEF CleanUp, Set, Process
  <2> QED BY <2>1, AnsweredKept DEF AnsweredBy
<1>12. ASSUME NEW h \in Holders, Crash(h) PROVE Answered'
  <2>1. /\ proc'[h].pc = "gone"
        /\ \A g \in ghosts' : g \in ghosts \/ proc[g].pc \notin {"leaving", "gone"}
        /\ \A g \in Holders \ {h} : proc'[g] = proc[g]
    BY <1>12 DEF Crash, Set, Process
  <2> QED BY <2>1, AnsweredKept DEF AnsweredBy
<1>13. ASSUME NEW h \in Holders, Execs(h) PROVE Answered'
  BY <1>13 DEF Execs, Set, Process, AnsweredBy
<1>14. CASE Rm
  BY <1>14 DEF Rm, Note, AnsweredBy
<1>15. CASE UNCHANGED sockVars
  BY <1>15 DEF AnsweredBy
<1> QED BY <1>1, <1>2, <1>3, <1>4, <1>5, <1>6, <1>7, <1>8, <1>9, <1>10, <1>11, <1>12,
           <1>13, <1>14, <1>15 DEF SockNext

(* The inductive invariant.                                                *)
SockInv == SockTypes /\ Listening /\ OwnInode /\ Answered /\ Sole

(* It holds at first, and after every step.                                *)
LEMMA SockInitInv == SockInit => SockInv
<1> SUFFICES ASSUME SockInit PROVE SockInv
  OBVIOUS
<1>1. \A h \in Holders : proc[h] = New
  BY DEF SockInit
<1>2. New \in Process
  BY DEF New, Process, Pcs
<1>3. SockTypes
  BY <1>2 DEF SockInit, SockTypes
<1> QED BY <1>1, <1>3 DEF SockInit, SockInv, Listening, Listens, OwnInode, Answered, AnsweredBy, Sole, New

(* So it holds always.                                                     *)
LEMMA SockInductive == SockSpec => []SockInv
<1>1. SockInv /\ [SockNext]_sockVars => SockInv'
  BY SockTypesStep, ListeningStep, OwnInodeStep, AnsweredStep, SoleStep DEF SockInv
<1> QED BY <1>1, SockInitInv, PTL DEF SockSpec

(* For any number of holders and of crashes: whatever they do, probes are  *)
(* counted below the confirmations asked for, and only holders are named.  *)
THEOREM SocketTypes == SockSpec => []SockTypeOK
<1>1. SockInv => SockTypeOK
  BY DEF SockInv, SockTypes, SockTypeOK, Process, CONFIRMATIONS
<1> QED BY <1>1, SockInductive, PTL

(* Alone, for every set of holders: as long as no takeover was asked for,  *)
(* no two processes bound at once, nothing removed the path under a holder *)
(* and no exit swept another's, one holder at most listens. By Sole the one*)
(* that listens has the path, which is one.                                *)
THEOREM OneListens == SockSpec => []Alone
<1>1. ASSUME SockInv, events = {} PROVE ~(Cardinality(live) > 1)
  <2>1. \A h \in live : h \in Holders /\ path = h
    BY <1>1 DEF SockInv, SockTypes, Sole, Listening, Listens
  <2>2. CASE live = {}
    BY <2>2, FS_EmptySet
  <2>3. CASE live # {}
    <3>1. live = {path}
      BY <2>1, <2>3
    <3>2. Cardinality({path}) = 1
      BY FS_Singleton
    <3> QED BY <3>1, <3>2
  <2> QED BY <2>2, <2>3
<1>2. SockInv => Alone
  BY <1>1 DEF Alone
<1> QED BY <1>2, SockInductive, PTL

(* NotFooled, for every set of holders: a start is refused only if a live  *)
(* holder answered it, another bound under it, or three different holders  *)
(* died just before its three probes and a forked child kept each one's    *)
(* listener. By Answered, the probes of a start are no more than the dead  *)
(* it heard.                                                               *)
THEOREM NobodyFooled == SockSpec => []NotFooled
<1>1. SockInv => NotFooled
  BY DEF SockInv, Answered, AnsweredBy, NotFooled
<1> QED BY <1>1, SockInductive, PTL

(* AtHome, for every set of holders: at rest, without a race, a live holder*)
(* has the path. Its inode is its own (OwnInode), so a path that is not its*)
(* own is a displacement its watchdog sees, and it stays at rest only if a *)
(* live holder answers there.                                              *)
THEOREM PathComesHome == SockSpec => []AtHome
<1>1. ASSUME SockInv, AtRest, live # {}, "race" \notin events PROVE path \in live
  <2>1. PICK h \in Holders : h \in live
    BY <1>1 DEF SockInv, SockTypes
  <2>2. proc[h].pc = "serving" /\ proc[h].ino = h /\ proc[h].told \in {"no", "Live"}
    BY <1>1, <2>1 DEF SockInv, SockTypes, Process, Listening, Listens, OwnInode, AtRest
  <2>3. CASE Displaced(h)
    <3>1. SocketState = "Live" \/ SocketState = "no"
      BY <1>1, <2>1, <2>2, <2>3 DEF AtRest
    <3> QED BY <1>1, <3>1 DEF SocketState, AtRest
  <2>4. CASE ~Displaced(h)
    BY <2>1, <2>2, <2>4 DEF Displaced
  <2> QED BY <2>3, <2>4
<1>2. SockInv => AtHome
  BY <1>1 DEF AtHome
<1> QED BY <1>2, SockInductive, PTL
-----------------------------------------------------------------------------
(***************************************************************************)
(* The wire. What the agreement of the tables (evaluated by TLC:           *)
(* TablesAgree) means, for every value: a message is read as it was        *)
(* written, and a field added at the end disturbs no older peer.           *)
(***************************************************************************)
(* A getter of an agreeing reader returns the field's value, written or    *)
(* left out because it equals the default.                                 *)
LEMMA GetterReads ==
  ASSUME NEW T, NEW R, NEW v, Agree(T, R), NEW r \in R
  PROVE  Access(r, Serialize(T, v)) = v[r[1]]
<1> DEFINE buf == Serialize(T, v)
<1>1. PICK i \in DOMAIN T : r = <<T[i][1], T[i][2], T[i][3]>>
  BY DEF Agree
<1>2. r[1] = T[i][1] /\ r[2] = T[i][2] /\ r[3] = T[i][3]
  BY <1>1
<1>3. \A j \in DOMAIN T : T[j][3] = T[i][3] => j = i
  BY DEF Agree
<1>4. CASE i \in Present(T, v)
  <2>1. r[3] \in DOMAIN buf
    BY <1>2, <1>4 DEF Serialize
  <2>2. (CHOOSE j \in DOMAIN T : T[j][3] = r[3]) = i
    BY <1>2, <1>3
  <2>3. buf[r[3]] = [type |-> T[i][2], val |-> v[T[i][1]]]
    BY <1>2, <1>4, <2>2 DEF Serialize
  <2> QED BY <1>2, <2>1, <2>3 DEF Access
<1>5. CASE i \notin Present(T, v)
  <2>1. v[T[i][1]] = Default[T[i][2]]
    BY <1>5 DEF Present
  <2>2. r[3] \notin {T[j][3] : j \in Present(T, v)}
    BY <1>2, <1>3, <1>5 DEF Present
  <2>3. r[3] \notin DOMAIN buf
    BY <2>2 DEF Serialize
  <2> QED BY <1>2, <2>1, <2>3 DEF Access
<1> QED BY <1>4, <1>5

(* Each field of an agreeing reader is read by one getter.                 *)
LEMMA OneGetter ==
  ASSUME NEW T, NEW R, Agree(T, R), NEW r \in R
  PROVE  \A q \in R : q[1] = r[1] => q = r
<1> SUFFICES ASSUME NEW q \in R, q[1] = r[1] PROVE q = r
  OBVIOUS
<1>1. PICK i \in DOMAIN T : r = <<T[i][1], T[i][2], T[i][3]>>
  BY DEF Agree
<1>2. PICK j \in DOMAIN T : q = <<T[j][1], T[j][2], T[j][3]>>
  BY DEF Agree
<1>3. i = j
  BY <1>1, <1>2 DEF Agree
<1> QED BY <1>1, <1>2, <1>3

(* What parse makes of a field, whoever wrote the buffer.                  *)
LEMMA ParseField ==
  ASSUME NEW T, NEW R, NEW buf, Agree(T, R), NEW Q \in SUBSET R, NEW r \in Q
  PROVE  Parse(Q, buf)[r[1]] = Access(r, buf)
<1>1. (CHOOSE q \in Q : q[1] = r[1]) = r
  BY OneGetter
<1> QED BY <1>1 DEF Parse

(* A field of a whole message is read back as the getter reads it.         *)
LEMMA ParseWhole ==
  ASSUME NEW T, NEW R, NEW buf, Agree(T, R), NEW r \in R
  PROVE  Parse(R, buf)[r[1]] = Access(r, buf)
<1>1. (CHOOSE q \in R : q[1] = r[1]) = r
  BY OneGetter
<1> QED BY <1>1 DEF Parse

(* A message is read as it was written: the tables of the generated code   *)
(* (TablesAgree), whatever the values of the fields.                       *)
THEOREM MessagesSurvive ==
  ASSUME NEW m \in Messages,
         NEW v, v = [f \in Fields(Catalog[m][2]) |-> v[f]]
  PROVE  Parse(Catalog[m][3], Serialize(Catalog[m][2], v)) = v
<1> DEFINE T == Catalog[m][2]
           R == Catalog[m][3]
<1> HIDE DEF T, R
<1>1. Agree(T, R)
  BY TablesAgree DEF T, R
<1>2. {r[1] : r \in R} = Fields(T)
  <2>1. ASSUME NEW r \in R PROVE r[1] \in Fields(T)
    <3>1. PICK i \in DOMAIN T : r = <<T[i][1], T[i][2], T[i][3]>>
      BY <1>1, <2>1 DEF Agree
    <3> QED BY <3>1 DEF Fields
  <2>2. ASSUME NEW f \in Fields(T) PROVE \E r \in R : f = r[1]
    <3>1. PICK i \in DOMAIN T : f = T[i][1]
      BY <2>2 DEF Fields
    <3>2. <<T[i][1], T[i][2], T[i][3]>> \in R
      BY <1>1 DEF Agree
    <3> QED BY <3>1, <3>2
  <2> QED BY <2>1, <2>2
<1>3. ASSUME NEW r \in R
      PROVE  Parse(R, Serialize(T, v))[r[1]] = v[r[1]]
  <2>1. Parse(R, Serialize(T, v))[r[1]] = Access(r, Serialize(T, v))
    BY <1>1, <1>3, ParseWhole
  <2> QED BY <1>1, <1>3, <2>1, GetterReads
<1>4. Parse(R, Serialize(T, v)) = [f \in Fields(T) |-> Parse(R, Serialize(T, v))[f]]
  BY <1>2 DEF Parse
<1>5. \A f \in Fields(T) : Parse(R, Serialize(T, v))[f] = v[f]
  BY <1>2, <1>3
<1>6. v = [f \in Fields(T) |-> v[f]]
  BY DEF T
<1>7. [f \in Fields(T) |-> Parse(R, Serialize(T, v))[f]] = [f \in Fields(T) |-> v[f]]
  BY <1>5
<1> QED BY <1>4, <1>6, <1>7 DEF T, R

(* Append-only evolution: a peer that knows only the fields before slot k  *)
(* reads those as they were written; and what it writes, a newer peer      *)
(* reads with the defaults for the rest.                                   *)
THEOREM AppendOnly ==
  ASSUME NEW T, NEW R, Agree(T, R), NEW k \in Nat,
         NEW T0, Agree(T0, Older(R, k)), NEW v
  PROVE  /\ \A r \in Older(R, k) : Parse(Older(R, k), Serialize(T, v))[r[1]] = v[r[1]]
         /\ \A r \in R : Parse(R, Serialize(T0, v))[r[1]] =
              IF r \in Older(R, k) THEN v[r[1]] ELSE Default[r[2]]
<1>1. Older(R, k) \in SUBSET R
  BY DEF Older
<1>2. ASSUME NEW r \in Older(R, k)
      PROVE  Parse(Older(R, k), Serialize(T, v))[r[1]] = v[r[1]]
  <2>1. Parse(Older(R, k), Serialize(T, v))[r[1]] = Access(r, Serialize(T, v))
    BY <1>1, <1>2, ParseField
  <2>2. r \in R
    BY <1>1, <1>2
  <2> QED BY <2>1, <2>2, GetterReads
<1>3. ASSUME NEW r \in R
      PROVE  Parse(R, Serialize(T0, v))[r[1]] =
               IF r \in Older(R, k) THEN v[r[1]] ELSE Default[r[2]]
  <2>1. Parse(R, Serialize(T0, v))[r[1]] = Access(r, Serialize(T0, v))
    BY <1>3, ParseWhole
  <2>2. CASE r \in Older(R, k)
    BY <2>1, <2>2, GetterReads
  <2>3. CASE r \notin Older(R, k)
    <3>1. \A j \in DOMAIN T0 : T0[j][3] # r[3]
      <4> SUFFICES ASSUME NEW j \in DOMAIN T0, T0[j][3] = r[3] PROVE FALSE
        OBVIOUS
      <4>1. <<T0[j][1], T0[j][2], T0[j][3]>> \in Older(R, k)
        BY DEF Agree
      <4>2. PICK q \in Older(R, k) : q[3] = r[3]
        BY <4>1
      <4>3. q[3] < k
        BY DEF Older
      <4> QED BY <1>3, <2>3, <4>2, <4>3 DEF Older
    <3>2. r[3] \notin DOMAIN Serialize(T0, v)
      BY <3>1 DEF Serialize, Present
    <3> QED BY <2>1, <2>3, <3>2 DEF Access
  <2> QED BY <2>2, <2>3
<1> QED BY <1>2, <1>3
=============================================================================
