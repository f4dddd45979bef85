--------------------------- MODULE HolderRegistry ---------------------------
(***************************************************************************)
(* The registry of the asmux holder: every live session and tombstone, the *)
(* total-memory cap with least-recently-used eviction of tombstones, and   *)
(* create's idempotency by launch fingerprint.                             *)
(*                                                                         *)
(* The mutex serialises requests; create holds it across its steps, and    *)
(* children exit between them.  A handler or a streamer that got a session *)
(* keeps it after its registration ends, with no effect on the registry.   *)
(***************************************************************************)
EXTENDS Naturals, FiniteSets, Totals

CONSTANTS
  Ids,              \* session ids
  Sessions,         \* session objects, one per child ever spawned
  None,             \* no session, no id, no request
  Launches,         \* launch fingerprints
  Capacities,       \* ring capacities a create may ask for
  MemoryLimit,      \* the cap on the sum of ring capacities
  ThreadsFail,      \* may a thread of a spawned session fail to start?
  MaxTick           \* bound: accesses of sessions (u64::MAX in the code)

ASSUME RegistryAssumption ==
  /\ None \notin Sessions /\ None \notin Ids
  /\ Capacities \subseteq Nat \ {0}
  /\ MemoryLimit \in Nat
  /\ ThreadsFail \in BOOLEAN
  /\ MaxTick \in Nat

VARIABLES
  sessions,         \* Inner.sessions: the object registered under an id
  used,             \* Inner.used_bytes
  tick,             \* Inner.tick
  access,           \* Inner.access: the tick of an id's last access, else 0
  stage,            \* how far the create that holds the mutex has come
  request,          \* that create's arguments
  victims,          \* tombstones admit collected and has not looked at yet
  state,            \* what became of a session object's child
  name,             \* Session.id
  launch,           \* Session.fingerprint
  capacity,         \* Session.ring_capacity
  refused           \* ids whose create was answered SPAWN_FAILED (history)

registryVars == <<sessions, used, tick, access>>
createVars   == <<stage, request, victims>>
childVars    == <<state, name, launch, capacity>>
sessionVars  == <<childVars, refused>>
vars == <<registryVars, createVars, sessionVars>>

(* "stray": the child was spawned, but its create failed afterwards.       *)
States  == {"unborn", "alive", "stray", "dead"}
Stages  == {"unlocked", "admit", "spawn"}
Request == [id : Ids, launch : Launches, need : Capacities]

Registered(id) == sessions[id] # None
Tombstone(id)  == Registered(id) /\ state[sessions[id]] = "dead"
Fits(need)     == used + need <= MemoryLimit
Unlocked       == stage = "unlocked"

(* touch: id becomes the most recently used.                               *)
Touch(id) ==
  /\ tick < MaxTick
  /\ tick' = tick + 1
  /\ access' = [access EXCEPT ![id] = tick + 1]

(* remove: forget id and refund its capacity, never below zero.            *)
RemoveSession(id) ==
  LET refund == capacity[sessions[id]] IN
  /\ sessions' = [sessions EXCEPT ![id] = None]
  /\ used' = IF used >= refund THEN used - refund ELSE 0
  /\ access' = [access EXCEPT ![id] = 0]
  /\ UNCHANGED tick

Init ==
  /\ sessions = [id \in Ids |-> None] /\ used = 0
  /\ tick = 0 /\ access = [id \in Ids |-> 0]
  /\ stage = "unlocked" /\ request = None /\ victims = {}
  /\ state = [x \in Sessions |-> "unborn"]
  /\ name = [x \in Sessions |-> None]
  /\ launch = [x \in Sessions |-> None]
  /\ capacity = [x \in Sessions |-> 0]
  /\ refused = {}

-----------------------------------------------------------------------------
(* create, under the mutex.                                                *)

Reserve(need) == used' = used + need
Unlock == stage' = "unlocked" /\ request' = None /\ victims' = {}

(* The id exists: the same launch is an idempotent hit; any other is       *)
(* refused with SESSION_EXISTS and changes nothing.                        *)
CreateExisting(id, l) ==
  /\ Unlocked
  /\ Registered(id)
  /\ launch[sessions[id]] = l
  /\ Touch(id)
  /\ UNCHANGED <<sessions, used, createVars, sessionVars>>

(* Mutation of CreateNew: live sessions may be evicted too.                *)
CreateNewEvictsLive(id, l, need) ==
  /\ Unlocked
  /\ ~Registered(id)
  /\ request' = [id |-> id, launch |-> l, need |-> need]
  /\ \/ Fits(need) /\ stage' = "spawn" /\ Reserve(need) /\ victims' = {}
     \/ /\ ~Fits(need)
        /\ stage' = "admit"
        /\ victims' = {old \in Ids : Registered(old)}
        /\ UNCHANGED used
  /\ UNCHANGED <<sessions, tick, access, sessionVars>>

(* A new id: reserve if it fits, else collect the tombstones.              *)
CreateNew(id, l, need) ==
  /\ Unlocked
  /\ ~Registered(id)
  /\ request' = [id |-> id, launch |-> l, need |-> need]
  /\ \/ Fits(need) /\ stage' = "spawn" /\ Reserve(need) /\ victims' = {}
     \/ /\ ~Fits(need)
        /\ stage' = "admit"
        /\ victims' = {old \in Ids : Tombstone(old)}
        /\ UNCHANGED used
  /\ UNCHANGED <<sessions, tick, access, sessionVars>>

(* admit: while it does not fit, evict the collected tombstone least       *)
(* recently used.                                                          *)
AdmitEvict(id) ==
  /\ stage = "admit"
  /\ ~Fits(request.need)
  /\ id \in victims
  /\ \A other \in victims : access[id] <= access[other]
  /\ RemoveSession(id)
  /\ victims' = victims \ {id}
  /\ UNCHANGED <<stage, request, sessionVars>>

AdmitFits ==
  /\ stage = "admit"
  /\ Fits(request.need)
  /\ Reserve(request.need)
  /\ stage' = "spawn"
  /\ victims' = {}
  /\ UNCHANGED <<sessions, tick, access, request, sessionVars>>

(* Live rings alone leave no room: MEMORY_LIMIT, the evictions stand.      *)
AdmitRefused ==
  /\ stage = "admit"
  /\ ~Fits(request.need)
  /\ victims = {}
  /\ Unlock
  /\ UNCHANGED <<registryVars, sessionVars>>

Born(x, fate) ==
  /\ state[x] = "unborn"
  /\ state' = [state EXCEPT ![x] = fate]
  /\ name' = [name EXCEPT ![x] = request.id]
  /\ launch' = [launch EXCEPT ![x] = request.launch]
  /\ capacity' = [capacity EXCEPT ![x] = request.need]

Spawned(x) ==
  /\ stage = "spawn"
  /\ Born(x, "alive")
  /\ sessions' = [sessions EXCEPT ![request.id] = x]
  /\ Touch(request.id)
  /\ Unlock
  /\ UNCHANGED <<used, refused>>

(* Mutation of SpawnFailed: the reservation is not refunded.               *)
SpawnFailedKeeps ==
  /\ stage = "spawn"
  /\ UNCHANGED <<used, sessionVars>>
  /\ Unlock
  /\ UNCHANGED <<sessions, tick, access>>

(* SPAWN_FAILED refunds the reservation.  The child may be running         *)
(* already, as its threads start after it; nothing stops it then.          *)
SpawnFailed ==
  /\ stage = "spawn"
  /\ used' = IF used >= request.need THEN used - request.need ELSE 0
  /\ refused' = refused \cup {request.id}
  /\ \/ UNCHANGED childVars
     \/ ThreadsFail /\ \E x \in Sessions : Born(x, "stray")
  /\ Unlock
  /\ UNCHANGED <<sessions, tick, access>>

-----------------------------------------------------------------------------
(* The other requests and the children.                                    *)

(* get touches the session, whatever the request is for: attach, detach,   *)
(* input, resize, kill, readBuffer, updateMetadata.                        *)
Get(id) ==
  /\ Unlocked
  /\ Registered(id)
  /\ Touch(id)
  /\ UNCHANGED <<sessions, used, createVars, sessionVars>>

(* Mutation of Purge: a live session is purged as well.                    *)
PurgeAlive(id) ==
  /\ Unlocked
  /\ Registered(id)
  /\ RemoveSession(id)
  /\ UNCHANGED <<createVars, sessionVars>>

(* purge removes a tombstone; an unknown or a live session is refused.     *)
Purge(id) ==
  /\ Unlocked
  /\ Tombstone(id)
  /\ RemoveSession(id)
  /\ UNCHANGED <<createVars, sessionVars>>

Exit(x) ==
  /\ state[x] \in {"alive", "stray"}
  /\ state' = [state EXCEPT ![x] = "dead"]
  /\ UNCHANGED <<registryVars, createVars, name, launch, capacity, refused>>

Create ==
  \/ \E id \in Ids, l \in Launches :
       \/ CreateExisting(id, l)
       \/ \E need \in Capacities : CreateNew(id, l, need)
  \/ \E id \in Ids : AdmitEvict(id)
  \/ AdmitFits \/ AdmitRefused \/ SpawnFailed
  \/ \E x \in Sessions : Spawned(x)

Next ==
  \/ Create
  \/ \E id \in Ids : Get(id) \/ Purge(id)
  \/ \E x \in Sessions : Exit(x)

Spec == Init /\ [][Next]_vars

-----------------------------------------------------------------------------
(* Types; a create that holds the mutex has a request, and only then.      *)
TypeOK ==
  /\ sessions \in [Ids -> Sessions \cup {None}]
  /\ used \in Nat
  /\ tick \in Nat /\ access \in [Ids -> Nat]
  /\ stage \in Stages
  /\ request \in IF Unlocked THEN {None} ELSE Request
  /\ victims \subseteq Ids
  /\ state \in [Sessions -> States]
  /\ name \in [Sessions -> Ids \cup {None}]
  /\ launch \in [Sessions -> Launches \cup {None}]
  /\ capacity \in [Sessions -> Nat]
  /\ refused \subseteq Ids

Kept     == {x \in Sessions : \E id \in Ids : sessions[id] = x}
Rings    == [x \in Kept |-> capacity[x]]
Reserved == IF stage = "spawn" THEN request.need ELSE 0

(* The bytes in use never exceed the cap, and they are the capacities of   *)
(* the registered sessions and the reservation of a create in progress,    *)
(* whichever creates failed and whatever was evicted or purged.            *)
WithinCap == used <= MemoryLimit
Accounted == WithinCap /\ used = Total(Rings) + Reserved

(* A live child is never evicted nor purged: it stays reachable under its  *)
(* own id.                                                                 *)
LiveReachable ==
  \A x \in Sessions : state[x] = "alive" =>
    name[x] # None /\ sessions[name[x]] = x

(* An idempotent create does not spawn twice: a caller that repeats it, for*)
(* a lost answer or after an eviction, never gives an id a second running  *)
(* child.  The code has one exception: a create that was answered with     *)
(* SPAWN_FAILED may have left its child running, unregistered, so that a   *)
(* retry starts another; even then at most one of them is registered.      *)
Running(x) == state[x] \in {"alive", "stray"}
OneChildPerId ==
  \A x, y \in Sessions :
    Running(x) /\ Running(y) /\ name[x] = name[y] /\ x # y =>
      name[x] \in refused /\ (state[x] = "stray" \/ state[y] = "stray")

(* No two registered sessions share an access tick, so which tombstone is  *)
(* the least recently used is never in doubt.                              *)
RecencyTotal ==
  \A a, b \in Ids :
    Registered(a) /\ Registered(b) /\ access[a] = access[b] => a = b
=============================================================================
