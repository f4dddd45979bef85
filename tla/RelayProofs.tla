---------------------------- MODULE RelayProofs ----------------------------
(***************************************************************************)
(* Theorems about Relay, for any number of nodes, links and requests: an   *)
(* entry is connected exactly while its own control loop runs, and no      *)
(* stream is turned away from a request that waits for it.                 *)
(***************************************************************************)
EXTENDS Relay, TLAPS

Entry == [known : BOOLEAN, connected : BOOLEAN, gen : Links \cup {Nobody}, fresh : BOOLEAN, ds : Views]
Link == [loop : {"unused", "hello", "registered", "ended"}, node : Nodes \cup {Nobody},
         up : Seq(Views), down : Seq(Reqs), open : BOOLEAN]
Req == [pc : {"new", "mint", "open", "waiting", "forwarding", "served", "unknown_node", "node_offline",
              "downstream_unreachable", "timed_out", "cancelled"},
        target : Targets \cup {Nobody}, via : Nodes \cup {Nobody}, ctrl : Links \cup {Nobody}]
Stages == {"none", "dialling", "arrived", "spliced", "failed"}

Types == /\ entry \in [Nodes -> Entry] /\ link \in [Links -> Link]
         /\ agent \in [Nodes -> Links \cup {Nobody}]
         /\ view \in Views /\ told \in Views
         /\ pending \subseteq Reqs /\ req \in [Reqs -> Req]
         /\ stream \in [Reqs -> Stages]

(* A link with one end, one queue or one place changed.                    *)
LEMMA LinkWith ==
  ASSUME NEW x \in Link, NEW up \in Seq(Views), NEW down \in Seq(Reqs), NEW open \in BOOLEAN,
         NEW loop \in {"unused", "hello", "registered", "ended"}
  PROVE  /\ [x EXCEPT !.loop = loop, !.up = up] \in Link
         /\ [x EXCEPT !.up = up] \in Link
         /\ [x EXCEPT !.down = down] \in Link
         /\ [x EXCEPT !.open = open, !.down = down] \in Link
BY DEF Link

(* A link just dialled.                                                    *)
LEMMA NewLink ==
  ASSUME NEW up \in Seq(Views), NEW open \in BOOLEAN, NEW n \in Nodes
  PROVE  [NoLink EXCEPT !.loop = "hello", !.node = n, !.open = open, !.up = up] \in Link
<1>1. <<>> \in Seq(Reqs)
  OBVIOUS
<1> QED BY <1>1 DEF Link, NoLink

(* An entry that hears of a probe, or goes stale.                          *)
LEMMA EntryWith ==
  ASSUME NEW x \in Entry, NEW ds \in Views, NEW fresh \in BOOLEAN
  PROVE  [x EXCEPT !.ds = ds, !.fresh = fresh] \in Entry
BY DEF Entry

(* One link replaced.                                                      *)
LEMMA LinkChanged == ASSUME link \in [Links -> Link], NEW l, NEW x \in Link PROVE [link EXCEPT ![l] = x] \in [Links -> Link]
OBVIOUS

(* Nothing under way.                                                      *)
LEMMA Empty == <<>> \in Seq(Views) /\ <<>> \in Seq(Reqs)
OBVIOUS

(* Each group of actions keeps the types.                                  *)
LEMMA LinkTypes ==
  ASSUME Types, \/ \E n \in Nodes : Dial(n) \/ GoesStale(n) \/ Breaks(n) \/ TakeOpen(n)
                \/ \E l \in Links : Control(l) \/ Touch(l) \/ LoopEnds(l)
                \/ Probe \/ Advertise
  PROVE  Types'
<1> USE NodesAssumption DEF Types
<1>1. ASSUME NEW n \in Nodes, Dial(n) PROVE Types'
  <2>1. PICK l \in Links :
          /\ link' = [link EXCEPT ![l] = [NoLink EXCEPT !.loop = "hello", !.node = n, !.open = TRUE, !.up = <<HelloSays(n)>>]]
          /\ agent' = [agent EXCEPT ![n] = l]
    BY <1>1 DEF Dial
  <2>2. HelloSays(n) \in Views
    BY DEF HelloSays, Views
  <2>3. <<HelloSays(n)>> \in Seq(Views) /\ TRUE \in BOOLEAN
    BY <2>2
  <2>4. [NoLink EXCEPT !.loop = "hello", !.node = n, !.open = TRUE, !.up = <<HelloSays(n)>>] \in Link
    BY <2>3, NewLink
  <2>6. link' \in [Links -> Link]
    BY <2>1, <2>4
  <2> QED BY <1>1, <2>1, <2>6 DEF Dial
<1>2. ASSUME NEW l \in Links, Register(l) \/ Advertised(l) \/ LoopEnds(l) PROVE Types'
  <2>1. link[l].up # <<>> => Tail(link[l].up) \in Seq(Views) /\ Head(link[l].up) \in Views
    BY DEF Link
  <2>2. link' \in [Links -> Link]
    <3>1. CASE Register(l)
      <4>1. link' = [link EXCEPT ![l] = [link[l] EXCEPT !.loop = "registered", !.up = Tail(link[l].up)]]
        BY <3>1 DEF Register
      <4>2. [link[l] EXCEPT !.loop = "registered", !.up = Tail(link[l].up)] \in Link
        BY <2>1, <3>1 DEF Register, Link
      <4> QED BY <4>1, <4>2
    <3>2. CASE Advertised(l)
      <4>1. link' = [link EXCEPT ![l] = [link[l] EXCEPT !.up = Tail(link[l].up)]]
        BY <3>2 DEF Advertised
      <4>2. [link[l] EXCEPT !.up = Tail(link[l].up)] \in Link
        BY <2>1, <3>2 DEF Advertised, Link
      <4> QED BY <4>1, <4>2
    <3>3. CASE LoopEnds(l)
      <4>1. link' = [link EXCEPT ![l] = [link[l] EXCEPT !.loop = "ended", !.up = <<>>]]
        BY <3>3 DEF LoopEnds
      <4>2. [link[l] EXCEPT !.loop = "ended", !.up = <<>>] \in Link
        BY Empty DEF Link
      <4> QED BY <4>1, <4>2
    <3> QED BY <1>2, <3>1, <3>2, <3>3
  <2>3. CASE UNCHANGED entry
    BY <1>2, <2>2, <2>3 DEF Register, Advertised, LoopEnds
  <2>4. CASE LoopEnds(l) /\ entry' = Disconnect(l)
    BY ZenonT(60), <2>2, <2>4 DEF LoopEnds, Disconnect, Entry
  <2>5. CASE Register(l) \/ (Advertised(l) /\ ~UNCHANGED entry)
    <3>1. Head(link[l].up) \in Views
      BY <2>1, <2>5 DEF Register, Advertised
    <3>2. entry' \in [Nodes -> Entry]
      <4>1. CASE Register(l)
        <5>1. [known |-> TRUE, connected |-> TRUE, gen |-> l, fresh |-> TRUE, ds |-> Head(link[l].up)] \in Entry
          BY <3>1 DEF Entry
        <5> QED BY <4>1, <5>1 DEF Register
      <4>2. CASE Advertised(l)
        <5> DEFINE n == link[l].node
        <5>1. CASE n \notin Nodes
          BY <4>2, <5>1 DEF Advertised
        <5>2. CASE n \in Nodes
          <6>1. [entry[n] EXCEPT !.ds = Head(link[l].up), !.fresh = TRUE] \in Entry
            BY <3>1, <5>2, EntryWith
          <6>2. entry' = entry \/ entry' = [entry EXCEPT ![n] = [entry[n] EXCEPT !.ds = Head(link[l].up), !.fresh = TRUE]]
            BY <4>2, <5>2 DEF Advertised
          <6> QED BY <6>1, <6>2
        <5> QED BY <5>1, <5>2
      <4> QED BY <2>5, <4>1, <4>2
    <3> QED BY <2>2, <2>5, <3>2 DEF Register, Advertised
  <2> QED BY <1>2, <2>3, <2>4, <2>5 DEF LoopEnds
<1>3. ASSUME NEW n \in Nodes, GoesStale(n) PROVE Types'
  BY <1>3 DEF GoesStale, Entry
<1>4. ASSUME NEW n \in Nodes, Breaks(n) PROVE Types'
  <2> DEFINE l == agent[n]
  <2>1. l \in Links
    BY <1>4 DEF Breaks
  <2>2. link' = [link EXCEPT ![l] = [link[l] EXCEPT !.open = FALSE, !.down = <<>>]]
    BY <1>4 DEF Breaks
  <2>3. [link[l] EXCEPT !.open = FALSE, !.down = <<>>] \in Link
    <3>1. FALSE \in BOOLEAN
      OBVIOUS
    <3> QED BY <2>1, <3>1, Empty, LinkWith, <1>4
  <2> QED BY ZenonT(60), <1>4, <2>2, <2>3 DEF Breaks
<1>5. CASE Probe
  BY <1>5 DEF Probe, Views
<1>6. CASE Advertise
  <2> DEFINE l == agent[Gateway]
             up == Append(link[l].up, view)
  <2>1. l \in Links /\ up \in Seq(Views)
    BY <1>6 DEF Advertise, Link
  <2>2. link' = link \/ link' = [link EXCEPT ![l] = [link[l] EXCEPT !.up = up]]
    BY <1>6 DEF Advertise
  <2>3. [link[l] EXCEPT !.up = up] \in Link
    BY <2>1, LinkWith, Empty
  <2> HIDE DEF up
  <2>4. link' \in [Links -> Link]
    BY <2>2, <2>3
  <2> QED BY <1>6, <2>4 DEF Advertise
<1>7. ASSUME NEW n \in Nodes, TakeOpen(n) PROVE Types'
  <2> DEFINE l == agent[n]
             r == Head(link[l].down)
  <2>1. l \in Links
    BY <1>7 DEF TakeOpen
  <2>2. link[l].down # <<>> /\ link[l].down \in Seq(Reqs)
    BY <1>7, <2>1 DEF TakeOpen, Link
  <2>4. r \in Reqs /\ Tail(link[l].down) \in Seq(Reqs)
    BY <2>2
  <2>5. link' = [link EXCEPT ![l] = [link[l] EXCEPT !.down = Tail(link[l].down)]]
    BY <1>7 DEF TakeOpen
  <2>6. [link[l] EXCEPT !.down = Tail(link[l].down)] \in Link
    BY <2>1, <2>4, LinkWith, Empty
  <2>7. link' \in [Links -> Link]
    BY <2>5, <2>6
  <2>3. stream' \in [Reqs -> Stages]
    BY <1>7, <2>4 DEF TakeOpen, Stages
  <2> QED BY <1>7, <2>7, <2>3 DEF TakeOpen
<1>8. ASSUME NEW l \in Links, Touch(l) PROVE Types'
  BY <1>8 DEF Touch, Entry
<1> QED BY <1>1, <1>2, <1>3, <1>4, <1>5, <1>6, <1>7, <1>8 DEF Control, SeesClose

(* So does each step of a request.                                         *)
LEMMA RequestTypes ==
  ASSUME Types, NEW r \in Reqs, \/ \E t \in Targets : Route(r, t)
                                \/ Proxy(r) \/ ClientLeaves(r)
                                \/ Paired(r) \/ Splice(r) \/ DialFails(r) \/ Served(r)
  PROVE  Types'
<1> USE DEF Types
<1>1. ASSUME NEW t \in Targets, Route(r, t) PROVE Types'
  <2>1. Via(t) \subseteq Nodes
    BY DEF Via, Direct
  <2>2. req' \in [Reqs -> Req]
    <3>1. CASE \E what \in {"unknown_node", "node_offline", "downstream_unreachable"} : Answer(r, what)
      BY <3>1 DEF Answer, Req
    <3>2. CASE \E n \in Via(t) : req' = [req EXCEPT ![r] = [@ EXCEPT !.pc = "mint", !.target = t, !.via = n, !.ctrl = entry[n].gen]]
      <4>1. PICK n \in Nodes : req' = [req EXCEPT ![r] = [req[r] EXCEPT !.pc = "mint", !.target = t, !.via = n, !.ctrl = entry[n].gen]]
        BY <2>1, <3>2
      <4>2. entry[n].gen \in Links \cup {Nobody}
        BY DEF Entry
      <4>3. [req[r] EXCEPT !.pc = "mint", !.target = t, !.via = n, !.ctrl = entry[n].gen] \in Req
        BY ZenonT(60), <4>2 DEF Req
      <4> QED BY <4>1, <4>3
    <3> QED BY <1>1, <3>1, <3>2 DEF Route
  <2> QED BY <1>1, <2>2 DEF Route
<1>2. CASE Mint(r) \/ TimeOut(r) \/ ClientLeaves(r) \/ Served(r) \/ ForwardFails(r)
  <2>1. \E what \in {"open", "timed_out", "cancelled", "served", "node_offline", "downstream_unreachable"} :
          req' = [req EXCEPT ![r].pc = what]
    BY <1>2 DEF Mint, TimeOut, ClientLeaves, Served, ForwardFails, Answer
  <2>2. req' \in [Reqs -> Req]
    BY <2>1 DEF Req
  <2>3. pending' \subseteq Reqs /\ UNCHANGED <<entry, link, agent, view, told, stream>>
    BY <1>2 DEF Mint, TimeOut, ClientLeaves, Served, ForwardFails
  <2> QED BY <2>2, <2>3
<1>3. CASE Open(r)
  <2>1. req' \in [Reqs -> Req] /\ pending' \subseteq Reqs
    BY <1>3 DEF Open, Answer, Req
  <2>2. link' \in [Links -> Link]
    <3> DEFINE l == req[r].ctrl
    <3>1. CASE UNCHANGED link \/ l \notin Links
      BY <1>3, <3>1 DEF Open
    <3>2. CASE l \in Links /\ ~UNCHANGED link
      <4>1. link[l].down \in Seq(Reqs) /\ Append(link[l].down, r) \in Seq(Reqs)
        BY <3>2 DEF Link
      <4>2. PICK down \in Seq(Reqs) : link' = [link EXCEPT ![l] = [link[l] EXCEPT !.down = down]]
        BY <1>3, <3>2, <4>1 DEF Open
      <4>3. [link[l] EXCEPT !.down = down] \in Link
        BY <3>2, LinkWith, Empty
      <4> QED BY <4>2, <4>3
    <3> QED BY <3>1, <3>2
  <2> QED BY <1>3, <2>1, <2>2 DEF Open
<1>4. CASE Paired(r)
  <2>1. req' = req \/ req' = [req EXCEPT ![r].pc = "forwarding"]
    BY <1>4 DEF Paired
  <2>2. req' \in [Reqs -> Req]
    BY <2>1 DEF Req
  <2> QED BY <1>4, <2>2 DEF Paired, Stages
<1>5. CASE Splice(r) \/ DialFails(r)
  BY <1>5 DEF Splice, DialFails, Stages
<1> QED BY <1>1, <1>2, <1>3, <1>4, <1>5 DEF Proxy

(* The types hold initially.                                               *)
LEMMA TypesHold == Init => Types
<1>1. NoLink \in Link
  BY Empty DEF NoLink, Link
<1>2. NoEntry \in Entry
  BY DEF NoEntry, Entry, Views
<1>3. NoReq \in Req
  BY DEF NoReq, Req
<1> QED BY <1>1, <1>2, <1>3 DEF Init, Types, Views, Stages

(* Every step keeps them.                                                  *)
LEMMA TypesStep == Types /\ [Next]_vars => Types'
<1>1. Types /\ Next => Types'
  BY LinkTypes, RequestTypes DEF Next
<1>2. Types /\ UNCHANGED vars => Types'
  BY DEF Types, vars
<1> QED BY <1>1, <1>2

(***************************************************************************)
(* The registry: the link that an entry names registered for that node,    *)
(* and a link belongs to one node for good.                                *)
(***************************************************************************)
OfItsNode == /\ \A n \in Nodes : entry[n].known =>
                  /\ entry[n].gen \in Links
                  /\ link[entry[n].gen].node = n
                  /\ link[entry[n].gen].loop \in {"registered", "ended"}
             /\ \A l \in Links : link[l].loop # "unused" => link[l].node \in Nodes
RegistryInv == OfItsNode /\ EntryFollowsLoop

\* what a step does to a link that no control loop is concerned with
LEMMA Unconcerned ==
  ASSUME Types, RegistryInv, UNCHANGED entry,
         \A l \in Links : /\ (link'[l]).loop = link[l].loop /\ (link'[l]).node = link[l].node
  PROVE  RegistryInv'
BY DEF RegistryInv, OfItsNode, EntryFollowsLoop

(* A control loop registers its node, hears of the probe, or ends: only    *)
(* the loop that registered last touches what the entry says of it.        *)
LEMMA LoopStep ==
  ASSUME Types, RegistryInv, NEW l \in Links, Register(l) \/ Advertised(l) \/ LoopEnds(l)
  PROVE  RegistryInv'
<1> USE DEF RegistryInv
<1> DEFINE n == link[l].node
<1>1. n \in Nodes
  BY DEF OfItsNode, Register, Advertised, LoopEnds
<1>2. CASE Register(l)
  <2>1. /\ entry' = [entry EXCEPT ![n] = [known |-> TRUE, connected |-> TRUE, gen |-> l, fresh |-> TRUE, ds |-> Head(link[l].up)]]
        /\ link[l].loop = "hello"
    BY <1>2 DEF Register
  <2>2. /\ link'[l].loop = "registered" /\ link'[l].node = n
        /\ \A k \in Links : k # l => link'[k] = link[k]
    BY <1>2 DEF Register, Types, Link
  <2>3. /\ entry'[n].known /\ entry'[n].connected /\ entry'[n].gen = l
        /\ \A m \in Nodes : m # n => entry'[m] = entry[m]
    BY <1>1, <2>1 DEF Types, Entry
  <2>4. \A m \in Nodes : entry[m].known => entry[m].gen # l
    BY <2>1 DEF OfItsNode
  <2>5. OfItsNode'
    BY <1>1, <2>2, <2>3, <2>4 DEF OfItsNode
  <2>6. EntryFollowsLoop'
    BY <2>2, <2>3, <2>4 DEF EntryFollowsLoop, OfItsNode
  <2> QED BY <2>5, <2>6
<1>3. CASE Advertised(l)
  <2>1. \A k \in Links : link'[k].loop = link[k].loop /\ link'[k].node = link[k].node
    BY <1>3 DEF Advertised, Types, Link
  <2>2. \A m \in Nodes : entry'[m].known = entry[m].known /\ entry'[m].connected = entry[m].connected /\ entry'[m].gen = entry[m].gen
    BY <1>3 DEF Advertised, Types, Entry
  <2> QED BY <2>1, <2>2 DEF OfItsNode, EntryFollowsLoop
<1>4. CASE LoopEnds(l)
  <2>1. /\ link'[l].loop = "ended" /\ link'[l].node = n
        /\ \A k \in Links : k # l => link'[k] = link[k]
    BY <1>4 DEF LoopEnds, Types, Link
  <2>2. \A m \in Nodes : entry'[m].known = entry[m].known /\ entry'[m].gen = entry[m].gen
    BY <1>4 DEF LoopEnds, Disconnect, Types, Entry
  <2>3. OfItsNode'
    BY <1>1, <2>1, <2>2 DEF OfItsNode
  <2>4. ASSUME NEW m \in Nodes, entry'[m].known
        PROVE  entry'[m].connected <=> link'[entry'[m].gen].loop = "registered"
    <3>1. entry[m].known /\ entry[m].gen \in Links /\ link[entry[m].gen].node = m
      BY <2>2, <2>4 DEF OfItsNode
    <3>2. CASE entry[m].gen = l
      <4>1. m = n /\ Owns(l)
        BY <3>1, <3>2 DEF Owns
      <4>2. CASE link[l].loop = "registered"
        <5>1. entry' = [entry EXCEPT ![n].connected = FALSE]
          BY <1>4, <4>1, <4>2 DEF LoopEnds, Disconnect
        <5>2. ~entry'[m].connected
          BY <4>1, <5>1 DEF Types, Entry
        <5> QED BY <2>1, <2>2, <3>2, <5>2
      <4>3. CASE link[l].loop = "hello"
        BY <3>1, <3>2, <4>3 DEF OfItsNode
      <4> QED BY <1>4, <4>2, <4>3 DEF LoopEnds
    <3>3. CASE entry[m].gen # l
      <4>1. entry'[m] = entry[m]
        BY <1>1, <1>4, <3>1, <3>3 DEF LoopEnds, Disconnect, Owns, Types
      <4> QED BY <2>1, <2>4, <3>1, <3>3, <4>1 DEF EntryFollowsLoop
    <3> QED BY <3>2, <3>3
  <2> QED BY <2>3, <2>4 DEF EntryFollowsLoop
<1> QED BY <1>2, <1>3, <1>4

\* an Open is queued on one link, or on none
LEMMA OpenLinks ==
  ASSUME Types, NEW r \in Reqs, Open(r)
  PROVE  \A l \in Links : /\ (link'[l]).loop = link[l].loop
                          /\ (link'[l]).node = link[l].node
                          /\ \/ (link'[l]).down = link[l].down
                             \/ (link'[l]).down = Append(link[l].down, r) /\ req' = [req EXCEPT ![r].pc = "waiting"]
<1>1. CASE UNCHANGED link
  BY <1>1
<1>2. CASE ~UNCHANGED link
  <2> DEFINE c == req[r].ctrl
             down == Append(link[c].down, r)
  <2>1. link' = [link EXCEPT ![c] = [link[c] EXCEPT !.down = down]] /\ req' = [req EXCEPT ![r].pc = "waiting"]
    BY <1>2 DEF Open, Answer
  <2>2. c \in Links
    BY <1>2, <2>1 DEF Types
  <2>3. link'[c] = [link[c] EXCEPT !.down = down] /\ \A l \in Links : l # c => link'[l] = link[l]
    BY <2>1, <2>2 DEF Types
  <2>4. link[c] \in Link
    BY <2>2 DEF Types
  <2>5. /\ (link'[c]).loop = link[c].loop /\ (link'[c]).node = link[c].node /\ (link'[c]).down = down
    <3> HIDE DEF down
    <3> QED BY <2>3, <2>4 DEF Link
  <2> QED BY <2>1, <2>3, <2>5
<1> QED BY <1>1, <1>2

(* Every step keeps an entry with its loop.                                *)
LEMMA RegistryStep == Types /\ RegistryInv /\ [Next]_vars => RegistryInv'
<1> SUFFICES ASSUME Types, RegistryInv, [Next]_vars PROVE RegistryInv'
  OBVIOUS
<1>1. ASSUME NEW n \in Nodes, Dial(n) PROVE RegistryInv'
  <2>1. PICK l \in Links :
          /\ link[l].loop = "unused"
          /\ link' = [link EXCEPT ![l] = [NoLink EXCEPT !.loop = "hello", !.node = n, !.open = TRUE, !.up = <<HelloSays(n)>>]]
    BY <1>1 DEF Dial
  <2>2. /\ link'[l].loop = "hello" /\ link'[l].node = n
        /\ \A k \in Links : k # l => link'[k] = link[k]
    BY <2>1 DEF Types, NoLink
  <2>3. UNCHANGED entry
    BY <1>1 DEF Dial
  <2>4. \A m \in Nodes : entry[m].known => entry[m].gen # l
    BY <2>1 DEF RegistryInv, OfItsNode
  <2> QED BY <2>2, <2>3, <2>4 DEF RegistryInv, OfItsNode, EntryFollowsLoop
<1>2. ASSUME NEW l \in Links, Control(l) PROVE RegistryInv'
  BY <1>2, LoopStep DEF Control, SeesClose
<1>3. ASSUME NEW n \in Nodes, GoesStale(n) PROVE RegistryInv'
  <2>1. /\ \A m \in Nodes : entry'[m].known = entry[m].known /\ entry'[m].connected = entry[m].connected /\ entry'[m].gen = entry[m].gen
        /\ UNCHANGED link
    BY <1>3 DEF GoesStale, Types, Entry
  <2> QED BY <2>1 DEF RegistryInv, OfItsNode, EntryFollowsLoop
<1>4. CASE UNCHANGED <<entry, link>>
  BY <1>4 DEF RegistryInv, OfItsNode, EntryFollowsLoop
<1>5. ASSUME NEW n \in Nodes, Breaks(n) \/ TakeOpen(n) PROVE RegistryInv'
  <2>1. UNCHANGED entry
    BY <1>5 DEF Breaks, TakeOpen
  <2>2. \A l \in Links : /\ (link'[l]).loop = link[l].loop
                        /\ (link'[l]).node = link[l].node
    <3>1. CASE Breaks(n)
      BY <3>1 DEF Breaks, Types, Link
    <3>2. CASE TakeOpen(n)
      BY <3>2 DEF TakeOpen, Types, Link
    <3> QED BY <1>5, <3>1, <3>2
  <2> QED BY <2>1, <2>2, Unconcerned
<1>6. CASE Advertise
  <2>1. \A l \in Links : /\ (link'[l]).loop = link[l].loop
                        /\ (link'[l]).node = link[l].node
    BY <1>6 DEF Advertise, Types, Link
  <2> QED BY <1>6, <2>1, Unconcerned DEF Advertise
<1>7. ASSUME NEW r \in Reqs, Open(r) PROVE RegistryInv'
  <2>1. UNCHANGED entry
    BY <1>7 DEF Open
  <2> QED BY <1>7, <2>1, OpenLinks, Unconcerned
<1>8. CASE Probe
  BY <1>4, <1>8 DEF Probe
<1>9. ASSUME NEW r \in Reqs, \/ \E t \in Targets : Route(r, t)
                             \/ Mint(r) \/ TimeOut(r) \/ ForwardFails(r) \/ ClientLeaves(r)
                             \/ Paired(r) \/ Splice(r) \/ DialFails(r) \/ Served(r)
      PROVE  RegistryInv'
  BY <1>4, <1>9 DEF Route, Mint, TimeOut, ForwardFails, ClientLeaves, Paired, Splice, DialFails, Served
<1>10. ASSUME NEW l \in Links, LoopEnds(l) PROVE RegistryInv'
  BY <1>10, LoopStep
<1>11. ASSUME NEW l \in Links, Touch(l) PROVE RegistryInv'
  <2>1. /\ \A m \in Nodes : entry'[m].known = entry[m].known /\ entry'[m].connected = entry[m].connected /\ entry'[m].gen = entry[m].gen
        /\ UNCHANGED link
    BY <1>11 DEF Touch, Types, Entry
  <2> QED BY <2>1 DEF RegistryInv, OfItsNode, EntryFollowsLoop
<1> QED BY <1>1, <1>2, <1>3, <1>4, <1>5, <1>6, <1>7, <1>8, <1>9, <1>10, <1>11 DEF Next, Proxy, vars

(* A node's entry is connected exactly while the control loop that         *)
(* registered it last runs (server.rs, Registry::disconnect): the end of   *)
(* an earlier link, however late, does not take the node off line.         *)
THEOREM EntryAlwaysFollowsLoop == Spec => []EntryFollowsLoop
<1>1. Init => RegistryInv
  BY DEF Init, RegistryInv, OfItsNode, EntryFollowsLoop, NoEntry, NoLink
<1> QED BY <1>1, TypesHold, TypesStep, RegistryStep, PTL DEF Spec, RegistryInv

(***************************************************************************)
(* Requests.  An Open on its way to a node, and the stream that the node   *)
(* dials for it, are of a request that has been sent: it waits, is         *)
(* forwarded, or is over.                                                  *)
(***************************************************************************)
Out(pc) == pc \notin {"new", "mint", "open"}
Flight == /\ \A l \in Links : \A i \in DOMAIN link[l].down : Out(req[link[l].down[i]].pc)
          /\ \A r \in Reqs : stream[r] = "dialling" => Out(req[r].pc)
Minted == \A r \in Reqs : req[r].pc = "open" => r \in pending
RequestInv == Flight /\ Minted /\ PendingIsWaiting

\* what leaves the requests, and the Opens on their way, as they are
LEMMA Elsewhere ==
  ASSUME Types, RequestInv, UNCHANGED <<req, pending, stream>>,
         \A l \in Links : link'[l].down = link[l].down \/ link'[l].down = <<>>
  PROVE  RequestInv'
BY DEF RequestInv, Minted, Flight, Out, PendingIsWaiting

\* what happens to a request that is not out yet, or is put out
LEMMA TakeOpenStep == ASSUME Types, RequestInv, NEW n \in Nodes, TakeOpen(n) PROVE RequestInv'
<1> DEFINE l == agent[n]
           r == Head(link[l].down)
<1>1. /\ l \in Links /\ link[l].down # <<>> /\ link[l].down \in Seq(Reqs)
      /\ UNCHANGED <<req, pending>>
  BY DEF TakeOpen, Types, Link
<1>2. /\ r \in Reqs /\ r = link[l].down[1] /\ 1 \in DOMAIN link[l].down
      /\ \A i \in DOMAIN Tail(link[l].down) : Tail(link[l].down)[i] = link[l].down[i + 1] /\ i + 1 \in DOMAIN link[l].down
  BY <1>1
<1>3. Out(req[r].pc)
  BY <1>1, <1>2 DEF RequestInv, Flight
<1>4. /\ link'[l].down = Tail(link[l].down)
      /\ \A k \in Links : k # l => link'[k] = link[k]
  BY <1>1 DEF TakeOpen, Types, Link
<1>5. \A k \in Links : \A i \in DOMAIN (link'[k]).down : Out(req[(link'[k]).down[i]].pc)
  <2>1. ASSUME NEW i \in DOMAIN (link'[l]).down PROVE Out(req[(link'[l]).down[i]].pc)
    BY <1>1, <1>2, <1>4, <2>1 DEF RequestInv, Flight
  <2>2. ASSUME NEW k \in Links, k # l, NEW i \in DOMAIN (link'[k]).down PROVE Out(req[(link'[k]).down[i]].pc)
    <3>1. link'[k] = link[k]
      BY <1>4, <2>2
    <3> QED BY <2>2, <3>1 DEF RequestInv, Flight
  <2> QED BY <2>1, <2>2
<1>6. \A q \in Reqs : q # r => stream'[q] = stream[q]
  BY DEF TakeOpen, Types
<1>7. \A q \in Reqs : stream'[q] = "dialling" => Out(req[q].pc)
  BY <1>3, <1>6 DEF RequestInv, Flight
<1> QED BY <1>1, <1>5, <1>7 DEF RequestInv, Minted, Flight, Out, PendingIsWaiting

\* a request changes its place, and leaves the links alone
LEMMA RequestMoves ==
  ASSUME Types, RequestInv, NEW r \in Reqs, UNCHANGED <<link, stream>>,
         \A q \in Reqs \ {r} : req'[q] = req[q] /\ (q \in pending' <=> q \in pending),
         pending' \subseteq Reqs,
         Out(req[r].pc) => Out((req'[r]).pc),
         r \in pending' => (req'[r]).pc \in {"open", "waiting", "cancelled"},
         (req'[r]).pc \in {"open", "waiting"} => r \in pending'
  PROVE  RequestInv'
<1>1. \A q \in Reqs : Out(req[q].pc) => Out((req'[q]).pc)
  BY DEF Out
<1>2. Flight'
  <2>1. ASSUME NEW l \in Links, NEW i \in DOMAIN link[l].down PROVE Out((req'[link[l].down[i]]).pc)
    <3>1. link[l].down[i] \in Reqs
      BY <2>1 DEF Types, Link
    <3>2. Out(req[link[l].down[i]].pc)
      BY <2>1 DEF RequestInv, Flight
    <3> QED BY <1>1, <3>1, <3>2
  <2> QED BY <1>1, <2>1 DEF RequestInv, Flight
<1>3. PendingIsWaiting' /\ Minted'
  BY DEF RequestInv, Minted, PendingIsWaiting
<1> QED BY <1>2, <1>3 DEF RequestInv

(* An Open is sent, or its link has gone.                                  *)
LEMMA OpenStep == ASSUME Types, RequestInv, NEW r \in Reqs, Open(r) PROVE RequestInv'
<1>1. req[r].pc = "open" /\ UNCHANGED stream
  BY DEF Open
<1>2. PICK what \in {"waiting", "node_offline"} : req' = [req EXCEPT ![r].pc = what]
  BY DEF Open, Answer
<1>3. /\ (req'[r]).pc = what
      /\ \A q \in Reqs \ {r} : req'[q] = req[q]
  BY <1>2 DEF Types, Req
<1>4. \A q \in Reqs : Out(req[q].pc) => Out((req'[q]).pc)
  BY <1>1, <1>3 DEF Out
<1>5. ASSUME NEW l \in Links, NEW i \in DOMAIN (link'[l]).down
      PROVE  Out((req'[(link'[l]).down[i]]).pc)
  <2>1. CASE (link'[l]).down = link[l].down
    <3>1. link[l].down[i] \in Reqs /\ Out(req[link[l].down[i]].pc)
      BY <1>5, <2>1 DEF Types, Link, RequestInv, Flight
    <3> QED BY <1>4, <2>1, <3>1
  <2>2. CASE (link'[l]).down # link[l].down
    <3>1. link[l].down \in Seq(Reqs)
      BY DEF Types, Link
    <3>2. (link'[l]).down = Append(link[l].down, r) /\ (req'[r]).pc = "waiting"
      <4>1. \A k \in Links : /\ (link'[k]).loop = link[k].loop
                            /\ (link'[k]).node = link[k].node
                            /\ \/ (link'[k]).down = link[k].down
                               \/ (link'[k]).down = Append(link[k].down, r) /\ req' = [req EXCEPT ![r].pc = "waiting"]
        BY OpenLinks, Zenon
      <4>2. (link'[l]).down = Append(link[l].down, r) /\ req' = [req EXCEPT ![r].pc = "waiting"]
        BY <2>2, <4>1, Zenon
      <4> QED BY <4>2 DEF Types, Req
    <3>3. CASE i = Len(link[l].down) + 1
      BY <1>3, <3>1, <3>2, <3>3 DEF Out
    <3>4. CASE i # Len(link[l].down) + 1
      <4>1. i \in DOMAIN link[l].down /\ (link'[l]).down[i] = link[l].down[i]
        BY <1>5, <3>1, <3>2, <3>4
      <4>2. link[l].down[i] \in Reqs /\ Out(req[link[l].down[i]].pc)
        BY <3>1, <4>1 DEF RequestInv, Flight
      <4> QED BY <1>4, <4>1, <4>2
    <3> QED BY <3>3, <3>4
  <2> QED BY <2>1, <2>2
<1>6. Flight'
  BY <1>1, <1>4, <1>5 DEF RequestInv, Flight
<1>7. pending' \subseteq pending /\ (what = "waiting" => pending' = pending) /\ pending \ {r} \subseteq pending'
  BY <1>2, <1>3 DEF Open, Answer, Types, Req
<1>8. what # "waiting" => r \notin pending'
  BY <1>2, <1>3 DEF Open, Answer, Types, Req
<1>9. PendingIsWaiting' /\ Minted'
  <2>1. r \in pending
    BY <1>1 DEF RequestInv, Minted
  <2>2. ASSUME NEW q \in pending' PROVE (req'[q]).pc \in {"open", "waiting", "cancelled"}
    BY <1>2, <1>3, <1>7, <1>8, <2>2 DEF RequestInv, PendingIsWaiting, Types
  <2>3. ASSUME NEW q \in Reqs, (req'[q]).pc \in {"open", "waiting"} PROVE q \in pending'
    <3>1. CASE q = r
      BY <1>2, <1>3, <1>7, <2>1, <2>3, <3>1
    <3>2. CASE q # r
      BY <1>3, <1>7, <2>3, <3>2 DEF RequestInv, PendingIsWaiting, Minted
    <3> QED BY <3>1, <3>2
  <2> QED BY <2>2, <2>3 DEF PendingIsWaiting, Minted
<1> QED BY <1>6, <1>9 DEF RequestInv

(* Every step keeps the requests under way matched with their streams.     *)
LEMMA RequestStep == Types /\ RequestInv /\ [Next]_vars => RequestInv'
<1> SUFFICES ASSUME Types, RequestInv, [Next]_vars PROVE RequestInv'
  OBVIOUS
<1>1. CASE UNCHANGED vars
  BY <1>1, Elsewhere DEF vars
<1>2. ASSUME NEW n \in Nodes, Dial(n) \/ GoesStale(n) \/ Breaks(n) PROVE RequestInv'
  <2>1. UNCHANGED <<req, pending, stream>>
    BY <1>2 DEF Dial, GoesStale, Breaks
  <2>2. \A l \in Links : (link'[l]).down = link[l].down \/ (link'[l]).down = <<>>
    <3>1. CASE Dial(n)
      BY <3>1 DEF Dial, Types, Link, NoLink
    <3>2. CASE GoesStale(n)
      BY <3>2 DEF GoesStale
    <3>3. CASE Breaks(n)
      BY <3>3 DEF Breaks, Types, Link
    <3> QED BY <1>2, <3>1, <3>2, <3>3
  <2> QED BY <2>1, <2>2, Elsewhere
<1>3. ASSUME NEW n \in Nodes, TakeOpen(n) PROVE RequestInv'
  BY <1>3, TakeOpenStep
<1>4. ASSUME NEW l \in Links, Control(l) \/ Touch(l) \/ LoopEnds(l) PROVE RequestInv'
  <2>1. UNCHANGED <<req, pending, stream>>
    BY <1>4 DEF Control, SeesClose, Register, Advertised, LoopEnds, Touch
  <2>2. \A k \in Links : (link'[k]).down = link[k].down
    <3>1. CASE Register(l)
      BY <3>1 DEF Register, Types, Link
    <3>2. CASE Advertised(l)
      BY <3>2 DEF Advertised, Types, Link
    <3>3. CASE LoopEnds(l)
      BY <3>3 DEF LoopEnds, Types, Link
    <3>4. CASE Touch(l)
      BY <3>4 DEF Touch
    <3> QED BY <1>4, <3>1, <3>2, <3>3, <3>4 DEF Control, SeesClose
  <2> QED BY <2>1, <2>2, Elsewhere
<1>5. CASE Probe
  BY <1>5, Elsewhere DEF Probe
<1>6. CASE Advertise
  <2>1. UNCHANGED <<req, pending, stream>>
    BY <1>6 DEF Advertise
  <2>2. \A k \in Links : (link'[k]).down = link[k].down
    BY <1>6 DEF Advertise, Types, Link
  <2> QED BY <2>1, <2>2, Elsewhere
<1>7. ASSUME NEW r \in Reqs, NEW t \in Targets, Route(r, t) PROVE RequestInv'
  <2>1. req[r].pc = "new" /\ UNCHANGED <<link, pending, stream>>
    BY <1>7 DEF Route
  <2>2. PICK x : req' = [req EXCEPT ![r] = x] /\ x.pc \notin {"open", "waiting"}
    <3>1. req[r] \in Req
      BY DEF Types
    <3>2. ASSUME NEW what \in {"unknown_node", "node_offline", "downstream_unreachable"}, Answer(r, what)
          PROVE  \E x : req' = [req EXCEPT ![r] = x] /\ x.pc \notin {"open", "waiting"}
      <4>1. [req[r] EXCEPT !.pc = what].pc = what
        BY <3>1 DEF Req
      <4> WITNESS [req[r] EXCEPT !.pc = what]
      <4> QED BY <3>2, <4>1 DEF Answer
    <3>3. ASSUME NEW n, req' = [req EXCEPT ![r] = [@ EXCEPT !.pc = "mint", !.target = t, !.via = n, !.ctrl = entry[n].gen]]
          PROVE  \E x : req' = [req EXCEPT ![r] = x] /\ x.pc \notin {"open", "waiting"}
      <4>1. [req[r] EXCEPT !.pc = "mint", !.target = t, !.via = n, !.ctrl = entry[n].gen].pc = "mint"
        BY <3>1 DEF Req
      <4> WITNESS [req[r] EXCEPT !.pc = "mint", !.target = t, !.via = n, !.ctrl = entry[n].gen]
      <4> QED BY <3>3, <4>1
    <3> QED BY <1>7, <3>2, <3>3 DEF Route
  <2>3. req'[r] = x /\ \A q \in Reqs \ {r} : req'[q] = req[q]
    BY <2>2 DEF Types
  <2>4. r \notin pending
    BY <2>1 DEF RequestInv, PendingIsWaiting
  <2>5. ~Out(req[r].pc)
    BY <2>1 DEF Out
  <2> QED BY <2>1, <2>2, <2>3, <2>4, <2>5, RequestMoves DEF Types
<1>8. ASSUME NEW r \in Reqs, Mint(r) \/ TimeOut(r) \/ ClientLeaves(r) \/ Served(r) \/ ForwardFails(r)
      PROVE  RequestInv'
  <2>1. UNCHANGED <<link, stream>>
    BY <1>8 DEF Mint, TimeOut, ClientLeaves, Served, ForwardFails
  <2>2. PICK what \in {"open", "timed_out", "cancelled", "served", "node_offline", "downstream_unreachable"} :
          req' = [req EXCEPT ![r].pc = what]
    BY <1>8 DEF Mint, TimeOut, ClientLeaves, Served, ForwardFails, Answer
  <2>3. /\ (req'[r]).pc = what
        /\ \A q \in Reqs \ {r} : req'[q] = req[q]
    BY <2>2 DEF Types, Req
  <2>4. CASE Mint(r)
    <3>1. what = "open" /\ req[r].pc = "mint" /\ pending' = pending \cup {r}
      BY <2>2, <2>3, <2>4 DEF Mint, Answer, Types, Req
    <3> QED BY <2>1, <2>3, <3>1, RequestMoves DEF Out, Types
  <2>5. CASE TimeOut(r)
    <3>1. what = "timed_out" /\ pending' = pending \ {r}
      BY <2>2, <2>3, <2>5 DEF TimeOut, Answer, Types, Req
    <3> QED BY <2>1, <2>3, <3>1, RequestMoves DEF Out, Types
  <2>6. CASE ClientLeaves(r)
    <3>1. what = "cancelled" /\ pending' = pending
      BY <2>2, <2>3, <2>6 DEF ClientLeaves, Answer, Types, Req
    <3> QED BY <2>1, <2>3, <3>1, RequestMoves DEF Out, Types
  <2>7. CASE Served(r) \/ ForwardFails(r)
    <3>1. /\ what \in {"served", "node_offline", "downstream_unreachable"} /\ pending' = pending
          /\ req[r].pc = "forwarding"
      BY <2>2, <2>3, <2>7 DEF Served, ForwardFails, Answer, Types, Req
    <3>2. r \notin pending
      BY <3>1 DEF RequestInv, PendingIsWaiting
    <3> QED BY <2>1, <2>3, <3>1, <3>2, RequestMoves DEF Out, Types
  <2> QED BY <1>8, <2>4, <2>5, <2>6, <2>7
<1>9. ASSUME NEW r \in Reqs, Open(r) PROVE RequestInv'
  BY <1>9, OpenStep
<1>10. ASSUME NEW r \in Reqs, Paired(r) PROVE RequestInv'
  <2>1. /\ stream[r] = "dialling" /\ Out(req[r].pc)
        /\ stream' = [stream EXCEPT ![r] = "arrived"] /\ pending' = pending \ {r} /\ UNCHANGED link
    BY <1>10 DEF Paired, RequestInv, Flight
  <2>2. stream'[r] # "dialling" /\ \A q \in Reqs \ {r} : stream'[q] = stream[q]
    BY <2>1 DEF Types
  <2>3. /\ \A q \in Reqs \ {r} : req'[q] = req[q]
        /\ Out((req'[r]).pc) /\ (req'[r]).pc # "waiting"
    <3>1. CASE r \in pending /\ req[r].pc = "waiting"
      <4>1. req' = [req EXCEPT ![r] = [req[r] EXCEPT !.pc = "forwarding"]]
        BY <1>10, <3>1 DEF Paired
      <4> QED BY <2>1, <4>1 DEF Types, Req, Out
    <3>2. CASE ~(r \in pending /\ req[r].pc = "waiting")
      BY <1>10, <2>1, <3>2 DEF Paired, RequestInv, PendingIsWaiting
    <3> QED BY <3>1, <3>2
  <2>4. \A q \in Reqs : Out(req[q].pc) => Out((req'[q]).pc)
    BY <2>3
  <2>5. Flight'
    <3>1. ASSUME NEW l \in Links, NEW i \in DOMAIN link[l].down PROVE Out((req'[link[l].down[i]]).pc)
      <4>1. link[l].down[i] \in Reqs /\ Out(req[link[l].down[i]].pc)
        BY <3>1 DEF Types, Link, RequestInv, Flight
      <4> QED BY <2>4, <4>1
    <3>2. \A q \in Reqs : stream'[q] = "dialling" => Out((req'[q]).pc)
      BY <2>2, <2>4 DEF RequestInv, Flight
    <3> QED BY <2>1, <3>1, <3>2 DEF Flight
  <2>6. PendingIsWaiting' /\ Minted'
    BY <2>1, <2>3 DEF RequestInv, PendingIsWaiting, Minted, Out, Types
  <2> QED BY <2>5, <2>6 DEF RequestInv
<1>11. ASSUME NEW r \in Reqs, Splice(r) \/ DialFails(r) PROVE RequestInv'
  <2>1. stream'[r] # "dialling" /\ \A q \in Reqs \ {r} : stream'[q] = stream[q]
    BY <1>11 DEF Splice, DialFails, Types
  <2> QED BY <1>11, <2>1 DEF Splice, DialFails, RequestInv, Flight, Minted, PendingIsWaiting
<1> QED BY <1>1, <1>2, <1>3, <1>4, <1>5, <1>6, <1>7, <1>8, <1>9, <1>10, <1>11 DEF Next, Proxy

(* At first no request is under way.                                       *)
LEMMA RequestsStart == Init => RequestInv
<1> SUFFICES ASSUME Init PROVE RequestInv
  OBVIOUS
<1>1. \A l \in Links : link[l].down = <<>>
  BY DEF Init, NoLink
<1>2. \A r \in Reqs : req[r].pc = "new" /\ stream[r] = "none"
  BY DEF Init, NoReq
<1> QED BY <1>1, <1>2 DEF Init, RequestInv, Flight, Minted, PendingIsWaiting

(* Type correctness: entries, links and requests name what exists, however *)
(* often links break.                                                      *)
THEOREM RelayTypes == Spec => []TypeOK
<1> DEFINE Bound == probes \in 0 .. MaxProbes
<1>1. Init => Bound
  BY NodesAssumption DEF Init
<1>2. Bound /\ [Next]_vars => Bound'
  <2>1. [Next]_vars => UNCHANGED probes \/ Probe
    BY DEF Next, vars, Dial, GoesStale, Breaks, TakeOpen, Control, SeesClose, Register, Advertised, LoopEnds,
           Touch, Advertise, Route, Proxy, Mint, Open, TimeOut, ClientLeaves, Paired, Splice, DialFails,
           Served, ForwardFails
  <2> QED BY <2>1, NodesAssumption DEF Probe
<1>3. Types /\ Bound => TypeOK
  BY DEF Types, TypeOK, Entry, Stages
<1> QED BY <1>1, <1>2, <1>3, TypesHold, TypesStep, PTL DEF Spec

(* The map of pending ids holds requests under way and those whose client  *)
(* left, and every request that waits is in it: a stream that arrives      *)
(* finds the request it is for.                                            *)
THEOREM PendingAlwaysWaiting == Spec => []PendingIsWaiting
BY RequestsStart, RequestStep, TypesHold, TypesStep, PTL DEF Spec, RequestInv
=============================================================================
