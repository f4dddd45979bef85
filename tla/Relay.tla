-------------------------------- MODULE Relay --------------------------------
(***************************************************************************)
(* The relay (asm-relay/src/server.rs) and the agents of the nodes behind  *)
(* it (agent.rs).  An agent dials a control link and registers; a client's *)
(* request for a node is put on that node's link as an Open, and the node  *)
(* dials a data stream back, which the relay pairs with the waiting        *)
(* request and forwards it over.  A gateway also answers for downstreams   *)
(* it advertises.                                                          *)
(*                                                                         *)
(* Links break on either side first: an agent dials a new one while the    *)
(* relay may still hold the old, and the relay's end of a link may be gone *)
(* while the agent still works on it.                                      *)
(***************************************************************************)
EXTENDS Naturals, Sequences, FiniteSets

CONSTANTS Nodes,      \* nodes with an agent
          Gateway,    \* the one that bridges Downstream
          Downstream, \* may have an agent of its own
          Links,      \* control links, each used once
          Reqs,       \* client requests, one stream id each
          MaxProbes   \* bounds the changes of the gateway's probe result

ASSUME NodesAssumption == Gateway \in Nodes /\ MaxProbes \in Nat

Nobody == "nobody"
Targets == Nodes \cup {Downstream}
ASSUME TargetsAssumption == Nobody \notin Targets
Views == {"unknown", "up", "down"}   \* what a probe says of Downstream; unknown: it has never answered

VARIABLES entry,    \* the relay's registry
          link,     \* control links
          agent,    \* the link an agent works on, or Nobody
          view, probes,  \* the gateway's probe result
          told,     \* the probe result the agent advertised last on its link
          pending,  \* stream ids with a request waiting
          req,      \* requests
          stream    \* the data stream a node dials for a request

vars == <<entry, link, agent, view, probes, told, pending, req, stream>>

NoEntry == [known |-> FALSE, connected |-> FALSE, gen |-> Nobody, fresh |-> FALSE, ds |-> "unknown"]
\* loop: the relay's register_conn; up, down: frames under way; open: the agent's side
NoLink == [loop |-> "unused", node |-> Nobody, up |-> <<>>, down |-> <<>>, open |-> FALSE]
NoReq == [pc |-> "new", target |-> Nobody, via |-> Nobody, ctrl |-> Nobody]
UnderWay == {"mint", "open", "waiting", "forwarding"}

Online(n) == entry[n].known /\ entry[n].connected /\ entry[n].fresh
Advertises(n, v) == entry[n].known /\ entry[n].ds = v

Init == /\ entry = [n \in Nodes |-> NoEntry] /\ link = [l \in Links |-> NoLink]
        /\ agent = [n \in Nodes |-> Nobody] /\ view = "unknown" /\ probes = 0 /\ told = "unknown"
        /\ pending = {} /\ req = [r \in Reqs |-> NoReq] /\ stream = [r \in Reqs |-> "none"]

(***************************************************************************)
(* Registration.                                                           *)
(***************************************************************************)

\* run_once: dial, and say Hello with the downstreams as they are now; changes
\* of the probe result after that are advertised one by one
HelloSaysNothing(n) == "unknown"   \* mutant: a Hello without the downstreams
HelloSays(n) == IF n = Gateway THEN view ELSE "unknown"
Redials(n) == agent[n] = Nobody
Dial(n) ==
  /\ Redials(n)
  /\ \E l \in Links :
       /\ link[l].loop = "unused"
       /\ link' = [link EXCEPT ![l] = [NoLink EXCEPT !.loop = "hello", !.node = n, !.open = TRUE, !.up = <<HelloSays(n)>>]]
       /\ agent' = [agent EXCEPT ![n] = l]
  /\ told' = IF n = Gateway THEN view ELSE told
  /\ UNCHANGED <<entry, view, probes, pending, req, stream>>

\* Registry::register: whoever registers last owns the entry
Register(l) ==
  /\ link[l].loop = "hello" /\ link[l].up # <<>>
  /\ entry' = [entry EXCEPT ![link[l].node] = [known |-> TRUE, connected |-> TRUE, gen |-> l, fresh |-> TRUE, ds |-> Head(link[l].up)]]
  /\ link' = [link EXCEPT ![l].loop = "registered", ![l].up = Tail(@)]
  /\ UNCHANGED <<agent, view, probes, told, pending, req, stream>>

Owns(l) == entry[link[l].node].gen = l

\* set_downstreams
Advertised(l) ==
  /\ link[l].loop = "registered" /\ link[l].up # <<>>
  /\ entry' = IF Owns(l) THEN [entry EXCEPT ![link[l].node].ds = Head(link[l].up), ![link[l].node].fresh = TRUE] ELSE entry
  /\ link' = [link EXCEPT ![l].up = Tail(@)]
  /\ UNCHANGED <<agent, view, probes, told, pending, req, stream>>

\* a ping refreshes the entry; OFFLINE_AFTER without one, because the agent is gone
\* or the network slow, the entry counts as off line
Touch(l) ==
  /\ link[l].loop = "registered" /\ link[l].open
  /\ Owns(l) /\ ~entry[link[l].node].fresh
  /\ entry' = [entry EXCEPT ![link[l].node].fresh = TRUE]
  /\ UNCHANGED <<link, agent, view, probes, told, pending, req, stream>>
GoesStale(n) ==
  /\ Online(n)
  /\ entry' = [entry EXCEPT ![n].fresh = FALSE]
  /\ UNCHANGED <<link, agent, view, probes, told, pending, req, stream>>

\* the control loop ends, on a close or on an error of its own: the entry is only
\* this generation's to mark
DisconnectAnyway(l) == [entry EXCEPT ![link[l].node].connected = FALSE]   \* mutant: whoever registered since
Disconnect(l) == IF Owns(l) THEN [entry EXCEPT ![link[l].node].connected = FALSE] ELSE entry
LoopEnds(l) ==
  /\ \/ link[l].loop = "registered" /\ entry' = Disconnect(l)
     \/ link[l].loop = "hello" /\ UNCHANGED entry
  /\ link' = [link EXCEPT ![l].loop = "ended", ![l].up = <<>>]
  /\ UNCHANGED <<agent, view, probes, told, pending, req, stream>>

\* the agent's side of a link ends, on a close or on an error of its own; it will
\* dial again after a backoff
Breaks(n) ==
  /\ agent[n] # Nobody
  /\ link' = [link EXCEPT ![agent[n]].open = FALSE, ![agent[n]].down = <<>>]
  /\ agent' = [agent EXCEPT ![n] = Nobody]
  /\ UNCHANGED <<entry, view, probes, told, pending, req, stream>>

\* the gateway's probe loop publishes a change, and the agent advertises it
Probe == /\ probes < MaxProbes /\ probes' = probes + 1
         /\ view' \in {"up", "down"} \ {view}
         /\ UNCHANGED <<entry, link, agent, told, pending, req, stream>>
Advertise ==
  /\ agent[Gateway] # Nobody /\ told # view
  /\ told' = view
  /\ link' = IF link[agent[Gateway]].loop = "ended" THEN link   \* into a socket nobody reads
             ELSE [link EXCEPT ![agent[Gateway]].up = Append(@, view)]
  /\ UNCHANGED <<entry, agent, view, probes, pending, req, stream>>

(***************************************************************************)
(* Requests.                                                               *)
(***************************************************************************)
Answer(r, what) == req' = [req EXCEPT ![r].pc = what]

\* Registry::route and ctrl_if_online: the node itself if it ever registered,
\* online or not, else a gateway that advertises it
Direct(t) == t \in Nodes /\ entry[t].known
Via(t) == IF Direct(t) THEN {t} ELSE {n \in Nodes : t = Downstream /\ (Advertises(n, "up") \/ Advertises(n, "down"))}
Route(r, t) ==
  /\ req[r].pc = "new"
  /\ \/ Via(t) = {} /\ Answer(r, "unknown_node")
     \/ \E n \in Via(t) :
          \/ ~Online(n) /\ Answer(r, "node_offline")
          \/ Online(n) /\ ~Direct(t) /\ Advertises(n, "down") /\ Answer(r, "downstream_unreachable")
          \/ /\ Online(n) /\ (Direct(t) \/ Advertises(n, "up"))
             /\ req' = [req EXCEPT ![r] = [@ EXCEPT !.pc = "mint", !.target = t, !.via = n, !.ctrl = entry[n].gen]]
  /\ UNCHANGED <<entry, link, agent, view, probes, told, pending, stream>>

Mint(r) == /\ req[r].pc = "mint" /\ Answer(r, "open") /\ pending' = pending \cup {r}
           /\ UNCHANGED <<entry, link, agent, view, probes, told, stream>>

\* the Open goes to the link's writer, which may be gone once either end is: then
\* the send fails, or the Open is lost
Writable(l) == link[l].loop = "registered" /\ link[l].open
Open(r) ==
  /\ req[r].pc = "open"
  /\ \/ /\ link' = IF Writable(req[r].ctrl) THEN [link EXCEPT ![req[r].ctrl].down = Append(@, r)] ELSE link
        /\ Answer(r, "waiting") /\ UNCHANGED pending
     \/ /\ ~Writable(req[r].ctrl)
        /\ Answer(r, "node_offline") /\ pending' = pending \ {r} /\ UNCHANGED link
  /\ UNCHANGED <<entry, agent, view, probes, told, stream>>

\* OPEN_TIMEOUT: for good, whatever arrives later
TimeOut(r) == /\ req[r].pc = "waiting" /\ Answer(r, "timed_out") /\ pending' = pending \ {r}
              /\ UNCHANGED <<entry, link, agent, view, probes, told, stream>>

\* the client goes away: its handler is dropped as it stands, and the id stays
ClientLeaves(r) == /\ req[r].pc \in UnderWay /\ Answer(r, "cancelled")
                   /\ UNCHANGED <<entry, link, agent, view, probes, told, pending, stream>>

\* the agent takes an Open off its link and dials a data stream, if it knows the
\* target; the dial may fail or take long
Resolves(n, t) == t = n \/ (n = Gateway /\ t = Downstream /\ view # "unknown")
TakeOpen(n) ==
  /\ agent[n] # Nobody /\ link[agent[n]].down # <<>>
  /\ LET r == Head(link[agent[n]].down) IN
       stream' = [stream EXCEPT ![r] = IF Resolves(n, req[r].target) THEN "dialling" ELSE "failed"]
  /\ link' = [link EXCEPT ![agent[n]].down = Tail(@)]
  /\ UNCHANGED <<entry, agent, view, probes, told, pending, req>>

\* /data: take_pending, and hand the stream to the request if it still waits
Paired(r) ==
  /\ stream[r] = "dialling"
  /\ stream' = [stream EXCEPT ![r] = "arrived"]
  /\ pending' = pending \ {r}
  /\ req' = IF r \in pending /\ req[r].pc = "waiting" THEN [req EXCEPT ![r].pc = "forwarding"] ELSE req
  /\ UNCHANGED <<entry, link, agent, view, probes, told>>

\* only now the agent dials the local target and splices; the dial or the splice
\* may fail, and drops the stream
Splice(r) == /\ stream[r] = "arrived" /\ stream' = [stream EXCEPT ![r] = "spliced"]
             /\ UNCHANGED <<entry, link, agent, view, probes, told, pending, req>>
DialFails(r) ==
  /\ stream[r] \in {"dialling", "arrived", "spliced"} /\ stream' = [stream EXCEPT ![r] = "failed"]
  /\ UNCHANGED <<entry, link, agent, view, probes, told, pending, req>>

\* forward: no timeout; the local target answers, or the stream ends
Served(r) == /\ req[r].pc = "forwarding" /\ stream[r] = "spliced" /\ Answer(r, "served")
             /\ UNCHANGED <<entry, link, agent, view, probes, told, pending, stream>>
ForwardFails(r) ==
  /\ req[r].pc = "forwarding" /\ stream[r] = "failed"
  /\ Answer(r, IF req[r].via = req[r].target THEN "node_offline" ELSE "downstream_unreachable")
  /\ UNCHANGED <<entry, link, agent, view, probes, told, pending, stream>>

Proxy(r) == Mint(r) \/ Open(r) \/ TimeOut(r) \/ ForwardFails(r)
SeesClose(l) == ~link[l].open /\ LoopEnds(l)
Control(l) == Register(l) \/ Advertised(l) \/ SeesClose(l)
HangsUp(n) == agent[n] # Nobody /\ link[agent[n]].loop = "ended" /\ Breaks(n)
Next == \/ \E n \in Nodes : Dial(n) \/ GoesStale(n) \/ Breaks(n) \/ TakeOpen(n)
        \/ \E l \in Links : Control(l) \/ Touch(l) \/ LoopEnds(l)
        \/ Probe \/ Advertise
        \/ \E r \in Reqs : \/ \E t \in Targets : Route(r, t)
                           \/ Proxy(r) \/ ClientLeaves(r)
                           \/ Paired(r) \/ Splice(r) \/ DialFails(r) \/ Served(r)
Spec == Init /\ [][Next]_vars

\* timers fire, ready tasks are polled, frames on an open link arrive, and an end
\* whose peer is gone comes to know it, by the close or when TCP gives up
FairSpec == /\ Spec /\ WF_vars(Advertise)
            /\ WF_vars(HangsUp(Gateway))
            /\ \A l \in Links : WF_vars(Control(l))
            /\ \A r \in Reqs : WF_vars(Proxy(r))

(***************************************************************************)
(* Properties.                                                             *)
(***************************************************************************)
TypeOK == /\ entry \in [Nodes -> [known : BOOLEAN, connected : BOOLEAN, gen : Links \cup {Nobody}, fresh : BOOLEAN, ds : Views]]
          /\ agent \in [Nodes -> Links \cup {Nobody}] /\ view \in Views /\ told \in Views
          /\ pending \subseteq Reqs /\ probes \in 0 .. MaxProbes
          /\ stream \in [Reqs -> {"none", "dialling", "arrived", "spliced", "failed"}]

\* A node's entry is connected exactly while the control loop that registered it
\* last runs: the end of an earlier loop, however late, does not take the node
\* off line (server.rs:81).
EntryFollowsLoop == \A n \in Nodes : entry[n].known => (entry[n].connected <=> link[entry[n].gen].loop = "registered")

\* The map of pending ids holds nothing but requests under way - and those whose
\* client left (README, section 5); a stream is never turned away from a request
\* that waits for it.
PendingIsWaiting == /\ \A r \in pending : req[r].pc \in {"open", "waiting", "cancelled"}
                    /\ \A r \in Reqs : req[r].pc = "waiting" => r \in pending

\* Every request ends in an answer, whatever becomes of its Open and its stream -
\* but for one whose stream has arrived and then neither answers nor ends, which
\* nothing times out (README, section 5).  And the relay comes to know what the
\* gateway's probe says, through however many links, whichever end goes first -
\* unless the Hello of a link the agent left long ago is read last.
Hung(r) == req[r].pc = "forwarding" /\ stream[r] \in {"arrived", "spliced"}
Settles == /\ \A r \in Reqs : <>[](req[r].pc \in UnderWay => Hung(r))
           /\ <>[](agent[Gateway] # Nobody /\ entry[Gateway].gen = agent[Gateway] => entry[Gateway].ds = view)
=============================================================================
