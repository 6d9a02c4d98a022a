------------------------------- MODULE Agents -------------------------------
(***************************************************************************)
(* How a wish of the administrator becomes a route of the network: the     *)
(* panel stores what a node should announce, the agent on the node fetches *)
(* it once a minute and applies it, the collector approves in headscale    *)
(* what was asked for and takes back what no longer is (api/agent.py,      *)
(* api/nodes.py, api/routing.py, routing.py, collector.py, the script in   *)
(* agent.py).                                                              *)
(*                                                                         *)
(* A process is a request of an administrator, the collector, or an agent  *)
(* together with the handler of the panel it waits for.                    *)
(***************************************************************************)
EXTENDS AgentBlob, FiniteSets

CONSTANTS
    Task,       \* requests of administrators
    Collector,
    NoTask, NoCall,
    Worlds      \* how a behaviour starts and what it admits

Proc == Task \cup {Collector} \cup Node

(* What may go wrong: a report is lost, an update does not verify,         *)
(* headscale refuses an approval, tailscale set fails halfway, someone     *)
(* announces a route by hand, the panel restarts.                          *)
FaultKind == {"report", "update", "approve", "set", "hand", "restart"}

(* A request is a call of the blob, or begins elsewhere and becomes one.   *)
Request == [op : {"get", "put", "reissue", "order", "order_all", "exit", "via",
                  "untick", "forget", "direction", "resolve", "install"},
            node : Node, things : SUBSET Thing, exit : BOOLEAN,
            via : Node \cup {NoNode}]

World == [agents : Blob, derived : [Node -> SUBSET Route],
          tok : [Node -> Nat], own : [Node -> 0..Release],
          file : [Node -> Body \cup {NoBody}],
          requests : [Task -> SUBSET Request],
          alone : BOOLEAN,             \* one request, one cycle at a time
          left : Nat, faults : Nat, kinds : SUBSET FaultKind]

ASSUME AgentsAssumption ==
    /\ IsFiniteSet(Node)
    /\ Collector \notin Task \cup Node /\ Task \cap Node = {}
    /\ NoTask \notin Proc /\ NoCall \notin Call
    /\ \A w \in Worlds : w \in World

VARIABLES
    agents,     \* database: node_agent
    derived,    \* database: what the directions ask of each exit node
    lock,       \* settings_store._write_lock
    hsNodes, avail, approved,  \* headscale: nodes, routes announced, approved
    pc, job, copy,  \* where a process is, its call, the blob it has read
    view,       \* what the collector or a direction read before
    got,        \* what an agent has fetched
    tok, own, file, tried,     \* on the node: token, release, state, stamp
    minted,     \* tokens minted so far
    asked,      \* history: routes ever asked for, by node
    manual,     \* history: routes last approved by hand, by node
    handset,    \* history: nodes whose announcement someone changed by hand
    mixed,      \* history: calls during which someone wrote without the lock
    world       \* what this behaviour admits

panel == <<agents, derived, lock>>
headscale == <<hsNodes, avail, approved>>
node == <<tok, own, file, tried>>
history == <<minted, asked, manual, handset, mixed>>
vars == <<agents, derived, lock, hsNodes, avail, approved, pc, job, copy, view,
          got, tok, own, file, tried, minted, asked, manual, handset,
          mixed, world>>

NoBlob == [n \in Node |-> Blank]
NoView == [agents |-> NoBlob, derived |-> [n \in Node |-> {}], nodes |-> {},
           avail |-> [n \in Node |-> {}], approved |-> [n \in Node |-> {}]]
Nothing == [body |-> NoBody, order |-> 0]

Init ==
    /\ world \in Worlds
    /\ agents = world.agents /\ derived = world.derived /\ lock = NoTask
    /\ hsNodes = Node
    /\ avail = [n \in Node |-> IF world.file[n] = NoBody THEN {}
                              ELSE announced_by(world.file[n])]
    /\ approved = avail
    /\ pc = [p \in Proc |-> "idle"]
    /\ job = [p \in Proc |-> NoCall]
    /\ copy = [p \in Proc |-> NoBlob]
    /\ view = [p \in Task \cup {Collector} |-> NoView]
    /\ got = [n \in Node |-> Nothing]
    /\ tok = world.tok /\ own = world.own
    /\ file = world.file
    /\ tried = [n \in Node |-> FALSE]
    /\ minted = Cardinality(Node)
    /\ asked = [n \in Node |-> derived[n] \cup announced_by(agents[n])]
    /\ manual = [n \in Node |-> {}]
    /\ handset = {} /\ mixed = {}

(* --- what a step is made of ------------------------------------------- *)

Goto(p, where) == pc' = [pc EXCEPT ![p] = where]
Quiet == \A p \in Proc : pc[p] = "idle"
MayStart(p) == pc[p] = "idle" /\ (world.alone => Quiet)

Fault(kind) ==
    /\ world.faults > 0 /\ kind \in world.kinds
    /\ world' = [world EXCEPT !.faults = @ - 1]

Locked(p) == job[p].op \in serialized

aCall(op, n) ==
    [op |-> op, node |-> n, token |-> 0, things |-> {},
     marks |-> [m \in Node |-> {}], exit |-> FALSE, via |-> NoNode,
     body |-> NoBody, release |-> 0]

(* A process asks for a call of the blob.                                  *)
Ask(p, c) == Goto(p, "ask") /\ job' = [job EXCEPT ![p] = c]

(* Where a process goes on when its call has been answered.                *)
after(p) ==
    CASE job[p].op = "untick" -> "approve"
      [] job[p].op = "touch" -> "answer"
      [] p = Collector -> "next"
      [] OTHER -> "idle"

(* The call is over: what it was is forgotten unless set_routes needs it.  *)
Answered(p) ==
    /\ Goto(p, after(p))
    /\ job' = [job EXCEPT ![p] = IF after(p) = "approve" THEN @ ELSE NoCall]
    /\ copy' = [copy EXCEPT ![p] = NoBlob]

Finish(p) ==
    /\ Goto(p, "idle")
    /\ job' = [job EXCEPT ![p] = NoCall]

(* --- calls of the blob -------------------------------------------------- *)

(* get_agent and reissue mint no token for a node headscale does not know. *)
unknown_node(c) ==
    /\ c.op \in {"get", "reissue"}
    /\ ~ agents[c.node].here /\ c.node \notin hsNodes

(* set_routes: a route of a direction is unticked at the direction.        *)
from_directions(c) == c.op = "untick" /\ ~ derived[c.node] \subseteq c.things

(* Slip: a report is written without the lock.                             *)
Look_unlocked(p) ==
    /\ pc[p] = "ask"
    /\ IF unknown_node(job[p]) \/ from_directions(job[p])
       THEN Finish(p) /\ UNCHANGED <<copy, lock>>
       ELSE IF touched(agents, job[p]) = {} /\ job[p].op # "forget"
       THEN Answered(p) /\ UNCHANGED lock
       ELSE /\ copy' = [copy EXCEPT ![p] = agents]
            /\ Goto(p, "looked")
            /\ UNCHANGED <<job, lock>>
    /\ UNCHANGED <<agents, derived, headscale, view, got, node, history, world>>

Look(p) ==
    /\ pc[p] = "ask"
    /\ Locked(p) => lock = NoTask
    /\ IF unknown_node(job[p]) \/ from_directions(job[p])
       THEN Finish(p) /\ UNCHANGED <<copy, lock>>
       ELSE IF touched(agents, job[p]) = {} /\ job[p].op # "forget"
       THEN Answered(p) /\ UNCHANGED lock
       ELSE /\ copy' = [copy EXCEPT ![p] = agents]
            /\ Goto(p, "looked")
            /\ lock' = IF Locked(p) THEN p ELSE lock
            /\ UNCHANGED job
    /\ UNCHANGED <<agents, derived, headscale, view, got, node, history, world>>

(* What was written without the lock spoils the call of whoever holds it.  *)
Store(p) ==
    /\ pc[p] = "looked"
    /\ agents' = Effect(copy[p], job[p])
    /\ derived' = IF job[p].op = "forget"
                  THEN [derived EXCEPT ![job[p].node] = {}] ELSE derived
    /\ lock' = IF Locked(p) THEN NoTask ELSE lock
    /\ mixed' = IF Locked(p) THEN mixed \ {p}
                ELSE mixed \cup ({lock} \ {NoTask})
    /\ Answered(p)
    /\ UNCHANGED <<headscale, view, got, node, minted, asked, manual, handset,
                   world>>

(* --- requests of the administrator -------------------------------------- *)

Mints == {"get", "put", "reissue"}

start_of(op) ==
    CASE op \in {"direction", "resolve"} -> "save"
      [] op = "forget" -> "hs_delete"
      [] OTHER -> "ask"

(* A request comes in.  Buttons that order an update want a signed release *)
(* and an agent to update.                                                 *)
Arrive(t) ==
    \E r \in world.requests[t] :
        /\ MayStart(t) /\ world.left > 0 /\ r.op # "install"
        /\ pc' = [pc EXCEPT ![t] = start_of(r.op)]
        /\ job' = [job EXCEPT ![t] =
                      [aCall(r.op, r.node) EXCEPT !.things = r.things,
                          !.exit = r.exit, !.via = r.via,
                          !.token = IF r.op \in Mints THEN minted + 1 ELSE 0]]
        /\ minted' = IF r.op \in Mints THEN minted + 1 ELSE minted
        /\ asked' = [asked EXCEPT ![r.node] =
                        @ \cup r.things \cup (IF r.exit THEN {Exit} ELSE {})]
        /\ world' = [world EXCEPT !.left = @ - 1]
        /\ UNCHANGED <<panel, headscale, copy, view, got, node, manual, handset, mixed>>

(* set_routes: the list of the request becomes what headscale approves.    *)
ApproveByHand(t) ==
    LET n == job[t].node
    IN  /\ pc[t] = "approve"
        /\ \/ /\ n \in hsNodes
              /\ approved' = [approved EXCEPT ![n] = job[t].things]
              /\ manual' = [manual EXCEPT ![n] = job[t].things]
              /\ UNCHANGED world
           \/ /\ n \in hsNodes => Fault("approve")
              /\ n \notin hsNodes => UNCHANGED world
              /\ UNCHANGED <<approved, manual>>
        /\ Finish(t)
        /\ UNCHANGED <<panel, hsNodes, avail, copy, view, got, node, minted,
                       asked, handset, mixed>>

(* delete_node: headscale first, then the blobs.                           *)
HsDelete(t) ==
    LET n == job[t].node
    IN  /\ pc[t] = "hs_delete"
        /\ hsNodes' = hsNodes \ {n}
        /\ avail' = [avail EXCEPT ![n] = {}]
        /\ approved' = [approved EXCEPT ![n] = {}]
        /\ Goto(t, "ask")
        /\ UNCHANGED <<panel, job, copy, view, got, node, history, world>>

(* A direction is saved, or its addresses are resolved anew; then the      *)
(* routes of all directions are approved, those of a saved one are         *)
(* recorded as the panel's own.                                            *)
SaveDirection(t) ==
    /\ pc[t] = "save"
    /\ derived' = [derived EXCEPT ![job[t].node] = routes_of(job[t])]
    /\ Goto(t, "wanted")
    /\ UNCHANGED <<agents, lock, headscale, job, copy, view, got, node, history,
                   world>>

ReadWanted(t) ==
    /\ pc[t] = "wanted"
    /\ view' = [view EXCEPT ![t].derived = derived]
    /\ IF \E n \in Node : derived[n] # {}
       THEN Goto(t, "nodes") /\ UNCHANGED job ELSE Finish(t)
    /\ UNCHANGED <<panel, headscale, copy, got, node, history, world>>

ReadNodes(t) ==
    /\ pc[t] = "nodes"
    /\ view' = [view EXCEPT ![t].approved = approved, ![t].nodes =
                   {n \in hsNodes : view[t].derived[n] # {}}]
    /\ job' = [job EXCEPT ![t].marks =
                  [n \in Node |-> IF n \in hsNodes THEN view[t].derived[n] ELSE {}]]
    /\ Goto(t, "approve_for")
    /\ UNCHANGED <<panel, headscale, copy, got, node, history, world>>

approve_for(t) ==
    /\ pc[t] = "approve_for"
    /\ \E n \in view[t].nodes :
        LET target == view[t].approved[n] \cup view[t].derived[n]
            same == target = view[t].approved[n]
        IN \/ /\ same \/ n \in hsNodes
              /\ approved' = IF same THEN approved
                             ELSE [approved EXCEPT ![n] = target]
              /\ view' = [view EXCEPT ![t].nodes = @ \ {n}]
              /\ UNCHANGED <<pc, job, world>>
           \/ /\ ~ same
              /\ IF n \in hsNodes THEN Fault("approve") ELSE UNCHANGED world
              /\ view' = [view EXCEPT ![t] = NoView]
              /\ Finish(t)
              /\ UNCHANGED approved
    /\ UNCHANGED <<panel, hsNodes, avail, copy, got, node, history>>

Approved(t) ==
    /\ pc[t] = "approve_for" /\ view[t].nodes = {}
    /\ view' = [view EXCEPT ![t] = NoView]
    /\ IF job[t].op = "resolve" THEN Finish(t)
       ELSE Ask(t, [job[t] EXCEPT !.op = "record"])
    /\ UNCHANGED <<panel, headscale, copy, got, node, history, world>>

(* --- the collector ------------------------------------------------------ *)

Collect ==
    /\ MayStart(Collector)
    /\ view' = [view EXCEPT ![Collector] =
                  [NoView EXCEPT !.nodes = hsNodes, !.avail = avail,
                                 !.approved = approved]]
    /\ Goto(Collector, "agents")
    /\ UNCHANGED <<panel, headscale, job, copy, got, node, history, world>>

ReadAgents ==
    /\ pc[Collector] = "agents"
    /\ view' = [view EXCEPT ![Collector].agents = agents]
    /\ Goto(Collector, "routing")
    /\ UNCHANGED <<panel, headscale, job, copy, got, node, history, world>>

(* Nodes without an entry are passed over.                                 *)
ReadDerived ==
    /\ pc[Collector] = "routing"
    /\ view' = [view EXCEPT ![Collector].derived = derived,
                            ![Collector].nodes =
                    {n \in @ : view[Collector].agents[n].here}]
    /\ Goto(Collector, "next")
    /\ UNCHANGED <<panel, headscale, job, copy, got, node, history, world>>

(* Slip: the routes of directions are forgotten.                           *)
wanted_in_settings(v, n) == announced_by(v.agents[n])

wanted_in(v, n) == announced_by(v.agents[n]) \cup v.derived[n]
stale_in(v, n) == v.agents[n].mine \ wanted_in(v, n)
ours_in(v, n) == wanted_in(v, n) \cap v.avail[n]

(* Slip: whatever a node announces is approved.                            *)
target_in_all(v, n) == (v.approved[n] \ stale_in(v, n)) \cup v.avail[n]
(* Slip: what the panel no longer wants stays approved.                    *)
target_in_grows(v, n) == v.approved[n] \cup ours_in(v, n)

target_in(v, n) == (v.approved[n] \ stale_in(v, n)) \cup ours_in(v, n)

(* One node of _auto_approve_requested.  A refused approval ends the cycle.*)
AutoApprove ==
    /\ pc[Collector] = "next"
    /\ \E n \in view[Collector].nodes :
        LET v == view[Collector]
            target == target_in(v, n)
            mine == (v.agents[n].mine \cup ours_in(v, n)) \ stale_in(v, n)
            same == target = v.approved[n]
        IN \/ /\ same \/ n \in hsNodes
              /\ approved' = IF same THEN approved
                             ELSE [approved EXCEPT ![n] = target]
              /\ view' = [view EXCEPT ![Collector].nodes = @ \ {n}]
              /\ IF mine = v.agents[n].mine THEN UNCHANGED <<pc, job>>
                 ELSE Ask(Collector, [aCall("mine", n) EXCEPT !.things = mine])
              /\ UNCHANGED world
           \/ /\ ~ same
              /\ IF n \in hsNodes THEN Fault("approve") ELSE UNCHANGED world
              /\ view' = [view EXCEPT ![Collector] = NoView]
              /\ Finish(Collector)
              /\ UNCHANGED approved
    /\ UNCHANGED <<panel, hsNodes, avail, copy, got, node, history>>

Collected ==
    /\ pc[Collector] = "next" /\ view[Collector].nodes = {}
    /\ view' = [view EXCEPT ![Collector] = NoView]
    /\ Finish(Collector)
    /\ UNCHANGED <<panel, headscale, copy, got, node, history, world>>

(* --- an agent, once a minute -------------------------------------------- *)

body_of(e, more) ==
    [routes |-> e.routes \cup more, exit |-> e.exit, via |-> e.via]

(* agent_state: an unknown token is answered 404 and the agent does        *)
(* nothing.  The settings served are those found here, whatever is stored  *)
(* by the time they are sent.                                              *)
Poll(n) ==
    /\ MayStart(n)
    /\ \E m \in owner(agents, tok[n]) :
        /\ got' = [got EXCEPT ![n] = [body |-> body_of(agents[m], {}),
                                      order |-> agents[m].order]]
        /\ Ask(n, [aCall("touch", m) EXCEPT !.token = tok[n]])
    /\ UNCHANGED <<panel, headscale, copy, view, node, history, world>>

Serve(n) ==
    /\ pc[n] = "answer"
    /\ got' = [got EXCEPT ![n].body.routes = @ \cup derived[n]]
    /\ Goto(n, IF got[n].order > own[n] THEN "update" ELSE "apply")
    /\ UNCHANGED <<panel, headscale, job, copy, view, node, history, world>>

Forget(n) == got' = [got EXCEPT ![n] = Nothing]

(* The new script is installed over the old one and the saved state goes.  *)
Update(n) ==
    /\ pc[n] = "update"
    /\ own' = [own EXCEPT ![n] = got[n].order]
    /\ file' = [file EXCEPT ![n] = NoBody]
    /\ tried' = [tried EXCEPT ![n] = FALSE]
    /\ Goto(n, "idle") /\ Forget(n)
    /\ UNCHANGED <<panel, headscale, job, copy, view, tok, history, world>>

(* An update that does not verify is not tried again for an hour.          *)
UpdateFails(n) ==
    /\ pc[n] = "update"
    /\ \/ Fault("update") /\ tried' = [tried EXCEPT ![n] = TRUE]
       \/ tried[n] /\ UNCHANGED <<tried, world>>
    /\ Goto(n, "apply")
    /\ UNCHANGED <<panel, headscale, job, copy, view, got, tok, own, file,
                   history>>

(* A state equal to the one saved is not applied, and not reported.        *)
Apply(n) ==
    /\ pc[n] = "apply"
    /\ IF got[n].body = file[n]
       THEN Goto(n, "idle") /\ Forget(n) /\ UNCHANGED avail
       ELSE /\ avail' = [avail EXCEPT ![n] = IF n \in hsNodes
                            THEN announced_by(got[n].body) ELSE {}]
            /\ Goto(n, "half") /\ UNCHANGED got
    /\ UNCHANGED <<panel, hsNodes, approved, job, copy, view, node, history,
                   world>>

(* The rest of tailscale set; only then is the state saved.                *)
SaveState(n) ==
    /\ pc[n] = "half"
    /\ file' = [file EXCEPT ![n] = got[n].body]
    /\ Goto(n, "report")
    /\ UNCHANGED <<panel, headscale, job, copy, view, got, tok, own, tried,
                   history, world>>

SetFails(n) ==
    /\ pc[n] = "half" /\ Fault("set")
    /\ Goto(n, "idle") /\ Forget(n)
    /\ UNCHANGED <<panel, headscale, job, copy, view, node, history>>

(* The report is sent once.                                                *)
Report(n) ==
    /\ pc[n] = "report"
    /\ \/ /\ owner(agents, tok[n]) # {}
          /\ Ask(n, [aCall("applied", n) EXCEPT !.token = tok[n],
                        !.body = file[n], !.release = own[n]])
          /\ UNCHANGED world
       \/ /\ IF owner(agents, tok[n]) # {} THEN Fault("report")
             ELSE UNCHANGED world
          /\ Goto(n, "idle") /\ UNCHANGED job
    /\ Forget(n)
    /\ UNCHANGED <<panel, headscale, copy, view, node, history>>

(* --- around the panel --------------------------------------------------- *)

(* Someone runs the command of the node's card: the script of the panel's  *)
(* release, with the token of that moment.                                 *)
Install(n) ==
    /\ MayStart(n) /\ world.left > 0 /\ agents[n].token # 0
    /\ \E t \in Task : \E r \in world.requests[t] :
           r.op = "install" /\ r.node = n
    /\ tok' = [tok EXCEPT ![n] = agents[n].token]
    /\ own' = [own EXCEPT ![n] = Release]
    /\ file' = [file EXCEPT ![n] = NoBody]
    /\ world' = [world EXCEPT !.left = @ - 1]
    /\ UNCHANGED <<panel, headscale, pc, job, copy, view, got, tried, history>>

AnnounceByHand(n) ==
    /\ Fault("hand") /\ n \in hsNodes
    /\ \E S \in SUBSET Thing : avail' = [avail EXCEPT ![n] = S]
    /\ handset' = handset \cup {n}
    /\ UNCHANGED <<panel, hsNodes, approved, pc, job, copy, view, got, node,
                   minted, asked, manual, mixed>>

(* Every request under way is gone, an agent that waits gets no answer.    *)
Restart ==
    /\ Fault("restart")
    /\ pc' = [p \in Proc |-> IF pc[p] \in {"update", "apply", "half", "report"}
                            THEN pc[p] ELSE "idle"]
    /\ job' = [p \in Proc |-> NoCall]
    /\ copy' = [p \in Proc |-> NoBlob]
    /\ view' = [p \in Task \cup {Collector} |-> NoView]
    /\ got' = [n \in Node |-> IF pc'[n] = "idle" THEN Nothing ELSE got[n]]
    /\ lock' = NoTask /\ mixed' = {}
    /\ UNCHANGED <<agents, derived, headscale, node, minted, asked, manual,
                   handset>>

Calls(p) == Look(p) \/ Store(p)

Request_steps(t) ==
    \/ Calls(t) \/ ApproveByHand(t) \/ HsDelete(t) \/ SaveDirection(t)
    \/ ReadWanted(t) \/ ReadNodes(t) \/ approve_for(t) \/ Approved(t)

Collector_steps ==
    \/ Collect \/ ReadAgents \/ ReadDerived \/ AutoApprove \/ Collected
    \/ Calls(Collector)

Agent_steps(n) ==
    \/ Poll(n) \/ Serve(n) \/ UpdateFails(n) \/ Apply(n) \/ SaveState(n)
    \/ Report(n) \/ Calls(n)

Next ==
    \/ \E t \in Task : Arrive(t) \/ Request_steps(t)
    \/ Collector_steps
    \/ \E n \in Node : \/ Agent_steps(n) \/ Update(n) \/ SetFails(n)
                       \/ Install(n) \/ AnnounceByHand(n)
    \/ Restart

(* The event loop runs what can run and asyncio.Lock serves in turn, so    *)
(* nobody waits for ever; the collector's loop and the agents' timers never*)
(* end; an hour passes, so an update that is asked for is tried again.     *)
Fairness ==
    /\ \A t \in Task : SF_vars(Request_steps(t))
    /\ SF_vars(Collector_steps)
    /\ \A n \in Node : SF_vars(Agent_steps(n)) /\ SF_vars(Update(n))

Spec == Init /\ [][Next]_vars
FairSpec == Spec /\ Fairness

(* --- properties --------------------------------------------------------- *)

(* collector.py:149-161: what is approved for a node was asked for it, by  *)
(* its settings, a direction or by hand, whatever the node announces and   *)
(* however old the copies of the collector and the requests are.           *)
OnlyAsked == \A n \in hsNodes : approved[n] \subseteq asked[n]

(* settings_store.py:538-543: an order to update stands until the node runs*)
(* what was ordered (or is deleted); reports of the release before, which  *)
(* may come in between, do not take it off.                                *)
OrderStands ==
    [][world.alone =>
         \A n \in hsNodes : agents[n].order > agents'[n].order =>
             own[n] >= agents[n].order \/ ~ agents'[n].here]_vars

wanted(n) == announced_by(agents[n]) \cup derived[n]
attended(n) == tok[n] # 0 /\ agents[n].token = tok[n]

(* What the panel wants of a node reaches it and the network: once requests*)
(* and failures stop, an agent whose token is known has saved the state    *)
(* the panel asks for and runs the release it was ordered, the node        *)
(* announces that state, and what it announces of it is approved.          *)
Settled ==
    \A n \in hsNodes : attended(n) =>
        /\ file[n] = body_of(agents[n], derived[n])
        /\ agents[n].order <= own[n]
        /\ n \in handset \/ avail[n] = wanted(n)
        /\ wanted(n) \cap avail[n] \subseteq approved[n]
EventuallySettled == <>[]Settled

(* collector.py:149-161: an approval the panel gave and no longer wants is *)
(* taken back, and approvals given by hand stay: in the end a node has the *)
(* approvals wanted and those by hand, when requests do not overlap cycles.*)
Withdrawn ==
    <>[](world.alone =>
           \A n \in hsNodes : agents[n].here =>
               approved[n] \subseteq wanted(n) \cup manual[n])

(* settings_store.py:34-44: a serialized call is atomic on the blob, see   *)
(* AgentStore.                                                             *)
Atomic == INSTANCE AgentStore WITH
    stored <- agents,
    pending <- [p \in Proc |-> IF pc[p] \in {"ask", "looked"} THEN job[p]
                               ELSE NoCall]
Serialized == Atomic!Spec
=============================================================================
