----------------------------- MODULE PolicySync -----------------------------
(***************************************************************************)
(* How the stored state of the panel becomes the policy in force in        *)
(* headscale (backend/app/policy_apply.py and the handlers that end in a   *)
(* push: api/policy.py, api/routing.py, api/nodes.py, the reconciliation   *)
(* at the end of collector.collect_once).                                  *)
(*                                                                         *)
(* The backend is one asyncio process.  Every request is a task; another   *)
(* task may run wherever the code awaits, so a step below is the code from *)
(* one await on shared state to the next.  The database commits one blob   *)
(* at a time, headscale answers one call at a time, and a call may fail,   *)
(* be carried out though its answer is lost, or be carried out late.       *)
(***************************************************************************)
EXTENDS AclGen, Naturals

CONSTANTS
    Task,         \* request tasks and the collector
    Collector,    \* the one task that runs collect_once
    NoTask,
    Ops,          \* the kinds of request a run admits
    Stored,       \* what is stored at the start, and headscale's nodes
    Newcomers,    \* nodes that may join
    Bodies,       \* rule lists a PUT may carry
    NewDirs,      \* directions a POST may create
    Edits,        \* notes a request may change: [node, field, value]
    Retags,       \* roles a request may set: [node, roles]
    Picks,        \* routes a request may pick for a node: [node, routes]
    Clients,      \* devices a request may let out through a node: [node, devices]
    Refused,      \* port expressions headscale does not accept
    Foreign,      \* policies someone may set past the panel
    Budgets       \* bounds: <<requests, failures>> in a behaviour

OpName == {"none", "put_rules", "create_direction", "delete_direction",
           "refresh_directions", "routing_loop", "set_meta", "set_tags",
           "delete_node", "set_routes", "set_exit_clients", "put_agent",
           "collect"}

MetaEdit == [node : Node, field : {"kind"}, value : {"", "server", "device"}]
       \cup [node : Node, field : {"admin", "gateway"}, value : BOOLEAN]
       \cup [node : Node, field : {"via"}, value : SUBSET Node]

(* What the panel keeps of the agent of a node: the routes asked for, with *)
(* ExitNet for its exit flag, and panel_approved, those that the panel has *)
(* approved itself.  What else is kept there is in AgentBlob.              *)
AgentEntry == [here : BOOLEAN, want : SUBSET Route, mine : SUBSET Route]
NoAgent == [here |-> FALSE, want |-> {}, mine |-> {}]

ASSUME SyncAssumption ==
    /\ Collector \in Task /\ NoTask \notin Task
    /\ Ops \subseteq OpName \ {"none"}
    /\ Bodies \subseteq SUBSET Rule
    /\ NewDirs \subseteq Direction
    /\ \A e \in Edits : e \in MetaEdit
    /\ Retags \subseteq [node : Node, roles : SUBSET {RoleTag(r) : r \in Role}]
    /\ Picks \subseteq [node : Node, routes : SUBSET Route]
    /\ Clients \subseteq [node : Node, devices : SUBSET Node]
    /\ Budgets \subseteq Nat \X Nat
    /\ Stored \subseteq [nodes : SUBSET HsNode, rules : SUBSET Rule,
                        dirs : SUBSET Direction, meta : [Node -> MetaEntry],
                        agents : [Node -> AgentEntry]]
    /\ \A s \in Stored : DistinctAddrs(s.nodes)
    /\ Foreign \subseteq Policy
    /\ Newcomers \subseteq HsNode

VARIABLES
    hsNodes,   \* headscale: its nodes
    live,      \* headscale: the policy in force
    late,      \* policies sent, given up on, not yet carried out
    rules,     \* database: acl_rules
    dirs,      \* database: routing
    meta,      \* database: node_meta
    agents,    \* database: agents
    lock,      \* policy_apply._write_lock
    pc,        \* where each task is
    why,       \* what its push is for: "push", "again", "apply", "heal", "declare"
    job,       \* its request and the copies of shared state it holds
    seen,      \* what its build_policy, or its approval, has read so far
    pol,       \* the policy it is about to send
    had,       \* the last NodeMetricSample counted at least one node
    left,      \* requests still to come
    faults     \* failures still to come

headscale == <<hsNodes, live, late>>
database == <<rules, dirs, meta, agents>>
building == <<seen, pol>>
tasks == <<pc, why, job, seen, pol>>
budget == <<left, faults>>
vars == <<hsNodes, live, late, rules, dirs, meta, agents, lock, pc, why, job,
          seen, pol, had, left, faults>>

(* keep is a blob or a tag list read earlier; was and gw say whether the   *)
(* note had, and will have, the gateway mark; extra are tags to declare.   *)
NoJob == [op |-> "none", arg |-> {}, keep |-> {}, was |-> FALSE,
          gw |-> FALSE, extra |-> {}]
NoPlan == [want |-> {}, mine |-> {}, had |-> {}]
NoSeen == [rules |-> {}, nodes |-> {}, meta |-> [n \in Node |-> NoMeta],
           plan |-> [n \in Node |-> NoPlan]]

op(t) == job[t].op
arg(t) == job[t].arg
keep(t) == job[t].keep

Wanted == PolicyOf(rules, dirs, meta, hsNodes, {})

Init ==
    /\ \E s \in Stored : /\ hsNodes = s.nodes
                        /\ rules = s.rules /\ dirs = s.dirs
                        /\ meta = s.meta /\ agents = s.agents
    /\ live = Wanted
    /\ late = {}
    /\ lock = NoTask
    /\ pc = [t \in Task |-> "idle"]
    /\ why = [t \in Task |-> "none"]
    /\ job = [t \in Task |-> NoJob]
    /\ seen = [t \in Task |-> NoSeen]
    /\ pol = [t \in Task |-> NoPolicy]
    /\ had = TRUE
    /\ \E b \in Budgets : left = b[1] /\ faults = b[2]

Goto(t, where) == pc' = [pc EXCEPT ![t] = where]

End(t) ==
    /\ pc' = [pc EXCEPT ![t] = "idle"]
    /\ why' = [why EXCEPT ![t] = "none"]
    /\ job' = [job EXCEPT ![t] = NoJob]
    /\ seen' = [seen EXCEPT ![t] = NoSeen]
    /\ pol' = [pol EXCEPT ![t] = NoPolicy]

(* A push starts with build_policy; apply_policy and reconcile_policy      *)
(* queue for the lock first.                                               *)
StartPush(t, what) ==
    /\ pc' = [pc EXCEPT ![t] = "b_rules"]
    /\ why' = [why EXCEPT ![t] = what]

(* Slip: apply_policy pushes without taking the lock.                      *)
StartApply_unlocked(t) ==
    /\ pc' = [pc EXCEPT ![t] = "b_rules"]
    /\ why' = [why EXCEPT ![t] = "apply"]

StartApply(t) ==
    /\ pc' = [pc EXCEPT ![t] = "lock"]
    /\ why' = [why EXCEPT ![t] = "apply"]

Fault == faults > 0 /\ faults' = faults - 1
NoFault == UNCHANGED faults

-----------------------------------------------------------------------------
(* Requests arrive.  Each handler first checks what it was asked; a        *)
(* refused request changes nothing and is not modelled further.            *)

Request(t, j, where, what) ==
    /\ pc[t] = "idle" /\ t # Collector
    /\ j.op \in Ops /\ left > 0
    /\ left' = left - 1
    /\ pc' = [pc EXCEPT ![t] = where]
    /\ why' = [why EXCEPT ![t] = what]
    /\ job' = [job EXCEPT ![t] = j]
    /\ UNCHANGED <<headscale, database, lock, building, had, faults>>

Ask(name, a) == [NoJob EXCEPT !.op = name, !.arg = a]

(* _refuse_inert_rules: a target that is a device, a role worn by a device *)
(* or the source itself.                                                   *)
Inert(body) ==
    \E r \in body :
        \/ /\ r.dst[1] = "node"
           /\ \/ r.src = r.dst
              \/ \E n \in devices(hsNodes, meta) : r.dst[2] = n.id
        \/ /\ r.dst[1] = "tag"
           /\ \E n \in devices(hsNodes, meta) : r.dst[2] \in n.tags

PutRules(t) ==
    \E body \in Bodies :
        /\ ~Inert(body)
        /\ Request(t, Ask("put_rules", body), "lock", "none")

(* The exit node must be a known server; the name is resolved before the   *)
(* lock is taken, so everything checked here is old by then.               *)
CreateDirection(t) ==
    \E d \in NewDirs :
        /\ \E n \in servers(hsNodes, meta) : n.id = d.via
        /\ d.src_kind = "node" => d.src \ {d.via} # {}
        /\ Request(t, Ask("create_direction", d), "lock", "none")

DeleteDirection(t) ==
    \E d \in dirs : Request(t, Ask("delete_direction", d), "lock", "none")

(* The names behind a direction resolve to other addresses.                *)
RefreshDirections(t) ==
    \E d \in dirs, e \in NewDirs, name \in {"refresh_directions", "routing_loop"} :
        /\ e # d /\ e = [d EXCEPT !.ips = e.ips]
        /\ Request(t, Ask(name, <<d, e>>), "refresh", "none")

kind_of(n, kind) == IF kind # "" THEN kind ELSE guess_kind(n)

(* The mark and the kind the node will have, and the checks of set_meta:   *)
(* a node that directions lead through may not become a device, nor may a  *)
(* gateway, and an exit leads through gateways.                            *)
eff_gateway(e) ==
    IF e.field = "gateway" THEN e.value ELSE meta[e.node].gateway
new_kind(e, n) ==
    kind_of(n, IF e.field = "kind" THEN e.value ELSE meta[e.node].kind)

NoTrafficThrough(e) ==
    e.field = "kind" /\ e.value = "device" => \A d \in dirs : d.via # e.node
GatewayStaysServer(e, n) == eff_gateway(e) => new_kind(e, n) = "server"
KnownExits(e) == e.field = "via" => e.value \subseteq gateways(meta)

SetMeta(t) ==
    \E e \in Edits, n \in hsNodes :
        /\ n.id = e.node
        /\ NoTrafficThrough(e) /\ GatewayStaysServer(e, n) /\ KnownExits(e)
        /\ Request(t, [Ask("set_meta", e) EXCEPT
                          !.keep = n.tags, !.was = meta[e.node].gateway,
                          !.gw = eff_gateway(e)],
                   "note", "none")

keep_tagged(T) == IF T = {} THEN {MARKER_TAG} ELSE T

(* Slip: the new roles replace all the tags of the node.                   *)
kept_tags_none(n) == {}

(* set_tags keeps the panel's own tags and declares new roles first.       *)
kept_tags(n) == {tg \in n.tags : is_service_tag(tg)}

SetTags(t) ==
    \E e \in Retags, n \in hsNodes :
        LET want == keep_tagged(e.roles \cup kept_tags(n))
        IN  /\ n.id = e.node
            /\ Request(t, [Ask("set_tags", e) EXCEPT
                              !.keep = want,
                              !.extra = IF e.roles # {} THEN e.roles
                                                        ELSE {MARKER_TAG}],
                       IF e.roles = {} /\ MARKER_TAG \notin want
                       THEN "tags" ELSE "b_rules", "declare")

(* A node that is gone from headscale may still be deleted: 404 passes.    *)
DeleteNode(t) ==
    \E n \in Node : Request(t, Ask("delete_node", n), "hs_delete", "none")

(* The routes ticked by hand, the agent's settings, and the devices that   *)
(* may leave through a node: these are the nodes that are no servers when  *)
(* the request comes.                                                      *)
SetRoutes(t) == \E p \in Picks : Request(t, Ask("set_routes", p), "untick", "none")
PutAgent(t) == \E p \in Picks : Request(t, Ask("put_agent", p), "form", "none")

SetExitClients(t) ==
    \E c \in Clients, n \in hsNodes :
        /\ n.id = c.node
        /\ Request(t, [Ask("set_exit_clients", c) EXCEPT
                          !.keep = {m.id : m \in devices(hsNodes, meta)}],
                   "clients", "none")

-----------------------------------------------------------------------------
(* put_rules, create_direction and delete_direction hold the lock from     *)
(* before they save until after they have pushed.                          *)

(* Slip: every handler keeps the rules to go back to.                      *)
Acquire_keeps_rules(t) ==
    /\ pc[t] = "lock" /\ lock = NoTask
    /\ lock' = t
    /\ IF why[t] # "none"
       THEN Goto(t, "b_rules") /\ UNCHANGED job
       ELSE Goto(t, "save") /\ job' = [job EXCEPT ![t].keep = rules]
    /\ UNCHANGED <<headscale, database, why, building, had, budget>>

Acquire(t) ==
    /\ pc[t] = "lock" /\ lock = NoTask
    /\ IF why[t] # "none"
       THEN lock' = t /\ Goto(t, "b_rules") /\ UNCHANGED <<why, job, building>>
       ELSE IF op(t) = "delete_direction" /\ arg(t) \notin dirs
       THEN End(t) /\ UNCHANGED lock
       ELSE /\ lock' = t
            /\ job' = [job EXCEPT ![t].keep =
                         IF op(t) = "put_rules" THEN rules ELSE dirs]
            /\ Goto(t, "save")
            /\ UNCHANGED <<why, building>>
    /\ UNCHANGED <<headscale, database, had, budget>>

Save(t) ==
    /\ pc[t] = "save"
    /\ \/ /\ op(t) = "put_rules"
          /\ rules' = arg(t) /\ UNCHANGED dirs
       \/ /\ op(t) = "create_direction"
          /\ dirs' = keep(t) \cup {arg(t)} /\ UNCHANGED rules
       \/ /\ op(t) = "delete_direction"
          /\ dirs' = keep(t) \ {arg(t)} /\ UNCHANGED rules
    /\ StartPush(t, "push")
    /\ UNCHANGED <<headscale, meta, agents, lock, job, building, had, budget>>

(* The push was refused: the blob is written back as it was read, and that *)
(* is pushed in turn, whatever comes of it.                                *)
Undo(t) ==
    /\ pc[t] = "undo"
    /\ IF op(t) = "put_rules"
       THEN rules' = keep(t) /\ UNCHANGED dirs
       ELSE dirs' = keep(t) /\ UNCHANGED rules
    /\ StartPush(t, "again")
    /\ UNCHANGED <<headscale, meta, agents, lock, job, building, had, budget>>

(* refresh() reads the blob again before it writes, so that a direction    *)
(* deleted while names were being resolved is not written back.            *)
RefreshRead(t) ==
    /\ pc[t] = "refresh"
    /\ IF arg(t)[1] \in dirs
       THEN /\ job' = [job EXCEPT ![t].keep = dirs]
            /\ Goto(t, "fresh")
            /\ UNCHANGED <<why, building>>
       ELSE End(t)
    /\ UNCHANGED <<headscale, database, lock, had, budget>>

(* The hourly loop then queues for the lock, the request does not.         *)
RefreshWrite(t) ==
    /\ pc[t] = "fresh"
    /\ dirs' = (keep(t) \ {arg(t)[1]}) \cup {arg(t)[2]}
    /\ IF op(t) = "routing_loop" THEN StartApply(t) ELSE StartPush(t, "push")
    /\ UNCHANGED <<headscale, rules, meta, agents, lock, job, building, had,
                   budget>>

-----------------------------------------------------------------------------
(* set_meta: the note is merged into the blob under the settings lock,     *)
(* which a deletion holds while it cleans up.                              *)

SettingsFree == \A u \in Task : pc[u] # "forget"

without_gateway(m, g) == [n \in Node |-> [m[n] EXCEPT !.via = @ \ {g}]]

AfterNote(t) ==
    IF job[t].gw
    THEN /\ job' = [job EXCEPT ![t].extra = {gateway_tag(arg(t).node)}]
         /\ StartPush(t, "declare")
    ELSE /\ IF gateway_tag(arg(t).node) \in keep(t)
            THEN Goto(t, "tags") ELSE Goto(t, "exit")
         /\ UNCHANGED <<why, job>>

set_node_meta(t) ==
    /\ pc[t] = "note" /\ SettingsFree
    /\ LET e == arg(t) IN
       meta' = [meta EXCEPT ![e.node] =
           CASE e.field = "kind"    -> [@ EXCEPT !.kind = e.value]
             [] e.field = "admin"   -> [@ EXCEPT !.admin = e.value]
             [] e.field = "gateway" -> [@ EXCEPT !.gateway = e.value]
             [] OTHER               -> [@ EXCEPT !.via = e.value]]
    /\ IF job[t].was /\ ~job[t].gw
       THEN Goto(t, "drop") /\ UNCHANGED <<why, job>>
       ELSE AfterNote(t)
    /\ UNCHANGED <<headscale, rules, dirs, agents, lock, building, had, budget>>

drop_gateway(t) ==
    /\ pc[t] = "drop" /\ SettingsFree
    /\ meta' = without_gateway(meta, arg(t).node)
    /\ AfterNote(t)
    /\ UNCHANGED <<headscale, rules, dirs, agents, lock, building, had, budget>>

(* The tags a handler hangs on a node: those it read at its start, with    *)
(* the gateway's own tag added or taken away.                              *)
Hung(t) ==
    LET tag == gateway_tag(arg(t).node) IN
    IF op(t) = "set_tags" THEN keep(t)
    ELSE IF job[t].gw THEN keep(t) \cup {tag}
    ELSE keep_tagged(keep(t) \ {tag})

(* headscale hangs no tag that its policy does not declare.                *)
Retag(t) ==
    hsNodes' = {IF n.id = arg(t).node THEN [n EXCEPT !.tags = Hung(t)] ELSE n :
                    n \in hsNodes}

(* set_meta goes on to the exit flag of the agent, set_tags is done.       *)
set_node_tags(t) ==
    /\ pc[t] = "tags"
    /\ LET valid == /\ \E n \in hsNodes : n.id = arg(t).node
                    /\ Hung(t) \subseteq live.owners
       IN  \/ /\ valid /\ NoFault
              /\ Retag(t)
              /\ IF op(t) = "set_meta"
                 THEN Goto(t, "exit") /\ UNCHANGED <<why, job, building>>
                 ELSE End(t)
           \/ /\ ~valid /\ NoFault
              /\ End(t) /\ UNCHANGED hsNodes
           \/ /\ valid /\ Fault     \* no answer: the request ends in a 502
              /\ Retag(t) \/ UNCHANGED hsNodes
              /\ End(t)
    /\ UNCHANGED <<live, late, database, lock, had, left>>

(* Slip: a note is saved and the policy left as it is.                     *)
AfterExit_no_apply(t) == End(t)

AfterExit(t) == StartApply(t) /\ UNCHANGED <<job, building>>

(* A gateway announces the way out; then the policy is applied.            *)
set_agent_exit(t) ==
    /\ pc[t] = "exit"
    /\ LET n == arg(t).node
           flagged == IF job[t].gw THEN agents[n].want \cup {ExitNet}
                                   ELSE agents[n].want \ {ExitNet}
       IN  agents' = IF flagged = agents[n].want THEN agents
                     ELSE [agents EXCEPT ![n].here = TRUE, ![n].want = flagged]
    /\ AfterExit(t)
    /\ UNCHANGED <<headscale, rules, dirs, meta, lock, had, budget>>

-----------------------------------------------------------------------------
(* set_routes, put_agent and set_exit_clients.                             *)

(* Every step here reads a blob and writes it back.  What a writer loses   *)
(* that comes in between is the matter of Agents.                          *)

(* Slip: any route may be unticked.                                        *)
Kept_any(t) == {}

(* Routes that a direction needs cannot be unticked.                       *)
Kept(t) == routes_by_node(dirs, arg(t).node) \ arg(t).routes

Untick(t) ==
    LET n == arg(t).node
        dropped == agents[n].want \ (arg(t).routes \cup {ExitNet})
    IN
    /\ pc[t] = "untick" /\ SettingsFree
    /\ IF Kept(t) # {}
       THEN End(t) /\ UNCHANGED agents
       ELSE /\ agents' = [agents EXCEPT ![n].want = @ \ dropped,
                                        ![n].mine = @ \ dropped]
            /\ Goto(t, "routes") /\ UNCHANGED <<why, job, building>>
    /\ UNCHANGED <<headscale, rules, dirs, meta, lock, had, budget>>

(* The list that was ticked replaces the approved routes, whatever else    *)
(* was approved meanwhile.  The policy is left to the collector.           *)
ApproveTicked(t) ==
    /\ pc[t] = "routes"
    /\ LET ticked == {IF n.id = arg(t).node
                      THEN [n EXCEPT !.approved = arg(t).routes] ELSE n :
                          n \in hsNodes}
       IN  \/ NoFault /\ hsNodes' = ticked
           \/ Fault /\ hsNodes' \in {ticked, hsNodes}
    /\ End(t)
    /\ UNCHANGED <<live, late, database, lock, had, left>>

WriteAgent(t) ==
    /\ pc[t] = "form"
    /\ agents' = [agents EXCEPT ![arg(t).node] =
                    [@ EXCEPT !.here = TRUE, !.want = arg(t).routes]]
    /\ End(t)
    /\ UNCHANGED <<headscale, rules, dirs, meta, lock, had, budget>>

(* A node that has become a server or has gone since is still written to;  *)
(* nobody asks whether the exit is a gateway.                              *)
set_gateway_clients(t) ==
    /\ pc[t] = "clients" /\ SettingsFree
    /\ meta' = [n \in Node |->
           IF n \notin keep(t) THEN meta[n]
           ELSE IF n \in arg(t).devices
           THEN [meta[n] EXCEPT !.via = @ \cup {arg(t).node}]
           ELSE [meta[n] EXCEPT !.via = @ \ {arg(t).node}]]
    /\ StartApply(t)
    /\ UNCHANGED <<headscale, rules, dirs, agents, lock, job, building, had,
                   budget>>

-----------------------------------------------------------------------------
(* delete_node.                                                            *)

HsDelete(t) ==
    /\ pc[t] = "hs_delete"
    /\ LET rest == {n \in hsNodes : n.id # arg(t)} IN
       \/ /\ NoFault /\ hsNodes' = rest
          /\ Goto(t, "forget_wait") /\ UNCHANGED <<why, job, building>>
       \/ /\ Fault /\ hsNodes' \in {rest, hsNodes} /\ End(t)
    /\ UNCHANGED <<live, late, database, lock, had, left>>

(* atomic_update takes the settings lock.  The blobs are read one by one;  *)
(* from the first one that has to change on, the open transaction keeps    *)
(* every other writer out, so only the first may be written from old data. *)
ForgetRead(t) ==
    /\ pc[t] = "forget_wait" /\ SettingsFree
    /\ seen' = [seen EXCEPT ![t].rules = rules]
    /\ job' = [job EXCEPT ![t].keep = dirs]
    /\ Goto(t, "forget")
    /\ UNCHANGED <<headscale, database, lock, why, pol, had, budget>>

mentions(r, n) == r.src = <<"node", n>> \/ r.dst = <<"node", n>>
rules_without(R, n) == {r \in R : ~mentions(r, n)}
(* Slip: directions through the deleted node stay.                         *)
dirs_without_clients(D, n) == {[d EXCEPT !.src = @ \ {n}] : d \in D}

dirs_without(D, n) ==
    {[d EXCEPT !.src = @ \ {n}] :
        d \in {e \in D : /\ e.via # n
                         /\ ~(e.src_kind = "node" /\ n \in e.src /\ e.src \ {n} = {})}}

ForgetCommit(t) ==
    LET n == arg(t)
        m == [without_gateway(meta, n) EXCEPT ![n] = NoMeta]
        old == seen[t].rules
    IN
    /\ pc[t] = "forget"
    /\ \/ /\ NoFault
          /\ meta' = m
          /\ agents' = [agents EXCEPT ![n] = NoAgent]
          /\ \/ /\ m # meta
                /\ rules' = rules_without(rules, n)
                /\ dirs' = dirs_without(dirs, n)
             \/ /\ m = meta /\ rules_without(old, n) # old
                /\ rules' = rules_without(old, n)
                /\ dirs' = dirs_without(dirs, n)
             \/ /\ m = meta /\ rules_without(old, n) = old
                /\ UNCHANGED rules
                /\ dirs' = IF dirs_without(keep(t), n) = keep(t) THEN dirs
                           ELSE dirs_without(keep(t), n)
          /\ StartApply(t)
          /\ job' = [job EXCEPT ![t].keep = {}]
          /\ seen' = [seen EXCEPT ![t] = NoSeen]
          /\ UNCHANGED pol
       \/ Fault /\ End(t) /\ UNCHANGED database    \* rolled back, answered 500
    /\ UNCHANGED <<headscale, lock, had, left>>

-----------------------------------------------------------------------------
(* build_policy reads the rules, the nodes, the notes and the directions,  *)
(* one await after another; the collector brings the node list it read at  *)
(* the start of its cycle.                                                 *)

BuildRules(t) ==
    /\ pc[t] = "b_rules"
    /\ seen' = [seen EXCEPT ![t].rules = rules]
    /\ Goto(t, IF op(t) = "collect" THEN "b_meta" ELSE "b_nodes")
    /\ UNCHANGED <<headscale, database, lock, why, job, pol, had, budget>>

DirectionOps == {"create_direction", "delete_direction", "refresh_directions"}

(* Slip: put_rules reports the refusal and leaves the rules saved.         *)
Undoes_directions(t) == why[t] = "push" /\ op(t) = "create_direction"

Undoes(t) == why[t] = "push" /\ op(t) \in {"put_rules", "create_direction"}

Release(t) == lock' = IF lock = t THEN NoTask ELSE lock

(* What follows a push.  Whatever became of it, a declaration goes on to   *)
(* the tags (set_tags declares its marker in a push of its own).  A        *)
(* failure is undone by put_rules and create_direction only.  The          *)
(* direction handlers go on to approve the routes, the hourly loop when it *)
(* has let the lock go.                                                    *)
Settle(t, ok) ==
    \/ /\ why[t] = "declare"
       /\ IF op(t) = "set_tags" /\ MARKER_TAG \in keep(t) \ job[t].extra
          THEN /\ job' = [job EXCEPT ![t].extra = {MARKER_TAG}]
               /\ Goto(t, "b_rules")
          ELSE Goto(t, "tags") /\ UNCHANGED job
       /\ seen' = [seen EXCEPT ![t] = NoSeen]
       /\ pol' = [pol EXCEPT ![t] = NoPolicy]
       /\ UNCHANGED <<why, lock>>
    \/ /\ why[t] # "declare" /\ ~ok /\ Undoes(t)
       /\ Goto(t, "undo")
       /\ UNCHANGED <<why, job, building, lock>>
    \/ /\ why[t] # "declare" /\ (ok \/ ~Undoes(t))
       /\ IF op(t) = "routing_loop" \/ (ok /\ op(t) \in DirectionOps)
          THEN /\ Goto(t, "approve")
               /\ IF op(t) = "routing_loop" THEN Release(t) ELSE UNCHANGED lock
               /\ pol' = [pol EXCEPT ![t] = NoPolicy]
               /\ UNCHANGED <<why, job, seen>>
          ELSE End(t) /\ Release(t)

BuildNodes(t) ==
    /\ pc[t] = "b_nodes"
    /\ \/ /\ \/ NoFault /\ seen' = [seen EXCEPT ![t].nodes = hsNodes]
             \/ Fault /\ seen' = [seen EXCEPT ![t].nodes = {}]  \* 200, no list
          /\ Goto(t, "b_meta")
          /\ UNCHANGED <<lock, why, job, pol>>
       \/ Fault /\ Settle(t, FALSE)
    /\ UNCHANGED <<headscale, database, had, left>>

BuildMeta(t) ==
    /\ pc[t] = "b_meta"
    /\ seen' = [seen EXCEPT ![t].meta = meta]
    /\ Goto(t, "b_dirs")
    /\ UNCHANGED <<headscale, database, lock, why, job, pol, had, budget>>

BuildRouting(t) ==
    /\ pc[t] = "b_dirs"
    /\ LET s == seen[t]
           extra == IF why[t] = "declare" THEN job[t].extra ELSE {}
       IN  pol' = [pol EXCEPT ![t] =
                     PolicyOf(s.rules, dirs, s.meta, s.nodes, extra)]
    /\ seen' = [seen EXCEPT ![t] = NoSeen]
    /\ Goto(t, IF op(t) = "collect" THEN "compare" ELSE "send")
    /\ UNCHANGED <<headscale, database, lock, why, job, had, budget>>

(* headscale refuses a policy it cannot parse or that uses a tag it does   *)
(* not declare.                                                            *)
Accepts(p) ==
    /\ \A r \in p.acls : r.ports \notin Refused
    /\ Declared(p)

Send(t) ==
    /\ pc[t] = "send"
    /\ \/ /\ Accepts(pol[t]) /\ NoFault
          /\ live' = pol[t] /\ UNCHANGED late
          /\ Settle(t, TRUE)
       \/ /\ ~Accepts(pol[t]) /\ NoFault
          /\ UNCHANGED <<live, late>>
          /\ Settle(t, FALSE)
       \/ /\ Accepts(pol[t]) /\ Fault
          /\ \/ UNCHANGED <<live, late>>                      \* never arrived
             \/ live' = pol[t] /\ UNCHANGED late              \* answer lost
             \/ late' = late \cup {pol[t]} /\ UNCHANGED live  \* still under way
          /\ Settle(t, FALSE)
    /\ UNCHANGED <<hsNodes, database, had, left>>

(* Approval of routes, of two kinds.  A task first reads what it goes by,  *)
(* then calls headscale, which replaces all the approved routes of a node  *)
(* at once: those it had when they were read, without what the panel has   *)
(* approved itself and wants no more, and with what is granted.  The nodes *)
(* are called one after another, and none twice; here it is one step.      *)

target(p, got) == (p.had \ (p.mine \ p.want)) \cup got
owned(p, got) == (p.mine \cup got) \ (p.mine \ p.want)

plan(t) == seen[t].plan
Approved(t, S, got) ==
    {IF n.id \in S /\ target(plan(t)[n.id], got[n.id]) # plan(t)[n.id].had
     THEN [n EXCEPT !.approved = target(plan(t)[n.id], got[n.id])] ELSE n :
        n \in hsNodes}

(* A node that is gone answers 404, which ends the whole round.            *)
Missing(t, got) ==
    \E n \in Node : /\ target(plan(t)[n], got[n]) # plan(t)[n].had
                    /\ ~ \E h \in hsNodes : h.id = n

approved_of(N, i) == UNION {n.approved : n \in {m \in N : m.id = i}}

(* approve_for: the routes of the directions are added to what their exit  *)
(* nodes have.  A failure is logged, no more.                              *)
Approve(t) ==
    /\ pc[t] = "approve"
    /\ IF \A n \in Node : routes_by_node(dirs, n) = {}
       THEN NoFault /\ End(t) /\ Release(t)
       ELSE \/ /\ NoFault
               /\ seen' = [seen EXCEPT ![t].plan = [n \in Node |->
                    IF \E h \in hsNodes : h.id = n
                    THEN [want |-> routes_by_node(dirs, n), mine |-> {},
                          had |-> approved_of(hsNodes, n)]
                    ELSE NoPlan]]
               /\ Goto(t, "approving") /\ UNCHANGED <<lock, why, job, pol>>
            \/ Fault /\ End(t) /\ Release(t)
    /\ UNCHANGED <<headscale, database, had, left>>

(* The handlers note what they approved as the panel's own, the hourly     *)
(* loop does not, nor does a round that is cut short.                      *)
ApproveDirections(t) ==
    LET got == [n \in Node |-> plan(t)[n].want] IN
    /\ pc[t] = "approving" /\ op(t) # "collect"
    /\ \/ /\ ~Missing(t, got) /\ NoFault
          /\ hsNodes' = Approved(t, Node, got)
          /\ agents' = IF op(t) = "routing_loop" THEN agents
                       ELSE [n \in Node |->
                               IF agents[n].here
                               THEN [agents[n] EXCEPT !.mine = @ \cup got[n]]
                               ELSE agents[n]]
       \/ /\ IF Missing(t, got) THEN NoFault ELSE Fault
          /\ \E S \in SUBSET Node : hsNodes' = Approved(t, S, got)
          /\ UNCHANGED agents
    /\ End(t) /\ Release(t)
    /\ UNCHANGED <<live, late, rules, dirs, meta, had, left>>

-----------------------------------------------------------------------------
(* The collector: a cycle that is told of no nodes at all although the     *)
(* last one was told of some does nothing.                                 *)

CollectNodes ==
    /\ pc[Collector] = "idle" /\ "collect" \in Ops
    /\ \E raw \in {hsNodes, {}} :
          /\ IF raw = hsNodes THEN NoFault ELSE Fault
          /\ raw # {} \/ ~had
          /\ had' = (raw # {})
          /\ seen' = [seen EXCEPT ![Collector].nodes = raw]
    /\ job' = [job EXCEPT ![Collector].op = "collect"]
    /\ Goto(Collector, "wanted")
    /\ UNCHANGED <<headscale, database, lock, why, pol, left>>

(* Slip: the reconciliation reads and pushes without the lock.             *)
StartHeal_unlocked ==
    /\ pc' = [pc EXCEPT ![Collector] = "b_rules"]
    /\ why' = [why EXCEPT ![Collector] = "heal"]

StartHeal ==
    /\ pc' = [pc EXCEPT ![Collector] = "lock"]
    /\ why' = [why EXCEPT ![Collector] = "heal"]

(* _auto_approve_requested goes by the list of nodes of the cycle and by   *)
(* the agents and directions of now.                                       *)
ReadWanted ==
    LET raw == seen[Collector].nodes
        p == [n \in Node |->
                IF agents[n].here /\ \E h \in raw : h.id = n
                THEN [want |-> agents[n].want \cup routes_by_node(dirs, n),
                      mine |-> agents[n].mine, had |-> approved_of(raw, n)]
                ELSE NoPlan]
    IN
    /\ pc[Collector] = "wanted"
    /\ IF \A n \in Node : p[n].want \cup p[n].mine = {}
       THEN StartHeal /\ UNCHANGED seen
       ELSE /\ seen' = [seen EXCEPT ![Collector].plan = p]
            /\ Goto(Collector, "approving") /\ UNCHANGED why
    /\ UNCHANGED <<headscale, database, lock, job, pol, had, budget>>

(* What is wanted and announced is granted.  What the round changed is     *)
(* noted node by node, over what has been noted of them since; one that is *)
(* cut short has called, and noted, only some.                             *)
Granted(announced) ==
    [n \in Node |-> {r \in plan(Collector)[n].want : <<n, r>> \in announced}]

Noted(S, got) ==
    [n \in Node |->
       LET p == plan(Collector)[n] IN
       IF n \in S /\ agents[n].here /\ owned(p, got[n]) # p.mine
       THEN [agents[n] EXCEPT !.mine = owned(p, got[n])]
       ELSE agents[n]]

ApproveRequested ==
    LET t == Collector
        offers == UNION {{n} \X plan(t)[n].want : n \in Node}
    IN
    /\ pc[t] = "approving" /\ op(t) = "collect"
    /\ \E got \in {Granted(announced) : announced \in SUBSET offers} :
         \/ /\ ~Missing(t, got) /\ NoFault
            /\ hsNodes' = Approved(t, Node, got)
            /\ agents' = Noted(Node, got)
         \/ /\ IF Missing(t, got) THEN NoFault ELSE Fault
            /\ \E S \in SUBSET Node : \E R \in SUBSET S :
                  /\ hsNodes' = Approved(t, S, got)
                  /\ agents' = Noted(R, got)
    /\ seen' = [seen EXCEPT ![t].plan = NoSeen.plan]
    /\ StartHeal
    /\ UNCHANGED <<live, late, rules, dirs, meta, lock, job, pol, had, left>>

(* Slip: the policy read back is not compared, the push not repeated.      *)
Compare_trusts ==
    /\ pc[Collector] = "compare"
    /\ NoFault /\ Settle(Collector, TRUE)
    /\ UNCHANGED <<headscale, database, had, left>>

(* reconcile_policy: what is in force already, or a push.                  *)
Compare ==
    /\ pc[Collector] = "compare"
    /\ \/ /\ pol[Collector] = live /\ NoFault
          /\ Settle(Collector, TRUE)
       \/ /\ IF pol[Collector] = live THEN Fault ELSE NoFault
          /\ Goto(Collector, "send")
          /\ UNCHANGED <<lock, why, job, building>>
    /\ UNCHANGED <<headscale, database, had, left>>

(* _prune: samples age away, in a fleet that stays empty all of them.      *)
Prune ==
    /\ "collect" \in Ops
    /\ had /\ hsNodes = {}
    /\ had' = FALSE
    /\ UNCHANGED <<headscale, database, lock, tasks, budget>>

-----------------------------------------------------------------------------
(* What happens around the panel.                                          *)

(* A policy given up on is carried out after all.                          *)
LateArrives ==
    /\ \E p \in late : live' = p /\ late' = late \ {p}
    /\ UNCHANGED <<hsNodes, database, lock, tasks, had, budget>>

(* The headscale command line, or somebody else's key.                     *)
Tamper ==
    /\ Fault
    /\ live' \in Foreign
    /\ UNCHANGED <<hsNodes, late, database, lock, tasks, had, left>>

(* A node enrols; headscale gives it a free address, maybe a used one.     *)
Join ==
    /\ left > 0 /\ left' = left - 1
    /\ \E n \in Newcomers :
          /\ hsNodes' = hsNodes \cup {n}
          /\ n \notin hsNodes /\ DistinctAddrs(hsNodes')
    /\ UNCHANGED <<live, late, database, lock, tasks, had, faults>>

(* The backend restarts: tasks and locks are gone, the database stays.     *)
Restart ==
    /\ Fault
    /\ \E t \in Task : pc[t] # "idle"
    /\ lock' = NoTask
    /\ pc' = [t \in Task |-> "idle"]
    /\ why' = [t \in Task |-> "none"]
    /\ job' = [t \in Task |-> NoJob]
    /\ seen' = [t \in Task |-> NoSeen]
    /\ pol' = [t \in Task |-> NoPolicy]
    /\ UNCHANGED <<headscale, database, had, left>>

Arrive(t) ==
    \/ PutRules(t) \/ CreateDirection(t) \/ DeleteDirection(t)
    \/ RefreshDirections(t) \/ SetMeta(t) \/ SetTags(t) \/ DeleteNode(t)
    \/ SetRoutes(t) \/ PutAgent(t) \/ SetExitClients(t)

Step(t) ==
    \/ Save(t) \/ Undo(t) \/ RefreshRead(t) \/ RefreshWrite(t)
    \/ set_node_meta(t) \/ drop_gateway(t) \/ set_node_tags(t)
    \/ set_agent_exit(t) \/ Untick(t) \/ ApproveTicked(t) \/ WriteAgent(t)
    \/ set_gateway_clients(t)
    \/ HsDelete(t) \/ ForgetRead(t) \/ ForgetCommit(t)
    \/ BuildRules(t) \/ BuildNodes(t) \/ BuildMeta(t) \/ BuildRouting(t)
    \/ Send(t) \/ Approve(t) \/ ApproveDirections(t)

Next ==
    \/ \E t \in Task : Arrive(t) \/ Acquire(t) \/ Step(t)
    \/ CollectNodes \/ ReadWanted \/ ApproveRequested \/ Compare \/ Prune
    \/ LateArrives \/ Tamper \/ Join \/ Restart

Spec == Init /\ [][Next]_vars

(* The event loop runs whatever can run, asyncio.Lock serves its waiters   *)
(* in turn, and the collector's loop never ends.  Nothing makes requests,  *)
(* failures or late arrivals happen.                                       *)
Fairness ==
    /\ \A t \in Task : WF_vars(Step(t)) /\ SF_vars(Acquire(t))
    /\ WF_vars(CollectNodes) /\ WF_vars(ReadWanted)
    /\ WF_vars(ApproveRequested) /\ WF_vars(Compare) /\ WF_vars(Prune)

FairSpec == Spec /\ Fairness

-----------------------------------------------------------------------------
PC == {"idle", "refresh", "fresh", "lock", "save", "undo", "note", "drop",
       "tags", "exit", "hs_delete", "forget_wait", "forget", "untick",
       "routes", "form", "clients", "b_rules", "b_nodes", "b_meta", "b_dirs",
       "compare", "send", "approve", "approving", "wanted"}

Why == {"none", "push", "again", "apply", "heal", "declare"}

Plan == [want : SUBSET Route, mine : SUBSET Route, had : SUBSET Route]

Seen == [rules : SUBSET Rule, nodes : SUBSET HsNode, meta : [Node -> MetaEntry],
         plan : [Node -> Plan]]

Blob(o) == IF o = "put_rules" THEN Rule
           ELSE IF o \in {"set_meta", "set_tags"} THEN Tag
           ELSE IF o = "set_exit_clients" THEN Node
           ELSE Direction

JobOK(j) ==
    /\ j = [op |-> j.op, arg |-> j.arg, keep |-> j.keep, was |-> j.was,
            gw |-> j.gw, extra |-> j.extra]
    /\ j.op \in OpName
    /\ j.op = "put_rules" => j.arg \in SUBSET Rule
    /\ j.op \in {"create_direction", "delete_direction"} => j.arg \in Direction
    /\ j.op \in {"refresh_directions", "routing_loop"} =>
          j.arg[1] \in Direction /\ j.arg[2] \in Direction
    /\ j.op = "set_meta" => j.arg \in Edits
    /\ j.op = "set_tags" => j.arg \in Retags
    /\ j.op = "delete_node" => j.arg \in Node
    /\ j.op \in {"set_routes", "put_agent"} => j.arg \in Picks
    /\ j.op = "set_exit_clients" => j.arg \in Clients
    /\ j.keep \in SUBSET Blob(j.op)
    /\ j.was \in BOOLEAN /\ j.gw \in BOOLEAN
    /\ j.extra \in SUBSET Tag

(* Which requests get where: what a task keeps is read by the type its     *)
(* request gives it.                                                       *)
Phase(where, what, o) ==
    /\ where = "idle" => o = "none"
    /\ where \in {"refresh", "fresh"} => o \in {"refresh_directions", "routing_loop"}
    /\ where = "save" \/ (where = "lock" /\ what = "none") =>
          o \in {"put_rules", "create_direction", "delete_direction"}
    /\ where = "undo" => o \in {"put_rules", "create_direction"}
    /\ where \in {"note", "drop", "exit"} => o = "set_meta"
    /\ where = "tags" \/ what = "declare" => o \in {"set_meta", "set_tags"}
    /\ where \in {"hs_delete", "forget_wait", "forget"} => o = "delete_node"
    /\ where \in {"untick", "routes"} => o = "set_routes"
    /\ where = "form" => o = "put_agent"
    /\ where = "clients" => o = "set_exit_clients"
    /\ where = "wanted" => o = "collect"

TasksOK ==
    /\ pc \in [Task -> PC]
    /\ why \in [Task -> Why]
    /\ job = [t \in Task |-> job[t]]
    /\ seen \in [Task -> Seen]
    /\ pol \in [Task -> Policy]
    /\ \A t \in Task : JobOK(job[t]) /\ Phase(pc[t], why[t], op(t))

(* Every variable holds what the code keeps in it; headscale's nodes have  *)
(* addresses of their own.                                                 *)
TypeOK ==
    /\ hsNodes \in SUBSET HsNode /\ DistinctAddrs(hsNodes)
    /\ live \in Policy /\ late \in SUBSET Policy
    /\ rules \in SUBSET Rule /\ dirs \in SUBSET Direction
    /\ meta \in [Node -> MetaEntry] /\ agents \in [Node -> AgentEntry]
    /\ lock \in Task \cup {NoTask}
    /\ TasksOK
    /\ had \in BOOLEAN /\ left \in Nat /\ faults \in Nat

Quiet == \A t \in Task : pc[t] = "idle"

(* When nothing is under way, the policy in force is the one that follows  *)
(* from what the panel stores: what policy_apply.write_lock is for ("save  *)
(* the rules, then push the policy" as one).                               *)
QuietAgreement == Quiet => live = Wanted

(* The policy in force lets nobody reach a personal device (aclgen: "a     *)
(* device is never a destination").  That is no invariant of the code: a   *)
(* server that loses its approved routes, to the collector or to           *)
(* set_routes, is a device from then on, and the policy follows later.     *)
IsolationInForce == Isolated(live, hsNodes, meta)

(* When nothing is under way, nobody can reach a personal device.          *)
QuietIsolation == Quiet => IsolationInForce

(* The collector pushes with a list of nodes that may be a cycle old, but  *)
(* never with old rules: when nothing is under way, what is in force       *)
(* follows from today's rules, directions and notes over some list of      *)
(* nodes, so nothing an administrator has revoked is in force again.       *)
KnownNodes == Newcomers \cup UNION {s.nodes : s \in Stored}
WithRoutes(N, R) ==
    {[n EXCEPT !.approved = IF n \in R THEN {ExitNet} ELSE {}] : n \in N}
NothingRevokedReturns ==
    Quiet => \E N \in SUBSET KnownNodes : \E R \in SUBSET N :
                live = PolicyOf(rules, dirs, meta, WithRoutes(N, R), {})

(* Whatever fails, is late, is lost in a restart or is changed past the    *)
(* panel: once that stops, the collector sees to it that the policy in     *)
(* force is the one that follows from what is stored, for good.            *)
Convergence == <>[](live = Wanted)

(* One task at a time: none begins while another is under way.             *)
Solo == (\E t \in Task : pc[t] = "idle" /\ pc'[t] # "idle") => Quiet
SoloSpec == Init /\ [][Next /\ Solo]_vars

(* Nobody's traffic is led through a personal device: set_meta,            *)
(* create_direction and set_routes refuse it, and what the collector       *)
(* withdraws is never a route that a direction needs.                      *)
NoDeviceVia ==
    Quiet => \A d \in dirs, n \in hsNodes :
                n.id = d.via /\ dst_ips(d) # {} =>
                    effective_kind(n, meta) = "server"

(* A node marked as an exit gateway wears the tag by which the grants find *)
(* it, whatever roles it is given and takes off (set_tags keeps the tags   *)
(* of the panel, set_meta hangs and takes off the gateway's).              *)
GatewayWearsItsTag ==
    Quiet => \A n \in hsNodes :
                meta[n.id].gateway => gateway_tag(n.id) \in n.tags

(* Deleting a node leaves nothing behind that names it: no direction leads *)
(* through a node that is gone, no note is kept of it, and no exit through *)
(* it is permitted (forget_node_refs, drop_gateway).                       *)
NoDeadReferences ==
    LET ids == {n.id : n \in hsNodes} IN
    Quiet => /\ \A d \in dirs : d.via \in ids
             /\ \A n \in Node \ ids : meta[n] = NoMeta
             /\ \A n \in Node : meta[n].via \subseteq ids

(* A tag is hung on a node only when the policy in force declares it       *)
(* (set_tags: "declare it there first, and only then hang it").            *)
DeclaredBeforeHung ==
    \A t \in Task : pc[t] = "tags" => Hung(t) \subseteq live.owners

-----------------------------------------------------------------------------
(* What the theorems suppose of the requests and of what is stored.         *)

Unfailing == \A b \in Budgets : b[2] = 0

(* No note of a gateway, or that would make one, is edited.                *)
Unmarked ==
    \A e \in Edits :
        /\ e.field # "gateway"
        /\ \A s \in Stored : ~s.meta[e.node].gateway
        /\ \A n \in KnownNodes : gateway_tag(e.node) \notin n.tags

(* The part of the system that holds the lock from its change to its push, *)
(* or applies the policy after the change: no request that pushes without  *)
(* the lock, no exit marks, and nothing that fails or is refused.          *)
LockedOps == {"put_rules", "create_direction", "delete_direction",
              "routing_loop", "set_meta", "delete_node", "set_exit_clients"}

(* With the collector beside the requests, nodes that join, and requests   *)
(* that change the routes of a node and leave the policy to the collector. *)
Orderly ==
    /\ Ops \subseteq LockedOps \cup {"set_routes", "put_agent", "collect"}
    /\ Unfailing /\ Unmarked /\ Refused = {}

(* Without them, and with directions through nodes whose kind their own    *)
(* routes do not change.                                                   *)
Disciplined ==
    /\ Orderly /\ Ops \subseteq LockedOps /\ Newcomers = {}
    /\ \A d \in NewDirs \cup UNION {s.dirs : s \in Stored}, n \in KnownNodes :
          n.id = d.via => n.approved # {}

(* Nobody changes the tags or the note of the kind of a node: what turns a *)
(* server into a device is the loss of its approved routes.                *)
Steady ==
    /\ Orderly /\ Newcomers = {}
    /\ \A e \in Edits : e.field # "kind"

(* Nothing fails or is refused, and what is stored at the start is in      *)
(* order: every gateway wears its tag, every direction leads through a     *)
(* node that is there, is not noted down as a device and has the routes    *)
(* approved, and no note names a node that is gone.                        *)
StartsInOrder(s) ==
    LET ids == {n.id : n \in s.nodes} IN
    /\ \A n \in s.nodes : s.meta[n.id].gateway => gateway_tag(n.id) \in n.tags
    /\ \A d \in s.dirs :
          /\ s.meta[d.via].kind # "device" /\ d.via \in ids
          /\ \A n \in s.nodes : n.id = d.via => dst_ips(d) \subseteq n.approved
    /\ \A n \in Node \ ids : s.meta[n] = NoMeta
    /\ \A n \in Node : s.meta[n].via \subseteq ids

OneAtATime ==
    /\ Unfailing /\ Refused = {} /\ Newcomers = {}
    /\ \A s \in Stored : StartsInOrder(s)
=============================================================================
