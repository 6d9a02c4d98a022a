-------------------------------- MODULE Names --------------------------------
(***************************************************************************)
(* Names inside the network and their certificates: the list of the panel, *)
(* the file and the config of headscale made from it, the root of the      *)
(* panel, the certificates it signs, and the agents that ask for them      *)
(* (dnsrecords.py, certs.py, ca.py, api/settings.py, api/agent.py and the  *)
(* block of agent.py that runs on a node).                                 *)
(*                                                                         *)
(* A step is the code from one await to the next.  A certificate is the    *)
(* root that signed it, the node whose key it is of, and a number.         *)
(***************************************************************************)
EXTENDS Naturals, FiniteSets

CONSTANTS
    Node, Name, Addr, Zone,
    ZoneOf,         \* the zone that is routed to the mesh for a name
    PublicName,     \* names the root must not sign
    Nobody,         \* no node, no address, no name, no certificate
    Slot,           \* requests for a certificate served at the same time
    Task,           \* requests of administrators at the same time
    Worlds          \* how a behaviour starts and what it admits

Record == [node : Node \cup {Nobody}, addr : Addr \cup {Nobody},
           enabled : BOOLEAN, cert : BOOLEAN]
NoRecord == [enabled |-> FALSE]
Lists == [Name -> Record \cup {NoRecord}]

Cert == [root : Nat \ {0}, key : Node, no : Nat]
NoCert == [root |-> 0]
Row == [status : {"issuing", "ok", "error"}, cert : Cert \cup {NoCert},
        due : BOOLEAN, paused : BOOLEAN]
NoRow == [status |-> "none"]

Request == [op : {"records"}, records : Lists]
      \cup [op : {"dns"}]
      \cup [op : {"ca"}, auto : BOOLEAN, reissue : BOOLEAN]
      \cup [op : {"delete"}, node : Node]

(* one_edit: requests of administrators do not overlap.                    *)
World == [addr : [Node -> Addr], agents : SUBSET Node,
          records : Lists, zones : SUBSET Zone, root : Nat,
          requests : SUBSET Request, left : Nat, one_edit : BOOLEAN,
          moves : Nat, faults : Nat, lost : Nat, aging : Nat]

ASSUME NamesAssumption ==
    /\ ZoneOf \in [Name -> Zone] /\ PublicName \subseteq Name
    /\ Nobody \notin Node \cup Addr \cup Name
    /\ \A w \in Worlds : w \in World

VARIABLES
    addr,           \* headscale: addresses of the nodes, Nobody if deleted
    file,           \* headscale: names it serves; whether the file is there
    config,         \* headscale: config.yaml, the path and the zones
    records,        \* database: the list of names
    agents,         \* database: nodes whose agent the panel knows
    root,           \* database: CA_KEY, CA_CERT, CA_AUTO
    rows,           \* database: certificates
    serving,        \* requests of agents for a certificate
    task,           \* requests of administrators
    collector,
    agent,          \* nodes: the run of the agent
    disk,           \* nodes: trusted root, keys and certificates
    made,           \* roots and certificates made so far
    world

panel == <<records, agents, root, rows, made>>
headscale == <<addr, file, config>>
nodes == <<agent, disk>>
vars == <<panel, headscale, nodes, serving, task, collector, world>>

Free == [pc |-> "free"]
Idle == [pc |-> "idle"]

Init ==
    /\ world \in Worlds
    /\ addr = world.addr /\ records = world.records
    /\ agents = world.agents
    /\ file = [there |-> FALSE, names |-> {}]
    /\ config = [path |-> FALSE, zones |-> world.zones]
    /\ root = [key |-> world.root, cert |-> world.root, auto |-> TRUE]
    /\ rows = [x \in Name |-> NoRow]
    /\ serving = [s \in Slot |-> Free]
    /\ task = [t \in Task |-> Idle]
    /\ collector = Idle
    /\ agent = [n \in Node |-> Idle]
    /\ disk = [n \in Node |-> [trust |-> 0, keys |-> {},
                               crt |-> [x \in Name |-> NoCert]]]
    /\ made = world.root

(* --- the list, the file and the zones ------------------------------------ *)

Listed(R) == {x \in Name : R[x] # NoRecord}
WithCert(R) == {x \in Listed(R) : R[x].cert}

(* A name leads to the address its node has now; without a node there is   *)
(* no entry, and none for a name that is switched off.                     *)
entries_for(R, now) ==
    {e \in Name \X Addr :
        LET r == R[e[1]]
        IN  /\ e[1] \in Listed(R) /\ r.enabled
            /\ e[2] = IF r.node = Nobody THEN r.addr ELSE now[r.node]}

routes_for_split(R) == {ZoneOf[x] : x \in {x \in Listed(R) : R[x].enabled}}

(* --- certificates -------------------------------------------------------- *)

(* Slip: a request once begun counts as under way.                         *)
needs_renewal_once_begun(row) ==
    \/ row = NoRow
    \/ row.status = "error" /\ ~ row.paused
    \/ row.status = "ok" /\ row.due

(* None yet, soon over, or failed and the pause is over.                   *)
needs_renewal(row) ==
    \/ row = NoRow
    \/ row.status = "issuing"
    \/ row.status = "error" /\ ~ row.paused
    \/ row.status = "ok" /\ row.due

wanted_for_node(n) == {x \in WithCert(records) : records[x].node = n}

(* _node_may_ask: a known agent, and a name that is its node's.            *)
may_ask(n, x) == n \in agents /\ x \in wanted_for_node(n)

held(row) == IF row = NoRow THEN NoCert ELSE row.cert

Inside == {"cert", "key", "make_key", "make_cert", "sign", "store"}

(* Slip: no lock on a name.                                                *)
Locked_never(x) == FALSE

(* certs._lock: one request for a name at a time.                          *)
Locked(x) == \E s \in Slot : serving[s].pc \in Inside /\ serving[s].name = x

(* --- an agent ------------------------------------------------------------ *)

(* GET /agent: the fingerprint of the root, then one line per name.        *)
Poll(n) ==
    /\ agent[n].pc = "idle" /\ n \in agents
    /\ agent' = [agent EXCEPT ![n] =
          [pc |-> "poll", ca |-> IF root.auto THEN root.cert ELSE 0]]
    /\ UNCHANGED <<panel, headscale, disk, serving, task, collector, world>>

PollNames(n) ==
    /\ agent[n].pc = "poll"
    /\ agent' = [agent EXCEPT ![n] =
          [pc |-> "ca", ca |-> agent[n].ca,
           lines |-> {[name |-> x, fp |-> held(rows[x]),
                       need |-> needs_renewal(rows[x])] :
                           x \in wanted_for_node(n)}]]
    /\ UNCHANGED <<panel, headscale, disk, serving, task, collector, world>>

(* The root is fetched when it is not the one that is trusted, and trusted *)
(* when it is the one that was named.                                      *)
InstallRoot(n) ==
    /\ agent[n].pc = "ca"
    /\ disk' = [disk EXCEPT ![n].trust =
                   IF agent[n].ca = 0 \/ (n \in agents /\ agent[n].ca = root.cert)
                   THEN agent[n].ca ELSE @]
    /\ agent' = [agent EXCEPT ![n].pc = "names"]
    /\ UNCHANGED <<panel, headscale, serving, task, collector, world>>

Drop(n, line) == [agent EXCEPT ![n].lines = @ \ {line}]

(* A certificate is wanted, or something of it is missing on the disk.     *)
Lacks(n, line) ==
    \/ line.need \/ line.name \notin disk[n].keys
    \/ disk[n].crt[line.name] = NoCert

SendCsr(n) ==
    /\ agent[n].pc = "names"
    /\ \E s \in Slot : serving[s] = Free
    /\ \E line \in agent[n].lines :
        LET s == CHOOSE s \in Slot : serving[s] = Free IN
        /\ Lacks(n, line)
        /\ disk' = [disk EXCEPT ![n].keys = @ \cup {line.name}]
        /\ serving' = [serving EXCEPT ![s] =
              [pc |-> "ask", node |-> n, name |-> line.name, waited |-> TRUE,
               cert |-> 0, key |-> 0]]
        /\ agent' = [Drop(n, line) EXCEPT ![n].pc = "wait"]
    /\ UNCHANGED <<panel, headscale, task, collector, world>>

(* The panel has another certificate than the disk: it is fetched.         *)
FetchCert(n) ==
    /\ agent[n].pc = "names"
    /\ \E line \in agent[n].lines :
        /\ ~ Lacks(n, line) /\ agent' = Drop(n, line)
        /\ disk' = IF /\ line.fp \notin {NoCert, disk[n].crt[line.name]}
                      /\ may_ask(n, line.name)
                      /\ held(rows[line.name]) # NoCert
                   THEN [disk EXCEPT ![n].crt[line.name] =
                            held(rows[line.name])]
                   ELSE disk
    /\ UNCHANGED <<panel, headscale, serving, task, collector, world>>

Done(n) ==
    /\ agent[n].pc = "names" /\ agent[n].lines = {}
    /\ agent' = [agent EXCEPT ![n] = Idle]
    /\ UNCHANGED <<panel, headscale, disk, serving, task, collector, world>>

(* The agent gives up after its two minutes; the panel goes on.            *)
GiveUp(n) ==
    /\ agent[n].pc = "wait" /\ world.lost > 0
    /\ agent' = [agent EXCEPT ![n].pc = "names"]
    /\ serving' = [s \in Slot |->
          IF serving[s] # Free /\ serving[s].node = n
          THEN [serving[s] EXCEPT !.waited = FALSE] ELSE serving[s]]
    /\ world' = [world EXCEPT !.lost = @ - 1]
    /\ UNCHANGED <<panel, headscale, disk, task, collector>>

(* --- a request for a certificate ----------------------------------------- *)

At(s, where) == serving[s].pc = where
Goto(s, where) == serving' = [serving EXCEPT ![s].pc = where]

(* The answer, with a certificate or without, to whoever still waits.      *)
Answer(s, c) ==
    /\ serving' = [serving EXCEPT ![s] = Free]
    /\ IF serving[s].waited
       THEN LET n == serving[s].node
            IN  /\ agent' = [agent EXCEPT ![n].pc = "names"]
                /\ disk' = IF c = NoCert THEN disk
                           ELSE [disk EXCEPT ![n].crt[serving[s].name] = c]
       ELSE UNCHANGED nodes

Ask(s) ==
    /\ At(s, "ask")
    /\ IF may_ask(serving[s].node, serving[s].name)
       THEN Goto(s, "lock") /\ UNCHANGED nodes
       ELSE Answer(s, NoCert)
    /\ UNCHANGED <<panel, headscale, task, collector, world>>

(* Slip: a renewal leaves the row as it is.                                *)
begun_when_new(row) ==
    IF row = NoRow THEN [status |-> "issuing", cert |-> NoCert, due |-> FALSE,
                         paused |-> FALSE]
    ELSE row

(* certs.issue: the row is marked before anything is signed.               *)
begun(row) ==
    IF row = NoRow THEN [status |-> "issuing", cert |-> NoCert, due |-> FALSE,
                         paused |-> FALSE]
    ELSE [row EXCEPT !.status = "issuing"]

(* A certificate in force is handed out again, whoever asks.               *)
Begin(s) ==
    LET x == serving[s].name
    IN  /\ At(s, "lock") /\ ~ Locked(x)
        /\ IF rows[x] # NoRow /\ rows[x].status = "ok" /\ ~ rows[x].due
           THEN Answer(s, rows[x].cert) /\ UNCHANGED rows
           ELSE /\ rows' = [rows EXCEPT ![x] = begun(@)]
                /\ Goto(s, "cert") /\ UNCHANGED nodes
        /\ UNCHANGED <<records, agents, root, made, headscale, task, collector,
                       world>>

(* ensure_root: made at the first need, the key before the certificate.    *)
ReadCert(s) ==
    /\ At(s, "cert")
    /\ serving' = [serving EXCEPT ![s].pc = "key", ![s].cert = root.cert]
    /\ UNCHANGED <<panel, headscale, nodes, task, collector, world>>

ReadKey(s) ==
    /\ At(s, "key")
    /\ Goto(s, IF serving[s].cert # 0 /\ root.key # 0 THEN "sign"
               ELSE "make_key")
    /\ UNCHANGED <<panel, headscale, nodes, task, collector, world>>

MakeKey(s) ==
    /\ At(s, "make_key")
    /\ made' = made + 1 /\ root' = [root EXCEPT !.key = made']
    /\ serving' = [serving EXCEPT ![s].pc = "make_cert", ![s].cert = made']
    /\ UNCHANGED <<records, agents, rows, headscale, nodes, task, collector,
                   world>>

MakeCert(s) ==
    /\ At(s, "make_cert")
    /\ root' = [root EXCEPT !.cert = serving[s].cert]
    /\ Goto(s, "sign")
    /\ UNCHANGED <<records, agents, rows, made, headscale, nodes, task,
                   collector, world>>

(* The key is read anew.  The root signs no public name.                   *)
Sign(s) ==
    /\ At(s, "sign")
    /\ serving' = [serving EXCEPT ![s].pc = "store",
          ![s].key = IF serving[s].name \in PublicName THEN 0 ELSE root.key]
    /\ UNCHANGED <<panel, headscale, nodes, task, collector, world>>

(* A row that was forgotten meanwhile cannot be updated: the request fails *)
(* and nothing of it is kept.                                              *)
Store(s) ==
    LET x == serving[s].name
        new == [root |-> serving[s].key, key |-> serving[s].node,
                no |-> made + 1]
    IN  /\ At(s, "store")
        /\ \/ /\ rows[x] = NoRow
              /\ Answer(s, NoCert) /\ UNCHANGED <<rows, made>>
           \/ /\ rows[x] # NoRow /\ serving[s].key = 0
              /\ rows' = [rows EXCEPT ![x].status = "error", ![x].paused = TRUE]
              /\ Answer(s, NoCert) /\ UNCHANGED made
           \/ /\ rows[x] # NoRow /\ serving[s].key # 0
              /\ rows' = [rows EXCEPT ![x] = [status |-> "ok", cert |-> new,
                                              due |-> FALSE, paused |-> FALSE]]
              /\ Answer(s, new) /\ made' = made + 1
        /\ UNCHANGED <<records, agents, root, headscale, task, collector,
                       world>>

(* --- requests of administrators ------------------------------------------ *)

Doing(t, where) == task[t].pc = where
Then(t, where) == task' = [task EXCEPT ![t].pc = where]
End(t) == task' = [task EXCEPT ![t] = Idle]

First == [records |-> "read", dns |-> "zones", ca |-> "auto",
          delete |-> "leave"]

StartTask(t) ==
    /\ Doing(t, "idle") /\ world.left > 0
    /\ world.one_edit => \A u \in Task : Doing(u, "idle")
    /\ \E q \in world.requests :
          task' = [task EXCEPT ![t] = [pc |-> First[q.op], req |-> q,
                                       seen |-> addr, names |-> {}]]
    /\ world' = [world EXCEPT !.left = @ - 1]
    /\ UNCHANGED <<panel, headscale, nodes, serving, collector>>

(* update_dns_records: the list of nodes; a name must lead to one of them. *)
ReadNodes(t) ==
    LET R == task[t].req.records
    IN  /\ Doing(t, "read")
        /\ IF \A x \in Listed(R) :
                 R[x].node # Nobody => addr[R[x].node] # Nobody
           THEN task' = [task EXCEPT ![t].pc = "write", ![t].seen = addr]
           ELSE End(t)
        /\ UNCHANGED <<panel, headscale, nodes, serving, collector, world>>

(* Slip: the path in the config comes first.                               *)
edits_path_first == <<"path", "file", "zones">>

(* headscale does not start with a path to a file that is not there.       *)
edits == <<"file", "path", "zones">>

(* Slip: the routes are those of the new list.                             *)
zones_with_only(have, want) == want

(* Routes of zones are only added.                                         *)
zones_with(have, want) == have \cup want

(* File, path and zones are written in one go; each write may fail, and    *)
(* the request with it.                                                    *)
WriteNames(t) ==
    LET R == task[t].req.records
    IN  /\ Doing(t, "write")
        /\ \E k \in 0..3 :
            LET written == {edits[i] : i \in 1..k}
            IN  /\ k < 3 => world.faults > 0
                /\ file' = IF "file" \in written
                           THEN [there |-> TRUE,
                                 names |-> entries_for(R, task[t].seen)]
                           ELSE file
                /\ config' = [path |-> config.path \/ "path" \in written,
                              zones |-> IF "zones" \in written
                                        THEN zones_with(config.zones,
                                                        routes_for_split(R))
                                        ELSE config.zones]
                /\ IF k = 3 THEN Then(t, "set") ELSE End(t)
                /\ world' = [world EXCEPT !.faults = IF k = 3 THEN @ ELSE @ - 1]
        /\ UNCHANGED <<panel, addr, nodes, serving, collector>>

SetRecords(t) ==
    /\ Doing(t, "set")
    /\ records' = task[t].req.records
    /\ Then(t, "unused")
    /\ UNCHANGED <<agents, root, rows, made, headscale, nodes, serving,
                   collector, world>>

(* Slip: only certificates that were issued are forgotten.                 *)
all_certs_issued == {x \in Name : rows[x].status = "ok"}

all_certs == {x \in Name : rows[x] # NoRow}

(* certs.forget: the rows of other names are read, then they are deleted.  *)
without(gone) == [x \in Name |-> IF x \in gone THEN NoRow ELSE rows[x]]

UnusedRows(t) ==
    /\ Doing(t, "unused")
    /\ task' = [task EXCEPT ![t].pc = "forget",
                    ![t].names = all_certs \ WithCert(task[t].req.records)]
    /\ UNCHANGED <<panel, headscale, nodes, serving, collector, world>>

ForgetRows(t) ==
    /\ Doing(t, "forget")
    /\ rows' = without(task[t].names)
    /\ End(t)
    /\ UNCHANGED <<records, agents, root, made, headscale, nodes, serving,
                   collector, world>>

(* update_dns: the routes of the zones are written anew.                   *)
WriteDns(t) ==
    /\ Doing(t, "zones")
    /\ config' = [config EXCEPT !.zones = routes_for_split(records)]
    /\ End(t)
    /\ UNCHANGED <<panel, addr, file, nodes, serving, collector, world>>

(* update_ca: the switch, then, when asked for, a new root.                *)
SetAuto(t) ==
    /\ Doing(t, "auto")
    /\ root' = [root EXCEPT !.auto = task[t].req.auto]
    /\ IF task[t].req.reissue THEN Then(t, "key") ELSE End(t)
    /\ UNCHANGED <<records, agents, rows, made, headscale, nodes, serving,
                   collector, world>>

RotateKey(t) ==
    /\ Doing(t, "key")
    /\ made' = made + 1 /\ root' = [root EXCEPT !.key = made']
    /\ task' = [task EXCEPT ![t].pc = "cert", ![t].seen = made']
    /\ UNCHANGED <<records, agents, rows, headscale, nodes, serving,
                   collector, world>>

RotateCert(t) ==
    /\ Doing(t, "cert")
    /\ root' = [root EXCEPT !.cert = task[t].seen]
    /\ Then(t, "select")
    /\ UNCHANGED <<records, agents, rows, made, headscale, nodes, serving,
                   collector, world>>

SelectRows(t) ==
    /\ Doing(t, "select")
    /\ task' = [task EXCEPT ![t].pc = "drop", ![t].names = all_certs]
    /\ UNCHANGED <<panel, headscale, nodes, serving, collector, world>>

DropRows(t) ==
    /\ Doing(t, "drop")
    /\ rows' = without(task[t].names)
    /\ End(t)
    /\ UNCHANGED <<records, agents, root, made, headscale, nodes, serving,
                   collector, world>>

(* delete_node: headscale first, then what the panel keeps of the node.    *)
LeaveHeadscale(t) ==
    /\ Doing(t, "leave")
    /\ addr' = [addr EXCEPT ![task[t].req.node] = Nobody]
    /\ Then(t, "refs")
    /\ UNCHANGED <<panel, file, config, nodes, serving, collector, world>>

forget_node_refs(t) ==
    LET n == task[t].req.node
    IN  /\ Doing(t, "refs")
        /\ agents' = agents \ {n}
        /\ records' = [x \in Name |->
              IF x \in Listed(records) /\ records[x].node = n
              THEN NoRecord ELSE records[x]]
        /\ End(t)
        /\ UNCHANGED <<root, rows, made, headscale, nodes, serving, collector,
                       world>>

(* --- the cycle of the collector ------------------------------------------ *)

(* An empty list of nodes is taken for a failure of headscale.             *)
CollectNodes ==
    /\ collector.pc = "idle" /\ \E n \in Node : addr[n] # Nobody
    /\ collector' = [pc |-> "sync", seen |-> addr]
    /\ UNCHANGED <<panel, headscale, nodes, serving, task, world>>

(* Slip: no names, nothing to write.                                       *)
unused_without_names == Listed(records) = {}

(* The names were never used: no file is put beside the config.            *)
unused == Listed(records) = {} /\ ~ file.there

sync ==
    /\ collector.pc = "sync"
    /\ file' = IF unused THEN file
               ELSE [there |-> TRUE,
                     names |-> entries_for(records, collector.seen)]
    /\ collector' = [pc |-> "names"]
    /\ UNCHANGED <<panel, addr, config, nodes, serving, task, world>>

CollectNames ==
    /\ collector.pc = "names"
    /\ collector' = [pc |-> "unused", names |-> WithCert(records)]
    /\ UNCHANGED <<panel, headscale, nodes, serving, task, world>>

CollectUnused ==
    /\ collector.pc = "unused"
    /\ collector' = [pc |-> "forget", names |-> all_certs \ collector.names]
    /\ UNCHANGED <<panel, headscale, nodes, serving, task, world>>

CollectForget ==
    /\ collector.pc = "forget"
    /\ rows' = without(collector.names)
    /\ collector' = Idle
    /\ UNCHANGED <<records, agents, root, made, headscale, nodes, serving,
                   task, world>>

(* --- what happens outside the panel -------------------------------------- *)

(* A node gets another address, maybe that of a deleted one.               *)
Readdress(n) ==
    /\ world.moves > 0 /\ addr[n] # Nobody
    /\ \E a \in Addr \ {addr[m] : m \in Node} : addr' = [addr EXCEPT ![n] = a]
    /\ world' = [world EXCEPT !.moves = @ - 1]
    /\ UNCHANGED <<panel, file, config, nodes, serving, task, collector>>

(* Time passes: a certificate is soon over; the pause after a refusal is.  *)
Age(x) ==
    /\ world.aging > 0 /\ rows[x].status = "ok" /\ ~ rows[x].due
    /\ rows' = [rows EXCEPT ![x].due = TRUE]
    /\ world' = [world EXCEPT !.aging = @ - 1]
    /\ UNCHANGED <<records, agents, root, made, headscale, nodes, serving,
                   task, collector>>

Unpause(x) ==
    /\ rows[x].status = "error" /\ rows[x].paused
    /\ rows' = [rows EXCEPT ![x].paused = FALSE]
    /\ UNCHANGED <<records, agents, root, made, headscale, nodes, serving,
                   task, collector, world>>

(* The panel restarts: what was under way is over, whoever waited gets an  *)
(* error.                                                                  *)
Restart ==
    /\ world.faults > 0
    /\ serving' = [s \in Slot |-> Free]
    /\ task' = [t \in Task |-> Idle] /\ collector' = Idle
    /\ agent' = [n \in Node |-> IF agent[n].pc = "wait"
                               THEN [agent[n] EXCEPT !.pc = "names"]
                               ELSE agent[n]]
    /\ world' = [world EXCEPT !.faults = @ - 1]
    /\ UNCHANGED <<panel, headscale, disk>>

AgentRun(n) ==
    \/ Poll(n) \/ PollNames(n) \/ InstallRoot(n)
    \/ SendCsr(n) \/ FetchCert(n) \/ Done(n)

Serve(s) ==
    \/ Ask(s) \/ Begin(s) \/ ReadCert(s) \/ ReadKey(s)
    \/ MakeKey(s) \/ MakeCert(s) \/ Sign(s) \/ Store(s)

Work(t) ==
    \/ ReadNodes(t) \/ WriteNames(t) \/ SetRecords(t)
    \/ UnusedRows(t) \/ ForgetRows(t) \/ WriteDns(t)
    \/ SetAuto(t) \/ RotateKey(t) \/ RotateCert(t) \/ SelectRows(t)
    \/ DropRows(t)
    \/ LeaveHeadscale(t) \/ forget_node_refs(t)

Collect ==
    \/ CollectNodes \/ sync \/ CollectNames \/ CollectUnused \/ CollectForget

Next ==
    \/ \E n \in Node : AgentRun(n) \/ GiveUp(n) \/ Readdress(n)
    \/ \E s \in Slot : Serve(s)
    \/ \E t \in Task : StartTask(t) \/ Work(t)
    \/ Collect
    \/ \E x \in Name : Age(x) \/ Unpause(x)
    \/ Restart

Spec == Init /\ [][Next]_vars

(* The timers of the agents and the collector come round again, requests   *)
(* that were begun are served to their end, a pause ends.  Nothing makes   *)
(* an administrator ask, a node move, a certificate age or a panel restart.*)
FairSpec ==
    /\ Spec
    /\ \A n \in Node : WF_vars(AgentRun(n))
    /\ \A s \in Slot : WF_vars(Serve(s))
    /\ \A t \in Task : WF_vars(Work(t))
    /\ \A x \in Name : WF_vars(Unpause(x))
    /\ WF_vars(Collect)

(* --- properties ----------------------------------------------------------- *)

(* Types; a certificate that is in force is there, a request beyond the    *)
(* check of its name has a row under way or forgotten.                     *)
TypeOK ==
    /\ addr \in [Node -> Addr \cup {Nobody}] /\ agents \subseteq Node
    /\ file.there \in BOOLEAN /\ file.names \subseteq Name \X Addr
    /\ config.path \in BOOLEAN /\ config.zones \subseteq Zone
    /\ DOMAIN records = Name /\ \A x \in Listed(records) : records[x] \in Record
    /\ {root.key, root.cert} \subseteq 0..made /\ root.auto \in BOOLEAN
    /\ \A x \in Name :
          /\ rows[x] = NoRow \/ rows[x] \in Row
          /\ rows[x].status = "ok" => rows[x].cert # NoCert
    /\ \A s \in Slot : serving[s].pc \in Inside =>
          rows[serving[s].name].status \in {"issuing", "none"}
    /\ \A n \in Node : disk[n].trust \in 0..made /\ disk[n].keys \subseteq Name

Rotating == \E t \in Task : task[t].pc \in {"cert", "select", "drop"}

(* Between rotations of the root every certificate that counts as issued   *)
(* is signed by the root the nodes are told to trust, also when its        *)
(* request read the root before a rotation and ended after it (update_ca   *)
(* forgets all rows, certs.issue cannot update a row that is gone).        *)
SignedByRootInForce ==
    ~ Rotating =>
        \A x \in Name : rows[x].status = "ok" =>
            rows[x].cert.root = root.cert /\ root.cert = root.key

(* headscale is never left with the path of a file that is not there,      *)
(* whatever write fails and whoever else edits (update_dns_records).       *)
PathAfterFile == config.path => file.there

(* The zone of every name that is switched on is routed to the mesh, in    *)
(* the middle of an edit, after one that failed and after a restart too    *)
(* (update_dns_records adds zones before the list is saved, and only adds).*)
ZonesCoverNames ==
    world.one_edit => routes_for_split(records) \subseteq config.zones

(* A certificate in force is not replaced by another one, however requests *)
(* of agents for its name overlap or repeat: it ages or is forgotten.      *)
OneCertificate ==
    [][\A x \in Name : rows[x].status = "ok" /\ ~ rows[x].due =>
          rows'[x] \in {rows[x], [rows[x] EXCEPT !.due = TRUE], NoRow}]_rows

(* Every node comes to have, for each of its names that may be signed, the *)
(* certificate in force, and trusts exactly the root in force, whatever    *)
(* request was lost, refused, overtaken by a rotation or cut by a restart. *)
NodeSettled(n) ==
    /\ disk[n].trust = IF root.auto THEN root.cert ELSE 0
    /\ \A x \in wanted_for_node(n) \ PublicName :
          /\ rows[x].status = "ok" /\ ~ rows[x].due
          /\ disk[n].crt[x] = rows[x].cert

NamesServed == <>[](\A n \in agents : NodeSettled(n))

(* headscale comes to serve the names of the list at the addresses their   *)
(* nodes have, after edits, failed edits, moves, deletions and restarts.   *)
FileFollows == <>[](file.names = entries_for(records, addr))

(* A certificate on a node is of the node's own key (certs.py:5,           *)
(* api/agent.py:443).                                                      *)
CertFitsKey ==
    \A n \in Node, x \in Name :
        disk[n].crt[x] # NoCert => disk[n].crt[x].key = n
=============================================================================
