-------------------------------- MODULE Fleet --------------------------------
(***************************************************************************)
(* Machines join, reconnect, are renamed and deleted, while the collector  *)
(* hands the notes of reconnected machines back, watches all of them and   *)
(* tells the administrator (api/enroll.py, enroll.py, api/nodes.py,        *)
(* settings_store.py, collector.py; Watch is alerts.py).                   *)
(*                                                                         *)
(* A step is the code from one await to the next; what runs under the lock *)
(* of the settings is one step.  Messages are delivered.                   *)
(***************************************************************************)
EXTENDS Watch

CONSTANTS
    Machine, Name, Id, Key,     \* ids and keys are numbers, never used again
    Nobody,
    TTL, Grace, Retention,      \* of keys and links, in ticks
    Worlds                      \* how a behaviour starts and what it admits

(* The flags of a note.                                                    *)
Flag == {"admin", "muted", "device"}

Node == [machine : Machine, name : Name, online : BOOLEAN, expiring : BOOLEAN,
         key : Key \cup {0}]
NoNode == [machine |-> Nobody]

(* A key made at some time for a machine under a name.                     *)
KeyRec == [at : Nat, machine : Machine, name : Name, used : BOOLEAN,
           gone : BOOLEAN]
NoKey == [machine |-> Nobody]

(* A link: the first download as it is noted, and, for the properties, the *)
(* first and the last one there were.                                      *)
Time == Nat \cup {Nobody}
Link == [first_at : Time, began : Time, last : Time]
NoLink == [last |-> Nobody]

Stash == [note : SUBSET Flag, old : Id]
NoStash == [note |-> {}]

Request == [op : {"enroll"}, machine : Machine, name : Name]
      \cup [op : {"status"}, key : Key, name : Name]
      \cup [op : {"reconnect", "delete"}, id : Id]
      \cup [op : {"rename"}, id : Id, name : Name]
      \cup [op : {"note"}, id : Id, flag : Flag, on : BOOLEAN]

(* headscale gives a name once, and a machine has one record.              *)
Apart(N) ==
    \A i, j \in Id : i # j /\ N[i] # NoNode /\ N[j] # NoNode =>
        N[i].name # N[j].name /\ N[i].machine # N[j].machine

(* What a world admits: a cycle of the collector that overlaps the part of *)
(* a reconnection between the stash and the end of the old note ("across"),*)
(* another reconnection while a note is still put aside ("again").  The    *)
(* nodes it starts with came with keys of long ago (0).                    *)
World == [nodes : {N \in [Id -> {n \in Node : n.key = 0} \cup {NoNode}] : Apart(N)},
          notes : [Id -> SUBSET Flag],
          agents : [Id -> AgentState], refs : SUBSET Id,
          requests : SUBSET Request, left : Nat, admits : SUBSET {"across", "again"},
          flips : SUBSET {"node", "agent", "key", "headscale"}, changes : Nat,
          ticks : Nat, faults : Nat]

ASSUME FleetAssumption ==
    /\ Id \subseteq Nat \ {0} /\ Key \subseteq Nat \ {0}
    /\ Nobody \notin Nat \cup Machine \cup Name
    /\ TTL \in Nat /\ Grace \in Nat /\ Retention \in Nat /\ TTL < Retention
    /\ \A w \in Worlds : w \in World

VARIABLES
    nodes, keys, hsUp,              \* headscale
    meta, pending, agents, refs,    \* database: notes, put aside, agents, rules
    status, links, had,             \* database: as last seen; links; any nodes
    streak, silent, self,           \* memory of the alerts
    cycle,                          \* the collector
    task,                           \* the request of an administrator
    now,
    owner, wish, bound,             \* history: whose id, notes and rules meant
    calls, outage,                  \* history: alerts about one cause
    apart,                          \* history: offline observations in a row
    quiet,                          \* history: muted since the cycle began
    restarts, world

headscale == <<nodes, keys, hsUp>>
notes == <<meta, pending, agents, refs>>
watch == <<status, streak, silent, self>>
meant == <<owner, wish, bound>>
rung == <<calls, outage, apart, quiet>>
vars == <<headscale, notes, watch, links, had, cycle, task, now, meant, rung,
          restarts, world>>

Idle == [pc |-> "idle"]
NoCall == [down |-> 0, agent |-> 0, key |-> 0]

Present(N) == {i \in DOMAIN N : N[i] # NoNode}

Init ==
    /\ world \in Worlds
    /\ nodes = world.nodes /\ hsUp = TRUE
    /\ keys = [k \in Key |-> NoKey] /\ links = [k \in Key |-> NoLink]
    /\ meta = world.notes /\ agents = world.agents /\ refs = world.refs
    /\ pending = [x \in Name |-> NoStash]
    /\ status = [i \in Id |-> NoStatus] /\ had = (Present(nodes) # {})
    /\ streak = [i \in Id |-> 0] /\ silent = {}
    /\ self = [up |-> "unknown", fails |-> 0]
    /\ cycle = Idle /\ task = Idle /\ now = 0
    /\ owner = [i \in Id |-> nodes[i].machine]
    /\ wish = [m \in Machine |-> UNION {meta[i] : i \in {i \in Id : owner[i] = m}}]
    /\ bound = {owner[i] : i \in refs}
    /\ calls = [i \in Id |-> NoCall] /\ outage = [calls |-> 0, fails |-> 0]
    /\ apart = [i \in Id |-> 0] /\ quiet = {} /\ restarts = 0

(* --- keys and links ------------------------------------------------------- *)

until(k) == keys[k].at + TTL
over(k) == now >= until(k)

New(S, used) == {x \in S : ~ used[x] /\ \A y \in S : y < x => used[y]}
NewKey == New(Key, [k \in Key |-> keys[k] # NoKey])
NewId == New(Id, [i \in Id |-> owner[i] # Nobody])

(* Slip: every download starts the grace anew.                             *)
marked_each_time(link) == [link EXCEPT !.first_at = now]

(* The first download is noted and not the later ones.                     *)
marked(link) == [link EXCEPT !.first_at = IF @ = Nobody THEN now ELSE @]

(* take_join_script: while the key lasts, and for some time from the first *)
(* download.                                                               *)
Download(k) ==
    LET link == marked(links[k])
    IN  /\ links[k] # NoLink /\ ~ over(k)
        /\ links[k].first_at # Nobody => now - links[k].first_at <= Grace
        /\ links' = [links EXCEPT ![k] = [link EXCEPT
                         !.began = IF @ = Nobody THEN now ELSE @, !.last = now]]
        /\ UNCHANGED <<headscale, notes, watch, had, cycle, task, now, meant,
                       rung, restarts, world>>

Taken(x) == \E i \in Present(nodes) : nodes[i].name = x

(* The script runs on the machine it was made for: a machine that is in    *)
(* the network keeps its record, another gets a new one, under the name of *)
(* the script if that is free.                                             *)
RunScript(k) ==
    LET m == keys[k].machine
        x == keys[k].name
    IN  /\ links[k] # NoLink /\ ~ keys[k].used /\ ~ keys[k].gone /\ ~ over(k)
        /\ hsUp
        /\ keys' = [keys EXCEPT ![k].used = TRUE]
        /\ \/ \E i \in Present(nodes) :
                /\ nodes[i].machine = m
                /\ nodes' = [nodes EXCEPT ![i].key = k]
                /\ UNCHANGED owner
           \/ /\ \A i \in Present(nodes) : nodes[i].machine # m
              /\ \E i \in NewId, y \in Name :
                  /\ ~ Taken(y) /\ (y = x \/ Taken(x))
                  /\ nodes' = [nodes EXCEPT ![i] =
                        [machine |-> m, name |-> y, online |-> TRUE,
                         expiring |-> FALSE, key |-> k]]
                  /\ owner' = [owner EXCEPT ![i] = m]
        /\ UNCHANGED <<hsUp, notes, watch, links, had, cycle, task, now, wish,
                       bound, rung, restarts, world>>

(* --- requests of an administrator ---------------------------------------- *)

At(where) == task # Idle /\ task.pc = where
Then(where) == task' = [task EXCEPT !.pc = where]
End == task' = Idle

First == [enroll |-> "key", reconnect |-> "find", status |-> "look",
          rename |-> "names", delete |-> "remove", note |-> "note"]

StartTask ==
    /\ task = Idle /\ world.left > 0
    /\ \E q \in world.requests :
          task' = [pc |-> First[q.op], req |-> q, key |-> 0, id |-> 0,
                   node |-> NoNode, note |-> {}]
    /\ world' = [world EXCEPT !.left = @ - 1]
    /\ UNCHANGED <<headscale, notes, watch, links, had, cycle, now, meant, rung,
                   restarts>>

(* The collector hands notes back, under the lock.                         *)
Unlocked == cycle.pc \notin {"hand", "close"}

Local == <<watch, links, had, cycle, now, rung, restarts, world>>

(* reconnect_node: the record as it is.                                    *)
FindNode ==
    /\ At("find")
    /\ IF hsUp /\ nodes[task.req.id] # NoNode
       THEN task' = [task EXCEPT !.pc = "key", !.id = task.req.id,
                                 !.node = nodes[task.req.id]]
       ELSE End
    /\ UNCHANGED <<headscale, notes, meant, Local>>

MakeKey ==
    LET q == task.req
        m == IF q.op = "enroll" THEN q.machine ELSE task.node.machine
        x == IF q.op = "enroll" THEN q.name ELSE task.node.name
    IN  /\ At("key")
        /\ \/ ~ hsUp /\ End /\ UNCHANGED keys
           \/ /\ hsUp
              /\ \E k \in NewKey :
                  /\ keys' = [keys EXCEPT ![k] =
                        [at |-> now, machine |-> m, name |-> x, used |-> FALSE,
                         gone |-> FALSE]]
                  /\ task' = [task EXCEPT !.key = k,
                        !.pc = IF q.op = "enroll" THEN "link" ELSE "read"]
        /\ UNCHANGED <<nodes, hsUp, notes, meant, Local>>

Waiting(m) == \E x \in Name : pending[x] # NoStash /\ owner[pending[x].old] = m

ReadNote ==
    /\ At("read")
    /\ "again" \in world.admits \/ ~ Waiting(owner[task.id])
    /\ task' = [task EXCEPT !.pc = "stash", !.note = meta[task.id]]
    /\ UNCHANGED <<headscale, notes, meant, Local>>

(* Slip: nothing is put aside for a node without a note.                   *)
stash_node_meta_note_only ==
    [pending EXCEPT ![task.node.name] =
        IF task.note = {} THEN @ ELSE [note |-> task.note, old |-> task.id]]

(* The note is put aside under the name, with the id that rules refer to.  *)
stash_node_meta ==
    [pending EXCEPT ![task.node.name] = [note |-> task.note, old |-> task.id]]

PutAside ==
    /\ At("stash") /\ Unlocked
    /\ "across" \in world.admits \/ cycle.pc \notin {"claim", "meta"}
    /\ pending' = stash_node_meta
    /\ Then("delete")
    /\ UNCHANGED <<headscale, meta, agents, refs, meant, Local>>

DeleteOld ==
    /\ At("delete")
    /\ \/ hsUp /\ nodes' = [nodes EXCEPT ![task.id] = NoNode] /\ Then("clear")
       \/ ~ hsUp /\ End /\ UNCHANGED nodes
    /\ UNCHANGED <<keys, hsUp, notes, meant, Local>>

clear_node_meta ==
    /\ At("clear") /\ Unlocked
    /\ meta' = [meta EXCEPT ![task.id] = {}]
    /\ Then("link")
    /\ UNCHANGED <<headscale, pending, agents, refs, meant, Local>>

(* The links whose keys are over go.                                       *)
save_join_script ==
    /\ At("link")
    /\ links' = [k \in Key |->
          IF k = task.key THEN [first_at |-> Nobody, began |-> Nobody,
                                last |-> Nobody]
          ELSE IF links[k] # NoLink /\ over(k) THEN NoLink ELSE links[k]]
    /\ End
    /\ UNCHANGED <<headscale, notes, meant, watch, had, cycle, now, rung,
                   restarts, world>>

(* enroll_status: the node that came with this very key; it is given the   *)
(* name that was asked for, if nobody else has it.                         *)
LookForKey ==
    LET came == {i \in Present(nodes) : nodes[i].key = task.req.key}
    IN  /\ At("look")
        /\ IF ~ hsUp \/ came = {} \/ Taken(task.req.name) THEN End
           ELSE \E i \in came : task' = [task EXCEPT !.pc = "rename", !.id = i]
        /\ UNCHANGED <<headscale, notes, meant, Local>>

(* rename_node: the name must not be another node's.                       *)
LookForName ==
    /\ At("names")
    /\ IF hsUp /\ \A i \in Present(nodes) \ {task.req.id} :
                     nodes[i].name # task.req.name
       THEN task' = [task EXCEPT !.pc = "rename", !.id = task.req.id]
       ELSE End
    /\ UNCHANGED <<headscale, notes, meant, Local>>

(* headscale itself refuses a name that is taken and a node that is gone.  *)
Rename ==
    /\ At("rename")
    /\ nodes' = IF hsUp /\ nodes[task.id] # NoNode /\ ~ Taken(task.req.name)
                THEN [nodes EXCEPT ![task.id].name = task.req.name] ELSE nodes
    /\ End
    /\ UNCHANGED <<keys, hsUp, notes, meant, Local>>

(* delete_node: a node that is gone already is no error, and the machine   *)
(* that had its id may be back under another.                              *)
RemoveNode ==
    /\ At("remove")
    /\ IF hsUp
       THEN /\ nodes' = [nodes EXCEPT ![task.req.id] = NoNode]
            /\ wish' = [m \in Machine |->
                  IF nodes[task.req.id].machine = m THEN {} ELSE wish[m]]
            /\ bound' = bound \ {nodes[task.req.id].machine}
            /\ Then("refs")
       ELSE End /\ UNCHANGED <<nodes, wish, bound>>
    /\ UNCHANGED <<keys, hsUp, notes, owner, Local>>

forget_node_refs ==
    LET i == task.req.id
    IN  /\ At("refs") /\ Unlocked
        /\ meta' = [meta EXCEPT ![i] = {}]
        /\ agents' = [agents EXCEPT ![i] = "none"] /\ refs' = refs \ {i}
        /\ End
        /\ UNCHANGED <<headscale, pending, meant, Local>>

(* The flags that wait for a machine.  They come back with its note, also  *)
(* those that are taken off by hand meanwhile (settings_store.py:236).     *)
aside(m) == UNION {pending[x].note : x \in {x \in Name :
                /\ pending[x] # NoStash /\ owner[pending[x].old] = m}}

set_node_meta ==
    LET i == task.req.id
        f == task.req.flag
        set(S) == IF task.req.on THEN S \cup {f} ELSE S \ {f}
    IN  /\ At("note") /\ Unlocked
        /\ IF ~ hsUp \/ nodes[i] = NoNode
           THEN UNCHANGED <<meta, wish, quiet>>
           ELSE /\ meta' = [meta EXCEPT ![i] = set(@)]
                /\ wish' = [wish EXCEPT ![owner[i]] = set(@) \cup aside(owner[i])]
                /\ quiet' = {q \in quiet : q # <<owner[i], f>>}
        /\ End
        /\ UNCHANGED <<headscale, pending, agents, refs, owner, bound, watch,
                       links, had, cycle, now, calls, outage, apart, restarts,
                       world>>

(* --- the cycle of the collector ------------------------------------------ *)

(* Slip: who is muted is read before the notes are handed back.            *)
next_step_meta_first ==
    [list |-> "meta", meta |-> "claim", claim |-> "hand", hand |-> "close",
     close |-> "nodes", nodes |-> "tell", tell |-> "agents", agents |-> "keys",
     keys |-> "flags", flags |-> "prune", prune |-> "self"]

next_step ==
    [list |-> "claim", claim |-> "hand", hand |-> "close", close |-> "meta",
     meta |-> "nodes", nodes |-> "tell", tell |-> "agents", agents |-> "keys",
     keys |-> "flags", flags |-> "prune", prune |-> "self"]

In(where) == cycle # Idle /\ cycle.pc = where
Onward == cycle' = [cycle EXCEPT !.pc = next_step[@]]
Outside == <<headscale, links, task, now, meant, restarts, world>>

(* No nodes where there were some is taken for a failure of headscale.     *)
ListNodes ==
    LET ok == hsUp /\ (Present(nodes) = {} => ~ had)
    IN  /\ cycle = Idle
        /\ "across" \in world.admits \/ task.pc \notin {"delete", "clear"}
        /\ cycle' = [began |-> now, pc |-> IF ok THEN next_step["list"] ELSE "self",
                     ok |-> hsUp, raw |-> nodes, muted |-> {}, devices |-> {},
                     tell |-> {}, flags |-> {}]
        /\ had' = IF ok THEN Present(nodes) # {} ELSE had
        /\ quiet' = {q \in Machine \X {"muted", "device"} : q[2] \in wish[q[1]]}
        /\ UNCHANGED <<notes, watch, calls, outage, apart, Outside>>

Listed == Present(cycle.raw)

(* The note under the name of a node, if one waits.                        *)
Owed == {i \in Listed : pending[cycle.raw[i].name] # NoStash}
owed(i) == pending[cycle.raw[i].name]

(* _repoint_node_id *)
repointed == {i \in Owed : owed(i).old # i}

(* claim_pending_meta holds the lock of the settings, and writes the rules *)
(* and the agents, the notes and what is put aside one after another.      *)
Repoint ==
    /\ In("claim")
    /\ refs' = {r \in refs : \A i \in repointed : owed(i).old # r}
               \cup {i \in repointed : owed(i).old \in refs}
    /\ agents' = [i \in Id |->
          IF i \in repointed /\ agents[i] = "none" THEN agents[owed(i).old]
          ELSE IF \E j \in repointed : owed(j).old = i /\ agents[j] = "none"
          THEN "none" ELSE agents[i]]
    /\ cycle' = [cycle EXCEPT !.pc = next_step[IF Owed = {} THEN "close" ELSE @]]
    /\ UNCHANGED <<meta, pending, watch, had, rung, Outside>>

(* What was set by hand meanwhile is stronger.                             *)
HandBack ==
    /\ In("hand")
    /\ meta' = [i \in Id |-> IF i \in Owed THEN owed(i).note \cup meta[i]
                             ELSE meta[i]]
    /\ Onward
    /\ UNCHANGED <<pending, agents, refs, watch, had, rung, Outside>>

Close ==
    /\ In("close")
    /\ pending' = [x \in Name |-> IF \E i \in Owed : cycle.raw[i].name = x
                                  THEN NoStash ELSE pending[x]]
    /\ Onward
    /\ UNCHANGED <<meta, agents, refs, watch, had, rung, Outside>>

ReadMeta ==
    /\ In("meta")
    /\ cycle' = [cycle EXCEPT !.pc = next_step[@],
                    !.muted = {i \in Id : "muted" \in meta[i]},
                    !.devices = {i \in Id : "device" \in meta[i]}]
    /\ UNCHANGED <<notes, watch, had, rung, Outside>>

seen(i) == observed(status[i], cycle.raw[i].online, streak[i])

(* Committed before anybody is told; removed nodes are dropped.            *)
reconcile_nodes ==
    LET off == {i \in Listed : ~ cycle.raw[i].online}
    IN  /\ In("nodes")
        /\ status' = [i \in Id |-> IF i \in Listed THEN seen(i).status
                                   ELSE NoStatus]
        /\ streak' = [i \in Id |-> IF i \in Listed THEN seen(i).streak ELSE
                                   IF status[i] # NoStatus THEN 0 ELSE streak[i]]
        /\ cycle' = [cycle EXCEPT !.pc = next_step[@],
                        !.tell = {i \in Listed : seen(i).told = "down"}]
        /\ apart' = [i \in Id |-> IF i \in Listed \ off THEN 0
                                  ELSE IF i \in off /\ apart[i] < Misses
                                  THEN apart[i] + 1 ELSE apart[i]]
        /\ calls' = [i \in Id |-> IF i \in Listed \ off
                                  THEN [calls[i] EXCEPT !.down = 0] ELSE calls[i]]
        /\ UNCHANGED <<notes, silent, self, had, outage, quiet, Outside>>

(* Servers only, and not the muted ones.                                   *)
TellNodes ==
    LET told == cycle.tell \ (cycle.muted \cup cycle.devices)
    IN  /\ In("tell")
        /\ calls' = [i \in Id |-> IF i \in told THEN [calls[i] EXCEPT !.down = @ + 1]
                                  ELSE calls[i]]
        /\ Onward
        /\ UNCHANGED <<notes, watch, had, outage, apart, quiet, Outside>>

(* Told and remembered in one go; a restart forgets both.                  *)
reconcile_agents ==
    LET still(i) == agent_silent(agents[i], i \in cycle.muted, i \in Listed,
                        i \in Listed /\ cycle.raw[i].online, i \in silent)
        ends(i) == \/ agents[i] = "never" \/ i \in cycle.muted \/ i \notin Listed
                   \/ agents[i] = "fresh" /\ cycle.raw[i].online
    IN  /\ In("agents")
        /\ silent' = {i \in Id : still(i)}
        /\ calls' = [i \in Id |->
              [calls[i] EXCEPT !.agent = IF still(i) /\ i \notin silent THEN @ + 1
                                         ELSE IF ends(i) THEN 0 ELSE @]]
        /\ Onward
        /\ UNCHANGED <<notes, status, streak, self, had, outage, apart, quiet,
                       Outside>>

(* Told first, noted afterwards.                                           *)
check_key_expiry ==
    LET flagged(i) == key_alerted(status[i], cycle.raw[i].expiring,
                                  i \in cycle.muted)
    IN  /\ In("keys")
        /\ cycle' = [cycle EXCEPT !.pc = next_step[@],
                        !.flags = {i \in Listed : flagged(i)}]
        /\ calls' = [i \in Id |-> [calls[i] EXCEPT !.key =
              IF i \in Listed /\ flagged(i) /\ ~ status[i].key_alerted
              THEN @ + 1 ELSE @]]
        /\ UNCHANGED <<notes, watch, had, outage, apart, quiet, Outside>>

KeepFlags ==
    /\ In("flags")
    /\ status' = [i \in Id |-> IF status[i] = NoStatus THEN NoStatus ELSE
                     [status[i] EXCEPT !.key_alerted = i \in cycle.flags]]
    /\ calls' = [i \in Id |->
          IF i \in Listed \ cycle.muted /\ ~ cycle.raw[i].expiring
          THEN [calls[i] EXCEPT !.key = 0] ELSE calls[i]]
    /\ Onward
    /\ UNCHANGED <<notes, streak, silent, self, had, outage, apart, quiet,
                   Outside>>

in_use == {cycle.raw[i].key : i \in Listed}

(* Slip: a key that was used is as good as gone.                           *)
keys_to_prune_at_once ==
    {k \in Key \ in_use : keys[k] # NoKey /\ (over(k) \/ keys[k].used)}

(* Keys that are old, and over or used; never the key of a live node.      *)
keys_to_prune ==
    {k \in Key \ in_use : /\ keys[k] # NoKey
                          /\ now >= keys[k].at + Retention
                          /\ over(k) \/ keys[k].used}

(* Once in a while, and not when headscale fails.                          *)
PruneKeys ==
    /\ In("prune")
    /\ \/ UNCHANGED keys
       \/ hsUp /\ keys' = [k \in Key |-> IF k \in keys_to_prune
                                         THEN [keys[k] EXCEPT !.gone = TRUE]
                                         ELSE keys[k]]
    /\ Onward
    /\ UNCHANGED <<nodes, hsUp, notes, watch, links, had, task, now, meant,
                   rung, restarts, world>>

reconcile_selfcheck ==
    /\ In("self")
    /\ self' = checked(self, cycle.ok)
    /\ outage' = IF cycle.ok THEN [calls |-> 0, fails |-> 0] ELSE
          [calls |-> IF self.up # "down" /\ self'.up = "down"
                     THEN outage.calls + 1 ELSE outage.calls,
           fails |-> IF outage.fails < Misses THEN outage.fails + 1 ELSE Misses]
    /\ cycle' = Idle
    /\ UNCHANGED <<notes, status, streak, silent, had, calls, apart, quiet,
                   Outside>>

(* --- what happens outside the panel -------------------------------------- *)

Flip(kind) == kind \in world.flips /\ world.changes > 0
Spent == world' = [world EXCEPT !.changes = @ - 1]
Panel == <<notes, watch, links, had, cycle, task, now, meant, rung, restarts>>

NodeFlips(i) ==
    /\ Flip("node") /\ nodes[i] # NoNode /\ Spent
    /\ nodes' = [nodes EXCEPT ![i].online = ~ @]
    /\ UNCHANGED <<keys, hsUp, Panel>>

KeyFlips(i) ==
    /\ Flip("key") /\ nodes[i] # NoNode /\ Spent
    /\ nodes' = [nodes EXCEPT ![i].expiring = ~ @]
    /\ UNCHANGED <<keys, hsUp, Panel>>

HeadscaleFlips ==
    /\ Flip("headscale") /\ Spent
    /\ hsUp' = ~ hsUp
    /\ UNCHANGED <<nodes, keys, Panel>>

(* The polls of an agent stop, or come again.                              *)
AgentFlips(i) ==
    /\ Flip("agent") /\ agents[i] # "none" /\ Spent
    /\ agents' = [agents EXCEPT ![i] = IF @ = "fresh" THEN "stale" ELSE "fresh"]
    /\ UNCHANGED <<headscale, meta, pending, refs, watch, links, had, cycle,
                   task, now, meant, rung, restarts>>

(* A cycle is short against the days after which a key is pruned.          *)
Tick ==
    /\ world.ticks > 0
    /\ cycle # Idle => now < cycle.began + Retention - TTL
    /\ now' = now + 1
    /\ world' = [world EXCEPT !.ticks = @ - 1]
    /\ UNCHANGED <<headscale, notes, watch, links, had, cycle, task, meant,
                   rung, restarts>>

Restart ==
    /\ world.faults > 0
    /\ cycle' = Idle /\ task' = Idle
    /\ streak' = [i \in Id |-> 0] /\ silent' = {}
    /\ self' = [up |-> "unknown", fails |-> 0]
    /\ restarts' = restarts + 1
    /\ world' = [world EXCEPT !.faults = @ - 1]
    /\ UNCHANGED <<headscale, notes, status, links, had, now, meant, rung>>

Collect ==
    \/ ListNodes \/ Repoint \/ HandBack \/ Close \/ ReadMeta
    \/ reconcile_nodes
    \/ TellNodes \/ reconcile_agents \/ check_key_expiry \/ KeepFlags
    \/ PruneKeys \/ reconcile_selfcheck

Work ==
    \/ FindNode \/ MakeKey \/ ReadNote \/ PutAside \/ DeleteOld
    \/ clear_node_meta \/ save_join_script
    \/ LookForKey \/ LookForName \/ Rename
    \/ RemoveNode \/ forget_node_refs \/ set_node_meta

Next ==
    \/ StartTask \/ Work \/ Collect
    \/ \E k \in Key : Download(k) \/ RunScript(k)
    \/ \E i \in Id : NodeFlips(i) \/ KeyFlips(i) \/ AgentFlips(i)
    \/ HeadscaleFlips \/ Tick \/ Restart

Spec == Init /\ [][Next]_vars

(* The collector comes round again, and a request that was begun is served.*)
FairSpec == Spec /\ WF_vars(Collect) /\ WF_vars(Work)

(* --- properties ----------------------------------------------------------- *)

(* Names and machines of the nodes are their own, and a node that has been *)
(* seen offline less often than it takes is counted (alerts.py:329-335).   *)
TypeOK ==
    /\ nodes \in [Id -> Node \cup {NoNode}] /\ Apart(nodes)
    /\ \A k \in Key : keys[k] # NoKey => keys[k] \in KeyRec
    /\ meta \in [Id -> SUBSET Flag] /\ refs \subseteq Id /\ silent \subseteq Id
    /\ agents \in [Id -> AgentState] /\ self \in Self
    /\ \A i \in Id : status[i] = NoStatus \/ status[i] \in Status
    /\ streak \in [Id -> 0..Misses - 1]
    /\ \A x \in Name : pending[x] \in Stash \cup {NoStash}

(* Nobody is called about a node that only blinked, or about headscale: so *)
(* many observations in a row had found it down (alerts.py:329-335, 193).  *)
AlertsConfirmed ==
    /\ \A i \in Id : calls[i].down > 0 => apart[i] = Misses
    /\ outage.calls > 0 => outage.fails = Misses

(* One outage of a node, silence of an agent, key running out or outage of *)
(* headscale is told once, also when the panel restarts in the middle of a *)
(* cycle or nodes go offline meanwhile; a restart may repeat what is kept  *)
(* in memory, or was told and not yet noted.                               *)
OneAlertPerCause ==
    /\ \A i \in Id : /\ calls[i].down <= 1
                     /\ calls[i].agent <= 1 + restarts
                     /\ calls[i].key <= 1 + restarts
    /\ outage.calls <= 1 + restarts

(* A machine that was muted before the cycle began is not told about, nor  *)
(* is a device that goes offline - also in the first cycle after it came   *)
(* back from a reconnection under a new id (collector.py:82-94).           *)
MutedIsSilent ==
    [][\A i \in Id :
          /\ calls'[i].down > calls[i].down =>
                <<owner[i], "muted">> \notin quiet /\ <<owner[i], "device">> \notin quiet
          /\ (\/ calls'[i].agent > calls[i].agent
              \/ calls'[i].key > calls[i].key) => <<owner[i], "muted">> \notin quiet]_calls

Noted(m) == {f \in Flag : \/ \E i \in Id : owner[i] = m /\ f \in meta[i]
                          \/ \E x \in Name : /\ pending[x] # NoStash
                                            /\ owner[pending[x].old] = m
                                            /\ f \in pending[x].note}

(* A reconnection loses nothing, wherever it fails or the panel restarts:  *)
(* the flags of a machine and the rules about it are there, and once it is *)
(* back and a cycle has passed they are at its new id; no machine has the  *)
(* flags of another (nodes.py:484-492, settings_store.py:191-238).         *)
NothingLost ==
    /\ \A m \in Machine :
          /\ wish[m] \subseteq Noted(m)
          /\ m \in bound => \E i \in refs : owner[i] = m
    /\ \A i \in Present(nodes) :
          /\ meta[i] \subseteq wish[owner[i]]
          /\ (task = Idle /\ ~ Waiting(owner[i])) =>
                /\ meta[i] = wish[owner[i]]
                /\ owner[i] \in bound => i \in refs

(* A link serves for its grace from the first download and not beyond its  *)
(* key, however often it is used (settings_store.py:670-696).              *)
LinkGrace ==
    \A k \in Key : links[k].last # Nobody =>
        /\ links[k].last - links[k].began <= Grace
        /\ links[k].last < until(k)

(* The key of a node that is there is never pruned, also not that of one   *)
(* that registered after the list was taken (collector.py:234-236).        *)
LiveKeysKept ==
    \A i \in Present(nodes) : nodes[i].key # 0 => ~ keys[nodes[i].key].gone

(* What the theorems about notes suppose: ids that were never given have   *)
(* no note, nothing overlaps what a reconnection leaves open, and where    *)
(* nodes reconnect no other request gives or takes names.                  *)
Careful(w) ==
    /\ w.admits = {}
    /\ \A i \in Id : w.nodes[i] = NoNode => w.notes[i] = {}
    /\ (\E q \in w.requests : q.op = "reconnect") =>
          \A q \in w.requests : q.op \in {"reconnect", "note"}

(* In the end somebody has been told of an outage of headscale, of silent  *)
(* agents and of keys that run out, whatever restart came in between; the  *)
(* status of the nodes is right, and every note that waits for a name that *)
(* is there has been handed back.                                          *)
ToldInTheEnd ==
    <>[](IF ~ hsUp THEN outage.calls > 0
         ELSE \A i \in Present(nodes) :
              /\ status[i] # NoStatus /\ status[i].online = nodes[i].online
              /\ ~ Waiting(owner[i])
              /\ "muted" \notin meta[i] =>
                    /\ nodes[i].expiring => calls[i].key > 0
                    /\ agents[i] = "stale" /\ nodes[i].online =>
                          calls[i].agent > 0)
=============================================================================
