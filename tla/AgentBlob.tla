------------------------------ MODULE AgentBlob ------------------------------
(***************************************************************************)
(* The blob node_agent and what each call does to it (settings_store.py,   *)
(* api/agent.py, api/nodes.py, api/routing.py, collector.py).              *)
(*                                                                         *)
(* An entry of the blob is the wanted state of one node and what its agent *)
(* has reported.  Every call reads the whole blob, changes an entry or     *)
(* two and writes the whole blob; this module says what it makes of the    *)
(* blob it has read, Agents says when it reads and when it writes.         *)
(***************************************************************************)
EXTENDS Naturals

CONSTANTS
    Node,      \* ids of nodes
    Route,     \* subnets a node may announce
    Exit,      \* the pair 0.0.0.0/0, ::/0
    NoNode,
    NoBody,    \* no state reported, no state saved
    Release    \* the release of the agent the panel serves

Thing == Route \cup {Exit}

(* What an agent applies and hashes; via is the gateway of a forced exit.  *)
Body == [routes : SUBSET Route, exit : BOOLEAN, via : Node \cup {NoNode}]

ASSUME BlobAssumption ==
    /\ Exit \notin Route /\ NoNode \notin Node /\ NoBody \notin Body
    /\ Release \in Nat \ {0}

announced_by(body) ==
    body.routes \cup (IF body.exit THEN {Exit} ELSE {})

(* token 0 is none; mine is panel_approved, order the update asked for,    *)
(* reported, told, script and release what `applied' last wrote.  The text *)
(* of a script stands for its release, so script 0 is the empty one.       *)
Entry == [here : BOOLEAN, token : Nat, routes : SUBSET Route, exit : BOOLEAN,
          via : Node \cup {NoNode}, mine : SUBSET Thing, order : 0..Release,
          reported : BOOLEAN, told : Body \cup {NoBody},
          script : 0..Release, release : 0..Release]

Blank == [here |-> FALSE, token |-> 0, routes |-> {}, exit |-> FALSE,
          via |-> NoNode, mine |-> {}, order |-> 0, reported |-> FALSE,
          told |-> NoBody, script |-> 0, release |-> 0]

Blob == [Node -> Entry]

(* A call: whose entry, the token it carries or has minted, the routes or  *)
(* approvals of one node or of several, the exit mark, the gateway, the    *)
(* state and the release reported.                                         *)
Call == [op : {"get", "put", "reissue", "order", "order_all", "exit", "via",
               "record", "mine", "touch", "applied", "untick", "forget"},
         node : Node, token : Nat, things : SUBSET Thing,
         marks : [Node -> SUBSET Route], exit : BOOLEAN,
         via : Node \cup {NoNode}, body : Body \cup {NoBody},
         release : 0..Release]

serialized == {"touch", "applied", "untick", "forget"}

routes_of(c) == c.things \ {Exit}

(* _outdated: nodes whose agent has reported, with another script.         *)
outdated(b) ==
    {n \in Node : b[n].token # 0 /\ b[n].script \notin {0, Release}}

(* The token is minted once, by whichever call finds none.                 *)
with_token(e, c) ==
    [e EXCEPT !.here = TRUE, !.token = IF @ = 0 THEN c.token ELSE @]

put_agent(e, c) ==
    [with_token(e, c) EXCEPT !.routes = routes_of(c), !.exit = c.exit]

(* last_poll, last_applied and script go; applied_hash and release stay.   *)
reissue_agent_token(e, c) ==
    [e EXCEPT !.here = TRUE, !.token = c.token, !.reported = FALSE,
              !.script = 0]

(* set_routes: what the list of the request no longer holds.               *)
dropped(e, c) == e.routes \ c.things
untick(e, c) ==
    [e EXCEPT !.routes = @ \ dropped(e, c), !.mine = @ \ dropped(e, c)]

(* Slip: any report takes the order off.                                   *)
mark_agent_applied_any_report(e, c) ==
    [e EXCEPT !.reported = TRUE, !.told = c.body, !.script = c.release,
              !.release = c.release, !.order = 0]

(* The order goes when the node reports the release that was ordered.      *)
mark_agent_applied(e, c) ==
    [e EXCEPT !.reported = TRUE, !.told = c.body, !.script = c.release,
              !.release = c.release,
              !.order = IF c.release > 0 /\ c.release >= @ THEN 0 ELSE @]

same_report(e, c) ==
    /\ e.reported
    /\ e.told = c.body /\ e.script = c.release /\ e.release = c.release

(* Reports find their entry by the token they carry.                       *)
owner(b, token) == {n \in Node : token # 0 /\ b[n].token = token}

(* The nodes whose entries a call changes in the blob it has read; none    *)
(* when it returns early.                                                  *)
touched(b, c) ==
    CASE c.op = "get" -> {n \in {c.node} : b[n].token = 0}
      [] c.op = "order" -> {n \in {c.node} : b[n].token # 0}
      [] c.op = "order_all" -> outdated(b)
      [] c.op = "exit" -> {n \in {c.node} : b[n].exit # c.exit}
      [] c.op = "via" -> {n \in {c.node} : b[n].via # c.via}
      [] c.op = "record" -> {n \in Node : b[n].here
                                          /\ ~ c.marks[n] \subseteq b[n].mine}
      [] c.op = "mine" -> {n \in {c.node} : b[n].here}
      [] c.op = "touch" -> owner(b, c.token)
      [] c.op = "applied" -> {n \in owner(b, c.token) : ~ same_report(b[n], c)}
      [] c.op = "untick" -> {n \in {c.node} : dropped(b[n], c) # {}}
      [] c.op = "forget" -> {c.node} \cup {n \in Node : b[n].via = c.node}
      [] OTHER -> {c.node}

changed(n, e, c) ==
    CASE c.op = "get" -> with_token(e, c)
      [] c.op = "put" -> put_agent(e, c)
      [] c.op = "reissue" -> reissue_agent_token(e, c)
      [] c.op \in {"order", "order_all"} -> [e EXCEPT !.order = Release]
      [] c.op = "exit" -> [e EXCEPT !.here = TRUE, !.exit = c.exit]
      [] c.op = "via" -> [e EXCEPT !.here = TRUE, !.via = c.via]
      [] c.op = "record" -> [e EXCEPT !.mine = @ \cup c.marks[n]]
      [] c.op = "mine" -> [e EXCEPT !.mine = c.things]
      [] c.op = "applied" -> mark_agent_applied(e, c)
      [] c.op = "untick" -> untick(e, c)
      [] c.op = "forget" -> IF n = c.node THEN Blank
                            ELSE [e EXCEPT !.via = NoNode]   \* drop_gateway
      [] OTHER -> e

Effect(b, c) ==
    [n \in Node |-> IF n \in touched(b, c) THEN changed(n, b[n], c) ELSE b[n]]
=============================================================================
