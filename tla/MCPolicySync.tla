---------------------------- MODULE MCPolicySync ----------------------------
(***************************************************************************)
(* Values for the constants of PolicySync, shared by its runs: two servers *)
(* and a laptop, one role, a public address, and for each run the requests *)
(* it is about.                                                            *)
(***************************************************************************)
EXTENDS PolicySync

CONSTANTS s1, s2, d1, web, m1, m2, m3, w1, w2, none, exit, t1, t2,
    coll

MCNode == {s1, s2, d1}
MCRole == {web}
MCMesh == {m1, m2, m3}
MCWeb == {w1, w2}
MCPort == {"*", "22", "0", VIS_PORT}
MCRefused == {"0"}

routed(n, a, tags, R) == [id |-> n, ip |-> a, tags |-> tags, approved |-> R]
server(n, a, tags) == routed(n, a, tags, {exit})
laptop(n, a, tags) == routed(n, a, tags, {})

(* s1 and s2 have an approved route, the laptop has nothing.               *)
Fleet == {server(s1, m1, {RoleTag(web)}), server(s2, m2, {}),
          laptop(d1, m3, {})}
(* s2 is a server by its role alone.                                       *)
ByRole == {laptop(s2, m2, {RoleTag(web)}), laptop(d1, m3, {})}
(* s2 is an exit gateway.                                                  *)
WithGateway == {server(s2, m2, {RoleTag(web), gateway_tag(s2)}),
                laptop(d1, m3, {})}
(* A machine that joins, with a fresh address or, s2 gone, with its own.   *)
Joiners == {laptop(s1, m1, {}), laptop(s1, m2, {})}

to(src, dst, ports) == [src |-> src, dst |-> dst, ports |-> ports]
node(n) == <<"node", n>>

LaptopToAll == {to(node(d1), <<"servers">>, "22")}
LaptopToS2 == {to(node(d1), node(s2), "22")}
BadPort == {to(node(s1), node(s2), "0")}

dir(src, via, S) == [src_kind |-> "node", src |-> src, via |-> via,
                     ips |-> {S}, ports |-> "*"]
ThroughS2 == dir({d1}, s2, {w1})
Moved == dir({d1}, s2, {w2})
BadDir == [dir({d1}, s1, {w1}) EXCEPT !.ports = "0"]

edit(n, f, v) == [node |-> n, field |-> f, value |-> v]
retag(n, roles) == [node |-> n, roles |-> roles]
pick(n, R) == [node |-> n, routes |-> R]
let_out(g, D) == [node |-> g, devices |-> D]

TwoRequests == {t1, t2, coll}
OneRequest == {t1, coll}
Nobody == {}

(* Bounds: requests, and failures.                                         *)
One == {<<1, 0>>}
Two == {<<2, 0>>}
Three == {<<3, 0>>}
Four == {<<4, 0>>}
Healing == {<<1, 2>>, <<2, 0>>}

AllOps == OpName \ {"none"}

StartWith(nodes, R, D, m, a) ==
    [nodes |-> nodes, rules |-> R, dirs |-> D, meta |-> m, agents |-> a]
NoAgents == [n \in Node |-> NoAgent]
Start(nodes, R, D, m) == StartWith(nodes, R, D, m, NoAgents)
NoNotes == [n \in Node |-> NoMeta]
(* An agent that is asked for some routes, which the panel has approved.   *)
agent(R) == [here |-> TRUE, want |-> R, mine |-> R]

LaptopByAddress == {to(node(s1), <<"cidr", {m3}>>, "22")}
LockedBodies == {LaptopToAll, LaptopByAddress}
LockedDirs == {ThroughS2, Moved}
LockedEdits == {edit(s2, "kind", "device"), edit(d1, "admin", TRUE)}
LockedClients == {let_out(s1, {d1}), let_out(s1, {})}
(* s1 is an exit gateway, s2 has an agent.                                 *)
Gated == {server(s1, m1, {RoleTag(web), gateway_tag(s1)}), server(s2, m2, {}),
          laptop(d1, m3, {})}
GateNotes == [NoNotes EXCEPT ![s1].gateway = TRUE]
AtS2 == [NoAgents EXCEPT ![s2].here = TRUE]
LockedStored == {StartWith(Gated, LaptopToS2, {}, GateNotes, AtS2),
                 StartWith(Gated, {}, {ThroughS2}, GateNotes, AtS2)}
(* headscale refuses some rules and directions.                            *)
RefusalOps == {"put_rules", "create_direction", "delete_direction", "set_meta"}
RefusalBodies == {LaptopToAll, BadPort}
RefusalDirs == {ThroughS2, BadDir}
RefusalEdits == {edit(d1, "admin", TRUE)}

(* The collector beside the handlers; no kinds.  s2 is a server by the     *)
(* route of a direction, which the panel has approved itself.              *)
HealOps == {"put_rules", "delete_direction", "delete_node", "set_routes", "put_agent",
            "set_exit_clients", "collect"}
HealBodies == {LaptopToAll}
HealPicks == {pick(s2, {}), pick(s2, {exit})}
ByDirection == {server(s1, m1, {gateway_tag(s1)}), routed(s2, m2, {}, {{w1}}),
                laptop(d1, m3, {})}
HealStored == {StartWith(ByDirection, LaptopToS2, {ThroughS2}, GateNotes,
                         [AtS2 EXCEPT ![s2].mine = {{w1}}])}
HealClients == {let_out(s1, {d1})}

(* Everything there is, on a small stored state.                           *)
AllEdits == {edit(s2, "gateway", TRUE), edit(s2, "gateway", FALSE),
             edit(d1, "admin", TRUE), edit(s2, "kind", "server")}
AllRetags == {retag(s2, {}), retag(s2, {RoleTag(web)})}
AllPicks == {pick(s2, {}), pick(s2, {exit})}
AllClients == {let_out(s2, {d1})}
AllDirs == {ThroughS2, Moved}
Marked == [NoNotes EXCEPT ![s2].gateway = TRUE, ![d1].via = {s2}]
AllStored == {StartWith(ByRole, LaptopToS2, {ThroughS2}, NoNotes, AtS2),
              StartWith(WithGateway, {}, {}, Marked,
                        [AtS2 EXCEPT ![s2] = agent({exit})])}
OpenToAll == [acls |-> {[src |-> {Star}, dst |-> {Star}, ports |-> "*"]},
              grants |-> {}, owners |-> {}]
AllForeign == {OpenToAll}
ByAddress == {LaptopByAddress}

(* One request at a time, nothing failing.                                 *)
SingleDirs == {ThroughS2, Moved, dir({s2}, d1, {w1})}
SingleEdits == {edit(s2, "gateway", v) : v \in BOOLEAN}
          \cup {edit(n, "kind", k) : n \in {s2, d1}, k \in {"", "server", "device"}}
          \cup {edit(d1, "via", v) : v \in {{}, {s2}}}
SinglePicks == {pick(s2, {}), pick(s2, {exit})}
SingleClients == {let_out(s2, {d1})}
SingleStored == {Start(ByRole, {}, {}, NoNotes), Start(Fleet, {}, {}, NoNotes)}

-----------------------------------------------------------------------------
(* The run that ends in a counterexample: s2 lost its last role some time  *)
(* ago, and is given one.                                                  *)
TagOps == {"set_tags"}
MarkerStored == {Start({laptop(s2, m2, {MARKER_TAG}), laptop(d1, m3, {})},
                       {}, {}, NoNotes)}
GiveRole == {retag(s2, {RoleTag(web)})}
=============================================================================
