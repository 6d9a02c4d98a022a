------------------------------ MODULE MCAgents ------------------------------
(***************************************************************************)
(* Values for the constants of Agents: two nodes, a router with an agent   *)
(* of the release before and an exit node without one; two subnets.        *)
(***************************************************************************)
EXTENDS Agents

CONSTANTS n1, n2, r1, r2, exit, none, t1, t2, coll

MCNode == {n1, n2}
MCRoute == {r1, r2}
MCRelease == 2
TwoTasks == {t1, t2}

(* n1 has an agent with token 1, announces r1, and has reported it.        *)
R1 == [routes |-> {r1}, exit |-> FALSE, via |-> none]
Routed == [NoBlob EXCEPT ![n1].here = TRUE, ![n1].token = 1,
                         ![n1].routes = {r1}, ![n1].mine = {r1},
                         ![n1].reported = TRUE, ![n1].told = R1,
                         ![n1].script = 1, ![n1].release = 1]
NoDirections == [n \in Node |-> {}]

req(op, n, things) ==
    [op |-> op, node |-> n, things |-> things, exit |-> FALSE, via |-> none]
with_exit(r) == [r EXCEPT !.exit = TRUE]

Base == [agents |-> Routed, derived |-> NoDirections,
         tok |-> [n \in Node |-> IF n = n1 THEN 1 ELSE 0],
         own |-> [n \in Node |-> IF n = n1 THEN 1 ELSE 0],
         file |-> [n \in Node |-> IF n = n1 THEN R1 ELSE NoBody],
         requests |-> [t \in Task |-> {}], alone |-> FALSE, left |-> 0, faults |-> 0,
         kinds |-> {}]

Any == {req("put", n1, {r2}), with_exit(req("put", n1, {})),
        req("order", n1, {}), req("order_all", n1, {}), req("reissue", n1, {}),
        req("install", n1, {}), with_exit(req("exit", n1, {})),
        [req("via", n1, {}) EXCEPT !.via = n2], req("get", n2, {}),
        req("direction", n1, {r2}), req("resolve", n1, {r2}),
        req("untick", n1, {}), req("forget", n1, {})}

(* Any request beside the cycles of the collector and the agent; two at    *)
(* once; two in a row; one with a failure; four that overlap nothing.      *)
One == {[Base EXCEPT !.requests[t1] = Any, !.left = 1]}
TwoAtOnce ==
    {[Base EXCEPT !.requests[t1] = {r[1]}, !.requests[t2] = {r[2]}, !.left = 2] :
        r \in {<<req("order", n1, {}), req("untick", n1, {})>>,
               <<req("put", n1, {r2}), req("forget", n1, {})>>}}
TwoInARow == {[Base EXCEPT !.requests[t1] = S, !.left = 2] :
    S \in {{req("direction", n1, {r2}), req("direction", n1, {})},
           {req("reissue", n1, {}), req("install", n1, {})},
           {[req("via", n1, {}) EXCEPT !.via = n2], req("forget", n2, {})}}}
OneAndAFailure ==
    {[Base EXCEPT !.requests[t1] = {r}, !.left = 1, !.faults = 1,
        !.kinds = {"report", "update", "approve", "set", "hand", "restart"}] :
        r \in {req("untick", n1, {}), req("order", n1, {})}}
InTurn == {[Base EXCEPT !.requests[t1] =
                {req("put", n1, {r2}), with_exit(req("exit", n1, {})),
                 req("untick", n1, {r1, r2}), req("direction", n1, {r2}),
                 req("direction", n1, {}), req("order", n1, {})},
             !.left = 3, !.faults = 1, !.kinds = {"update"}, !.alone = TRUE]}
AllWorlds == One \cup TwoAtOnce \cup TwoInARow \cup OneAndAFailure \cup InTurn
=============================================================================
