------------------------------ MODULE MCFleet ------------------------------
(***************************************************************************)
(* Values for the constants of Fleet: up to two machines, two names, three *)
(* ids and two keys; one kind of trouble in each world.                    *)
(***************************************************************************)
EXTENDS Fleet, TLC

CONSTANTS m1, m2, x1, x2

TwoMachines == {m1, m2}
TwoNames == {x1, x2}
ThreeIds == 1..3
TwoKeys == 1..2

At_(m, x, online) == [machine |-> m, name |-> x, online |-> online,
                      expiring |-> FALSE, key |-> 0]
Here(n1, n2) == [i \in Id |-> IF i = 1 THEN n1 ELSE IF i = 2 THEN n2 ELSE NoNode]
Of(f1, f2) == [i \in Id |-> IF i = 1 THEN f1 ELSE IF i = 2 THEN f2 ELSE {}]
AgentsOf(a1, a2) == [i \in Id |-> IF i = 1 THEN a1 ELSE IF i = 2 THEN a2 ELSE "none"]

mute(i, on) == [op |-> "note", id |-> i, flag |-> "muted", on |-> on]
reconnect(i) == [op |-> "reconnect", id |-> i]
delete(i) == [op |-> "delete", id |-> i]
enroll(m, x) == [op |-> "enroll", machine |-> m, name |-> x]
check(k, x) == [op |-> "status", key |-> k, name |-> x]
rename(i, x) == [op |-> "rename", id |-> i, name |-> x]

Base == [nodes |-> Here(At_(m1, x1, TRUE), NoNode), notes |-> Of({}, {}),
         agents |-> AgentsOf("none", "none"), refs |-> {}, requests |-> {},
         left |-> 0, admits |-> {}, flips |-> {}, changes |-> 0, ticks |-> 0,
         faults |-> 0]

(* A server and what blinks, fails, falls silent or runs out on it, while  *)
(* it is muted and the panel restarts.                                     *)
Nodes == [Base EXCEPT !.flips = {"node", "headscale"}, !.changes = 4, !.faults = 1]
Silent == [Base EXCEPT !.agents = AgentsOf("never", "none"), !.faults = 1,
                       !.flips = {"agent", "node"}, !.changes = 4]
Expiring == [Base EXCEPT !.flips = {"key"}, !.changes = 4, !.faults = 1]
Muting == [Base EXCEPT !.agents = AgentsOf("fresh", "none"), !.left = 2,
                       !.flips = {"node", "agent", "headscale"}, !.changes = 3,
                       !.requests = {mute(1, TRUE), mute(1, FALSE)}]
(* A device that goes offline beside a server that does.                   *)
Device == [Base EXCEPT !.nodes = Here(At_(m1, x1, TRUE), At_(m2, x2, TRUE)),
                       !.notes = Of({"device"}, {}), !.flips = {"node"},
                       !.changes = 3]
(* A node reconnects: with a note, with rules only, with a silent agent;   *)
(* its note is changed while the old one is put aside.                     *)
Back == [Base EXCEPT !.notes = Of({"admin", "muted"}, {}), !.refs = {1},
                     !.agents = AgentsOf("stale", "none"), !.left = 2,
                     !.requests = {reconnect(1), reconnect(2), mute(1, FALSE),
                                   mute(2, FALSE)},
                     !.flips = {"headscale"}, !.changes = 2, !.faults = 1]
Bare == [Back EXCEPT !.notes = Of({}, {}), !.agents = AgentsOf("fresh", "none"),
                     !.requests = {reconnect(1), mute(2, TRUE)}]
(* Machines join, are given their names and go.                            *)
Joining == [Base EXCEPT !.left = 3,
                        !.requests = {enroll(m2, x1), enroll(m1, x2),
                                      check(1, x2), rename(1, x2)}]
Leaving == [Base EXCEPT !.nodes = Here(At_(m1, x1, TRUE), At_(m2, x2, FALSE)),
                        !.notes = Of({"admin"}, {"muted"}), !.refs = {1, 2},
                        !.agents = AgentsOf("stale", "fresh"), !.left = 2,
                        !.requests = {delete(1), enroll(m1, x1)},
                        !.flips = {"headscale"}, !.changes = 1, !.faults = 1]
(* A link is used again and again, and the keys are pruned in the end.     *)
Links == [Base EXCEPT !.left = 1, !.requests = {enroll(m2, x2)}, !.ticks = 6]

AllWorlds == {Nodes, Silent, Expiring, Muting, Device, Back, Bare, Joining,
              Leaving, Links}

ASSUME CarefulAssumption == \A w \in Worlds : Careful(w)
=============================================================================
