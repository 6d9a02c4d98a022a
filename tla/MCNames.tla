------------------------------ MODULE MCNames ------------------------------
(***************************************************************************)
(* Values for the constants of Names: two nodes, two names in two zones,   *)
(* one of them public, two requests of agents and two of administrators at *)
(* a time.                                                                 *)
(***************************************************************************)
EXTENDS Names, TLC

CONSTANTS n1, n2, x1, x2, a1, a2, a3, z1, z2

TwoNodes == {n1, n2}
TwoNames == {x1, x2}
Addresses == {a1, a2, a3}
TwoZones == {z1, z2}
ZoneOfName == x1 :> z1 @@ x2 :> z2
OnePublic == {x2}
TwoSlots == 1..2
TwoTasks == 1..2

To(n, cert) == [node |-> n, addr |-> Nobody, enabled |-> TRUE, cert |-> cert]
At_(a) == [node |-> Nobody, addr |-> a, enabled |-> TRUE, cert |-> FALSE]
Off(r) == [r EXCEPT !.enabled = FALSE]
List(r1, r2) == x1 :> r1 @@ x2 :> r2
None == List(NoRecord, NoRecord)

edit(R) == [op |-> "records", records |-> R]
dns == [op |-> "dns"]
ca(auto, reissue) == [op |-> "ca", auto |-> auto, reissue |-> reissue]
delete(n) == [op |-> "delete", node |-> n]

Base == [addr |-> n1 :> a1 @@ n2 :> a2, agents |-> {n1}, records |-> None,
         zones |-> {}, root |-> 0, requests |-> {}, left |-> 0, one_edit |-> TRUE,
         moves |-> 0, faults |-> 0, lost |-> 0, aging |-> 0]

(* The first certificate, a restart, a renewal; a name that is refused.    *)
Issuing == [Base EXCEPT !.records = List(To(n1, TRUE), To(n1, TRUE)),
                        !.zones = TwoZones, !.faults = 1, !.aging = 1]
(* A new root while certificates are issued; requests given up.            *)
Rotation == [Base EXCEPT !.records = List(To(n1, TRUE), NoRecord),
                         !.zones = {z1}, !.root = 1, !.lost = 1, !.left = 1,
                         !.requests = {ca(TRUE, TRUE), ca(FALSE, FALSE)}]
Renewal == [Rotation EXCEPT !.left = 0, !.aging = 1]
(* A name moves to another node, is dropped, comes again.                  *)
Moving == [Base EXCEPT !.agents = TwoNodes,
                       !.records = List(To(n1, TRUE), NoRecord),
                       !.zones = {z1}, !.root = 1, !.left = 1,
                       !.requests = {edit(List(To(n2, TRUE), NoRecord)),
                                     edit(None)}]
(* Edits of the list, writes that fail, nodes that move or go.             *)
Editing == [Base EXCEPT !.agents = {}, !.left = 3,
                !.faults = 1, !.moves = 1,
                !.requests = {edit(List(To(n2, FALSE), At_(a3))),
                              edit(List(Off(To(n2, FALSE)), NoRecord)),
                              dns, delete(n2)}]
AtOnce == [Editing EXCEPT !.one_edit = FALSE, !.left = 2]

AllWorlds == {Issuing, Rotation, Renewal, Moving, Editing, AtOnce}
=============================================================================
