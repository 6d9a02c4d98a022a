------------------------------ MODULE MCAclGen ------------------------------
(***************************************************************************)
(* The policy generator on every input of a small universe: two nodes with *)
(* an address and one that may lack it, one role, two gateways, literals   *)
(* inside and outside the mesh.                                            *)
(***************************************************************************)
EXTENDS AclCases

CONSTANTS n1, n2, n3, r1, m1, m2, m3, w1, w2, none, exit

MCNode == {n1, n2, n3}
MCRole == {r1}
MCMesh == {m1, m2, m3}
MCWeb == {w1, w2}
MCBad == {{w1, w2}}
MCPort == {"*", "22", VIS_PORT}

TagSets == {{}, {RoleTag(r1)}, {gateway_tag(n1)},
            {gateway_tag(n2), RoleTag(r1)}}

MCFleets == {{[id |-> n1, ip |-> m1, tags |-> t1, approved |-> q],
              [id |-> n2, ip |-> m2, tags |-> {}, approved |-> {}],
              [id |-> n3, ip |-> i, tags |-> {RoleTag(r1)}, approved |-> {}]} :
             t1 \in TagSets, q \in {{}, {exit}}, i \in {m3, none}}

MCNotes == {[n \in Node |->
             CASE n = n1 -> [kind |-> k1, admin |-> FALSE,
                             gateway |-> g, via |-> {}]
               [] n = n2 -> [kind |-> k2, admin |-> ad,
                             gateway |-> FALSE, via |-> v]
               [] OTHER  -> NoMeta] :
          k1 \in {"", "server", "device"}, k2 \in {"", "server"},
          g \in BOOLEAN, ad \in BOOLEAN, v \in {{}, {n1}, {n1, n3}}}

Srcs == {<<"any">>, <<"node", n1>>, <<"node", n2>>, <<"tag", RoleTag(r1)>>}
Dsts == {<<"any">>, <<"servers">>, <<"internet">>, <<"none">>,
         <<"tag", RoleTag(r1)>>, <<"tag", gateway_tag(n1)>>,
         <<"node", n1>>, <<"node", n2>>,
         <<"cidr", {m1}>>, <<"cidr", {m3}>>, <<"cidr", {m1, w1}>>,
         <<"cidr", {w1}>>}

RuleSets == {{}} \cup {{[src |-> s, dst |-> d, ports |-> "22"]} :
                        s \in Srcs, d \in Dsts}

DirectionSets ==
    {{}} \cup {{[src_kind |-> k, src |-> {n1, n2}, via |-> n1,
                ips |-> {{w1}, {w1, w2}, {m2}}, ports |-> "*"]} :
               k \in {"node", "devices", "servers"}}

(* The generator treats every rule and every direction alone, so one at a  *)
(* time is enough.                                                         *)
MCStored == {[rules |-> r, dirs |-> {}] : r \in RuleSets}
              \cup {[rules |-> {}, dirs |-> d] : d \in DirectionSets}
=============================================================================
