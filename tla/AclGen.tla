------------------------------- MODULE AclGen -------------------------------
(***************************************************************************)
(* The access policy the panel derives from what it stores: the selectors  *)
(* of the stored rules, the rules implied by admin nodes and by routing    *)
(* directions, the exit grants, and the filters that keep a personal       *)
(* device from ever being a destination (backend/app/aclgen.py,            *)
(* exitvia.py, nodekind.py, routing.py and the assembly of their inputs in *)
(* policy_apply.build_policy).                                             *)
(*                                                                         *)
(* A policy is a value: a set of accept rules, a set of exit grants and    *)
(* the set of tags it declares.  Its JSON text, the order of its entries   *)
(* and the syntax of an address are left out; what an entry can reach is   *)
(* not.  Addresses are IPv4 only, as the code keeps them.                  *)
(***************************************************************************)
EXTENDS FiniteSets

CONSTANTS
    Node,       \* node ids, as headscale numbers them
    Role,       \* the roles an administrator gives to servers
    MeshAddr,   \* addresses inside 100.64.0.0/10
    WebAddr,    \* addresses outside of it
    NoAddr,     \* what _ipv4 returns for a node without an IPv4 address
    BadNet,     \* literals outside the mesh that no direction may lead to:
                \*   public prefixes under /16, loopback, link-local, ...
    ExitNet,    \* the whole internet as a route: 0.0.0.0/0 with ::/0
    Port        \* port expressions of the rules

ASSUME AddrAssumption ==
    /\ MeshAddr \cap WebAddr = {}
    /\ NoAddr \notin MeshAddr \cup WebAddr
    /\ BadNet \subseteq SUBSET WebAddr
    /\ \A S \in SUBSET WebAddr : S # ExitNet

Addr == MeshAddr \cup WebAddr

-----------------------------------------------------------------------------
(* Tags.  Those the panel keeps for itself are tag:xgw-<id> and the marker *)
(* that stands for "no role left".                                         *)

RoleTag(r) == <<"role", r>>
gateway_tag(n) == <<"xgw", n>>
MARKER_TAG == <<"marker">>
Tag == {RoleTag(r) : r \in Role} \cup {gateway_tag(n) : n \in Node}
         \cup {MARKER_TAG}
is_service_tag(t) == t[1] # "role"

(* A route that the panel asks of a node: a network a direction leads to   *)
(* or the way out to the internet.                                         *)
Route == {ExitNet} \cup SUBSET WebAddr

(* A node as headscale reports it, with the routes approved of it.         *)
HsNode == [id : Node, ip : MeshAddr \cup {NoAddr},
           tags : SUBSET Tag, approved : SUBSET Route]

(* The panel's note about a node.                                          *)
NoMeta == [kind |-> "", admin |-> FALSE, gateway |-> FALSE, via |-> {}]
MetaEntry == [kind : {"", "server", "device"}, admin : BOOLEAN,
              gateway : BOOLEAN, via : SUBSET Node]

guess_kind(n) ==
    IF n.approved # {} \/ \E t \in n.tags : ~is_service_tag(t)
    THEN "server" ELSE "device"

effective_kind(n, meta) ==
    IF meta[n.id].kind # "" THEN meta[n.id].kind ELSE guess_kind(n)

servers(nodes, meta) == {n \in nodes : effective_kind(n, meta) = "server"}
devices(nodes, meta) == nodes \ servers(nodes, meta)

(* The IPv4 addresses of some nodes (aclgen._ipv4 over a list).            *)
ipv4(nodes) == {n.ip : n \in nodes} \ {NoAddr}

-----------------------------------------------------------------------------
(* What an entry of a policy can name: everything, the public internet, a  *)
(* tag, or a network written out.  A single address is the network of just *)
(* that address, however it is spelt.                                      *)

Star == <<"star">>
Internet == <<"internet">>
Tagged(t) == <<"tag", t>>
Net(S) == <<"net", S>>

Lone(S) == \E a \in S : S = {a}

(* The selectors of a stored rule.  A selector whose value is empty, does  *)
(* not parse or is IPv6 comes to nothing, hence "none".                    *)
Selector == {<<"any">>, <<"servers">>, <<"internet">>, <<"none">>}
              \cup {<<"tag", t>> : t \in Tag}
              \cup {<<"cidr", S>> : S \in SUBSET Addr}
              \cup {<<"node", n>> : n \in Node}

Rule == [src : Selector, dst : Selector, ports : Port]

resolve(sel, nodes, server_ips) ==
    CASE sel[1] = "any"      -> {Star}
      [] sel[1] = "tag"      -> {Tagged(sel[2])}
      [] sel[1] = "servers"  -> {Net({a}) : a \in server_ips}
      [] sel[1] = "internet" -> {Internet}
      [] sel[1] = "cidr"     -> {Net(sel[2])}
      [] sel[1] = "node"     ->
            {Net({a}) : a \in ipv4({n \in nodes : n.id = sel[2]})}
      [] OTHER               -> {}

(* Slip: the device's own address is forgotten.                            *)
covers_mesh_wide_only(S, device_ips) == ~Lone(S) /\ S \cap MeshAddr # {}

(* A literal that may not be a destination: it holds a device's address,   *)
(* or it is wider than one address and overlaps the mesh.                  *)
covers_mesh(S, device_ips) ==
    \/ S \cap device_ips # {}
    \/ ~Lone(S) /\ S \cap MeshAddr # {}

DeviceTags(nodes, device_ips) ==
    UNION {n.tags : n \in {m \in nodes : m.ip \in device_ips}}

(* Slip: a tag a device wears is let through.                              *)
Permitted_any_tag(d, nodes, device_ips) ==
    d[1] = "net" => ~covers_mesh(d[2], device_ips)

(* The destinations of one rule once the isolation filter has run; a       *)
(* remaining "*" means every server.                                       *)
Permitted(d, nodes, device_ips) ==
    CASE d[1] = "net" -> ~covers_mesh(d[2], device_ips)
      [] d[1] = "tag" -> d[2] \notin DeviceTags(nodes, device_ips)
      [] OTHER        -> TRUE

(* Slip: "*" is taken out and no servers are put in.                       *)
Destinations_star_lost(dst, nodes, server_ips, device_ips) ==
    {d \in resolve(dst, nodes, server_ips) :
        d # Star /\ Permitted(d, nodes, device_ips)}

Destinations(dst, nodes, server_ips, device_ips) ==
    LET kept == {d \in resolve(dst, nodes, server_ips) :
                    Permitted(d, nodes, device_ips)}
    IN  IF Star \in kept
        THEN (kept \ {Star}) \cup {Net({a}) : a \in server_ips}
        ELSE kept

(* The accept rules that come of a set of rules.  A rule from a node to    *)
(* itself, or with nobody on one side, yields none.                        *)
Acls(rules, nodes, server_ips, device_ips) ==
    LET srcs(r) == resolve(r.src, nodes, server_ips)
        dsts(r) == Destinations(r.dst, nodes, server_ips, device_ips)
        toItself(r) == /\ r.src[1] = "node" /\ r.dst[1] = "node"
                       /\ srcs(r) = dsts(r)
    IN  {[src |-> srcs(r), dst |-> dsts(r), ports |-> r.ports] :
            r \in {q \in rules : /\ ~toItself(q)
                                 /\ srcs(q) # {} /\ dsts(q) # {}}}

TagsOf(ends) == {e[2] : e \in {d \in ends : d[1] = "tag"}}

(* Slip: the tags of the accept rules are not declared.                    *)
used_tags_without_rules(acls, grants, extra_tags) ==
    extra_tags \cup UNION {g.via : g \in grants}

(* A tag is declared if a rule uses it, if a grant leads through it, or if *)
(* the caller asks for it.                                                 *)
used_tags(acls, grants, extra_tags) ==
    extra_tags \cup (UNION {TagsOf(a.src \cup a.dst) : a \in acls})
               \cup (UNION {g.via : g \in grants})

(* generate_policy.  exit_via is a set of [src, via]: an address and the   *)
(* gateway tags it may leave through.  Beside the grant, each one gets an  *)
(* accept rule to the gateways on the discard port, or the client could    *)
(* not see them.                                                           *)
VIS_PORT == "9"

generate_policy(rules, nodes, server_ips, device_ips, extra_tags, exit_via) ==
    LET vias(g) == g.via \ DeviceTags(nodes, device_ips)
        grants == {[src |-> g.src, via |-> vias(g)] :
                      g \in {h \in exit_via : vias(h) # {}}}
        visible == {[src |-> {Net({g.src})},
                     dst |-> {Tagged(t) : t \in g.via},
                     ports |-> VIS_PORT] : g \in grants}
        plain == Acls(rules, nodes, server_ips, device_ips)
    IN  [acls   |-> plain \cup visible,
         grants |-> grants,
         owners |-> used_tags(plain, grants, extra_tags)]

(* A headscale that has never been given a policy has none to return.      *)
NoPolicy == [acls |-> {}, grants |-> {}, owners |-> {}]

-----------------------------------------------------------------------------
(* Routing directions: who goes where through which node.                  *)

Direction == [src_kind : {"node", "devices", "servers"}, src : SUBSET Node,
              via : Node, ips : SUBSET (SUBSET Addr), ports : Port]

touches_mesh(S) == S \cap MeshAddr # {}

dst_ips(d) == {S \in d.ips : S \notin BadNet /\ ~touches_mesh(S)}

sources(d, device_ids, server_ids) ==
    (CASE d.src_kind = "devices" -> device_ids
       [] d.src_kind = "servers" -> server_ids
       [] OTHER                  -> d.src) \ {d.via}

acl_rules(dirs, device_ids, server_ids) ==
    UNION {{[src |-> <<"node", s>>, dst |-> <<"cidr", S>>,
             ports |-> d.ports] :
              s \in sources(d, device_ids, server_ids), S \in dst_ips(d)} :
           d \in dirs}

(* The literals each exit node has to announce.                            *)
routes_by_node(dirs, n) ==
    UNION {dst_ips(d) : d \in {e \in dirs : e.via = n}}

-----------------------------------------------------------------------------
(* Exit through permitted gateways.                                        *)

gateways(meta) == {n \in Node : meta[n].gateway}

(* Slip: an exit that is no gateway any more is still granted.             *)
exit_via_grants_unchecked(meta, nodes) ==
    {[src |-> n.ip, via |-> {gateway_tag(g) : g \in meta[n.id].via}] :
        n \in {m \in nodes : m.ip # NoAddr /\ meta[m.id].via # {}}}

exit_via_grants(meta, nodes) ==
    {[src |-> n.ip,
      via |-> {gateway_tag(g) : g \in meta[n.id].via \cap gateways(meta)}] :
        n \in {m \in nodes : /\ m.ip # NoAddr
                             /\ meta[m.id].via \cap gateways(meta) # {}}}

(* The whole assembly.                                                     *)
admin_rules(meta) ==
    {[src |-> <<"node", n>>, dst |-> <<"servers">>, ports |-> "*"] :
        n \in {m \in Node : meta[m].admin}}

PolicyOf(rules, dirs, meta, nodes, extra_tags) ==
    LET srv == servers(nodes, meta)
        dev == devices(nodes, meta)
        ids(S) == {n.id : n \in S}
    IN  generate_policy(
            rules \cup admin_rules(meta)
                  \cup acl_rules(dirs, ids(dev), ids(srv)),
            nodes, ipv4(srv), ipv4(dev),
            (UNION {n.tags : n \in nodes})
                \cup {gateway_tag(n) : n \in gateways(meta)} \cup extra_tags,
            exit_via_grants(meta, nodes))

-----------------------------------------------------------------------------
(* The policies there are, by type.                                        *)
Entry == {Star, Internet} \cup {Tagged(t) : t \in Tag}
         \cup {Net(S) : S \in SUBSET Addr}
Policy == [acls   : SUBSET [src : SUBSET Entry, dst : SUBSET Entry,
                            ports : Port \cup {"*", VIS_PORT}],
           grants : SUBSET [src : MeshAddr, via : SUBSET Tag],
           owners : SUBSET Tag]

-----------------------------------------------------------------------------
(* What headscale makes of an entry of a policy: the addresses it reaches. *)

Reach(d, nodes) ==
    CASE d[1] = "star"     -> Addr
      [] d[1] = "internet" -> WebAddr
      [] d[1] = "tag"      -> ipv4({n \in nodes : d[2] \in n.tags})
      [] OTHER             -> d[2]

Permits(pol, nodes, a, b, p) ==
    \E r \in pol.acls : /\ r.ports = p
                        /\ \E s \in r.src : a \in Reach(s, nodes)
                        /\ \E d \in r.dst : b \in Reach(d, nodes)

(* A policy keeps personal devices apart: none of its accept rules reaches *)
(* one.                                                                    *)
Isolated(pol, nodes, meta) ==
    \A r \in pol.acls : \A d \in r.dst :
        Reach(d, nodes) \cap ipv4(devices(nodes, meta)) = {}

(* A policy declares every tag it mentions.                                *)
Declared(pol) ==
    /\ \A r \in pol.acls : TagsOf(r.src \cup r.dst) \subseteq pol.owners
    /\ \A g \in pol.grants : g.via \subseteq pol.owners

(* headscale gives every node an address of its own.                       *)
DistinctAddrs(nodes) ==
    /\ \A m, n \in nodes : m.id = n.id => m = n
    /\ \A m, n \in nodes : m.ip = n.ip /\ m.ip # NoAddr => m = n
=============================================================================
