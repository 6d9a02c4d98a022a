------------------------------ MODULE AclCases ------------------------------
(***************************************************************************)
(* What the policy generator promises of its inputs.  A state is a fleet   *)
(* with the panel's notes about it, the stored rules and the directions;   *)
(* the properties compare the policy generated from them with what they    *)
(* mean.                                                                   *)
(***************************************************************************)
EXTENDS AclGen

CONSTANTS
    Fleets,     \* sets of nodes, as headscale may report them
    Notes,      \* the panel's notes about them
    Stored      \* what is stored beside: [rules, dirs]

ASSUME CasesAssumption ==
    /\ \A f \in Fleets : f \in SUBSET HsNode /\ DistinctAddrs(f)
    /\ \A m \in Notes : m \in [Node -> MetaEntry]
    /\ \A s \in Stored : s.rules \in SUBSET Rule /\ s.dirs \in SUBSET Direction

VARIABLES nodes, meta, rules, dirs
vars == <<nodes, meta, rules, dirs>>

Init == /\ nodes \in Fleets /\ meta \in Notes
        /\ rules = {} /\ dirs = {}

Store ==
    /\ rules = {} /\ dirs = {}
    /\ \E s \in Stored : rules' = s.rules /\ dirs' = s.dirs
    /\ UNCHANGED <<nodes, meta>>

Next == Store

Spec == Init /\ [][Next]_vars

Pol == PolicyOf(rules, dirs, meta, nodes, {})
DevAddrs == ipv4(devices(nodes, meta))

-----------------------------------------------------------------------------
(* No accept rule of the policy reaches the address of a personal device,  *)
(* by any spelling of the destination (aclgen.generate_policy: "a device   *)
(* is never a destination").                                               *)
Isolation == Isolated(Pol, nodes, meta)

(* Every tag the policy mentions is declared in it: headscale refuses the  *)
(* whole policy over one that is not.                                      *)
TagsDeclared == Declared(Pol)

(* What a rule means, said without the generator's filters: a source may   *)
(* reach an address the destination covers, unless the destination is a    *)
(* literal or a tag through which some device would be reached too.        *)
covered(sel) ==
    UNION {Reach(e, nodes) : e \in resolve(sel, nodes, ipv4(servers(nodes, meta)))}

target(dst) ==
    IF dst[1] = "any" THEN ipv4(servers(nodes, meta)) ELSE covered(dst)

(* A literal of more than one address that overlaps the mesh.              *)
wide(dst) ==
    /\ dst[1] = "cidr" /\ dst[2] \cap MeshAddr # {}
    /\ \E a, b \in dst[2] : a # b

Means(r, a, b) ==
    /\ a \in covered(r.src)
    /\ b \in target(r.dst)
    /\ target(r.dst) \cap DevAddrs = {} \/ r.dst[1] \in {"any", "internet"}
    /\ ~ wide(r.dst)
    /\ ~ (r.src[1] = "node" /\ r.src = r.dst)

(* A direction opens exactly its own literals, to its own sources, and     *)
(* never to the node it leads through.                                     *)
DirectionMeans(d, a, b) ==
    LET from == CASE d.src_kind = "devices" -> devices(nodes, meta)
                  [] d.src_kind = "servers" -> servers(nodes, meta)
                  [] OTHER -> {n \in nodes : n.id \in d.src}
    IN  /\ \E n \in from : n.ip = a /\ n.id # d.via /\ n.ip # NoAddr
        /\ \E S \in d.ips : b \in S /\ S \notin BadNet /\ S \subseteq WebAddr

AdminMeans(a, b) ==
    /\ \E n \in nodes : meta[n.id].admin /\ n.ip = a /\ a # NoAddr
    /\ b \in ipv4(servers(nodes, meta))

(* The policy opens what the rules, the directions and the admin notes     *)
(* mean, and nothing else, on every port but the one that makes a gateway  *)
(* visible (aclgen.generate_policy, routing.acl_rules).                    *)
OpensWhatIsMeant ==
    \A a, b \in Addr, p \in Port \ {VIS_PORT} :
        Permits(Pol, nodes, a, b, p) <=>
            \/ \E r \in rules : r.ports = p /\ Means(r, a, b)
            \/ \E d \in dirs : d.ports = p /\ DirectionMeans(d, a, b)
            \/ p = "*" /\ AdminMeans(a, b)

(* Whoever may leave through a gateway can see a gateway to leave through, *)
(* and every gateway it is granted is a server marked as one: an exit that *)
(* the policy grants but hides, or one that is a personal device, would    *)
(* leave the client without a network or its traffic on someone's laptop   *)
(* (exitvia.exit_via_grants, the visibility rule of generate_policy).      *)
GrantsAreUsable ==
    \A g \in Pol.grants :
        /\ \E r \in Pol.acls :
              /\ Net({g.src}) \in r.src /\ r.ports = VIS_PORT
              /\ {Tagged(t) : t \in g.via} = r.dst
        /\ \A t \in g.via : \E n \in gateways(meta) : t = gateway_tag(n)
        /\ \A n \in nodes : n.tags \cap g.via # {} =>
              effective_kind(n, meta) = "server" \/ n.ip = NoAddr
=============================================================================
