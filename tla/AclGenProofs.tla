---------------------------- MODULE AclGenProofs ----------------------------
(***************************************************************************)
(* Facts about every policy the generator can produce, for any fleet, any  *)
(* notes, rules and directions: it is well formed, it declares the tags it *)
(* uses, and it keeps personal devices apart.                              *)
(***************************************************************************)
EXTENDS AclGen, TLAPS

(* The entries a selector comes to, by shape.                              *)
LEMMA ResolveShapes ==
    ASSUME NEW sel, NEW nodes, NEW server_ips, NEW d,
           d \in resolve(sel, nodes, server_ips)
    PROVE  d = Star \/ d = Internet \/ (\E t : d = Tagged(t)) \/ (\E S : d = Net(S))
  BY DEF resolve

(* The first component tells the shapes apart.                             *)
LEMMA Shapes ==
    /\ Star[1] = "star" /\ Internet[1] = "internet"
    /\ \A t : Tagged(t)[1] = "tag" /\ Tagged(t)[2] = t
    /\ \A S : Net(S)[1] = "net" /\ Net(S)[2] = S
  BY DEF Star, Internet, Tagged, Net

(* What a rule may lead to once the filter has run: a server, the public   *)
(* internet, a tag no device wears, a literal that holds no device.        *)
Harmless(d, nodes, server_ips, device_ips) ==
    \/ \E a \in server_ips : d = Net({a})
    \/ d = Internet
    \/ \E t : d = Tagged(t) /\ t \notin DeviceTags(nodes, device_ips)
    \/ \E S : d = Net(S) /\ S \cap device_ips = {}

LEMMA DestinationShapes ==
    ASSUME NEW dst, NEW nodes, NEW server_ips, NEW device_ips,
           NEW d \in Destinations(dst, nodes, server_ips, device_ips)
    PROVE  Harmless(d, nodes, server_ips, device_ips)
<1> DEFINE kept == {e \in resolve(dst, nodes, server_ips) :
                        Permitted(e, nodes, device_ips)}
<1>1. CASE d \in kept /\ d # Star
  <2>1. /\ d \in resolve(dst, nodes, server_ips)
        /\ Permitted(d, nodes, device_ips)
    BY <1>1
  <2>2. CASE d = Internet
    BY <2>2 DEF Harmless
  <2>3. CASE \E t : d = Tagged(t)
    <3>1. PICK t : d = Tagged(t)
      BY <2>3
    <3>2. t \notin DeviceTags(nodes, device_ips)
      BY <2>1, <3>1, Shapes DEF Permitted
    <3>3. QED
      BY <3>1, <3>2 DEF Harmless
  <2>4. CASE \E S : d = Net(S)
    <3>1. PICK S : d = Net(S)
      BY <2>4
    <3>2. S \cap device_ips = {}
      BY <2>1, <3>1, Shapes DEF Permitted, covers_mesh
    <3>3. QED
      BY <3>1, <3>2 DEF Harmless
  <2>5. d = Star \/ d = Internet \/ (\E t : d = Tagged(t)) \/ (\E S : d = Net(S))
    BY <2>1, ResolveShapes
  <2>6. QED
    BY <1>1, <2>2, <2>3, <2>4, <2>5 DEF Harmless
<1>2. CASE \E a \in server_ips : d = Net({a})
  BY <1>2 DEF Harmless
<1>3. (d \in kept /\ d # Star) \/ \E a \in server_ips : d = Net({a})
  <2>1. CASE Star \in kept
    BY <2>1 DEF Destinations
  <2>2. CASE Star \notin kept
    BY <2>2 DEF Destinations
  <2>3. QED
    BY <2>1, <2>2
<1>4. QED
  BY <1>1, <1>2, <1>3 DEF Harmless

(* A tag that no device wears reaches no device.                           *)
LEMMA TagAvoidsDevices ==
    ASSUME NEW nodes, NEW devs, NEW t,
           t \notin DeviceTags(nodes, ipv4(devs))
    PROVE  Reach(Tagged(t), nodes) \cap ipv4(devs) = {}
<1>1. Reach(Tagged(t), nodes) = ipv4({n \in nodes : t \in n.tags})
  BY Shapes DEF Reach
<1>2. SUFFICES ASSUME NEW a \in ipv4({n \in nodes : t \in n.tags}),
                      a \in ipv4(devs)
               PROVE  FALSE
  BY <1>1
<1>3. PICK n \in nodes : t \in n.tags /\ n.ip = a
  BY <1>2 DEF ipv4
<1>4. t \in DeviceTags(nodes, ipv4(devs))
  BY <1>2, <1>3 DEF DeviceTags
<1>5. QED
  BY <1>4

(* headscale gives servers and devices different addresses.                *)
LEMMA ServersAreNotDevices ==
    ASSUME NEW nodes, NEW meta, DistinctAddrs(nodes)
    PROVE  ipv4(servers(nodes, meta)) \cap ipv4(devices(nodes, meta)) = {}
<1>1. SUFFICES ASSUME NEW m \in servers(nodes, meta),
                      NEW n \in devices(nodes, meta),
                      m.ip = n.ip, m.ip # NoAddr
               PROVE  FALSE
  BY DEF ipv4
<1>2. m \in nodes /\ n \in nodes /\ m # n
  BY DEF servers, devices
<1>3. QED
  BY <1>1, <1>2 DEF DistinctAddrs

(* aclgen.generate_policy, "a device is never a destination": for every    *)
(* fleet with distinct addresses, every set of rules, directions and notes *)
(* and every tag to declare, no accept rule of the policy reaches the      *)
(* address of a personal device.                                           *)
THEOREM PolicyIsolatesDevices ==
    ASSUME NEW nodes \in SUBSET HsNode, DistinctAddrs(nodes),
           NEW meta, NEW rules, NEW dirs, NEW extra
    PROVE  Isolated(PolicyOf(rules, dirs, meta, nodes, extra), nodes, meta)
<1> DEFINE srv == ipv4(servers(nodes, meta))
           dev == ipv4(devices(nodes, meta))
           R == rules \cup admin_rules(meta)
                  \cup acl_rules(dirs, {n.id : n \in devices(nodes, meta)},
                                       {n.id : n \in servers(nodes, meta)})
           X == exit_via_grants(meta, nodes)
           plain == Acls(R, nodes, srv, dev)
           vias(g) == g.via \ DeviceTags(nodes, dev)
           grants == {[src |-> g.src, via |-> vias(g)] : g \in {h \in X : vias(h) # {}}}
           visible == {[src |-> {Net({g.src})}, dst |-> {Tagged(t) : t \in g.via},
                        ports |-> VIS_PORT] : g \in grants}
<1>1. PolicyOf(rules, dirs, meta, nodes, extra).acls = plain \cup visible
  BY DEF PolicyOf, generate_policy
<1>2. SUFFICES ASSUME NEW r \in plain \cup visible, NEW d \in r.dst
               PROVE  Reach(d, nodes) \cap dev = {}
  BY <1>1 DEF Isolated
<1>3. CASE r \in plain
  <2>1. PICK q \in R : r.dst = Destinations(q.dst, nodes, srv, dev)
    <3> HIDE DEF srv, dev, R
    <3> QED BY <1>3 DEF Acls
  <2>2. d \in Destinations(q.dst, nodes, srv, dev)
    BY <2>1
  <2>3. CASE \E a \in srv : d = Net({a})
    <3>1. PICK a \in srv : d = Net({a})
      BY <2>3
    <3>2. Reach(d, nodes) = {a}
      BY <3>1, Shapes DEF Reach
    <3>3. a \notin dev
      BY ServersAreNotDevices
    <3>4. QED
      BY <3>2, <3>3
  <2>4. CASE d = Internet
    <3>1. Reach(d, nodes) = WebAddr
      BY <2>4, Shapes DEF Reach
    <3>2. dev \subseteq MeshAddr
      BY DEF ipv4, devices, HsNode
    <3>3. QED
      BY <3>1, <3>2, AddrAssumption
  <2>5. CASE \E t : d = Tagged(t) /\ t \notin DeviceTags(nodes, dev)
    BY <2>5, TagAvoidsDevices
  <2>6. CASE \E S : d = Net(S) /\ S \cap dev = {}
    BY <2>6, Shapes DEF Reach
  <2>7. Harmless(d, nodes, srv, dev)
    <3> HIDE DEF srv, dev, R, X, plain, grants, visible
    <3> QED BY <2>2, DestinationShapes
  <2>8. QED
    BY <2>3, <2>4, <2>5, <2>6, <2>7 DEF Harmless
<1>4. CASE r \in visible
  <2>1. PICK g \in grants : r = [src |-> {Net({g.src})},
                                 dst |-> {Tagged(t) : t \in g.via},
                                 ports |-> VIS_PORT]
    <3> HIDE DEF srv, dev, R, X, plain, grants
    <3> QED BY <1>4, Zenon
  <2>2. PICK t \in g.via : d = Tagged(t)
    BY <2>1
  <2>3. t \notin DeviceTags(nodes, dev)
    <3> HIDE DEF srv, dev, R, X, plain
    <3>1. PICK h \in X : g.via = vias(h)
      BY <2>1
    <3>2. QED BY <2>2, <3>1
  <2>4. QED
    BY <2>2, <2>3, TagAvoidsDevices
<1>5. QED
  BY <1>2, <1>3, <1>4

-----------------------------------------------------------------------------
(* aclgen.generate_policy, "used_tags": for every input whatsoever the     *)
(* policy declares each tag that one of its rules or grants mentions.      *)
THEOREM PolicyDeclaresItsTags ==
    ASSUME NEW nodes, NEW meta, NEW rules, NEW dirs, NEW extra
    PROVE  Declared(PolicyOf(rules, dirs, meta, nodes, extra))
<1>1. ASSUME NEW R, NEW srv, NEW dev, NEW tags, NEW X
      PROVE  Declared(generate_policy(R, nodes, srv, dev, tags, X))
  <2> DEFINE vias(g) == g.via \ DeviceTags(nodes, dev)
             grants == {[src |-> g.src, via |-> vias(g)] :
                           g \in {h \in X : vias(h) # {}}}
             visible == {[src |-> {Net({g.src})}, dst |-> {Tagged(t) : t \in g.via},
                          ports |-> VIS_PORT] : g \in grants}
             plain == Acls(R, nodes, srv, dev)
             owners == used_tags(plain, grants, tags)
             pol == generate_policy(R, nodes, srv, dev, tags, X)
  <2>1. /\ pol.acls = plain \cup visible
        /\ pol.grants = grants
        /\ pol.owners = owners
    BY DEF generate_policy
  <2> HIDE DEF pol, plain, grants
  <2>2. \A r \in plain : TagsOf(r.src \cup r.dst) \subseteq owners
    BY DEF used_tags
  <2>3. ASSUME NEW g \in grants
        PROVE  g.via \subseteq owners
    <3>1. g.via \in {h.via : h \in grants}
      OBVIOUS
    <3>2. UNION {h.via : h \in grants} \subseteq owners
      BY DEF used_tags
    <3>3. QED
      BY <3>1, <3>2
  <2>4. ASSUME NEW r \in visible
        PROVE  TagsOf(r.src \cup r.dst) \subseteq owners
    <3>1. PICK g \in grants : r = [src |-> {Net({g.src})},
                                   dst |-> {Tagged(t) : t \in g.via},
                                   ports |-> VIS_PORT]
      BY <2>4, Zenon
    <3>2. TagsOf(r.src \cup r.dst) \subseteq g.via
      BY <3>1, Shapes DEF TagsOf
    <3>3. QED
      BY <2>3, <3>2
  <2> HIDE DEF visible, owners
  <2>5. Declared(pol)
    BY <2>1, <2>2, <2>3, <2>4 DEF Declared
  <2>6. QED
    BY <2>5 DEF pol
<1>2. QED
  BY <1>1, Zenon DEF PolicyOf

-----------------------------------------------------------------------------
(* A selector comes to entries a policy may hold.                          *)
LEMMA Ipv4Typed ==
    ASSUME NEW nodes \in SUBSET HsNode
    PROVE  ipv4(nodes) \in SUBSET MeshAddr
  BY DEF ipv4, HsNode

LEMMA SelectorShapes ==
    ASSUME NEW sel \in Selector
    PROVE  \/ sel[1] \in {"any", "servers", "internet", "none"}
           \/ sel[1] = "tag" /\ sel[2] \in Tag
           \/ sel[1] = "cidr" /\ sel[2] \in SUBSET Addr
           \/ sel[1] = "node" /\ sel[2] \in Node
<1>1. CASE sel \in {<<"any">>, <<"servers">>, <<"internet">>, <<"none">>}
  BY <1>1
<1>2. CASE \E t \in Tag : sel = <<"tag", t>>
  BY <1>2
<1>3. CASE \E S \in SUBSET Addr : sel = <<"cidr", S>>
  BY <1>3
<1>4. CASE \E n \in Node : sel = <<"node", n>>
  BY <1>4
<1>5. QED
  BY <1>1, <1>2, <1>3, <1>4 DEF Selector

LEMMA EntryOfAddr ==
    ASSUME NEW A \in SUBSET MeshAddr
    PROVE  {Net({a}) : a \in A} \subseteq Entry
<1>1. \A a \in A : {a} \in SUBSET Addr
  BY DEF Addr
<1>2. QED
  BY <1>1 DEF Entry

LEMMA ResolveTyped ==
    ASSUME NEW sel \in Selector, NEW nodes \in SUBSET HsNode,
           NEW server_ips \in SUBSET MeshAddr
    PROVE  resolve(sel, nodes, server_ips) \subseteq Entry
<1>1. CASE sel[1] \in {"any", "servers", "internet", "none"}
  <2>1. {Net({a}) : a \in server_ips} \subseteq Entry
    BY EntryOfAddr
  <2>2. {Star} \subseteq Entry /\ {Internet} \subseteq Entry
    BY DEF Entry
  <2>3. QED
    BY <1>1, <2>1, <2>2 DEF resolve
<1>2. CASE sel[1] = "tag" /\ sel[2] \in Tag
  <2>1. Tagged(sel[2]) \in Entry
    BY <1>2 DEF Entry
  <2>2. QED
    BY <1>2, <2>1 DEF resolve
<1>3. CASE sel[1] = "cidr" /\ sel[2] \in SUBSET Addr
  <2>1. Net(sel[2]) \in Entry
    BY <1>3 DEF Entry
  <2>2. QED
    BY <1>3, <2>1 DEF resolve
<1>4. CASE sel[1] = "node" /\ sel[2] \in Node
  <2> DEFINE A == ipv4({n \in nodes : n.id = sel[2]})
  <2>1. A \in SUBSET MeshAddr
    BY Ipv4Typed
  <2>2. {Net({a}) : a \in A} \subseteq Entry
    BY <2>1, EntryOfAddr
  <2>3. resolve(sel, nodes, server_ips) = {Net({a}) : a \in A}
    BY <1>4 DEF resolve
  <2>4. QED
    BY <2>2, <2>3
<1>5. QED
  BY <1>1, <1>2, <1>3, <1>4, SelectorShapes

(* What acl_rules and admin_rules add is made of the same parts as a       *)
(* stored rule, on a port or on all of them.                               *)
AnyRule == [src : Selector, dst : Selector, ports : Port \cup {"*"}]

LEMMA AclsTyped ==
    ASSUME NEW R \in SUBSET AnyRule, NEW nodes \in SUBSET HsNode,
           NEW srv \in SUBSET MeshAddr, NEW dev
    PROVE  Acls(R, nodes, srv, dev) \subseteq
             [src : SUBSET Entry, dst : SUBSET Entry, ports : Port \cup {"*", VIS_PORT}]
<1>1. ASSUME NEW r \in R
      PROVE  /\ resolve(r.src, nodes, srv) \subseteq Entry
             /\ Destinations(r.dst, nodes, srv, dev) \subseteq Entry
             /\ r.ports \in Port \cup {"*", VIS_PORT}
  <2>1. /\ r.src \in Selector /\ r.dst \in Selector
        /\ r.ports \in Port \cup {"*"}
    BY DEF AnyRule
  <2>2. resolve(r.src, nodes, srv) \subseteq Entry
    BY <2>1, ResolveTyped
  <2>3. resolve(r.dst, nodes, srv) \subseteq Entry
    BY <2>1, ResolveTyped
  <2>4. {Net({a}) : a \in srv} \subseteq Entry
    BY EntryOfAddr
  <2>5. Destinations(r.dst, nodes, srv, dev) \subseteq
            resolve(r.dst, nodes, srv) \cup {Net({a}) : a \in srv}
    BY DEF Destinations
  <2>6. QED
    BY <2>1, <2>2, <2>3, <2>4, <2>5
<1>2. SUFFICES ASSUME NEW a \in Acls(R, nodes, srv, dev)
               PROVE  a \in [src : SUBSET Entry, dst : SUBSET Entry,
                             ports : Port \cup {"*", VIS_PORT}]
  OBVIOUS
<1>3. PICK r \in R : a = [src |-> resolve(r.src, nodes, srv),
                          dst |-> Destinations(r.dst, nodes, srv, dev),
                          ports |-> r.ports]
  BY <1>2, Zenon DEF Acls
<1>4. QED
  BY <1>1, <1>3

LEMMA GrantsTyped ==
    ASSUME NEW nodes \in SUBSET HsNode, NEW meta
    PROVE  exit_via_grants(meta, nodes) \subseteq [src : MeshAddr, via : SUBSET Tag]
<1>1. ASSUME NEW n \in nodes, n.ip # NoAddr
      PROVE  /\ n.ip \in MeshAddr
             /\ {gateway_tag(g) : g \in meta[n.id].via \cap gateways(meta)} \subseteq Tag
  <2>1. gateways(meta) \subseteq Node
    BY DEF gateways
  <2>2. \A g \in Node : gateway_tag(g) \in Tag
    BY DEF Tag
  <2>3. QED
    BY <1>1, <2>1, <2>2 DEF HsNode
<1>2. QED
  BY <1>1 DEF exit_via_grants

LEMMA RulesTyped ==
    ASSUME NEW rules \in SUBSET Rule, NEW dirs \in SUBSET Direction, NEW meta,
           NEW dev \in SUBSET Node, NEW srv \in SUBSET Node
    PROVE  rules \cup admin_rules(meta) \cup acl_rules(dirs, dev, srv)
               \in SUBSET AnyRule
<1>1. rules \in SUBSET AnyRule
  BY DEF Rule, AnyRule
<1>2. \A n \in Node : <<"node", n>> \in Selector
  BY DEF Selector
<1>3. \A S \in SUBSET Addr : <<"cidr", S>> \in Selector
  BY DEF Selector
<1>4. <<"servers">> \in Selector
  BY DEF Selector
<1>5. admin_rules(meta) \in SUBSET AnyRule
  BY <1>2, <1>4 DEF admin_rules, AnyRule
<1>6. ASSUME NEW d \in dirs, NEW s \in sources(d, dev, srv), NEW S \in dst_ips(d)
      PROVE  [src |-> <<"node", s>>, dst |-> <<"cidr", S>>, ports |-> d.ports]
                 \in AnyRule
  <2>1. d \in Direction
    OBVIOUS
  <2>2. s \in Node
    BY <2>1 DEF sources, Direction
  <2>3. S \in SUBSET Addr /\ d.ports \in Port
    BY <2>1 DEF dst_ips, Direction
  <2>4. QED
    BY <1>2, <1>3, <2>2, <2>3 DEF AnyRule
<1>7. acl_rules(dirs, dev, srv) \in SUBSET AnyRule
  BY <1>6 DEF acl_rules
<1>8. QED
  BY <1>1, <1>5, <1>7

(* Whatever is stored, the generated policy is well formed: its entries    *)
(* are tags, addresses and literals the system knows.                      *)
THEOREM PolicyTyped ==
    ASSUME NEW nodes \in SUBSET HsNode, NEW meta,
           NEW rules \in SUBSET Rule, NEW dirs \in SUBSET Direction,
           NEW extra \in SUBSET Tag
    PROVE  PolicyOf(rules, dirs, meta, nodes, extra) \in Policy
<1> DEFINE srv == servers(nodes, meta)
           dev == devices(nodes, meta)
           R == rules \cup admin_rules(meta)
                  \cup acl_rules(dirs, {n.id : n \in dev}, {n.id : n \in srv})
           tags == (UNION {n.tags : n \in nodes})
                     \cup {gateway_tag(n) : n \in gateways(meta)} \cup extra
           X == exit_via_grants(meta, nodes)
           D == ipv4(dev)
           vias(g) == g.via \ DeviceTags(nodes, D)
           grants == {[src |-> g.src, via |-> vias(g)] : g \in {h \in X : vias(h) # {}}}
           visible == {[src |-> {Net({g.src})}, dst |-> {Tagged(t) : t \in g.via},
                        ports |-> VIS_PORT] : g \in grants}
           plain == Acls(R, nodes, ipv4(srv), D)
           rule == [src : SUBSET Entry, dst : SUBSET Entry,
                    ports : Port \cup {"*", VIS_PORT}]
<1>1. srv \in SUBSET nodes /\ dev \in SUBSET nodes
  BY DEF servers, devices
<1>2. R \in SUBSET AnyRule
  <2>1. /\ {n.id : n \in dev} \in SUBSET Node
        /\ {n.id : n \in srv} \in SUBSET Node
    BY <1>1 DEF HsNode
  <2>2. QED
    BY <2>1, RulesTyped
<1>3. plain \subseteq rule
  <2>1. srv \in SUBSET HsNode
    BY <1>1
  <2>2. ipv4(srv) \in SUBSET MeshAddr
    BY <2>1, Ipv4Typed
  <2>3. QED
    BY <1>2, <2>2, AclsTyped
<1>4. grants \subseteq [src : MeshAddr, via : SUBSET Tag]
  BY GrantsTyped
<1>5. ASSUME NEW r \in visible
      PROVE  r \in rule
  <2>1. PICK g \in grants : r = [src |-> {Net({g.src})},
                                 dst |-> {Tagged(t) : t \in g.via},
                                 ports |-> VIS_PORT]
    BY <1>5, Zenon
  <2>2. g.src \in MeshAddr /\ g.via \subseteq Tag
    BY <1>4
  <2>3. {Tagged(t) : t \in g.via} \subseteq Entry
    BY <2>2 DEF Entry
  <2>4. {Net({g.src})} \subseteq Entry
    BY <2>2 DEF Entry, Addr
  <2>5. QED
    BY <2>1, <2>3, <2>4
<1>6. tags \subseteq Tag
  <2>1. gateways(meta) \subseteq Node
    BY DEF gateways
  <2>2. {gateway_tag(n) : n \in gateways(meta)} \subseteq Tag
    BY <2>1 DEF Tag
  <2>3. UNION {n.tags : n \in nodes} \subseteq Tag
    BY DEF HsNode
  <2>4. QED
    BY <2>2, <2>3
<1>7. TagsOf(UNION {a.src \cup a.dst : a \in plain}) \subseteq Tag
  <2>1. UNION {a.src \cup a.dst : a \in plain} \subseteq Entry
    <3> HIDE DEF plain
    <3> QED BY <1>3
  <2>2. \A e \in Entry : e[1] = "tag" => e[2] \in Tag
    BY Shapes DEF Entry
  <2>3. QED
    BY <2>1, <2>2 DEF TagsOf
<1> HIDE DEF srv, dev, R, X, D, tags, plain, grants, visible
<1>8. used_tags(plain, grants, tags) \subseteq Tag
  <2>1. \A a \in plain : TagsOf(a.src \cup a.dst) \subseteq Tag
    BY <1>7 DEF TagsOf
  <2>2. \A g \in grants : g.via \subseteq Tag
    BY <1>4
  <2>3. QED
    BY <1>6, <2>1, <2>2 DEF used_tags
<1>9. [acls |-> plain \cup visible, grants |-> grants,
       owners |-> used_tags(plain, grants, tags)] \in Policy
  BY <1>3, <1>4, <1>5, <1>8 DEF Policy
<1>10. QED
  BY <1>9, Zenon DEF PolicyOf, generate_policy, srv, dev, R, X, D, tags, plain,
                     grants, visible

-----------------------------------------------------------------------------
(* Of the routes of a node a policy sees only whether any are approved.    *)
Kin(n, m) == n.id = m.id /\ n.ip = m.ip /\ n.tags = m.tags
Alike(n, m) == Kin(n, m) /\ (n.approved = {} <=> m.approved = {})
Matches(N, M) == \A n \in N : \E m \in M : Alike(n, m)
Same(N, M) == Matches(N, M) /\ Matches(M, N)
AddrOf(N, i) == ipv4({n \in N : n.id = i})

LEMMA SameStill ==
    /\ \A N : Same(N, N)
    /\ \A N, M : Same(N, M) => Same(M, N)
    /\ \A N, M, L : Same(N, M) /\ Same(M, L) => Same(N, L)
<1>1. \A n : Alike(n, n)
  BY DEF Alike, Kin
<1>2. \A N : Same(N, N)
  BY <1>1 DEF Same, Matches
<1>3. \A n, m, l : Alike(n, m) /\ Alike(m, l) => Alike(n, l)
  BY DEF Alike, Kin
<1>4. \A N, M, L : Matches(N, M) /\ Matches(M, L) => Matches(N, L)
  <2> SUFFICES ASSUME NEW N, NEW M, NEW L, Matches(N, M), Matches(M, L), NEW n \in N
               PROVE  \E l \in L : Alike(n, l)
    BY DEF Matches
  <2>1. PICK m \in M : Alike(n, m)
    BY DEF Matches
  <2>2. PICK l \in L : Alike(m, l)
    BY <2>1 DEF Matches
  <2> QED
    BY <1>3, <2>1, <2>2
<1> QED
  BY <1>2, <1>4 DEF Same

(* What a policy looks at.                                                 *)
LEMMA SameViews ==
    ASSUME NEW N, NEW M, NEW meta, Same(N, M)
    PROVE  /\ \A i : AddrOf(N, i) = AddrOf(M, i)
           /\ Matches(servers(N, meta), servers(M, meta))
           /\ Matches(devices(N, meta), devices(M, meta))
           /\ \A D : DeviceTags(N, D) \subseteq DeviceTags(M, D)
           /\ UNION {n.tags : n \in N} \subseteq UNION {n.tags : n \in M}
           /\ exit_via_grants(meta, N) \subseteq exit_via_grants(meta, M)
<1>1. \A n \in N : \E m \in M : Alike(n, m)
  BY DEF Same, Matches
<1>2. \A m \in M : \E n \in N : Alike(m, n)
  BY DEF Same, Matches
<1>3. \A i : AddrOf(N, i) = AddrOf(M, i)
  BY <1>1, <1>2 DEF AddrOf, ipv4, Alike, Kin
<1>4. \A n, m : Alike(n, m) => effective_kind(n, meta) = effective_kind(m, meta)
  BY DEF Alike, Kin, effective_kind, guess_kind
<1>5. Matches(servers(N, meta), servers(M, meta))
  BY <1>1, <1>4 DEF Matches, servers
<1>6. Matches(devices(N, meta), devices(M, meta))
  BY <1>1, <1>4 DEF Matches, servers, devices
<1>7. \A D : DeviceTags(N, D) \subseteq DeviceTags(M, D)
  BY <1>1 DEF DeviceTags, Alike, Kin
<1>8. UNION {n.tags : n \in N} \subseteq UNION {n.tags : n \in M}
  BY <1>1 DEF Alike, Kin
<1>9. exit_via_grants(meta, N) \subseteq exit_via_grants(meta, M)
  <2> DEFINE grant(n) == [src |-> n.ip,
                          via |-> {gateway_tag(g) : g \in meta[n.id].via \cap gateways(meta)}]
             asks(n) == n.ip # NoAddr /\ meta[n.id].via \cap gateways(meta) # {}
  <2>1. \A n, m : Alike(n, m) => grant(n) = grant(m) /\ (asks(n) <=> asks(m))
    BY DEF Alike, Kin
  <2>2. \A L : exit_via_grants(meta, L) = {grant(n) : n \in {m \in L : asks(m)}}
    BY DEF exit_via_grants
  <2> HIDE DEF grant, asks
  <2> QED
    BY <1>1, <2>1, <2>2
<1> QED
  BY <1>3, <1>5, <1>6, <1>7, <1>8, <1>9

LEMMA PolicySeesKinds ==
    ASSUME NEW N, NEW M, NEW rules, NEW dirs, NEW meta, NEW extra, Same(N, M)
    PROVE  PolicyOf(rules, dirs, meta, N, extra) = PolicyOf(rules, dirs, meta, M, extra)
<1> DEFINE ids(S) == {n.id : n \in S}
<1>1. Same(M, N)
  BY SameStill
<1>2. \A A, B : Matches(A, B) /\ Matches(B, A) => ids(A) = ids(B) /\ ipv4(A) = ipv4(B)
  BY DEF Matches, Alike, Kin, ipv4
<1>3. /\ ids(servers(N, meta)) = ids(servers(M, meta))
      /\ ids(devices(N, meta)) = ids(devices(M, meta))
      /\ ipv4(servers(N, meta)) = ipv4(servers(M, meta))
      /\ ipv4(devices(N, meta)) = ipv4(devices(M, meta))
  <2>1. /\ Matches(servers(N, meta), servers(M, meta))
        /\ Matches(servers(M, meta), servers(N, meta))
        /\ Matches(devices(N, meta), devices(M, meta))
        /\ Matches(devices(M, meta), devices(N, meta))
    BY <1>1, SameViews
  <2> HIDE DEF ids
  <2> QED
    BY <1>2, <2>1
<1>4. \A D : DeviceTags(N, D) = DeviceTags(M, D)
  BY <1>1, SameViews
<1>5. /\ UNION {n.tags : n \in N} = UNION {n.tags : n \in M}
      /\ exit_via_grants(meta, N) = exit_via_grants(meta, M)
  <2>1. /\ UNION {n.tags : n \in N} \subseteq UNION {n.tags : n \in M}
        /\ exit_via_grants(meta, N) \subseteq exit_via_grants(meta, M)
    BY SameViews
  <2>2. /\ UNION {n.tags : n \in M} \subseteq UNION {n.tags : n \in N}
        /\ exit_via_grants(meta, M) \subseteq exit_via_grants(meta, N)
    BY <1>1, SameViews
  <2> QED
    BY <2>1, <2>2
<1>6. \A sel, S : resolve(sel, N, S) = resolve(sel, M, S)
  <2> SUFFICES ASSUME NEW sel, NEW S
               PROVE  resolve(sel, N, S) = resolve(sel, M, S)
    OBVIOUS
  <2> DEFINE A == AddrOf(N, sel[2])
             B == AddrOf(M, sel[2])
  <2>1. A = B
    BY SameViews
  <2>2. resolve(sel, N, S) = CASE sel[1] = "any"      -> {Star}
                               [] sel[1] = "tag"      -> {Tagged(sel[2])}
                               [] sel[1] = "servers"  -> {Net({a}) : a \in S}
                               [] sel[1] = "internet" -> {Internet}
                               [] sel[1] = "cidr"     -> {Net(sel[2])}
                               [] sel[1] = "node"     -> {Net({a}) : a \in A}
                               [] OTHER               -> {}
    BY DEF resolve, AddrOf
  <2>3. resolve(sel, M, S) = CASE sel[1] = "any"      -> {Star}
                               [] sel[1] = "tag"      -> {Tagged(sel[2])}
                               [] sel[1] = "servers"  -> {Net({a}) : a \in S}
                               [] sel[1] = "internet" -> {Internet}
                               [] sel[1] = "cidr"     -> {Net(sel[2])}
                               [] sel[1] = "node"     -> {Net({a}) : a \in B}
                               [] OTHER               -> {}
    BY DEF resolve, AddrOf
  <2> HIDE DEF A, B
  <2> QED
    BY <2>1, <2>2, <2>3, Zenon
<1>7. \A dst, S, D : Destinations(dst, N, S, D) = Destinations(dst, M, S, D)
  <2> SUFFICES ASSUME NEW dst, NEW S, NEW D
               PROVE  Destinations(dst, N, S, D) = Destinations(dst, M, S, D)
    OBVIOUS
  <2>1. \A d : Permitted(d, N, D) <=> Permitted(d, M, D)
    BY <1>4 DEF Permitted
  <2>2. {d \in resolve(dst, N, S) : Permitted(d, N, D)}
            = {d \in resolve(dst, M, S) : Permitted(d, M, D)}
    BY <1>6, <2>1
  <2> QED
    BY <2>2, Zenon DEF Destinations
<1>8. \A R, S, D : Acls(R, N, S, D) = Acls(R, M, S, D)
  <2> SUFFICES ASSUME NEW R, NEW S, NEW D
               PROVE  Acls(R, N, S, D) = Acls(R, M, S, D)
    OBVIOUS
  <2> DEFINE src(q) == resolve(q.src, N, S)
             dst(q) == Destinations(q.dst, N, S, D)
             src2(q) == resolve(q.src, M, S)
             dst2(q) == Destinations(q.dst, M, S, D)
             out(q, x, y) == [src |-> x, dst |-> y, ports |-> q.ports]
             ok(q, x, y) == /\ ~(q.src[1] = "node" /\ q.dst[1] = "node" /\ x = y)
                            /\ x # {} /\ y # {}
  <2>1. \A q : src(q) = src2(q) /\ dst(q) = dst2(q)
    BY <1>6, <1>7
  <2>2. Acls(R, N, S, D) = {out(q, src(q), dst(q)) : q \in {p \in R : ok(p, src(p), dst(p))}}
    BY DEF Acls
  <2>3. Acls(R, M, S, D) = {out(q, src2(q), dst2(q)) : q \in {p \in R : ok(p, src2(p), dst2(p))}}
    BY DEF Acls
  <2> HIDE DEF src, dst, src2, dst2, out, ok
  <2> QED
    BY <2>1, <2>2, <2>3
<1>9. \A R, S, D, X, G : generate_policy(R, N, S, D, X, G) = generate_policy(R, M, S, D, X, G)
  <2> SUFFICES ASSUME NEW R, NEW S, NEW D, NEW X, NEW G
               PROVE  generate_policy(R, N, S, D, X, G) = generate_policy(R, M, S, D, X, G)
    OBVIOUS
  <2>1. DeviceTags(N, D) = DeviceTags(M, D) /\ Acls(R, N, S, D) = Acls(R, M, S, D)
    BY <1>4, <1>8
  <2> QED
    BY <2>1, Zenon DEF generate_policy
<1> QED
  <2> DEFINE R(dev, srv) == rules \cup admin_rules(meta) \cup acl_rules(dirs, dev, srv)
             X(T) == T \cup {gateway_tag(n) : n \in gateways(meta)} \cup extra
             tags(L) == UNION {n.tags : n \in L}
             P(L, dev, srv, S, D, T, G) == generate_policy(R(dev, srv), L, S, D, X(T), G)
  <2>1. \A L : PolicyOf(rules, dirs, meta, L, extra) =
                   P(L, ids(devices(L, meta)), ids(servers(L, meta)),
                     ipv4(servers(L, meta)), ipv4(devices(L, meta)),
                     tags(L), exit_via_grants(meta, L))
    BY Zenon DEF PolicyOf
  <2>2. \A dev, srv, S, D, T, G : P(N, dev, srv, S, D, T, G) = P(M, dev, srv, S, D, T, G)
    BY <1>9
  <2>3. tags(N) = tags(M)
    BY <1>5
  <2> HIDE DEF P, ids, tags
  <2> QED
    BY <1>3, <1>5, <2>1, <2>2, <2>3
=============================================================================
