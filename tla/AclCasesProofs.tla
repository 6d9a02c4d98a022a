--------------------------- MODULE AclCasesProofs ---------------------------
(***************************************************************************)
(* The promises of the policy generator, for every fleet, every note about *)
(* it, any set of rules and any set of directions.                         *)
(***************************************************************************)
EXTENDS AclCases, AclGenProofs

Sane ==
    /\ nodes \in SUBSET HsNode /\ DistinctAddrs(nodes)
    /\ meta \in [Node -> MetaEntry]
    /\ rules \in SUBSET Rule /\ dirs \in SUBSET Direction

LEMMA SaneHolds == Spec => []Sane
<1>1. Init => Sane
  BY CasesAssumption DEF Init, Sane
<1>2. Sane /\ [Next]_vars => Sane'
  <2> SUFFICES ASSUME Sane, [Next]_vars PROVE Sane'
    OBVIOUS
  <2>1. CASE Next
    BY <2>1, CasesAssumption DEF Next, Store, Sane, DistinctAddrs
  <2>2. CASE UNCHANGED vars
    BY <2>2 DEF vars, Sane, DistinctAddrs
  <2> QED
    BY <2>1, <2>2
<1> QED
  BY <1>1, <1>2, PTL DEF Spec

-----------------------------------------------------------------------------
(* Isolation and declared tags are facts about every policy.               *)

(* aclgen.generate_policy: no accept rule of a generated policy reaches a  *)
(* personal device, whatever is stored.                                    *)
THEOREM IsolationHolds == Spec => []Isolation
<1>1. Sane => Isolation
  BY PolicyIsolatesDevices DEF Sane, Isolation, Pol
<1> QED
  BY <1>1, SaneHolds, PTL

(* aclgen.generate_policy, used_tags: every tag of a generated policy is   *)
(* declared in it, whatever is stored.                                     *)
THEOREM TagsDeclaredHolds == Spec => []TagsDeclared
<1>1. TagsDeclared
  BY PolicyDeclaresItsTags DEF TagsDeclared, Pol
<1> QED
  BY <1>1, PTL

-----------------------------------------------------------------------------
(* What one rule comes to.                                                 *)

Srv == ipv4(servers(nodes, meta))

OfNode(n) == ipv4({m \in nodes : m.id = n})

LEMMA Addresses ==
    ASSUME Sane
    PROVE  /\ Srv \subseteq MeshAddr /\ DevAddrs \subseteq MeshAddr
           /\ Srv \cap DevAddrs = {}
           /\ \A n : OfNode(n) \subseteq MeshAddr
           /\ \A n : \A x, y \in OfNode(n) : x = y
           /\ \A m, n : OfNode(m) \cap OfNode(n) # {} => m = n
<1>1. Srv \subseteq MeshAddr /\ DevAddrs \subseteq MeshAddr
  BY DEF Sane, Srv, DevAddrs, ipv4, servers, devices, HsNode
<1>2. Srv \cap DevAddrs = {}
  BY ServersAreNotDevices DEF Sane, Srv, DevAddrs
<1>3. \A n : OfNode(n) \subseteq MeshAddr
  BY DEF Sane, OfNode, ipv4, HsNode
<1>4. \A n : \A x, y \in OfNode(n) : x = y
  BY DEF Sane, OfNode, ipv4, DistinctAddrs
<1>5. \A m, n : OfNode(m) \cap OfNode(n) # {} => m = n
  BY DEF Sane, OfNode, ipv4, DistinctAddrs
<1> QED
  BY <1>1, <1>2, <1>3, <1>4, <1>5

LEMMA Covered ==
    ASSUME NEW sel
    PROVE  /\ sel[1] = "any" => covered(sel) = Addr
           /\ sel[1] = "servers" => covered(sel) = Srv
           /\ sel[1] = "internet" => covered(sel) = WebAddr
           /\ sel[1] = "none" => covered(sel) = {}
           /\ sel[1] = "tag" => covered(sel) = ipv4({n \in nodes : sel[2] \in n.tags})
           /\ sel[1] = "cidr" => covered(sel) = sel[2]
           /\ sel[1] = "node" => covered(sel) = OfNode(sel[2])
<1> DEFINE R == resolve(sel, nodes, Srv)
<1>1. covered(sel) = UNION {Reach(e, nodes) : e \in R}
  BY DEF covered, Srv
<1>2. \A S : Reach(Net(S), nodes) = S
  BY Shapes DEF Reach
<1>3. \A A : UNION {Reach(e, nodes) : e \in {Net({a}) : a \in A}} = A
  <2> SUFFICES ASSUME NEW A
               PROVE  UNION {Reach(e, nodes) : e \in {Net({a}) : a \in A}} = A
    OBVIOUS
  <2>1. ASSUME NEW x \in A
        PROVE  x \in UNION {Reach(e, nodes) : e \in {Net({a}) : a \in A}}
    <3>1. x \in Reach(Net({x}), nodes)
      BY <1>2
    <3> QED
      BY <3>1
  <2>2. ASSUME NEW x \in UNION {Reach(e, nodes) : e \in {Net({a}) : a \in A}}
        PROVE  x \in A
    <3>1. PICK a \in A : x \in Reach(Net({a}), nodes)
      OBVIOUS
    <3> QED
      BY <3>1, <1>2
  <2> QED
    BY <2>1, <2>2
<1>4. CASE sel[1] = "any"
  <2>1. R = {Star} /\ Reach(Star, nodes) = Addr
    BY <1>4, Shapes DEF resolve, Reach
  <2> QED
    BY <1>1, <1>4, <2>1
<1>5. CASE sel[1] = "servers"
  <2>1. R = {Net({a}) : a \in Srv}
    BY <1>5 DEF resolve
  <2> QED
    BY <1>1, <1>3, <1>5, <2>1
<1>6. CASE sel[1] = "internet"
  <2>1. R = {Internet} /\ Reach(Internet, nodes) = WebAddr
    BY <1>6, Shapes DEF resolve, Reach
  <2> QED
    BY <1>1, <1>6, <2>1
<1>7. CASE sel[1] = "none"
  <2>1. R = {}
    BY <1>7 DEF resolve
  <2> QED
    BY <1>1, <1>7, <2>1
<1>8. CASE sel[1] = "tag"
  <2>1. /\ R = {Tagged(sel[2])}
        /\ Reach(Tagged(sel[2]), nodes) = ipv4({n \in nodes : sel[2] \in n.tags})
    BY <1>8, Shapes DEF resolve, Reach
  <2>2. covered(sel) = Reach(Tagged(sel[2]), nodes)
    BY <1>1, <2>1
  <2> QED
    BY <1>8, <2>1, <2>2
<1>9. CASE sel[1] = "cidr"
  <2>1. R = {Net(sel[2])}
    BY <1>9 DEF resolve
  <2> QED
    BY <1>1, <1>2, <1>9, <2>1
<1>10. CASE sel[1] = "node"
  <2>1. R = {Net({a}) : a \in OfNode(sel[2])}
    BY <1>10 DEF resolve, OfNode
  <2> QED
    BY <1>1, <1>3, <1>10, <2>1
<1> QED
  BY <1>4, <1>5, <1>6, <1>7, <1>8, <1>9, <1>10

(* What is left of the destinations of a rule, said of what they reach.    *)
LEMMA Left ==
    ASSUME Sane, NEW dst \in Selector, NEW b \in Addr
    PROVE  (\E d \in Destinations(dst, nodes, Srv, DevAddrs) : b \in Reach(d, nodes))
           <=> /\ b \in target(dst)
               /\ target(dst) \cap DevAddrs = {} \/ dst[1] \in {"any", "internet"}
               /\ ~ wide(dst)
<1> DEFINE R == resolve(dst, nodes, Srv)
           D == Destinations(dst, nodes, Srv, DevAddrs)
           kept == {d \in R : Permitted(d, nodes, DevAddrs)}
           T == target(dst)
<1>1. \A S : Reach(Net(S), nodes) = S
  BY Shapes DEF Reach
<1>2. \A S : Permitted(Net(S), nodes, DevAddrs) <=> ~ covers_mesh(S, DevAddrs)
  BY Shapes DEF Permitted
<1>3. /\ Star \in kept => D = (kept \ {Star}) \cup {Net({a}) : a \in Srv}
      /\ Star \notin kept => D = kept
  BY DEF Destinations
<1>4. \A x \in Addr : covers_mesh({x}, DevAddrs) <=> x \in DevAddrs
  BY DEF covers_mesh, Lone
<1>5. \A S : Net(S) # Star /\ Net(S) # Internet
  BY DEF Net, Star, Internet
<1>6. /\ Srv \subseteq Addr /\ DevAddrs \subseteq MeshAddr
      /\ Srv \cap DevAddrs = {} /\ DevAddrs \cap WebAddr = {}
  BY Addresses, AddrAssumption DEF Addr
<1>7. dst[1] # "cidr" => ~ wide(dst)
  BY DEF wide
<1>8. dst[1] # "any" => T = covered(dst)
  BY DEF target
<1>9. ASSUME NEW A
       PROVE  (\E d \in {Net({a}) : a \in A} : b \in Reach(d, nodes)) <=> b \in A
  <2>1. ASSUME NEW d \in {Net({a}) : a \in A}, b \in Reach(d, nodes) PROVE b \in A
    <3>1. PICK a \in A : d = Net({a})
      OBVIOUS
    <3> QED
      BY <1>1, <2>1, <3>1
  <2>2. b \in Reach(Net({b}), nodes)
    BY <1>1
  <2> QED
    BY <2>1, <2>2
<1>10. CASE dst[1] = "any"
  <2>1. T = Srv /\ ~ wide(dst)
    BY <1>7, <1>10 DEF target, Srv
  <2>2. kept = {Star}
    BY <1>10, Shapes DEF resolve, Permitted
  <2>3. D = {Net({a}) : a \in Srv}
    BY <1>3, <2>2
  <2>4. (\E d \in D : b \in Reach(d, nodes)) <=> b \in Srv
    BY <1>9, <2>3
  <2> QED
    BY <1>10, <2>1, <2>4
<1>11. CASE dst[1] = "servers"
  <2>1. T = Srv /\ ~ wide(dst)
    BY <1>7, <1>8, <1>11, Covered
  <2>2. R = {Net({a}) : a \in Srv}
    BY <1>11 DEF resolve
  <2>3. D = {Net({a}) : a \in Srv}
    BY <1>2, <1>3, <1>4, <1>5, <1>6, <2>2
  <2>4. (\E d \in D : b \in Reach(d, nodes)) <=> b \in Srv
    BY <1>9, <2>3
  <2> QED
    BY <1>6, <2>1, <2>4
<1>12. CASE dst[1] = "internet"
  <2>1. T = WebAddr /\ ~ wide(dst)
    BY <1>7, <1>8, <1>12, Covered
  <2>2. kept = {Internet} /\ Star # Internet
    BY <1>12, Shapes DEF resolve, Permitted
  <2>3. D = {Internet} /\ Reach(Internet, nodes) = WebAddr
    BY <1>3, <2>2, Shapes DEF Reach
  <2> QED
    BY <1>12, <2>1, <2>3
<1>13. CASE dst[1] = "none"
  <2>1. T = {} /\ R = {}
    BY <1>8, <1>13, Covered DEF resolve
  <2> QED
    BY <1>3, <2>1
<1>14. CASE dst[1] = "tag"
  <2> DEFINE t == dst[2]
  <2>1. T = ipv4({n \in nodes : t \in n.tags}) /\ ~ wide(dst)
    BY <1>7, <1>8, <1>14, Covered
  <2>2. R = {Tagged(t)} /\ Star # Tagged(t)
    BY <1>14, Shapes DEF resolve
  <2>3. Permitted(Tagged(t), nodes, DevAddrs) <=> t \notin DeviceTags(nodes, DevAddrs)
    BY Shapes DEF Permitted
  <2>4. t \notin DeviceTags(nodes, DevAddrs) <=> T \cap DevAddrs = {}
    <3>1. NoAddr \notin DevAddrs
      BY DEF DevAddrs, ipv4
    <3>2. T = {n.ip : n \in {m \in nodes : t \in m.tags}} \ {NoAddr}
      BY <2>1 DEF ipv4
    <3>3. t \in DeviceTags(nodes, DevAddrs)
          <=> \E n \in nodes : n.ip \in DevAddrs /\ t \in n.tags
      BY DEF DeviceTags
    <3> QED
      BY <3>1, <3>2, <3>3
  <2>5. Reach(Tagged(t), nodes) = T
    BY <2>1, Shapes DEF Reach
  <2>6. D = IF t \notin DeviceTags(nodes, DevAddrs) THEN {Tagged(t)} ELSE {}
    BY <1>3, <2>2, <2>3
  <2> QED
    BY <1>14, <2>1, <2>4, <2>5, <2>6
<1>15. CASE dst[1] = "cidr"
  <2> DEFINE S == dst[2]
  <2>1. T = S /\ S \subseteq Addr
    BY <1>8, <1>15, Covered, SelectorShapes DEF Addr
  <2>2. R = {Net(S)}
    BY <1>15 DEF resolve
  <2>3. S # {} => (Lone(S) <=> ~ \E x, y \in S : x # y)
    BY DEF Lone
  <2>4. b \in S => (covers_mesh(S, DevAddrs) <=> S \cap DevAddrs # {} \/ wide(dst))
    BY <1>15, <2>3 DEF covers_mesh, wide
  <2>5. D = IF covers_mesh(S, DevAddrs) THEN {} ELSE {Net(S)}
    BY <1>2, <1>3, <1>5, <2>2
  <2> QED
    BY <1>1, <1>15, <2>1, <2>4, <2>5
<1>16. CASE dst[1] = "node"
  <2> DEFINE A == OfNode(dst[2])
  <2>1. T = A /\ ~ wide(dst)
    BY <1>7, <1>8, <1>16, Covered
  <2>2. R = {Net({a}) : a \in A} /\ A \subseteq Addr
    BY <1>16, Addresses DEF resolve, OfNode, Addr
  <2>3. D = {Net({a}) : a \in A \ DevAddrs}
    BY <1>2, <1>3, <1>4, <1>5, <2>2
  <2>4. \A x, y \in A : x = y
    BY Addresses
  <2>5. (\E d \in D : b \in Reach(d, nodes)) <=> b \in A \ DevAddrs
    BY <1>9, <2>3
  <2> QED
    BY <1>16, <2>1, <2>4, <2>5
<1>17. dst[1] \in {"any", "servers", "internet", "none", "tag", "cidr", "node"}
  BY SelectorShapes
<1> QED
  BY <1>10, <1>11, <1>12, <1>13, <1>14, <1>15, <1>16, <1>17

AnyPort == Port \cup {"*", VIS_PORT}

ARule == [src : Selector, dst : Selector, ports : AnyPort]

(* What the generator makes of one rule.                                   *)
Opens(r, a, b) ==
    /\ ~ /\ r.src[1] = "node" /\ r.dst[1] = "node"
         /\ resolve(r.src, nodes, Srv) = Destinations(r.dst, nodes, Srv, DevAddrs)
    /\ \E s \in resolve(r.src, nodes, Srv) : a \in Reach(s, nodes)
    /\ \E d \in Destinations(r.dst, nodes, Srv, DevAddrs) : b \in Reach(d, nodes)

LEMMA OpensMeans ==
    ASSUME Sane, NEW r \in ARule, NEW a \in Addr, NEW b \in Addr
    PROVE  Opens(r, a, b) <=> Means(r, a, b)
<1> DEFINE R == resolve(r.src, nodes, Srv)
           D == Destinations(r.dst, nodes, Srv, DevAddrs)
<1>1. r.src \in Selector /\ r.dst \in Selector
  BY DEF ARule
<1>2. (\E s \in R : a \in Reach(s, nodes)) <=> a \in covered(r.src)
  BY DEF covered, Srv
<1>3. (\E d \in D : b \in Reach(d, nodes))
      <=> /\ b \in target(r.dst)
          /\ target(r.dst) \cap DevAddrs = {} \/ r.dst[1] \in {"any", "internet"}
          /\ ~ wide(r.dst)
  BY <1>1, Left
<1>4. ASSUME r.src[1] = "node", r.dst[1] = "node", a \in covered(r.src),
             \E d \in D : b \in Reach(d, nodes)
      PROVE  R = D <=> r.src = r.dst
  <2> DEFINE m == r.src[2]
             n == r.dst[2]
  <2>1. r.src = <<"node", m>> /\ r.dst = <<"node", n>>
    BY <1>1, <1>4 DEF Selector
  <2>2. R = {Net({x}) : x \in OfNode(m)} /\ target(r.dst) = OfNode(n)
    BY <1>4, Covered DEF resolve, OfNode, target
  <2>3. OfNode(n) \cap DevAddrs = {}
    BY <1>3, <1>4, <2>2
  <2>4. D = {Net({x}) : x \in OfNode(n)}
    <3> DEFINE Q == resolve(r.dst, nodes, Srv)
    <3>0. OfNode(n) \subseteq Addr
      BY Addresses DEF Addr
    <3>1. Q = {Net({x}) : x \in OfNode(n)}
      BY <1>4 DEF resolve, OfNode
    <3>2. \A x \in OfNode(n) : Permitted(Net({x}), nodes, DevAddrs)
      BY <2>3, <3>0, Shapes DEF Permitted, covers_mesh, Lone
    <3>3. \A x : Net({x}) # Star
      BY DEF Net, Star
    <3>4. {d \in Q : Permitted(d, nodes, DevAddrs)} = Q /\ Star \notin Q
      BY <3>1, <3>2, <3>3
    <3> QED
      BY <3>1, <3>4 DEF Destinations
  <2>5. a \in OfNode(m)
    BY <1>4, Covered
  <2>6. ASSUME R = D PROVE m = n
    <3>1. Net({a}) \in {Net({x}) : x \in OfNode(n)}
      BY <2>2, <2>4, <2>5, <2>6
    <3>2. PICK x \in OfNode(n) : Net({a}) = Net({x})
      BY <3>1
    <3>3. a = x
      BY <3>2, Shapes
    <3> QED
      BY <2>5, <3>3, Addresses
  <2> QED
    BY <2>1, <2>2, <2>4, <2>6
<1> QED
  BY <1>2, <1>3, <1>4 DEF Opens, Means

-----------------------------------------------------------------------------
(* What the rules of the admin notes and of the directions come to.        *)

AllRules ==
    rules \cup admin_rules(meta)
          \cup acl_rules(dirs, {n.id : n \in devices(nodes, meta)},
                               {n.id : n \in servers(nodes, meta)})

LEMMA AllRulesTyped == ASSUME Sane PROVE AllRules \subseteq ARule
<1>1. /\ {n.id : n \in devices(nodes, meta)} \in SUBSET Node
      /\ {n.id : n \in servers(nodes, meta)} \in SUBSET Node
  BY DEF Sane, HsNode, devices, servers
<1>2. AllRules \in SUBSET AnyRule
  BY <1>1, RulesTyped DEF Sane, AllRules
<1> QED
  BY <1>2 DEF AnyRule, ARule, AnyPort

LEMMA AdminOpens ==
    ASSUME Sane, NEW a \in Addr, NEW b \in Addr
    PROVE  (\E r \in admin_rules(meta) : Means(r, a, b)) <=> AdminMeans(a, b)
<1> DEFINE rule(n) == [src |-> <<"node", n>>, dst |-> <<"servers">>, ports |-> "*"]
<1>1. ASSUME NEW n \in Node
      PROVE  Means(rule(n), a, b) <=> a \in OfNode(n) /\ b \in Srv
  <2>1. covered(<<"node", n>>) = OfNode(n) /\ covered(<<"servers">>) = Srv
    <3>1. /\ <<"node", n>>[1] = "node" /\ <<"node", n>>[2] = n
          /\ <<"servers">>[1] = "servers"
      OBVIOUS
    <3>2. covered(<<"node", n>>) = OfNode(<<"node", n>>[2])
      BY <3>1, Covered
    <3>3. covered(<<"servers">>) = Srv
      BY <3>1, Covered
    <3> QED
      BY <3>1, <3>2, <3>3
  <2>2. target(<<"servers">>) = Srv /\ ~ wide(<<"servers">>)
    BY <2>1 DEF target, wide
  <2>3. Srv \cap DevAddrs = {} /\ <<"node", n>> # <<"servers">>
    BY Addresses
  <2>4. rule(n).src = <<"node", n>> /\ rule(n).dst = <<"servers">>
    OBVIOUS
  <2> HIDE DEF rule
  <2> QED
    BY <2>1, <2>2, <2>3, <2>4 DEF Means
<1>2. \A r : r \in admin_rules(meta) <=> \E n \in Node : meta[n].admin /\ r = rule(n)
  BY DEF admin_rules
<1>3. \A n : a \in OfNode(n) <=> \E m \in nodes : m.id = n /\ m.ip = a /\ a # NoAddr
  BY DEF OfNode, ipv4
<1>4. \A m \in nodes : m.id \in Node
  BY DEF Sane, HsNode
<1> HIDE DEF rule
<1>5. (\E r \in admin_rules(meta) : Means(r, a, b))
      <=> \E n \in Node : meta[n].admin /\ a \in OfNode(n) /\ b \in Srv
  BY <1>1, <1>2
<1> QED
  BY <1>3, <1>4, <1>5 DEF AdminMeans, Srv

LEMMA DirectionOpens ==
    ASSUME Sane, NEW p, NEW a \in Addr, NEW b \in Addr
    PROVE  (\E r \in acl_rules(dirs, {n.id : n \in devices(nodes, meta)},
                                     {n.id : n \in servers(nodes, meta)}) :
               r.ports = p /\ Means(r, a, b))
           <=> \E d \in dirs : d.ports = p /\ DirectionMeans(d, a, b)
<1> DEFINE dev == {n.id : n \in devices(nodes, meta)}
           srv == {n.id : n \in servers(nodes, meta)}
           rule(s, S, q) == [src |-> <<"node", s>>, dst |-> <<"cidr", S>>, ports |-> q]
           from(d) == CASE d.src_kind = "devices" -> devices(nodes, meta)
                        [] d.src_kind = "servers" -> servers(nodes, meta)
                        [] OTHER -> {n \in nodes : n.id \in d.src}
<1>1. ASSUME NEW d \in dirs, NEW S \in dst_ips(d), NEW s
      PROVE  Means(rule(s, S, d.ports), a, b) <=> a \in OfNode(s) /\ b \in S
  <2>1. S \subseteq WebAddr /\ S \cap MeshAddr = {}
    BY DEF Sane, Direction, dst_ips, touches_mesh, Addr
  <2>2. covered(<<"node", s>>) = OfNode(s) /\ covered(<<"cidr", S>>) = S
    <3>1. /\ <<"node", s>>[1] = "node" /\ <<"node", s>>[2] = s
          /\ <<"cidr", S>>[1] = "cidr" /\ <<"cidr", S>>[2] = S
      OBVIOUS
    <3>2. covered(<<"node", s>>) = OfNode(<<"node", s>>[2])
      BY <3>1, Covered
    <3>3. covered(<<"cidr", S>>) = <<"cidr", S>>[2]
      BY <3>1, Covered
    <3> QED
      BY <3>1, <3>2, <3>3
  <2>3. target(<<"cidr", S>>) = S /\ ~ wide(<<"cidr", S>>)
    BY <2>1, <2>2 DEF target, wide
  <2>4. S \cap DevAddrs = {} /\ <<"node", s>> # <<"cidr", S>>
    BY <2>1, Addresses
  <2>5. rule(s, S, d.ports).src = <<"node", s>> /\ rule(s, S, d.ports).dst = <<"cidr", S>>
    OBVIOUS
  <2> HIDE DEF rule
  <2> QED
    BY <2>2, <2>3, <2>4, <2>5 DEF Means
<1>2. \A r : r \in acl_rules(dirs, dev, srv)
             <=> \E d \in dirs : \E s \in sources(d, dev, srv), S \in dst_ips(d) :
                    r = rule(s, S, d.ports)
  <2> DEFINE src(d) == sources(d, dev, srv)
             some(d) == {rule(s, S, d.ports) : s \in src(d), S \in dst_ips(d)}
  <2>1. acl_rules(dirs, dev, srv) = UNION {some(d) : d \in dirs}
    BY DEF acl_rules
  <2> HIDE DEF src, dev, srv
  <2>2. \A d, r : r \in some(d) <=> \E s \in src(d), S \in dst_ips(d) :
                                      r = rule(s, S, d.ports)
    <3> HIDE DEF rule
    <3> QED
      OBVIOUS
  <2> HIDE DEF some, rule
  <2>3. \A r : r \in UNION {some(d) : d \in dirs} <=> \E d \in dirs : r \in some(d)
    OBVIOUS
  <2> QED
    BY <2>1, <2>2, <2>3 DEF src
<1>3. ASSUME NEW d \in dirs
      PROVE  (\E s \in sources(d, dev, srv) : a \in OfNode(s))
             <=> \E n \in from(d) : n.ip = a /\ n.id # d.via /\ n.ip # NoAddr
  <2>1. \A s : a \in OfNode(s) <=> \E m \in nodes : m.id = s /\ m.ip = a /\ a # NoAddr
    BY DEF OfNode, ipv4
  <2>2. \A m, n \in nodes : m.id = n.id => m = n
    BY DEF Sane, DistinctAddrs
  <2>3. devices(nodes, meta) \subseteq nodes /\ servers(nodes, meta) \subseteq nodes
    BY DEF devices, servers
  <2>4. CASE d.src_kind = "devices"
    BY <2>1, <2>2, <2>3, <2>4 DEF sources
  <2>5. CASE d.src_kind = "servers"
    BY <2>1, <2>2, <2>3, <2>5 DEF sources
  <2>6. CASE d.src_kind \notin {"devices", "servers"}
    BY <2>1, <2>2, <2>6 DEF sources
  <2> QED
    BY <2>4, <2>5, <2>6
<1>4. ASSUME NEW d \in dirs
      PROVE  (\E S \in dst_ips(d) : b \in S)
             <=> \E S \in d.ips : b \in S /\ S \notin BadNet /\ S \subseteq WebAddr
  <2>1. \A S \in d.ips : S \cap MeshAddr = {} <=> S \subseteq WebAddr
    <3>1. \A S \in d.ips : S \subseteq Addr
      BY DEF Sane, Direction
    <3> QED
      BY <3>1, AddrAssumption DEF Addr
  <2> QED
    BY <2>1 DEF dst_ips, touches_mesh
<1>5. \A s, S, q : rule(s, S, q).ports = q
  OBVIOUS
<1> HIDE DEF rule
<1>6. \A d \in dirs :
         (\E s \in sources(d, dev, srv), S \in dst_ips(d) :
             Means(rule(s, S, d.ports), a, b))
         <=> DirectionMeans(d, a, b)
  <2> SUFFICES ASSUME NEW d \in dirs
               PROVE  (\E s \in sources(d, dev, srv), S \in dst_ips(d) :
                          Means(rule(s, S, d.ports), a, b))
                      <=> DirectionMeans(d, a, b)
    OBVIOUS
  <2>1. (\E s \in sources(d, dev, srv), S \in dst_ips(d) :
            Means(rule(s, S, d.ports), a, b))
        <=> /\ \E s \in sources(d, dev, srv) : a \in OfNode(s)
            /\ \E S \in dst_ips(d) : b \in S
    BY <1>1
  <2> QED
    BY <1>3, <1>4, <2>1 DEF DirectionMeans
<1> HIDE DEF dev, srv
<1>7. \A d \in dirs :
         (\E s \in sources(d, dev, srv), S \in dst_ips(d) :
             rule(s, S, d.ports).ports = p /\ Means(rule(s, S, d.ports), a, b))
         <=> d.ports = p /\ DirectionMeans(d, a, b)
  BY <1>5, <1>6
<1>8. (\E r \in acl_rules(dirs, dev, srv) : r.ports = p /\ Means(r, a, b))
      <=> \E d \in dirs : \E s \in sources(d, dev, srv), S \in dst_ips(d) :
             rule(s, S, d.ports).ports = p /\ Means(rule(s, S, d.ports), a, b)
  BY <1>2
<1> QED
  BY <1>7, <1>8 DEF dev, srv

-----------------------------------------------------------------------------
(* The whole policy.                                                       *)

LEMMA PolOf ==
    /\ Pol = generate_policy(AllRules, nodes, Srv, DevAddrs,
                 (UNION {n.tags : n \in nodes})
                     \cup {gateway_tag(n) : n \in gateways(meta)} \cup {},
                 exit_via_grants(meta, nodes))
BY DEF Pol, PolicyOf, AllRules, Srv, DevAddrs

Vias(g) == g.via \ DeviceTags(nodes, DevAddrs)

Visible(g) == [src |-> {Net({g.src})}, dst |-> {Tagged(t) : t \in g.via},
               ports |-> VIS_PORT]

LEMMA PolParts ==
    /\ Pol.grants = {[src |-> g.src, via |-> Vias(g)] :
                        g \in {h \in exit_via_grants(meta, nodes) : Vias(h) # {}}}
    /\ Pol.acls = Acls(AllRules, nodes, Srv, DevAddrs)
                      \cup {Visible(g) : g \in Pol.grants}
BY PolOf, Zenon DEF generate_policy, Vias, Visible

LEMMA PlainOpens ==
    ASSUME NEW R, NEW a, NEW b, NEW p
    PROVE  (\E r \in Acls(R, nodes, Srv, DevAddrs) :
               /\ r.ports = p
               /\ \E s \in r.src : a \in Reach(s, nodes)
               /\ \E d \in r.dst : b \in Reach(d, nodes))
           <=> \E r \in R : r.ports = p /\ Opens(r, a, b)
<1> DEFINE srcs(r) == resolve(r.src, nodes, Srv)
           dsts(r) == Destinations(r.dst, nodes, Srv, DevAddrs)
           itself(r) == /\ r.src[1] = "node" /\ r.dst[1] = "node"
                        /\ srcs(r) = dsts(r)
           made(r) == [src |-> srcs(r), dst |-> dsts(r), ports |-> r.ports]
           Good == {q \in R : ~ itself(q) /\ srcs(q) # {} /\ dsts(q) # {}}
<1>1. Acls(R, nodes, Srv, DevAddrs) = {made(r) : r \in Good}
  BY Zenon DEF Acls
<1>2. \A r : /\ made(r).src = srcs(r) /\ made(r).dst = dsts(r)
             /\ made(r).ports = r.ports
  OBVIOUS
<1>3. \A r : Opens(r, a, b) <=> /\ ~ itself(r)
                                /\ \E s \in srcs(r) : a \in Reach(s, nodes)
                                /\ \E d \in dsts(r) : b \in Reach(d, nodes)
  BY Zenon DEF Opens
<1>4. \A r : r \in Good <=> r \in R /\ ~ itself(r) /\ srcs(r) # {} /\ dsts(r) # {}
  BY Zenon
<1> HIDE DEF made, itself, Good, srcs, dsts
<1>5. \A x : x \in Acls(R, nodes, Srv, DevAddrs) <=> \E r \in Good : x = made(r)
  BY <1>1
<1> QED
  BY <1>2, <1>3, <1>4, <1>5

(* aclgen.generate_policy, routing.acl_rules: beside the port that makes a *)
(* gateway visible, a generated policy opens what the stored rules, the    *)
(* directions and the admin notes mean and nothing else, whatever they     *)
(* are and whatever the fleet is.                                          *)
THEOREM OpensWhatIsMeantHolds == Spec => []OpensWhatIsMeant
<1>1. ASSUME Sane PROVE OpensWhatIsMeant
  <2> SUFFICES ASSUME NEW a \in Addr, NEW b \in Addr, NEW p \in Port \ {VIS_PORT}
               PROVE  Permits(Pol, nodes, a, b, p) <=>
                        \/ \E r \in rules : r.ports = p /\ Means(r, a, b)
                        \/ \E d \in dirs : d.ports = p /\ DirectionMeans(d, a, b)
                        \/ p = "*" /\ AdminMeans(a, b)
    BY DEF OpensWhatIsMeant
  <2> DEFINE dev == {n.id : n \in devices(nodes, meta)}
             srv == {n.id : n \in servers(nodes, meta)}
  <2>1. Permits(Pol, nodes, a, b, p)
        <=> \E r \in Acls(AllRules, nodes, Srv, DevAddrs) :
               /\ r.ports = p
               /\ \E s \in r.src : a \in Reach(s, nodes)
               /\ \E d \in r.dst : b \in Reach(d, nodes)
    <3>1. \A g : Visible(g).ports # p
      BY DEF Visible
    <3> QED
      BY <3>1, PolParts DEF Permits
  <2>2. Permits(Pol, nodes, a, b, p)
        <=> \E r \in AllRules : r.ports = p /\ Means(r, a, b)
    <3>1. \A r \in AllRules : Opens(r, a, b) <=> Means(r, a, b)
      BY <1>1, AllRulesTyped, OpensMeans
    <3>2. (\E r \in Acls(AllRules, nodes, Srv, DevAddrs) :
              /\ r.ports = p
              /\ \E s \in r.src : a \in Reach(s, nodes)
              /\ \E d \in r.dst : b \in Reach(d, nodes))
          <=> \E r \in AllRules : r.ports = p /\ Opens(r, a, b)
      BY PlainOpens
    <3> QED
      BY <2>1, <3>1, <3>2
  <2>3. \A r : r \in AllRules <=> \/ r \in rules
                                  \/ r \in admin_rules(meta)
                                  \/ r \in acl_rules(dirs, dev, srv)
    BY DEF AllRules
  <2>4. \A r \in admin_rules(meta) : r.ports = "*"
    BY DEF admin_rules
  <2>5. (\E r \in acl_rules(dirs, dev, srv) : r.ports = p /\ Means(r, a, b))
        <=> \E d \in dirs : d.ports = p /\ DirectionMeans(d, a, b)
    BY <1>1, DirectionOpens
  <2>6. (\E r \in admin_rules(meta) : Means(r, a, b)) <=> AdminMeans(a, b)
    BY <1>1, AdminOpens
  <2> HIDE DEF dev, srv
  <2> QED
    BY <2>2, <2>3, <2>4, <2>5, <2>6
<1> QED
  BY <1>1, SaneHolds, PTL

(* exitvia.exit_via_grants and the visibility rule of generate_policy:     *)
(* whoever is granted an exit can see the gateways it is granted, and they *)
(* are marked as such and none is a personal device with an address.       *)
THEOREM GrantsAreUsableHolds == Spec => []GrantsAreUsable
<1>1. ASSUME NEW g \in Pol.grants
      PROVE  /\ Visible(g) \in Pol.acls
             /\ \A t \in g.via : \E n \in gateways(meta) : t = gateway_tag(n)
             /\ g.via \cap DeviceTags(nodes, DevAddrs) = {}
  <2>1. Visible(g) \in Pol.acls
    BY PolParts
  <2>2. PICK h \in exit_via_grants(meta, nodes) : g = [src |-> h.src, via |-> Vias(h)]
    BY PolParts
  <2>3. \A t \in h.via : \E n \in gateways(meta) : t = gateway_tag(n)
    BY DEF exit_via_grants
  <2> QED
    BY <2>1, <2>2, <2>3 DEF Vias
<1>2. ASSUME NEW g \in Pol.grants, NEW n \in nodes, n.tags \cap g.via # {}
      PROVE  effective_kind(n, meta) = "server" \/ n.ip = NoAddr
  <2>1. SUFFICES ASSUME n \in devices(nodes, meta), n.ip # NoAddr PROVE FALSE
    BY DEF devices, servers
  <2>2. n.ip \in DevAddrs
    BY <2>1 DEF DevAddrs, ipv4
  <2>3. n.tags \subseteq DeviceTags(nodes, DevAddrs)
    BY <2>2 DEF DeviceTags
  <2> QED
    BY <1>1, <1>2, <2>3
<1>3. \A g : /\ Net({g.src}) \in Visible(g).src /\ Visible(g).ports = VIS_PORT
             /\ Visible(g).dst = {Tagged(t) : t \in g.via}
  BY DEF Visible
<1>4. GrantsAreUsable
  BY <1>1, <1>2, <1>3 DEF GrantsAreUsable
<1> QED
  BY <1>4, PTL
=============================================================================
