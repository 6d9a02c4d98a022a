----------------------- MODULE PolicyAgreementProofs -----------------------
(***************************************************************************)
(* What is in force follows from what is stored, and does not reach a      *)
(* personal device for long: for any number of tasks and requests, any     *)
(* fleet, rules, directions and notes.  Three arguments:                   *)
(*                                                                         *)
(* Agreement, within the lock discipline and, over some list of nodes that *)
(* need not be today's, with the collector beside the requests and nodes   *)
(* that join.  A change made without the lock leaves its task waiting to   *)
(* apply the policy (Pending), so as long as such a task exists nothing    *)
(* need agree.  If there is none, whatever a builder has read is still     *)
(* what is stored (FreshAt), because only the holder of the lock could     *)
(* have changed it, and with no builder either the policy in force is      *)
(* derived from what is stored (Agreed).                                   *)
(*                                                                         *)
(* The cut-off.  What a list of nodes that was read a while ago says of    *)
(* the devices found since is still so (Mirrors), so a policy built on it  *)
(* does not reach them (Spares); every task that may still push is wary of *)
(* them (Wary), the collector of those its own cycle has found.            *)
(*                                                                         *)
(* Order.  What is stored fits together (Fitting) with one task at a time, *)
(* because what its request has checked is still so when it writes: Tidy.  *)
(***************************************************************************)
EXTENDS PolicySyncProofs, PolicyHistory

Builder == {"b_rules", "b_nodes", "b_meta", "b_dirs", "compare", "send"}

Pending(t) ==
    \/ pc[t] \in {"forget_wait", "forget", "exit"}
    \/ pc[t] = "lock" /\ why[t] = "apply"

HoldsLock(t) == pc[t] \in Builder \cup {"save"} => lock = t

Vias == {d.via : d \in NewDirs \cup UNION {s.dirs : s \in Stored}}

(* The lists of nodes a policy may be built on: today's, or, when the      *)
(* collector brings an old one, nodes join or routes are picked by hand,   *)
(* any list of nodes there were, with whatever routes.                     *)
Familiar ==
    {N \in SUBSET HsNode : /\ DistinctAddrs(N)
                           /\ \A n \in N : \E m \in KnownNodes : Kin(n, m)}
Lists == IF Disciplined THEN {N \in Familiar : Same(N, hsNodes)} ELSE Familiar

Derived(p) == \E N \in Lists : p = PolicyOf(rules, dirs, meta, N, {})

FreshAt(t) ==
    /\ pc[t] \in {"b_nodes", "b_meta", "b_dirs"} => seen[t].rules = rules
    /\ pc[t] \in {"b_meta", "b_dirs"} => seen[t].nodes \in Lists
    /\ pc[t] = "b_dirs" => seen[t].meta = meta
    /\ pc[t] \in {"compare", "send"} => Derived(pol[t])

Agreed == (\A t \in Task : pc[t] \notin Builder) => Derived(live)

Agreement ==
    /\ \A t \in Task : HoldsLock(t)
    /\ (\E t \in Task : Pending(t)) \/ (Agreed /\ \A t \in Task : FreshAt(t))

(* What the discipline rules out: failures, undoing, exit marks.           *)
World ==
    /\ faults = 0 /\ late = {}
    /\ \A d \in dirs : d.via \in Vias
    /\ hsNodes \in Familiar
    /\ \A e \in Edits : ~meta[e.node].gateway
    /\ Disciplined => \A n \in hsNodes : n.id \in Vias => n.approved # {}

PlainJob(j) ==
    /\ j.op \in Ops \cup {"none"}
    /\ ~j.gw /\ ~j.was
    /\ j.op = "set_meta" => gateway_tag(j.arg.node) \notin j.keep
    /\ j.op = "create_direction" => j.arg.via \in Vias
    /\ j.op = "routing_loop" => j.arg[2].via \in Vias
    /\ j.op \in {"create_direction", "delete_direction", "routing_loop", "delete_node"} =>
          \A d \in j.keep : d.via \in Vias

Plain(t) ==
    /\ pc[t] \notin {"undo", "drop", "tags"}
    /\ why[t] \in {"none", "push", "apply", "heal"}
    /\ PlainJob(job[t]) /\ seen[t].nodes \in Familiar
    /\ pc[t] \in {"compare", "send"} => Declared(pol[t])
    /\ pc[t] = "approving" /\ op(t) # "collect" =>
          \A n \in Node : /\ plan(t)[n].mine = {}
                          /\ plan(t)[n].want # {} => n \in Vias

Inv == TypeOK /\ World /\ (\A t \in Task : Plain(t)) /\ Agreement

-----------------------------------------------------------------------------
(* A step of t leaves the other tasks as they are.                         *)
Others(t) ==
    \A u \in Task \ {t} : /\ pc'[u] = pc[u] /\ why'[u] = why[u] /\ job'[u] = job[u]
                          /\ seen'[u] = seen[u] /\ pol'[u] = pol[u]

LEMMA MovesOthers ==
    ASSUME TasksOK, NEW t \in Task, NEW p, NEW w, NEW j, NEW s, NEW q,
           Moves(t, p, w, j, s, q)
    PROVE  /\ Others(t)
           /\ pc'[t] = p /\ why'[t] = w /\ job'[t] = j /\ seen'[t] = s /\ pol'[t] = q
<1>1. /\ pc'[t] = p /\ why'[t] = w /\ seen'[t] = s /\ pol'[t] = q
      /\ \A u \in Task \ {t} : /\ pc'[u] = pc[u] /\ why'[u] = why[u]
                               /\ seen'[u] = seen[u] /\ pol'[u] = pol[u]
  BY DEF TasksOK, Moves
<1>2. job'[t] = j /\ \A u \in Task \ {t} : job'[u] = job[u]
  <2>1. job = [u \in Task |-> job[u]] /\ job' = [job EXCEPT ![t] = j]
    BY DEF TasksOK, Moves
  <2>2. job' = [u \in Task |-> IF u = t THEN j ELSE job[u]]
    BY <2>1
  <2>3. QED
    BY <2>2
<1>3. QED
  BY <1>1, <1>2 DEF Others

LEMMA ListsSame == UNCHANGED hsNodes => UNCHANGED Lists
  BY DEF Lists

LEMMA NodesAlike ==
    ASSUME Disciplined => Same(hsNodes, hsNodes')
    PROVE  UNCHANGED Lists
<1>1. ASSUME Disciplined
      PROVE  \A N : Same(N, hsNodes) <=> Same(N, hsNodes')
  BY <1>1, SameStill
<1> QED
  BY <1>1 DEF Lists

LEMMA PlainOthers ==
    ASSUME NEW t \in Task, \A u \in Task : Plain(u), Others(t), Plain(t)'
    PROVE  \A u \in Task : Plain(u)'
<1>1. ASSUME NEW u \in Task \ {t}
      PROVE  Plain(u)'
  <2>1. /\ pc'[u] = pc[u] /\ why'[u] = why[u] /\ job'[u] = job[u]
        /\ seen'[u] = seen[u] /\ pol'[u] = pol[u]
    BY DEF Others
  <2>2. Plain(u)
    OBVIOUS
  <2>3. QED
    BY <2>1, <2>2 DEF Plain, op, plan
<1>2. QED
  BY <1>1

LEMMA NobodyFamiliar == {} \in Familiar
  BY DEF Familiar, DistinctAddrs

(* What is done elsewhere.                                                 *)
LEMMA NothingMoves ==
    ASSUME World, Agreement, \A t \in Task : Plain(t),
           UNCHANGED <<hsNodes, live, late, rules, dirs, meta, lock, pc, why, job, seen,
                       pol, faults>>
    PROVE  World' /\ (\A t \in Task : Plain(t)') /\ Agreement'
<1>1. World' /\ \A t \in Task : Plain(t)'
  BY DEF World, Plain, op, plan
<1>2. UNCHANGED Lists
  BY ListsSame
<1>3. Agreement'
  BY <1>2 DEF Agreement, HoldsLock, Pending, FreshAt, Agreed, Derived
<1>4. QED
  BY <1>1, <1>3

(* A step that touches neither the shared state nor a build, of a task that*)
(* nobody waits for.                                                       *)
LEMMA Bystander ==
    ASSUME Agreement, NEW t \in Task, Others(t), ~Pending(t),
           pc[t] \notin Builder, pc'[t] \notin Builder \cup {"save"},
           UNCHANGED <<Lists, live, rules, dirs, meta>>,
           lock' = lock \/ (lock = t /\ lock' = NoTask)
    PROVE  Agreement'
<1>1. ASSUME NEW u \in Task
      PROVE  HoldsLock(u)'
  BY DEF Agreement, HoldsLock, Others
<1>2. CASE \E u \in Task : Pending(u)
  <2>1. PICK u \in Task : Pending(u)
    BY <1>2
  <2>2. Pending(u)'
    BY <2>1 DEF Pending, Others
  <2>3. QED
    BY <1>1, <2>2 DEF Agreement
<1>3. CASE Agreed /\ \A u \in Task : FreshAt(u)
  <2>1. UNCHANGED Lists
    OBVIOUS
  <2>2. ASSUME NEW u \in Task
        PROVE  FreshAt(u)'
    <3>1. CASE u = t
      BY <3>1 DEF FreshAt, Builder
    <3>2. CASE u # t
      BY <1>3, <2>1, <3>2 DEF FreshAt, Derived, Others
    <3>3. QED
      BY <3>1, <3>2
  <2>3. Agreed'
    BY <1>3, <2>1 DEF Agreed, Derived, Others
  <2>4. QED
    BY <1>1, <2>2, <2>3 DEF Agreement
<1>4. QED
  BY <1>2, <1>3 DEF Agreement

(* A step that ends with t waiting to apply the policy.                    *)
LEMMA TurnsPending ==
    ASSUME Agreement, NEW t \in Task, Others(t), Pending(t)', UNCHANGED lock
    PROVE  Agreement'
<1>1. pc'[t] \notin Builder \cup {"save"}
  BY DEF Pending, Builder
<1>2. \A u \in Task : HoldsLock(u)'
  BY <1>1 DEF Agreement, HoldsLock, Others
<1>3. QED
  BY <1>2 DEF Agreement

-----------------------------------------------------------------------------
(* The steps, one lemma per group of actions.                              *)
Upheld == World /\ (\A t \in Task : Plain(t)) /\ Agreement

LEMMA RequestKeeps ==
    ASSUME Inv, NEW t \in Task, NEW j,
           NEW where \in {"lock", "note", "hs_delete", "refresh", "untick", "form",
                          "clients"},
           PlainJob(j), Request(t, j, where, "none")
    PROVE  Upheld'
<1>1. TasksOK
  BY DEF Inv, TypeOK
<1>2. Moves(t, where, "none", j, seen[t], pol[t])
  BY <1>1, Unchanged DEF Request, building, Moves
<1>3. Others(t) /\ pc'[t] = where /\ why'[t] = "none" /\ job'[t] = j
      /\ seen'[t] = seen[t]
  BY <1>1, <1>2, MovesOthers
<1>4. Plain(t)'
  BY <1>3 DEF Plain, Inv
<1>5. World'
  BY DEF Inv, World, Request, headscale, database
<1>6. Agreement'
  BY <1>3, Bystander, ListsSame DEF Inv, Request, headscale, database, Builder, Pending
<1>7. QED
  BY <1>3, <1>4, <1>5, <1>6, PlainOthers DEF Inv, Upheld

LEMMA AskPlain ==
    ASSUME NEW name \in Ops, NEW a, name # "set_meta",
           name = "create_direction" => a.via \in Vias,
           name = "routing_loop" => a[2].via \in Vias
    PROVE  PlainJob(Ask(name, a))
<1>1. Ask(name, a) \in [op : {name}, arg : {a}, keep : {{}}, was : {FALSE},
                        gw : {FALSE}, extra : {{}}]
  BY DEF Ask, NoJob
<1>2. QED
  BY <1>1 DEF PlainJob

LEMMA AskOp ==
    ASSUME NEW name, NEW a
    PROVE  Ask(name, a).op = name
  BY DEF Ask, NoJob

LEMMA NewVia ==
    ASSUME NEW d \in NewDirs
    PROVE  d.via \in Vias
  BY DEF Vias

LEMMA ArriveKeeps ==
    ASSUME Orderly, Inv, NEW t \in Task, Arrive(t)
    PROVE  Upheld'
<1>1. CASE PutRules(t)
  <2>1. PICK b \in Bodies : Request(t, Ask("put_rules", b), "lock", "none")
    BY <1>1 DEF PutRules
  <2>2. "put_rules" \in Ops
    BY <2>1, AskOp DEF Request
  <2>3. QED
    BY <2>1, <2>2, AskPlain, RequestKeeps
<1>2. CASE CreateDirection(t)
  <2>1. PICK d \in NewDirs : Request(t, Ask("create_direction", d), "lock", "none")
    BY <1>2 DEF CreateDirection
  <2>2. "create_direction" \in Ops
    BY <2>1, AskOp DEF Request
  <2>3. QED
    BY <2>1, <2>2, NewVia, AskPlain, RequestKeeps
<1>3. CASE DeleteDirection(t)
  <2>1. PICK d \in dirs : Request(t, Ask("delete_direction", d), "lock", "none")
    BY <1>3 DEF DeleteDirection
  <2>2. "delete_direction" \in Ops
    BY <2>1, AskOp DEF Request
  <2>3. QED
    BY <2>1, <2>2, AskPlain, RequestKeeps
<1>4. CASE RefreshDirections(t)
  <2>1. PICK d \in dirs, e \in NewDirs, name \in {"refresh_directions", "routing_loop"} :
            Request(t, Ask(name, <<d, e>>), "refresh", "none")
    BY <1>4 DEF RefreshDirections
  <2>2. name \in Ops
    BY <2>1, AskOp DEF Request
  <2>3. PlainJob(Ask(name, <<d, e>>))
    BY <2>1, <2>2, NewVia, AskPlain
  <2>4. QED
    BY <2>1, <2>3, RequestKeeps
<1>5. CASE SetMeta(t)
  <2>1. PICK e \in Edits, n \in hsNodes :
            Request(t, [Ask("set_meta", e) EXCEPT
                          !.keep = n.tags, !.was = meta[e.node].gateway,
                          !.gw = eff_gateway(e)], "note", "none")
    BY <1>5 DEF SetMeta
  <2> DEFINE j == [Ask("set_meta", e) EXCEPT !.keep = n.tags,
                      !.was = meta[e.node].gateway, !.gw = eff_gateway(e)]
  <2>2. j \in [op : {"set_meta"}, arg : {e}, keep : {n.tags},
               was : {meta[e.node].gateway}, gw : {eff_gateway(e)}, extra : {{}}]
    BY DEF Ask, NoJob
  <2>3. j.op = "set_meta" /\ j.keep = n.tags /\ j.was = meta[e.node].gateway
        /\ j.gw = eff_gateway(e) /\ j.arg = e
    BY <2>2
  <2>4. e.field # "gateway" /\ e.node \in Node
    BY SyncAssumption DEF Orderly, Unmarked, MetaEdit
  <2>5. ~meta[e.node].gateway /\ ~eff_gateway(e)
    BY <2>4 DEF Inv, World, eff_gateway
  <2>6. gateway_tag(e.node) \notin n.tags
    <3>1. PICK m \in KnownNodes : Kin(n, m)
      BY DEF Inv, World, Familiar
    <3> QED
      BY <3>1 DEF Orderly, Unmarked, Kin
  <2> HIDE DEF j
  <2>7. "set_meta" \in Ops
    BY <2>1, <2>3 DEF Request, j
  <2>8. PlainJob(j)
    BY <2>3, <2>5, <2>6, <2>7 DEF PlainJob
  <2>9. QED
    BY <2>1, <2>8, RequestKeeps DEF j
<1>6. CASE SetTags(t)
  <2>1. PICK e \in Retags, n \in hsNodes, where \in {"tags", "b_rules"} :
            LET want == keep_tagged(e.roles \cup kept_tags(n))
            IN  Request(t, [Ask("set_tags", e) EXCEPT
                              !.keep = want,
                              !.extra = IF e.roles # {} THEN e.roles
                                                        ELSE {MARKER_TAG}],
                        where, "declare")
    BY <1>6, Zenon DEF SetTags
  <2> DEFINE want == keep_tagged(e.roles \cup kept_tags(n))
             extra == IF e.roles # {} THEN e.roles ELSE {MARKER_TAG}
  <2>2. [Ask("set_tags", e) EXCEPT !.keep = want, !.extra = extra].op \in Ops
    BY <2>1 DEF Request
  <2> HIDE DEF want, extra
  <2>3. [Ask("set_tags", e) EXCEPT !.keep = want, !.extra = extra].op = "set_tags"
    BY DEF Ask, NoJob
  <2>4. QED
    BY <2>2, <2>3 DEF Orderly, LockedOps
<1>7. CASE DeleteNode(t)
  <2>1. PICK n \in Node : Request(t, Ask("delete_node", n), "hs_delete", "none")
    BY <1>7 DEF DeleteNode
  <2>2. "delete_node" \in Ops
    BY <2>1, AskOp DEF Request
  <2>3. QED
    BY <2>1, <2>2, AskPlain, RequestKeeps
<1>8. CASE SetRoutes(t)
  <2>1. PICK p \in Picks : Request(t, Ask("set_routes", p), "untick", "none")
    BY <1>8 DEF SetRoutes
  <2>2. "set_routes" \in Ops
    BY <2>1, AskOp DEF Request
  <2>3. QED
    BY <2>1, <2>2, AskPlain, RequestKeeps
<1>9. CASE PutAgent(t)
  <2>1. PICK p \in Picks : Request(t, Ask("put_agent", p), "form", "none")
    BY <1>9 DEF PutAgent
  <2>2. "put_agent" \in Ops
    BY <2>1, AskOp DEF Request
  <2>3. QED
    BY <2>1, <2>2, AskPlain, RequestKeeps
<1>10. CASE SetExitClients(t)
  <2> DEFINE others == {m.id : m \in devices(hsNodes, meta)}
  <2>1. PICK c \in Clients :
            Request(t, [Ask("set_exit_clients", c) EXCEPT !.keep = others],
                    "clients", "none")
    BY <1>10 DEF SetExitClients
  <2> HIDE DEF others
  <2> DEFINE j == [Ask("set_exit_clients", c) EXCEPT !.keep = others]
  <2>2. j \in [op : {"set_exit_clients"}, arg : {c}, keep : {others}, was : {FALSE},
               gw : {FALSE}, extra : {{}}]
    BY DEF Ask, NoJob
  <2>3. j.op = "set_exit_clients" /\ ~j.was /\ ~j.gw
    BY <2>2
  <2> HIDE DEF j
  <2>4. j.op \in Ops
    BY <2>1 DEF Request, j
  <2>5. PlainJob(j)
    BY <2>3, <2>4 DEF PlainJob
  <2>6. QED
    BY <2>1, <2>5, RequestKeeps DEF j
<1>11. QED
  BY <1>1, <1>2, <1>3, <1>4, <1>5, <1>6, <1>7, <1>8, <1>9, <1>10 DEF Arrive

(* What a job is after the lock, a reading or a deletion has changed keep. *)
LEMMA KeepFields ==
    ASSUME TasksOK, NEW t \in Task, NEW X, job' = [job EXCEPT ![t].keep = X]
    PROVE  /\ job'[t].keep = X
           /\ job'[t].op = op(t) /\ job'[t].arg = arg(t)
           /\ job'[t].gw = job[t].gw /\ job'[t].was = job[t].was
           /\ \A u \in Task \ {t} : job'[u] = job[u]
<1>1. JobOK(job[t])
  BY DEF TasksOK
<1>2. job = [u \in Task |-> job[u]]
  BY DEF TasksOK
<1>3. job' = [u \in Task |-> IF u = t THEN [job[t] EXCEPT !.keep = X] ELSE job[u]]
  BY <1>2
<1>4. job'[t] = [job[t] EXCEPT !.keep = X]
  BY <1>3
<1>5. [job[t] EXCEPT !.keep = X]
          \in [op : {op(t)}, arg : {arg(t)}, keep : {X}, was : {job[t].was},
               gw : {job[t].gw}, extra : {job[t].extra}]
  BY <1>1 DEF JobOK, op, arg
<1>6. QED
  BY <1>3, <1>4, <1>5

LEMMA EndFields ==
    ASSUME TasksOK, NEW t \in Task, End(t)
    PROVE  /\ Others(t) /\ pc'[t] = "idle" /\ why'[t] = "none"
           /\ PlainJob(job'[t]) /\ seen'[t].nodes \in Familiar
<1>1. Moves(t, "idle", "none", NoJob, NoSeen, NoPolicy)
  BY DEF End, Moves
<1>2. PlainJob(NoJob) /\ NoSeen.nodes = {}
  BY DEF PlainJob, NoJob, NoSeen
<1>3. QED
  BY <1>1, <1>2, MovesOthers, NobodyFamiliar

LEMMA GotoFields ==
    ASSUME TasksOK, NEW t \in Task, NEW p, Goto(t, p), UNCHANGED <<why, job, seen, pol>>
    PROVE  /\ Others(t) /\ pc'[t] = p /\ why'[t] = why[t] /\ job'[t] = job[t]
           /\ seen'[t] = seen[t] /\ pol'[t] = pol[t]
  BY DEF TasksOK, Goto, Others

LEMMA PurposeFields ==
    ASSUME TasksOK, NEW t \in Task, NEW p, NEW w,
           pc' = [pc EXCEPT ![t] = p], why' = [why EXCEPT ![t] = w],
           UNCHANGED <<job, seen, pol>>
    PROVE  /\ Others(t) /\ pc'[t] = p /\ why'[t] = w /\ job'[t] = job[t]
           /\ seen'[t] = seen[t] /\ pol'[t] = pol[t]
  BY DEF TasksOK, Others

(* What the discipline says of a task before its step.                     *)
LEMMA Facts ==
    ASSUME Inv, NEW t \in Task
    PROVE  /\ TasksOK /\ JobOK(job[t]) /\ Phase(pc[t], why[t], op(t))
           /\ Plain(t) /\ PlainJob(job[t]) /\ HoldsLock(t)
           /\ World /\ Agreement /\ \A u \in Task : Plain(u)
           /\ lock \in Task \cup {NoTask}
<1>1. TasksOK /\ lock \in Task \cup {NoTask} /\ World /\ Agreement
      /\ \A u \in Task : Plain(u)
  BY DEF Inv, TypeOK
<1>2. QED
  BY <1>1 DEF TasksOK, Agreement, Plain

LEMMA AcquireKeeps ==
    ASSUME Orderly, Inv, NEW t \in Task, Acquire(t)
    PROVE  Upheld'
<1>1. /\ TasksOK /\ Phase(pc[t], why[t], op(t)) /\ Plain(t) /\ PlainJob(job[t])
      /\ World /\ Agreement /\ \A u \in Task : Plain(u)
  BY Facts
<1>2. /\ pc[t] = "lock" /\ lock = NoTask
      /\ UNCHANGED <<hsNodes, live, late, rules, dirs, meta, faults>>
  BY DEF Acquire, headscale, database, budget
<1>3. World'
  BY <1>1, <1>2 DEF World
<1>4. \A u \in Task : pc[u] \notin Builder \cup {"save"}
  BY <1>1, <1>2, SyncAssumption DEF Agreement, HoldsLock
<1>5. UNCHANGED Lists
  BY <1>2, ListsSame
<1>6. CASE why[t] # "none"
  <2>1. lock' = t /\ Goto(t, "b_rules") /\ UNCHANGED <<why, job, seen, pol>>
    BY <1>6 DEF Acquire, building
  <2>2. /\ Others(t) /\ pc'[t] = "b_rules" /\ why'[t] = why[t] /\ job'[t] = job[t]
        /\ seen'[t] = seen[t]
    BY <1>1, <2>1, GotoFields
  <2>3. Plain(t)'
    BY <1>1, <2>2 DEF Plain
  <2>4. Agreement'
    <3>1. \A u \in Task : HoldsLock(u)'
      BY <1>4, <2>1, <2>2 DEF HoldsLock, Others
    <3>2. \A u \in Task : FreshAt(u)'
      BY <1>4, <2>2 DEF FreshAt, Others, Builder
    <3>3. Agreed'
      BY <2>2 DEF Agreed, Builder
    <3>4. QED
      BY <3>1, <3>2, <3>3 DEF Agreement
  <2>5. QED
    BY <1>1, <1>3, <2>2, <2>3, <2>4, PlainOthers DEF Upheld
<1>7. CASE why[t] = "none" /\ End(t) /\ UNCHANGED lock
  <2>1. Others(t) /\ pc'[t] = "idle" /\ why'[t] = "none" /\ PlainJob(job'[t])
        /\ seen'[t].nodes \in Familiar
    BY <1>1, <1>7, EndFields
  <2>2. Plain(t)'
    BY <2>1 DEF Plain
  <2>3. Agreement'
    BY <1>1, <1>2, <1>4, <1>5, <1>7, <2>1, Bystander DEF Pending, Builder
  <2>4. QED
    BY <1>1, <1>3, <2>1, <2>2, <2>3, PlainOthers DEF Upheld
<1>8. CASE /\ why[t] = "none" /\ lock' = t
           /\ job' = [job EXCEPT ![t].keep = IF op(t) = "put_rules" THEN rules ELSE dirs]
           /\ Goto(t, "save") /\ UNCHANGED <<why, seen, pol>>
  <2> DEFINE X == IF op(t) = "put_rules" THEN rules ELSE dirs
  <2>1. op(t) \in {"put_rules", "create_direction", "delete_direction"}
    BY <1>1, <1>2, <1>8 DEF Phase
  <2>2. /\ job'[t].keep = X /\ job'[t].op = op(t) /\ job'[t].arg = arg(t)
        /\ job'[t].gw = job[t].gw /\ job'[t].was = job[t].was
        /\ \A u \in Task \ {t} : job'[u] = job[u]
    <3>1. job' = [job EXCEPT ![t].keep = X]
      BY <1>8
    <3> HIDE DEF X
    <3>2. QED
      BY <1>1, <3>1, KeepFields
  <2>3. PlainJob(job'[t])
    <3>1. op(t) # "put_rules" => \A d \in X : d.via \in Vias
      BY <1>1 DEF World
    <3> HIDE DEF X
    <3>2. QED
      BY <1>1, <2>1, <2>2, <3>1 DEF PlainJob, op, arg
  <2>4. Others(t) /\ pc'[t] = "save" /\ why'[t] = "none"
    BY <1>1, <1>8, <2>2 DEF Others, Goto, TasksOK
  <2>5. Plain(t)'
    BY <1>1, <1>8, <2>3, <2>4 DEF Plain
  <2>6. Agreement'
    <3>1. \A u \in Task : HoldsLock(u)'
      BY <1>4, <1>8, <2>4 DEF HoldsLock, Others
    <3>2. CASE \E u \in Task : Pending(u)
      <4>1. PICK u \in Task : Pending(u)
        BY <3>2
      <4>2. Pending(u)'
        BY <1>2, <1>8, <2>4, <4>1 DEF Pending, Others
      <4>3. QED
        BY <3>1, <4>2 DEF Agreement
    <3>3. CASE Agreed /\ \A u \in Task : FreshAt(u)
      <4>1. Agreed'
        BY <1>2, <1>4, <1>5, <3>3 DEF Agreed, Derived
      <4>2. \A u \in Task : FreshAt(u)'
        BY <1>4, <2>4 DEF FreshAt, Others, Builder
      <4>3. QED
        BY <3>1, <4>1, <4>2 DEF Agreement
    <3>4. QED
      BY <1>1, <3>2, <3>3 DEF Agreement
  <2>7. QED
    BY <1>1, <1>3, <2>4, <2>5, <2>6, PlainOthers DEF Upheld
<1>9. QED
  BY <1>6, <1>7, <1>8 DEF Acquire, building

LEMMA SaveKeeps ==
    ASSUME Orderly, Inv, NEW t \in Task, Save(t)
    PROVE  Upheld'
<1>1. /\ TasksOK /\ JobOK(job[t]) /\ Plain(t) /\ PlainJob(job[t]) /\ HoldsLock(t)
      /\ World /\ Agreement /\ \A u \in Task : Plain(u)
  BY Facts
<1>2. /\ pc[t] = "save" /\ lock = t /\ StartPush(t, "push")
      /\ UNCHANGED <<hsNodes, live, late, meta, lock, faults, job, seen, pol>>
  BY <1>1 DEF Save, headscale, building, budget, HoldsLock
<1>3. Others(t) /\ pc'[t] = "b_rules" /\ why'[t] = "push" /\ job'[t] = job[t]
      /\ seen'[t] = seen[t]
  BY <1>1, <1>2, PurposeFields DEF StartPush
<1>4. Plain(t)'
  BY <1>1, <1>3 DEF Plain
<1>5. World'
  <2>1. op(t) = "create_direction" =>
            arg(t).via \in Vias /\ \A d \in keep(t) : d.via \in Vias
    BY <1>1 DEF PlainJob, op, arg, keep
  <2>2. op(t) = "delete_direction" => \A d \in keep(t) : d.via \in Vias
    BY <1>1 DEF PlainJob, op, keep
  <2>3. \A d \in dirs' : d.via \in Vias
    BY <1>1, <2>1, <2>2 DEF Save, World
  <2>4. QED
    BY <1>1, <1>2, <2>3 DEF World
<1>6. \A u \in Task \ {t} : pc[u] \notin Builder \cup {"save"}
  BY <1>1, <1>2 DEF Agreement, HoldsLock
<1>7. Agreement'
  <2>1. \A u \in Task : HoldsLock(u)'
    BY <1>2, <1>3, <1>6 DEF HoldsLock, Others
  <2>2. \A u \in Task : FreshAt(u)'
    BY <1>3, <1>6 DEF FreshAt, Others, Builder
  <2>3. Agreed'
    BY <1>3 DEF Agreed, Builder
  <2>4. QED
    BY <2>1, <2>2, <2>3 DEF Agreement
<1>8. QED
  BY <1>1, <1>3, <1>4, <1>5, <1>7, PlainOthers DEF Upheld

LEMMA RefreshKeeps ==
    ASSUME Orderly, Inv, NEW t \in Task, RefreshRead(t) \/ RefreshWrite(t)
    PROVE  Upheld'
<1>1. /\ TasksOK /\ JobOK(job[t]) /\ Phase(pc[t], why[t], op(t)) /\ Plain(t)
      /\ PlainJob(job[t]) /\ World /\ Agreement /\ \A u \in Task : Plain(u)
  BY Facts
<1>2. op(t) = "routing_loop"
  <2>1. op(t) \in {"refresh_directions", "routing_loop"}
    BY <1>1 DEF RefreshRead, RefreshWrite, Phase
  <2>2. op(t) # "refresh_directions"
    BY <1>1 DEF PlainJob, op, Orderly, LockedOps
  <2>3. QED
    BY <2>1, <2>2
<1>3. CASE RefreshRead(t)
  <2>1. World'
    BY <1>1, <1>3 DEF RefreshRead, World, headscale, database, budget
  <2>2. Others(t) /\ Plain(t)' /\ pc'[t] \in {"idle", "fresh"}
    <3>1. CASE End(t)
      BY <1>1, <3>1, EndFields DEF Plain
    <3>2. CASE /\ job' = [job EXCEPT ![t].keep = dirs] /\ Goto(t, "fresh")
               /\ UNCHANGED <<why, seen, pol>>
      <4>1. /\ job'[t].keep = dirs /\ job'[t].op = op(t) /\ job'[t].arg = arg(t)
            /\ job'[t].gw = job[t].gw /\ job'[t].was = job[t].was
            /\ \A u \in Task \ {t} : job'[u] = job[u]
        BY <1>1, <3>2, KeepFields
      <4>2. Others(t) /\ pc'[t] = "fresh" /\ why'[t] = why[t]
        BY <1>1, <3>2, <4>1 DEF Others, Goto, TasksOK
      <4>3. PlainJob(job'[t])
        BY <1>1, <1>2, <4>1 DEF PlainJob, World, op, arg
      <4>4. QED
        BY <1>1, <3>2, <4>2, <4>3 DEF Plain
    <3>3. QED
      BY <1>3, <3>1, <3>2 DEF RefreshRead, building
  <2>3. Agreement'
    <3>1. pc[t] = "refresh" /\ UNCHANGED <<hsNodes, live, rules, dirs, meta, lock>>
      BY <1>3 DEF RefreshRead, headscale, database
    <3>2. QED
      BY <1>1, <2>2, <3>1, Bystander, ListsSame DEF Pending, Builder
  <2>4. QED
    BY <1>1, <2>1, <2>2, <2>3, PlainOthers DEF Upheld
<1>4. CASE RefreshWrite(t)
  <2>1. StartApply(t) /\ UNCHANGED <<job, seen, pol, lock>>
    BY <1>2, <1>4 DEF RefreshWrite, building
  <2>2. Others(t) /\ pc'[t] = "lock" /\ why'[t] = "apply" /\ job'[t] = job[t]
        /\ seen'[t] = seen[t]
    BY <1>1, <2>1, PurposeFields DEF StartApply
  <2>3. Plain(t)'
    BY <1>1, <2>2 DEF Plain
  <2>4. World'
    <3>1. arg(t)[2].via \in Vias /\ \A d \in keep(t) : d.via \in Vias
      BY <1>1, <1>2 DEF PlainJob, op, arg, keep
    <3>2. \A d \in dirs' : d.via \in Vias
      BY <1>4, <3>1 DEF RefreshWrite
    <3>3. QED
      BY <1>1, <1>4, <3>2 DEF RefreshWrite, World, headscale, budget
  <2>5. Agreement'
    BY <1>1, <2>1, <2>2, TurnsPending DEF Pending
  <2>6. QED
    BY <1>1, <2>2, <2>3, <2>4, <2>5, PlainOthers DEF Upheld
<1>5. QED
  BY <1>3, <1>4

LEMMA WithoutGatewayMarks ==
    ASSUME NEW m \in [Node -> MetaEntry], NEW n \in Node, NEW k \in Node, ~m[k].gateway
    PROVE  ~[without_gateway(m, n) EXCEPT ![n] = NoMeta][k].gateway
<1>1. without_gateway(m, n)[k] = [m[k] EXCEPT !.via = m[k].via \ {n}]
  BY DEF without_gateway
<1>2. m[k] \in MetaEntry
  OBVIOUS
<1>3. ~without_gateway(m, n)[k].gateway
  BY <1>1, <1>2 DEF MetaEntry
<1>4. without_gateway(m, n) \in [Node -> MetaEntry]
  BY WithoutGatewayTyped
<1>5. QED
  BY <1>3, <1>4 DEF NoMeta

LEMMA NoteKeeps ==
    ASSUME Orderly, Inv, NEW t \in Task, set_node_meta(t) \/ drop_gateway(t)
    PROVE  Upheld'
<1>1. /\ TasksOK /\ JobOK(job[t]) /\ Phase(pc[t], why[t], op(t)) /\ Plain(t)
      /\ PlainJob(job[t]) /\ World /\ Agreement /\ \A u \in Task : Plain(u)
  BY Facts
<1>2. meta \in [Node -> MetaEntry]
  BY DEF Inv, TypeOK
<1>3. set_node_meta(t) /\ pc[t] = "note"
  BY <1>1 DEF Plain, drop_gateway, set_node_meta
<1>4. op(t) = "set_meta"
  BY <1>1, <1>3 DEF Phase
<1>5. arg(t) \in Edits
  BY <1>1, <1>4 DEF JobOK, op, arg
<1>6. arg(t) \in MetaEdit /\ arg(t).node \in Node /\ arg(t).field # "gateway"
  BY <1>5, SyncAssumption DEF Orderly, Unmarked, MetaEdit
<1>7. ~job[t].was /\ ~job[t].gw /\ gateway_tag(arg(t).node) \notin keep(t)
  BY <1>1, <1>4, <1>6 DEF PlainJob, op, keep, arg
<1>8. Goto(t, "exit") /\ UNCHANGED <<why, job, seen, pol, lock>>
  BY <1>3, <1>7 DEF set_node_meta, AfterNote, building
<1>9. Others(t) /\ pc'[t] = "exit" /\ why'[t] = why[t] /\ job'[t] = job[t]
      /\ seen'[t] = seen[t]
  BY <1>1, <1>8, GotoFields
<1>10. Plain(t)'
  BY <1>1, <1>9 DEF Plain
<1>11. World'
  <2> DEFINE e == arg(t)
             old == meta[e.node]
             new == CASE e.field = "kind"    -> [old EXCEPT !.kind = e.value]
                      [] e.field = "admin"   -> [old EXCEPT !.admin = e.value]
                      [] e.field = "gateway" -> [old EXCEPT !.gateway = e.value]
                      [] OTHER               -> [old EXCEPT !.via = e.value]
  <2>1. meta' = [meta EXCEPT ![e.node] = new]
    BY <1>3 DEF set_node_meta
  <2>2. old \in MetaEntry /\ ~old.gateway
    BY <1>1, <1>2, <1>5, <1>6 DEF World
  <2>3. ~new.gateway
    BY <1>6, <2>2 DEF MetaEntry
  <2> HIDE DEF new, old
  <2>4. \A n \in Node : ~meta[n].gateway => ~meta'[n].gateway
    BY <1>2, <1>6, <2>1, <2>3
  <2>6. \A x \in Edits : x.node \in Node
    BY SyncAssumption DEF MetaEdit
  <2>5. QED
    BY <1>1, <1>3, <2>4, <2>6 DEF World, set_node_meta, headscale, budget
<1>12. Agreement'
  BY <1>1, <1>8, <1>9, TurnsPending DEF Pending
<1>13. QED
  BY <1>1, <1>9, <1>10, <1>11, <1>12, PlainOthers DEF Upheld

LEMMA DeleteKeeps ==
    ASSUME Orderly, Inv, NEW t \in Task, HsDelete(t) \/ ForgetRead(t) \/ ForgetCommit(t)
    PROVE  Upheld'
<1>1. /\ TasksOK /\ JobOK(job[t]) /\ Phase(pc[t], why[t], op(t)) /\ Plain(t)
      /\ PlainJob(job[t]) /\ World /\ Agreement /\ \A u \in Task : Plain(u)
  BY Facts
<1>2. op(t) = "delete_node" /\ arg(t) \in Node
  <2>1. op(t) = "delete_node"
    BY <1>1 DEF HsDelete, ForgetRead, ForgetCommit, Phase
  <2>2. QED
    BY <1>1, <2>1 DEF JobOK, op, arg
<1>3. ~Fault
  BY <1>1 DEF World, Fault
<1>4. UNCHANGED <<live, late, lock>>
  BY DEF HsDelete, ForgetRead, ForgetCommit, headscale
<1>5. CASE HsDelete(t)
  <2>1. /\ hsNodes' \in SUBSET hsNodes /\ Goto(t, "forget_wait")
        /\ UNCHANGED <<why, job, seen, pol, rules, dirs, meta, faults>>
    BY <1>3, <1>5 DEF HsDelete, building, database, NoFault
  <2>2. Others(t) /\ pc'[t] = "forget_wait" /\ why'[t] = why[t] /\ job'[t] = job[t]
        /\ seen'[t] = seen[t]
    BY <1>1, <2>1, GotoFields
  <2>3. Plain(t)'
    BY <1>1, <2>2 DEF Plain
  <2>4. World'
    BY <1>1, <1>4, <2>1 DEF World, Familiar, DistinctAddrs
  <2>5. Agreement'
    BY <1>1, <1>4, <2>2, TurnsPending DEF Pending
  <2>6. QED
    BY <1>1, <2>2, <2>3, <2>4, <2>5, PlainOthers DEF Upheld
<1>6. CASE ForgetRead(t)
  <2>1. /\ job' = [job EXCEPT ![t].keep = dirs] /\ Goto(t, "forget")
        /\ UNCHANGED <<hsNodes, rules, dirs, meta, why, pol, faults>>
    BY <1>6 DEF ForgetRead, headscale, database, budget
  <2>2. /\ job'[t].keep = dirs /\ job'[t].op = op(t) /\ job'[t].arg = arg(t)
        /\ job'[t].gw = job[t].gw /\ job'[t].was = job[t].was
        /\ \A u \in Task \ {t} : job'[u] = job[u]
    BY <1>1, <2>1, KeepFields
  <2>3. /\ \A u \in Task \ {t} : seen'[u] = seen[u]
        /\ seen'[t].nodes = seen[t].nodes
    BY <1>1, <1>6 DEF ForgetRead, TasksOK, Seen
  <2>4. Others(t) /\ pc'[t] = "forget" /\ why'[t] = why[t]
    BY <1>1, <2>1, <2>2, <2>3 DEF Others, Goto, TasksOK
  <2>5. PlainJob(job'[t])
    BY <1>1, <1>2, <2>2 DEF PlainJob, World, op
  <2>6. Plain(t)'
    BY <1>1, <2>3, <2>4, <2>5 DEF Plain
  <2>7. World'
    BY <1>1, <1>4, <2>1 DEF World
  <2>8. Agreement'
    BY <1>1, <1>4, <2>4, TurnsPending DEF Pending
  <2>9. QED
    BY <1>1, <2>4, <2>6, <2>7, <2>8, PlainOthers DEF Upheld
<1>7. CASE ForgetCommit(t)
  <2> DEFINE n == arg(t)
  <2>1. /\ meta' = [without_gateway(meta, n) EXCEPT ![n] = NoMeta]
        /\ dirs' \in {dirs_without(dirs, n), dirs_without(keep(t), n), dirs}
        /\ StartApply(t) /\ NoFault
        /\ job' = [job EXCEPT ![t].keep = {}]
        /\ seen' = [seen EXCEPT ![t] = NoSeen]
        /\ UNCHANGED <<hsNodes, pol>>
    BY <1>3, <1>7 DEF ForgetCommit, headscale
  <2>2. /\ job'[t].keep = {} /\ job'[t].op = op(t) /\ job'[t].arg = arg(t)
        /\ job'[t].gw = job[t].gw /\ job'[t].was = job[t].was
        /\ \A u \in Task \ {t} : job'[u] = job[u]
    BY <1>1, <2>1, KeepFields
  <2>3. Others(t) /\ pc'[t] = "lock" /\ why'[t] = "apply" /\ seen'[t].nodes \in Familiar
    BY <1>1, <2>1, <2>2, NobodyFamiliar DEF Others, StartApply, TasksOK, NoSeen
  <2>4. PlainJob(job'[t])
    BY <1>1, <1>2, <2>2 DEF PlainJob, op
  <2>5. Plain(t)'
    BY <2>3, <2>4 DEF Plain
  <2>6. World'
    <3>1. \A e \in Edits : ~meta'[e.node].gateway
      <4>1. \A e \in Edits : e.node \in Node
        BY SyncAssumption DEF MetaEdit
      <4> QED
        BY <1>1, <1>2, <2>1, <4>1, WithoutGatewayMarks DEF World, Inv, TypeOK
    <3>2. \A d \in keep(t) : d.via \in Vias
      BY <1>1, <1>2 DEF PlainJob, op, keep
    <3>3. ASSUME NEW D \in SUBSET Direction, \A d \in D : d.via \in Vias
          PROVE  \A d \in dirs_without(D, n) : d.via \in Vias
      <4>1. ASSUME NEW d \in D
            PROVE  [d EXCEPT !.src = d.src \ {n}].via \in Vias
        <5>1. d \in Direction /\ d.via \in Vias
          BY <3>3
        <5>2. QED
          BY <5>1 DEF Direction
      <4>2. QED
        BY <4>1 DEF dirs_without
    <3>4. keep(t) \in SUBSET Direction /\ dirs \in SUBSET Direction
      BY <1>1, <1>2 DEF JobOK, Blob, op, keep, Inv, TypeOK
    <3>5. \A d \in dirs' : d.via \in Vias
      BY <1>1, <2>1, <3>2, <3>3, <3>4 DEF World
    <3>6. QED
      BY <1>1, <1>4, <2>1, <3>1, <3>5 DEF World, NoFault
  <2>7. Agreement'
    BY <1>1, <1>4, <2>3, TurnsPending DEF Pending
  <2>8. QED
    BY <1>1, <2>3, <2>5, <2>6, <2>7, PlainOthers DEF Upheld
<1>8. QED
  BY <1>5, <1>6, <1>7

(* One more reading of a build: what was read before is still current.     *)
LEMMA ReadsOn ==
    ASSUME Agreement, NEW t \in Task, Others(t), pc[t] \in Builder, pc'[t] \in Builder,
           UNCHANGED <<hsNodes, live, rules, dirs, meta, lock>>,
           FreshAt(t) => FreshAt(t)'
    PROVE  Agreement'
<1>1. \A u \in Task : HoldsLock(u)'
  BY DEF Agreement, HoldsLock, Others
<1>2. CASE \E u \in Task : Pending(u)
  <2>1. PICK u \in Task : Pending(u)
    BY <1>2
  <2>2. Pending(u)'
    BY <2>1 DEF Pending, Others, Builder
  <2>3. QED
    BY <1>1, <2>2 DEF Agreement
<1>3. CASE Agreed /\ \A u \in Task : FreshAt(u)
  <2>1. UNCHANGED Lists
    BY ListsSame
  <2>2. \A u \in Task \ {t} : FreshAt(u)'
    BY <1>3, <2>1 DEF FreshAt, Derived, Others
  <2>3. FreshAt(t)'
    BY <1>3
  <2>4. Agreed'
    BY DEF Agreed
  <2>5. QED
    BY <1>1, <2>2, <2>3, <2>4 DEF Agreement
<1>4. QED
  BY <1>2, <1>3 DEF Agreement

LEMMA BuildKeeps ==
    ASSUME Orderly, Inv, NEW t \in Task,
           BuildRules(t) \/ BuildNodes(t) \/ BuildMeta(t) \/ BuildRouting(t)
    PROVE  Upheld'
<1>1. /\ TasksOK /\ Plain(t) /\ PlainJob(job[t])
      /\ World /\ Agreement /\ \A u \in Task : Plain(u)
  BY Facts
<1>2. seen[t] \in Seen /\ seen[t].nodes \in Familiar
  BY <1>1 DEF TasksOK, Plain
<1>3. op(t) = "collect" => Lists = Familiar
  BY <1>1 DEF PlainJob, op, Lists, Disciplined, LockedOps
<1>4. ~Fault
  BY <1>1 DEF World, Fault
<1>5. UNCHANGED <<hsNodes, live, late, rules, dirs, meta, lock, why, job, faults>>
  BY <1>4 DEF BuildRules, BuildNodes, BuildMeta, BuildRouting, headscale, database,
              budget, NoFault
<1>6. World' /\ UNCHANGED Lists /\ hsNodes \in Lists
  BY <1>1, <1>5, ListsSame, SameStill DEF World, Lists
<1>7. CASE BuildRules(t)
  <2>1. /\ pc[t] = "b_rules"
        /\ Goto(t, IF op(t) = "collect" THEN "b_meta" ELSE "b_nodes")
        /\ seen' = [seen EXCEPT ![t].rules = rules] /\ UNCHANGED pol
    BY <1>7 DEF BuildRules
  <2>2. /\ Others(t) /\ pc'[t] = IF op(t) = "collect" THEN "b_meta" ELSE "b_nodes"
        /\ seen'[t].rules = rules /\ seen'[t].nodes = seen[t].nodes
        /\ pol'[t] = pol[t] /\ why'[t] = why[t] /\ job'[t] = job[t]
    BY <1>1, <1>2, <1>5, <2>1 DEF Others, Goto, TasksOK, Seen
  <2>3. FreshAt(t)'
    BY <1>2, <1>3, <1>5, <1>6, <2>2 DEF FreshAt
  <2>4. Agreement'
    BY <1>1, <1>5, <2>1, <2>2, <2>3, ReadsOn DEF Builder
  <2>5. Plain(t)'
    BY <1>1, <2>2 DEF Plain
  <2>6. QED
    BY <1>1, <1>6, <2>2, <2>4, <2>5, PlainOthers DEF Upheld
<1>8. CASE BuildNodes(t)
  <2>1. /\ pc[t] = "b_nodes" /\ Goto(t, "b_meta")
        /\ seen' = [seen EXCEPT ![t].nodes = hsNodes] /\ UNCHANGED pol
    BY <1>4, <1>8 DEF BuildNodes
  <2>2. Others(t) /\ pc'[t] = "b_meta" /\ pol'[t] = pol[t]
        /\ seen'[t].nodes = hsNodes /\ seen'[t].rules = seen[t].rules
        /\ why'[t] = why[t] /\ job'[t] = job[t]
    BY <1>1, <1>2, <1>5, <2>1 DEF Others, Goto, TasksOK, Seen
  <2>3. FreshAt(t) => FreshAt(t)'
    BY <1>5, <1>6, <2>1, <2>2 DEF FreshAt
  <2>4. Agreement'
    BY <1>1, <1>5, <2>1, <2>2, <2>3, ReadsOn DEF Builder
  <2>5. Plain(t)'
    BY <1>1, <2>2 DEF Plain, World
  <2>6. QED
    BY <1>1, <1>6, <2>2, <2>4, <2>5, PlainOthers DEF Upheld
<1>9. CASE BuildMeta(t)
  <2>1. /\ pc[t] = "b_meta" /\ Goto(t, "b_dirs")
        /\ seen' = [seen EXCEPT ![t].meta = meta] /\ UNCHANGED pol
    BY <1>9 DEF BuildMeta
  <2>2. Others(t) /\ pc'[t] = "b_dirs" /\ pol'[t] = pol[t]
        /\ seen'[t].meta = meta /\ seen'[t].rules = seen[t].rules
        /\ seen'[t].nodes = seen[t].nodes
        /\ why'[t] = why[t] /\ job'[t] = job[t]
    BY <1>1, <1>2, <1>5, <2>1 DEF Others, Goto, TasksOK, Seen
  <2>3. FreshAt(t) => FreshAt(t)'
    BY <1>5, <1>6, <2>1, <2>2 DEF FreshAt
  <2>4. Agreement'
    BY <1>1, <1>5, <2>1, <2>2, <2>3, ReadsOn DEF Builder
  <2>5. Plain(t)'
    BY <1>1, <2>2 DEF Plain
  <2>6. QED
    BY <1>1, <1>6, <2>2, <2>4, <2>5, PlainOthers DEF Upheld
<1>10. CASE BuildRouting(t)
  <2> DEFINE s == seen[t]
             q == PolicyOf(s.rules, dirs, s.meta, s.nodes, {})
             next == IF op(t) = "collect" THEN "compare" ELSE "send"
  <2>1. /\ pc[t] = "b_dirs" /\ Goto(t, next) /\ pol' = [pol EXCEPT ![t] = q]
        /\ seen' = [seen EXCEPT ![t] = NoSeen]
    BY <1>1, <1>10 DEF BuildRouting, Plain
  <2>2. Declared(q)
    BY PolicyDeclaresItsTags
  <2>3. FreshAt(t) => Derived(q)
    BY <2>1 DEF FreshAt, Derived
  <2> HIDE DEF q
  <2>4. Others(t) /\ pc'[t] = next /\ pol'[t] = q /\ seen'[t].nodes \in Familiar
        /\ why'[t] = why[t] /\ job'[t] = job[t]
    BY <1>1, <1>5, <2>1, NobodyFamiliar DEF Others, Goto, TasksOK, NoSeen
  <2>5. FreshAt(t) => FreshAt(t)'
    BY <1>5, <1>6, <2>3, <2>4 DEF FreshAt, Derived
  <2>6. Agreement'
    BY <1>1, <1>5, <2>1, <2>4, <2>5, ReadsOn DEF Builder
  <2>7. Plain(t)'
    BY <1>1, <2>2, <2>4 DEF Plain
  <2>8. QED
    BY <1>1, <1>6, <2>4, <2>6, <2>7, PlainOthers DEF Upheld
<1>11. QED
  BY <1>7, <1>8, <1>9, <1>10

(* The policy of t is in force, and t goes on or is done.                   *)
LEMMA InForceKeeps ==
    ASSUME Orderly, Inv, NEW t \in Task, pc[t] \in {"compare", "send"}, lock = t,
           live' = pol[t], Settle(t, TRUE), UNCHANGED faults,
           UNCHANGED <<hsNodes, late, rules, dirs, meta>>
    PROVE  Upheld'
<1>1. /\ TasksOK /\ Plain(t) /\ PlainJob(job[t])
      /\ World /\ Agreement /\ \A u \in Task : Plain(u)
  BY Facts
<1>6. World' /\ UNCHANGED Lists
  BY <1>1, ListsSame DEF World
<1>7. /\ Others(t) /\ Plain(t)' /\ pc'[t] \in {"idle", "approve"}
  <2>1. CASE End(t)
    BY <1>1, <2>1, EndFields DEF Plain
  <2>2. CASE /\ Goto(t, "approve") /\ pol' = [pol EXCEPT ![t] = NoPolicy]
             /\ UNCHANGED <<why, job, seen>>
    <3>1. Others(t) /\ pc'[t] = "approve" /\ why'[t] = why[t] /\ job'[t] = job[t]
      BY <1>1, <2>2 DEF Others, Goto, TasksOK
    <3>2. QED
      BY <1>1, <2>2, <3>1 DEF Plain
  <2>3. QED
    BY <1>1, <2>1, <2>2 DEF Settle, Plain
<1>8. \A u \in Task : pc'[u] \notin Builder \cup {"save"}
  BY <1>1, <1>7 DEF Agreement, HoldsLock, Others, Builder
<1>9. Agreement'
  <2>1. \A u \in Task : HoldsLock(u)' /\ FreshAt(u)'
    BY <1>8 DEF HoldsLock, FreshAt, Builder
  <2>2. CASE \E u \in Task : Pending(u)
    <3>1. PICK u \in Task : Pending(u)
      BY <2>2
    <3>2. Pending(u)'
      BY <1>7, <3>1 DEF Pending, Others
    <3>3. QED
      BY <2>1, <3>2 DEF Agreement
  <2>3. CASE \A u \in Task : FreshAt(u)
    <3>1. Derived(pol[t])
      BY <2>3 DEF FreshAt
    <3>2. Agreed'
      BY <1>6, <3>1 DEF Agreed, Derived
    <3>3. QED
      BY <2>1, <3>2 DEF Agreement
  <2>4. QED
    BY <1>1, <2>2, <2>3 DEF Agreement
<1>10. QED
  BY <1>1, <1>6, <1>7, <1>9, PlainOthers DEF Upheld

LEMMA SendKeeps ==
    ASSUME Orderly, Inv, NEW t \in Task, Send(t)
    PROVE  Upheld'
<1>1. Plain(t) /\ HoldsLock(t) /\ World
  BY Facts
<1>2. pc[t] = "send" /\ lock = t
  BY <1>1 DEF Send, HoldsLock, Builder
<1>3. Accepts(pol[t])
  BY <1>1, <1>2 DEF Plain, Accepts, Orderly
<1>4. ~Fault
  BY <1>1 DEF World, Fault
<1>5. /\ live' = pol[t] /\ Settle(t, TRUE) /\ faults' = faults
      /\ UNCHANGED <<hsNodes, late, rules, dirs, meta>>
  BY <1>3, <1>4 DEF Send, NoFault, database
<1>6. QED
  BY <1>2, <1>5, InForceKeeps

(* New routes leave the nodes familiar; what an exit node of the           *)
(* discipline gets beside the routes it has leaves its kind.               *)
LEMMA RoutesFamiliar ==
    ASSUME NEW N \in Familiar, NEW M \in SUBSET HsNode, DistinctAddrs(M),
           \A m \in M : \E n \in N : Kin(m, n)
    PROVE  M \in Familiar
  BY DEF Familiar, Kin

LEMMA RoutesKin ==
    ASSUME NEW n \in HsNode, NEW A
    PROVE  Kin([n EXCEPT !.approved = A], n) /\ [n EXCEPT !.approved = A].approved = A
  BY DEF Kin, HsNode

LEMMA ApprovedFamiliar ==
    ASSUME TypeOK, NEW t \in Task, NEW S, NEW got, hsNodes \in Familiar,
           \A n \in Node : got[n] \in SUBSET Route
    PROVE  Approved(t, S, got) \in Familiar
<1> DEFINE M == Approved(t, S, got)
<1>1. M \in SUBSET HsNode /\ DistinctAddrs(M)
  BY ApprovedOK
<1>2. ASSUME NEW m \in M
      PROVE  \E n \in hsNodes : Kin(m, n)
  <2>1. PICK n \in hsNodes : \/ m = n
                            \/ \E A : m = [n EXCEPT !.approved = A]
    BY <1>2 DEF Approved
  <2>2. n \in HsNode
    BY DEF Familiar
  <2>3. Kin(n, n) /\ \A A : Kin([n EXCEPT !.approved = A], n)
    BY <2>2, RoutesKin DEF Kin
  <2> QED
    BY <2>1, <2>3
<1> HIDE DEF M
<1>3. M \in Familiar
  BY <1>1, <1>2, RoutesFamiliar
<1> QED
  BY <1>3 DEF M

(* The handlers that neither save under the lock nor push.                 *)
LEMMA FormsKeep ==
    ASSUME Orderly, Inv, NEW t \in Task,
           \/ set_agent_exit(t) \/ Untick(t) \/ ApproveTicked(t)
           \/ WriteAgent(t) \/ set_gateway_clients(t)
    PROVE  Upheld'
<1>1. /\ TasksOK /\ JobOK(job[t]) /\ Phase(pc[t], why[t], op(t)) /\ Plain(t)
      /\ PlainJob(job[t]) /\ World /\ Agreement /\ \A u \in Task : Plain(u)
  BY Facts
<1>2. ~Fault
  BY <1>1 DEF World, Fault
<1>3. CASE End(t) /\ UNCHANGED <<live, late, rules, dirs, meta, lock, faults>>
           /\ pc[t] \in {"untick", "routes", "form"}
           /\ World' /\ UNCHANGED Lists
  <2>1. Others(t) /\ pc'[t] = "idle" /\ why'[t] = "none" /\ PlainJob(job'[t])
        /\ seen'[t].nodes \in Familiar
    BY <1>1, <1>3, EndFields
  <2>2. Plain(t)'
    BY <2>1 DEF Plain
  <2>3. Agreement'
    BY <1>1, <1>3, <2>1, Bystander DEF Pending, Builder
  <2> QED
    BY <1>1, <1>3, <2>1, <2>2, <2>3, PlainOthers DEF Upheld
<1>4. CASE set_agent_exit(t)
  <2>1. StartApply(t) /\ UNCHANGED <<hsNodes, live, late, rules, dirs, meta, lock, faults,
                                     job, seen, pol>>
    BY <1>4 DEF set_agent_exit, AfterExit, building, headscale, budget
  <2>2. Others(t) /\ pc'[t] = "lock" /\ why'[t] = "apply" /\ job'[t] = job[t]
        /\ seen'[t] = seen[t]
    BY <1>1, <2>1, PurposeFields DEF StartApply
  <2>3. Plain(t)' /\ World'
    BY <1>1, <2>1, <2>2 DEF Plain, World
  <2>4. Agreement'
    BY <1>1, <2>1, <2>2, TurnsPending DEF Pending
  <2> QED
    BY <1>1, <2>2, <2>3, <2>4, PlainOthers DEF Upheld
<1>5. CASE Untick(t)
  <2>1. UNCHANGED <<hsNodes, live, late, rules, dirs, meta, lock, faults>>
        /\ pc[t] = "untick"
    BY <1>5 DEF Untick, headscale, budget
  <2>2. World' /\ UNCHANGED Lists
    BY <1>1, <2>1, ListsSame DEF World
  <2>3. CASE End(t)
    BY <1>3, <2>1, <2>2, <2>3
  <2>4. CASE Goto(t, "routes") /\ UNCHANGED <<why, job, seen, pol>>
    <3>1. Others(t) /\ pc'[t] = "routes" /\ why'[t] = why[t] /\ job'[t] = job[t]
          /\ seen'[t] = seen[t]
      BY <1>1, <2>4, GotoFields
    <3>2. Plain(t)'
      BY <1>1, <3>1 DEF Plain
    <3>3. Agreement'
      BY <1>1, <2>1, <2>2, <3>1, Bystander DEF Pending, Builder
    <3> QED
      BY <1>1, <2>2, <3>1, <3>2, <3>3, PlainOthers DEF Upheld
  <2> QED
    BY <1>5, <2>3, <2>4 DEF Untick, building
<1>6. CASE ApproveTicked(t)
  <2>1. op(t) = "set_routes" /\ ~Disciplined
    BY <1>1, <1>6 DEF ApproveTicked, Phase, PlainJob, op, Disciplined, LockedOps
  <2>2. End(t) /\ pc[t] = "routes" /\ UNCHANGED <<live, late, rules, dirs, meta, lock, faults>>
    BY <1>2, <1>6 DEF ApproveTicked, NoFault, database
  <2>3. hsNodes' = {IF n.id = arg(t).node
                    THEN [n EXCEPT !.approved = arg(t).routes] ELSE n : n \in hsNodes}
    BY <1>2, <1>6 DEF ApproveTicked
  <2>4. \A m \in hsNodes' : \E n \in hsNodes : Kin(m, n)
    <3> DEFINE A == arg(t).routes
               new(n) == IF n.id = arg(t).node THEN [n EXCEPT !.approved = A] ELSE n
    <3>1. ASSUME NEW n \in hsNodes
          PROVE  Kin(new(n), n)
      <4>1. n \in HsNode
        BY <1>1 DEF World, Familiar
      <4>2. Kin(n, n) /\ Kin([n EXCEPT !.approved = A], n)
        BY <4>1, RoutesKin DEF Kin
      <4> QED
        BY <4>2
    <3>2. hsNodes' = {new(n) : n \in hsNodes}
      BY <2>3
    <3> HIDE DEF new
    <3> QED
      BY <3>1, <3>2
  <2>5. hsNodes' \in SUBSET HsNode /\ DistinctAddrs(hsNodes')
    BY <1>6, FormsOK DEF Inv, TypeOK
  <2>6. hsNodes' \in Familiar
    BY <1>1, <2>4, <2>5, RoutesFamiliar DEF World
  <2>7. World'
    BY <1>1, <2>1, <2>2, <2>6 DEF World
  <2>8. UNCHANGED Lists
    BY <2>1 DEF Lists
  <2> QED
    BY <1>3, <2>2, <2>7, <2>8
<1>7. CASE WriteAgent(t)
  <2>1. End(t) /\ pc[t] = "form"
        /\ UNCHANGED <<hsNodes, live, late, rules, dirs, meta, lock, faults>>
    BY <1>7 DEF WriteAgent, headscale, budget
  <2>2. World' /\ UNCHANGED Lists
    BY <1>1, <2>1, ListsSame DEF World
  <2> QED
    BY <1>3, <2>1, <2>2
<1>8. CASE set_gateway_clients(t)
  <2>1. StartApply(t) /\ UNCHANGED <<hsNodes, live, late, rules, dirs, lock, faults,
                                     job, seen, pol>>
    BY <1>8 DEF set_gateway_clients, building, headscale, budget
  <2>2. Others(t) /\ pc'[t] = "lock" /\ why'[t] = "apply" /\ job'[t] = job[t]
        /\ seen'[t] = seen[t]
    BY <1>1, <2>1, PurposeFields DEF StartApply
  <2>3. Plain(t)'
    BY <1>1, <2>2 DEF Plain
  <2>4. \A n \in Node : meta'[n].gateway = meta[n].gateway
    <3> DEFINE V(n) == IF n \in arg(t).devices THEN meta[n].via \cup {arg(t).node}
                       ELSE meta[n].via \ {arg(t).node}
    <3>1. ASSUME NEW n \in Node
          PROVE  \A X : [meta[n] EXCEPT !.via = X].gateway = meta[n].gateway
      <4>1. meta[n] \in MetaEntry
        BY DEF Inv, TypeOK
      <4> QED
        BY <4>1 DEF MetaEntry
    <3>2. meta' = [n \in Node |-> IF n \notin keep(t) THEN meta[n]
                                  ELSE [meta[n] EXCEPT !.via = V(n)]]
      BY <1>8 DEF set_gateway_clients
    <3> HIDE DEF V
    <3> QED
      BY <3>1, <3>2
  <2>5. World'
    <3>1. \A e \in Edits : e.node \in Node
      BY SyncAssumption DEF MetaEdit
    <3> QED
      BY <1>1, <2>1, <2>4, <3>1 DEF World
  <2>6. Agreement'
    BY <1>1, <2>1, <2>2, TurnsPending DEF Pending
  <2> QED
    BY <1>1, <2>2, <2>3, <2>5, <2>6, PlainOthers DEF Upheld
<1> QED
  BY <1>4, <1>5, <1>6, <1>7, <1>8

LEMMA ApproveKeeps ==
    ASSUME Orderly, Inv, NEW t \in Task, Approve(t)
    PROVE  Upheld'
<1>1. /\ TasksOK /\ Plain(t) /\ PlainJob(job[t]) /\ World /\ Agreement
      /\ \A u \in Task : Plain(u)
  BY Facts
<1>2. pc[t] = "approve" /\ UNCHANGED <<hsNodes, live, late, rules, dirs, meta>>
  BY DEF Approve, headscale, database
<1>3. faults' = faults /\ ~Fault
  BY <1>1 DEF Approve, World, Fault, NoFault
<1>4. World' /\ UNCHANGED Lists
  BY <1>1, <1>2, <1>3, ListsSame DEF World
<1>5. CASE End(t) /\ Release(t)
  <2>1. Others(t) /\ pc'[t] = "idle" /\ Plain(t)'
    BY <1>1, <1>5, EndFields DEF Plain
  <2>2. Agreement'
    BY <1>1, <1>2, <1>4, <1>5, <2>1, Bystander DEF Release, Pending, Builder
  <2> QED
    BY <1>1, <1>4, <2>1, <2>2, PlainOthers DEF Upheld
<1> DEFINE Planned(p) == /\ seen' = [seen EXCEPT ![t].plan = p]
                         /\ \A n \in Node : /\ p[n].mine = {}
                                            /\ p[n].want # {} => n \in Vias
                         /\ Goto(t, "approving") /\ UNCHANGED <<lock, why, job, pol>>
<1>6. ASSUME NEW p, Planned(p)
      PROVE  Upheld'
  <2>1. /\ Others(t) /\ pc'[t] = "approving" /\ why'[t] = why[t] /\ job'[t] = job[t]
        /\ seen'[t].nodes = seen[t].nodes /\ seen'[t].plan = p
    BY <1>1, <1>6 DEF Others, Goto, TasksOK, Seen
  <2>2. Plain(t)'
    BY <1>1, <1>6, <2>1 DEF Plain, plan, op
  <2>3. Agreement'
    BY <1>1, <1>2, <1>4, <1>6, <2>1, Bystander DEF Pending, Builder
  <2> QED
    BY <1>1, <1>4, <2>1, <2>2, <2>3, PlainOthers DEF Upheld
<1>7. (End(t) /\ Release(t)) \/ \E p : Planned(p)
  <2> DEFINE P == [n \in Node |->
                    IF \E h \in hsNodes : h.id = n
                    THEN [want |-> routes_by_node(dirs, n), mine |-> {},
                          had |-> approved_of(hsNodes, n)]
                    ELSE NoPlan]
  <2>1. \A n \in Node : P[n].mine = {} /\ (P[n].want # {} => n \in Vias)
    <3>1. \A n \in Node : routes_by_node(dirs, n) # {} => n \in Vias
      BY <1>1 DEF World, routes_by_node
    <3> QED
      BY <3>1 DEF NoPlan
  <2>2. \/ End(t) /\ Release(t)
        \/ /\ seen' = [seen EXCEPT ![t].plan = P]
           /\ Goto(t, "approving") /\ UNCHANGED <<lock, why, job, pol>>
    BY <1>3 DEF Approve
  <2> HIDE DEF P
  <2> QED
    BY <2>1, <2>2
<1> QED
  BY <1>5, <1>6, <1>7, Zenon

LEMMA ApproveDirectionsKeeps ==
    ASSUME Orderly, Inv, NEW t \in Task, ApproveDirections(t)
    PROVE  Upheld'
<1>1. /\ TasksOK /\ Plain(t) /\ World /\ Agreement /\ \A u \in Task : Plain(u)
      /\ hsNodes \in Familiar
  BY Facts DEF World
<1>2. /\ pc[t] = "approving" /\ op(t) # "collect" /\ End(t) /\ Release(t)
      /\ UNCHANGED <<live, late, rules, dirs, meta>>
  BY DEF ApproveDirections
<1>3. faults' = faults
  BY <1>1 DEF ApproveDirections, World, Fault, NoFault
<1> DEFINE got == [n \in Node |-> plan(t)[n].want]
<1>4. plan(t) \in [Node -> Plan]
  BY <1>1 DEF TasksOK, Seen, plan
<1>5. PICK S : hsNodes' = Approved(t, S, got)
  BY DEF ApproveDirections
<1>6. \A n \in Node : got[n] \in SUBSET Route /\ got[n] = plan(t)[n].want
  BY <1>4 DEF Plan
<1> HIDE DEF got
<1>7. hsNodes' \in Familiar
  BY <1>1, <1>5, <1>6, ApprovedFamiliar DEF Inv
<1>8. ASSUME Disciplined, NEW n \in hsNodes
      PROVE  LET g == target(plan(t)[n.id], got[n.id])
             IN  g # plan(t)[n.id].had =>
                    n.id \in Vias /\ n.approved # {} /\ g # {}
  <2>1. n.id \in Node
    BY <1>1 DEF Familiar, HsNode
  <2>2. /\ plan(t)[n.id].mine = {} /\ got[n.id] = plan(t)[n.id].want
        /\ plan(t)[n.id].want # {} => n.id \in Vias
    BY <1>1, <1>2, <1>6, <2>1 DEF Plain
  <2>3. target(plan(t)[n.id], got[n.id]) = plan(t)[n.id].had \cup got[n.id]
    BY <2>2 DEF target
  <2> QED
    BY <1>1, <1>8, <2>2, <2>3 DEF World
<1>9. Disciplined => /\ Same(hsNodes, hsNodes')
                     /\ \A n \in hsNodes' : n.id \in Vias => n.approved # {}
  <2> SUFFICES ASSUME Disciplined
               PROVE  /\ Same(hsNodes, hsNodes')
                      /\ \A n \in hsNodes' : n.id \in Vias => n.approved # {}
    OBVIOUS
  <2> DEFINE g(n) == target(plan(t)[n.id], got[n.id])
             called(n) == n.id \in S /\ g(n) # plan(t)[n.id].had
             new(n) == IF called(n) THEN [n EXCEPT !.approved = g(n)] ELSE n
  <2>1. hsNodes' = {new(n) : n \in hsNodes}
    BY <1>5 DEF Approved
  <2>2. \A n \in hsNodes : called(n) => n.approved # {} /\ g(n) # {}
    BY <1>8
  <2> HIDE DEF called, g
  <2>3. ASSUME NEW n \in hsNodes
        PROVE  Alike(n, new(n)) /\ Alike(new(n), n)
    <3>1. n \in HsNode
      BY <1>1 DEF Familiar
    <3>2. /\ Kin([n EXCEPT !.approved = g(n)], n)
          /\ [n EXCEPT !.approved = g(n)].approved = g(n)
      BY <3>1, RoutesKin
    <3>3. CASE called(n)
      BY <2>2, <3>2, <3>3 DEF Alike, Kin
    <3>4. CASE ~called(n)
      BY <3>4 DEF Alike, Kin
    <3> QED
      BY <3>3, <3>4
  <2> HIDE DEF new
  <2>4. Same(hsNodes, hsNodes')
    BY <2>1, <2>3 DEF Same, Matches
  <2>5. \A n \in hsNodes' : n.id \in Vias => n.approved # {}
    BY <1>1, <2>4 DEF World, Same, Matches, Alike, Kin
  <2> QED
    BY <2>4, <2>5
<1>10. World'
  BY <1>1, <1>2, <1>3, <1>7, <1>9 DEF World
<1>11. UNCHANGED Lists
  BY <1>9, NodesAlike
<1>12. Others(t) /\ pc'[t] = "idle" /\ Plain(t)'
  BY <1>1, <1>2, EndFields DEF Plain
<1>13. Agreement'
  BY <1>1, <1>2, <1>11, <1>12, Bystander DEF Release, Pending, Builder
<1> QED
  BY <1>1, <1>10, <1>12, <1>13, PlainOthers DEF Upheld

(* The cycle of the collector: it brings the list of nodes to its push,    *)
(* and pushes only what is not in force already.                           *)
LEMMA CollectorKeeps ==
    ASSUME Orderly, Inv,
           CollectNodes \/ ReadWanted \/ ApproveRequested \/ Compare \/ Prune
    PROVE  Upheld'
<1> DEFINE t == Collector
<1>1. /\ t \in Task /\ TasksOK /\ Plain(t) /\ HoldsLock(t) /\ seen[t] \in Seen
      /\ World /\ Agreement /\ \A u \in Task : Plain(u)
      /\ PlainJob(job[t]) /\ Phase(pc[t], why[t], op(t))
  BY Facts, SyncAssumption DEF TasksOK
<1>2. ~Fault
  BY <1>1 DEF World, Fault
<1>3. CASE CollectNodes
  <2>1. /\ pc[t] = "idle" /\ "collect" \in Ops
        /\ seen' = [seen EXCEPT ![t].nodes = hsNodes]
        /\ job' = [job EXCEPT ![t].op = "collect"]
        /\ Goto(t, "wanted")
        /\ UNCHANGED <<hsNodes, live, late, rules, dirs, meta, lock, why, pol, faults>>
    BY <1>2, <1>3 DEF CollectNodes, NoFault, headscale, database
  <2>2. /\ job'[t] = [job[t] EXCEPT !.op = "collect"]
        /\ \A u \in Task \ {t} : job'[u] = job[u]
    <3>1. job = [u \in Task |-> job[u]]
      BY <1>1 DEF TasksOK
    <3>2. job' = [u \in Task |-> IF u = t THEN [job[t] EXCEPT !.op = "collect"]
                                 ELSE job[u]]
      BY <1>1, <2>1, <3>1
    <3>3. QED
      BY <1>1, <3>2
  <2>3. PlainJob(job'[t])
    <3>1. JobOK(job[t]) /\ PlainJob(job[t])
      BY <1>1 DEF TasksOK, Plain
    <3>2. job'[t] \in [op : {"collect"}, arg : {job[t].arg}, keep : {job[t].keep},
                       was : {job[t].was}, gw : {job[t].gw}, extra : {job[t].extra}]
      BY <2>2, <3>1 DEF JobOK
    <3>3. QED
      BY <2>1, <3>1, <3>2 DEF PlainJob
  <2>4. /\ Others(t) /\ pc'[t] = "wanted" /\ why'[t] = why[t]
        /\ seen'[t].nodes = hsNodes
    BY <1>1, <2>1, <2>2 DEF Others, Goto, TasksOK, Seen
  <2>5. Plain(t)' /\ World'
    BY <1>1, <2>1, <2>3, <2>4 DEF Plain, World
  <2>6. Agreement'
    BY <1>1, <2>1, <2>4, Bystander, ListsSame DEF Pending, Builder
  <2>7. QED
    BY <1>1, <2>4, <2>5, <2>6, PlainOthers DEF Upheld
<1>4. CASE Compare
  <2>1. pc[t] = "compare" /\ lock = t
    BY <1>1, <1>4 DEF Compare, HoldsLock, Builder
  <2>2. CASE pol[t] = live /\ Settle(t, TRUE)
    BY <1>1, <1>2, <1>4, <2>1, <2>2, InForceKeeps
       DEF Compare, NoFault, headscale, database
  <2>3. CASE Goto(t, "send") /\ UNCHANGED <<lock, why, job, seen, pol>>
    <3>1. UNCHANGED <<hsNodes, live, late, rules, dirs, meta, faults>>
      BY <1>2, <1>4 DEF Compare, NoFault, headscale, database
    <3>2. /\ Others(t) /\ pc'[t] = "send" /\ why'[t] = why[t] /\ job'[t] = job[t]
          /\ seen'[t] = seen[t] /\ pol'[t] = pol[t]
      BY <1>1, <2>3, GotoFields
    <3>3. Plain(t)' /\ World'
      BY <1>1, <2>1, <3>1, <3>2 DEF Plain, World
    <3>4. UNCHANGED Lists
      BY <3>1, ListsSame
    <3>5. FreshAt(t) => FreshAt(t)'
      BY <2>1, <3>1, <3>2, <3>4 DEF FreshAt, Derived
    <3>6. Agreement'
      BY <1>1, <2>1, <2>3, <3>1, <3>2, <3>5, ReadsOn DEF Builder
    <3>7. QED
      BY <1>1, <3>2, <3>3, <3>6, PlainOthers DEF Upheld
  <2>4. QED
    BY <1>4, <2>2, <2>3 DEF Compare, building
<1>5. CASE Prune
  <2>1. UNCHANGED <<hsNodes, live, late, rules, dirs, meta, lock, pc, why, job, seen,
                    pol, faults>>
    BY <1>5 DEF Prune, headscale, database, tasks, budget
  <2>2. QED
    BY <1>1, <2>1, NothingMoves DEF Upheld
<1>6. ASSUME Others(t), job'[t] = job[t], seen'[t].nodes = seen[t].nodes,
             \/ pc'[t] = "lock" /\ why'[t] = "heal"
             \/ pc'[t] = "approving" /\ op(t) = "collect" /\ why'[t] = why[t],
             pc[t] \in {"wanted", "approving"}, World', UNCHANGED Lists,
             UNCHANGED <<live, rules, dirs, meta, lock>>
      PROVE  Upheld'
  <2>1. Plain(t)'
    BY <1>1, <1>6 DEF Plain, op
  <2>2. Agreement'
    BY <1>1, <1>6, Bystander DEF Pending, Builder
  <2> QED
    BY <1>1, <1>6, <2>1, <2>2, PlainOthers DEF Upheld
<1>7. CASE ReadWanted
  <2>1. pc[t] = "wanted" /\ op(t) = "collect"
        /\ UNCHANGED <<hsNodes, live, late, rules, dirs, meta, lock, job, faults>>
    BY <1>1, <1>7 DEF ReadWanted, Phase, headscale, database, budget
  <2>2. World' /\ UNCHANGED Lists
    BY <1>1, <2>1, ListsSame DEF World
  <2>3. \/ StartHeal /\ UNCHANGED <<seen, pol>>
        \/ \E p : /\ seen' = [seen EXCEPT ![t].plan = p]
                  /\ Goto(t, "approving") /\ UNCHANGED <<why, pol>>
    BY <1>7 DEF ReadWanted
  <2>4. CASE StartHeal /\ UNCHANGED <<seen, pol>>
    <3>1. Others(t) /\ pc'[t] = "lock" /\ why'[t] = "heal" /\ job'[t] = job[t]
          /\ seen'[t] = seen[t]
      <4>1. /\ pc' = [pc EXCEPT ![t] = "lock"] /\ why' = [why EXCEPT ![t] = "heal"]
            /\ UNCHANGED <<job, seen, pol>>
        BY <2>1, <2>4 DEF StartHeal
      <4> HIDE DEF t
      <4> QED
        BY <1>1, <4>1, PurposeFields
    <3> QED
      BY <1>6, <2>1, <2>2, <3>1
  <2>5. CASE \E p : /\ seen' = [seen EXCEPT ![t].plan = p]
                   /\ Goto(t, "approving") /\ UNCHANGED <<why, pol>>
    <3>1. Others(t) /\ pc'[t] = "approving" /\ why'[t] = why[t] /\ job'[t] = job[t]
          /\ seen'[t].nodes = seen[t].nodes
      BY <1>1, <2>1, <2>5 DEF Others, Goto, TasksOK, Seen
    <3> QED
      BY <1>6, <2>1, <2>2, <3>1
  <2> QED
    BY <2>3, <2>4, <2>5
<1>8. CASE ApproveRequested
  <2>1. pc[t] = "approving" /\ op(t) = "collect" /\ ~Disciplined
        /\ UNCHANGED <<live, late, rules, dirs, meta, lock, job, pol>>
        /\ StartHeal /\ seen' = [seen EXCEPT ![t].plan = NoSeen.plan]
    BY <1>1, <1>8 DEF ApproveRequested, PlainJob, op, Disciplined, LockedOps
  <2>2. faults' = faults
    BY <1>2, <1>8 DEF ApproveRequested, NoFault
  <2>3. hsNodes' \in Familiar
    <3>1. PICK got \in {Granted(an) : an \in SUBSET UNION {{n} \X plan(t)[n].want : n \in Node}} :
              \E S : hsNodes' = Approved(t, S, got)
      BY <1>8, Zenon DEF ApproveRequested
    <3>2. plan(t) \in [Node -> Plan]
      BY <1>1 DEF Seen, plan
    <3>3. \A n \in Node : got[n] \in SUBSET Route
      BY <3>2 DEF Plan, Granted
    <3> QED
      BY <1>1, <3>1, <3>3, ApprovedFamiliar DEF Inv, World
  <2>4. World' /\ UNCHANGED Lists
    BY <1>1, <2>1, <2>2, <2>3 DEF World, Lists
  <2>5. Others(t) /\ pc'[t] = "lock" /\ why'[t] = "heal" /\ job'[t] = job[t]
        /\ seen'[t].nodes = seen[t].nodes
    BY <1>1, <2>1 DEF Others, StartHeal, TasksOK, Seen
  <2> QED
    BY <1>6, <2>1, <2>4, <2>5
<1> QED
  BY <1>3, <1>4, <1>5, <1>7, <1>8

(* A node joins: only what is under construction may know of it.           *)
LEMMA JoinKeeps ==
    ASSUME Orderly, Inv, Join
    PROVE  Upheld'
<1>1. PICK n \in Newcomers : hsNodes' = hsNodes \cup {n}
  BY DEF Join
<1>2. UNCHANGED <<live, late, rules, dirs, meta, lock, pc, why, job, seen, pol, faults>>
      /\ DistinctAddrs(hsNodes')
  BY DEF Join, database, tasks
<1>3. UNCHANGED Lists /\ n \in KnownNodes /\ ~Disciplined
  BY <1>1 DEF Lists, KnownNodes, Disciplined
<1>4. World /\ Agreement /\ \A u \in Task : Plain(u)
  BY DEF Inv
<1>5. hsNodes' \in Familiar
  BY <1>1, <1>2, <1>3, <1>4, SyncAssumption DEF World, Familiar, Kin
<1>6. World' /\ \A u \in Task : Plain(u)'
  BY <1>2, <1>3, <1>4, <1>5 DEF World, Plain, op, plan
<1>7. Agreement'
  BY <1>2, <1>3, <1>4 DEF Agreement, HoldsLock, Pending, FreshAt, Agreed, Derived
<1>8. QED
  BY <1>6, <1>7 DEF Upheld

-----------------------------------------------------------------------------
LEMMA StepKeeps ==
    ASSUME Orderly, Inv, [Next]_vars
    PROVE  Upheld'
<1>1. ASSUME NEW t \in Task, Arrive(t) \/ Acquire(t) \/ Step(t)
      PROVE  Upheld'
  <2>1. ~Undo(t)
    BY Facts DEF Undo, Plain
  <2>2. ~set_node_tags(t)
    BY Facts DEF set_node_tags, Plain
  <2>3. QED
    BY <1>1, <2>1, <2>2, ArriveKeeps, AcquireKeeps, SaveKeeps, RefreshKeeps, NoteKeeps,
       FormsKeep, DeleteKeeps, BuildKeeps, SendKeeps, ApproveKeeps,
       ApproveDirectionsKeeps DEF Step
<1>2. ~LateArrives /\ ~Tamper /\ ~Restart
  BY DEF LateArrives, Tamper, Restart, Fault, Inv, World
<1>3. CASE UNCHANGED vars
  BY <1>3, NothingMoves DEF vars, Inv, Upheld
<1>4. QED
  BY <1>1, <1>2, <1>3, CollectorKeeps, JoinKeeps DEF Next

LEMMA InitKept == Orderly /\ Init => Upheld
<1>1. SUFFICES ASSUME Orderly, Init
               PROVE  Upheld
  OBVIOUS
<1>2. PICK s \in Stored : /\ hsNodes = s.nodes /\ rules = s.rules
                          /\ dirs = s.dirs /\ meta = s.meta
  BY <1>1 DEF Init
<1>3. /\ \A d \in dirs : d.via \in Vias
      /\ hsNodes \subseteq KnownNodes
  BY <1>2 DEF Vias, KnownNodes
<1>4. hsNodes \in Familiar
  BY <1>2, <1>3, SyncAssumption DEF Familiar, Kin
<1>5. World
  <2>1. faults = 0 /\ late = {}
    BY <1>1 DEF Orderly, Unfailing, Init
  <2>2. \A e \in Edits : ~meta[e.node].gateway
    BY <1>1, <1>2 DEF Orderly, Unmarked
  <2>3. Disciplined => \A n \in hsNodes : n.id \in Vias => n.approved # {}
    BY <1>3 DEF Disciplined, Vias
  <2>4. QED
    BY <1>3, <1>4, <2>1, <2>2, <2>3 DEF World
<1>6. \A t \in Task : Plain(t)
  BY <1>1, NobodyFamiliar DEF Init, Plain, PlainJob, NoJob, NoSeen
<1>7. Agreement
  <2>1. Derived(live)
    <3>1. hsNodes \in Lists
      BY <1>4, SameStill DEF Lists
    <3> QED
      BY <1>1, <3>1 DEF Derived, Init, Wanted
  <2>2. QED
    BY <1>1, <2>1 DEF Init, Agreement, HoldsLock, FreshAt, Agreed, Builder
<1>8. QED
  BY <1>5, <1>6, <1>7 DEF Upheld

LEMMA OrderlyInv == Orderly => (Spec => []Inv)
<1>1. SUFFICES ASSUME Orderly
               PROVE  Spec => []Inv
  OBVIOUS
<1>2. Init => Inv
  BY <1>1, InitOK, InitKept DEF Inv, Upheld
<1>3. Inv /\ [Next]_vars => Inv'
  <2>1. SUFFICES ASSUME Inv, [Next]_vars
                 PROVE  Inv'
    OBVIOUS
  <2>2. TypeOK'
    BY <2>1, NextOK DEF Inv
  <2>3. Upheld'
    BY <1>1, <2>1, StepKeeps
  <2>4. QED
    BY <2>2, <2>3 DEF Inv, Upheld
<1>4. QED
  BY <1>2, <1>3, PTL DEF Spec

LEMMA InvQuiet == Inv /\ Quiet => Derived(live)
<1>1. SUFFICES ASSUME Inv, Quiet
               PROVE  Derived(live)
  OBVIOUS
<1>2. \A t \in Task : ~Pending(t) /\ pc[t] \notin Builder
  BY <1>1 DEF Quiet, Pending, Builder
<1>3. QED
  BY <1>1, <1>2 DEF Inv, Agreement, Agreed

(* Every familiar list says of kinds what some list of the run's nodes     *)
(* says, each with its routes approved or without.                         *)
LEMMA FamiliarLists ==
    ASSUME NEW H \in Familiar
    PROVE  \E N \in SUBSET KnownNodes : \E R \in SUBSET N : Same(H, WithRoutes(N, R))
<1> DEFINE N == {m \in KnownNodes : \E n \in H : Kin(n, m)}
           R == {m \in N : \E n \in H : Kin(n, m) /\ n.approved # {}}
           new(m) == [m EXCEPT !.approved = IF m \in R THEN {ExitNet} ELSE {}]
<1>1. KnownNodes \subseteq HsNode
  BY SyncAssumption DEF KnownNodes
<1>2. \A n, k \in H : n.id = k.id => n = k
  BY DEF Familiar, DistinctAddrs
<1>3. ASSUME NEW n \in H, NEW m \in N, Kin(n, m)
      PROVE  Alike(n, new(m)) /\ Alike(new(m), n)
  <2>1. m \in R <=> n.approved # {}
    BY <1>2, <1>3 DEF Kin
  <2>2. Kin(new(m), m) /\ new(m).approved = IF m \in R THEN {ExitNet} ELSE {}
    <3> HIDE DEF R, N
    <3> QED
      BY <1>1, <1>3, RoutesKin DEF N
  <2> HIDE DEF new, R
  <2> QED
    BY <1>3, <2>1, <2>2 DEF Alike, Kin
<1>4. WithRoutes(N, R) = {new(m) : m \in N}
  BY DEF WithRoutes
<1>5. \A n \in H : \E m \in N : Kin(n, m)
  BY DEF Familiar
<1>6. \A m \in N : \E n \in H : Kin(n, m)
  OBVIOUS
<1>7. N \in SUBSET KnownNodes /\ R \in SUBSET N
  OBVIOUS
<1> HIDE DEF N, R, new
<1>8. Same(H, WithRoutes(N, R))
  BY <1>3, <1>4, <1>5, <1>6 DEF Same, Matches
<1> QED
  BY <1>7, <1>8

(* policy_apply.py:220-252, collector.py:132-138: the collector may push   *)
(* with a list of nodes that is a cycle old, but for any number of tasks   *)
(* and requests, nodes that join and routes that come and go meanwhile,    *)
(* never with rules, directions or notes that are not today's.             *)
THEOREM NothingRevokedHolds ==
    ASSUME Orderly
    PROVE  Spec => []NothingRevokedReturns
<1>1. Inv => NothingRevokedReturns
  <2>1. SUFFICES ASSUME Inv, Quiet
                 PROVE  \E N \in SUBSET KnownNodes : \E R \in SUBSET N :
                            live = PolicyOf(rules, dirs, meta, WithRoutes(N, R), {})
    BY DEF NothingRevokedReturns
  <2>2. PICK H \in Familiar : live = PolicyOf(rules, dirs, meta, H, {})
    BY <2>1, InvQuiet DEF Derived, Lists
  <2>3. PICK N \in SUBSET KnownNodes : \E R \in SUBSET N : Same(H, WithRoutes(N, R))
    BY FamiliarLists
  <2>4. PICK R \in SUBSET N : Same(H, WithRoutes(N, R))
    BY <2>3
  <2>5. QED
    BY <2>2, <2>4, PolicySeesKinds
<1>2. QED
  BY <1>1, OrderlyInv, PTL

(* policy_apply.write_lock, "take it before changing what the policy       *)
(* depends on and hold it until the push": within the discipline, for any  *)
(* number of requests in any order, the policy in force follows from what  *)
(* is stored whenever nothing is under way.                                *)
THEOREM LockedAgreement ==
    ASSUME Disciplined
    PROVE  Spec => []QuietAgreement
<1>1. Orderly
  BY DEF Disciplined
<1>2. Inv => QuietAgreement
  <2>1. SUFFICES ASSUME Inv, Quiet
                 PROVE  live = Wanted
    BY DEF QuietAgreement
  <2>2. PICK N : Same(N, hsNodes) /\ live = PolicyOf(rules, dirs, meta, N, {})
    BY <2>1, InvQuiet DEF Derived, Lists
  <2>3. QED
    BY <2>2, PolicySeesKinds DEF Wanted
<1>3. QED
  BY <1>1, <1>2, OrderlyInv, PTL

(* Then no personal device can be reached at rest either: the policy in    *)
(* force is a generated one, over the nodes and notes of the moment.       *)
THEOREM LockedIsolation ==
    ASSUME Disciplined
    PROVE  Spec => []QuietIsolation
<1>1. TypeOK /\ QuietAgreement => QuietIsolation
  <2>1. SUFFICES ASSUME TypeOK, live = Wanted
                 PROVE  IsolationInForce
    BY DEF QuietAgreement, QuietIsolation
  <2>2. hsNodes \in SUBSET HsNode /\ DistinctAddrs(hsNodes)
    BY <2>1 DEF TypeOK
  <2>3. Isolated(PolicyOf(rules, dirs, meta, hsNodes, {}), hsNodes, meta)
    BY <2>2, PolicyIsolatesDevices
  <2>4. QED
    BY <2>1, <2>3 DEF IsolationInForce, Wanted
<1>2. QED
  BY <1>1, TypeCorrect, LockedAgreement, PTL

-----------------------------------------------------------------------------
(* How a task goes on: it keeps its request, or it is done with it.        *)
Stays(t) == op(t)' = op(t) /\ arg(t)' = arg(t)
Ends(t) == pc'[t] = "idle" /\ op(t)' = "none"

LEMMA EndEnds ==
    ASSUME TasksOK, NEW t \in Task, End(t)
    PROVE  Others(t) /\ Ends(t) /\ why'[t] = "none"
<1>1. Moves(t, "idle", "none", NoJob, NoSeen, NoPolicy)
  BY DEF End, Moves
<1>2. Others(t) /\ pc'[t] = "idle" /\ why'[t] = "none" /\ job'[t] = NoJob
  BY <1>1, MovesOthers
<1> QED
  BY <1>2 DEF Ends, op, NoJob

LEMMA ExtraFields ==
    ASSUME TasksOK, NEW t \in Task, NEW X, job' = [job EXCEPT ![t].extra = X]
    PROVE  /\ job'[t].keep = keep(t) /\ job'[t].extra = X
           /\ job'[t].op = op(t) /\ job'[t].arg = arg(t)
           /\ job'[t].gw = job[t].gw /\ job'[t].was = job[t].was
           /\ \A u \in Task \ {t} : job'[u] = job[u]
<1>1. JobOK(job[t])
  BY DEF TasksOK
<1>2. job' = [u \in Task |-> IF u = t THEN [job[t] EXCEPT !.extra = X] ELSE job[u]]
  BY DEF TasksOK
<1>3. job'[t] = [job[t] EXCEPT !.extra = X]
  BY <1>2
<1>4. [job[t] EXCEPT !.extra = X]
          \in [op : {op(t)}, arg : {arg(t)}, keep : {keep(t)}, was : {job[t].was},
               gw : {job[t].gw}, extra : {X}]
  BY <1>1 DEF JobOK, op, arg, keep
<1>5. QED
  BY <1>2, <1>3, <1>4

(* The other places a step of t leaves alone.                              *)
Apart(t) ==
    \A u \in Task \ {t} : /\ pc'[u] = pc[u] /\ why'[u] = why[u]
                          /\ seen'[u] = seen[u] /\ pol'[u] = pol[u]

LEMMA SameJob ==
    ASSUME NEW t \in Task, Apart(t), UNCHANGED job
    PROVE  Others(t) /\ Stays(t)
  BY DEF Apart, Others, Stays, op, arg

LEMMA KeptJob ==
    ASSUME TasksOK, NEW t \in Task, Apart(t), NEW X, job' = [job EXCEPT ![t].keep = X]
    PROVE  Others(t) /\ Stays(t)
  BY KeepFields DEF Apart, Others, Stays, op, arg

LEMMA AddedJob ==
    ASSUME TasksOK, NEW t \in Task, Apart(t), NEW X, job' = [job EXCEPT ![t].extra = X]
    PROVE  Others(t) /\ Stays(t)
  BY ExtraFields DEF Apart, Others, Stays, op, arg

LEMMA NoteFrame ==
    ASSUME TasksOK, NEW t \in Task, AfterNote(t), UNCHANGED <<seen, pol>>
    PROVE  Others(t) /\ Stays(t)
<1>1. Apart(t)
  BY DEF AfterNote, StartPush, Goto, StartApply, TasksOK, Apart
<1>2. CASE job[t].gw
  <2> DEFINE X == {gateway_tag(arg(t).node)}
  <2>1. job' = [job EXCEPT ![t].extra = X]
    BY <1>2 DEF AfterNote
  <2> HIDE DEF X
  <2> QED
    BY <1>1, <2>1, AddedJob
<1>3. CASE UNCHANGED job
  BY <1>1, <1>3, SameJob
<1> QED
  BY <1>2, <1>3 DEF AfterNote

LEMMA SettleFrame ==
    ASSUME TasksOK, NEW t \in Task, NEW ok, Settle(t, ok)
    PROVE  Others(t) /\ (Stays(t) \/ Ends(t))
<1>1. CASE End(t)
  BY <1>1, EndEnds
<1>2. CASE job' = [job EXCEPT ![t].extra = {MARKER_TAG}] /\ ~End(t)
  <2>1. Apart(t)
    BY <1>2 DEF Settle, Goto, TasksOK, Apart, building
  <2> QED
    BY <1>2, <2>1, AddedJob
<1>3. CASE UNCHANGED job /\ ~End(t)
  <2>1. Apart(t)
    BY <1>3 DEF Settle, Goto, TasksOK, Apart, building
  <2> QED
    BY <1>3, <2>1, SameJob
<1> QED
  BY <1>1, <1>2, <1>3 DEF Settle

LEMMA Frame ==
    ASSUME TasksOK, NEW t \in Task, Acquire(t) \/ Step(t)
    PROVE  Others(t) /\ (Stays(t) \/ Ends(t))
<1> USE DEF building
<1>1. CASE Acquire(t)
  <2>1. CASE End(t)
    BY <2>1, EndEnds
  <2>2. CASE ~End(t)
    <3>1. Apart(t)
      BY <1>1, <2>2 DEF Acquire, Goto, TasksOK, Apart
    <3> DEFINE X == IF op(t) = "put_rules" THEN rules ELSE dirs
    <3>2. UNCHANGED job \/ job' = [job EXCEPT ![t].keep = X]
      BY <1>1, <2>2 DEF Acquire
    <3> HIDE DEF X
    <3> QED
      BY <3>1, <3>2, SameJob, KeptJob
  <2> QED
    BY <2>1, <2>2
<1>2. CASE Save(t) \/ Undo(t) \/ RefreshWrite(t) \/ set_agent_exit(t)
           \/ set_gateway_clients(t)
  <2>1. Apart(t) /\ UNCHANGED job
    BY <1>2 DEF Save, Undo, RefreshWrite, set_agent_exit, AfterExit, set_gateway_clients,
       StartPush, StartApply, TasksOK, Apart
  <2> QED
    BY <2>1, SameJob
<1>3. CASE RefreshRead(t)
  <2>1. CASE End(t)
    BY <2>1, EndEnds
  <2>2. CASE ~End(t)
    <3>1. Apart(t) /\ job' = [job EXCEPT ![t].keep = dirs]
      BY <1>3, <2>2 DEF RefreshRead, Goto, TasksOK, Apart
    <3> QED
      BY <3>1, KeptJob
  <2> QED
    BY <2>1, <2>2
<1>4. CASE set_node_meta(t) \/ drop_gateway(t)
  <2>1. CASE AfterNote(t)
    BY <1>4, <2>1, NoteFrame DEF set_node_meta, drop_gateway
  <2>2. CASE ~AfterNote(t)
    <3>1. Apart(t) /\ UNCHANGED job
      BY <1>4, <2>2 DEF set_node_meta, drop_gateway, Goto, TasksOK, Apart
    <3> QED
      BY <3>1, SameJob
  <2> QED
    BY <2>1, <2>2
<1>5. CASE set_node_tags(t) \/ Untick(t) \/ ApproveTicked(t) \/ WriteAgent(t)
           \/ HsDelete(t)
  <2>1. CASE End(t)
    BY <2>1, EndEnds
  <2>2. CASE ~End(t)
    <3>1. Apart(t) /\ UNCHANGED job
      BY <1>5, <2>2 DEF set_node_tags, Untick, ApproveTicked, WriteAgent, HsDelete, Goto,
         TasksOK, Apart
    <3> QED
      BY <3>1, SameJob
  <2> QED
    BY <2>1, <2>2
<1>6. CASE ForgetRead(t)
  <2>1. Apart(t) /\ job' = [job EXCEPT ![t].keep = dirs]
    BY <1>6 DEF ForgetRead, Goto, TasksOK, Apart
  <2> QED
    BY <2>1, KeptJob
<1>7. CASE ForgetCommit(t)
  <2>1. CASE End(t)
    BY <2>1, EndEnds
  <2>2. CASE ~End(t)
    <3>1. Apart(t) /\ job' = [job EXCEPT ![t].keep = {}]
      BY <1>7, <2>2 DEF ForgetCommit, StartApply, TasksOK, Apart
    <3> QED
      BY <3>1, KeptJob
  <2> QED
    BY <2>1, <2>2
<1>8. CASE BuildRules(t) \/ BuildMeta(t) \/ BuildRouting(t)
  <2>1. Apart(t) /\ UNCHANGED job
    BY <1>8 DEF BuildRules, BuildMeta, BuildRouting, Goto, TasksOK, Apart
  <2> QED
    BY <2>1, SameJob
<1>9. CASE BuildNodes(t) \/ Send(t)
  <2>1. CASE \E ok : Settle(t, ok)
    BY <2>1, SettleFrame
  <2>2. CASE ~ \E ok : Settle(t, ok)
    <3>1. Apart(t) /\ UNCHANGED job
      BY <1>9, <2>2 DEF BuildNodes, Send, Goto, TasksOK, Apart
    <3> QED
      BY <3>1, SameJob
  <2> QED
    BY <2>1, <2>2
<1>10. CASE Approve(t) \/ ApproveDirections(t)
  <2>1. CASE End(t)
    BY <2>1, EndEnds
  <2>2. CASE ~End(t)
    <3>1. Apart(t) /\ UNCHANGED job
      BY <1>10, <2>2 DEF Approve, ApproveDirections, Goto, TasksOK, Apart
    <3> QED
      BY <3>1, SameJob
  <2> QED
    BY <2>1, <2>2
<1> QED
  BY <1>1, <1>2, <1>3, <1>4, <1>5, <1>6, <1>7, <1>8, <1>9, <1>10 DEF Step

-----------------------------------------------------------------------------
(* How soon a server that turns into a personal device is cut off.  Nodes  *)
(* leave and their routes change, but who stays keeps its address, its     *)
(* tags and the note of its kind (Follows).  A policy built on an older    *)
(* list of nodes spares every node that was a device in that list and is   *)
(* in X (Mirrors, Spares); and while a task builds, it holds the lock, so  *)
(* no cycle ends and nothing is added to what has to be spared.            *)

Follows(N, m, H, k) ==
    \A n \in H : \E o \in N : Kin(o, n) /\ m[o.id].kind = k[n.id].kind

Mirrors(N, m, H, k, X) ==
    /\ N \in SUBSET HsNode /\ DistinctAddrs(N) /\ Follows(N, m, H, k)
    /\ \A n \in H, o \in N : n.id \in X /\ o.id = n.id => effective_kind(o, m) # "server"

Spares(p, H, X) ==
    \A r \in p.acls : \A d \in r.dst :
        Reach(d, H) \cap ipv4({n \in H : n.id \in X}) = {}

LEMMA FollowsOn ==
    ASSUME NEW N, NEW m, NEW H, NEW k, NEW J, NEW l,
           Follows(N, m, H, k), Follows(H, k, J, l)
    PROVE  Follows(N, m, J, l)
<1>1. ASSUME NEW n \in J
      PROVE  \E o \in N : Kin(o, n) /\ m[o.id].kind = l[n.id].kind
  <2>1. PICK h \in H : Kin(h, n) /\ k[h.id].kind = l[n.id].kind
    BY DEF Follows
  <2>2. PICK o \in N : Kin(o, h) /\ m[o.id].kind = k[h.id].kind
    BY DEF Follows
  <2> QED
    BY <2>1, <2>2 DEF Kin
<1> QED
  BY <1>1 DEF Follows

LEMMA MirrorsStill ==
    ASSUME NEW N, NEW m, NEW H, NEW k, NEW J, NEW l, NEW X, NEW Y \in SUBSET X,
           Mirrors(N, m, H, k, X), Follows(H, k, J, l)
    PROVE  Mirrors(N, m, J, l, Y)
<1>1. Follows(N, m, J, l)
  BY FollowsOn DEF Mirrors
<1>2. ASSUME NEW n \in J, NEW o \in N, n.id \in Y, o.id = n.id
      PROVE  effective_kind(o, m) # "server"
  <2>1. PICK h \in H : Kin(h, n)
    BY DEF Follows
  <2> QED
    BY <1>2, <2>1 DEF Mirrors, Kin
<1> QED
  BY <1>1, <1>2 DEF Mirrors

(* The notes may be read later than the nodes.                             *)
LEMMA MirrorsAnew ==
    ASSUME NEW N, NEW m, NEW H, NEW k, NEW X, Mirrors(N, m, H, k, X)
    PROVE  Mirrors(N, k, H, k, X)
<1>1. ASSUME NEW n \in H, NEW o \in N, o.id = n.id
      PROVE  m[o.id].kind = k[o.id].kind /\ Kin(o, n)
  <2>1. PICK q \in N : Kin(q, n) /\ m[q.id].kind = k[n.id].kind
    BY DEF Mirrors, Follows
  <2>2. q = o
    BY <1>1, <2>1 DEF Mirrors, Kin, DistinctAddrs
  <2> QED
    BY <1>1, <2>1, <2>2
<1>2. Follows(N, k, H, k)
  BY DEF Mirrors, Follows, Kin
<1>3. \A n \in H, o \in N :
          n.id \in X /\ o.id = n.id => effective_kind(o, k) # "server"
  BY <1>1 DEF Mirrors, effective_kind
<1> QED
  BY <1>2, <1>3 DEF Mirrors

LEMMA MirrorsNow ==
    ASSUME TypeOK, NEW X, X \subseteq personal
    PROVE  Mirrors(hsNodes, meta, hsNodes, meta, X)
<1>1. hsNodes \in SUBSET HsNode /\ DistinctAddrs(hsNodes)
  BY DEF TypeOK
<1>2. Follows(hsNodes, meta, hsNodes, meta)
  BY DEF Follows, Kin
<1>3. ASSUME NEW n \in hsNodes, NEW o \in hsNodes, n.id \in X, o.id = n.id
      PROVE  effective_kind(o, meta) # "server"
  <2>1. PICK d \in devices(hsNodes, meta) : d.id = n.id
    BY <1>3 DEF personal
  <2>2. d \in hsNodes /\ effective_kind(d, meta) # "server"
    BY DEF devices, servers
  <2>3. d = o
    BY <1>1, <1>3, <2>1, <2>2 DEF DistinctAddrs
  <2> QED
    BY <2>2, <2>3
<1> QED
  BY <1>1, <1>2, <1>3 DEF Mirrors

LEMMA ReachLess ==
    ASSUME NEW N, NEW m, NEW H, NEW k, Follows(N, m, H, k), NEW d
    PROVE  Reach(d, H) \subseteq Reach(d, N)
<1>1. ipv4({n \in H : d[2] \in n.tags}) \subseteq ipv4({n \in N : d[2] \in n.tags})
  <2>1. \A n \in H : \E o \in N : o.ip = n.ip /\ o.tags = n.tags
    BY DEF Follows, Kin
  <2> QED
    BY <2>1 DEF ipv4
<1> QED
  BY <1>1 DEF Reach

LEMMA SparesStill ==
    ASSUME NEW p, NEW H, NEW k, NEW J, NEW l, NEW X, NEW Y \in SUBSET X,
           Spares(p, H, X), Follows(H, k, J, l)
    PROVE  Spares(p, J, Y)
<1>1. ipv4({n \in J : n.id \in Y}) \subseteq ipv4({n \in H : n.id \in X})
  <2>1. \A n \in J : \E o \in H : o.ip = n.ip /\ o.id = n.id
    BY DEF Follows, Kin
  <2> QED
    BY <2>1 DEF ipv4
<1>2. ASSUME NEW r \in p.acls, NEW d \in r.dst
      PROVE  Reach(d, J) \cap ipv4({n \in J : n.id \in Y}) = {}
  <2>1. Reach(d, H) \cap ipv4({n \in H : n.id \in X}) = {}
    BY DEF Spares
  <2>2. Reach(d, J) \subseteq Reach(d, H)
    BY ReachLess
  <2> QED
    BY <1>1, <2>1, <2>2
<1> QED
  BY <1>2 DEF Spares

LEMMA BuiltSpares ==
    ASSUME NEW N, NEW m, NEW H, NEW k, NEW X, Mirrors(N, m, H, k, X),
           NEW R, NEW D, NEW e
    PROVE  Spares(PolicyOf(R, D, m, N, e), H, X)
<1> DEFINE p == PolicyOf(R, D, m, N, e)
<1>1. Isolated(p, N, m)
  BY PolicyIsolatesDevices DEF Mirrors
<1> HIDE DEF p
<1>2. ipv4({n \in H : n.id \in X}) \subseteq ipv4(devices(N, m))
  <2>1. ASSUME NEW n \in H, n.id \in X
        PROVE  \E o \in devices(N, m) : o.ip = n.ip
    <3>1. PICK o \in N : Kin(o, n)
      BY DEF Mirrors, Follows
    <3>2. effective_kind(o, m) # "server"
      BY <2>1, <3>1 DEF Mirrors, Kin
    <3> QED
      BY <3>1, <3>2 DEF devices, servers, Kin
  <2> QED
    BY <2>1 DEF ipv4
<1>3. ASSUME NEW r \in p.acls, NEW d \in r.dst
      PROVE  Reach(d, H) \cap ipv4({n \in H : n.id \in X}) = {}
  <2>1. Reach(d, N) \cap ipv4(devices(N, m)) = {}
    BY <1>1 DEF Isolated
  <2>2. Reach(d, H) \subseteq Reach(d, N)
    BY ReachLess DEF Mirrors
  <2> QED
    BY <1>2, <2>1, <2>2
<1>4. Spares(p, H, X)
  BY <1>3 DEF Spares
<1> QED
  BY <1>4 DEF p

(* What t has to spare, what it has read, where the collector may be.      *)
Barred(t) == IF t = Collector THEN settled \cup found ELSE settled
Notes(t) == IF pc[t] = "b_dirs" THEN seen[t].meta ELSE meta
Brings(t) ==
    \/ pc[t] \in {"b_meta", "b_dirs"}
    \/ t = Collector /\ pc[t] \in {"wanted", "approving", "lock", "b_rules"}
Rounds == {"idle", "wanted", "approving", "lock", "b_rules", "b_meta", "b_dirs",
           "compare", "send"}

Wary(t) ==
    /\ Brings(t) => Mirrors(seen[t].nodes, Notes(t), hsNodes, meta, Barred(t))
    /\ pc[t] \in {"compare", "send"} => Spares(pol[t], hsNodes, Barred(t))
    /\ pc[t] \in {"forget_wait", "forget"} => \A n \in hsNodes : n.id # arg(t)
    /\ IF t = Collector THEN pc[t] \in Rounds /\ (pc[t] # "idle" => op(t) = "collect")
                        ELSE op(t) # "collect" /\ pc[t] # "wanted"

Cautious ==
    /\ found \subseteq personal /\ settled \subseteq personal
    /\ Spares(live, hsNodes, settled)
    /\ \A t \in Task : Wary(t)

Follow == Follows(hsNodes, meta, hsNodes', meta')

LEMMA WaryStill ==
    ASSUME NEW u \in Task, Wary(u), Follow, pc'[u] = pc[u], job'[u] = job[u],
           seen'[u] = seen[u], pol'[u] = pol[u],
           Barred(u)' \subseteq Barred(u)
    PROVE  Wary(u)'
<1>1. ASSUME Brings(u)
      PROVE  Mirrors(seen[u].nodes, Notes(u)', hsNodes', meta', Barred(u)')
  <2>1. Mirrors(seen[u].nodes, Notes(u), hsNodes', meta', Barred(u)')
    BY <1>1, MirrorsStill DEF Wary, Follow
  <2>2. Notes(u)' = IF pc[u] = "b_dirs" THEN Notes(u) ELSE meta'
    BY DEF Notes
  <2> QED
    BY <2>1, <2>2, MirrorsAnew
<1>2. Spares(pol[u], hsNodes, Barred(u)) => Spares(pol[u], hsNodes', Barred(u)')
  BY SparesStill DEF Follow
<1>3. (\A n \in hsNodes : n.id # arg(u)) => \A n \in hsNodes' : n.id # arg(u)
  BY DEF Follow, Follows, Kin
<1>4. Brings(u)' = Brings(u) /\ op(u)' = op(u) /\ arg(u)' = arg(u)
  BY DEF Brings, op, arg
<1> QED
  BY <1>1, <1>2, <1>3, <1>4 DEF Wary

LEMMA SameFollow == UNCHANGED <<hsNodes, meta>> => Follow
  BY DEF Follow, Follows, Kin

LEMMA ApprovedKin ==
    ASSUME TypeOK, NEW t, NEW S, NEW got
    PROVE  \A m \in Approved(t, S, got) : \E n \in hsNodes : Kin(n, m)
<1>1. ASSUME NEW m \in Approved(t, S, got)
      PROVE  \E n \in hsNodes : Kin(n, m)
  <2>1. PICK n \in hsNodes : \/ m = n
                            \/ \E A : m = [n EXCEPT !.approved = A]
    BY <1>1 DEF Approved
  <2>2. n \in HsNode
    BY DEF TypeOK
  <2>3. Kin(n, n) /\ \A A : Kin([n EXCEPT !.approved = A], n)
    BY <2>2, RoutesKin DEF Kin
  <2> QED
    BY <2>1, <2>3 DEF Kin
<1> QED
  BY <1>1

LEMMA KinFollow ==
    ASSUME UNCHANGED meta, \A m \in hsNodes' : \E n \in hsNodes : Kin(n, m)
    PROVE  Follow
  BY DEF Follow, Follows, Kin

LEMMA KindsFollow ==
    ASSUME UNCHANGED hsNodes, \A n \in hsNodes : meta'[n.id].kind = meta[n.id].kind
    PROVE  Follow
  BY DEF Follow, Follows, Kin

LEMMA FollowsStep ==
    ASSUME Steady, Inv, NEW t \in Task, Wary(t), Arrive(t) \/ Acquire(t) \/ Step(t)
    PROVE  Follow
<1>1. /\ TasksOK /\ JobOK(job[t]) /\ Phase(pc[t], why[t], op(t)) /\ Plain(t)
      /\ PlainJob(job[t]) /\ World /\ TypeOK
      /\ meta \in [Node -> MetaEntry] /\ hsNodes \in SUBSET HsNode
  BY Facts DEF Inv, TypeOK
<1>2. CASE Arrive(t)
  <2>1. UNCHANGED <<hsNodes, meta>>
    BY <1>2 DEF Arrive, PutRules, CreateDirection, DeleteDirection, RefreshDirections,
       SetMeta, SetTags, DeleteNode, SetRoutes, PutAgent, SetExitClients, Request,
       headscale, database
  <2> QED
    BY <2>1, SameFollow
<1>3. CASE \/ Acquire(t) \/ Save(t) \/ Undo(t) \/ RefreshRead(t) \/ RefreshWrite(t)
           \/ set_agent_exit(t) \/ Untick(t) \/ WriteAgent(t) \/ ForgetRead(t)
           \/ BuildRules(t) \/ BuildNodes(t) \/ BuildMeta(t) \/ BuildRouting(t)
           \/ Send(t) \/ Approve(t)
  <2>1. UNCHANGED <<hsNodes, meta>>
    BY <1>3 DEF Acquire, Save, Undo, RefreshRead, RefreshWrite, set_agent_exit, Untick,
       WriteAgent, ForgetRead, BuildRules, BuildNodes, BuildMeta, BuildRouting, Send,
       Approve, headscale, database
  <2> QED
    BY <2>1, SameFollow
<1>4. ~drop_gateway(t) /\ ~set_node_tags(t)
  BY <1>1 DEF drop_gateway, set_node_tags, Plain
<1>5. CASE set_node_meta(t)
  <2>1. op(t) = "set_meta"
    BY <1>1, <1>5 DEF set_node_meta, Phase
  <2>2. arg(t) \in Edits /\ arg(t) \in MetaEdit
    BY <1>1, <2>1, SyncAssumption DEF JobOK, op, arg
  <2>3. arg(t).node \in Node /\ arg(t).field \in {"admin", "via"}
    BY <2>2 DEF Steady, Orderly, Unmarked, MetaEdit
  <2> DEFINE e == arg(t)
             old == meta[e.node]
             new == CASE e.field = "kind"    -> [old EXCEPT !.kind = e.value]
                      [] e.field = "admin"   -> [old EXCEPT !.admin = e.value]
                      [] e.field = "gateway" -> [old EXCEPT !.gateway = e.value]
                      [] OTHER               -> [old EXCEPT !.via = e.value]
  <2>4. meta' = [meta EXCEPT ![e.node] = new] /\ UNCHANGED hsNodes
    BY <1>5 DEF set_node_meta, headscale
  <2>5. old \in MetaEntry
    BY <1>1, <2>3
  <2>6. new.kind = old.kind
    BY <2>3, <2>5 DEF MetaEntry
  <2> HIDE DEF new
  <2>7. \A n \in hsNodes : meta'[n.id].kind = meta[n.id].kind
    BY <1>1, <2>3, <2>4, <2>6 DEF HsNode
  <2> QED
    BY <2>4, <2>7, KindsFollow
<1>6. CASE set_gateway_clients(t)
  <2> DEFINE V(n) == IF n \in arg(t).devices THEN meta[n].via \cup {arg(t).node}
                     ELSE meta[n].via \ {arg(t).node}
  <2>1. ASSUME NEW n \in Node
        PROVE  \A X : [meta[n] EXCEPT !.via = X].kind = meta[n].kind
    <3>1. meta[n] \in MetaEntry
      BY <1>1
    <3> QED
      BY <3>1 DEF MetaEntry
  <2>2. UNCHANGED hsNodes
        /\ meta' = [n \in Node |-> IF n \notin keep(t) THEN meta[n]
                                   ELSE [meta[n] EXCEPT !.via = V(n)]]
    BY <1>6 DEF set_gateway_clients, headscale
  <2> HIDE DEF V
  <2>3. \A n \in hsNodes : meta'[n.id].kind = meta[n.id].kind
    BY <1>1, <2>1, <2>2 DEF HsNode
  <2> QED
    BY <2>2, <2>3, KindsFollow
<1>7. CASE HsDelete(t)
  <2>1. UNCHANGED meta /\ hsNodes' \subseteq hsNodes
    BY <1>7 DEF HsDelete, database
  <2> QED
    BY <2>1, KinFollow DEF Kin
<1>8. CASE ApproveTicked(t)
  <2>1. UNCHANGED meta
    BY <1>8 DEF ApproveTicked, database
  <2>2. ASSUME NEW m \in hsNodes'
        PROVE  \E n \in hsNodes : Kin(n, m)
    <3>1. PICK n \in hsNodes : \/ m = n
                              \/ \E A : m = [n EXCEPT !.approved = A]
      BY <1>8, <2>2 DEF ApproveTicked
    <3>2. n \in HsNode
      BY <1>1
    <3>3. Kin(n, n) /\ \A A : Kin(n, [n EXCEPT !.approved = A])
      BY <3>2, RoutesKin DEF Kin
    <3> QED
      BY <3>1, <3>3
  <2> QED
    BY <2>1, <2>2, KinFollow
<1>9. CASE ApproveDirections(t)
  <2>1. UNCHANGED meta /\ \E S, got : hsNodes' = Approved(t, S, got)
    BY <1>9 DEF ApproveDirections
  <2> QED
    BY <1>1, <2>1, ApprovedKin, KinFollow
<1>10. CASE ForgetCommit(t)
  <2>1. op(t) = "delete_node" /\ pc[t] = "forget" /\ UNCHANGED hsNodes
    BY <1>1, <1>10 DEF ForgetCommit, Phase, headscale
  <2>2. arg(t) \in Node
    BY <1>1, <2>1 DEF JobOK, op, arg
  <2>3. \A n \in hsNodes : n.id # arg(t) /\ n.id \in Node
    BY <1>1, <2>1 DEF Wary, HsNode
  <2>4. CASE UNCHANGED meta
    BY <2>1, <2>4, SameFollow
  <2>5. CASE meta' = [without_gateway(meta, arg(t)) EXCEPT ![arg(t)] = NoMeta]
    <3> DEFINE w == without_gateway(meta, arg(t))
    <3>1. \A n \in Node : w[n] = [meta[n] EXCEPT !.via = meta[n].via \ {arg(t)}]
      BY DEF without_gateway
    <3>2. \A n \in Node : w[n].kind = meta[n].kind
      BY <1>1, <3>1 DEF MetaEntry
    <3>3. w \in [Node -> MetaEntry]
      BY <1>1, WithoutGatewayTyped
    <3> HIDE DEF w
    <3>4. meta' = [w EXCEPT ![arg(t)] = NoMeta]
      BY <2>5 DEF w
    <3>5. \A n \in hsNodes : meta'[n.id].kind = meta[n.id].kind
      BY <2>3, <3>2, <3>3, <3>4
    <3> QED
      BY <2>1, <3>5, KindsFollow
  <2> QED
    BY <1>10, <2>4, <2>5 DEF ForgetCommit, database
<1> QED
  BY <1>2, <1>3, <1>4, <1>5, <1>6, <1>7, <1>8, <1>9, <1>10 DEF Step

(* What t does not read or send, and does not delete, needs no care.       *)
Careful == {"b_meta", "b_dirs", "compare", "send", "forget_wait", "forget", "wanted"}

LEMMA ArriveElsewhere ==
    ASSUME TasksOK, NEW t \in Task, Arrive(t)
    PROVE  /\ t # Collector /\ Others(t) /\ UNCHANGED live
           /\ pc'[t] \notin Careful /\ op(t)' # "collect"
<1> DEFINE Asked(j, where, what) ==
        /\ Request(t, j, where, what) /\ where \notin Careful /\ j.op # "collect"
<1>1. ASSUME NEW j, NEW where, NEW what, Asked(j, where, what)
      PROVE  /\ t # Collector /\ Others(t) /\ UNCHANGED live
             /\ pc'[t] \notin Careful /\ op(t)' # "collect"
  <2>1. Moves(t, where, what, j, seen[t], pol[t])
    BY <1>1, Unchanged DEF Request, building, Moves
  <2>2. Others(t) /\ pc'[t] = where /\ job'[t] = j
    BY <2>1, MovesOthers
  <2> QED
    BY <1>1, <2>2 DEF Request, headscale, op
<1>2. \E j, where, what : Asked(j, where, what)
  <2> USE DEF Careful
  <2>1. CASE PutRules(t)
    BY <2>1, AskOp DEF PutRules
  <2>2. CASE CreateDirection(t)
    BY <2>2, AskOp DEF CreateDirection
  <2>3. CASE DeleteDirection(t)
    BY <2>3, AskOp DEF DeleteDirection
  <2>4. CASE RefreshDirections(t)
    BY <2>4, AskOp DEF RefreshDirections
  <2>5. CASE DeleteNode(t)
    BY <2>5, AskOp DEF DeleteNode
  <2>6. CASE SetRoutes(t) \/ PutAgent(t)
    BY <2>6, AskOp DEF SetRoutes, PutAgent
  <2>7. CASE SetMeta(t)
    <3>1. PICK e \in Edits, n \in hsNodes :
              Request(t, [Ask("set_meta", e) EXCEPT
                            !.keep = n.tags, !.was = meta[e.node].gateway,
                            !.gw = eff_gateway(e)], "note", "none")
      BY <2>7 DEF SetMeta
    <3> DEFINE j == [Ask("set_meta", e) EXCEPT !.keep = n.tags,
                        !.was = meta[e.node].gateway, !.gw = eff_gateway(e)]
    <3>2. j \in [op : {"set_meta"}, arg : {e}, keep : {n.tags},
                 was : {meta[e.node].gateway}, gw : {eff_gateway(e)}, extra : {{}}]
      BY DEF Ask, NoJob
    <3>3. j.op = "set_meta"
      BY <3>2
    <3> HIDE DEF j
    <3>4. Asked(j, "note", "none")
      BY <3>1, <3>3 DEF j
    <3> QED
      BY <3>4
  <2>8. CASE SetTags(t)
    <3>1. PICK e \in Retags, n \in hsNodes, where \in {"tags", "b_rules"} :
              LET want == keep_tagged(e.roles \cup kept_tags(n))
              IN  Request(t, [Ask("set_tags", e) EXCEPT
                                !.keep = want,
                                !.extra = IF e.roles # {} THEN e.roles
                                                          ELSE {MARKER_TAG}],
                          where, "declare")
      BY <2>8, Zenon DEF SetTags
    <3> DEFINE want == keep_tagged(e.roles \cup kept_tags(n))
               extra == IF e.roles # {} THEN e.roles ELSE {MARKER_TAG}
               j == [Ask("set_tags", e) EXCEPT !.keep = want, !.extra = extra]
    <3>2. Request(t, j, where, "declare")
      BY <3>1
    <3> HIDE DEF want, extra
    <3>3. j \in [op : {"set_tags"}, arg : {e}, keep : {want}, was : {FALSE},
                 gw : {FALSE}, extra : {extra}]
      BY DEF Ask, NoJob
    <3>4. j.op = "set_tags"
      BY <3>3
    <3> HIDE DEF j
    <3>5. Asked(j, where, "declare")
      BY <3>2, <3>4
    <3> QED
      BY <3>5
  <2>9. CASE SetExitClients(t)
    <3> DEFINE others == {m.id : m \in devices(hsNodes, meta)}
    <3>1. PICK c \in Clients :
              Request(t, [Ask("set_exit_clients", c) EXCEPT !.keep = others],
                      "clients", "none")
      BY <2>9 DEF SetExitClients
    <3> HIDE DEF others
    <3> DEFINE j == [Ask("set_exit_clients", c) EXCEPT !.keep = others]
    <3>2. j \in [op : {"set_exit_clients"}, arg : {c}, keep : {others}, was : {FALSE},
                 gw : {FALSE}, extra : {{}}]
      BY DEF Ask, NoJob
    <3>3. j.op = "set_exit_clients"
      BY <3>2
    <3> HIDE DEF j
    <3>4. Asked(j, "clients", "none")
      BY <3>1, <3>3 DEF j
    <3> QED
      BY <3>4
  <2> QED
    BY <2>1, <2>2, <2>3, <2>4, <2>5, <2>6, <2>7, <2>8, <2>9 DEF Arrive
<1> HIDE DEF Asked
<1> QED
  BY <1>1, <1>2

LEMMA StepElsewhere ==
    ASSUME TasksOK, ~Fault, NEW t \in Task, op(t) # "collect",
           \/ Acquire(t) \/ Save(t) \/ Undo(t) \/ RefreshRead(t) \/ RefreshWrite(t)
           \/ set_node_meta(t) \/ drop_gateway(t) \/ set_node_tags(t)
           \/ set_agent_exit(t) \/ Untick(t) \/ ApproveTicked(t) \/ WriteAgent(t)
           \/ set_gateway_clients(t) \/ ForgetCommit(t) \/ BuildRules(t)
           \/ Send(t) \/ Approve(t) \/ ApproveDirections(t)
    PROVE  pc'[t] \notin Careful
<1>1. CASE End(t)
  BY <1>1 DEF End, TasksOK, Careful
<1>2. CASE ~End(t)
  <2> USE <1>2 DEF Goto, StartPush, StartApply, TasksOK, Careful
  <2>1. CASE Acquire(t) \/ Save(t) \/ Undo(t) \/ RefreshRead(t) \/ RefreshWrite(t)
    BY <2>1 DEF Acquire, Save, Undo, RefreshRead, RefreshWrite
  <2>2. CASE set_node_meta(t) \/ drop_gateway(t) \/ set_node_tags(t) \/ set_agent_exit(t)
             \/ Untick(t) \/ ApproveTicked(t) \/ WriteAgent(t) \/ set_gateway_clients(t)
    BY <2>2 DEF set_node_meta, drop_gateway, set_node_tags, set_agent_exit, Untick,
       ApproveTicked, WriteAgent, set_gateway_clients, AfterNote, AfterExit
  <2>3. CASE ForgetCommit(t) \/ BuildRules(t) \/ Approve(t) \/ ApproveDirections(t)
    BY <2>3 DEF ForgetCommit, BuildRules, Approve, ApproveDirections
  <2>4. CASE Send(t)
    <3>1. PICK ok : Settle(t, ok)
      BY <2>4 DEF Send
    <3> QED
      BY <3>1 DEF Settle
  <2> QED
    BY <2>1, <2>2, <2>3, <2>4
<1> QED
  BY <1>1, <1>2

(* A request: it reads today's nodes and builds on them.                   *)
LEMMA RequestWary ==
    ASSUME Steady, Inv, Cautious, NEW t \in Task \ {Collector},
           Arrive(t) \/ Acquire(t) \/ Step(t), settled' \subseteq settled
    PROVE  /\ Follow /\ Others(t) /\ Wary(t)'
           /\ UNCHANGED live \/ (pc[t] = "send" /\ live' = pol[t])
<1>1. /\ TasksOK /\ Phase(pc[t], why[t], op(t)) /\ Plain(t) /\ TypeOK /\ ~Fault
      /\ Wary(t) /\ settled \subseteq personal /\ seen[t] \in Seen
  BY Facts DEF Inv, TypeOK, TasksOK, Cautious, World, Fault
<1>2. Follow
  BY <1>1, FollowsStep
<1>3. ASSUME Others(t), pc'[t] \notin Careful, op(t)' # "collect"
      PROVE  Wary(t)'
  BY <1>3 DEF Wary, Brings, Careful
<1>4. CASE Arrive(t)
  BY <1>1, <1>2, <1>3, <1>4, ArriveElsewhere
<1>5. CASE Acquire(t) \/ Step(t)
  <2>1. Others(t) /\ op(t) # "collect" /\ op(t)' # "collect"
    BY <1>1, <1>5, Frame DEF Stays, Ends, Wary
  <2>2. CASE BuildNodes(t)
    <3>1. seen' = [seen EXCEPT ![t].nodes = hsNodes] /\ Goto(t, "b_meta")
          /\ UNCHANGED <<hsNodes, live, meta>>
      BY <1>1, <2>2 DEF BuildNodes, headscale, database
    <3>2. pc'[t] = "b_meta" /\ seen'[t].nodes = hsNodes
      BY <1>1, <3>1 DEF TasksOK, Goto, Seen
    <3>3. Mirrors(hsNodes, meta, hsNodes, meta, settled')
      BY <1>1, MirrorsNow
    <3> QED
      BY <1>2, <2>1, <3>1, <3>2, <3>3 DEF Wary, Brings, Notes, Barred
  <2>3. CASE BuildMeta(t)
    <3>1. /\ pc[t] = "b_meta" /\ Goto(t, "b_dirs")
          /\ seen' = [seen EXCEPT ![t].meta = meta]
          /\ UNCHANGED <<hsNodes, live, meta>>
      BY <2>3 DEF BuildMeta, headscale, database
    <3>2. pc'[t] = "b_dirs" /\ seen'[t].nodes = seen[t].nodes /\ seen'[t].meta = meta
      BY <1>1, <3>1 DEF TasksOK, Goto, Seen
    <3>3. Mirrors(seen[t].nodes, meta, hsNodes, meta, settled)
      BY <1>1, <3>1 DEF Wary, Brings, Notes, Barred
    <3>4. Mirrors(seen[t].nodes, meta, hsNodes, meta, settled')
      BY <3>3 DEF Mirrors
    <3> QED
      BY <1>2, <2>1, <3>1, <3>2, <3>4 DEF Wary, Brings, Notes, Barred
  <2>4. CASE BuildRouting(t)
    <3> DEFINE s == seen[t]
               q == PolicyOf(s.rules, dirs, s.meta, s.nodes, {})
    <3>1. /\ pc[t] = "b_dirs" /\ Goto(t, "send") /\ pol' = [pol EXCEPT ![t] = q]
          /\ UNCHANGED <<hsNodes, live, meta>>
      BY <1>1, <2>1, <2>4 DEF BuildRouting, Plain, headscale, database
    <3>2. Mirrors(s.nodes, s.meta, hsNodes, meta, settled)
      BY <1>1, <3>1 DEF Wary, Brings, Notes, Barred
    <3>3. Spares(q, hsNodes, settled)
      BY <3>2, BuiltSpares
    <3> HIDE DEF q
    <3>4. pc'[t] = "send" /\ pol'[t] = q
      BY <1>1, <3>1 DEF TasksOK, Goto
    <3>5. Spares(q, hsNodes, settled')
      BY <1>2, <3>1, <3>3, SparesStill DEF Follow
    <3> QED
      BY <1>2, <2>1, <3>1, <3>4, <3>5 DEF Wary, Brings, Barred
  <2>5. CASE HsDelete(t)
    <3>1. /\ hsNodes' = {n \in hsNodes : n.id # arg(t)} /\ Goto(t, "forget_wait")
          /\ UNCHANGED <<live, job>>
      BY <1>1, <2>5 DEF HsDelete
    <3>2. pc'[t] = "forget_wait" /\ arg(t)' = arg(t)
      BY <1>1, <3>1 DEF TasksOK, Goto, arg
    <3> QED
      BY <1>2, <2>1, <3>1, <3>2 DEF Wary, Brings
  <2>6. CASE ForgetRead(t)
    <3>1. /\ pc[t] = "forget_wait" /\ Goto(t, "forget") /\ UNCHANGED <<hsNodes, live>>
          /\ job' = [job EXCEPT ![t].keep = dirs]
      BY <2>6 DEF ForgetRead, headscale
    <3>2. pc'[t] = "forget" /\ arg(t)' = arg(t)
      BY <1>1, <3>1, KeepFields DEF TasksOK, Goto, arg
    <3> QED
      BY <1>1, <1>2, <2>1, <3>1, <3>2 DEF Wary, Brings
  <2>7. CASE \/ Acquire(t) \/ Save(t) \/ Undo(t) \/ RefreshRead(t) \/ RefreshWrite(t)
             \/ set_node_meta(t) \/ drop_gateway(t) \/ set_node_tags(t)
             \/ set_agent_exit(t) \/ Untick(t) \/ ApproveTicked(t) \/ WriteAgent(t)
             \/ set_gateway_clients(t) \/ ForgetCommit(t) \/ BuildRules(t)
             \/ Send(t) \/ Approve(t) \/ ApproveDirections(t)
    <3>1. Wary(t)'
      BY <1>1, <1>3, <2>1, <2>7, StepElsewhere
    <3>2. CASE Send(t)
      BY <1>1, <1>2, <2>1, <3>1, <3>2 DEF Send
    <3>3. CASE ~Send(t)
      <4>1. UNCHANGED live
        BY <2>7, <3>3 DEF Acquire, Save, Undo, RefreshRead, RefreshWrite, set_node_meta,
           drop_gateway, set_node_tags, set_agent_exit, Untick, ApproveTicked,
           WriteAgent, set_gateway_clients, ForgetCommit, BuildRules, Approve,
           ApproveDirections, headscale
      <4> QED
        BY <1>2, <2>1, <3>1, <4>1
    <3> QED
      BY <3>2, <3>3
  <2> QED
    BY <1>5, <2>2, <2>3, <2>4, <2>5, <2>6, <2>7 DEF Step
<1> QED
  BY <1>4, <1>5
(* The collector brings the list it began with, and what it pushes spares  *)
(* what it found then.                                                     *)
LEMMA Ongoing ==
    ASSUME Inv, Record, Others(Collector), Follow, Brings(Collector), Wary(Collector),
           pc[Collector] # "b_dirs", pc'[Collector] \in Rounds \ {"idle", "compare", "send"},
           seen'[Collector].nodes = seen[Collector].nodes,
           op(Collector)' = "collect", pc[Collector] # "idle",
           pc'[Collector] = "b_dirs" => seen'[Collector].meta = meta /\ UNCHANGED meta
    PROVE  Wary(Collector)'
<1> DEFINE t == Collector
           old == seen[t].nodes
<1>1. settled' \subseteq settled /\ found' \subseteq found
  BY DEF Record, CycleStarts, CycleEnds, Rounds
<1>2. Barred(t)' \in SUBSET Barred(t)
  BY <1>1 DEF Barred
<1>3. Mirrors(old, meta, hsNodes, meta, Barred(t))
  BY DEF Wary, Notes
<1>4. Mirrors(old, meta, hsNodes', meta', Barred(t)')
  BY <1>2, <1>3, MirrorsStill DEF Follow
<1>5. Mirrors(old, meta', hsNodes', meta', Barred(t)')
  BY <1>4, MirrorsAnew
<1>6. Mirrors(seen'[t].nodes, Notes(t)', hsNodes', meta', Barred(t)')
  BY <1>4, <1>5 DEF Notes
<1> HIDE DEF old
<1> QED
  BY <1>6 DEF Wary, Brings, Rounds

LEMMA CollectorWary ==
    ASSUME Steady, Inv, Cautious, Record,
           \/ CollectNodes \/ ReadWanted \/ ApproveRequested \/ Compare
           \/ Acquire(Collector) \/ Step(Collector)
    PROVE  /\ Follow /\ Others(Collector) /\ Wary(Collector)'
           /\ \/ settled' \subseteq settled
              \/ \A u \in Task \ {Collector} : pc[u] \notin Builder
           /\ Spares(live', hsNodes', settled')
<1> DEFINE t == Collector
<1>1. /\ t \in Task /\ TasksOK /\ Plain(t) /\ HoldsLock(t) /\ seen[t] \in Seen
      /\ JobOK(job[t]) /\ Phase(pc[t], why[t], op(t)) /\ TypeOK /\ World /\ Wary(t)
      /\ settled \subseteq personal /\ found \subseteq personal
      /\ Spares(live, hsNodes, settled)
  BY Facts, SyncAssumption DEF Inv, TypeOK, TasksOK, Cautious
<1>2. ~Fault
  BY <1>1 DEF World, Fault
<1>3. ASSUME Follow, settled' \subseteq settled, UNCHANGED live
      PROVE  Spares(live', hsNodes', settled')
  BY <1>1, <1>3, SparesStill DEF Follow
<1>4. ASSUME pc[t] = "idle" \/ pc'[t] # "idle"
      PROVE  settled' \subseteq settled
  BY <1>4 DEF Record, CycleEnds
<1>5. ASSUME End(t), pc[t] \in Builder, UNCHANGED <<hsNodes, meta>>,
             Spares(live', hsNodes, settled \cup found)
      PROVE  /\ Follow /\ Others(t) /\ Wary(t)'
             /\ \A u \in Task \ {Collector} : pc[u] \notin Builder
             /\ Spares(live', hsNodes', settled')
  <2>1. Others(t) /\ Ends(t)
    BY <1>1, <1>5, EndEnds
  <2>2. Follow
    BY <1>5, SameFollow
  <2>3. settled' \in SUBSET (settled \cup found)
    BY DEF Record
  <2>4. Spares(live', hsNodes', settled')
    BY <1>5, <2>2, <2>3, SparesStill DEF Follow
  <2>5. \A u \in Task \ {Collector} : pc[u] \notin Builder
    BY <1>1, <1>5 DEF HoldsLock, Inv, Agreement
  <2> QED
    BY <2>1, <2>2, <2>4, <2>5 DEF Wary, Brings, Ends, Rounds
<1>6. CASE CollectNodes
  <2>1. /\ pc[t] = "idle" /\ seen' = [seen EXCEPT ![t].nodes = hsNodes]
        /\ job' = [job EXCEPT ![t].op = "collect"] /\ Goto(t, "wanted")
        /\ UNCHANGED <<hsNodes, live, meta, why, pol>>
    BY <1>2, <1>6 DEF CollectNodes, NoFault, headscale, database
  <2>2. /\ job'[t] = [job[t] EXCEPT !.op = "collect"]
        /\ \A u \in Task \ {t} : job'[u] = job[u]
    <3>1. job = [u \in Task |-> job[u]]
      BY <1>1 DEF TasksOK
    <3>2. job' = [u \in Task |-> IF u = t THEN [job[t] EXCEPT !.op = "collect"]
                                 ELSE job[u]]
      BY <1>1, <2>1, <3>1
    <3> QED
      BY <1>1, <3>2
  <2>3. job'[t].op = "collect"
    <3>1. job'[t] \in [op : {"collect"}, arg : {job[t].arg}, keep : {job[t].keep},
                       was : {job[t].was}, gw : {job[t].gw}, extra : {job[t].extra}]
      BY <1>1, <2>2 DEF JobOK
    <3> QED
      BY <3>1
  <2>4. Others(t) /\ pc'[t] = "wanted" /\ seen'[t].nodes = hsNodes
    BY <1>1, <2>1, <2>2 DEF Others, Goto, TasksOK, Seen
  <2>5. Follow /\ settled' \subseteq settled
    BY <1>4, <2>1, SameFollow
  <2>6. UNCHANGED personal
    BY <2>1 DEF personal
  <2>7. Barred(t)' \subseteq personal
    BY <1>1, <2>5, <2>6 DEF Barred, Record
  <2>8. Mirrors(hsNodes, meta, hsNodes, meta, Barred(t)')
    BY <1>1, <2>7, MirrorsNow
  <2>9. Wary(t)'
    BY <2>1, <2>3, <2>4, <2>8 DEF Wary, Brings, Notes, Rounds, op
  <2> QED
    BY <1>3, <2>1, <2>4, <2>5, <2>9
<1>7. CASE ReadWanted
  <2>1. pc[t] = "wanted" /\ op(t) = "collect" /\ UNCHANGED <<hsNodes, live, meta, job>>
    BY <1>1, <1>7 DEF ReadWanted, Phase, headscale, database
  <2>2. pc'[t] \in {"lock", "approving"} /\ Others(t) /\ seen'[t].nodes = seen[t].nodes
    BY <1>1, <1>7, <2>1 DEF ReadWanted, StartHeal, Goto, TasksOK, Seen, Others
  <2>3. Follow /\ settled' \subseteq settled
    BY <1>4, <2>1, <2>2, SameFollow
  <2>4. Wary(t)'
    BY <1>1, <2>1, <2>2, <2>3, Ongoing DEF Brings, Rounds, op
  <2> QED
    BY <1>3, <2>1, <2>2, <2>3, <2>4
<1>8. CASE ApproveRequested
  <2>1. /\ pc[t] = "approving" /\ op(t) = "collect" /\ UNCHANGED <<live, meta, job, pol>>
        /\ StartHeal /\ seen' = [seen EXCEPT ![t].plan = NoSeen.plan]
    BY <1>8 DEF ApproveRequested
  <2>2. pc'[t] = "lock" /\ Others(t) /\ seen'[t].nodes = seen[t].nodes
    BY <1>1, <2>1 DEF StartHeal, TasksOK, Seen, Others
  <2>3. \E S, got : hsNodes' = Approved(t, S, got)
    BY <1>8, Zenon DEF ApproveRequested
  <2>4. Follow /\ settled' \subseteq settled
    BY <1>1, <1>4, <2>1, <2>2, <2>3, ApprovedKin, KinFollow
  <2>5. Wary(t)'
    BY <1>1, <2>1, <2>2, <2>4, Ongoing DEF Brings, Rounds, op
  <2> QED
    BY <1>3, <2>1, <2>2, <2>4, <2>5
<1>9. CASE Acquire(t)
  <2>1. pc[t] = "lock" /\ op(t) = "collect" /\ why[t] # "none"
    BY <1>1, <1>9 DEF Acquire, Wary, Phase
  <2>2. /\ Goto(t, "b_rules") /\ UNCHANGED <<hsNodes, live, meta, why, job, seen, pol>>
    BY <1>9, <2>1 DEF Acquire, headscale, database, building
  <2>3. pc'[t] = "b_rules" /\ Others(t) /\ op(t)' = op(t)
    BY <1>1, <2>2, GotoFields DEF op
  <2>4. Follow /\ settled' \subseteq settled
    BY <1>4, <2>2, <2>3, SameFollow
  <2>5. Wary(t)'
    BY <1>1, <2>1, <2>2, <2>3, <2>4, Ongoing DEF Brings, Rounds
  <2> QED
    BY <1>3, <2>2, <2>3, <2>4, <2>5
<1>10. CASE BuildRules(t)
  <2>1. /\ pc[t] = "b_rules" /\ op(t) = "collect" /\ Goto(t, "b_meta")
        /\ seen' = [seen EXCEPT ![t].rules = rules]
        /\ UNCHANGED <<hsNodes, live, meta, why, job, pol>>
    BY <1>1, <1>10 DEF BuildRules, Wary, headscale, database
  <2>2. pc'[t] = "b_meta" /\ Others(t) /\ op(t)' = op(t)
        /\ seen'[t].nodes = seen[t].nodes
    BY <1>1, <2>1 DEF Others, Goto, TasksOK, Seen, op
  <2>3. Follow /\ settled' \subseteq settled
    BY <1>4, <2>1, <2>2, SameFollow
  <2>4. Wary(t)'
    BY <1>1, <2>1, <2>2, <2>3, Ongoing DEF Brings, Rounds
  <2> QED
    BY <1>3, <2>1, <2>2, <2>3, <2>4
<1>11. CASE BuildMeta(t)
  <2>1. /\ pc[t] = "b_meta" /\ op(t) = "collect" /\ Goto(t, "b_dirs")
        /\ seen' = [seen EXCEPT ![t].meta = meta]
        /\ UNCHANGED <<hsNodes, live, meta, why, job, pol>>
    BY <1>1, <1>11 DEF BuildMeta, Wary, headscale, database
  <2>2. /\ pc'[t] = "b_dirs" /\ Others(t) /\ op(t)' = op(t)
        /\ seen'[t].nodes = seen[t].nodes /\ seen'[t].meta = meta
    BY <1>1, <2>1 DEF Others, Goto, TasksOK, Seen, op
  <2>3. Follow /\ settled' \subseteq settled
    BY <1>4, <2>1, <2>2, SameFollow
  <2>4. Wary(t)'
    BY <1>1, <2>1, <2>2, <2>3, Ongoing DEF Brings, Rounds
  <2> QED
    BY <1>3, <2>1, <2>2, <2>3, <2>4
<1>12. CASE BuildRouting(t)
  <2> DEFINE s == seen[t]
             q == PolicyOf(s.rules, dirs, s.meta, s.nodes, {})
  <2>1. /\ pc[t] = "b_dirs" /\ op(t) = "collect" /\ Goto(t, "compare")
        /\ pol' = [pol EXCEPT ![t] = q] /\ seen' = [seen EXCEPT ![t] = NoSeen]
        /\ UNCHANGED <<hsNodes, live, meta, why, job>>
    BY <1>1, <1>12 DEF BuildRouting, Wary, Plain, headscale, database
  <2>2. Mirrors(s.nodes, s.meta, hsNodes, meta, Barred(t))
    BY <1>1, <2>1 DEF Wary, Brings, Notes
  <2>3. Spares(q, hsNodes, Barred(t))
    BY <2>2, BuiltSpares
  <2> HIDE DEF q
  <2>4. pc'[t] = "compare" /\ pol'[t] = q /\ Others(t) /\ op(t)' = op(t)
    BY <1>1, <2>1 DEF TasksOK, Goto, Others, op
  <2>5. Follow /\ settled' \subseteq settled /\ found' \subseteq found
    BY <1>4, <2>1, <2>4, SameFollow DEF Record, CycleStarts
  <2>6. Spares(q, hsNodes', Barred(t)')
    <3>1. Barred(t)' \in SUBSET Barred(t)
      BY <2>5 DEF Barred
    <3> QED
      BY <2>3, <2>5, <3>1, SparesStill DEF Follow
  <2>7. Wary(t)'
    BY <2>1, <2>4, <2>6 DEF Wary, Brings, Rounds
  <2> QED
    BY <1>3, <2>1, <2>4, <2>5, <2>7
<1>13. ASSUME pc[t] \in {"compare", "send"}, Settle(t, TRUE)
       PROVE  End(t) /\ Spares(pol[t], hsNodes, settled \cup found) /\ pc[t] \in Builder
  <2>1. op(t) = "collect" /\ Spares(pol[t], hsNodes, settled \cup found)
    BY <1>1, <1>13 DEF Wary, Barred
  <2>2. why[t] # "declare"
    BY <1>1 DEF Plain
  <2> QED
    BY <1>13, <2>1, <2>2 DEF Settle, DirectionOps, Builder
<1>14. CASE Compare
  <2>1. pc[t] = "compare" /\ UNCHANGED <<hsNodes, live, meta>>
    BY <1>14 DEF Compare, headscale, database
  <2>2. CASE pol[t] = live /\ Settle(t, TRUE)
    BY <1>5, <1>13, <2>1, <2>2
  <2>3. CASE Goto(t, "send") /\ UNCHANGED <<why, job, seen, pol>>
    <3>1. pc'[t] = "send" /\ Others(t) /\ op(t)' = op(t) /\ pol'[t] = pol[t]
      BY <1>1, <2>3, GotoFields DEF op
    <3>2. Follow /\ settled' \subseteq settled /\ found' \subseteq found
      BY <1>4, <2>1, <3>1, SameFollow DEF Record, CycleStarts
    <3>3. Barred(t)' \in SUBSET Barred(t) /\ Spares(pol[t], hsNodes, Barred(t))
      BY <1>1, <2>1, <3>2 DEF Barred, Wary
    <3>4. Spares(pol[t], hsNodes', Barred(t)')
      BY <3>2, <3>3, SparesStill DEF Follow
    <3>5. Wary(t)'
      BY <1>1, <2>1, <3>1, <3>4 DEF Wary, Brings, Rounds
    <3> QED
      BY <1>3, <2>1, <3>1, <3>2, <3>5
  <2> QED
    BY <1>14, <2>2, <2>3 DEF Compare, building
<1>15. CASE Send(t)
  <2>1. pc[t] = "send" /\ UNCHANGED <<hsNodes, meta>>
    BY <1>15 DEF Send, database
  <2>2. Accepts(pol[t])
    BY <1>1, <2>1 DEF Plain, Accepts, Steady, Orderly
  <2>3. live' = pol[t] /\ Settle(t, TRUE)
    BY <1>2, <1>15, <2>2 DEF Send
  <2> QED
    BY <1>5, <1>13, <2>1, <2>3
<1>16. CASE Step(t)
  <2>1. BuildRules(t) \/ BuildMeta(t) \/ BuildRouting(t) \/ Send(t)
    BY <1>1, <1>16 DEF Step, Wary, Rounds, Save, Undo, RefreshRead, RefreshWrite,
       set_node_meta, drop_gateway, set_node_tags, set_agent_exit, Untick, ApproveTicked,
       WriteAgent, set_gateway_clients, HsDelete, ForgetRead, ForgetCommit, BuildNodes,
       Approve, ApproveDirections
  <2> QED
    BY <1>10, <1>11, <1>12, <1>15, <2>1
<1> QED
  BY <1>6, <1>7, <1>8, <1>9, <1>14, <1>16

LEMMA CautiousOn ==
    ASSUME Cautious, Record, NEW t \in Task, Others(t), Follow, Wary(t)',
           \/ settled' \subseteq settled
           \/ t = Collector /\ \A u \in Task \ {t} : pc[u] \notin Builder,
           t # Collector => found' \subseteq found,
           Spares(live', hsNodes', settled')
    PROVE  Cautious'
<1>1. found' \subseteq personal' /\ settled' \subseteq personal'
  BY DEF Record
<1>2. ASSUME NEW u \in Task \ {t}
      PROVE  Wary(u)'
  <2>1. /\ pc'[u] = pc[u] /\ job'[u] = job[u] /\ seen'[u] = seen[u] /\ pol'[u] = pol[u]
        /\ Wary(u)
    BY DEF Others, Cautious
  <2>2. CASE Barred(u)' \subseteq Barred(u)
    BY <2>1, <2>2, WaryStill
  <2>3. CASE ~(Barred(u)' \subseteq Barred(u))
    <3>1. u # Collector /\ pc[u] \notin Builder
      BY <2>3 DEF Barred
    <3>2. (\A n \in hsNodes : n.id # arg(u)) => \A n \in hsNodes' : n.id # arg(u)
      BY DEF Follow, Follows, Kin
    <3> QED
      BY <2>1, <3>1, <3>2 DEF Wary, Brings, Builder, op, arg
  <2> QED
    BY <2>2, <2>3
<1> QED
  BY <1>1, <1>2 DEF Cautious

LEMMA CautiousStep ==
    ASSUME Steady, Inv, Cautious, [HNext]_hvars
    PROVE  Cautious'
<1>1. ~LateArrives /\ ~Tamper /\ ~Restart /\ ~Join
  BY DEF LateArrives, Tamper, Restart, Fault, Inv, World, Join, Steady
<1>2. CASE UNCHANGED hvars \/ (Prune /\ Record)
  <2>1. UNCHANGED <<hsNodes, meta, live, pc, job, seen, pol>>
    BY <1>2 DEF hvars, vars, Prune, headscale, database, tasks
  <2>2. Follow /\ UNCHANGED personal
    BY <2>1, SameFollow DEF personal
  <2>3. /\ settled' \subseteq settled /\ found' \subseteq found
        /\ settled' \subseteq personal' /\ found' \subseteq personal'
    BY <1>2, <2>1, <2>2 DEF hvars, Record, CycleStarts, CycleEnds, Cautious
  <2>4. ASSUME NEW u \in Task
        PROVE  Wary(u)'
    <3>1. Barred(u)' \subseteq Barred(u)
      BY <2>3 DEF Barred
    <3> QED
      BY <2>1, <2>2, <3>1, WaryStill DEF Cautious
  <2>5. Spares(live', hsNodes', settled')
    BY <2>1, <2>2, <2>3, SparesStill DEF Cautious, Follow
  <2> QED
    BY <2>3, <2>4, <2>5 DEF Cautious
<1>3. CASE /\ Record
           /\ \/ CollectNodes \/ ReadWanted \/ ApproveRequested \/ Compare
              \/ Acquire(Collector) \/ Step(Collector)
  BY <1>3, CollectorWary, CautiousOn, SyncAssumption
<1>4. ASSUME NEW t \in Task \ {Collector}, Arrive(t) \/ Acquire(t) \/ Step(t), Record
      PROVE  Cautious'
  <2>1. Others(t)
    BY <1>4, Frame, ArriveElsewhere DEF Inv, TypeOK
  <2>2. pc'[Collector] = pc[Collector]
    BY <2>1, SyncAssumption DEF Others
  <2>3. settled' \subseteq settled /\ found' \subseteq found
    BY <1>4, <2>2 DEF Record, CycleStarts, CycleEnds
  <2>4. /\ Follow /\ Wary(t)'
        /\ UNCHANGED live \/ (pc[t] = "send" /\ live' = pol[t])
    BY <1>4, <2>3, RequestWary
  <2>5. Spares(live', hsNodes, settled)
    BY <2>4 DEF Cautious, Wary, Barred
  <2>6. Spares(live', hsNodes', settled')
    BY <2>3, <2>4, <2>5, SparesStill DEF Follow
  <2> QED
    BY <1>4, <2>1, <2>3, <2>4, <2>6, CautiousOn
<1>5. ASSUME NEW t \in Task, Arrive(t), t = Collector
      PROVE  FALSE
  BY <1>5, ArriveElsewhere DEF Inv, TypeOK
<1> QED
  BY <1>1, <1>2, <1>3, <1>4, <1>5 DEF HNext, Next

(* collector.py:132-138, policy_apply.py:220-252: for any number of tasks, *)
(* requests and nodes, while notes of kind and tags stay as they are, a    *)
(* server that the withdrawal of its routes turns into a personal device   *)
(* is out of everybody's reach from the end of the first cycle that finds  *)
(* it so, and stays out of reach as long as it is one.                     *)
THEOREM TurnedPersonalHolds ==
    ASSUME Steady
    PROVE  HSpec => []TurnedPersonalIsCutOff
<1>1. Orderly
  BY DEF Steady
<1>2. HInit => Inv /\ Cautious
  <2>1. SUFFICES ASSUME HInit
                 PROVE  Inv /\ Cautious
    OBVIOUS
  <2>2. Inv
    BY <1>1, <2>1, InitOK, InitKept DEF HInit, Inv, Upheld
  <2>3. Mirrors(hsNodes, meta, hsNodes, meta, settled)
    BY <2>1, <2>2, MirrorsNow DEF HInit, Inv
  <2>4. Spares(live, hsNodes, settled)
    BY <2>1, <2>3, BuiltSpares DEF HInit, Init, Wanted
  <2>5. \A t \in Task : pc[t] = "idle" /\ op(t) = "none"
    BY <2>1 DEF HInit, Init, op, NoJob
  <2>6. \A t \in Task : Wary(t)
    BY <2>5 DEF Wary, Brings, Rounds
  <2> QED
    BY <2>1, <2>2, <2>4, <2>6 DEF Cautious, HInit
<1>3. Inv /\ Cautious /\ [HNext]_hvars => Inv' /\ Cautious'
  <2>1. SUFFICES ASSUME Inv, Cautious, [HNext]_hvars
                 PROVE  Inv' /\ Cautious'
    OBVIOUS
  <2>2. [Next]_vars
    BY <2>1 DEF HNext, hvars
  <2>3. TypeOK' /\ Upheld'
    BY <1>1, <2>1, <2>2, NextOK, StepKeeps DEF Inv
  <2> QED
    BY <2>1, <2>3, CautiousStep DEF Inv, Upheld
<1>4. Cautious => TurnedPersonalIsCutOff
  BY DEF Cautious, Spares, TurnedPersonalIsCutOff
<1> QED
  BY <1>2, <1>3, <1>4, PTL DEF HSpec

-----------------------------------------------------------------------------
(* What is stored fits together, with one task at a time.  Each handler    *)
(* checks what it was asked against what is stored, and with nothing else  *)
(* under way that is still so when it writes (InHand); what it has not put *)
(* right yet is named by Gone, Marked and Moving.                          *)

Ids == {n.id : n \in hsNodes}

RouteOps == DirectionOps \cup {"routing_loop"}

(* Between writing a direction and approving its routes.                   *)
Moving(t) ==
    /\ op(t) \in RouteOps
    /\ \/ pc[t] \in {"b_rules", "b_nodes", "b_meta", "b_dirs", "send", "approve", "approving"}
       \/ pc[t] = "lock" /\ why[t] = "apply"

(* The node a deletion is done with in headscale but not in the database,  *)
(* and the gateway that has its mark but may not have its tag yet.         *)
Gone(t) == IF pc[t] \in {"forget_wait", "forget"} THEN {arg(t)} ELSE {}
Marking(t) == op(t) = "set_meta" /\ why[t] = "declare" /\ pc[t] # "exit"
Marked(t) == IF Marking(t) THEN {arg(t).node} ELSE {}

RoutesApproved ==
    \A d \in dirs, n \in hsNodes : n.id = d.via => dst_ips(d) \subseteq n.approved

Fitting(t) ==
    /\ \A d \in dirs : meta[d.via].kind # "device" /\ d.via \in Ids \cup Gone(t)
    /\ \A n \in Node \ (Ids \cup Gone(t)) : meta[n] = NoMeta
    /\ \A n \in Node : meta[n].via \subseteq Ids \cup Gone(t)
    /\ Moving(t) \/ RoutesApproved
    /\ \A n \in hsNodes : n.id \in Marked(t) \/ (meta[n.id].gateway => gateway_tag(n.id) \in n.tags)

(* What a request has checked is still so, and its copies are what is      *)
(* stored.                                                                 *)
Checked(t) ==
    /\ pc[t] \in {"lock", "save"} /\ op(t) = "create_direction" =>
          arg(t).via \in Ids /\ meta[arg(t).via].kind # "device"
    /\ pc[t] \in {"refresh", "fresh"} => arg(t)[2].via = arg(t)[1].via
    /\ pc[t] = "note" => /\ NoTrafficThrough(arg(t)) /\ job[t].gw = eff_gateway(arg(t))
                         /\ arg(t).field = "via" => arg(t).value \subseteq Ids
    /\ pc[t] \in {"forget_wait", "forget"} => arg(t) \notin Ids
    /\ pc[t] = "routes" => routes_by_node(dirs, arg(t).node) \subseteq arg(t).routes
    /\ pc[t] = "clients" => arg(t).node \in Ids /\ keep(t) \subseteq Ids

Copies(t) ==
    /\ pc[t] = "save" /\ op(t) # "put_rules" => keep(t) = dirs
    /\ pc[t] = "fresh" => arg(t)[1] \in dirs /\ keep(t) = dirs
    /\ pc[t] = "forget" => keep(t) = dirs
    /\ pc[t] = "wanted" => seen[t].nodes = hsNodes
    /\ pc[t] = "approving" => \A n \in hsNodes :
          LET p == plan(t)[n.id] IN
          \/ op(t) = "collect" /\ p = NoPlan
          \/ /\ p.had = n.approved /\ routes_by_node(dirs, n.id) \subseteq p.want
             /\ op(t) # "collect" => p.mine = {}
    /\ pc[t] = "approving" /\ op(t) # "collect" =>
          \A n \in Node \ Ids : plan(t)[n] = NoPlan
    /\ pc[t] = "compare" => op(t) = "collect"
    /\ pc[t] = "approve" => op(t) \in RouteOps
    /\ pc[t] = "approving" => op(t) \in RouteOps \cup {"collect"}
    /\ pc[t] \in {"compare", "send"} => Declared(pol[t])

(* A mark is declared before it is hung, a role never takes one away.      *)
Tagging(t) ==
    /\ op(t) = "set_tags" =>
          \A n \in hsNodes : n.id = arg(t).node => kept_tags(n) \subseteq keep(t)
    /\ Marking(t) \/ (pc[t] \in {"note", "drop", "tags"} /\ op(t) = "set_meta") =>
          /\ arg(t).node \in Ids
          /\ \A n \in hsNodes : n.id = arg(t).node => n.tags = keep(t)
    /\ pc[t] \in {"drop", "tags"} /\ op(t) = "set_meta" /\ ~Marking(t) =>
          ~job[t].gw /\ ~meta[arg(t).node].gateway
    /\ Marking(t) =>
          /\ job[t].gw /\ job[t].extra = {gateway_tag(arg(t).node)}
          /\ pc[t] \notin {"note", "drop"}
          /\ pc[t] \in {"b_meta", "b_dirs"} => seen[t].nodes = hsNodes
          /\ pc[t] = "send" => Hung(t) \subseteq pol[t].owners
          /\ pc[t] = "tags" => Hung(t) \subseteq live.owners

InHand(t) == pc[t] # "undo" /\ Checked(t) /\ Copies(t) /\ Tagging(t)

Calmly == faults = 0 /\ late = {}

Sole(t) ==
    /\ Calmly /\ \A u \in Task \ {t} : pc[u] = "idle"
    /\ Fitting(t) /\ InHand(t)

Tidy(t) == TypeOK /\ Sole(t)

Done(t) == Fitting(t)' /\ InHand(t)'

LEMMA TidyFacts ==
    ASSUME NEW t \in Task, Tidy(t)
    PROVE  /\ TasksOK /\ JobOK(job[t]) /\ Phase(pc[t], why[t], op(t))
           /\ seen[t] \in Seen /\ ~Fault /\ Fitting(t) /\ InHand(t)
           /\ Checked(t) /\ Copies(t) /\ Tagging(t)
           /\ hsNodes \in SUBSET HsNode /\ DistinctAddrs(hsNodes)
           /\ meta \in [Node -> MetaEntry] /\ dirs \in SUBSET Direction
  BY DEF Tidy, Sole, InHand, TypeOK, TasksOK, Calmly, Fault

(* What is stored stays, and the task does not leave a place where         *)
(* something is still to be put right.                                     *)
LEMMA FittingSame ==
    ASSUME NEW t \in Task, Tidy(t), UNCHANGED <<hsNodes, dirs, meta>>,
           Gone(t) \subseteq Gone(t)', Marked(t) \subseteq Marked(t)',
           Moving(t) => Moving(t)'
    PROVE  Fitting(t)'
<1> DEFINE G == Gone(t)
           M == Marked(t)
<1>1. UNCHANGED Ids /\ UNCHANGED RoutesApproved
  BY DEF Ids, RoutesApproved
<1> HIDE DEF G, M
<1>2. QED
  BY <1>1 DEF Tidy, Sole, Fitting

(* Nodes keep their tags, and directions have their routes.                *)
LEMMA NodesStay ==
    ASSUME NEW t \in Task, Tidy(t), UNCHANGED <<dirs, meta, Ids>>,
           \A m \in hsNodes' : \E n \in hsNodes : m.id = n.id /\ m.tags = n.tags,
           RoutesApproved', Gone(t) = {}, Marked(t) = {}
    PROVE  Fitting(t)'
  BY DEF Tidy, Sole, Fitting

(* Notes keep the kind and the mark, and permit no exit that is not there. *)
LEMMA NotesStay ==
    ASSUME NEW t \in Task, Tidy(t), UNCHANGED <<hsNodes, dirs>>,
           \A n \in Node : /\ meta'[n].kind = meta[n].kind
                           /\ meta'[n].gateway = meta[n].gateway
                           /\ meta'[n].via \subseteq meta[n].via \cup Ids
                           /\ n \notin Ids /\ meta[n] = NoMeta => meta'[n] = NoMeta,
           Gone(t) = {}, Marked(t) = {}, ~Moving(t)
    PROVE  Fitting(t)'
<1>1. UNCHANGED <<Ids, RoutesApproved>>
  BY DEF Ids, RoutesApproved
<1>2. \A d \in dirs : d.via \in Node
  BY TidyFacts DEF Direction
<1>3. \A n \in hsNodes : n.id \in Node
  BY TidyFacts DEF HsNode
<1> QED
  BY <1>1, <1>2, <1>3 DEF Tidy, Sole, Fitting

LEMMA EndTidy ==
    ASSUME NEW t \in Task, Tidy(t), End(t)
    PROVE  InHand(t)' /\ Gone(t)' = {} /\ Marked(t)' = {} /\ ~Moving(t)'
<1>1. pc'[t] = "idle" /\ op(t)' = "none"
  BY TidyFacts, EndEnds DEF Ends
<1> QED
  BY <1>1 DEF InHand, Checked, Copies, Tagging, Marking, Marked, Gone, Moving, RouteOps,
     DirectionOps

LEMMA EndDone ==
    ASSUME NEW t \in Task, Tidy(t), End(t), UNCHANGED <<hsNodes, dirs, meta>>,
           Gone(t) = {}, Marked(t) = {}, ~Moving(t)
    PROVE  Done(t)
  BY EndTidy, FittingSame DEF Done

-----------------------------------------------------------------------------
(* Requests arrive.                                                        *)
LEMMA RequestTidy ==
    ASSUME NEW t \in Task, Tidy(t), NEW j, NEW where, NEW what,
           Request(t, j, where, what)
    PROVE  /\ pc'[t] = where /\ why'[t] = what /\ job'[t] = j
           /\ op(t)' = j.op /\ arg(t)' = j.arg /\ keep(t)' = j.keep
           /\ Fitting(t)' /\ UNCHANGED <<hsNodes, dirs, meta, Ids>>
<1>1. Moves(t, where, what, j, seen[t], pol[t]) /\ pc[t] = "idle"
  BY TidyFacts, Unchanged DEF Request, building, Moves
<1>2. pc'[t] = where /\ why'[t] = what /\ job'[t] = j
  BY <1>1, TidyFacts, MovesOthers
<1>3. UNCHANGED <<hsNodes, dirs, meta>>
  BY DEF Request, headscale, database
<1>4. op(t) = "none"
  BY <1>1, TidyFacts DEF Phase
<1>5. Gone(t) = {} /\ Marked(t) = {} /\ ~Moving(t)
  BY <1>1, <1>4 DEF Gone, Marked, Marking, Moving, RouteOps, DirectionOps
<1>6. Fitting(t)'
  BY <1>3, <1>5, FittingSame
<1> QED
  BY <1>2, <1>3, <1>6 DEF op, arg, keep, Ids

LEMMA AskJob ==
    ASSUME NEW name, NEW a
    PROVE  Ask(name, a).op = name /\ Ask(name, a).arg = a
  BY DEF Ask, NoJob

(* Requests of which nothing is on record but what they ask.               *)
LEMMA PlainRequestTidy ==
    ASSUME NEW t \in Task, Tidy(t), NEW name, NEW a,
           name \notin {"create_direction", "set_meta", "set_tags"},
           NEW where \in {"lock", "hs_delete", "untick", "form"},
           Request(t, Ask(name, a), where, "none")
    PROVE  Done(t)
<1>1. op(t)' = name /\ pc'[t] = where /\ why'[t] = "none" /\ Fitting(t)'
  BY RequestTidy, AskJob
<1> QED
  BY <1>1 DEF Done, InHand, Checked, Copies, Tagging, Marking

LEMMA ArriveTidy ==
    ASSUME NEW t \in Task, Tidy(t), Arrive(t)
    PROVE  Done(t)
<1>1. CASE PutRules(t) \/ DeleteDirection(t) \/ DeleteNode(t) \/ SetRoutes(t) \/ PutAgent(t)
  BY <1>1, PlainRequestTidy
     DEF PutRules, DeleteDirection, DeleteNode, SetRoutes, PutAgent
<1>2. CASE CreateDirection(t)
  <2>1. PICK d \in NewDirs, n \in servers(hsNodes, meta) :
            n.id = d.via /\ Request(t, Ask("create_direction", d), "lock", "none")
    BY <1>2 DEF CreateDirection
  <2>2. d.via \in Ids /\ meta[d.via].kind # "device"
    BY <2>1 DEF servers, effective_kind, Ids
  <2>3. /\ op(t)' = "create_direction" /\ arg(t)' = d /\ pc'[t] = "lock" /\ why'[t] = "none"
        /\ Fitting(t)' /\ UNCHANGED <<meta, Ids>>
    BY <2>1, RequestTidy, AskJob
  <2> QED
    BY <2>2, <2>3 DEF Done, InHand, Checked, Copies, Tagging, Marking
<1>3. CASE RefreshDirections(t)
  <2>1. PICK d \in dirs, e \in NewDirs, name \in {"refresh_directions", "routing_loop"} :
            /\ e = [d EXCEPT !.ips = e.ips]
            /\ Request(t, Ask(name, <<d, e>>), "refresh", "none")
    BY <1>3 DEF RefreshDirections
  <2>2. e.via = d.via
    BY <2>1, TidyFacts DEF Direction
  <2>3. op(t)' = name /\ arg(t)' = <<d, e>> /\ pc'[t] = "refresh" /\ why'[t] = "none"
        /\ Fitting(t)'
    BY <2>1, RequestTidy, AskJob
  <2> QED
    BY <2>2, <2>3 DEF Done, InHand, Checked, Copies, Tagging, Marking
<1>4. CASE SetMeta(t)
  <2>1. PICK e \in Edits, n \in hsNodes :
            /\ n.id = e.node
            /\ NoTrafficThrough(e) /\ KnownExits(e)
            /\ Request(t, [Ask("set_meta", e) EXCEPT
                          !.keep = n.tags, !.was = meta[e.node].gateway,
                          !.gw = eff_gateway(e)], "note", "none")
    BY <1>4 DEF SetMeta
  <2> DEFINE j == [Ask("set_meta", e) EXCEPT !.keep = n.tags,
                      !.was = meta[e.node].gateway, !.gw = eff_gateway(e)]
  <2>2. j \in [op : {"set_meta"}, arg : {e}, keep : {n.tags},
               was : {meta[e.node].gateway}, gw : {eff_gateway(e)}, extra : {{}}]
    BY DEF Ask, NoJob
  <2>3. j.op = "set_meta" /\ j.keep = n.tags /\ j.gw = eff_gateway(e) /\ j.arg = e
    BY <2>2
  <2>4. Request(t, j, "note", "none")
    BY <2>1
  <2> HIDE DEF j
  <2>5. /\ pc'[t] = "note" /\ why'[t] = "none" /\ job'[t] = j
        /\ op(t)' = "set_meta" /\ arg(t)' = e /\ keep(t)' = n.tags
        /\ Fitting(t)' /\ UNCHANGED <<hsNodes, dirs, meta, Ids>>
    BY <2>3, <2>4, RequestTidy
  <2>6. \A m \in hsNodes' : m.id = e.node => m.tags = n.tags
    BY <2>1, <2>5, TidyFacts DEF DistinctAddrs
  <2>7. e.node \in Ids' /\ NoTrafficThrough(e)' /\ job'[t].gw = eff_gateway(e)'
    BY <2>1, <2>3, <2>5 DEF Ids, NoTrafficThrough, eff_gateway
  <2>8. gateways(meta) \subseteq Ids
    <3>1. ~NoMeta.gateway /\ Gone(t) = {}
      BY <2>4 DEF NoMeta, Request, Gone
    <3> QED
      BY <3>1, TidyFacts DEF gateways, Fitting
  <2>9. e.field = "via" => e.value \subseteq Ids'
    BY <2>1, <2>5, <2>8 DEF KnownExits
  <2>10. Checked(t)'
    BY <2>5, <2>7, <2>9 DEF Checked, NoTrafficThrough, eff_gateway
  <2>11. Copies(t)' /\ Tagging(t)'
    BY <2>5, <2>6, <2>7 DEF Copies, Tagging, Marking
  <2> QED
    BY <2>5, <2>10, <2>11 DEF Done, InHand
<1>5. CASE SetTags(t)
  <2>1. PICK e \in Retags, n \in hsNodes, where \in {"tags", "b_rules"} :
            LET want == keep_tagged(e.roles \cup kept_tags(n))
            IN  /\ n.id = e.node
                /\ Request(t, [Ask("set_tags", e) EXCEPT
                              !.keep = want,
                              !.extra = IF e.roles # {} THEN e.roles
                                                        ELSE {MARKER_TAG}],
                           where, "declare")
    BY <1>5, Zenon DEF SetTags
  <2> DEFINE want == keep_tagged(e.roles \cup kept_tags(n))
             extra == IF e.roles # {} THEN e.roles ELSE {MARKER_TAG}
             j == [Ask("set_tags", e) EXCEPT !.keep = want, !.extra = extra]
  <2>2. Request(t, j, where, "declare") /\ n.id = e.node
    BY <2>1
  <2>3. kept_tags(n) \subseteq want
    BY DEF keep_tagged
  <2> HIDE DEF want, extra
  <2>4. j \in [op : {"set_tags"}, arg : {e}, keep : {want}, was : {FALSE}, gw : {FALSE},
               extra : {extra}]
    BY DEF Ask, NoJob
  <2>5. j.op = "set_tags" /\ j.arg = e /\ j.keep = want
    BY <2>4
  <2> HIDE DEF j
  <2>6. /\ pc'[t] = where /\ op(t)' = "set_tags" /\ arg(t)' = e /\ keep(t)' = want
        /\ Fitting(t)' /\ UNCHANGED hsNodes
    BY <2>2, <2>5, RequestTidy
  <2>7. \A m \in hsNodes' : m.id = e.node => kept_tags(m) \subseteq want
    BY <2>2, <2>3, <2>6, TidyFacts DEF DistinctAddrs
  <2>8. Checked(t)' /\ Copies(t)'
    BY <2>6 DEF Checked, Copies
  <2>9. Tagging(t)'
    BY <2>6, <2>7 DEF Tagging, Marking
  <2> QED
    BY <2>6, <2>8, <2>9 DEF Done, InHand
<1>6. CASE SetExitClients(t)
  <2> DEFINE others == {m.id : m \in devices(hsNodes, meta)}
  <2>1. PICK c \in Clients, n \in hsNodes :
            /\ n.id = c.node
            /\ Request(t, [Ask("set_exit_clients", c) EXCEPT !.keep = others],
                       "clients", "none")
    BY <1>6 DEF SetExitClients
  <2>2. others \subseteq Ids /\ c.node \in Ids
    BY <2>1 DEF devices, Ids
  <2> HIDE DEF others
  <2> DEFINE j == [Ask("set_exit_clients", c) EXCEPT !.keep = others]
  <2>3. j \in [op : {"set_exit_clients"}, arg : {c}, keep : {others}, was : {FALSE},
               gw : {FALSE}, extra : {{}}]
    BY DEF Ask, NoJob
  <2>4. j.op = "set_exit_clients" /\ j.arg = c /\ j.keep = others
    BY <2>3
  <2>5. Request(t, j, "clients", "none")
    BY <2>1
  <2> HIDE DEF j
  <2>6. /\ pc'[t] = "clients" /\ op(t)' = "set_exit_clients" /\ arg(t)' = c
        /\ keep(t)' = others /\ Fitting(t)' /\ UNCHANGED Ids
    BY <2>4, <2>5, RequestTidy
  <2> QED
    BY <2>2, <2>6 DEF Done, InHand, Checked, Copies, Tagging, Marking
<1> QED
  BY <1>1, <1>2, <1>3, <1>4, <1>5, <1>6 DEF Arrive

-----------------------------------------------------------------------------
(* The steps of a request.                                                 *)
LEMMA AcquireTidy ==
    ASSUME NEW t \in Task, Tidy(t), Acquire(t)
    PROVE  Done(t)
<1>1. TasksOK /\ Phase(pc[t], why[t], op(t)) /\ InHand(t) /\ Checked(t) /\ Tagging(t)
  BY TidyFacts
<1>2. pc[t] = "lock" /\ UNCHANGED <<hsNodes, dirs, meta, Ids>>
  BY DEF Acquire, headscale, database, Ids
<1>3. Gone(t) = {}
  BY <1>2 DEF Gone
<1>4. CASE why[t] # "none"
  <2>1. Goto(t, "b_rules") /\ UNCHANGED <<why, job, seen, pol>>
    BY <1>4 DEF Acquire, building
  <2>2. pc'[t] = "b_rules" /\ why'[t] = why[t] /\ job'[t] = job[t]
    BY <1>1, <2>1, GotoFields
  <2>3. /\ op(t)' = op(t) /\ arg(t)' = arg(t) /\ keep(t)' = keep(t)
        /\ Marking(t)' = Marking(t) /\ Marked(t)' = Marked(t)
        /\ Moving(t) => Moving(t)'
    BY <1>2, <2>2 DEF op, arg, keep, Marking, Marked, Moving
  <2>4. Fitting(t)'
    BY <1>2, <1>3, <2>3, FittingSame
  <2>5. Checked(t)' /\ Copies(t)'
    BY <2>2 DEF Checked, Copies
  <2>6. Tagging(t)'
    BY <1>1, <1>2, <2>2, <2>3 DEF Tagging
  <2> QED
    BY <2>2, <2>4, <2>5, <2>6 DEF Done, InHand
<1>5. CASE why[t] = "none" /\ End(t)
  <2>1. ~Moving(t) /\ Marked(t) = {}
    BY <1>2, <1>5 DEF Moving, Marked, Marking
  <2> QED
    BY <1>2, <1>3, <1>5, <2>1, EndDone
<1>6. CASE /\ why[t] = "none"
           /\ job' = [job EXCEPT ![t].keep = IF op(t) = "put_rules" THEN rules ELSE dirs]
           /\ Goto(t, "save") /\ UNCHANGED <<why, seen, pol>>
  <2> DEFINE X == IF op(t) = "put_rules" THEN rules ELSE dirs
  <2>1. op(t) # "put_rules" => X = dirs
    OBVIOUS
  <2>2. job' = [job EXCEPT ![t].keep = X]
    BY <1>6
  <2> HIDE DEF X
  <2>3. keep(t)' = X /\ op(t)' = op(t) /\ arg(t)' = arg(t)
    BY <1>1, <2>2, KeepFields DEF keep, op, arg
  <2>4. pc'[t] = "save" /\ why'[t] = "none"
    BY <1>1, <1>6 DEF Goto, TasksOK
  <2>5. op(t) \in {"put_rules", "create_direction", "delete_direction"}
    BY <1>1, <1>2, <1>6 DEF Phase
  <2>6. ~Moving(t) /\ Marked(t) = {} /\ ~Marking(t)'
    BY <1>2, <1>6, <2>4 DEF Moving, Marked, Marking
  <2>7. Fitting(t)'
    BY <1>2, <1>3, <2>6, FittingSame
  <2>8. Checked(t)'
    BY <1>1, <1>2, <2>3, <2>4 DEF Checked
  <2>9. Copies(t)' /\ Tagging(t)'
    BY <1>2, <2>1, <2>3, <2>4, <2>5, <2>6 DEF Copies, Tagging
  <2> QED
    BY <2>4, <2>7, <2>8, <2>9 DEF Done, InHand
<1>7. QED
  BY <1>4, <1>5, <1>6 DEF Acquire, building

(* The directions change: each of them leads through a node that is there  *)
(* and is not noted down as a device, and the routes are approved later.   *)
LEMMA NewDirections ==
    ASSUME NEW t \in Task, Tidy(t), UNCHANGED <<hsNodes, meta>>,
           Gone(t) = {}, Marked(t) = {}, Moving(t)',
           \A d \in dirs' : meta[d.via].kind # "device" /\ d.via \in Ids
    PROVE  Fitting(t)'
<1>1. UNCHANGED Ids
  BY DEF Ids
<1> QED
  BY <1>1 DEF Tidy, Sole, Fitting

LEMMA SaveTidy ==
    ASSUME NEW t \in Task, Tidy(t), Save(t)
    PROVE  Done(t)
<1>1. TasksOK /\ Phase(pc[t], why[t], op(t)) /\ Checked(t) /\ Copies(t) /\ Fitting(t)
  BY TidyFacts
<1>2. /\ pc[t] = "save" /\ StartPush(t, "push")
      /\ UNCHANGED <<hsNodes, meta, job, seen, pol>>
  BY DEF Save, headscale, building
<1>3. pc'[t] = "b_rules" /\ why'[t] = "push" /\ job'[t] = job[t]
  BY <1>1, <1>2, PurposeFields DEF StartPush
<1>4. op(t)' = op(t) /\ op(t) \in {"put_rules", "create_direction", "delete_direction"}
  BY <1>1, <1>2, <1>3 DEF op, Phase
<1>5. Gone(t) = {} /\ Marked(t) = {}
  BY <1>2, <1>4 DEF Gone, Marked, Marking
<1>6. InHand(t)'
  BY <1>3, <1>4 DEF InHand, Checked, Copies, Tagging, Marking
<1>7. CASE op(t) = "put_rules"
  <2>1. UNCHANGED dirs /\ ~Moving(t)
    BY <1>7 DEF Save, Moving, RouteOps, DirectionOps
  <2> QED
    BY <1>2, <1>5, <1>6, <2>1, FittingSame DEF Done
<1>8. CASE op(t) \in {"create_direction", "delete_direction"}
  <2>1. keep(t) = dirs /\ \A d \in dirs : meta[d.via].kind # "device" /\ d.via \in Ids
    BY <1>1, <1>2, <1>5, <1>8 DEF Copies, Fitting
  <2>2. op(t) = "create_direction" =>
            arg(t).via \in Ids /\ meta[arg(t).via].kind # "device"
    BY <1>1, <1>2 DEF Checked
  <2>3. \/ op(t) = "create_direction" /\ dirs' = dirs \cup {arg(t)}
        \/ dirs' = dirs \ {arg(t)}
    BY <1>8, <2>1 DEF Save
  <2>4. \A d \in dirs' : meta[d.via].kind # "device" /\ d.via \in Ids
    BY <2>1, <2>2, <2>3
  <2>5. Moving(t)'
    BY <1>3, <1>4, <1>8 DEF Moving, RouteOps, DirectionOps
  <2> QED
    BY <1>2, <1>5, <1>6, <2>4, <2>5, NewDirections DEF Done
<1> QED
  BY <1>4, <1>7, <1>8

LEMMA RefreshTidy ==
    ASSUME NEW t \in Task, Tidy(t), RefreshRead(t) \/ RefreshWrite(t)
    PROVE  Done(t)
<1>1. /\ TasksOK /\ Phase(pc[t], why[t], op(t)) /\ Checked(t) /\ Copies(t) /\ Fitting(t)
      /\ Tagging(t)
  BY TidyFacts
<1>2. UNCHANGED <<hsNodes, meta>>
  BY DEF RefreshRead, RefreshWrite, headscale, database
<1>3. op(t) \in {"refresh_directions", "routing_loop"} /\ pc[t] \in {"refresh", "fresh"}
  BY <1>1 DEF RefreshRead, RefreshWrite, Phase
<1>4. Gone(t) = {} /\ Marked(t) = {} /\ ~Moving(t)
  BY <1>3 DEF Gone, Marked, Marking, Moving
<1>5. CASE RefreshRead(t) /\ End(t)
  <2>1. UNCHANGED dirs
    BY <1>5 DEF RefreshRead, database
  <2> QED
    BY <1>2, <1>4, <1>5, <2>1, EndDone
<1>6. CASE /\ RefreshRead(t) /\ arg(t)[1] \in dirs
           /\ job' = [job EXCEPT ![t].keep = dirs] /\ Goto(t, "fresh")
  <2>1. keep(t)' = dirs /\ op(t)' = op(t) /\ arg(t)' = arg(t) /\ pc'[t] = "fresh"
    BY <1>1, <1>6, KeepFields DEF keep, op, arg, Goto, TasksOK
  <2>2. UNCHANGED dirs /\ pc[t] = "refresh"
    BY <1>6 DEF RefreshRead, database
  <2>3. Fitting(t)'
    BY <1>2, <1>3, <1>4, <2>2, FittingSame
  <2>4. Checked(t)' /\ Copies(t)' /\ Tagging(t)'
    BY <1>1, <1>3, <1>6, <2>1, <2>2 DEF Checked, Copies, Tagging, Marking
  <2> QED
    BY <2>1, <2>3, <2>4 DEF Done, InHand
<1>7. CASE RefreshWrite(t)
  <2>1. /\ UNCHANGED <<job, seen, pol>> /\ pc[t] = "fresh"
        /\ dirs' = (keep(t) \ {arg(t)[1]}) \cup {arg(t)[2]}
    BY <1>7 DEF RefreshWrite, building
  <2>2. /\ job'[t] = job[t]
        /\ \/ pc'[t] = "lock" /\ why'[t] = "apply"
           \/ pc'[t] = "b_rules" /\ why'[t] = "push"
    BY <1>1, <1>7, <2>1 DEF RefreshWrite, StartApply, StartPush, TasksOK
  <2>3. op(t)' = op(t) /\ Moving(t)'
    BY <1>3, <2>2 DEF op, Moving, RouteOps, DirectionOps
  <2>4. InHand(t)'
    BY <1>3, <2>2, <2>3 DEF InHand, Checked, Copies, Tagging, Marking
  <2>5. /\ keep(t) = dirs /\ arg(t)[1] \in dirs /\ arg(t)[2].via = arg(t)[1].via
        /\ \A d \in dirs : meta[d.via].kind # "device" /\ d.via \in Ids
    BY <1>1, <1>4, <2>1 DEF Checked, Copies, Fitting
  <2>6. \A d \in dirs' : meta[d.via].kind # "device" /\ d.via \in Ids
    BY <2>1, <2>5
  <2> QED
    BY <1>2, <1>4, <2>3, <2>4, <2>6, NewDirections DEF Done
<1> QED
  BY <1>5, <1>6, <1>7 DEF RefreshRead

(* The note is written.                                                    *)
LEMMA NoteWritten ==
    ASSUME NEW t \in Task, Tidy(t), set_node_meta(t)
    PROVE  LET e == arg(t) IN
           /\ e \in MetaEdit /\ e.node \in Ids
           /\ meta' \in [Node -> MetaEntry]
           /\ \A n \in Node \ {e.node} : meta'[n] = meta[n]
           /\ meta'[e.node].kind = IF e.field = "kind" THEN e.value ELSE meta[e.node].kind
           /\ meta'[e.node].gateway = eff_gateway(e)
           /\ meta'[e.node].via = IF e.field = "via" THEN e.value ELSE meta[e.node].via
<1> DEFINE e == arg(t)
           old == meta[e.node]
           new == CASE e.field = "kind"    -> [old EXCEPT !.kind = e.value]
                    [] e.field = "admin"   -> [old EXCEPT !.admin = e.value]
                    [] e.field = "gateway" -> [old EXCEPT !.gateway = e.value]
                    [] OTHER               -> [old EXCEPT !.via = e.value]
<1>1. /\ JobOK(job[t]) /\ Phase(pc[t], why[t], op(t)) /\ Tagging(t)
      /\ meta \in [Node -> MetaEntry]
  BY TidyFacts
<1>2. pc[t] = "note" /\ op(t) = "set_meta"
  BY <1>1 DEF set_node_meta, Phase
<1>3. e \in MetaEdit /\ e.node \in Node /\ e.node \in Ids
  BY <1>1, <1>2, SyncAssumption DEF JobOK, op, arg, MetaEdit, Tagging
<1>4. meta' = [meta EXCEPT ![e.node] = new]
  BY DEF set_node_meta
<1>5. old \in MetaEntry
  BY <1>1, <1>3
<1>6. /\ new \in MetaEntry
      /\ new.kind = IF e.field = "kind" THEN e.value ELSE old.kind
      /\ new.gateway = IF e.field = "gateway" THEN e.value ELSE old.gateway
      /\ new.via = IF e.field = "via" THEN e.value ELSE old.via
  <2>1. CASE e.field = "kind" /\ e.value \in {"", "server", "device"}
    BY <1>5, <2>1 DEF MetaEntry
  <2>2. CASE e.field = "admin" /\ e.value \in BOOLEAN
    BY <1>5, <2>2 DEF MetaEntry
  <2>3. CASE e.field = "gateway" /\ e.value \in BOOLEAN
    BY <1>5, <2>3 DEF MetaEntry
  <2>4. CASE e.field = "via" /\ e.value \in SUBSET Node
    BY <1>5, <2>4 DEF MetaEntry
  <2>5. QED
    BY <1>3, <2>1, <2>2, <2>3, <2>4 DEF MetaEdit
<1> HIDE DEF new
<1>7. /\ meta' \in [Node -> MetaEntry] /\ meta'[e.node] = new
      /\ \A n \in Node \ {e.node} : meta'[n] = meta[n]
  BY <1>1, <1>3, <1>4, <1>6
<1>8. QED
  BY <1>3, <1>6, <1>7 DEF eff_gateway

(* After a note: the tags, the gateway's own tag declared first, or the    *)
(* exit flag.                                                              *)
LEMMA AfterNoteGoes ==
    ASSUME NEW t \in Task, TasksOK, AfterNote(t)
    PROVE  /\ op(t)' = op(t) /\ arg(t)' = arg(t) /\ keep(t)' = keep(t)
           /\ job'[t].gw = job[t].gw
           /\ \/ /\ job[t].gw /\ pc'[t] = "b_rules" /\ why'[t] = "declare"
                 /\ job'[t].extra = {gateway_tag(arg(t).node)}
              \/ ~job[t].gw /\ pc'[t] \in {"tags", "exit"} /\ why'[t] = why[t]
<1>1. CASE job[t].gw
  <2> DEFINE X == {gateway_tag(arg(t).node)}
  <2>1. /\ job' = [job EXCEPT ![t].extra = X]
        /\ pc' = [pc EXCEPT ![t] = "b_rules"] /\ why' = [why EXCEPT ![t] = "declare"]
    BY <1>1 DEF AfterNote, StartPush
  <2> HIDE DEF X
  <2>2. /\ job'[t].keep = keep(t) /\ job'[t].op = op(t) /\ job'[t].arg = arg(t)
        /\ job'[t].gw = job[t].gw /\ job'[t].extra = X
    BY <2>1, ExtraFields
  <2>3. pc'[t] = "b_rules" /\ why'[t] = "declare"
    BY <2>1 DEF TasksOK
  <2> QED
    BY <1>1, <2>2, <2>3 DEF op, arg, keep, X
<1>2. CASE ~job[t].gw
  <2>1. pc'[t] \in {"tags", "exit"} /\ UNCHANGED <<why, job>>
    BY <1>2 DEF AfterNote, Goto, TasksOK
  <2> QED
    BY <1>2, <2>1 DEF op, arg, keep
<1> QED
  BY <1>1, <1>2

LEMMA NoteTidy ==
    ASSUME NEW t \in Task, Tidy(t), set_node_meta(t)
    PROVE  Done(t)
<1> DEFINE e == arg(t)
<1>1. /\ TasksOK /\ Phase(pc[t], why[t], op(t)) /\ Checked(t) /\ Tagging(t) /\ Fitting(t)
      /\ hsNodes \in SUBSET HsNode /\ meta \in [Node -> MetaEntry]
      /\ dirs \in SUBSET Direction
  BY TidyFacts
<1>2. /\ pc[t] = "note" /\ op(t) = "set_meta"
      /\ UNCHANGED <<hsNodes, dirs, seen, pol, Ids, RoutesApproved>>
  BY <1>1 DEF set_node_meta, Phase, headscale, building, Ids, RoutesApproved
<1>3. /\ e \in MetaEdit /\ e.node \in Ids /\ meta' \in [Node -> MetaEntry]
      /\ \A n \in Node \ {e.node} : meta'[n] = meta[n]
      /\ meta'[e.node].kind = IF e.field = "kind" THEN e.value ELSE meta[e.node].kind
      /\ meta'[e.node].gateway = eff_gateway(e)
      /\ meta'[e.node].via = IF e.field = "via" THEN e.value ELSE meta[e.node].via
  BY NoteWritten
<1>4. ~Marking(t) /\ Gone(t) = {} /\ Marked(t) = {} /\ ~Moving(t)
  BY <1>1, <1>2 DEF Tagging, Gone, Marked, Moving, RouteOps, DirectionOps
<1>5. why[t] # "declare"
  BY <1>2, <1>4 DEF Marking
<1>6. /\ op(t)' = op(t) /\ arg(t)' = e /\ keep(t)' = keep(t)
      /\ job'[t].gw = job[t].gw
      /\ \/ /\ job[t].gw /\ pc'[t] = "b_rules" /\ why'[t] = "declare"
            /\ job'[t].extra = {gateway_tag(e.node)}
         \/ ~job[t].gw /\ pc'[t] \in {"drop", "tags", "exit"} /\ why'[t] = why[t]
  <2>1. CASE job[t].was /\ ~job[t].gw
    <3>1. Goto(t, "drop") /\ UNCHANGED <<why, job>>
      BY <2>1 DEF set_node_meta
    <3>2. pc'[t] = "drop"
      BY <1>1, <3>1 DEF Goto, TasksOK
    <3> QED
      BY <2>1, <3>1, <3>2 DEF op, arg, keep
  <2>2. CASE ~(job[t].was /\ ~job[t].gw)
    <3>1. AfterNote(t)
      BY <2>2 DEF set_node_meta
    <3> QED
      BY <1>1, <3>1, AfterNoteGoes
  <2> QED
    BY <2>1, <2>2
<1>7. job[t].gw = eff_gateway(e) /\ NoTrafficThrough(e)
      /\ (e.field = "via" => e.value \subseteq Ids)
  BY <1>1, <1>2 DEF Checked
<1>8. Marking(t)' <=> job[t].gw
  BY <1>2, <1>5, <1>6 DEF Marking
<1>9. Fitting(t)'
  <2>1. Gone(t)' = {}
    BY <1>6 DEF Gone
  <2>2. \A d \in dirs : d.via \in Node /\ meta[d.via].kind # "device" /\ d.via \in Ids
    BY <1>1, <1>4 DEF Direction, Fitting
  <2>3. \A d \in dirs : meta'[d.via].kind # "device" /\ d.via \in Ids
    BY <1>3, <1>7, <2>2 DEF NoTrafficThrough
  <2>4. \A n \in Node \ Ids : meta'[n] = NoMeta
    BY <1>1, <1>3, <1>4 DEF Fitting
  <2>5. \A n \in Node : meta'[n].via \subseteq Ids
    BY <1>1, <1>3, <1>4, <1>7 DEF Fitting
  <2>6. ASSUME NEW n \in hsNodes, n.id \notin Marked(t)', meta'[n.id].gateway
        PROVE  gateway_tag(n.id) \in n.tags
    <3>1. n.id # e.node
      BY <1>3, <1>6, <1>7, <1>8, <2>6 DEF Marked
    <3>2. meta'[n.id] = meta[n.id]
      BY <1>1, <1>3, <3>1 DEF HsNode
    <3> QED
      BY <1>1, <1>4, <2>6, <3>2 DEF Fitting
  <2> QED
    BY <1>1, <1>2, <1>4, <2>1, <2>3, <2>4, <2>5, <2>6 DEF Fitting
<1>10. Checked(t)' /\ Copies(t)'
  BY <1>2, <1>6 DEF Checked, Copies
<1>11. \A n \in hsNodes : n.id = e.node => n.tags = keep(t)
  BY <1>1, <1>2 DEF Tagging
<1>12. Tagging(t)'
  BY <1>2, <1>3, <1>6, <1>7, <1>8, <1>11 DEF Tagging
<1> QED
  BY <1>6, <1>9, <1>10, <1>12 DEF Done, InHand

LEMMA WithoutGatewayFields ==
    ASSUME NEW m \in [Node -> MetaEntry], NEW g
    PROVE  \A n \in Node : /\ without_gateway(m, g)[n].kind = m[n].kind
                           /\ without_gateway(m, g)[n].gateway = m[n].gateway
                           /\ without_gateway(m, g)[n].via = m[n].via \ {g}
                           /\ m[n] = NoMeta => without_gateway(m, g)[n] = NoMeta
<1>1. ASSUME NEW n \in Node
      PROVE  /\ without_gateway(m, g)[n].kind = m[n].kind
             /\ without_gateway(m, g)[n].gateway = m[n].gateway
             /\ without_gateway(m, g)[n].via = m[n].via \ {g}
             /\ m[n] = NoMeta => without_gateway(m, g)[n] = NoMeta
  <2>1. without_gateway(m, g)[n] = [m[n] EXCEPT !.via = m[n].via \ {g}]
    BY DEF without_gateway
  <2>2. m[n] \in MetaEntry
    OBVIOUS
  <2>3. /\ without_gateway(m, g)[n].kind = m[n].kind
        /\ without_gateway(m, g)[n].gateway = m[n].gateway
        /\ without_gateway(m, g)[n].via = m[n].via \ {g}
    BY <2>1, <2>2 DEF MetaEntry
  <2>4. [NoMeta EXCEPT !.via = NoMeta.via \ {g}] = NoMeta
    <3>1. NoMeta \in MetaEntry /\ NoMeta.via \ {g} = NoMeta.via
      BY DEF NoMeta, MetaEntry
    <3> QED
      BY <3>1 DEF MetaEntry
  <2> QED
    BY <2>1, <2>3, <2>4
<1> QED
  BY <1>1

LEMMA DropTidy ==
    ASSUME NEW t \in Task, Tidy(t), drop_gateway(t)
    PROVE  Done(t)
<1>1. /\ TasksOK /\ Phase(pc[t], why[t], op(t)) /\ Tagging(t) /\ Fitting(t)
      /\ meta \in [Node -> MetaEntry]
  BY TidyFacts
<1>2. /\ pc[t] = "drop" /\ op(t) = "set_meta" /\ AfterNote(t)
      /\ meta' = without_gateway(meta, arg(t).node) /\ UNCHANGED <<hsNodes, dirs, Ids>>
  BY <1>1 DEF drop_gateway, Phase, headscale, Ids
<1>3. ~Marking(t) /\ Gone(t) = {} /\ Marked(t) = {} /\ ~Moving(t) /\ ~job[t].gw
      /\ ~meta[arg(t).node].gateway /\ arg(t).node \in Ids
      /\ \A n \in hsNodes : n.id = arg(t).node => n.tags = keep(t)
  BY <1>1, <1>2 DEF Tagging, Gone, Marked, Moving, RouteOps, DirectionOps
<1>4. /\ op(t)' = op(t) /\ arg(t)' = arg(t) /\ keep(t)' = keep(t) /\ ~job'[t].gw
      /\ pc'[t] \in {"tags", "exit"} /\ why'[t] = why[t]
  BY <1>1, <1>2, <1>3, AfterNoteGoes
<1>5. ~Marking(t)'
  BY <1>2, <1>3, <1>4 DEF Marking
<1>6. \A n \in Node : /\ meta'[n].kind = meta[n].kind
                      /\ meta'[n].gateway = meta[n].gateway
                      /\ meta'[n].via \subseteq meta[n].via
                      /\ meta[n] = NoMeta => meta'[n] = NoMeta
  BY <1>1, <1>2, WithoutGatewayFields
<1>7. Fitting(t)'
  BY <1>2, <1>3, <1>6, NotesStay
<1>8. arg(t).node \in Node
  BY <1>3, TidyFacts DEF Ids, HsNode
<1>9. Checked(t)' /\ Copies(t)' /\ Tagging(t)'
  BY <1>2, <1>3, <1>4, <1>5, <1>6, <1>8 DEF Checked, Copies, Tagging
<1> QED
  BY <1>4, <1>7, <1>9 DEF Done, InHand

(* A role does not take the mark of a gateway away.                        *)
LEMMA RetagIds ==
    ASSUME NEW t \in Task, hsNodes \in SUBSET HsNode, Retag(t)
    PROVE  /\ UNCHANGED Ids
           /\ \A m \in hsNodes' : \E n \in hsNodes :
                 /\ m.id = n.id /\ m.approved = n.approved
                 /\ m.tags = IF n.id = arg(t).node THEN Hung(t) ELSE n.tags
<1> DEFINE H == Hung(t)
           new(n) == IF n.id = arg(t).node THEN [n EXCEPT !.tags = H] ELSE n
<1>1. hsNodes' = {new(n) : n \in hsNodes}
  BY DEF Retag
<1> HIDE DEF H
<1>2. \A n \in hsNodes : /\ new(n).id = n.id /\ new(n).approved = n.approved
                         /\ new(n).tags = IF n.id = arg(t).node THEN H ELSE n.tags
  BY DEF HsNode
<1> HIDE DEF new
<1>3. UNCHANGED Ids
  BY <1>1, <1>2 DEF Ids
<1>4. \A m \in hsNodes' : \E n \in hsNodes :
          /\ m.id = n.id /\ m.approved = n.approved
          /\ m.tags = IF n.id = arg(t).node THEN H ELSE n.tags
  BY <1>1, <1>2
<1> QED
  BY <1>3, <1>4 DEF H

LEMMA TagsTidy ==
    ASSUME NEW t \in Task, Tidy(t), set_node_tags(t)
    PROVE  Done(t)
<1>1. /\ TasksOK /\ Phase(pc[t], why[t], op(t)) /\ Tagging(t) /\ Fitting(t) /\ ~Fault
      /\ hsNodes \in SUBSET HsNode /\ meta \in [Node -> MetaEntry]
  BY TidyFacts
<1>2. pc[t] = "tags" /\ op(t) \in {"set_meta", "set_tags"} /\ UNCHANGED <<dirs, meta>>
  BY <1>1 DEF set_node_tags, Phase, database
<1>3. Gone(t) = {} /\ ~Moving(t)
  BY <1>2 DEF Gone, Moving
<1>4. CASE Retag(t)
  <2>1. /\ UNCHANGED Ids
        /\ \A m \in hsNodes' : \E n \in hsNodes :
              /\ m.id = n.id /\ m.approved = n.approved
              /\ m.tags = IF n.id = arg(t).node THEN Hung(t) ELSE n.tags
    BY <1>1, <1>4, RetagIds
  <2>2. ASSUME NEW n \in hsNodes, n.id = arg(t).node, meta[n.id].gateway
        PROVE  gateway_tag(n.id) \in Hung(t)
    <3>1. CASE op(t) = "set_tags"
      <4>1. gateway_tag(n.id) \in n.tags
        BY <1>1, <2>2, <3>1 DEF Fitting, Marked, Marking
      <4>2. gateway_tag(n.id) \in kept_tags(n)
        BY <4>1 DEF kept_tags, is_service_tag, gateway_tag
      <4> QED
        BY <1>1, <2>2, <3>1, <4>2 DEF Tagging, Hung
    <3>2. CASE op(t) = "set_meta"
      <4>1. job[t].gw
        BY <1>1, <1>2, <2>2, <3>2 DEF Tagging
      <4> QED
        BY <2>2, <3>2, <4>1 DEF Hung
    <3> QED
      BY <1>2, <3>1, <3>2
  <2>3. ASSUME NEW m \in hsNodes', meta[m.id].gateway
        PROVE  gateway_tag(m.id) \in m.tags
    <3>1. PICK n \in hsNodes : /\ m.id = n.id
                              /\ m.tags = IF n.id = arg(t).node THEN Hung(t) ELSE n.tags
      BY <2>1
    <3> QED
      BY <1>1, <2>2, <2>3, <3>1 DEF Fitting, Marked
  <2>4. RoutesApproved'
    <3>1. RoutesApproved
      BY <1>1, <1>3 DEF Fitting
    <3> QED
      BY <1>2, <2>1, <3>1 DEF RoutesApproved
  <2>5. Gone(t)' = {}
    BY <1>2, <1>4, TidyFacts, EndTidy DEF set_node_tags, Goto, Gone, TasksOK
  <2>6. Fitting(t)'
    BY <1>1, <1>2, <1>3, <2>1, <2>3, <2>4, <2>5 DEF Fitting
  <2>7. CASE End(t)
    BY <2>6, <2>7, EndTidy DEF Done
  <2>8. CASE op(t) = "set_meta" /\ Goto(t, "exit") /\ UNCHANGED <<why, job>>
    <3>1. pc'[t] = "exit" /\ op(t)' = "set_meta"
      BY <1>1, <2>8 DEF Goto, TasksOK, op
    <3> QED
      BY <2>6, <3>1 DEF Done, InHand, Checked, Copies, Tagging, Marking
  <2> QED
    BY <1>1, <1>2, <2>7, <2>8 DEF set_node_tags
<1>5. CASE ~Retag(t)
  <2>1. End(t) /\ UNCHANGED hsNodes
        /\ ~(Hung(t) \subseteq live.owners /\ \E n \in hsNodes : n.id = arg(t).node)
    BY <1>1, <1>5 DEF set_node_tags
  <2>2. ~Marking(t)
    BY <1>1, <1>2, <2>1 DEF Tagging, Ids
  <2> QED
    BY <1>2, <1>3, <2>1, <2>2, EndDone DEF Marked
<1> QED
  BY <1>4, <1>5

(* The exit flag, the form and the ticked routes are kept with the agents. *)
LEMMA FormsTidy ==
    ASSUME NEW t \in Task, Tidy(t), set_agent_exit(t) \/ Untick(t) \/ WriteAgent(t)
    PROVE  Done(t)
<1>1. TasksOK /\ Phase(pc[t], why[t], op(t))
  BY TidyFacts
<1>2. UNCHANGED <<hsNodes, dirs, meta>> /\ pc[t] \in {"exit", "untick", "form"}
  BY DEF set_agent_exit, Untick, WriteAgent, headscale
<1>3. op(t) \in {"set_meta", "set_routes", "put_agent"} /\ Gone(t) = {} /\ ~Moving(t)
      /\ ~Marking(t) /\ Marked(t) = {}
  BY <1>1, <1>2 DEF Phase, Gone, Moving, RouteOps, DirectionOps, Marked, Marking
<1>4. CASE End(t)
  BY <1>2, <1>3, <1>4, EndDone
<1>5. CASE set_agent_exit(t)
  <2>1. pc'[t] = "lock" /\ why'[t] = "apply" /\ op(t)' = op(t) /\ op(t) = "set_meta"
    BY <1>1, <1>5 DEF set_agent_exit, AfterExit, StartApply, TasksOK, op, Phase
  <2>2. Fitting(t)'
    BY <1>2, <1>3, FittingSame
  <2> QED
    BY <2>1, <2>2 DEF Done, InHand, Checked, Copies, Tagging, Marking
<1>6. CASE Untick(t) /\ ~End(t)
  <2>1. Kept(t) = {} /\ Goto(t, "routes") /\ UNCHANGED <<why, job>> /\ pc[t] = "untick"
    BY <1>6 DEF Untick
  <2>2. pc'[t] = "routes" /\ op(t)' = "set_routes" /\ arg(t)' = arg(t)
    BY <1>1, <2>1 DEF Goto, TasksOK, op, arg, Phase
  <2>3. Fitting(t)'
    BY <1>2, <1>3, FittingSame
  <2>4. routes_by_node(dirs, arg(t).node) \subseteq arg(t).routes
    BY <2>1 DEF Kept
  <2> QED
    BY <1>2, <2>2, <2>3, <2>4 DEF Done, InHand, Checked, Copies, Tagging, Marking
<1> QED
  BY <1>4, <1>5, <1>6 DEF WriteAgent

LEMMA TickedTidy ==
    ASSUME NEW t \in Task, Tidy(t), ApproveTicked(t)
    PROVE  Done(t)
<1>1. /\ TasksOK /\ Phase(pc[t], why[t], op(t)) /\ Checked(t) /\ Fitting(t) /\ ~Fault
      /\ hsNodes \in SUBSET HsNode
  BY TidyFacts
<1> DEFINE R == arg(t).routes
           new(n) == IF n.id = arg(t).node THEN [n EXCEPT !.approved = R] ELSE n
<1>2. /\ hsNodes' = {new(n) : n \in hsNodes} /\ End(t) /\ pc[t] = "routes"
      /\ UNCHANGED <<dirs, meta>>
  BY <1>1 DEF ApproveTicked, database
<1>3. op(t) = "set_routes"
  BY <1>1, <1>2 DEF Phase
<1>4. Gone(t) = {} /\ Marked(t) = {} /\ ~Moving(t)
  BY <1>2, <1>3 DEF Gone, Marked, Marking, Moving
<1>5. routes_by_node(dirs, arg(t).node) \subseteq R
  BY <1>1, <1>2 DEF Checked
<1> HIDE DEF R
<1>6. \A n \in hsNodes : /\ new(n).id = n.id /\ new(n).tags = n.tags
                         /\ new(n).approved = IF n.id = arg(t).node THEN R ELSE n.approved
  BY <1>1 DEF HsNode
<1> HIDE DEF new
<1>7. UNCHANGED Ids /\ \A m \in hsNodes' : \E n \in hsNodes : m.id = n.id /\ m.tags = n.tags
  BY <1>2, <1>6 DEF Ids
<1>8. RoutesApproved'
  <2>1. \A d \in dirs : dst_ips(d) \subseteq routes_by_node(dirs, d.via)
    BY DEF routes_by_node
  <2>2. RoutesApproved
    BY <1>1, <1>4 DEF Fitting
  <2> QED
    BY <1>2, <1>5, <1>6, <2>1, <2>2 DEF RoutesApproved
<1> QED
  BY <1>2, <1>4, <1>7, <1>8, NodesStay, EndTidy DEF Done

LEMMA ClientsTidy ==
    ASSUME NEW t \in Task, Tidy(t), set_gateway_clients(t)
    PROVE  Done(t)
<1>1. /\ TasksOK /\ JobOK(job[t]) /\ Phase(pc[t], why[t], op(t)) /\ Checked(t) /\ Fitting(t)
      /\ meta \in [Node -> MetaEntry]
  BY TidyFacts
<1>2. /\ pc[t] = "clients" /\ StartApply(t) /\ UNCHANGED <<hsNodes, dirs, job>>
      /\ op(t) = "set_exit_clients"
  BY <1>1 DEF set_gateway_clients, headscale, Phase
<1>3. Gone(t) = {} /\ Marked(t) = {} /\ ~Moving(t)
  BY <1>2 DEF Gone, Marked, Marking, Moving
<1>4. arg(t).node \in Ids /\ keep(t) \subseteq Ids
  BY <1>1, <1>2 DEF Checked
<1> DEFINE V(n) == IF n \in arg(t).devices THEN meta[n].via \cup {arg(t).node}
                   ELSE meta[n].via \ {arg(t).node}
<1>5. ASSUME NEW n \in Node
      PROVE  /\ meta'[n].kind = meta[n].kind /\ meta'[n].gateway = meta[n].gateway
             /\ meta'[n].via \subseteq meta[n].via \cup Ids
             /\ n \notin Ids /\ meta[n] = NoMeta => meta'[n] = NoMeta
  <2>1. meta'[n] = IF n \notin keep(t) THEN meta[n] ELSE [meta[n] EXCEPT !.via = V(n)]
    BY DEF set_gateway_clients
  <2>2. V(n) \subseteq meta[n].via \cup Ids
    BY <1>4
  <2> HIDE DEF V
  <2>3. /\ [meta[n] EXCEPT !.via = V(n)].kind = meta[n].kind
        /\ [meta[n] EXCEPT !.via = V(n)].gateway = meta[n].gateway
        /\ [meta[n] EXCEPT !.via = V(n)].via = V(n)
    <3>1. meta[n] \in MetaEntry
      BY <1>1
    <3> QED
      BY <3>1 DEF MetaEntry
  <2> QED
    BY <1>4, <2>1, <2>2, <2>3
<1>6. Fitting(t)'
  BY <1>2, <1>3, <1>5, NotesStay
<1>7. pc'[t] = "lock" /\ why'[t] = "apply" /\ op(t)' = op(t)
  BY <1>1, <1>2 DEF StartApply, TasksOK, op
<1> QED
  BY <1>2, <1>6, <1>7 DEF Done, InHand, Checked, Copies, Tagging, Marking

LEMMA FewerDirections ==
    ASSUME NEW D \in SUBSET Direction, NEW n, NEW d \in dirs_without(D, n)
    PROVE  d.via # n /\ \E e \in D : d.via = e.via /\ dst_ips(d) = dst_ips(e)
<1>1. PICK e \in D : e.via # n /\ d = [e EXCEPT !.src = e.src \ {n}]
  BY DEF dirs_without
<1>2. e \in Direction
  OBVIOUS
<1>3. d.via = e.via /\ d.ips = e.ips
  BY <1>1, <1>2 DEF Direction
<1>4. QED
  BY <1>1, <1>3 DEF dst_ips

LEMMA DeleteTidy ==
    ASSUME NEW t \in Task, Tidy(t), HsDelete(t) \/ ForgetRead(t)
    PROVE  Done(t)
<1>1. /\ TasksOK /\ Phase(pc[t], why[t], op(t)) /\ Checked(t) /\ Fitting(t) /\ ~Fault
      /\ Copies(t)
  BY TidyFacts
<1>2. op(t) = "delete_node" /\ UNCHANGED <<dirs, meta>>
  BY <1>1 DEF HsDelete, ForgetRead, Phase, database
<1>3. Marked(t) = {} /\ ~Moving(t)
  BY <1>2 DEF Marked, Marking, Moving, RouteOps, DirectionOps
<1>4. CASE HsDelete(t)
  <2>1. /\ hsNodes' = {n \in hsNodes : n.id # arg(t)} /\ pc[t] = "hs_delete"
        /\ Goto(t, "forget_wait") /\ UNCHANGED job
    BY <1>1, <1>4 DEF HsDelete
  <2>2. pc'[t] = "forget_wait" /\ op(t)' = op(t) /\ arg(t)' = arg(t)
    BY <1>1, <2>1 DEF Goto, TasksOK, op, arg
  <2>3. Ids' = Ids \ {arg(t)} /\ Gone(t) = {} /\ Gone(t)' = {arg(t)} /\ hsNodes' \subseteq hsNodes
        /\ Marked(t)' = {}
    BY <1>2, <2>1, <2>2 DEF Ids, Gone, Marked, Marking
  <2>4. RoutesApproved'
    BY <1>1, <1>2, <1>3, <2>3 DEF RoutesApproved, Fitting
  <2>5. Ids \subseteq Ids' \cup Gone(t)'
    BY <2>3
  <2>6. Fitting(t)'
    BY <1>1, <1>2, <1>3, <2>3, <2>4, <2>5 DEF Fitting
  <2> QED
    BY <1>2, <2>2, <2>3, <2>6 DEF Done, InHand, Checked, Copies, Tagging, Marking
<1>5. CASE ForgetRead(t)
  <2>1. pc[t] = "forget_wait" /\ job' = [job EXCEPT ![t].keep = dirs] /\ Goto(t, "forget")
        /\ UNCHANGED <<hsNodes, Ids>>
    BY <1>5 DEF ForgetRead, headscale, Ids
  <2>2. pc'[t] = "forget" /\ op(t)' = op(t) /\ arg(t)' = arg(t) /\ keep(t)' = dirs
    BY <1>1, <2>1, KeepFields DEF Goto, TasksOK, op, arg, keep
  <2>3. Gone(t)' = Gone(t)
    BY <2>1, <2>2 DEF Gone
  <2>4. Fitting(t)'
    BY <1>2, <1>3, <2>1, <2>3, FittingSame
  <2> QED
    BY <1>1, <1>2, <2>1, <2>2, <2>4 DEF Done, InHand, Checked, Copies, Tagging, Marking
<1> QED
  BY <1>4, <1>5

LEMMA ForgetTidy ==
    ASSUME NEW t \in Task, Tidy(t), ForgetCommit(t)
    PROVE  Done(t)
<1>1. /\ TasksOK /\ JobOK(job[t]) /\ Phase(pc[t], why[t], op(t)) /\ Checked(t) /\ Copies(t)
      /\ Fitting(t) /\ ~Fault /\ meta \in [Node -> MetaEntry]
      /\ hsNodes \in SUBSET HsNode /\ dirs \in SUBSET Direction
  BY TidyFacts
<1>2. op(t) = "delete_node" /\ arg(t) \in Node /\ pc[t] = "forget"
  BY <1>1 DEF ForgetCommit, Phase, JobOK, op, arg
<1>3. PICK n \in Node : n = arg(t)
  BY <1>2
<1> DEFINE w == without_gateway(meta, n)
           m == [w EXCEPT ![n] = NoMeta]
<1>4. meta' = m /\ StartApply(t) /\ job' = [job EXCEPT ![t].keep = {}] /\ UNCHANGED hsNodes
  BY <1>1, <1>3 DEF ForgetCommit, headscale
<1>5. keep(t) = dirs /\ n \notin Ids
  BY <1>1, <1>2, <1>3 DEF Checked, Copies
<1>6. dirs' = dirs_without(dirs, n)
  <2>1. \/ dirs' = dirs_without(dirs, n)
        \/ dirs' = IF dirs_without(keep(t), n) = keep(t) THEN dirs
                   ELSE dirs_without(keep(t), n)
    BY <1>1, <1>3 DEF ForgetCommit
  <2> QED
    BY <1>5, <2>1
<1>7. pc'[t] = "lock" /\ why'[t] = "apply" /\ op(t)' = op(t)
  BY <1>1, <1>4, KeepFields DEF StartApply, TasksOK, op
<1>8. InHand(t)'
  BY <1>2, <1>7 DEF InHand, Checked, Copies, Tagging, Marking
<1>9. Gone(t) = {n} /\ Gone(t)' = {} /\ Marked(t) = {} /\ ~Moving(t)
  BY <1>2, <1>3, <1>7 DEF Gone, Marked, Marking, Moving, RouteOps, DirectionOps
<1>10. w \in [Node -> MetaEntry] /\ m \in [Node -> MetaEntry]
  BY <1>1, WithoutGatewayTyped DEF NoMeta, MetaEntry
<1>11. \A k \in Node : /\ w[k].kind = meta[k].kind /\ w[k].gateway = meta[k].gateway
                       /\ w[k].via = meta[k].via \ {n}
                       /\ meta[k] = NoMeta => w[k] = NoMeta
  BY <1>1, WithoutGatewayFields
<1> HIDE DEF w
<1>12. m[n] = NoMeta /\ \A k \in Node \ {n} : m[k] = w[k]
  BY <1>10
<1> HIDE DEF m
<1>13. UNCHANGED Ids /\ \A h \in hsNodes : h.id \in Node \ {n}
  BY <1>1, <1>4, <1>5 DEF Ids, HsNode
<1>14. \A d \in dirs' : m[d.via].kind # "device" /\ d.via \in Ids
  <2>1. ASSUME NEW d \in dirs'
        PROVE  m[d.via].kind # "device" /\ d.via \in Ids
    <3>1. d.via # n /\ \E e \in dirs : d.via = e.via
      BY <1>1, <1>6, FewerDirections
    <3>2. d.via \in Ids /\ meta[d.via].kind # "device" /\ d.via \in Node
      BY <1>1, <1>9, <3>1 DEF Fitting, Direction
    <3> QED
      BY <1>11, <1>12, <3>1, <3>2
  <2> QED
    BY <2>1
<1>15. \A k \in Node \ Ids : m[k] = NoMeta
  BY <1>1, <1>9, <1>11, <1>12 DEF Fitting
<1>16. \A k \in Node : m[k].via \subseteq Ids
  <2>1. NoMeta.via = {}
    BY DEF NoMeta
  <2>2. \A k \in Node : meta[k].via \subseteq Ids \cup {n}
    BY <1>1, <1>9 DEF Fitting
  <2> QED
    BY <1>11, <1>12, <2>1, <2>2
<1>17. RoutesApproved'
  <2>1. RoutesApproved
    BY <1>1, <1>9 DEF Fitting
  <2>2. \A d \in dirs' : \E e \in dirs : d.via = e.via /\ dst_ips(d) = dst_ips(e)
    BY <1>1, <1>6, FewerDirections
  <2> QED
    BY <1>4, <2>1, <2>2 DEF RoutesApproved
<1>18. \A h \in hsNodes : m[h.id].gateway => gateway_tag(h.id) \in h.tags
  BY <1>1, <1>9, <1>11, <1>12, <1>13 DEF Fitting
<1>19. Fitting(t)'
  BY <1>4, <1>9, <1>13, <1>14, <1>15, <1>16, <1>17, <1>18 DEF Fitting
<1> QED
  BY <1>8, <1>19 DEF Done

-----------------------------------------------------------------------------
(* build_policy and the push.                                              *)
LEMMA OwnsTags ==
    ASSUME NEW N, NEW m, NEW R, NEW D, NEW extra
    PROVE  extra \cup (UNION {n.tags : n \in N}) \subseteq PolicyOf(R, D, m, N, extra).owners
<1>1. ASSUME NEW X, NEW srv, NEW dev, NEW tags, NEW G
      PROVE  tags \subseteq generate_policy(X, N, srv, dev, tags, G).owners
  <2> DEFINE grants == {[src |-> g.src, via |-> g.via \ DeviceTags(N, dev)] :
                           g \in {h \in G : h.via \ DeviceTags(N, dev) # {}}}
  <2>1. generate_policy(X, N, srv, dev, tags, G).owners
            = used_tags(Acls(X, N, srv, dev), grants, tags)
    BY DEF generate_policy
  <2> QED
    BY <2>1 DEF used_tags
<1>2. \E X, srv, dev, G :
          PolicyOf(R, D, m, N, extra)
            = generate_policy(X, N, srv, dev,
                 (UNION {n.tags : n \in N}) \cup {gateway_tag(n) : n \in gateways(m)}
                    \cup extra, G)
  <2> DEFINE ids(S) == {n.id : n \in S}
             X == R \cup admin_rules(m)
                    \cup acl_rules(D, ids(devices(N, m)), ids(servers(N, m)))
  <2>1. PolicyOf(R, D, m, N, extra)
          = generate_policy(X, N, ipv4(servers(N, m)), ipv4(devices(N, m)),
               (UNION {n.tags : n \in N}) \cup {gateway_tag(n) : n \in gateways(m)}
                  \cup extra, exit_via_grants(m, N))
    BY DEF PolicyOf
  <2> HIDE DEF X
  <2> QED
    BY <2>1, Zenon
<1> QED
  BY <1>1, <1>2

LEMMA BuildTidy ==
    ASSUME NEW t \in Task, Tidy(t),
           BuildRules(t) \/ BuildNodes(t) \/ BuildMeta(t) \/ BuildRouting(t)
    PROVE  Done(t)
<1>1. /\ TasksOK /\ Phase(pc[t], why[t], op(t)) /\ Tagging(t) /\ ~Fault /\ seen[t] \in Seen
      /\ Checked(t) /\ Copies(t)
  BY TidyFacts
<1>2. /\ UNCHANGED <<hsNodes, live, dirs, meta, why, job>>
      /\ pc[t] \in {"b_rules", "b_nodes", "b_meta", "b_dirs"}
  BY <1>1 DEF BuildRules, BuildNodes, BuildMeta, BuildRouting, headscale, database
<1>3. PICK p \in {"b_nodes", "b_meta", "b_dirs", "compare", "send"} :
          /\ Goto(t, p)
          /\ p = "b_nodes" => op(t) # "collect"
          /\ p \in {"compare", "send"} =>
                BuildRouting(t) /\ (p = "compare" => op(t) = "collect")
  BY <1>1 DEF BuildRules, BuildNodes, BuildMeta, BuildRouting
<1>4. /\ pc'[t] = p /\ why'[t] = why[t] /\ job'[t] = job[t]
      /\ op(t)' = op(t) /\ arg(t)' = arg(t) /\ keep(t)' = keep(t)
      /\ Marking(t)' = Marking(t) /\ Marked(t)' = Marked(t) /\ Gone(t) = {}
      /\ UNCHANGED Ids
  BY <1>1, <1>2, <1>3 DEF Goto, TasksOK, op, arg, keep, Marking, Marked, Gone, Ids
<1>5. p = "compare" => op(t) = "collect"
  BY <1>3
<1>6. Moving(t) => Moving(t)'
  BY <1>2, <1>4, <1>5 DEF Moving, RouteOps, DirectionOps
<1>7. Fitting(t)'
  BY <1>2, <1>4, <1>6, FittingSame
<1>8. op(t) = "set_meta" /\ Marking(t) /\ pc'[t] \in {"b_meta", "b_dirs"} =>
          seen'[t].nodes = hsNodes
  <2>1. SUFFICES ASSUME op(t) = "set_meta", Marking(t), pc'[t] \in {"b_meta", "b_dirs"}
                 PROVE  seen'[t].nodes = hsNodes
    OBVIOUS
  <2>2. BuildNodes(t) \/ BuildMeta(t)
    BY <1>1, <2>1 DEF BuildRules, BuildRouting, Goto, TasksOK
  <2>3. CASE BuildNodes(t)
    <3>1. seen' = [seen EXCEPT ![t].nodes = hsNodes]
      BY <1>1, <2>1, <2>3 DEF BuildNodes, Settle, Goto, TasksOK
    <3> QED
      BY <1>1, <3>1 DEF TasksOK, Seen
  <2>4. CASE BuildMeta(t)
    <3>1. seen' = [seen EXCEPT ![t].meta = meta] /\ pc[t] = "b_meta"
      BY <2>4 DEF BuildMeta
    <3>2. seen[t].nodes = hsNodes
      BY <1>1, <2>1, <3>1 DEF Tagging
    <3> QED
      BY <1>1, <3>1, <3>2 DEF TasksOK, Seen
  <2> QED
    BY <2>2, <2>3, <2>4
<1>9. p \in {"compare", "send"} =>
          /\ Declared(pol'[t])
          /\ Marking(t) => Hung(t)' \subseteq pol'[t].owners
  <2>1. SUFFICES ASSUME p \in {"compare", "send"}
                 PROVE  /\ Declared(pol'[t])
                        /\ Marking(t) => Hung(t)' \subseteq pol'[t].owners
    OBVIOUS
  <2> DEFINE s == seen[t]
             extra == IF why[t] = "declare" THEN job[t].extra ELSE {}
             q == PolicyOf(s.rules, dirs, s.meta, s.nodes, extra)
  <2>2. pol' = [pol EXCEPT ![t] = q] /\ pc[t] = "b_dirs"
    BY <1>3, <2>1 DEF BuildRouting
  <2>3. Declared(q) /\ extra \cup (UNION {n.tags : n \in s.nodes}) \subseteq q.owners
    BY PolicyDeclaresItsTags, OwnsTags
  <2> HIDE DEF q
  <2>4. pol'[t] = q
    BY <1>1, <2>2 DEF TasksOK
  <2>5. ASSUME Marking(t)
        PROVE  Hung(t)' \subseteq q.owners
    <3>1. /\ s.nodes = hsNodes /\ extra = {gateway_tag(arg(t).node)} /\ job[t].gw
          /\ op(t) # "set_tags"
      BY <1>1, <2>2, <2>5 DEF Tagging, Marking
    <3>2. Hung(t)' = keep(t) \cup {gateway_tag(arg(t).node)}
      BY <1>4, <3>1 DEF Hung
    <3>3. PICK n \in hsNodes : n.id = arg(t).node /\ n.tags = keep(t)
      BY <1>1, <2>5 DEF Tagging, Ids
    <3> QED
      BY <2>3, <3>1, <3>2, <3>3
  <2> QED
    BY <2>3, <2>4, <2>5
<1>10. Checked(t)' /\ Copies(t)'
  BY <1>4, <1>5, <1>9 DEF Checked, Copies
<1>11. Tagging(t)'
  BY <1>1, <1>2, <1>4, <1>8, <1>9 DEF Tagging, Marking
<1> QED
  BY <1>4, <1>7, <1>10, <1>11 DEF Done, InHand

(* What follows a push that came through: the second push of set_tags, the *)
(* tags, the routes of the directions, or nothing.                         *)
LEMMA SettleTidy ==
    ASSUME NEW t \in Task, Tidy(t), pc[t] \in {"compare", "send"}, Settle(t, TRUE),
           live' = pol[t], UNCHANGED <<hsNodes, dirs, meta>>
    PROVE  Done(t)
<1>1. /\ TasksOK /\ Phase(pc[t], why[t], op(t)) /\ Tagging(t)
  BY TidyFacts
<1>2. Gone(t) = {} /\ UNCHANGED Ids
  BY DEF Gone, Ids
<1>3. CASE why[t] = "declare" /\ Goto(t, "tags") /\ UNCHANGED <<why, job>>
  <2>1. /\ pc'[t] = "tags" /\ why'[t] = why[t] /\ job'[t] = job[t]
        /\ op(t)' = op(t) /\ arg(t)' = arg(t) /\ keep(t)' = keep(t)
    BY <1>1, <1>3 DEF Goto, TasksOK, op, arg, keep
  <2>2. /\ op(t) \in {"set_meta", "set_tags"} /\ ~Moving(t)
        /\ Marking(t) <=> op(t) = "set_meta"
        /\ Marking(t)' <=> Marking(t)
    BY <1>1, <1>3, <2>1 DEF Phase, Moving, RouteOps, DirectionOps, Marking
  <2>7. Marked(t)' = Marked(t) /\ Hung(t)' = Hung(t)
    BY <2>1, <2>2 DEF Marked, Hung
  <2>3. Fitting(t)'
    BY <1>2, <2>2, <2>7, FittingSame
  <2>4. Checked(t)' /\ Copies(t)'
    BY <2>1 DEF Checked, Copies
  <2>5. Marking(t) => pc[t] = "send"
    BY <2>2, TidyFacts DEF Copies
  <2>6. Tagging(t)'
    BY <1>1, <1>2, <2>1, <2>2, <2>5, <2>7 DEF Tagging
  <2> QED
    BY <2>1, <2>3, <2>4, <2>6 DEF Done, InHand
<1>4. CASE /\ why[t] = "declare" /\ op(t) = "set_tags" /\ Goto(t, "b_rules")
           /\ job' = [job EXCEPT ![t].extra = {MARKER_TAG}] /\ UNCHANGED why
  <2>1. /\ pc'[t] = "b_rules" /\ op(t)' = op(t) /\ arg(t)' = arg(t) /\ keep(t)' = keep(t)
    BY <1>1, <1>4, ExtraFields DEF Goto, TasksOK, op, arg, keep
  <2>2. ~Moving(t) /\ Marked(t) = {} /\ ~Marking(t)'
    BY <1>4, <2>1 DEF Moving, RouteOps, DirectionOps, Marked, Marking
  <2>3. Fitting(t)'
    BY <1>2, <2>2, FittingSame
  <2>4. InHand(t)'
    BY <1>1, <1>4, <2>1, <2>2 DEF InHand, Checked, Copies, Tagging
  <2> QED
    BY <2>3, <2>4 DEF Done
<1>5. CASE why[t] # "declare" /\ op(t) \in RouteOps /\ Goto(t, "approve") /\ UNCHANGED <<why, job>>
  <2>1. pc'[t] = "approve" /\ op(t)' = op(t)
    BY <1>1, <1>5 DEF Goto, TasksOK, op
  <2>2. Moving(t)' /\ Marked(t) = {} /\ ~Marking(t)'
    BY <1>5, <2>1 DEF Moving, RouteOps, DirectionOps, Marked, Marking
  <2>3. Fitting(t)'
    BY <1>2, <2>2, FittingSame
  <2>4. InHand(t)'
    BY <1>5, <2>1, <2>2 DEF InHand, Checked, Copies, Tagging, RouteOps, DirectionOps
  <2> QED
    BY <2>3, <2>4 DEF Done
<1>6. CASE why[t] # "declare" /\ op(t) \notin RouteOps /\ End(t)
  <2>1. ~Moving(t) /\ Marked(t) = {}
    BY <1>6 DEF Moving, Marked, Marking
  <2> QED
    BY <1>2, <1>6, <2>1, EndDone
<1> QED
  BY <1>3, <1>4, <1>5, <1>6 DEF Settle, RouteOps

LEMMA SendTidy ==
    ASSUME OneAtATime, NEW t \in Task, Tidy(t), Send(t)
    PROVE  Done(t)
<1>1. pc[t] = "send" /\ UNCHANGED <<hsNodes, dirs, meta>> /\ Copies(t) /\ ~Fault
  BY TidyFacts DEF Send, database
<1>2. Accepts(pol[t])
  BY <1>1 DEF Copies, Accepts, OneAtATime
<1> QED
  BY <1>1, <1>2, SettleTidy DEF Send

-----------------------------------------------------------------------------
(* Routes are approved: what the round writes takes no route away that a   *)
(* direction needs, and when it was meant to, all of them are there.       *)
LEMMA ApprovedRoutes ==
    ASSUME NEW t \in Task, Tidy(t), NEW S, NEW got, hsNodes' = Approved(t, S, got),
           UNCHANGED <<dirs, meta>>
    PROVE  /\ UNCHANGED Ids
           /\ \A m \in hsNodes' : \E n \in hsNodes : m.id = n.id /\ m.tags = n.tags
           /\ (\A n \in hsNodes :
                  LET p == plan(t)[n.id]
                      to == IF n.id \in S /\ target(p, got[n.id]) # p.had
                            THEN target(p, got[n.id]) ELSE n.approved
                  IN  routes_by_node(dirs, n.id) \subseteq to) => RoutesApproved'
<1> DEFINE g(n) == target(plan(t)[n.id], got[n.id])
           called(n) == n.id \in S /\ g(n) # plan(t)[n.id].had
           new(n) == IF called(n) THEN [n EXCEPT !.approved = g(n)] ELSE n
<1>1. hsNodes' = {new(n) : n \in hsNodes}
  BY DEF Approved
<1> HIDE DEF g, called
<1>2. ASSUME NEW n \in hsNodes
      PROVE  /\ new(n).id = n.id /\ new(n).tags = n.tags
             /\ new(n).approved = IF called(n) THEN g(n) ELSE n.approved
  <2>1. n \in HsNode
    BY TidyFacts
  <2> QED
    BY <2>1 DEF HsNode
<1> HIDE DEF new
<1>3. UNCHANGED Ids /\ \A m \in hsNodes' : \E n \in hsNodes : m.id = n.id /\ m.tags = n.tags
  BY <1>1, <1>2 DEF Ids
<1>4. ASSUME \A n \in hsNodes :
                routes_by_node(dirs, n.id) \subseteq IF called(n) THEN g(n) ELSE n.approved
      PROVE  RoutesApproved'
  <2>1. \A d \in dirs : dst_ips(d) \subseteq routes_by_node(dirs, d.via)
    BY DEF routes_by_node
  <2> QED
    BY <1>1, <1>2, <1>4, <2>1 DEF RoutesApproved
<1> QED
  BY <1>3, <1>4 DEF called, g

LEMMA ApprovedOfNode ==
    ASSUME NEW t \in Task, Tidy(t), NEW n \in hsNodes
    PROVE  approved_of(hsNodes, n.id) = n.approved
<1>1. {m \in hsNodes : m.id = n.id} = {n}
  BY TidyFacts DEF DistinctAddrs
<1> QED
  BY <1>1 DEF approved_of

LEMMA ApproveTidy ==
    ASSUME NEW t \in Task, Tidy(t), Approve(t)
    PROVE  Done(t)
<1>1. /\ TasksOK /\ Copies(t) /\ ~Fault /\ seen[t] \in Seen /\ hsNodes \in SUBSET HsNode
      /\ dirs \in SUBSET Direction
  BY TidyFacts
<1>2. pc[t] = "approve" /\ op(t) \in RouteOps /\ UNCHANGED <<hsNodes, dirs, meta, Ids>>
  BY <1>1 DEF Approve, headscale, database, Ids, Copies
<1>3. Gone(t) = {} /\ ~Marking(t) /\ Marked(t) = {} /\ Moving(t)
  BY <1>2 DEF Gone, Marked, Marking, Moving, RouteOps, DirectionOps
<1> DEFINE P == [n \in Node |->
                    IF \E h \in hsNodes : h.id = n
                    THEN [want |-> routes_by_node(dirs, n), mine |-> {},
                          had |-> approved_of(hsNodes, n)]
                    ELSE NoPlan]
<1>4. \/ End(t) /\ \A n \in Node : routes_by_node(dirs, n) = {}
      \/ /\ seen' = [seen EXCEPT ![t].plan = P]
         /\ Goto(t, "approving") /\ UNCHANGED <<why, job>>
  BY <1>1 DEF Approve
<1>5. \A n \in Node \ Ids : P[n] = NoPlan
  BY DEF Ids
<1>6. ASSUME NEW n \in hsNodes
      PROVE  P[n.id].had = n.approved /\ P[n.id].want = routes_by_node(dirs, n.id)
             /\ P[n.id].mine = {}
  BY <1>1, ApprovedOfNode DEF HsNode
<1> HIDE DEF P
<1>7. CASE End(t) /\ \A n \in Node : routes_by_node(dirs, n) = {}
  <2>1. RoutesApproved'
    <3>1. \A d \in dirs : d.via \in Node /\ dst_ips(d) \subseteq routes_by_node(dirs, d.via)
      BY <1>1 DEF Direction, routes_by_node
    <3> QED
      BY <1>2, <1>7, <3>1 DEF RoutesApproved
  <2> QED
    BY <1>2, <1>3, <1>7, <2>1, NodesStay, EndTidy DEF Done
<1>8. CASE /\ seen' = [seen EXCEPT ![t].plan = P]
           /\ Goto(t, "approving") /\ UNCHANGED <<why, job>>
  <2>1. /\ pc'[t] = "approving" /\ why'[t] = why[t] /\ job'[t] = job[t] /\ op(t)' = op(t)
        /\ seen'[t].plan = P
    BY <1>1, <1>8 DEF Goto, TasksOK, Seen, op
  <2>2. Moving(t)' /\ ~Marking(t)' /\ op(t) \notin {"set_tags", "collect", "set_meta"}
    BY <1>2, <2>1 DEF Moving, Marking, RouteOps, DirectionOps
  <2>3. Fitting(t)'
    BY <1>2, <1>3, <2>2, FittingSame
  <2>4. Copies(t)'
    BY <1>2, <1>5, <1>6, <2>1, <2>2 DEF Copies, plan
  <2> QED
    BY <2>1, <2>2, <2>3, <2>4 DEF Done, InHand, Checked, Tagging
<1> QED
  BY <1>4, <1>7, <1>8

LEMMA ApproveDirectionsTidy ==
    ASSUME NEW t \in Task, Tidy(t), ApproveDirections(t)
    PROVE  Done(t)
<1> DEFINE got == [n \in Node |-> plan(t)[n].want]
<1>1. /\ TasksOK /\ Copies(t) /\ ~Fault /\ hsNodes \in SUBSET HsNode
  BY TidyFacts
<1>2. pc[t] = "approving" /\ op(t) # "collect" /\ End(t) /\ UNCHANGED <<dirs, meta>>
  BY DEF ApproveDirections
<1>3. /\ op(t) \in RouteOps
      /\ \A n \in Node \ Ids : plan(t)[n] = NoPlan
      /\ \A n \in hsNodes : LET p == plan(t)[n.id]
                            IN  p.had = n.approved /\ p.mine = {}
                                /\ routes_by_node(dirs, n.id) \subseteq p.want
  BY <1>1, <1>2 DEF Copies
<1>4. ~Missing(t, got)
  <2>1. ASSUME NEW n \in Node, ~ \E h \in hsNodes : h.id = n
        PROVE  target(plan(t)[n], got[n]) = plan(t)[n].had
    BY <1>3, <2>1 DEF Ids, NoPlan, target
  <2> QED
    BY <2>1 DEF Missing
<1>5. hsNodes' = Approved(t, Node, got)
  BY <1>1, <1>4 DEF ApproveDirections
<1>6. \A n \in hsNodes : n.id \in Node /\ got[n.id] = plan(t)[n.id].want
  BY <1>1 DEF HsNode
<1> HIDE DEF got
<1>7. ASSUME NEW n \in hsNodes
      PROVE  LET p == plan(t)[n.id]
                 to == IF n.id \in Node /\ target(p, got[n.id]) # p.had
                       THEN target(p, got[n.id]) ELSE n.approved
             IN  routes_by_node(dirs, n.id) \subseteq to
  BY <1>3, <1>6 DEF target
<1>8. /\ UNCHANGED Ids /\ RoutesApproved'
      /\ \A m \in hsNodes' : \E n \in hsNodes : m.id = n.id /\ m.tags = n.tags
  BY <1>2, <1>5, <1>7, ApprovedRoutes
<1>9. Gone(t) = {} /\ Marked(t) = {}
  BY <1>2, <1>3 DEF Gone, Marked, Marking, RouteOps, DirectionOps
<1> QED
  BY <1>2, <1>8, <1>9, NodesStay, EndTidy DEF Done

-----------------------------------------------------------------------------
(* The cycle of the collector.                                             *)
LEMMA CollectTidy ==
    ASSUME Tidy(Collector), CollectNodes
    PROVE  Done(Collector)
<1> DEFINE t == Collector
<1>1. t \in Task /\ TasksOK /\ ~Fault /\ Phase(pc[t], why[t], op(t))
  BY SyncAssumption, TidyFacts
<1>2. /\ pc[t] = "idle" /\ Goto(t, "wanted") /\ UNCHANGED <<hsNodes, dirs, meta>>
      /\ seen' = [seen EXCEPT ![t].nodes = hsNodes]
      /\ job' = [job EXCEPT ![t].op = "collect"]
  BY <1>1 DEF CollectNodes, headscale, database
<1>3. pc'[t] = "wanted" /\ seen'[t].nodes = hsNodes
  BY <1>1, <1>2 DEF Goto, TasksOK, Seen
<1>4. op(t)' = "collect" /\ op(t) = "none"
  <2>1. job = [u \in Task |-> job[u]]
    BY <1>1 DEF TasksOK
  <2>2. job'[t] = [job[t] EXCEPT !.op = "collect"]
    BY <1>1, <1>2, <2>1
  <2>3. job[t] = [op |-> job[t].op, arg |-> job[t].arg, keep |-> job[t].keep,
                  was |-> job[t].was, gw |-> job[t].gw, extra |-> job[t].extra]
    BY <1>1 DEF TasksOK, JobOK
  <2>4. job'[t].op = "collect"
    BY <2>2, <2>3
  <2> QED
    BY <1>1, <1>2, <2>4 DEF op, Phase
<1>5. Gone(t) = {} /\ Marked(t) = {} /\ ~Moving(t)
  BY <1>2, <1>4 DEF Gone, Marked, Marking, Moving
<1>6. Fitting(t)'
  BY <1>1, <1>2, <1>5, FittingSame
<1>7. InHand(t)'
  BY <1>2, <1>3, <1>4 DEF InHand, Checked, Copies, Tagging, Marking
<1> QED
  BY <1>6, <1>7 DEF Done

(* A heal begins: nothing of what the cycle has read is needed any more.   *)
LEMMA HealTidy ==
    ASSUME Tidy(Collector), op(Collector) = "collect", StartHeal, UNCHANGED job,
           Fitting(Collector)'
    PROVE  Done(Collector)
<1> DEFINE t == Collector
<1>1. t \in Task /\ TasksOK
  BY SyncAssumption, TidyFacts
<1>2. pc'[t] = "lock" /\ why'[t] = "heal" /\ op(t)' = "collect"
  BY <1>1 DEF StartHeal, TasksOK, op
<1>3. InHand(t)'
  BY <1>2 DEF InHand, Checked, Copies, Tagging, Marking
<1> QED
  BY <1>3 DEF Done

LEMMA ReadWantedTidy ==
    ASSUME Tidy(Collector), ReadWanted
    PROVE  Done(Collector)
<1> DEFINE t == Collector
           raw == seen[t].nodes
           P == [n \in Node |->
                IF agents[n].here /\ \E h \in raw : h.id = n
                THEN [want |-> agents[n].want \cup routes_by_node(dirs, n),
                      mine |-> agents[n].mine, had |-> approved_of(raw, n)]
                ELSE NoPlan]
<1>1. /\ t \in Task /\ TasksOK /\ Copies(t) /\ seen[t] \in Seen /\ hsNodes \in SUBSET HsNode
      /\ Phase(pc[t], why[t], op(t))
  BY SyncAssumption, TidyFacts
<1>2. /\ pc[t] = "wanted" /\ op(t) = "collect" /\ raw = hsNodes
      /\ UNCHANGED <<hsNodes, dirs, meta, job>>
  BY <1>1 DEF ReadWanted, headscale, database, Phase, Copies
<1>3. \/ StartHeal
      \/ /\ seen' = [seen EXCEPT ![t].plan = P]
         /\ Goto(t, "approving") /\ UNCHANGED why
  BY DEF ReadWanted
<1>4. Gone(t) = {} /\ Marked(t) = {} /\ ~Moving(t)
  BY <1>2 DEF Gone, Marked, Marking, Moving, RouteOps, DirectionOps
<1>5. Fitting(t)'
  BY <1>1, <1>2, <1>4, FittingSame
<1>6. ASSUME NEW n \in hsNodes
      PROVE  P[n.id] = NoPlan \/ (/\ P[n.id].had = n.approved
                                  /\ routes_by_node(dirs, n.id) \subseteq P[n.id].want)
  <2>1. n.id \in Node /\ approved_of(raw, n.id) = n.approved
    BY <1>1, <1>2, ApprovedOfNode DEF HsNode
  <2> QED
    BY <2>1
<1> HIDE DEF P
<1>7. CASE StartHeal
  BY <1>2, <1>5, <1>7, HealTidy
<1>8. CASE seen' = [seen EXCEPT ![t].plan = P] /\ Goto(t, "approving") /\ UNCHANGED why
  <2>1. /\ pc'[t] = "approving" /\ op(t)' = "collect" /\ seen'[t].plan = P
    BY <1>1, <1>2, <1>8 DEF Goto, TasksOK, Seen, op
  <2>2. Copies(t)'
    BY <1>2, <1>6, <2>1 DEF Copies, plan
  <2>3. Checked(t)' /\ Tagging(t)'
    BY <2>1 DEF Checked, Tagging, Marking
  <2> QED
    BY <1>5, <2>1, <2>2, <2>3 DEF Done, InHand
<1> QED
  BY <1>3, <1>7, <1>8

(* What the collector withdraws is what the panel has approved and nobody  *)
(* wants, and a direction wants its routes.                                *)
LEMMA RequestedTidy ==
    ASSUME Tidy(Collector), ApproveRequested
    PROVE  Done(Collector)
<1> DEFINE t == Collector
<1>1. /\ t \in Task /\ TasksOK /\ Copies(t) /\ ~Fault /\ Fitting(t)
      /\ hsNodes \in SUBSET HsNode
  BY SyncAssumption, TidyFacts
<1>2. /\ pc[t] = "approving" /\ op(t) = "collect" /\ StartHeal /\ UNCHANGED <<dirs, meta, job>>
  BY DEF ApproveRequested
<1>10. PICK got \in {Granted(an) : an \in SUBSET UNION {{n} \X plan(t)[n].want : n \in Node}} :
          \E S : hsNodes' = Approved(t, S, got)
  BY Zenon DEF ApproveRequested
<1>3. PICK S : hsNodes' = Approved(t, S, got)
  BY <1>10
<1>4. \A n \in Node : got[n] \subseteq plan(t)[n].want
  BY <1>10 DEF Granted
<1>5. Gone(t) = {} /\ Marked(t) = {} /\ ~Moving(t)
  BY <1>2 DEF Gone, Marked, Marking, Moving, RouteOps, DirectionOps
<1>6. ASSUME NEW n \in hsNodes
      PROVE  LET p == plan(t)[n.id]
                 to == IF n.id \in S /\ target(p, got[n.id]) # p.had
                       THEN target(p, got[n.id]) ELSE n.approved
             IN  routes_by_node(dirs, n.id) \subseteq to
  <2>1. routes_by_node(dirs, n.id) \subseteq n.approved
    BY <1>1, <1>5 DEF Fitting, RoutesApproved, routes_by_node
  <2>2. n.id \in Node /\ got[n.id] \subseteq plan(t)[n.id].want
    BY <1>1, <1>4 DEF HsNode
  <2>3. CASE plan(t)[n.id] = NoPlan
    BY <2>1, <2>2, <2>3 DEF NoPlan, target
  <2>4. CASE /\ plan(t)[n.id].had = n.approved
             /\ routes_by_node(dirs, n.id) \subseteq plan(t)[n.id].want
    BY <2>1, <2>4 DEF target
  <2> QED
    BY <1>1, <1>2, <2>3, <2>4 DEF Copies
<1>7. /\ UNCHANGED Ids /\ RoutesApproved'
      /\ \A m \in hsNodes' : \E n \in hsNodes : m.id = n.id /\ m.tags = n.tags
  BY <1>1, <1>2, <1>3, <1>6, ApprovedRoutes
<1>8. Gone(t)' = {} /\ Marked(t)' = {}
  <2>1. pc'[t] = "lock" /\ op(t)' = "collect"
    BY <1>1, <1>2 DEF StartHeal, TasksOK, op
  <2> QED
    BY <2>1 DEF Gone, Marked, Marking
<1>9. Fitting(t)'
  BY <1>1, <1>2, <1>5, <1>7, <1>8, NodesStay
<1> QED
  BY <1>2, <1>9, HealTidy

LEMMA CompareTidy ==
    ASSUME Tidy(Collector), Compare
    PROVE  Done(Collector)
<1> DEFINE t == Collector
<1>1. t \in Task /\ TasksOK /\ Copies(t) /\ ~Fault
  BY SyncAssumption, TidyFacts
<1>2. pc[t] = "compare" /\ op(t) = "collect" /\ UNCHANGED <<hsNodes, live, dirs, meta>>
  BY <1>1 DEF Compare, headscale, database, Copies
<1>3. CASE pol[t] = live /\ Settle(t, TRUE)
  BY <1>1, <1>2, <1>3, SettleTidy
<1>4. CASE Goto(t, "send") /\ UNCHANGED <<why, job, pol>>
  <2>1. pc'[t] = "send" /\ op(t)' = "collect" /\ pol'[t] = pol[t]
    BY <1>1, <1>2, <1>4 DEF Goto, TasksOK, op
  <2>2. Gone(t) = {} /\ Marked(t) = {} /\ ~Moving(t)
    BY <1>2 DEF Gone, Marked, Marking, Moving, RouteOps, DirectionOps
  <2>3. Fitting(t)'
    BY <1>1, <1>2, <2>2, FittingSame
  <2>4. InHand(t)'
    BY <1>1, <1>2, <2>1 DEF InHand, Checked, Copies, Tagging, Marking
  <2> QED
    BY <2>3, <2>4 DEF Done
<1> QED
  BY <1>1, <1>3, <1>4 DEF Compare, building

-----------------------------------------------------------------------------
(* One task after another: who is under way, and that nothing fails.       *)
LEMMA CalmOn ==
    ASSUME OneAtATime, Calmly, [Next]_vars
    PROVE  Calmly'
<1>1. ~Fault /\ ~LateArrives /\ ~Tamper /\ ~Join /\ ~Restart
  BY DEF Calmly, Fault, LateArrives, Tamper, Join, Restart, OneAtATime
<1>2. CASE UNCHANGED vars
  BY <1>2 DEF vars, Calmly
<1>3. ASSUME NEW t \in Task, Arrive(t) \/ Acquire(t)
      PROVE  Calmly'
  BY <1>3 DEF Arrive, PutRules, CreateDirection, DeleteDirection, RefreshDirections, SetMeta,
     SetTags, DeleteNode, SetRoutes, PutAgent, SetExitClients, Request, Acquire, headscale,
     budget, Calmly
<1>4. ASSUME NEW t \in Task, Step(t)
      PROVE  Calmly'
  <2>1. CASE \/ Save(t) \/ Undo(t) \/ RefreshRead(t) \/ RefreshWrite(t)
             \/ set_node_meta(t) \/ drop_gateway(t) \/ set_node_tags(t)
    BY <1>1, <2>1 DEF Save, Undo, RefreshRead, RefreshWrite, set_node_meta, drop_gateway,
       set_node_tags, headscale, budget, NoFault, Calmly
  <2>2. CASE \/ set_agent_exit(t) \/ Untick(t) \/ ApproveTicked(t) \/ WriteAgent(t)
             \/ set_gateway_clients(t) \/ HsDelete(t) \/ ForgetRead(t) \/ ForgetCommit(t)
    BY <1>1, <2>2 DEF set_agent_exit, Untick, ApproveTicked, WriteAgent, set_gateway_clients,
       HsDelete, ForgetRead, ForgetCommit, headscale, budget, NoFault, Calmly
  <2>3. CASE \/ BuildRules(t) \/ BuildNodes(t) \/ BuildMeta(t) \/ BuildRouting(t)
             \/ Send(t) \/ Approve(t) \/ ApproveDirections(t)
    BY <1>1, <2>3 DEF BuildRules, BuildNodes, BuildMeta, BuildRouting, Send, Approve,
       ApproveDirections, headscale, budget, NoFault, Calmly
  <2> QED
    BY <1>4, <2>1, <2>2, <2>3 DEF Step
<1>5. CASE CollectNodes \/ ReadWanted \/ ApproveRequested \/ Compare \/ Prune
  BY <1>1, <1>5 DEF CollectNodes, ReadWanted, ApproveRequested, Compare, Prune, headscale,
     budget, NoFault, Calmly
<1> QED
  BY <1>1, <1>2, <1>3, <1>4, <1>5 DEF Next

(* When nothing is under way, any task may be the next.                    *)
LEMMA TidyAll ==
    ASSUME NEW t \in Task, Tidy(t), Quiet, NEW u \in Task
    PROVE  Tidy(u)
<1>1. TypeOK /\ Calmly /\ Fitting(t) /\ \A v \in Task : pc[v] = "idle" /\ op(v) = "none"
  BY DEF Tidy, Sole, Quiet, TypeOK, TasksOK, Phase
<1>2. /\ Gone(t) = {} /\ Marked(t) = {} /\ ~Moving(t)
      /\ Gone(u) = {} /\ Marked(u) = {} /\ ~Moving(u)
  BY <1>1 DEF Gone, Marked, Marking, Moving
<1>3. Fitting(u)
  BY <1>1, <1>2 DEF Fitting
<1>4. InHand(u)
  BY <1>1 DEF InHand, Checked, Copies, Tagging, Marking
<1> QED
  BY <1>1, <1>3, <1>4 DEF Tidy, Sole

LEMMA CollectorAlone ==
    ASSUME TasksOK, CollectNodes \/ ReadWanted \/ ApproveRequested \/ Compare
    PROVE  \A u \in Task \ {Collector} : pc'[u] = pc[u]
<1> DEFINE t == Collector
<1>1. t \in Task
  BY SyncAssumption
<1>2. CASE CollectNodes \/ ReadWanted \/ ApproveRequested
  BY <1>2 DEF CollectNodes, ReadWanted, ApproveRequested, StartHeal, Goto, TasksOK
<1>3. CASE Compare
  <2>1. CASE Settle(t, TRUE)
    BY <1>1, <2>1, SettleFrame DEF Others
  <2>2. CASE Goto(t, "send")
    BY <2>2 DEF Goto, TasksOK
  <2> QED
    BY <1>3, <2>1, <2>2 DEF Compare
<1> QED
  BY <1>2, <1>3

(* A task that is the only one under way, or begins when none is.          *)
LEMMA StepTidy ==
    ASSUME OneAtATime, NEW t \in Task, Tidy(t), Arrive(t) \/ Acquire(t) \/ Step(t)
    PROVE  Done(t) /\ Others(t)
<1>1. TasksOK /\ ~Undo(t)
  BY TidyFacts DEF InHand, Undo
<1>2. CASE Arrive(t)
  BY <1>1, <1>2, ArriveTidy, ArriveElsewhere
<1>3. CASE Acquire(t) \/ Step(t)
  <2>1. Others(t)
    BY <1>1, <1>3, Frame
  <2>2. Done(t)
    BY <1>1, <1>3, AcquireTidy, SaveTidy, RefreshTidy, NoteTidy, DropTidy, TagsTidy, FormsTidy,
       TickedTidy, ClientsTidy, DeleteTidy, ForgetTidy, BuildTidy, SendTidy, ApproveTidy,
       ApproveDirectionsTidy DEF Step
  <2> QED
    BY <2>1, <2>2
<1> QED
  BY <1>2, <1>3

LEMMA TidyStep ==
    ASSUME OneAtATime, NEW t \in Task, Tidy(t), [Next /\ Solo]_vars
    PROVE  \E u \in Task : Sole(u)'
<1>1. TasksOK /\ Calmly' /\ \A v \in Task \ {t} : pc[v] = "idle"
  BY CalmOn, TidyFacts DEF Tidy, Sole
<1>2. CASE Prune \/ UNCHANGED vars
  <2>1. UNCHANGED <<hsNodes, live, dirs, meta, pc, why, job, seen, pol>>
    BY <1>2 DEF Prune, vars, headscale, database, tasks
  <2>2. /\ op(t)' = op(t) /\ arg(t)' = arg(t) /\ keep(t)' = keep(t) /\ plan(t)' = plan(t)
        /\ UNCHANGED Ids
    BY <2>1 DEF op, arg, keep, plan, Ids
  <2>3. /\ Gone(t)' = Gone(t) /\ Marking(t)' = Marking(t) /\ Marked(t)' = Marked(t)
        /\ Moving(t)' = Moving(t) /\ Hung(t)' = Hung(t)
        /\ NoTrafficThrough(arg(t))' = NoTrafficThrough(arg(t))
        /\ eff_gateway(arg(t))' = eff_gateway(arg(t))
    BY <2>1, <2>2 DEF Gone, Marking, Marked, Moving, Hung, NoTrafficThrough, eff_gateway
  <2>4. Fitting(t)'
    BY <2>1, <2>3, FittingSame
  <2>5. Checked(t)' /\ Copies(t)'
    BY <2>1, <2>2, <2>3, TidyFacts DEF Checked, Copies
  <2>6. Tagging(t)'
    BY <2>1, <2>2, <2>3, TidyFacts DEF Tagging
  <2>7. pc'[t] # "undo"
    BY <2>1, TidyFacts DEF InHand
  <2> QED
    BY <1>1, <2>1, <2>4, <2>5, <2>6, <2>7 DEF InHand, Sole
<1>3. ASSUME NEW u \in Task, Arrive(u) \/ Acquire(u) \/ Step(u), Solo
      PROVE  Sole(u)'
  <2>1. Tidy(u)
    <3>1. CASE u = t
      BY <3>1
    <3>2. CASE u # t
      <4>1. pc[u] = "idle"
        BY <1>1, <3>2
      <4>2. ~Acquire(u) /\ ~Step(u)
        BY <4>1 DEF Acquire, Step, Save, Undo, RefreshRead, RefreshWrite, set_node_meta,
           drop_gateway, set_node_tags, set_agent_exit, Untick, ApproveTicked, WriteAgent,
           set_gateway_clients, HsDelete, ForgetRead, ForgetCommit, BuildRules, BuildNodes,
           BuildMeta, BuildRouting, Send, Approve, ApproveDirections
      <4>3. pc'[u] # "idle"
        <5>1. ASSUME NEW j, NEW where, NEW what, where # "idle", Request(u, j, where, what)
              PROVE  pc'[u] # "idle"
          BY <1>1, <5>1 DEF Request, TasksOK
        <5> QED
          BY <1>3, <4>2, <5>1 DEF Arrive, PutRules, CreateDirection, DeleteDirection,
             RefreshDirections, SetMeta, SetTags, DeleteNode, SetRoutes, PutAgent,
             SetExitClients
      <4> QED
        BY <1>3, <4>1, <4>3, TidyAll DEF Solo
    <3> QED
      BY <3>1, <3>2
  <2>2. \A v \in Task \ {u} : pc[v] = "idle"
    BY <2>1 DEF Tidy, Sole
  <2> QED
    BY <1>1, <1>3, <2>1, <2>2, StepTidy DEF Done, Others, Sole
<1>4. CASE (CollectNodes \/ ReadWanted \/ ApproveRequested \/ Compare) /\ Solo
  <2> DEFINE u == Collector
  <2>1. u \in Task
    BY SyncAssumption
  <2>2. Tidy(u)
    <3>1. CASE u = t
      BY <3>1
    <3>2. CASE u # t
      <4>1. pc[u] = "idle"
        BY <1>1, <2>1, <3>2
      <4>2. CollectNodes /\ pc'[u] # "idle"
        BY <1>1, <1>4, <2>1, <4>1 DEF CollectNodes, ReadWanted, ApproveRequested, Compare,
           Goto, TasksOK
      <4> QED
        BY <1>4, <2>1, <4>1, <4>2, TidyAll DEF Solo
    <3> QED
      BY <3>1, <3>2
  <2>3. Done(u)
    BY <1>4, <2>2, CollectTidy, ReadWantedTidy, RequestedTidy, CompareTidy
  <2>4. \A v \in Task \ {u} : pc'[v] = "idle"
    BY <1>1, <1>4, <2>2, CollectorAlone DEF Tidy, Sole
  <2> QED
    BY <1>1, <2>1, <2>3, <2>4 DEF Done, Sole
<1>5. ~LateArrives /\ ~Tamper /\ ~Restart /\ ~Join
  BY DEF LateArrives, Tamper, Restart, Join, Fault, Tidy, Sole, Calmly, OneAtATime
<1> QED
  BY <1>2, <1>3, <1>4, <1>5 DEF Next

InOrder == \E t \in Task : Tidy(t)

LEMMA TidyInit == OneAtATime /\ Init => InOrder
<1>1. SUFFICES ASSUME OneAtATime, Init
               PROVE  Tidy(Collector)
  BY SyncAssumption DEF InOrder
<1> DEFINE t == Collector
<1>2. TypeOK
  BY <1>1, InitOK
<1>3. PICK s \in Stored : hsNodes = s.nodes /\ dirs = s.dirs /\ meta = s.meta
  BY <1>1 DEF Init
<1>4. StartsInOrder(s) /\ Calmly
  BY <1>1 DEF OneAtATime, Unfailing, Init, Calmly
<1>5. \A u \in Task : pc[u] = "idle" /\ op(u) = "none"
  BY <1>1 DEF Init, op, NoJob
<1>6. Gone(t) = {} /\ Marked(t) = {} /\ t \in Task
  BY <1>5, SyncAssumption DEF Gone, Marked, Marking
<1>7. InHand(t)
  BY <1>5, <1>6 DEF InHand, Checked, Copies, Tagging, Marking
<1>8. Fitting(t)
  BY <1>3, <1>4, <1>6 DEF StartsInOrder, Fitting, RoutesApproved, Ids
<1> QED
  BY <1>2, <1>4, <1>5, <1>7, <1>8 DEF Tidy, Sole

LEMMA InOrderAlways == OneAtATime => (SoloSpec => []InOrder)
<1>1. SUFFICES ASSUME OneAtATime
               PROVE  SoloSpec => []InOrder
  OBVIOUS
<1>2. Init => InOrder
  BY <1>1, TidyInit
<1>3. InOrder /\ [Next /\ Solo]_vars => InOrder'
  <2>1. SUFFICES ASSUME NEW t \in Task, Tidy(t), [Next /\ Solo]_vars
                 PROVE  \E u \in Task : Tidy(u)'
    BY DEF InOrder
  <2>2. TypeOK' /\ \E u \in Task : Sole(u)'
    BY <1>1, <2>1, TidyStep, NextOK DEF Tidy
  <2> QED
    BY <2>2 DEF Tidy
<1>4. QED
  BY <1>2, <1>3, PTL DEF SoloSpec

LEMMA TidyQuiet ==
    ASSUME NEW t \in Task, Tidy(t), Quiet
    PROVE  Fitting(t) /\ Gone(t) = {} /\ Marked(t) = {} /\ ~Moving(t)
<1>1. op(t) = "none" /\ pc[t] = "idle"
  BY TidyFacts DEF Quiet, Phase
<1> QED
  BY <1>1 DEF Tidy, Sole, Gone, Marked, Marking, Moving

(* api/nodes.py set_meta, set_routes, api/routing.py create_direction,     *)
(* collector.py _auto_approve_requested: with one task at a time, from any *)
(* stored state in order, when nothing is under way no direction that      *)
(* routes anything leads through a device.                                 *)
THEOREM NoDeviceViaHolds ==
    ASSUME OneAtATime
    PROVE  SoloSpec => []NoDeviceVia
<1>1. InOrder => NoDeviceVia
  <2>1. SUFFICES ASSUME NEW t \in Task, Tidy(t), Quiet, NEW d \in dirs, NEW n \in hsNodes,
                        n.id = d.via, dst_ips(d) # {}
                 PROVE  effective_kind(n, meta) = "server"
    BY DEF InOrder, NoDeviceVia
  <2>2. n.approved # {} /\ meta[n.id].kind # "device" /\ n.id \in Node
    BY <2>1, TidyQuiet, TidyFacts DEF Fitting, RoutesApproved, HsNode
  <2>3. meta[n.id].kind \in {"", "server", "device"}
    BY <2>1, <2>2, TidyFacts DEF MetaEntry
  <2> QED
    BY <2>2, <2>3 DEF effective_kind, guess_kind
<1> QED
  BY <1>1, InOrderAlways, PTL

(* api/nodes.py set_meta, set_tags: with one task at a time, from any      *)
(* stored state in order, when nothing is under way every node marked as   *)
(* an exit gateway wears its tag, whatever roles it is given or loses.     *)
THEOREM GatewayWearsItsTagHolds ==
    ASSUME OneAtATime
    PROVE  SoloSpec => []GatewayWearsItsTag
<1>1. InOrder => GatewayWearsItsTag
  BY TidyQuiet DEF InOrder, GatewayWearsItsTag, Fitting
<1> QED
  BY <1>1, InOrderAlways, PTL

(* settings_store.py forget_node_refs, drop_gateway: with one task at a    *)
(* time, from any stored state in order, when nothing is under way no      *)
(* direction, note or permitted exit names a node that has been deleted.   *)
THEOREM NoDeadReferencesHolds ==
    ASSUME OneAtATime
    PROVE  SoloSpec => []NoDeadReferences
<1>1. InOrder => NoDeadReferences
  BY TidyQuiet DEF InOrder, NoDeadReferences, Fitting, Ids
<1> QED
  BY <1>1, InOrderAlways, PTL
=============================================================================
