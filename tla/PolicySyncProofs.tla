-------------------------- MODULE PolicySyncProofs --------------------------
(***************************************************************************)
(* Proofs about PolicySync for any number of tasks, nodes, rules,          *)
(* directions and failures.                                                *)
(***************************************************************************)
EXTENDS PolicySync, AclGenProofs

-----------------------------------------------------------------------------
(* A step of one task t changes the five functions that describe the tasks *)
(* at t only: it takes t to the place p with the purpose w, the job j, the *)
(* readings s and the policy q.                                            *)
Moves(t, p, w, j, s, q) ==
    /\ pc' = [pc EXCEPT ![t] = p]
    /\ why' = [why EXCEPT ![t] = w]
    /\ job' = [job EXCEPT ![t] = j]
    /\ seen' = [seen EXCEPT ![t] = s]
    /\ pol' = [pol EXCEPT ![t] = q]

LEMMA MoveOK ==
    ASSUME TasksOK, NEW t \in Task, NEW p \in PC, NEW w \in Why,
           NEW j, JobOK(j), Phase(p, w, j.op), NEW s \in Seen, NEW q \in Policy,
           Moves(t, p, w, j, s, q)
    PROVE  TasksOK'
<1>1. /\ pc' \in [Task -> PC] /\ why' \in [Task -> Why]
      /\ seen' \in [Task -> Seen] /\ pol' \in [Task -> Policy]
  BY DEF TasksOK, Moves
<1>2. job' = [u \in Task |-> IF u = t THEN j ELSE job[u]]
  BY DEF TasksOK, Moves
<1>3. job' = [u \in Task |-> job'[u]]
  BY <1>2
<1>4. ASSUME NEW u \in Task
      PROVE  JobOK(job'[u]) /\ Phase(pc'[u], why'[u], job'[u].op)
  <2>1. CASE u = t
    <3>1. pc'[u] = p /\ why'[u] = w /\ job'[u] = j
      BY <1>2, <2>1 DEF TasksOK, Moves
    <3>2. QED
      BY <3>1
  <2>2. CASE u # t
    <3>1. pc'[u] = pc[u] /\ why'[u] = why[u] /\ job'[u] = job[u]
      BY <1>2, <2>2 DEF TasksOK, Moves
    <3>2. QED
      BY <3>1 DEF TasksOK, op
  <2>3. QED
    BY <2>1, <2>2
<1>5. QED
  BY <1>1, <1>3, <1>4 DEF TasksOK, op

(* A component a step leaves alone counts as set to what it was.           *)
LEMMA Unchanged ==
    ASSUME TasksOK, NEW t \in Task
    PROVE  /\ UNCHANGED pc => pc' = [pc EXCEPT ![t] = pc[t]]
           /\ UNCHANGED why => why' = [why EXCEPT ![t] = why[t]]
           /\ UNCHANGED job => job' = [job EXCEPT ![t] = job[t]]
           /\ UNCHANGED seen => seen' = [seen EXCEPT ![t] = seen[t]]
           /\ UNCHANGED pol => pol' = [pol EXCEPT ![t] = pol[t]]
  BY DEF TasksOK

LEMMA NothingYet ==
    /\ JobOK(NoJob) /\ NoSeen \in Seen /\ NoPolicy \in Policy
    /\ "idle" \in PC /\ "none" \in Why /\ Phase("idle", "none", "none")
<1>1. JobOK(NoJob)
  BY DEF JobOK, NoJob, OpName, Blob
<1>2. NoSeen \in Seen
  BY DEF NoSeen, Seen, NoMeta, MetaEntry, NoPlan, Plan
<1>3. NoPolicy \in Policy
  BY DEF NoPolicy, Policy
<1>4. QED
  BY <1>1, <1>2, <1>3 DEF PC, Why, Phase

LEMMA EndOK ==
    ASSUME TasksOK, NEW t \in Task, End(t)
    PROVE  TasksOK'
<1>1. Moves(t, "idle", "none", NoJob, NoSeen, NoPolicy)
  BY DEF End, Moves
<1>2. NoJob.op = "none"
  BY DEF NoJob
<1>3. QED
  BY <1>1, <1>2, NothingYet, MoveOK

-----------------------------------------------------------------------------
(* Requests.                                                               *)

LEMMA RequestOK ==
    ASSUME TypeOK, NEW t \in Task, NEW j, NEW where \in PC, NEW what \in Why,
           JobOK(j), Phase(where, what, j.op), Request(t, j, where, what)
    PROVE  TypeOK'
<1>1. TasksOK
  BY DEF TypeOK
<1>2. Moves(t, where, what, j, seen[t], pol[t])
  BY <1>1, Unchanged DEF Request, building, Moves
<1>3. TasksOK'
  <2>1. seen[t] \in Seen /\ pol[t] \in Policy
    BY <1>1 DEF TasksOK
  <2>2. QED
    BY <1>1, <1>2, <2>1, MoveOK
<1>4. left' \in Nat
  BY DEF Request, TypeOK
<1>5. QED
  BY <1>3, <1>4 DEF TypeOK, Request, headscale, database

(* A record is known by its fields.                                        *)
LEMMA JobFields ==
    ASSUME NEW o, NEW a, NEW k, NEW w, NEW g, NEW x,
           NEW r \in [op : {o}, arg : {a}, keep : {k}, was : {w}, gw : {g}, extra : {x}]
    PROVE  r = [op |-> o, arg |-> a, keep |-> k, was |-> w, gw |-> g, extra |-> x]
  OBVIOUS

(* A job that only names its request and the request's argument.           *)
LEMMA AskOK ==
    ASSUME NEW name \in OpName, NEW a,
           name = "put_rules" => a \in SUBSET Rule,
           name \in {"create_direction", "delete_direction"} => a \in Direction,
           name \in {"refresh_directions", "routing_loop"} =>
               a[1] \in Direction /\ a[2] \in Direction,
           name = "set_meta" => a \in Edits,
           name = "set_tags" => a \in Retags,
           name = "delete_node" => a \in Node,
           name \in {"set_routes", "put_agent"} => a \in Picks,
           name = "set_exit_clients" => a \in Clients
    PROVE  JobOK(Ask(name, a)) /\ Ask(name, a).op = name
<1>1. Ask(name, a) = [op |-> name, arg |-> a, keep |-> {}, was |-> FALSE,
                      gw |-> FALSE, extra |-> {}]
  <2>1. Ask(name, a) \in [op : {name}, arg : {a}, keep : {{}}, was : {FALSE},
                          gw : {FALSE}, extra : {{}}]
    BY DEF Ask, NoJob
  <2>2. QED
    BY <2>1, JobFields
<1>2. QED
  BY <1>1 DEF JobOK

LEMMA ArriveOK ==
    ASSUME TypeOK, NEW t \in Task, Arrive(t)
    PROVE  TypeOK'
<1> USE DEF PC, Why, Phase, OpName
<1>1. CASE PutRules(t)
  <2>1. PICK body \in Bodies : Request(t, Ask("put_rules", body), "lock", "none")
    BY <1>1 DEF PutRules
  <2>2. body \in SUBSET Rule
    BY SyncAssumption
  <2>3. QED
    BY <2>1, <2>2, AskOK, RequestOK
<1>2. CASE CreateDirection(t)
  <2>1. PICK d \in NewDirs : Request(t, Ask("create_direction", d), "lock", "none")
    BY <1>2 DEF CreateDirection
  <2>2. d \in Direction
    BY SyncAssumption
  <2>3. QED
    BY <2>1, <2>2, AskOK, RequestOK
<1>3. CASE DeleteDirection(t)
  <2>1. PICK d \in dirs : Request(t, Ask("delete_direction", d), "lock", "none")
    BY <1>3 DEF DeleteDirection
  <2>2. d \in Direction
    BY DEF TypeOK
  <2>3. QED
    BY <2>1, <2>2, AskOK, RequestOK
<1>4. CASE RefreshDirections(t)
  <2>1. PICK d \in dirs, e \in NewDirs, name \in {"refresh_directions", "routing_loop"} :
            Request(t, Ask(name, <<d, e>>), "refresh", "none")
    BY <1>4 DEF RefreshDirections
  <2>2. d \in Direction /\ e \in Direction
    BY SyncAssumption DEF TypeOK
  <2>3. JobOK(Ask(name, <<d, e>>)) /\ Ask(name, <<d, e>>).op = name
    BY <2>2, AskOK
  <2>4. QED
    BY <2>1, <2>3, RequestOK
<1>5. CASE SetMeta(t)
  <2>1. PICK e \in Edits, n \in hsNodes :
            Request(t, [Ask("set_meta", e) EXCEPT
                          !.keep = n.tags, !.was = meta[e.node].gateway,
                          !.gw = eff_gateway(e)], "note", "none")
    BY <1>5 DEF SetMeta
  <2>2. e \in MetaEdit
    BY SyncAssumption
  <2>3. n.tags \in SUBSET Tag
    BY DEF TypeOK, HsNode
  <2>4. meta[e.node].gateway \in BOOLEAN
    BY <2>2 DEF TypeOK, MetaEdit, MetaEntry
  <2>5. eff_gateway(e) \in BOOLEAN
    BY <2>2, <2>4 DEF eff_gateway, MetaEdit
  <2> DEFINE j == [op |-> "set_meta", arg |-> e, keep |-> n.tags,
                   was |-> meta[e.node].gateway, gw |-> eff_gateway(e), extra |-> {}]
  <2>6. j = [Ask("set_meta", e) EXCEPT !.keep = n.tags,
                 !.was = meta[e.node].gateway, !.gw = eff_gateway(e)]
    <3>1. [Ask("set_meta", e) EXCEPT !.keep = n.tags,
                !.was = meta[e.node].gateway, !.gw = eff_gateway(e)]
              \in [op : {"set_meta"}, arg : {e}, keep : {n.tags},
                   was : {meta[e.node].gateway}, gw : {eff_gateway(e)}, extra : {{}}]
      BY DEF Ask, NoJob
    <3>2. QED
      BY <3>1, JobFields
  <2>7. JobOK(j) /\ j.op = "set_meta"
    BY <2>3, <2>4, <2>5 DEF JobOK, Blob
  <2> HIDE DEF j
  <2>8. QED
    BY <2>1, <2>6, <2>7, RequestOK
<1>6. CASE SetTags(t)
  <2>1. PICK e \in Retags, n \in hsNodes, where \in {"tags", "b_rules"} :
            LET want == keep_tagged(e.roles \cup kept_tags(n))
            IN  Request(t, [Ask("set_tags", e) EXCEPT
                              !.keep = want,
                              !.extra = IF e.roles # {} THEN e.roles
                                                        ELSE {MARKER_TAG}],
                        where, "declare")
    BY <1>6, Zenon DEF SetTags
  <2> DEFINE want == keep_tagged(e.roles \cup kept_tags(n))
             extra == IF e.roles # {} THEN e.roles ELSE {MARKER_TAG}
             j == [op |-> "set_tags", arg |-> e, keep |-> want, was |-> FALSE,
                   gw |-> FALSE, extra |-> extra]
  <2>2. e.roles \in SUBSET Tag
    BY SyncAssumption DEF Tag
  <2>3. n.tags \in SUBSET Tag
    BY DEF TypeOK, HsNode
  <2>4. MARKER_TAG \in Tag
    BY DEF Tag
  <2>5. want \in SUBSET Tag /\ extra \in SUBSET Tag
    BY <2>2, <2>3, <2>4 DEF keep_tagged, kept_tags
  <2>6. j = [Ask("set_tags", e) EXCEPT !.keep = want, !.extra = extra]
    <3> HIDE DEF want, extra
    <3>1. [Ask("set_tags", e) EXCEPT !.keep = want, !.extra = extra]
              \in [op : {"set_tags"}, arg : {e}, keep : {want}, was : {FALSE},
                   gw : {FALSE}, extra : {extra}]
      BY DEF Ask, NoJob
    <3>2. QED
      BY <3>1, JobFields
  <2> HIDE DEF want, extra
  <2>7. JobOK(j) /\ j.op = "set_tags"
    BY <2>5 DEF JobOK, Blob
  <2>8. Request(t, j, where, "declare")
    BY <2>1, <2>6 DEF want, extra
  <2> HIDE DEF j
  <2>9. QED
    BY <2>7, <2>8, RequestOK
<1>7. CASE DeleteNode(t)
  <2>1. PICK n \in Node : Request(t, Ask("delete_node", n), "hs_delete", "none")
    BY <1>7 DEF DeleteNode
  <2>2. QED
    BY <2>1, AskOK, RequestOK
<1>8. CASE SetRoutes(t)
  <2>1. PICK p \in Picks : Request(t, Ask("set_routes", p), "untick", "none")
    BY <1>8 DEF SetRoutes
  <2>2. QED
    BY <2>1, AskOK, RequestOK
<1>9. CASE PutAgent(t)
  <2>1. PICK p \in Picks : Request(t, Ask("put_agent", p), "form", "none")
    BY <1>9 DEF PutAgent
  <2>2. QED
    BY <2>1, AskOK, RequestOK
<1>10. CASE SetExitClients(t)
  <2> DEFINE others == {m.id : m \in devices(hsNodes, meta)}
  <2>1. PICK c \in Clients :
            Request(t, [Ask("set_exit_clients", c) EXCEPT !.keep = others],
                    "clients", "none")
    BY <1>10 DEF SetExitClients
  <2>2. others \in SUBSET Node
    BY DEF TypeOK, HsNode, devices
  <2> DEFINE j == [op |-> "set_exit_clients", arg |-> c, keep |-> others,
                   was |-> FALSE, gw |-> FALSE, extra |-> {}]
  <2> HIDE DEF others
  <2>3. j = [Ask("set_exit_clients", c) EXCEPT !.keep = others]
    <3>1. [Ask("set_exit_clients", c) EXCEPT !.keep = others]
              \in [op : {"set_exit_clients"}, arg : {c}, keep : {others},
                   was : {FALSE}, gw : {FALSE}, extra : {{}}]
      BY DEF Ask, NoJob
    <3>2. QED
      BY <3>1, JobFields
  <2>4. JobOK(j) /\ j.op = "set_exit_clients"
    BY <2>2 DEF JobOK, Blob
  <2> HIDE DEF j
  <2>5. QED
    BY <2>1, <2>3, <2>4, RequestOK DEF others
<1>11. QED
  BY <1>1, <1>2, <1>3, <1>4, <1>5, <1>6, <1>7, <1>8, <1>9, <1>10 DEF Arrive

-----------------------------------------------------------------------------
(* The pieces steps are made of.                                           *)

LEMMA KeepOK ==
    ASSUME TasksOK, NEW t \in Task, NEW X \in SUBSET Blob(op(t)),
           job' = [job EXCEPT ![t].keep = X]
    PROVE  \E j : JobOK(j) /\ j.op = op(t) /\ job' = [job EXCEPT ![t] = j]
<1> DEFINE j == [op |-> op(t), arg |-> arg(t), keep |-> X, was |-> job[t].was,
                 gw |-> job[t].gw, extra |-> job[t].extra]
<1>1. JobOK(job[t])
  BY DEF TasksOK
<1>2. JobOK(j) /\ j.op = op(t)
  BY <1>1 DEF JobOK, op, arg
<1>3. job' = [job EXCEPT ![t] = [job[t] EXCEPT !.keep = X]]
  OBVIOUS
<1>4. [job[t] EXCEPT !.keep = X]
          \in [op : {op(t)}, arg : {arg(t)}, keep : {X}, was : {job[t].was},
               gw : {job[t].gw}, extra : {job[t].extra}]
  BY <1>1 DEF JobOK, op, arg
<1>5. [job[t] EXCEPT !.keep = X] = j
  BY <1>4, JobFields
<1> HIDE DEF j
<1>6. QED
  BY <1>2, <1>3, <1>5

LEMMA ExtraOK ==
    ASSUME TasksOK, NEW t \in Task, NEW X \in SUBSET Tag,
           job' = [job EXCEPT ![t].extra = X]
    PROVE  \E j : JobOK(j) /\ j.op = op(t) /\ job' = [job EXCEPT ![t] = j]
<1> DEFINE j == [op |-> op(t), arg |-> arg(t), keep |-> keep(t), was |-> job[t].was,
                 gw |-> job[t].gw, extra |-> X]
<1>1. JobOK(job[t])
  BY DEF TasksOK
<1>2. JobOK(j) /\ j.op = op(t)
  BY <1>1 DEF JobOK, op, arg, keep
<1>3. job' = [job EXCEPT ![t] = [job[t] EXCEPT !.extra = X]]
  OBVIOUS
<1>4. [job[t] EXCEPT !.extra = X]
          \in [op : {op(t)}, arg : {arg(t)}, keep : {keep(t)}, was : {job[t].was},
               gw : {job[t].gw}, extra : {X}]
  BY <1>1 DEF JobOK, op, arg, keep
<1>5. [job[t] EXCEPT !.extra = X] = j
  BY <1>4, JobFields
<1> HIDE DEF j
<1>6. QED
  BY <1>2, <1>3, <1>5

(* A step that only takes a task from one place to another.                *)
LEMMA GotoOK ==
    ASSUME TasksOK, NEW t \in Task, NEW p \in PC, Goto(t, p),
           Phase(p, why[t], op(t)), UNCHANGED <<why, job, seen, pol>>
    PROVE  TasksOK'
<1>1. Moves(t, p, why[t], job[t], seen[t], pol[t])
  BY Unchanged DEF Goto, Moves
<1>2. why[t] \in Why /\ JobOK(job[t]) /\ seen[t] \in Seen /\ pol[t] \in Policy
  BY DEF TasksOK
<1>3. QED
  BY <1>1, <1>2, MoveOK DEF op

(* The same with a new purpose.                                            *)
LEMMA PurposeOK ==
    ASSUME TasksOK, NEW t \in Task, NEW p \in PC, NEW w \in Why,
           pc' = [pc EXCEPT ![t] = p], why' = [why EXCEPT ![t] = w],
           Phase(p, w, op(t)), UNCHANGED <<job, seen, pol>>
    PROVE  TasksOK'
<1>1. Moves(t, p, w, job[t], seen[t], pol[t])
  BY Unchanged DEF Moves
<1>2. JobOK(job[t]) /\ seen[t] \in Seen /\ pol[t] \in Policy
  BY DEF TasksOK
<1>3. QED
  BY <1>1, <1>2, MoveOK DEF op

(* The same with something kept, and something read.                       *)
LEMMA KeepMoveOK ==
    ASSUME TasksOK, NEW t \in Task, NEW p \in PC, NEW w \in Why,
           NEW X \in SUBSET Blob(op(t)), NEW s \in Seen,
           pc' = [pc EXCEPT ![t] = p], why' = [why EXCEPT ![t] = w],
           job' = [job EXCEPT ![t].keep = X], seen' = [seen EXCEPT ![t] = s],
           Phase(p, w, op(t)), UNCHANGED pol
    PROVE  TasksOK'
<1>1. PICK j : JobOK(j) /\ j.op = op(t) /\ job' = [job EXCEPT ![t] = j]
  BY KeepOK
<1>2. Moves(t, p, w, j, s, pol[t])
  BY <1>1, Unchanged DEF Moves
<1>3. pol[t] \in Policy
  BY DEF TasksOK
<1>4. QED
  BY <1>1, <1>2, <1>3, MoveOK

LEMMA ReadMoveOK ==
    ASSUME TasksOK, NEW t \in Task, NEW p \in PC, NEW s \in Seen, NEW q \in Policy,
           pc' = [pc EXCEPT ![t] = p], seen' = [seen EXCEPT ![t] = s],
           pol' = [pol EXCEPT ![t] = q],
           Phase(p, why[t], op(t)), UNCHANGED <<why, job>>
    PROVE  TasksOK'
<1>1. Moves(t, p, why[t], job[t], s, q)
  BY Unchanged DEF Moves
<1>2. JobOK(job[t]) /\ why[t] \in Why
  BY DEF TasksOK
<1>3. QED
  BY <1>1, <1>2, MoveOK DEF op

LEMMA ReleaseOK ==
    ASSUME NEW t, lock \in Task \cup {NoTask}, Release(t)
    PROVE  lock' \in Task \cup {NoTask}
  BY DEF Release

LEMMA SettleOK ==
    ASSUME TasksOK, NEW t \in Task, NEW ok, Settle(t, ok),
           lock \in Task \cup {NoTask}
    PROVE  TasksOK' /\ lock' \in Task \cup {NoTask}
<1>1. /\ why[t] \in Why /\ JobOK(job[t]) /\ Phase(pc[t], why[t], op(t))
      /\ seen[t] \in Seen /\ pol[t] \in Policy
  BY DEF TasksOK
<1>2. CASE why[t] = "declare"
  <2>1. op(t) \in {"set_meta", "set_tags"}
    BY <1>1, <1>2 DEF Phase
  <2>2. /\ seen' = [seen EXCEPT ![t] = NoSeen]
        /\ pol' = [pol EXCEPT ![t] = NoPolicy]
        /\ UNCHANGED <<why, lock>>
        /\ \/ job' = [job EXCEPT ![t].extra = {MARKER_TAG}] /\ Goto(t, "b_rules")
           \/ Goto(t, "tags") /\ UNCHANGED job
    BY <1>2 DEF Settle
  <2>3. \E p \in {"b_rules", "tags"} : \E j :
            /\ JobOK(j) /\ j.op = op(t)
            /\ Moves(t, p, why[t], j, NoSeen, NoPolicy)
    <3>1. CASE job' = [job EXCEPT ![t].extra = {MARKER_TAG}] /\ Goto(t, "b_rules")
      <4>1. {MARKER_TAG} \in SUBSET Tag
        BY DEF Tag
      <4>2. PICK j : JobOK(j) /\ j.op = op(t) /\ job' = [job EXCEPT ![t] = j]
        BY <3>1, <4>1, ExtraOK
      <4>3. Moves(t, "b_rules", why[t], j, NoSeen, NoPolicy)
        BY <2>2, <3>1, <4>2, Unchanged DEF Moves, Goto
      <4>4. QED
        BY <4>2, <4>3 DEF PC
    <3>2. CASE Goto(t, "tags") /\ UNCHANGED job
      <4>1. Moves(t, "tags", why[t], job[t], NoSeen, NoPolicy)
        BY <2>2, <3>2, Unchanged DEF Moves, Goto
      <4>2. QED
        BY <1>1, <4>1 DEF PC, op
    <3>3. QED
      BY <2>2, <3>1, <3>2
  <2>4. PICK p \in {"b_rules", "tags"} : \E j :
            /\ JobOK(j) /\ j.op = op(t)
            /\ Moves(t, p, why[t], j, NoSeen, NoPolicy)
    BY <2>3
  <2>5. PICK j : /\ JobOK(j) /\ j.op = op(t)
                 /\ Moves(t, p, why[t], j, NoSeen, NoPolicy)
    BY <2>4
  <2>6. Phase(p, why[t], j.op) /\ p \in PC
    BY <1>2, <2>1, <2>5 DEF Phase, PC
  <2>7. QED
    BY <1>1, <2>2, <2>5, <2>6, NothingYet, MoveOK
<1>3. CASE why[t] # "declare" /\ ~ok /\ Undoes(t)
  <2>1. Goto(t, "undo") /\ UNCHANGED <<why, job, seen, pol, lock>>
    BY <1>3 DEF Settle, building
  <2>2. Phase("undo", why[t], op(t))
    BY <1>3 DEF Undoes, Phase
  <2>3. QED
    BY <2>1, <2>2, GotoOK DEF PC
<1>4. CASE why[t] # "declare" /\ (ok \/ ~Undoes(t))
  <2>1. CASE End(t) /\ Release(t)
    BY <2>1, EndOK, ReleaseOK
  <2>2. CASE /\ Goto(t, "approve") /\ (Release(t) \/ UNCHANGED lock)
             /\ pol' = [pol EXCEPT ![t] = NoPolicy] /\ UNCHANGED <<why, job, seen>>
    <3>1. Phase("approve", why[t], op(t))
      BY <1>4 DEF Phase
    <3>2. seen' = [seen EXCEPT ![t] = seen[t]]
      BY <2>2, Unchanged
    <3>3. TasksOK'
      BY <1>1, <2>2, <3>1, <3>2, NothingYet, ReadMoveOK DEF PC, Goto
    <3>4. QED
      BY <2>2, <3>3, ReleaseOK
  <2>3. QED
    BY <1>4, <2>1, <2>2 DEF Settle
<1>5. QED
  BY <1>2, <1>3, <1>4

-----------------------------------------------------------------------------
(* The steps, one lemma per group of actions.                              *)

LEMMA AcquireOK ==
    ASSUME TypeOK, NEW t \in Task, Acquire(t)
    PROVE  TypeOK'
<1>1. TasksOK /\ lock \in Task \cup {NoTask}
  BY DEF TypeOK
<1>2. /\ seen[t] \in Seen /\ pol[t] \in Policy /\ why[t] \in Why
      /\ Phase(pc[t], why[t], op(t)) /\ JobOK(job[t])
  BY <1>1 DEF TasksOK
<1>3. TasksOK' /\ lock' \in Task \cup {NoTask}
  <2>1. CASE why[t] # "none"
    <3>1. Goto(t, "b_rules") /\ UNCHANGED <<why, job, seen, pol>> /\ lock' = t
      BY <2>1 DEF Acquire, building
    <3>2. Phase("b_rules", why[t], op(t))
      BY <1>2, <2>1 DEF Phase
    <3>3. QED
      BY <1>1, <3>1, <3>2, GotoOK DEF PC
  <2>2. CASE End(t) /\ UNCHANGED lock
    BY <1>1, <2>2, EndOK
  <2>3. CASE /\ why[t] = "none"
             /\ lock' = t
             /\ job' = [job EXCEPT ![t].keep = IF op(t) = "put_rules" THEN rules ELSE dirs]
             /\ Goto(t, "save") /\ UNCHANGED <<why, seen, pol>>
    <3> DEFINE X == IF op(t) = "put_rules" THEN rules ELSE dirs
    <3>1. op(t) \in {"put_rules", "create_direction", "delete_direction"}
      BY <1>2, <2>3 DEF Phase, Acquire
    <3>2. X \in SUBSET Blob(op(t))
      BY <3>1 DEF Blob, TypeOK
    <3>3. Phase("save", "none", op(t))
      BY <3>1 DEF Phase
    <3>4. /\ why' = [why EXCEPT ![t] = "none"]
          /\ seen' = [seen EXCEPT ![t] = seen[t]]
          /\ pc' = [pc EXCEPT ![t] = "save"]
          /\ job' = [job EXCEPT ![t].keep = X]
          /\ UNCHANGED pol
      BY <1>1, <2>3, Unchanged DEF Goto
    <3>7. "save" \in PC /\ "none" \in Why
      BY DEF PC, Why
    <3> HIDE DEF X
    <3>5. TasksOK'
      BY <1>1, <1>2, <3>2, <3>3, <3>4, <3>7, KeepMoveOK
    <3>6. QED
      BY <2>3, <3>5
  <2>4. QED
    BY <2>1, <2>2, <2>3 DEF Acquire, building
<1>4. QED
  BY <1>3 DEF TypeOK, Acquire, headscale, database, budget

LEMMA SaveOK ==
    ASSUME TypeOK, NEW t \in Task, Save(t) \/ Undo(t)
    PROVE  TypeOK'
<1>1. TasksOK
  BY DEF TypeOK
<1>2. JobOK(job[t]) /\ Phase(pc[t], why[t], op(t))
  BY <1>1 DEF TasksOK
<1>3. PICK w \in {"push", "again"} : StartPush(t, w) /\ UNCHANGED <<job, seen, pol>>
  BY DEF Save, Undo, building
<1>4. Phase("b_rules", w, op(t))
  BY DEF Phase
<1>5. TasksOK'
  BY <1>1, <1>3, <1>4, PurposeOK DEF StartPush, PC, Why
<1>6. rules' \in SUBSET Rule /\ dirs' \in SUBSET Direction
  <2>1. CASE Save(t)
    <3>1. op(t) = "put_rules" => arg(t) \in SUBSET Rule
      BY <1>2 DEF JobOK, op, arg
    <3>2. op(t) \in {"create_direction", "delete_direction"} =>
              arg(t) \in Direction /\ keep(t) \in SUBSET Direction
      BY <1>2 DEF JobOK, op, arg, keep, Blob
    <3>3. rules \in SUBSET Rule /\ dirs \in SUBSET Direction
      BY DEF TypeOK
    <3>4. \/ op(t) = "put_rules" /\ rules' = arg(t) /\ dirs' = dirs
          \/ /\ op(t) \in {"create_direction", "delete_direction"}
             /\ dirs' \in {keep(t) \cup {arg(t)}, keep(t) \ {arg(t)}} /\ rules' = rules
      BY <2>1 DEF Save
    <3>5. QED
      BY <3>1, <3>2, <3>3, <3>4
  <2>2. CASE Undo(t)
    <3>1. op(t) \in {"put_rules", "create_direction"}
      BY <1>2, <2>2 DEF Undo, Phase
    <3>2. /\ op(t) = "put_rules" => keep(t) \in SUBSET Rule
          /\ op(t) = "create_direction" => keep(t) \in SUBSET Direction
      BY <1>2 DEF JobOK, Blob, op, keep
    <3>3. QED
      BY <2>2, <3>1, <3>2 DEF Undo, TypeOK
  <2>3. QED
    BY <2>1, <2>2
<1>7. QED
  BY <1>5, <1>6 DEF TypeOK, Save, Undo, headscale, budget

LEMMA RefreshOK ==
    ASSUME TypeOK, NEW t \in Task, RefreshRead(t) \/ RefreshWrite(t)
    PROVE  TypeOK'
<1>1. TasksOK /\ dirs \in SUBSET Direction
  BY DEF TypeOK
<1>2. /\ JobOK(job[t]) /\ Phase(pc[t], why[t], op(t)) /\ why[t] \in Why
      /\ seen[t] \in Seen
  BY <1>1 DEF TasksOK
<1>3. op(t) \in {"refresh_directions", "routing_loop"}
  BY <1>2 DEF RefreshRead, RefreshWrite, Phase
<1>4. CASE RefreshRead(t)
  <2>1. CASE End(t)
    <3>1. TasksOK'
      BY <1>1, <2>1, EndOK
    <3>2. QED
      BY <1>4, <3>1 DEF TypeOK, RefreshRead, headscale, database, budget
  <2>2. CASE /\ job' = [job EXCEPT ![t].keep = dirs] /\ Goto(t, "fresh")
             /\ UNCHANGED <<why, seen, pol>>
    <3>1. Phase("fresh", why[t], op(t)) /\ dirs \in SUBSET Blob(op(t))
      BY <1>1, <1>2, <1>3 DEF Phase, Blob
    <3>2. /\ why' = [why EXCEPT ![t] = why[t]]
          /\ seen' = [seen EXCEPT ![t] = seen[t]]
      BY <1>1, <2>2, Unchanged
    <3>3. TasksOK'
      BY <1>1, <1>2, <2>2, <3>1, <3>2, KeepMoveOK DEF PC, Goto
    <3>4. QED
      BY <1>4, <3>3 DEF TypeOK, RefreshRead, headscale, database, budget
  <2>3. QED
    BY <1>4, <2>1, <2>2 DEF RefreshRead, building
<1>5. CASE RefreshWrite(t)
  <2>1. PICK p \in {"lock", "b_rules"}, w \in {"apply", "push"} :
            /\ pc' = [pc EXCEPT ![t] = p] /\ why' = [why EXCEPT ![t] = w]
            /\ UNCHANGED <<job, seen, pol>>
    BY <1>5 DEF RefreshWrite, StartApply, StartPush, building
  <2>2. Phase(p, w, op(t))
    BY <1>3 DEF Phase
  <2>3. TasksOK'
    BY <1>1, <2>1, <2>2, PurposeOK DEF PC, Why
  <2>4. dirs' \in SUBSET Direction
    <3>1. keep(t) \in SUBSET Direction /\ arg(t)[2] \in Direction
      BY <1>2, <1>3 DEF JobOK, Blob, op, keep, arg
    <3>2. QED
      BY <1>5, <3>1 DEF RefreshWrite
  <2>5. QED
    BY <1>5, <2>3, <2>4 DEF TypeOK, RefreshWrite, headscale, budget
<1>6. QED
  BY <1>4, <1>5

LEMMA AfterNoteOK ==
    ASSUME TasksOK, NEW t \in Task, op(t) = "set_meta", AfterNote(t),
           arg(t).node \in Node, UNCHANGED <<seen, pol>>
    PROVE  TasksOK'
<1>1. /\ seen[t] \in Seen /\ pol[t] \in Policy /\ why[t] \in Why
      /\ seen' = [seen EXCEPT ![t] = seen[t]] /\ pol' = [pol EXCEPT ![t] = pol[t]]
  BY Unchanged DEF TasksOK
<1>2. CASE job[t].gw
  <2>1. {gateway_tag(arg(t).node)} \in SUBSET Tag
    BY DEF Tag
  <2>2. PICK j : JobOK(j) /\ j.op = op(t) /\ job' = [job EXCEPT ![t] = j]
    BY <1>2, <2>1, ExtraOK DEF AfterNote
  <2>3. Moves(t, "b_rules", "declare", j, seen[t], pol[t])
    BY <1>1, <1>2, <2>2 DEF AfterNote, StartPush, Moves
  <2>4. Phase("b_rules", "declare", j.op)
    BY <2>2 DEF Phase
  <2>5. QED
    BY <1>1, <2>2, <2>3, <2>4, MoveOK DEF PC, Why
<1>3. CASE ~job[t].gw
  <2>1. CASE Goto(t, "tags") /\ UNCHANGED <<why, job>>
    <3>1. Phase("tags", why[t], op(t))
      BY DEF Phase
    <3>2. QED
      BY <2>1, <3>1, GotoOK DEF PC
  <2>2. CASE Goto(t, "exit") /\ UNCHANGED <<why, job>>
    <3>1. Phase("exit", why[t], op(t))
      BY <1>3 DEF Phase
    <3>2. QED
      BY <2>2, <3>1, GotoOK DEF PC
  <2>3. QED
    BY <1>3, <2>1, <2>2 DEF AfterNote
<1>4. QED
  BY <1>2, <1>3

LEMMA WithoutGatewayTyped ==
    ASSUME NEW m \in [Node -> MetaEntry], NEW g
    PROVE  without_gateway(m, g) \in [Node -> MetaEntry]
<1>1. ASSUME NEW n \in Node
      PROVE  [m[n] EXCEPT !.via = m[n].via \ {g}] \in MetaEntry
  <2>1. m[n] \in MetaEntry
    OBVIOUS
  <2>2. QED
    BY <2>1 DEF MetaEntry
<1>2. QED
  BY <1>1 DEF without_gateway

LEMMA NoteOK ==
    ASSUME TypeOK, NEW t \in Task, set_node_meta(t) \/ drop_gateway(t)
    PROVE  TypeOK'
<1>1. TasksOK /\ meta \in [Node -> MetaEntry]
  BY DEF TypeOK
<1>2. JobOK(job[t]) /\ Phase(pc[t], why[t], op(t))
  BY <1>1 DEF TasksOK
<1>3. op(t) = "set_meta"
  BY <1>2 DEF set_node_meta, drop_gateway, Phase
<1>4. arg(t) \in MetaEdit
  BY <1>2, <1>3, SyncAssumption DEF JobOK, op, arg
<1>5. arg(t).node \in Node
  BY <1>4 DEF MetaEdit
<1>6. UNCHANGED <<seen, pol>>
  BY DEF set_node_meta, drop_gateway, building
<1>7. TasksOK'
  <2>1. CASE AfterNote(t)
    BY <1>1, <1>3, <1>5, <1>6, <2>1, AfterNoteOK
  <2>2. CASE Goto(t, "drop") /\ UNCHANGED <<why, job>>
    <3>1. Phase("drop", why[t], op(t))
      BY <1>3 DEF Phase
    <3>2. QED
      BY <1>1, <1>6, <2>2, <3>1, GotoOK DEF PC
  <2>3. QED
    BY <2>1, <2>2 DEF set_node_meta, drop_gateway
<1>8. meta' \in [Node -> MetaEntry]
  <2>1. CASE set_node_meta(t)
    <3> DEFINE e == arg(t)
               old == meta[e.node]
               new == CASE e.field = "kind"    -> [old EXCEPT !.kind = e.value]
                        [] e.field = "admin"   -> [old EXCEPT !.admin = e.value]
                        [] e.field = "gateway" -> [old EXCEPT !.gateway = e.value]
                        [] OTHER               -> [old EXCEPT !.via = e.value]
    <3>1. meta' = [meta EXCEPT ![e.node] = new]
      BY <2>1 DEF set_node_meta
    <3>2. old \in MetaEntry
      BY <1>1, <1>5
    <3>3. new \in MetaEntry
      <4>1. CASE e.field = "kind" /\ e.value \in {"", "server", "device"}
        BY <3>2, <4>1 DEF MetaEntry
      <4>2. CASE e.field \in {"admin", "gateway"} /\ e.value \in BOOLEAN
        BY <3>2, <4>2 DEF MetaEntry
      <4>3. CASE e.field = "via" /\ e.value \in SUBSET Node
        BY <3>2, <4>3 DEF MetaEntry
      <4>4. QED
        BY <1>4, <4>1, <4>2, <4>3 DEF MetaEdit
    <3> HIDE DEF new, old
    <3>4. QED
      BY <1>1, <3>1, <3>3
  <2>2. CASE drop_gateway(t)
    BY <1>1, <2>2, WithoutGatewayTyped DEF drop_gateway
  <2>3. QED
    BY <2>1, <2>2
<1>9. UNCHANGED <<hsNodes, live, late, rules, dirs, agents, lock, had, left, faults>>
  BY DEF set_node_meta, drop_gateway, headscale, budget
<1>10. QED
  BY <1>7, <1>8, <1>9 DEF TypeOK

(* Nodes keep addresses of their own when what changes of them is neither  *)
(* their number nor their address.                                         *)
LEMMA SameAddrs ==
    ASSUME NEW N, DistinctAddrs(N), NEW f,
           \A n \in N : f[n].id = n.id /\ f[n].ip = n.ip
    PROVE  DistinctAddrs({f[n] : n \in N})
<1>1. ASSUME NEW x \in {f[n] : n \in N}, NEW y \in {f[n] : n \in N},
             x.id = y.id \/ (x.ip = y.ip /\ x.ip # NoAddr)
      PROVE  x = y
  <2>1. PICK m \in N, n \in N : x = f[m] /\ y = f[n]
    OBVIOUS
  <2>2. m = n
    BY <1>1, <2>1 DEF DistinctAddrs
  <2>3. QED
    BY <2>1, <2>2
<1>2. QED
  BY <1>1 DEF DistinctAddrs

LEMMA FewerAddrs ==
    ASSUME NEW N, DistinctAddrs(N), NEW M \in SUBSET N
    PROVE  DistinctAddrs(M)
  BY DEF DistinctAddrs

LEMMA FaultOK ==
    ASSUME faults \in Nat, Fault \/ NoFault
    PROVE  faults' \in Nat
  BY DEF Fault, NoFault

LEMMA TagsOK ==
    ASSUME TypeOK, NEW t \in Task, set_node_tags(t)
    PROVE  TypeOK'
<1>1. TasksOK /\ hsNodes \in SUBSET HsNode /\ DistinctAddrs(hsNodes) /\ faults \in Nat
  BY DEF TypeOK
<1>2. JobOK(job[t]) /\ Phase(pc[t], why[t], op(t))
  BY <1>1 DEF TasksOK
<1>3. op(t) \in {"set_meta", "set_tags"}
  BY <1>2 DEF set_node_tags, Phase
<1>4. Hung(t) \in SUBSET Tag
  <2>1. keep(t) \in SUBSET Tag
    BY <1>2, <1>3 DEF JobOK, Blob, op, keep
  <2>2. arg(t).node \in Node
    BY <1>2, <1>3, SyncAssumption DEF JobOK, op, arg, MetaEdit
  <2>3. gateway_tag(arg(t).node) \in Tag /\ MARKER_TAG \in Tag
    BY <2>2 DEF Tag
  <2>4. QED
    BY <2>1, <2>3 DEF Hung, keep_tagged
<1>5. hsNodes' \in SUBSET HsNode /\ DistinctAddrs(hsNodes')
  <2>1. CASE Retag(t)
    <3> DEFINE f == [n \in hsNodes |-> IF n.id = arg(t).node
                                       THEN [n EXCEPT !.tags = Hung(t)] ELSE n]
    <3>1. \A n \in hsNodes : f[n] \in HsNode /\ f[n].id = n.id /\ f[n].ip = n.ip
      BY <1>1, <1>4 DEF HsNode
    <3>2. hsNodes' = {f[n] : n \in hsNodes}
      BY <2>1 DEF Retag
    <3> HIDE DEF f
    <3>3. DistinctAddrs({f[n] : n \in hsNodes})
      BY <1>1, <3>1, SameAddrs
    <3>4. QED
      BY <3>1, <3>2, <3>3
  <2>2. CASE UNCHANGED hsNodes
    BY <1>1, <2>2
  <2>3. QED
    BY <2>1, <2>2 DEF set_node_tags
<1>6. TasksOK'
  <2>1. CASE End(t)
    BY <1>1, <2>1, EndOK
  <2>2. CASE op(t) = "set_meta" /\ Goto(t, "exit") /\ UNCHANGED <<why, job, seen, pol>>
    <3>1. Phase("exit", why[t], op(t))
      BY <1>2, <2>2 DEF Phase
    <3>2. QED
      BY <1>1, <2>2, <3>1, GotoOK DEF PC
  <2>3. QED
    BY <2>1, <2>2 DEF set_node_tags, building
<1>7. faults' \in Nat
  BY <1>1, FaultOK DEF set_node_tags
<1>8. UNCHANGED <<live, late, rules, dirs, meta, agents, lock, had, left>>
  BY DEF set_node_tags, database
<1>9. QED
  BY <1>5, <1>6, <1>7, <1>8 DEF TypeOK

LEMMA RulesWithoutTyped ==
    ASSUME NEW R \in SUBSET Rule, NEW n
    PROVE  rules_without(R, n) \in SUBSET Rule
  BY DEF rules_without

LEMMA DirsWithoutTyped ==
    ASSUME NEW D \in SUBSET Direction, NEW n
    PROVE  dirs_without(D, n) \in SUBSET Direction
<1>1. ASSUME NEW d \in D
      PROVE  [d EXCEPT !.src = d.src \ {n}] \in Direction
  <2>1. d \in Direction
    OBVIOUS
  <2>2. QED
    BY <2>1 DEF Direction
<1>2. QED
  BY <1>1 DEF dirs_without

LEMMA DeleteOK ==
    ASSUME TypeOK, NEW t \in Task, HsDelete(t) \/ ForgetRead(t) \/ ForgetCommit(t)
    PROVE  TypeOK'
<1>1. /\ TasksOK /\ hsNodes \in SUBSET HsNode /\ DistinctAddrs(hsNodes)
      /\ faults \in Nat /\ rules \in SUBSET Rule /\ dirs \in SUBSET Direction
      /\ meta \in [Node -> MetaEntry] /\ agents \in [Node -> AgentEntry]
  BY DEF TypeOK
<1>2. JobOK(job[t]) /\ Phase(pc[t], why[t], op(t)) /\ seen[t] \in Seen /\ why[t] \in Why
  BY <1>1 DEF TasksOK
<1>3. op(t) = "delete_node"
  BY <1>2 DEF HsDelete, ForgetRead, ForgetCommit, Phase
<1>4. CASE HsDelete(t)
  <2>1. hsNodes' \in SUBSET hsNodes
    BY <1>4 DEF HsDelete
  <2>2. hsNodes' \in SUBSET HsNode /\ DistinctAddrs(hsNodes')
    BY <1>1, <2>1, FewerAddrs
  <2>3. TasksOK'
    <3>1. CASE End(t)
      BY <1>1, <3>1, EndOK
    <3>2. CASE Goto(t, "forget_wait") /\ UNCHANGED <<why, job, seen, pol>>
      <4>1. Phase("forget_wait", why[t], op(t))
        BY <1>2, <1>3 DEF Phase
      <4>2. QED
        BY <1>1, <3>2, <4>1, GotoOK DEF PC
    <3>3. QED
      BY <1>4, <3>1, <3>2 DEF HsDelete, building
  <2>4. faults' \in Nat
    BY <1>1, <1>4, FaultOK DEF HsDelete
  <2>5. UNCHANGED <<live, late, rules, dirs, meta, agents, lock, had, left>>
    BY <1>4 DEF HsDelete, database
  <2>6. QED
    BY <2>2, <2>3, <2>4, <2>5 DEF TypeOK
<1>5. CASE ForgetRead(t)
  <2> DEFINE s == [seen[t] EXCEPT !.rules = rules]
  <2>1. s \in Seen
    BY <1>1, <1>2 DEF Seen
  <2>2. seen' = [seen EXCEPT ![t] = s]
    BY <1>5 DEF ForgetRead
  <2>3. dirs \in SUBSET Blob(op(t))
    BY <1>1, <1>3 DEF Blob
  <2>4. Phase("forget", why[t], op(t))
    BY <1>2, <1>3 DEF Phase
  <2>5. why' = [why EXCEPT ![t] = why[t]]
    BY <1>1, <1>5, Unchanged DEF ForgetRead
  <2> HIDE DEF s
  <2>6. TasksOK'
    BY <1>1, <1>2, <1>5, <2>1, <2>2, <2>3, <2>4, <2>5, KeepMoveOK
       DEF ForgetRead, Goto, PC
  <2>7. QED
    BY <1>5, <2>6 DEF TypeOK, ForgetRead, headscale, database, budget
<1>6. CASE ForgetCommit(t)
  <2> DEFINE n == arg(t)
             m == [without_gateway(meta, n) EXCEPT ![n] = NoMeta]
  <2>1. CASE End(t) /\ UNCHANGED database
    <3>1. TasksOK'
      BY <1>1, <2>1, EndOK
    <3>2. faults' \in Nat
      BY <1>1, <1>6, FaultOK DEF ForgetCommit
    <3>3. QED
      BY <1>6, <2>1, <3>1, <3>2 DEF TypeOK, ForgetCommit, headscale, database
  <2>2. CASE /\ meta' = m /\ agents' = [agents EXCEPT ![n] = NoAgent]
             /\ rules' \in {rules_without(rules, n), rules_without(seen[t].rules, n), rules}
             /\ dirs' \in {dirs_without(dirs, n), dirs_without(keep(t), n), dirs}
             /\ StartApply(t) /\ NoFault
             /\ job' = [job EXCEPT ![t].keep = {}]
             /\ seen' = [seen EXCEPT ![t] = NoSeen]
             /\ UNCHANGED pol
    <3>1. meta' \in [Node -> MetaEntry]
      <4>1. without_gateway(meta, n) \in [Node -> MetaEntry]
        BY <1>1, WithoutGatewayTyped
      <4>2. NoMeta \in MetaEntry
        BY DEF NoMeta, MetaEntry
      <4>3. QED
        BY <2>2, <4>1, <4>2
    <3>2. rules' \in SUBSET Rule
      <4>1. seen[t].rules \in SUBSET Rule
        BY <1>2 DEF Seen
      <4>2. QED
        BY <1>1, <2>2, <4>1, RulesWithoutTyped
    <3>3. dirs' \in SUBSET Direction
      <4>1. keep(t) \in SUBSET Direction
        BY <1>2, <1>3 DEF JobOK, Blob, op, keep
      <4>2. QED
        BY <1>1, <2>2, <4>1, DirsWithoutTyped
    <3>4. TasksOK'
      <4>1. Phase("lock", "apply", op(t)) /\ {} \in SUBSET Blob(op(t))
        BY <1>3 DEF Phase
      <4>2. QED
        BY <1>1, <2>2, <4>1, NothingYet, KeepMoveOK DEF StartApply, PC, Why
    <3>5. UNCHANGED <<hsNodes, live, late, lock, had, left, faults>>
      BY <1>6, <2>2 DEF ForgetCommit, headscale, NoFault
    <3>6. agents' \in [Node -> AgentEntry]
      <4>1. NoAgent \in AgentEntry
        BY DEF NoAgent, AgentEntry
      <4>2. QED
        BY <1>1, <2>2, <4>1
    <3>7. QED
      BY <3>1, <3>2, <3>3, <3>4, <3>5, <3>6 DEF TypeOK
  <2>3. QED
    BY <1>6, <2>1, <2>2 DEF ForgetCommit
<1>7. QED
  BY <1>4, <1>5, <1>6

LEMMA BuildOK ==
    ASSUME TypeOK, NEW t \in Task,
           BuildRules(t) \/ BuildNodes(t) \/ BuildMeta(t) \/ BuildRouting(t)
    PROVE  TypeOK'
<1>1. /\ TasksOK /\ hsNodes \in SUBSET HsNode /\ faults \in Nat
      /\ rules \in SUBSET Rule /\ dirs \in SUBSET Direction
      /\ meta \in [Node -> MetaEntry] /\ lock \in Task \cup {NoTask}
  BY DEF TypeOK
<1>2. /\ JobOK(job[t]) /\ Phase(pc[t], why[t], op(t))
      /\ seen[t] \in Seen /\ pol[t] \in Policy
  BY <1>1 DEF TasksOK
<1>3. \A p \in {"b_nodes", "b_meta", "b_dirs", "compare", "send"} :
          Phase(p, why[t], op(t)) /\ p \in PC
  BY <1>2 DEF Phase, PC
<1>4. UNCHANGED pol => pol' = [pol EXCEPT ![t] = pol[t]]
  BY <1>1, Unchanged
<1>5. CASE BuildRules(t)
  <2> DEFINE s == [seen[t] EXCEPT !.rules = rules]
  <2>1. s \in Seen /\ seen' = [seen EXCEPT ![t] = s]
    BY <1>1, <1>2, <1>5 DEF Seen, BuildRules
  <2> HIDE DEF s
  <2>2. PICK p \in {"b_nodes", "b_meta"} : Goto(t, p)
    BY <1>5 DEF BuildRules
  <2>3. TasksOK'
    <3>1. /\ pc' = [pc EXCEPT ![t] = p] /\ pol' = [pol EXCEPT ![t] = pol[t]]
          /\ UNCHANGED <<why, job>>
      BY <1>4, <1>5, <2>2 DEF BuildRules, Goto
    <3>2. Phase(p, why[t], op(t)) /\ p \in PC
      BY <1>3
    <3>3. QED
      BY <1>1, <1>2, <2>1, <3>1, <3>2, ReadMoveOK
  <2>4. QED
    BY <1>5, <2>3 DEF TypeOK, BuildRules, headscale, database, budget
<1>6. CASE BuildNodes(t)
  <2>1. TasksOK' /\ lock' \in Task \cup {NoTask}
    <3>1. CASE Settle(t, FALSE)
      BY <1>1, <3>1, SettleOK
    <3>2. CASE /\ \E N \in {hsNodes, {}} : seen' = [seen EXCEPT ![t].nodes = N]
               /\ Goto(t, "b_meta") /\ UNCHANGED <<lock, why, job, pol>>
      <4>1. PICK N \in SUBSET HsNode : seen' = [seen EXCEPT ![t].nodes = N]
        BY <1>1, <3>2
      <4> DEFINE s == [seen[t] EXCEPT !.nodes = N]
      <4>2. s \in Seen /\ seen' = [seen EXCEPT ![t] = s]
        BY <1>2, <4>1 DEF Seen
      <4> HIDE DEF s
      <4>3. QED
        BY <1>1, <1>2, <1>3, <1>4, <3>2, <4>2, ReadMoveOK DEF Goto
    <3>3. QED
      BY <1>6, <3>1, <3>2 DEF BuildNodes
  <2>2. faults' \in Nat
    BY <1>1, <1>6, FaultOK DEF BuildNodes
  <2>3. UNCHANGED <<hsNodes, live, late, rules, dirs, meta, agents, had, left>>
    BY <1>6 DEF BuildNodes, headscale, database
  <2>4. QED
    BY <2>1, <2>2, <2>3 DEF TypeOK
<1>7. CASE BuildMeta(t)
  <2> DEFINE s == [seen[t] EXCEPT !.meta = meta]
  <2>1. s \in Seen /\ seen' = [seen EXCEPT ![t] = s]
    BY <1>1, <1>2, <1>7 DEF Seen, BuildMeta
  <2> HIDE DEF s
  <2>2. TasksOK'
    BY <1>1, <1>2, <1>3, <1>4, <1>7, <2>1, ReadMoveOK DEF BuildMeta, Goto
  <2>3. QED
    BY <1>7, <2>2 DEF TypeOK, BuildMeta, headscale, database, budget
<1>8. CASE BuildRouting(t)
  <2> DEFINE s == seen[t]
             extra == IF why[t] = "declare" THEN job[t].extra ELSE {}
             q == PolicyOf(s.rules, dirs, s.meta, s.nodes, extra)
  <2>1. q \in Policy
    <3>1. extra \in SUBSET Tag
      BY <1>2 DEF JobOK
    <3>2. s.rules \in SUBSET Rule /\ s.nodes \in SUBSET HsNode
      BY <1>2 DEF Seen
    <3> HIDE DEF extra
    <3>3. QED
      BY <1>1, <3>1, <3>2, PolicyTyped
  <2>2. pol' = [pol EXCEPT ![t] = q]
    BY <1>8 DEF BuildRouting
  <2> HIDE DEF q
  <2>3. PICK p \in {"compare", "send"} : Goto(t, p)
    BY <1>8 DEF BuildRouting
  <2>4. TasksOK'
    BY <1>1, <1>3, <1>8, <2>1, <2>2, <2>3, NothingYet, ReadMoveOK
       DEF BuildRouting, Goto
  <2>5. QED
    BY <1>8, <2>4 DEF TypeOK, BuildRouting, headscale, database, budget
<1>9. QED
  BY <1>5, <1>6, <1>7, <1>8

LEMMA SendOK ==
    ASSUME TypeOK, NEW t \in Task, Send(t)
    PROVE  TypeOK'
<1>1. /\ TasksOK /\ lock \in Task \cup {NoTask} /\ faults \in Nat
      /\ live \in Policy /\ late \in SUBSET Policy
  BY DEF TypeOK
<1>2. PICK ok \in BOOLEAN : Settle(t, ok)
  BY DEF Send
<1>3. TasksOK' /\ lock' \in Task \cup {NoTask}
  BY <1>1, <1>2, SettleOK
<1>4. pol[t] \in Policy
  BY <1>1 DEF TasksOK
<1>5. live' \in Policy /\ late' \in SUBSET Policy
  BY <1>1, <1>4 DEF Send
<1>6. faults' \in Nat
  BY <1>1, FaultOK DEF Send
<1>7. QED
  BY <1>3, <1>5, <1>6 DEF TypeOK, Send, database

-----------------------------------------------------------------------------
(* Routes.                                                                 *)

(* What is approved of some nodes is changed.                              *)
LEMMA NewRoutesOK ==
    ASSUME NEW N \in SUBSET HsNode, DistinctAddrs(N),
           NEW R \in [N -> SUBSET Route]
    PROVE  LET M == {[n EXCEPT !.approved = R[n]] : n \in N}
           IN  M \in SUBSET HsNode /\ DistinctAddrs(M)
<1> DEFINE f == [n \in N |-> [n EXCEPT !.approved = R[n]]]
<1>1. \A n \in N : f[n] \in HsNode /\ f[n].id = n.id /\ f[n].ip = n.ip
  BY DEF HsNode
<1>2. {[n EXCEPT !.approved = R[n]] : n \in N} = {f[n] : n \in N}
  OBVIOUS
<1> HIDE DEF f
<1>3. DistinctAddrs({f[n] : n \in N})
  BY <1>1, SameAddrs
<1> QED
  BY <1>1, <1>2, <1>3

LEMMA TargetTyped ==
    ASSUME NEW p \in Plan, NEW got \in SUBSET Route
    PROVE  target(p, got) \in SUBSET Route /\ owned(p, got) \in SUBSET Route
  BY DEF Plan, target, owned

LEMMA ApprovedOK ==
    ASSUME TypeOK, NEW t \in Task, NEW S, NEW got,
           \A n \in Node : got[n] \in SUBSET Route
    PROVE  Approved(t, S, got) \in SUBSET HsNode /\ DistinctAddrs(Approved(t, S, got))
<1> DEFINE goal(n) == target(plan(t)[n.id], got[n.id])
           called(n) == n.id \in S /\ goal(n) # plan(t)[n.id].had
           R == [n \in hsNodes |-> IF called(n) THEN goal(n) ELSE n.approved]
<1>1. hsNodes \in SUBSET HsNode /\ DistinctAddrs(hsNodes)
  BY DEF TypeOK
<1>2. plan(t) \in [Node -> Plan]
  BY DEF TypeOK, TasksOK, Seen, plan
<1>3. \A n \in hsNodes : n.id \in Node /\ n.approved \in SUBSET Route
  BY <1>1 DEF HsNode
<1>4. \A n \in hsNodes : goal(n) \in SUBSET Route
  BY <1>2, <1>3, TargetTyped
<1>5. R \in [hsNodes -> SUBSET Route]
  <2> HIDE DEF goal, called
  <2> QED
    BY <1>3, <1>4
<1>6. \A n \in hsNodes : (IF called(n) THEN [n EXCEPT !.approved = goal(n)] ELSE n)
                         = [n EXCEPT !.approved = R[n]]
  <2> HIDE DEF goal, called
  <2>1. \A n \in hsNodes : [n EXCEPT !.approved = n.approved] = n
    BY <1>1 DEF HsNode
  <2> QED
    BY <2>1
<1>7. Approved(t, S, got) = {IF called(n) THEN [n EXCEPT !.approved = goal(n)] ELSE n :
                                n \in hsNodes}
  BY DEF Approved
<1>8. Approved(t, S, got) = {[n EXCEPT !.approved = R[n]] : n \in hsNodes}
  <2> HIDE DEF called, goal, R
  <2> QED
    BY <1>6, <1>7
<1> HIDE DEF R
<1> QED
  BY <1>1, <1>5, <1>8, NewRoutesOK

LEMMA DirectionRoutes ==
    ASSUME NEW D \in SUBSET Direction, NEW n
    PROVE  routes_by_node(D, n) \in SUBSET Route
<1>1. ASSUME NEW d \in D, NEW S \in dst_ips(d)
      PROVE  S \in Route
  <2>1. S \in SUBSET Addr /\ S \cap MeshAddr = {}
    BY DEF dst_ips, touches_mesh, Direction
  <2> QED
    BY <2>1 DEF Addr, Route
<1> QED
  BY <1>1 DEF routes_by_node

LEMMA ApprovedOfTyped ==
    ASSUME NEW N \in SUBSET HsNode, NEW i
    PROVE  approved_of(N, i) \in SUBSET Route
  BY DEF approved_of, HsNode

LEMMA ApproveOK ==
    ASSUME TypeOK, NEW t \in Task, Approve(t)
    PROVE  TypeOK'
<1>1. /\ TasksOK /\ lock \in Task \cup {NoTask} /\ faults \in Nat
      /\ hsNodes \in SUBSET HsNode /\ dirs \in SUBSET Direction
  BY DEF TypeOK
<1>2. seen[t] \in Seen /\ pol[t] \in Policy /\ Phase(pc[t], why[t], op(t))
  BY <1>1 DEF TasksOK
<1> DEFINE P == [n \in Node |->
                    IF \E h \in hsNodes : h.id = n
                    THEN [want |-> routes_by_node(dirs, n), mine |-> {},
                          had |-> approved_of(hsNodes, n)]
                    ELSE NoPlan]
<1>3. TasksOK' /\ lock' \in Task \cup {NoTask}
  <2>1. CASE End(t) /\ Release(t)
    BY <1>1, <2>1, EndOK, ReleaseOK
  <2>2. CASE /\ seen' = [seen EXCEPT ![t].plan = P]
             /\ Goto(t, "approving") /\ UNCHANGED <<lock, why, job, pol>>
    <3> DEFINE s == [seen[t] EXCEPT !.plan = P]
    <3>1. P \in [Node -> Plan]
      <4>1. \A n \in Node : [want |-> routes_by_node(dirs, n), mine |-> {},
                             had |-> approved_of(hsNodes, n)] \in Plan
        BY <1>1, DirectionRoutes, ApprovedOfTyped DEF Plan
      <4>2. NoPlan \in Plan
        BY DEF NoPlan, Plan
      <4> QED
        BY <4>1, <4>2
    <3> HIDE DEF P
    <3>2. s \in Seen /\ seen' = [seen EXCEPT ![t] = s]
      BY <1>2, <2>2, <3>1 DEF Seen
    <3> HIDE DEF s
    <3>3. Phase("approving", why[t], op(t)) /\ "approving" \in PC
      BY <1>2 DEF Phase, PC
    <3>4. pol' = [pol EXCEPT ![t] = pol[t]]
      BY <1>1, <2>2, Unchanged
    <3> QED
      BY <1>1, <1>2, <2>2, <3>2, <3>3, <3>4, ReadMoveOK DEF Goto
  <2> QED
    BY <2>1, <2>2 DEF Approve
<1>4. faults' \in Nat
  BY <1>1, FaultOK DEF Approve
<1> QED
  BY <1>3, <1>4 DEF TypeOK, Approve, headscale, database

LEMMA ApproveDirectionsOK ==
    ASSUME TypeOK, NEW t \in Task, ApproveDirections(t)
    PROVE  TypeOK'
<1> DEFINE got == [n \in Node |-> plan(t)[n].want]
<1>1. /\ TasksOK /\ lock \in Task \cup {NoTask} /\ faults \in Nat
      /\ agents \in [Node -> AgentEntry]
  BY DEF TypeOK
<1>2. TasksOK' /\ lock' \in Task \cup {NoTask}
  BY <1>1, EndOK, ReleaseOK DEF ApproveDirections
<1>3. faults' \in Nat
  BY <1>1, FaultOK DEF ApproveDirections
<1>4. \A n \in Node : got[n] \in SUBSET Route
  BY <1>1 DEF TasksOK, Seen, Plan, plan
<1>5. PICK S : hsNodes' = Approved(t, S, got)
  BY DEF ApproveDirections
<1>6. hsNodes' \in SUBSET HsNode /\ DistinctAddrs(hsNodes')
  <2> HIDE DEF got
  <2> QED
    BY <1>4, <1>5, ApprovedOK
<1>7. agents' \in [Node -> AgentEntry]
  <2>1. \A n \in Node : [agents[n] EXCEPT !.mine = agents[n].mine \cup got[n]] \in AgentEntry
    <3> HIDE DEF got
    <3> QED
      BY <1>1, <1>4 DEF AgentEntry
  <2>2. \/ agents' = agents
        \/ agents' = [n \in Node |->
                        IF agents[n].here
                        THEN [agents[n] EXCEPT !.mine = agents[n].mine \cup got[n]]
                        ELSE agents[n]]
    BY DEF ApproveDirections
  <2> HIDE DEF got
  <2> QED
    BY <1>1, <2>1, <2>2
<1> QED
  BY <1>2, <1>3, <1>6, <1>7 DEF TypeOK, ApproveDirections

LEMMA FormsOK ==
    ASSUME TypeOK, NEW t \in Task,
           \/ set_agent_exit(t) \/ Untick(t) \/ ApproveTicked(t)
           \/ WriteAgent(t) \/ set_gateway_clients(t)
    PROVE  TypeOK'
<1>1. /\ TasksOK /\ agents \in [Node -> AgentEntry] /\ meta \in [Node -> MetaEntry]
      /\ hsNodes \in SUBSET HsNode /\ DistinctAddrs(hsNodes) /\ faults \in Nat
  BY DEF TypeOK
<1>2. JobOK(job[t]) /\ Phase(pc[t], why[t], op(t))
  BY <1>1 DEF TasksOK
<1>3. op(t) \in {"set_routes", "put_agent"} =>
          arg(t).node \in Node /\ arg(t).routes \in SUBSET Route
  BY <1>2, SyncAssumption DEF JobOK, op, arg
<1>4. CASE set_agent_exit(t)
  <2>1. op(t) = "set_meta" /\ arg(t) \in MetaEdit
    BY <1>2, <1>4, SyncAssumption DEF set_agent_exit, Phase, JobOK, op, arg
  <2>2. TasksOK'
    <3>1. Phase("lock", "apply", op(t))
      BY <2>1 DEF Phase
    <3> QED
      BY <1>1, <1>4, <3>1, PurposeOK
         DEF set_agent_exit, AfterExit, StartApply, building, PC, Why
  <2>3. agents' \in [Node -> AgentEntry]
    <3> DEFINE n == arg(t).node
               flagged == IF job[t].gw THEN agents[n].want \cup {ExitNet}
                                       ELSE agents[n].want \ {ExitNet}
               b == [agents[n] EXCEPT !.here = TRUE, !.want = flagged]
    <3>1. n \in Node
      BY <2>1 DEF MetaEdit
    <3>2. flagged \in SUBSET Route
      BY <1>1, <3>1 DEF AgentEntry, Route
    <3>3. \/ agents' = agents
          \/ agents' = [agents EXCEPT ![n].here = TRUE, ![n].want = flagged]
      BY <1>4 DEF set_agent_exit
    <3> HIDE DEF n, flagged
    <3>4. b \in AgentEntry
      BY <1>1, <3>1, <3>2 DEF AgentEntry
    <3>5. agents' = agents \/ agents' = [agents EXCEPT ![n] = b]
      BY <1>1, <3>1, <3>3
    <3> HIDE DEF b
    <3> QED
      BY <1>1, <3>1, <3>4, <3>5
  <2> QED
    BY <1>4, <2>2, <2>3 DEF TypeOK, set_agent_exit, headscale, budget
<1>5. CASE Untick(t)
  <2>1. op(t) = "set_routes"
    BY <1>2, <1>5 DEF Untick, Phase
  <2>2. TasksOK'
    <3>1. CASE End(t)
      BY <1>1, <3>1, EndOK
    <3>2. CASE Goto(t, "routes") /\ UNCHANGED <<why, job, seen, pol>>
      <4>1. Phase("routes", why[t], op(t))
        BY <1>2, <2>1 DEF Phase
      <4> QED
        BY <1>1, <3>2, <4>1, GotoOK DEF PC
    <3> QED
      BY <1>5, <3>1, <3>2 DEF Untick, building
  <2>3. agents' \in [Node -> AgentEntry]
    <3>1. CASE UNCHANGED agents
      BY <1>1, <3>1
    <3>2. CASE \E dropped : agents' = [agents EXCEPT ![arg(t).node].want = @ \ dropped,
                                                     ![arg(t).node].mine = @ \ dropped]
      <4>1. PICK dropped :
                agents' = [agents EXCEPT ![arg(t).node].want = @ \ dropped,
                                         ![arg(t).node].mine = @ \ dropped]
        BY <3>2
      <4> DEFINE a == agents[arg(t).node]
                 b == [a EXCEPT !.want = @ \ dropped, !.mine = @ \ dropped]
      <4>2. agents' = [agents EXCEPT ![arg(t).node] = b]
        BY <1>1, <1>3, <2>1, <4>1
      <4>3. b \in AgentEntry
        BY <1>1, <1>3, <2>1 DEF AgentEntry
      <4> HIDE DEF b
      <4> QED
        BY <1>1, <4>2, <4>3
    <3> QED
      BY <1>5, <3>1, <3>2 DEF Untick
  <2> QED
    BY <1>5, <2>2, <2>3 DEF TypeOK, Untick, headscale, budget
<1>6. CASE ApproveTicked(t)
  <2>1. op(t) = "set_routes"
    BY <1>2, <1>6 DEF ApproveTicked, Phase
  <2>2. TasksOK'
    BY <1>1, <1>6, EndOK DEF ApproveTicked
  <2>3. faults' \in Nat
    BY <1>1, <1>6, FaultOK DEF ApproveTicked
  <2>4. hsNodes' \in SUBSET HsNode /\ DistinctAddrs(hsNodes')
    <3>1. CASE UNCHANGED hsNodes
      BY <1>1, <3>1
    <3>2. CASE hsNodes' = {IF n.id = arg(t).node
                           THEN [n EXCEPT !.approved = arg(t).routes] ELSE n :
                               n \in hsNodes}
      <4> DEFINE R == [n \in hsNodes |-> IF n.id = arg(t).node THEN arg(t).routes
                                                               ELSE n.approved]
      <4>1. R \in [hsNodes -> SUBSET Route]
        BY <1>1, <1>3, <2>1 DEF HsNode
      <4>2. \A n \in hsNodes :
                (IF n.id = arg(t).node THEN [n EXCEPT !.approved = arg(t).routes] ELSE n)
                    = [n EXCEPT !.approved = R[n]]
        BY <1>1 DEF HsNode
      <4>3. hsNodes' = {[n EXCEPT !.approved = R[n]] : n \in hsNodes}
        <5> DEFINE F(n) == IF n.id = arg(t).node
                           THEN [n EXCEPT !.approved = arg(t).routes] ELSE n
                   G(n) == [n EXCEPT !.approved = R[n]]
        <5>1. hsNodes' = {F(n) : n \in hsNodes} /\ \A n \in hsNodes : F(n) = G(n)
          BY <3>2, <4>2
        <5> HIDE DEF F, G
        <5>2. hsNodes' = {G(n) : n \in hsNodes}
          BY <5>1
        <5> QED
          BY <5>2 DEF G
      <4> HIDE DEF R
      <4> QED
        BY <1>1, <4>1, <4>3, NewRoutesOK
    <3> QED
      BY <1>6, <3>1, <3>2 DEF ApproveTicked
  <2> QED
    BY <1>6, <2>2, <2>3, <2>4 DEF TypeOK, ApproveTicked, database
<1>7. CASE WriteAgent(t)
  <2>1. op(t) = "put_agent"
    BY <1>2, <1>7 DEF WriteAgent, Phase
  <2>2. TasksOK'
    BY <1>1, <1>7, EndOK DEF WriteAgent
  <2>3. agents' \in [Node -> AgentEntry]
    <3> DEFINE b == [agents[arg(t).node] EXCEPT !.here = TRUE, !.want = arg(t).routes]
    <3>1. agents' = [agents EXCEPT ![arg(t).node] = b]
      BY <1>7 DEF WriteAgent
    <3>2. b \in AgentEntry
      BY <1>1, <1>3, <2>1 DEF AgentEntry
    <3> HIDE DEF b
    <3> QED
      BY <1>1, <3>1, <3>2
  <2> QED
    BY <1>7, <2>2, <2>3 DEF TypeOK, WriteAgent, headscale, budget
<1>8. CASE set_gateway_clients(t)
  <2>1. op(t) = "set_exit_clients"
    BY <1>2, <1>8 DEF set_gateway_clients, Phase
  <2>2. arg(t).node \in Node
    BY <1>2, <2>1, SyncAssumption DEF JobOK, op, arg
  <2>3. TasksOK'
    <3>1. Phase("lock", "apply", op(t))
      BY <2>1 DEF Phase
    <3> QED
      BY <1>1, <1>8, <3>1, PurposeOK
         DEF set_gateway_clients, StartApply, building, PC, Why
  <2>4. meta' \in [Node -> MetaEntry]
    <3>1. ASSUME NEW n \in Node
          PROVE  /\ [meta[n] EXCEPT !.via = @ \cup {arg(t).node}] \in MetaEntry
                 /\ [meta[n] EXCEPT !.via = @ \ {arg(t).node}] \in MetaEntry
                 /\ meta[n] \in MetaEntry
      <4> DEFINE x == arg(t).node
      <4>1. meta[n] \in MetaEntry /\ meta[n].via \in SUBSET Node
        BY <1>1 DEF MetaEntry
      <4>2. \A V \in SUBSET Node : [meta[n] EXCEPT !.via = V] \in MetaEntry
        BY <4>1 DEF MetaEntry
      <4>3. meta[n].via \cup {x} \in SUBSET Node /\ meta[n].via \ {x} \in SUBSET Node
        BY <2>2, <4>1
      <4> QED
        BY <4>1, <4>2, <4>3
    <3> QED
      BY <1>8, <3>1 DEF set_gateway_clients
  <2> QED
    BY <1>8, <2>3, <2>4 DEF TypeOK, set_gateway_clients, headscale, budget
<1> QED
  BY <1>4, <1>5, <1>6, <1>7, <1>8

LEMMA CollectorOK ==
    ASSUME TypeOK,
           CollectNodes \/ ReadWanted \/ ApproveRequested \/ Compare \/ Prune
    PROVE  TypeOK'
<1> DEFINE t == Collector
<1>1. /\ TasksOK /\ t \in Task /\ lock \in Task \cup {NoTask} /\ faults \in Nat
      /\ hsNodes \in SUBSET HsNode
  BY SyncAssumption DEF TypeOK
<1>2. /\ JobOK(job[t]) /\ Phase(pc[t], why[t], op(t))
      /\ seen[t] \in Seen /\ pol[t] \in Policy
  BY <1>1 DEF TasksOK
<1> HIDE DEF t
<1>3. CASE CollectNodes
  <2>1. PICK raw \in {hsNodes, {}} :
            /\ had' = (raw # {})
            /\ seen' = [seen EXCEPT ![t].nodes = raw]
            /\ Fault \/ NoFault
    BY <1>3 DEF CollectNodes, t
  <2> DEFINE s == [seen[t] EXCEPT !.nodes = raw]
             j == [op |-> "collect", arg |-> arg(t), keep |-> keep(t),
                   was |-> job[t].was, gw |-> job[t].gw, extra |-> job[t].extra]
  <2>2. s \in Seen /\ seen' = [seen EXCEPT ![t] = s]
    BY <1>1, <1>2, <2>1 DEF Seen
  <2>3. op(t) = "none"
    BY <1>2, <1>3 DEF CollectNodes, Phase, t
  <2>4. JobOK(j) /\ j.op = "collect"
    BY <1>2, <2>3 DEF JobOK, Blob, op, arg, keep, OpName
  <2>5. job' = [job EXCEPT ![t] = j]
    <3>1. job' = [job EXCEPT ![t] = [job[t] EXCEPT !.op = "collect"]]
      BY <1>3 DEF CollectNodes, t
    <3>2. [job[t] EXCEPT !.op = "collect"]
              \in [op : {"collect"}, arg : {arg(t)}, keep : {keep(t)},
                   was : {job[t].was}, gw : {job[t].gw}, extra : {job[t].extra}]
      BY <1>2 DEF JobOK, arg, keep
    <3>3. [job[t] EXCEPT !.op = "collect"] = j
      BY <3>2, JobFields
    <3> HIDE DEF j
    <3>4. QED
      BY <3>1, <3>3
  <2> HIDE DEF s, j
  <2>6. Moves(t, "wanted", why[t], j, s, pol[t])
    BY <1>1, <1>3, <2>2, <2>5, Unchanged DEF CollectNodes, Moves, Goto, t
  <2>7. Phase("wanted", why[t], "collect") /\ why[t] \in Why
    BY <1>1, <1>2, <2>3 DEF Phase, TasksOK
  <2>8. TasksOK'
    BY <1>1, <1>2, <2>2, <2>4, <2>6, <2>7, MoveOK DEF PC
  <2>9. had' \in BOOLEAN /\ faults' \in Nat
    BY <1>1, <2>1, FaultOK
  <2>10. QED
    BY <1>3, <2>8, <2>9 DEF TypeOK, CollectNodes, headscale, database
<1>4. CASE Compare
  <2>1. TasksOK' /\ lock' \in Task \cup {NoTask}
    <3>1. CASE Settle(t, TRUE)
      BY <1>1, <3>1, SettleOK
    <3>2. CASE Goto(t, "send") /\ UNCHANGED <<lock, why, job, seen, pol>>
      <4>1. Phase("send", why[t], op(t))
        BY <1>2 DEF Phase
      <4>2. QED
        BY <1>1, <3>2, <4>1, GotoOK DEF PC
    <3>3. QED
      BY <1>4, <3>1, <3>2 DEF Compare, building, t
  <2>2. faults' \in Nat
    BY <1>1, <1>4, FaultOK DEF Compare
  <2>3. QED
    BY <1>4, <2>1, <2>2 DEF TypeOK, Compare, headscale, database
<1>5. CASE Prune
  <2>1. TasksOK'
    BY <1>1, <1>5 DEF Prune, tasks, TasksOK, op
  <2>2. QED
    BY <1>5, <2>1 DEF TypeOK, Prune, headscale, database, tasks, budget
<1>6. CASE ReadWanted
  <2> DEFINE raw == seen[t].nodes
             P == [n \in Node |->
                    IF agents[n].here /\ \E h \in raw : h.id = n
                    THEN [want |-> agents[n].want \cup routes_by_node(dirs, n),
                          mine |-> agents[n].mine, had |-> approved_of(raw, n)]
                    ELSE NoPlan]
  <2>1. op(t) = "collect"
    BY <1>2, <1>6 DEF ReadWanted, Phase, t
  <2>2. TasksOK'
    <3>1. CASE StartHeal /\ UNCHANGED <<seen, job, pol>>
      <4>1. Phase("lock", "heal", op(t))
        BY <2>1 DEF Phase
      <4> QED
        BY <1>1, <3>1, <4>1, PurposeOK DEF StartHeal, PC, Why, t
    <3>2. CASE /\ seen' = [seen EXCEPT ![t].plan = P]
               /\ Goto(t, "approving") /\ UNCHANGED <<why, job, pol>>
      <4> DEFINE s == [seen[t] EXCEPT !.plan = P]
      <4>1. P \in [Node -> Plan]
        <5>1. raw \in SUBSET HsNode /\ dirs \in SUBSET Direction
              /\ agents \in [Node -> AgentEntry]
          BY <1>2 DEF Seen, TypeOK
        <5>2. \A n \in Node : [want |-> agents[n].want \cup routes_by_node(dirs, n),
                                mine |-> agents[n].mine, had |-> approved_of(raw, n)] \in Plan
          <6> HIDE DEF raw
          <6>1. ASSUME NEW n \in Node
                PROVE  /\ agents[n].want \cup routes_by_node(dirs, n) \in SUBSET Route
                       /\ agents[n].mine \in SUBSET Route
                       /\ approved_of(raw, n) \in SUBSET Route
            BY <5>1, DirectionRoutes, ApprovedOfTyped DEF AgentEntry
          <6> QED
            BY <6>1 DEF Plan
        <5>3. NoPlan \in Plan
          BY DEF NoPlan, Plan
        <5> QED
          BY <5>2, <5>3
      <4> HIDE DEF P
      <4>2. s \in Seen /\ seen' = [seen EXCEPT ![t] = s]
        BY <1>2, <3>2, <4>1 DEF Seen
      <4> HIDE DEF s
      <4>3. Phase("approving", why[t], op(t)) /\ "approving" \in PC
        BY <1>2, <2>1 DEF Phase, PC
      <4>4. pol' = [pol EXCEPT ![t] = pol[t]]
        BY <1>1, <3>2, Unchanged
      <4> QED
        BY <1>1, <1>2, <3>2, <4>2, <4>3, <4>4, ReadMoveOK DEF Goto
    <3> QED
      BY <1>6, <3>1, <3>2 DEF ReadWanted, t
  <2> QED
    BY <1>6, <2>2 DEF TypeOK, ReadWanted, headscale, database, budget
<1>7. CASE ApproveRequested
  <2>1. PICK got \in {Granted(an) : an \in SUBSET UNION {{n} \X plan(t)[n].want : n \in Node}} :
            \E S, R : hsNodes' = Approved(t, S, got) /\ agents' = Noted(R, got)
    BY <1>7, Zenon DEF ApproveRequested, t
  <2>2. PICK S, R : hsNodes' = Approved(t, S, got) /\ agents' = Noted(R, got)
    BY <2>1
  <2>3. plan(t) \in [Node -> Plan]
    BY <1>2 DEF Seen, plan
  <2>4. \A n \in Node : got[n] \in SUBSET Route
    BY <2>3 DEF Plan, Granted, t
  <2>5. hsNodes' \in SUBSET HsNode /\ DistinctAddrs(hsNodes')
    BY <1>1, <2>2, <2>4, ApprovedOK
  <2>6. agents' \in [Node -> AgentEntry]
    <3> DEFINE mine(n) == owned(plan(t)[n], got[n])
    <3>1. agents \in [Node -> AgentEntry]
      BY DEF TypeOK
    <3>2. \A n \in Node : mine(n) \in SUBSET Route
      BY <2>3, <2>4, TargetTyped
    <3>3. agents' = [n \in Node |->
                       IF n \in R /\ agents[n].here /\ mine(n) # plan(t)[n].mine
                       THEN [agents[n] EXCEPT !.mine = mine(n)] ELSE agents[n]]
      BY <2>2 DEF Noted, t
    <3> HIDE DEF mine
    <3>4. \A n \in Node : [agents[n] EXCEPT !.mine = mine(n)] \in AgentEntry
      BY <3>1, <3>2 DEF AgentEntry
    <3> QED
      BY <3>1, <3>3, <3>4
  <2>7. TasksOK'
    <3> DEFINE s == [seen[t] EXCEPT !.plan = NoSeen.plan]
    <3>1. NoSeen.plan \in [Node -> Plan]
      BY NothingYet DEF Seen
    <3>2. s \in Seen /\ seen' = [seen EXCEPT ![t] = s]
      BY <1>2, <1>7, <3>1 DEF Seen, ApproveRequested, t
    <3> HIDE DEF s
    <3>3. Moves(t, "lock", "heal", job[t], s, pol[t])
      BY <1>1, <1>7, <3>2, Unchanged DEF ApproveRequested, StartHeal, Moves, t
    <3>4. Phase("lock", "heal", op(t))
      BY <1>7 DEF Phase, ApproveRequested, t
    <3> QED
      BY <1>1, <1>2, <3>2, <3>3, <3>4, MoveOK DEF PC, Why, op
  <2>8. faults' \in Nat
    BY <1>1, <1>7, FaultOK DEF ApproveRequested
  <2> QED
    BY <1>7, <2>5, <2>6, <2>7, <2>8 DEF TypeOK, ApproveRequested
<1>8. QED
  BY <1>3, <1>4, <1>5, <1>6, <1>7

LEMMA AroundOK ==
    ASSUME TypeOK, LateArrives \/ Tamper \/ Join \/ Restart
    PROVE  TypeOK'
<1>1. /\ TasksOK /\ lock \in Task \cup {NoTask} /\ faults \in Nat /\ left \in Nat
      /\ hsNodes \in SUBSET HsNode /\ late \in SUBSET Policy
  BY DEF TypeOK
<1>2. UNCHANGED tasks => TasksOK'
  BY <1>1 DEF tasks, TasksOK, op
<1>3. CASE LateArrives
  <2>1. live' \in Policy /\ late' \in SUBSET Policy
    BY <1>1, <1>3 DEF LateArrives
  <2>2. QED
    BY <1>2, <1>3, <2>1 DEF TypeOK, LateArrives, database, budget
<1>4. CASE Tamper
  <2>1. live' \in Policy /\ faults' \in Nat
    BY <1>1, <1>4, FaultOK, SyncAssumption DEF Tamper
  <2>2. QED
    BY <1>2, <1>4, <2>1 DEF TypeOK, Tamper, database
<1>5. CASE Join
  <2>1. hsNodes' \in SUBSET HsNode /\ DistinctAddrs(hsNodes')
    BY <1>1, <1>5, SyncAssumption DEF Join
  <2>2. left' \in Nat
    BY <1>1, <1>5 DEF Join
  <2>3. QED
    BY <1>2, <1>5, <2>1, <2>2 DEF TypeOK, Join, database
<1>6. CASE Restart
  <2>1. TasksOK'
    BY <1>6, NothingYet DEF Restart, TasksOK, op, NoJob
  <2>2. faults' \in Nat
    BY <1>1, <1>6, FaultOK DEF Restart
  <2>3. QED
    BY <1>6, <2>1, <2>2 DEF TypeOK, Restart, headscale, database
<1>7. QED
  BY <1>3, <1>4, <1>5, <1>6

LEMMA InitOK == Init => TypeOK
<1>1. SUFFICES ASSUME Init
               PROVE  TypeOK
  OBVIOUS
<1>2. PICK s \in Stored : /\ hsNodes = s.nodes /\ rules = s.rules
                          /\ dirs = s.dirs /\ meta = s.meta /\ agents = s.agents
  BY <1>1 DEF Init
<1>3. /\ hsNodes \in SUBSET HsNode /\ DistinctAddrs(hsNodes)
      /\ rules \in SUBSET Rule /\ dirs \in SUBSET Direction
      /\ meta \in [Node -> MetaEntry] /\ agents \in [Node -> AgentEntry]
  BY <1>2, SyncAssumption
<1>4. live \in Policy
  <2>1. {} \in SUBSET Tag
    OBVIOUS
  <2>2. QED
    BY <1>1, <1>3, <2>1, PolicyTyped DEF Init, Wanted
<1>5. TasksOK
  BY <1>1, NothingYet DEF Init, TasksOK, op, NoJob
<1>6. left \in Nat /\ faults \in Nat
  BY <1>1, SyncAssumption DEF Init
<1>7. QED
  BY <1>1, <1>3, <1>4, <1>5, <1>6, SyncAssumption DEF Init, TypeOK

LEMMA NextOK == TypeOK /\ [Next]_vars => TypeOK'
<1>1. SUFFICES ASSUME TypeOK, [Next]_vars
               PROVE  TypeOK'
  OBVIOUS
<1>2. ASSUME NEW t \in Task, Arrive(t) \/ Acquire(t) \/ Step(t)
      PROVE  TypeOK'
  BY <1>1, <1>2, ArriveOK, AcquireOK, SaveOK, RefreshOK, NoteOK, TagsOK, DeleteOK,
     FormsOK, BuildOK, SendOK, ApproveOK, ApproveDirectionsOK DEF Step
<1>3. CASE UNCHANGED vars
  <2>1. TasksOK'
    BY <1>1, <1>3 DEF vars, TypeOK, TasksOK, op
  <2>2. QED
    BY <1>1, <1>3, <2>1 DEF vars, TypeOK
<1>4. QED
  BY <1>1, <1>2, <1>3, CollectorOK, AroundOK DEF Next

(* Whatever requests arrive and however their steps, the collector's and   *)
(* the failures interleave, every blob the handlers write back, every tag  *)
(* list they hang and every policy they send has the type its place asks   *)
(* for, a task holds what its request says it holds, and no two nodes      *)
(* share an address.                                                       *)
THEOREM TypeCorrect == Spec => []TypeOK
  BY InitOK, NextOK, PTL DEF Spec
=============================================================================
