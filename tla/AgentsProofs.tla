---------------------------- MODULE AgentsProofs ----------------------------
(***************************************************************************)
(* The settings lock keeps what AgentStore promises of the blob of the     *)
(* agents, and what is approved was asked for, for any number of nodes,    *)
(* routes and requests, any interleaving of them with the collector and    *)
(* the agents, any failures and restarts.                                  *)
(*                                                                         *)
(* What a process holds and reads is of its type; the lock is held by the  *)
(* one serialized call that has read and not yet written, and its copy is  *)
(* the blob unless someone who does not take the lock has written in       *)
(* between; whatever is stored, held or seen was asked for.                *)
(***************************************************************************)
EXTENDS Agents, FiniteSetTheorems, TLAPS

Viewer == Task \cup {Collector}

AView == [agents : Blob, derived : [Node -> SUBSET Route], nodes : SUBSET Node,
          avail : [Node -> SUBSET Thing], approved : [Node -> SUBSET Thing]]

(* What a direction keeps beside its call until it is recorded.            *)
Wish == [op : {"direction", "resolve"},
         node : Node, token : Nat, things : SUBSET Thing,
         marks : [Node -> SUBSET Route], exit : BOOLEAN,
         via : Node \cup {NoNode}, body : Body \cup {NoBody},
         release : 0..Release]

Busy == {"ask", "looked"}
CallAt == {"ask", "looked", "approve", "hs_delete"}
WishAt == {"save", "wanted", "nodes", "approve_for"}
StateAt == {"answer", "update", "apply", "half"}

StoredTyped ==
    /\ agents \in Blob /\ derived \in [Node -> SUBSET Route]
    /\ hsNodes \in SUBSET Node
    /\ avail \in [Node -> SUBSET Thing] /\ approved \in [Node -> SUBSET Thing]
    /\ minted \in Nat
    /\ world \in World

HeldTyped ==
    /\ pc = [p \in Proc |-> pc[p]] /\ job = [p \in Proc |-> job[p]]
    /\ copy \in [Proc -> Blob]
    /\ \A p \in Proc : /\ pc[p] \in CallAt => job[p] \in Call
                       /\ pc[p] \in WishAt => job[p] \in Wish

SeenTyped == view \in [Viewer -> AView]

NodesTyped ==
    /\ tok \in [Node -> Nat] /\ own \in [Node -> 0..Release]
    /\ file \in [Node -> Body \cup {NoBody}]
    /\ got \in [Node -> [body : Body \cup {NoBody}, order : 0..Release]]

(* Who waits for the answer to a poll, or goes on with it.                 *)
Following(n) ==
    pc[n] \in StateAt \/ (pc[n] \in Busy /\ job[n].op = "touch")
Fetched == \A n \in Node : Following(n) => got[n].body \in Body

Typed == StoredTyped /\ HeldTyped /\ SeenTyped /\ NodesTyped /\ Fetched

(* --- the types of calls and entries ---------------------------------------- *)

CallOp == {"get", "put", "reissue", "order", "order_all", "exit", "via", "record",
           "mine", "touch", "applied", "untick", "forget"}

LEMMA BlankCall ==
    ASSUME NEW n \in Node, NEW o
    PROVE  /\ aCall(o, n).op = o
           /\ o \in CallOp => aCall(o, n) \in Call
           /\ o \in {"direction", "resolve"} => aCall(o, n) \in Wish
<1>1. NoNode \in Node \cup {NoNode} /\ 0 \in 0..Release /\ NoBody \in Body \cup {NoBody}
  BY BlobAssumption
<1> QED
  BY <1>1 DEF aCall, Call, Wish, Thing, CallOp

LEMMA BlankTyped == Blank \in Entry /\ NoBlob \in Blob /\ NoView \in AView
<1>1. Blank \in Entry
  BY BlobAssumption DEF Blank, Entry, Thing
<1>2. NoBlob \in Blob
  BY <1>1 DEF NoBlob, Blob
<1>3. NoView \in AView
  BY <1>2 DEF NoView, AView, Thing
<1> QED
  BY <1>1, <1>2, <1>3

LEMMA ChangedTyped ==
    ASSUME NEW e \in Entry, NEW c \in Call, NEW n \in Node
    PROVE  changed(n, e, c) \in Entry
<1>1. /\ c.token \in Nat /\ c.things \in SUBSET Thing
      /\ c.marks \in [Node -> SUBSET Route] /\ c.exit \in BOOLEAN
      /\ c.via \in Node \cup {NoNode} /\ c.body \in Body \cup {NoBody}
      /\ c.release \in 0..Release
      /\ c.op \in CallOp
  BY DEF Call, CallOp
<1>2. Release \in Nat /\ 0 \in 0..Release /\ Release \in 0..Release
  BY BlobAssumption
<1>3. routes_of(c) \in SUBSET Route /\ c.marks[n] \in SUBSET Thing
  BY <1>1 DEF routes_of, Thing
<1>4. with_token(e, c) \in Entry
  BY <1>1 DEF with_token, Entry
<1>5. CASE c.op = "get"
  BY <1>4, <1>5 DEF changed
<1>6. CASE c.op = "put"
  <2> DEFINE f == with_token(e, c)
  <2>1. f \in Entry
    BY <1>4
  <2>2. changed(n, e, c) = [f EXCEPT !.routes = routes_of(c), !.exit = c.exit]
    BY <1>6 DEF changed, put_agent
  <2> HIDE DEF f
  <2> QED
    BY <1>1, <1>3, <2>1, <2>2 DEF Entry
<1>7. CASE c.op = "reissue"
  <2>1. changed(n, e, c) = reissue_agent_token(e, c)
    BY <1>7 DEF changed
  <2> QED
    BY <1>1, <1>2, <2>1 DEF reissue_agent_token, Entry
<1>8. CASE c.op \in {"order", "order_all"}
  <2>1. changed(n, e, c) = [e EXCEPT !.order = Release]
    BY <1>8 DEF changed
  <2> QED
    BY <1>2, <2>1 DEF Entry
<1>9. CASE c.op = "exit"
  <2>1. changed(n, e, c) = [e EXCEPT !.here = TRUE, !.exit = c.exit]
    BY <1>9 DEF changed
  <2> QED
    BY <1>1, <2>1 DEF Entry
<1>10. CASE c.op = "via"
  <2>1. changed(n, e, c) = [e EXCEPT !.here = TRUE, !.via = c.via]
    BY <1>10 DEF changed
  <2> QED
    BY <1>1, <2>1 DEF Entry
<1>11. CASE c.op = "record"
  <2>1. changed(n, e, c) = [e EXCEPT !.mine = @ \cup c.marks[n]]
    BY <1>11 DEF changed
  <2> QED
    BY <1>3, <2>1 DEF Entry
<1>12. CASE c.op = "mine"
  <2>1. changed(n, e, c) = [e EXCEPT !.mine = c.things]
    BY <1>12 DEF changed
  <2> QED
    BY <1>1, <2>1 DEF Entry
<1>13. CASE c.op = "applied"
  <2>1. changed(n, e, c) = mark_agent_applied(e, c)
    BY <1>13 DEF changed
  <2>2. (IF c.release > 0 /\ c.release >= e.order THEN 0 ELSE e.order) \in 0..Release
    BY <1>2 DEF Entry
  <2> QED
    BY <1>1, <2>1, <2>2 DEF mark_agent_applied, Entry
<1>14. CASE c.op = "untick"
  <2>1. changed(n, e, c) = untick(e, c)
    BY <1>14 DEF changed
  <2> QED
    BY <2>1 DEF untick, Entry
<1>15. CASE c.op = "forget"
  <2>1. CASE n = c.node
    <3>1. changed(n, e, c) = Blank
      BY <1>15, <2>1 DEF changed
    <3> QED
      BY <3>1, BlankTyped
  <2>2. CASE n # c.node
    <3>1. changed(n, e, c) = [e EXCEPT !.via = NoNode]
      BY <1>15, <2>2 DEF changed
    <3> QED
      BY <3>1 DEF Entry
  <2> QED
    BY <2>1, <2>2
<1>16. CASE c.op = "touch"
  <2>1. changed(n, e, c) = e
    BY <1>16 DEF changed
  <2> QED
    BY <2>1
<1> QED
  BY <1>1, <1>5, <1>6, <1>7, <1>8, <1>9, <1>10, <1>11, <1>12, <1>13, <1>14,
     <1>15, <1>16 DEF CallOp

LEMMA EffectTyped ==
    ASSUME NEW b \in Blob, NEW c \in Call
    PROVE  Effect(b, c) \in Blob
<1>1. \A n \in Node : b[n] \in Entry
  BY DEF Blob
<1>2. \A n \in Node : changed(n, b[n], c) \in Entry
  BY <1>1, ChangedTyped
<1> QED
  BY <1>1, <1>2 DEF Effect, Blob

(* A call that touches no entry leaves the blob as it is.                  *)
LEMMA NoEffect ==
    ASSUME NEW b \in Blob, NEW c, touched(b, c) = {}
    PROVE  Effect(b, c) = b
BY DEF Effect, Blob

LEMMA AnnouncedTyped ==
    ASSUME NEW e, e.routes \in SUBSET Route
    PROVE  announced_by(e) \in SUBSET Thing
BY DEF announced_by, Thing

(* --- types ------------------------------------------------------------------ *)

LEMMA TypeInit == ASSUME Init PROVE Typed
<1>1. world \in World
  BY AgentsAssumption DEF Init
<1>2. /\ agents \in Blob /\ derived \in [Node -> SUBSET Route]
      /\ world.file \in [Node -> Body \cup {NoBody}]
      /\ tok \in [Node -> Nat] /\ own \in [Node -> 0..Release]
  BY <1>1 DEF Init, World
<1>3. minted \in Nat
  BY AgentsAssumption, FS_CardinalityType DEF Init
<1>4. avail \in [Node -> SUBSET Thing]
  <2>1. \A b \in Body : announced_by(b) \in SUBSET Thing
    BY AnnouncedTyped DEF Body
  <2>2. avail = [n \in Node |-> IF world.file[n] = NoBody THEN {}
                                ELSE announced_by(world.file[n])]
    BY DEF Init
  <2>3. \A n \in Node : avail[n] \in SUBSET Thing
    BY <1>2, <2>1, <2>2
  <2> QED
    BY <2>2, <2>3
<1>5. StoredTyped
  BY <1>1, <1>2, <1>3, <1>4 DEF Init, StoredTyped
<1>6. HeldTyped
  BY BlankTyped DEF Init, HeldTyped, CallAt, WishAt
<1>7. SeenTyped
  BY BlankTyped DEF Init, SeenTyped, Viewer
<1>8. NodesTyped
  BY <1>2, BlobAssumption DEF Init, NodesTyped, Nothing
<1>9. Fetched
  BY DEF Init, Fetched, Following, StateAt, Busy, Proc
<1> QED
  BY <1>5, <1>6, <1>7, <1>8, <1>9 DEF Typed

LEMMA WorldTyped ==
    ASSUME world \in World, NEW kind,
           \/ Fault(kind) \/ UNCHANGED world
           \/ world.left > 0 /\ world' = [world EXCEPT !.left = @ - 1]
    PROVE  world' \in World
BY DEF World, Fault

(* A process goes somewhere with a call and a copy.                        *)
LEMMA Goes ==
    ASSUME HeldTyped, NEW p \in Proc, NEW where, NEW c, NEW b \in Blob,
           pc' = [pc EXCEPT ![p] = where], job' = [job EXCEPT ![p] = c],
           copy' = [copy EXCEPT ![p] = b],
           where \in CallAt => c \in Call, where \in WishAt => c \in Wish
    PROVE  HeldTyped'
<1>1. /\ pc' = [q \in Proc |-> IF q = p THEN where ELSE pc[q]]
      /\ job' = [q \in Proc |-> IF q = p THEN c ELSE job[q]]
  BY DEF HeldTyped
<1>2. copy' \in [Proc -> Blob]
  BY DEF HeldTyped
<1>3. \A q \in Proc : /\ pc'[q] \in CallAt => job'[q] \in Call
                      /\ pc'[q] \in WishAt => job'[q] \in Wish
  BY <1>1 DEF HeldTyped
<1>4. pc' = [q \in Proc |-> pc'[q]] /\ job' = [q \in Proc |-> job'[q]]
  BY <1>1
<1> QED
  BY <1>2, <1>3, <1>4 DEF HeldTyped

(* It goes on with what it has, or is done, or asks for another call.      *)
LEMMA GoesOn ==
    ASSUME HeldTyped, UNCHANGED copy, NEW p \in Proc, NEW where,
           \/ /\ Goto(p, where) /\ UNCHANGED job
              /\ where \in CallAt => job[p] \in Call
              /\ where \in WishAt => job[p] \in Wish
           \/ Finish(p)
           \/ \E c \in Call : Ask(p, c)
    PROVE  HeldTyped'
<1>1. copy' = [copy EXCEPT ![p] = copy[p]] /\ copy[p] \in Blob
  BY DEF HeldTyped
<1>2. CASE Finish(p)
  <2>1. "idle" \notin CallAt /\ "idle" \notin WishAt
    BY DEF CallAt, WishAt
  <2> QED
    BY <1>1, <1>2, <2>1, Goes DEF Finish, Goto
<1>3. ASSUME NEW c \in Call, Ask(p, c) PROVE HeldTyped'
  <2>1. "ask" \notin WishAt
    BY DEF WishAt
  <2> QED
    BY <1>1, <1>3, <2>1, Goes DEF Ask, Goto
<1>4. CASE /\ Goto(p, where) /\ UNCHANGED job
           /\ where \in CallAt => job[p] \in Call
           /\ where \in WishAt => job[p] \in Wish
  <2>1. job' = [job EXCEPT ![p] = job[p]]
    BY <1>4 DEF HeldTyped
  <2> QED
    BY <1>1, <1>4, <2>1, Goes DEF Goto
<1> QED
  BY <1>2, <1>3, <1>4

LEMMA AnswersTyped ==
    ASSUME HeldTyped, NEW p \in Proc, pc[p] \in Busy, Answered(p)
    PROVE  HeldTyped'
<1>1. job[p] \in Call
  BY DEF HeldTyped, Busy, CallAt
<1>2. NoBlob \in Blob
  BY BlankTyped
<1>3. CASE after(p) = "approve"
  <2>2. /\ pc' = [pc EXCEPT ![p] = "approve"] /\ job' = [job EXCEPT ![p] = job[p]]
        /\ copy' = [copy EXCEPT ![p] = NoBlob]
    BY <1>3 DEF Answered, Goto, HeldTyped
  <2>3. "approve" \notin WishAt
    BY DEF WishAt
  <2> QED
    BY <1>1, <1>2, <2>2, <2>3, Goes
<1>4. CASE after(p) # "approve"
  <2> DEFINE where == after(p)
  <2>1. where \in {"answer", "next", "idle"}
    BY <1>4 DEF after
  <2>2. /\ pc' = [pc EXCEPT ![p] = where] /\ job' = [job EXCEPT ![p] = NoCall]
        /\ copy' = [copy EXCEPT ![p] = NoBlob]
    BY <2>1 DEF Answered, Goto
  <2> HIDE DEF where
  <2>3. where \notin CallAt /\ where \notin WishAt
    BY <2>1 DEF CallAt, WishAt
  <2> QED
    BY <1>2, <2>2, <2>3, Goes
<1> QED
  BY <1>3, <1>4

(* Only a process that is a node has fetched anything.                     *)
LEMMA FetchedApart ==
    ASSUME HeldTyped, Fetched, UNCHANGED got, NEW p \in Proc \ Node, NEW where, NEW c,
           pc' = [pc EXCEPT ![p] = where],
           job' = [job EXCEPT ![p] = c] \/ UNCHANGED job
    PROVE  Fetched'
<1>1. \A n \in Node : pc'[n] = pc[n] /\ job'[n] = job[n]
  BY DEF HeldTyped, Proc
<1> QED
  BY <1>1 DEF Fetched, Following

(* --- steps and types ---------------------------------------------------------*)

LEMMA CallsTyped ==
    ASSUME Typed, NEW p \in Proc, Calls(p)
    PROVE  Typed'
<1> USE DEF headscale, history, node
<1>1. /\ pc[p] \in Busy /\ job[p] \in Call
      /\ UNCHANGED <<view, hsNodes, avail, approved, minted, world, tok, own,
                     file, got>>
  BY DEF Calls, Look, Store, Busy, CallAt, Typed, HeldTyped
<1>2. HeldTyped'
  <2>1. CASE Answered(p)
    BY <1>1, <2>1, AnswersTyped DEF Typed
  <2>2. CASE Finish(p) /\ UNCHANGED copy
    BY <2>2, GoesOn DEF Typed
  <2>3. CASE /\ copy' = [copy EXCEPT ![p] = agents] /\ Goto(p, "looked")
             /\ UNCHANGED job
    <3>1. agents \in Blob /\ job' = [job EXCEPT ![p] = job[p]] /\ "looked" \notin WishAt
      BY <2>3 DEF Typed, StoredTyped, HeldTyped, WishAt
    <3> QED
      BY <1>1, <2>3, <3>1, Goes DEF Goto, Typed
  <2> QED
    BY <2>1, <2>2, <2>3 DEF Calls, Look, Store
<1>3. StoredTyped'
  <2>1. CASE Look(p)
    BY <1>1, <2>1 DEF Look, Typed, StoredTyped
  <2>2. CASE Store(p)
    <3>1. copy[p] \in Blob
      BY DEF Typed, HeldTyped
    <3>2. agents' \in Blob
      BY <1>1, <2>2, <3>1, EffectTyped DEF Store
    <3>3. derived' \in [Node -> SUBSET Route]
      BY <2>2 DEF Store, Typed, StoredTyped
    <3> QED
      BY <1>1, <3>2, <3>3 DEF Typed, StoredTyped
  <2> QED
    BY <2>1, <2>2 DEF Calls
<1>4. Fetched'
  <2> SUFFICES ASSUME NEW n \in Node, Following(n)'
               PROVE  got[n].body \in Body
    BY <1>1 DEF Fetched
  <2>1. CASE n # p
    <3>1. pc'[n] = pc[n] /\ job'[n] = job[n]
      BY <2>1 DEF Calls, Look, Store, Answered, Finish, Goto, Typed, HeldTyped, Proc
    <3> QED
      BY <3>1 DEF Following, Typed, Fetched
  <2>2. CASE n = p
    <3>1. after(p) \in StateAt \cup Busy => job[p].op = "touch"
      BY DEF after, StateAt, Busy
    <3>2. \/ pc'[p] = after(p) \/ pc'[p] = "idle"
          \/ pc'[p] = "looked" /\ job'[p] = job[p]
      BY DEF Calls, Look, Store, Answered, Finish, Goto, Typed, HeldTyped
    <3>3. job[p].op = "touch"
      BY <2>2, <3>1, <3>2 DEF Following, StateAt, Busy
    <3> QED
      BY <1>1, <2>2, <3>3 DEF Following, Typed, Fetched
  <2> QED
    BY <2>1, <2>2
<1> QED
  BY <1>1, <1>2, <1>3, <1>4 DEF Typed, SeenTyped, NodesTyped

LEMMA ArriveTyped ==
    ASSUME Typed, NEW t \in Task, Arrive(t)
    PROVE  Typed'
<1> USE DEF panel, headscale, node
<1> DEFINE token(r) == IF r.op \in Mints THEN minted + 1 ELSE 0
<1>1. PICK r \in world.requests[t] :
        /\ r.op # "install"
        /\ pc' = [pc EXCEPT ![t] = start_of(r.op)]
        /\ job' = [job EXCEPT ![t] =
              [aCall(r.op, r.node) EXCEPT !.things = r.things, !.exit = r.exit,
                  !.via = r.via, !.token = token(r)]]
        /\ minted' \in {minted, minted + 1}
        /\ world.left > 0 /\ world' = [world EXCEPT !.left = @ - 1]
        /\ UNCHANGED <<agents, derived, hsNodes, avail, approved, copy, view, got,
                       tok, own, file>>
  BY DEF Arrive
<1> DEFINE c == [aCall(r.op, r.node) EXCEPT !.things = r.things,
                    !.exit = r.exit, !.via = r.via, !.token = token(r)]
           where == start_of(r.op)
<1>2. /\ r \in Request /\ minted \in Nat
      /\ r.node \in Node /\ r.things \in SUBSET Thing /\ r.exit \in BOOLEAN
      /\ r.via \in Node \cup {NoNode} /\ r.op \in CallOp \cup {"direction", "resolve"}
  BY <1>1 DEF Typed, StoredTyped, World, Request, CallOp
<1>3. token(r) \in Nat
  BY <1>2
<1>4. /\ r.op \in CallOp => c \in Call
      /\ r.op \in {"direction", "resolve"} => c \in Wish
  <2> DEFINE c0 == aCall(r.op, r.node)
             k == token(r)
  <2>1. /\ r.op \in CallOp => c0 \in Call
        /\ r.op \in {"direction", "resolve"} => c0 \in Wish
    BY <1>2, BlankCall
  <2>2. c = [c0 EXCEPT !.things = r.things, !.exit = r.exit, !.via = r.via,
                       !.token = k]
    OBVIOUS
  <2>3. k \in Nat
    BY <1>3
  <2> HIDE DEF c0, k, c
  <2>4. ASSUME c0 \in Call PROVE c \in Call
    BY <1>2, <2>2, <2>3, <2>4 DEF Call
  <2>5. ASSUME c0 \in Wish PROVE c \in Wish
    BY <1>2, <2>2, <2>3, <2>5 DEF Wish
  <2> QED
    BY <2>1, <2>4, <2>5
<1>5. /\ where \in {"save", "hs_delete", "ask"}
      /\ where = "save" <=> r.op \in {"direction", "resolve"}
  BY DEF start_of
<1>6. pc' = [pc EXCEPT ![t] = where] /\ job' = [job EXCEPT ![t] = c]
  BY <1>1
<1> HIDE DEF c, where, token
<1>7. HeldTyped'
  <2>1. where \in CallAt => c \in Call
    BY <1>2, <1>4, <1>5 DEF CallAt
  <2>2. where \in WishAt => c \in Wish
    BY <1>4, <1>5 DEF WishAt
  <2>3. t \in Proc /\ copy' = [copy EXCEPT ![t] = copy[t]] /\ copy[t] \in Blob
    BY <1>1 DEF Proc, Typed, HeldTyped
  <2> QED
    BY <1>6, <2>1, <2>2, <2>3, Goes DEF Typed
<1>8. Fetched'
  <2>1. t \in Proc \ Node
    BY AgentsAssumption DEF Proc
  <2> QED
    BY <1>1, <1>6, <2>1, FetchedApart DEF Typed
<1>9. StoredTyped'
  BY <1>1, <1>2, WorldTyped DEF Typed, StoredTyped
<1> QED
  BY <1>1, <1>7, <1>8, <1>9 DEF Typed, SeenTyped, NodesTyped

(* The view of a process becomes another.                                  *)
LEMMA SeesTyped ==
    ASSUME SeenTyped, NEW p \in Viewer, NEW v \in AView,
           view' = [view EXCEPT ![p] = v] \/ UNCHANGED view
    PROVE  SeenTyped'
BY DEF SeenTyped

LEMMA TaskTyped ==
    ASSUME Typed, NEW t \in Task,
           \/ ApproveByHand(t) \/ HsDelete(t) \/ SaveDirection(t)
           \/ ReadWanted(t) \/ ReadNodes(t) \/ approve_for(t) \/ Approved(t)
    PROVE  Typed'
<1> USE DEF panel, headscale, history, node
<1>1. t \in Proc \ Node /\ t \in Proc /\ t \in Viewer
  BY AgentsAssumption DEF Proc, Viewer
<1>2. /\ UNCHANGED <<agents, copy, got, tok, own, file, minted>>
      /\ world' \in World
  <2>1. Fault("approve") \/ UNCHANGED world
    BY DEF ApproveByHand, HsDelete, SaveDirection, ReadWanted, ReadNodes,
       approve_for, Approved
  <2> QED
    BY <2>1, WorldTyped DEF ApproveByHand, HsDelete, SaveDirection, ReadWanted,
       ReadNodes, approve_for, Approved, Typed, StoredTyped
<1>3. /\ pc[t] \in CallAt => job[t] \in Call
      /\ pc[t] \in WishAt => job[t] \in Wish
      /\ view[t] \in AView /\ NoView \in AView
  BY <1>1, BlankTyped DEF Typed, HeldTyped, SeenTyped
<1> DEFINE v == view[t]
           c == job[t]
<1>4. ASSUME HeldTyped', StoredTyped', SeenTyped',
             \E w \in {pc'[t]} : pc' = [pc EXCEPT ![t] = w],
             \E d \in {job'[t]} : job' = [job EXCEPT ![t] = d]
      PROVE  Typed'
  <2>1. Fetched'
    BY <1>1, <1>2, <1>4, FetchedApart DEF Typed
  <2> QED
    BY <1>2, <1>4, <2>1 DEF Typed, NodesTyped
<1>5. CASE ApproveByHand(t)
  <2>1. c \in Call
    BY <1>3, <1>5 DEF ApproveByHand, CallAt
  <2>2. StoredTyped'
    BY <1>2, <1>5, <2>1 DEF ApproveByHand, Typed, StoredTyped, Call
  <2>3. HeldTyped'
    BY <1>1, <1>5, GoesOn DEF ApproveByHand, Typed
  <2> QED
    BY <1>1, <1>4, <1>5, <2>2, <2>3
    DEF ApproveByHand, Finish, Goto, Typed, SeenTyped, HeldTyped
<1>6. CASE HsDelete(t)
  <2>1. StoredTyped'
    BY <1>2, <1>6 DEF HsDelete, Typed, StoredTyped, Thing
  <2>2. HeldTyped'
    <3>1. c \in Call /\ "ask" \notin WishAt
      BY <1>3, <1>6 DEF HsDelete, CallAt, WishAt
    <3> QED
      BY <1>1, <1>6, <3>1, GoesOn DEF HsDelete, Typed
  <2> QED
    BY <1>1, <1>4, <1>6, <2>1, <2>2
    DEF HsDelete, Goto, Typed, SeenTyped, HeldTyped
<1>7. CASE SaveDirection(t)
  <2>1. c \in Wish /\ "wanted" \notin CallAt
    BY <1>3, <1>7 DEF SaveDirection, WishAt, CallAt
  <2>2. routes_of(c) \in SUBSET Route
    BY <2>1 DEF routes_of, Wish, Thing
  <2>3. StoredTyped'
    BY <1>2, <1>7, <2>2 DEF SaveDirection, Typed, StoredTyped
  <2>4. HeldTyped'
    BY <1>1, <1>7, <2>1, GoesOn DEF SaveDirection, Typed
  <2> QED
    BY <1>1, <1>4, <1>7, <2>3, <2>4
    DEF SaveDirection, Goto, Typed, SeenTyped, HeldTyped
<1>8. CASE ReadWanted(t)
  <2> DEFINE w == [v EXCEPT !.derived = derived]
  <2>1. c \in Wish /\ "nodes" \notin CallAt
    BY <1>3, <1>8 DEF ReadWanted, WishAt, CallAt
  <2>2. w \in AView
    BY <1>3 DEF AView, Typed, StoredTyped
  <2>3. view' = [view EXCEPT ![t] = w]
    BY <1>1, <1>8 DEF ReadWanted, Typed, SeenTyped
  <2> HIDE DEF w
  <2>4. SeenTyped'
    BY <1>1, <2>2, <2>3, SeesTyped DEF Typed
  <2>5. HeldTyped'
    BY <1>1, <1>8, <2>1, GoesOn DEF ReadWanted, Typed
  <2>6. StoredTyped'
    BY <1>2, <1>8 DEF ReadWanted, Typed, StoredTyped
  <2> QED
    BY <1>1, <1>4, <1>8, <2>4, <2>5, <2>6
    DEF ReadWanted, Finish, Goto, Typed, HeldTyped
<1>9. CASE ReadNodes(t)
  <2> DEFINE w == [v EXCEPT !.approved = approved,
                      !.nodes = {n \in hsNodes : v.derived[n] # {}}]
             d == [c EXCEPT !.marks =
                      [n \in Node |-> IF n \in hsNodes THEN v.derived[n] ELSE {}]]
  <2>1. c \in Wish /\ "approve_for" \notin CallAt
    BY <1>3, <1>9 DEF ReadNodes, WishAt, CallAt
  <2>2. w \in AView
    BY <1>3 DEF AView, Typed, StoredTyped
  <2>3. d \in Wish
    BY <1>3, <2>1 DEF AView, Wish
  <2>4. /\ view' = [view EXCEPT ![t] = w] /\ job' = [job EXCEPT ![t] = d]
        /\ pc' = [pc EXCEPT ![t] = "approve_for"]
    BY <1>1, <1>9 DEF ReadNodes, Goto, Typed, SeenTyped, HeldTyped
  <2> HIDE DEF w, d
  <2>5. SeenTyped'
    BY <1>1, <2>2, <2>4, SeesTyped DEF Typed
  <2>6. HeldTyped'
    <3>1. copy' = [copy EXCEPT ![t] = copy[t]] /\ copy[t] \in Blob
      BY <1>1, <1>2 DEF Typed, HeldTyped
    <3> QED
      BY <1>1, <2>1, <2>3, <2>4, <3>1, Goes DEF Typed
  <2>7. StoredTyped'
    BY <1>2, <1>9 DEF ReadNodes, Typed, StoredTyped
  <2> QED
    BY <1>1, <1>4, <2>4, <2>5, <2>6, <2>7 DEF Typed, HeldTyped
<1>10. CASE approve_for(t)
  <2>1. PICK n \in v.nodes :
          LET target == v.approved[n] \cup v.derived[n]
              same == target = v.approved[n]
          IN \/ /\ approved' = IF same THEN approved
                               ELSE [approved EXCEPT ![n] = target]
                /\ view' = [view EXCEPT ![t].nodes = @ \ {n}]
                /\ UNCHANGED <<pc, job>>
             \/ /\ view' = [view EXCEPT ![t] = NoView]
                /\ Finish(t)
                /\ UNCHANGED approved
    BY <1>10 DEF approve_for
  <2>2. UNCHANGED <<derived, hsNodes, avail>>
    BY <1>10 DEF approve_for
  <2>3. n \in Node /\ v.approved[n] \cup v.derived[n] \in SUBSET Thing
    BY <1>3 DEF AView, Thing
  <2>4. StoredTyped'
    BY <1>2, <2>1, <2>2, <2>3 DEF Typed, StoredTyped
  <2>5. HeldTyped'
    <3>1. CASE UNCHANGED <<pc, job>>
      BY <1>2, <3>1 DEF Typed, HeldTyped
    <3>2. CASE Finish(t)
      BY <1>1, <1>2, <3>2, GoesOn DEF Typed
    <3> QED
      BY <2>1, <3>1, <3>2
  <2>6. SeenTyped'
    <3> DEFINE w == [v EXCEPT !.nodes = @ \ {n}]
    <3>1. w \in AView
      BY <1>3 DEF AView
    <3>2. view' = [view EXCEPT ![t] = w] \/ view' = [view EXCEPT ![t] = NoView]
      BY <2>1
    <3> HIDE DEF w
    <3> QED
      BY <1>1, <1>3, <3>1, <3>2, SeesTyped DEF Typed
  <2> QED
    BY <1>1, <1>4, <2>1, <2>4, <2>5, <2>6
    DEF Finish, Goto, Typed, HeldTyped
<1>11. CASE Approved(t)
  <2> DEFINE d == [c EXCEPT !.op = "record"]
  <2>1. c \in Wish
    BY <1>3, <1>11 DEF Approved, WishAt
  <2>2. d \in Call
    BY <2>1 DEF Wish, Call
  <2>3. Finish(t) \/ Ask(t, d)
    BY <1>11 DEF Approved
  <2> HIDE DEF d
  <2>4. HeldTyped'
    BY <1>1, <1>2, <2>2, <2>3, GoesOn DEF Typed
  <2>5. SeenTyped'
    BY <1>1, <1>3, <1>11, SeesTyped DEF Approved, Typed
  <2>6. StoredTyped'
    BY <1>2, <1>11 DEF Approved, Typed, StoredTyped
  <2> QED
    BY <1>1, <1>4, <2>3, <2>4, <2>5, <2>6
    DEF Finish, Ask, Goto, Typed, HeldTyped
<1> QED
  BY <1>5, <1>6, <1>7, <1>8, <1>9, <1>10, <1>11

LEMMA CollectorTyped ==
    ASSUME Typed, Collect \/ ReadAgents \/ ReadDerived \/ AutoApprove \/ Collected
    PROVE  Typed'
<1> USE DEF panel, headscale, history, node
<1> DEFINE p == Collector
           v == view[p]
<1>1. p \in Proc \ Node /\ p \in Proc /\ p \in Viewer
  BY AgentsAssumption DEF Proc, Viewer
<1>2. /\ UNCHANGED <<agents, derived, copy, hsNodes, avail, got, tok, own, file, minted>>
      /\ world' \in World
  <2>1. Fault("approve") \/ UNCHANGED world
    BY DEF Collect, ReadAgents, ReadDerived, AutoApprove, Collected
  <2> QED
    BY <2>1, WorldTyped DEF Collect, ReadAgents, ReadDerived, AutoApprove,
       Collected, Typed, StoredTyped
<1>3. /\ v \in AView /\ NoView \in AView /\ agents \in Blob
      /\ derived \in [Node -> SUBSET Route] /\ hsNodes \in SUBSET Node
      /\ avail \in [Node -> SUBSET Thing] /\ approved \in [Node -> SUBSET Thing]
  BY <1>1, BlankTyped DEF Typed, StoredTyped, SeenTyped
<1>4. ASSUME approved' = approved, NEW w \in AView,
             view' = [view EXCEPT ![p] = w],
             \/ UNCHANGED job /\ \E where \in {"agents", "routing", "next"} :
                                     Goto(p, where)
             \/ Finish(p)
      PROVE  Typed'
  <2>1. HeldTyped'
    <3>1. ASSUME UNCHANGED job, NEW where \in {"agents", "routing", "next"},
                 Goto(p, where)
          PROVE  HeldTyped'
      <4>1. where \notin CallAt /\ where \notin WishAt
        BY DEF CallAt, WishAt
      <4> QED
        BY <1>1, <1>2, <3>1, <4>1, GoesOn DEF Typed
    <3>2. CASE Finish(p)
      BY <1>1, <1>2, <3>2, GoesOn DEF Typed
    <3> QED
      BY <1>4, <3>1, <3>2
  <2>2. Fetched'
    <3>1. ASSUME UNCHANGED job, NEW where, Goto(p, where) PROVE Fetched'
      BY <1>1, <1>2, <3>1, FetchedApart DEF Goto, Typed
    <3>2. CASE Finish(p)
      BY <1>1, <1>2, <3>2, FetchedApart DEF Finish, Goto, Typed
    <3> QED
      BY <1>4, <3>1, <3>2
  <2>3. SeenTyped'
    BY <1>1, <1>4, SeesTyped DEF Typed
  <2> QED
    BY <1>2, <1>4, <2>1, <2>2, <2>3 DEF Typed, StoredTyped, NodesTyped
<1>5. CASE Collect
  <2> DEFINE w == [NoView EXCEPT !.nodes = hsNodes, !.avail = avail,
                                 !.approved = approved]
  <2>1. w \in AView
    BY <1>3 DEF AView
  <2>2. view' = [view EXCEPT ![p] = w]
    BY <1>5 DEF Collect
  <2> HIDE DEF w
  <2> QED
    BY <1>4, <1>5, <2>1, <2>2 DEF Collect
<1>6. CASE ReadAgents
  <2> DEFINE w == [v EXCEPT !.agents = agents]
  <2>1. w \in AView
    BY <1>3 DEF AView
  <2>2. view' = [view EXCEPT ![p] = w]
    BY <1>6 DEF ReadAgents
  <2> HIDE DEF w
  <2> QED
    BY <1>4, <1>6, <2>1, <2>2 DEF ReadAgents
<1>7. CASE ReadDerived
  <2> DEFINE w == [v EXCEPT !.derived = derived,
                            !.nodes = {n \in v.nodes : v.agents[n].here}]
  <2>1. w \in AView
    BY <1>3 DEF AView
  <2>2. [v EXCEPT !.derived = derived].nodes = v.nodes
    BY <1>3 DEF AView
  <2>3. view' = [view EXCEPT ![p] = w]
    BY <1>1, <1>7, <2>2 DEF ReadDerived, Typed, SeenTyped
  <2> HIDE DEF w
  <2> QED
    BY <1>4, <1>7, <2>1, <2>3 DEF ReadDerived
<1>8. CASE Collected
  BY <1>3, <1>4, <1>8 DEF Collected
<1>9. CASE AutoApprove
  <2>1. PICK n \in v.nodes :
          LET target == target_in(v, n)
              mine == (v.agents[n].mine \cup ours_in(v, n)) \ stale_in(v, n)
              same == target = v.approved[n]
          IN \/ /\ approved' = IF same THEN approved
                               ELSE [approved EXCEPT ![n] = target]
                /\ view' = [view EXCEPT ![p].nodes = @ \ {n}]
                /\ IF mine = v.agents[n].mine THEN UNCHANGED <<pc, job>>
                   ELSE Ask(p, [aCall("mine", n) EXCEPT !.things = mine])
             \/ /\ view' = [view EXCEPT ![p] = NoView]
                /\ Finish(p)
                /\ UNCHANGED approved
    BY <1>9 DEF AutoApprove
  <2> DEFINE mine == (v.agents[n].mine \cup ours_in(v, n)) \ stale_in(v, n)
             c0 == aCall("mine", n)
             c == [c0 EXCEPT !.things = mine]
             target == target_in(v, n)
             w == [v EXCEPT !.nodes = @ \ {n}]
  <2>2. n \in Node /\ v.agents[n] \in Entry
    BY <1>3 DEF AView, Blob
  <2>3. target \in SUBSET Thing /\ mine \in SUBSET Thing
    BY <1>3, <2>2 DEF target_in, ours_in, stale_in, AView, Entry
  <2>4. c0 \in Call /\ c0.op = "mine"
    BY <2>2, BlankCall DEF CallOp
  <2>5. /\ \/ UNCHANGED <<pc, job>> \/ Ask(p, c) \/ Finish(p)
        /\ approved' = approved \/ approved' = [approved EXCEPT ![n] = target]
        /\ view' = [view EXCEPT ![p] = w] \/ view' = [view EXCEPT ![p] = NoView]
    BY <2>1
  <2>6. w \in AView
    BY <1>3 DEF AView
  <2> HIDE DEF w, mine, c0, target
  <2>7. c \in Call
    BY <2>3, <2>4 DEF Call
  <2> HIDE DEF c
  <2>8. HeldTyped'
    <3>1. CASE UNCHANGED <<pc, job>>
      BY <1>2, <3>1 DEF Typed, HeldTyped
    <3>2. CASE Ask(p, c) \/ Finish(p)
      BY <1>1, <1>2, <2>7, <3>2, GoesOn DEF Typed
    <3> QED
      BY <2>5, <3>1, <3>2
  <2>9. StoredTyped'
    BY <1>2, <1>3, <2>2, <2>3, <2>5 DEF Typed, StoredTyped
  <2>10. SeenTyped'
    BY <1>1, <1>3, <2>5, <2>6, SeesTyped DEF Typed
  <2>11. Fetched'
    <3>1. CASE UNCHANGED <<pc, job>>
      BY <1>2, <3>1 DEF Typed, Fetched, Following
    <3>2. CASE Ask(p, c) \/ Finish(p)
      BY <1>1, <1>2, <3>2, FetchedApart DEF Ask, Finish, Goto, Typed
    <3> QED
      BY <2>5, <3>1, <3>2
  <2> QED
    BY <1>2, <2>8, <2>9, <2>10, <2>11 DEF Typed, NodesTyped
<1> QED
  BY <1>5, <1>6, <1>7, <1>8, <1>9

(* A node that follows an answer has it.                                   *)
LEMMA AgentTyped ==
    ASSUME Typed, NEW n \in Node,
           \/ Poll(n) \/ Serve(n) \/ Update(n) \/ UpdateFails(n) \/ Apply(n)
           \/ SaveState(n) \/ SetFails(n) \/ Report(n)
           \/ Install(n) \/ AnnounceByHand(n)
    PROVE  Typed'
<1> USE DEF panel, headscale, history, node
<1>1. n \in Proc
  BY DEF Proc
<1>2. /\ UNCHANGED <<agents, derived, copy, view, hsNodes, approved, minted>>
      /\ world' \in World
  <2>1. \/ \E k \in FaultKind : Fault(k)
        \/ UNCHANGED world
        \/ world.left > 0 /\ world' = [world EXCEPT !.left = @ - 1]
    BY DEF Poll, Serve, Update, UpdateFails, Apply, SaveState, SetFails, Report,
       Install, AnnounceByHand, FaultKind
  <2> QED
    BY <2>1, WorldTyped DEF Poll, Serve, Update, UpdateFails, Apply, SaveState,
       SetFails, Report, Install, AnnounceByHand, Typed, StoredTyped
<1>3. /\ agents \in Blob /\ derived \in [Node -> SUBSET Route]
      /\ avail \in [Node -> SUBSET Thing]
      /\ tok[n] \in Nat /\ own[n] \in 0..Release /\ file[n] \in Body \cup {NoBody}
      /\ got[n] \in [body : Body \cup {NoBody}, order : 0..Release]
      /\ pc[n] \in StateAt => got[n].body \in Body
      /\ Nothing \in [body : Body \cup {NoBody}, order : 0..Release]
      /\ NoBody \in Body \cup {NoBody} /\ Release \in 0..Release
  BY BlobAssumption DEF Typed, StoredTyped, NodesTyped, Fetched, Following,
     Nothing
<1>4. /\ \A m \in Node \ {n} : pc'[m] = pc[m] /\ job'[m] = job[m] /\ got'[m] = got[m]
  BY <1>1 DEF Poll, Serve, Update, UpdateFails, Apply, SaveState, SetFails,
     Report, Install, AnnounceByHand, Goto, Ask, Forget, Typed, HeldTyped,
     NodesTyped, Proc
<1>5. StoredTyped'
  <2>1. \A b \in Body : announced_by(b) \in SUBSET Thing
    BY AnnouncedTyped DEF Body
  <2>2. Apply(n) => announced_by(got[n].body) \in SUBSET Thing
    BY <1>3, <2>1 DEF Apply, StateAt
  <2>3. avail' \in [Node -> SUBSET Thing]
    BY <1>3, <2>2 DEF Poll, Serve, Update, UpdateFails, Apply, SaveState,
       SetFails, Report, Install, AnnounceByHand
  <2> QED
    BY <1>2, <2>3 DEF Typed, StoredTyped
<1>6. ASSUME NEW c \in Call, Ask(n, c) PROVE HeldTyped'
  BY <1>1, <1>2, <1>6, GoesOn DEF Typed
<1>7. ASSUME UNCHANGED job, NEW where, Goto(n, where),
             where \notin CallAt, where \notin WishAt
      PROVE  HeldTyped'
  BY <1>1, <1>2, <1>7, GoesOn DEF Typed
<1>8. CASE Poll(n)
  <2>1. PICK m \in owner(agents, tok[n]) :
          /\ got' = [got EXCEPT ![n] = [body |-> body_of(agents[m], {}),
                                        order |-> agents[m].order]]
          /\ Ask(n, [aCall("touch", m) EXCEPT !.token = tok[n]])
    BY <1>8 DEF Poll
  <2>2. m \in Node /\ agents[m] \in Entry
    BY <1>3 DEF owner, Blob
  <2>3. body_of(agents[m], {}) \in Body /\ agents[m].order \in 0..Release
    BY <2>2 DEF body_of, Body, Entry
  <2> DEFINE c0 == aCall("touch", m)
             c == [c0 EXCEPT !.token = tok[n]]
             g == [body |-> body_of(agents[m], {}), order |-> agents[m].order]
  <2>4. c0 \in Call
    BY <2>2, BlankCall DEF CallOp
  <2>5. g \in [body : Body \cup {NoBody}, order : 0..Release] /\ g.body \in Body
    BY <2>3
  <2>6. got' = [got EXCEPT ![n] = g] /\ Ask(n, c)
    BY <2>1
  <2> HIDE DEF c0, g
  <2>7. c \in Call
    BY <1>3, <2>4 DEF Call
  <2> HIDE DEF c
  <2>8. HeldTyped'
    BY <1>6, <2>6, <2>7
  <2>9. NodesTyped' /\ got'[n].body \in Body
    BY <1>8, <2>5, <2>6 DEF Poll, Typed, NodesTyped
  <2>10. Fetched'
    BY <1>4, <2>9 DEF Typed, Fetched, Following
  <2> QED
    BY <1>2, <1>5, <2>8, <2>9, <2>10 DEF Typed, SeenTyped
<1>9. CASE Serve(n)
  <2>1. got[n].body \in Body /\ derived[n] \in SUBSET Route
    BY <1>3, <1>9 DEF Serve, StateAt
  <2> DEFINE g == [got[n] EXCEPT !.body.routes = @ \cup derived[n]]
  <2>2. /\ g \in [body : Body \cup {NoBody}, order : 0..Release]
        /\ g.body \in Body
    BY <1>3, <2>1 DEF Body
  <2>3. got' = [got EXCEPT ![n] = g]
    BY <1>9 DEF Serve, Typed, NodesTyped
  <2> HIDE DEF g
  <2>4. NodesTyped' /\ got'[n].body \in Body
    BY <1>9, <2>2, <2>3 DEF Serve, Typed, NodesTyped
  <2>5. HeldTyped'
    BY <1>7, <1>9 DEF Serve, CallAt, WishAt
  <2>6. Fetched'
    BY <1>4, <2>4 DEF Typed, Fetched, Following
  <2> QED
    BY <1>2, <1>5, <2>4, <2>5, <2>6 DEF Typed, SeenTyped
<1>10. CASE Update(n) \/ UpdateFails(n) \/ Apply(n) \/ SaveState(n) \/ SetFails(n)
  <2>1. pc[n] \in StateAt
    BY <1>10 DEF Update, UpdateFails, Apply, SaveState, SetFails, StateAt
  <2>2. HeldTyped'
    <3>1. \A w \in {"idle", "apply", "half", "report"} :
             w \notin CallAt /\ w \notin WishAt
      BY DEF CallAt, WishAt
    <3>2. UNCHANGED job /\ \E w \in {"idle", "apply", "half", "report"} : Goto(n, w)
      BY <1>10 DEF Update, UpdateFails, Apply, SaveState, SetFails
    <3> QED
      BY <1>7, <3>1, <3>2
  <2>3. NodesTyped'
    BY <1>3, <1>10, <2>1
    DEF Update, UpdateFails, Apply, SaveState, SetFails, Forget, Typed, NodesTyped
  <2>4. pc'[n] \in {"idle", "report"} \/ got' = got
    BY <1>1, <1>10 DEF Update, UpdateFails, Apply, SaveState, SetFails, Goto,
       Typed, HeldTyped
  <2>5. pc'[n] \in {"idle", "report", "apply", "half"}
    BY <1>1, <1>10 DEF Update, UpdateFails, Apply, SaveState, SetFails, Goto,
       Typed, HeldTyped
  <2>6. Fetched'
    BY <1>3, <1>4, <2>1, <2>4, <2>5 DEF Typed, Fetched, Following, StateAt, Busy
  <2> QED
    BY <1>2, <1>5, <2>2, <2>3, <2>6 DEF Typed, SeenTyped
<1>11. CASE Report(n)
  <2> DEFINE c0 == aCall("applied", n)
             c == [c0 EXCEPT !.token = tok[n], !.body = file[n], !.release = own[n]]
  <2>1. c0 \in Call /\ c0.op = "applied"
    BY BlankCall DEF CallOp
  <2>2. Ask(n, c) \/ (Goto(n, "idle") /\ UNCHANGED job)
    BY <1>11 DEF Report
  <2> HIDE DEF c0
  <2>3. c \in Call /\ c.op = "applied"
    BY <1>3, <2>1 DEF Call
  <2> HIDE DEF c
  <2>4. HeldTyped'
    BY <1>6, <1>7, <2>2, <2>3 DEF CallAt, WishAt
  <2>5. NodesTyped'
    BY <1>3, <1>11 DEF Report, Forget, Typed, NodesTyped
  <2>6. pc'[n] = "idle" \/ (pc'[n] = "ask" /\ job'[n] = c)
    BY <1>1, <2>2 DEF Goto, Ask, Typed, HeldTyped
  <2>7. Fetched'
    BY <1>4, <2>3, <2>6 DEF Typed, Fetched, Following, StateAt, Busy
  <2> QED
    BY <1>2, <1>5, <2>4, <2>5, <2>7 DEF Typed, SeenTyped
<1>12. CASE Install(n) \/ AnnounceByHand(n)
  <2>1. UNCHANGED <<pc, job, got>>
    BY <1>12 DEF Install, AnnounceByHand
  <2>2. agents[n].token \in Nat
    BY <1>3 DEF Blob, Entry
  <2>3. NodesTyped'
    <3>1. CASE Install(n)
      <4>1. /\ tok' = [tok EXCEPT ![n] = agents[n].token]
            /\ own' = [own EXCEPT ![n] = Release]
            /\ file' = [file EXCEPT ![n] = NoBody]
        BY <3>1 DEF Install
      <4> QED
        BY <1>3, <2>1, <2>2, <4>1 DEF Typed, NodesTyped
    <3>2. CASE AnnounceByHand(n)
      BY <3>2 DEF AnnounceByHand, Typed, NodesTyped
    <3> QED
      BY <1>12, <3>1, <3>2
  <2> QED
    BY <1>2, <1>5, <2>1, <2>3 DEF Typed, SeenTyped, HeldTyped, Fetched, Following
<1> QED
  BY <1>8, <1>9, <1>10, <1>11, <1>12

LEMMA TypeStep == ASSUME Typed, [Next]_vars PROVE Typed'
<1>1. CASE UNCHANGED vars
  BY <1>1 DEF vars, Typed, StoredTyped, HeldTyped, SeenTyped, NodesTyped,
     Fetched, Following
<1>2. ASSUME NEW t \in Task, Arrive(t) \/ Request_steps(t) PROVE Typed'
  BY <1>2, ArriveTyped, CallsTyped, TaskTyped DEF Request_steps, Proc
<1>3. CASE Collector_steps
  BY <1>3, CallsTyped, CollectorTyped DEF Collector_steps, Proc
<1>4. ASSUME NEW n \in Node,
             \/ Agent_steps(n) \/ Update(n) \/ SetFails(n)
             \/ Install(n) \/ AnnounceByHand(n)
      PROVE  Typed'
  BY <1>4, CallsTyped, AgentTyped DEF Agent_steps, Proc
<1>5. CASE Restart
  <2> USE DEF headscale, node
  <2>1. /\ UNCHANGED <<agents, derived, hsNodes, avail, approved, minted, tok, own,
                       file>>
        /\ world' \in World
    BY <1>5, WorldTyped DEF Restart, Typed, StoredTyped
  <2>2. \A p \in Proc : pc'[p] \in {"update", "apply", "half", "report", "idle"}
                        /\ (pc'[p] = "idle" \/ pc'[p] = pc[p])
    BY <1>5 DEF Restart
  <2>3. HeldTyped'
    BY <1>5, <2>2, BlankTyped DEF Restart, HeldTyped, CallAt, WishAt
  <2>4. SeenTyped'
    BY <1>5, BlankTyped DEF Restart, SeenTyped, Viewer
  <2>5. NodesTyped'
    BY <1>5, <2>1, BlobAssumption DEF Restart, Typed, NodesTyped, Nothing
  <2>6. Fetched'
    BY <1>5, <2>2 DEF Restart, Typed, Fetched, Following, StateAt, Busy, Proc
  <2> QED
    BY <2>1, <2>3, <2>4, <2>5, <2>6 DEF Typed, StoredTyped
<1> QED
  BY <1>1, <1>2, <1>3, <1>4, <1>5 DEF Next

(* --- the lock --------------------------------------------------------------- *)

Writing(p) == pc[p] = "looked" /\ Locked(p)

(* Whoever has read under the lock holds it, and nobody else; only its call *)
(* can be spoilt, and unless it is, what it has read is what is stored.     *)
Locking ==
    /\ lock \in Proc \cup {NoTask}
    /\ \A p \in Proc : Writing(p) <=> lock = p
    /\ mixed \subseteq {lock} \ {NoTask}
    /\ lock \in Proc /\ lock \notin mixed => copy[lock] = agents

(* What a step is to the blob: a call reads or writes, a process asks for a *)
(* call, a process that has none goes elsewhere, everything stops.          *)
Apart == UNCHANGED <<agents, lock, mixed, copy>>

Elsewhere(p) ==
    /\ Apart /\ pc[p] \notin Busy /\ pc'[p] # "looked"
    /\ \A q \in Proc \ {p} : pc'[q] = pc[q] /\ job'[q] = job[q]

StepKinds ==
    \/ \E p \in Proc : Calls(p) \/ Elsewhere(p)
    \/ Apart /\ UNCHANGED <<pc, job>>
    \/ Restart

LEMMA Kinds == ASSUME Typed, [Next]_vars PROVE StepKinds
<1> USE DEF panel, headscale, history, node
<1>1. CASE UNCHANGED vars
  BY <1>1 DEF vars, StepKinds, Apart
<1>2. ASSUME Apart, NEW p \in Proc, pc[p] \notin Busy,
             NEW where, NEW c, where # "looked",
             pc' = [pc EXCEPT ![p] = where],
             job' = [job EXCEPT ![p] = c] \/ UNCHANGED job
      PROVE  StepKinds
  BY <1>2 DEF Typed, HeldTyped, Elsewhere, StepKinds
<1>3. ASSUME Apart, NEW p \in Proc, pc[p] \notin Busy,
             \/ Finish(p)
             \/ UNCHANGED job /\ \E w \in StateAt \cup WishAt \cup
                     {"ask", "agents", "routing", "next", "report", "idle"} :
                        Goto(p, w)
             \/ UNCHANGED <<pc, job>>
      PROVE  StepKinds
  <2>1. CASE Finish(p)
    BY <1>2, <1>3, <2>1 DEF Finish, Goto
  <2>2. ASSUME UNCHANGED job,
               NEW w \in StateAt \cup WishAt \cup
                     {"ask", "agents", "routing", "next", "report", "idle"},
               Goto(p, w)
        PROVE  StepKinds
    BY <1>2, <1>3, <2>2 DEF Goto, StateAt, WishAt
  <2>3. CASE UNCHANGED <<pc, job>>
    BY <1>3, <2>3 DEF StepKinds
  <2> QED
    BY <1>3, <2>1, <2>2, <2>3
<1>4. ASSUME Apart, NEW p \in Proc, pc[p] \notin Busy, NEW c, Ask(p, c)
      PROVE  StepKinds
  BY <1>2, <1>4 DEF Ask, Goto
<1>5. ASSUME NEW t \in Task, Arrive(t) \/ Request_steps(t) PROVE StepKinds
  <2>1. t \in Proc
    BY DEF Proc
  <2>2. CASE Arrive(t)
    <3> PICK r \in world.requests[t] :
          /\ pc' = [pc EXCEPT ![t] = start_of(r.op)]
          /\ job' = [job EXCEPT ![t] =
                [aCall(r.op, r.node) EXCEPT !.things = r.things,
                    !.exit = r.exit, !.via = r.via,
                    !.token = IF r.op \in Mints THEN minted + 1 ELSE 0]]
      BY <2>2 DEF Arrive
    <3> DEFINE where == start_of(r.op)
    <3>1. where # "looked"
      BY DEF start_of
    <3>2. pc[t] \notin Busy /\ Apart
      BY <2>2 DEF Arrive, MayStart, Busy, Apart
    <3> HIDE DEF where
    <3> QED
      BY <1>2, <2>1, <3>1, <3>2 DEF where
  <2>3. CASE Calls(t)
    BY <2>1, <2>3 DEF StepKinds
  <2>4. CASE ApproveByHand(t) \/ HsDelete(t) \/ SaveDirection(t)
             \/ ReadWanted(t) \/ approve_for(t)
    <3>1. Apart /\ pc[t] \notin Busy
      BY <2>4 DEF ApproveByHand, HsDelete, SaveDirection, ReadWanted,
         approve_for, Apart, Busy
    <3> QED
      BY <1>3, <2>1, <2>4, <3>1 DEF ApproveByHand, HsDelete, SaveDirection,
         ReadWanted, approve_for, WishAt
  <2>5. CASE ReadNodes(t)
    <3>1. /\ Apart /\ pc[t] \notin Busy
          /\ pc' = [pc EXCEPT ![t] = "approve_for"]
          /\ job' = [job EXCEPT ![t] = job'[t]]
      BY <2>1, <2>5 DEF ReadNodes, Apart, Busy, Goto, Typed, HeldTyped
    <3> QED
      BY <1>2, <2>1, <3>1
  <2>6. CASE Approved(t)
    <3>1. Apart /\ pc[t] \notin Busy
      BY <2>6 DEF Approved, Apart, Busy
    <3> QED
      BY <1>3, <1>4, <2>1, <2>6, <3>1 DEF Approved
  <2> QED
    BY <1>5, <2>2, <2>3, <2>4, <2>5, <2>6 DEF Request_steps
<1>6. CASE Collector_steps
  <2>1. Collector \in Proc
    BY DEF Proc
  <2>2. CASE Calls(Collector)
    BY <2>1, <2>2 DEF StepKinds
  <2>3. CASE Collect \/ ReadAgents \/ ReadDerived \/ Collected
    <3>1. Apart /\ pc[Collector] \notin Busy
      BY <2>3 DEF Collect, ReadAgents, ReadDerived, Collected, Apart, Busy,
         MayStart
    <3> QED
      BY <1>3, <2>1, <2>3, <3>1 DEF Collect, ReadAgents, ReadDerived, Collected
  <2>4. CASE AutoApprove
    <3>1. Apart /\ pc[Collector] \notin Busy
      BY <2>4 DEF AutoApprove, Apart, Busy
    <3> QED
      BY <1>3, <1>4, <2>1, <2>4, <3>1 DEF AutoApprove
  <2> QED
    BY <1>6, <2>2, <2>3, <2>4 DEF Collector_steps
<1>7. ASSUME NEW n \in Node,
             \/ Agent_steps(n) \/ Update(n) \/ SetFails(n)
             \/ Install(n) \/ AnnounceByHand(n)
      PROVE  StepKinds
  <2>1. n \in Proc
    BY DEF Proc
  <2>2. CASE Calls(n)
    BY <2>1, <2>2 DEF StepKinds
  <2>3. CASE Install(n) \/ AnnounceByHand(n)
    BY <2>3 DEF Install, AnnounceByHand, StepKinds, Apart
  <2>4. CASE Poll(n) \/ Report(n)
    <3>1. Apart /\ pc[n] \notin Busy
      BY <2>4 DEF Poll, Report, Apart, Busy, MayStart
    <3> QED
      BY <1>3, <1>4, <2>1, <2>4, <3>1 DEF Poll, Report
  <2>5. CASE Serve(n) \/ Update(n) \/ UpdateFails(n) \/ Apply(n) \/ SaveState(n)
             \/ SetFails(n)
    <3>1. Apart /\ pc[n] \notin Busy /\ UNCHANGED job
      BY <2>5 DEF Serve, Update, UpdateFails, Apply, SaveState, SetFails, Apart, Busy
    <3>2. \E w \in {"update", "apply", "idle", "half", "report"} : Goto(n, w)
      BY <2>5 DEF Serve, Update, UpdateFails, Apply, SaveState, SetFails
    <3> QED
      BY <1>3, <2>1, <3>1, <3>2 DEF StateAt
  <2> QED
    BY <1>7, <2>2, <2>3, <2>4, <2>5 DEF Agent_steps
<1>8. CASE Restart
  BY <1>8 DEF StepKinds
<1> QED
  BY <1>1, <1>5, <1>6, <1>7, <1>8 DEF Next

LEMMA LockInit == ASSUME Init PROVE Locking
<1>1. NoTask \notin Proc
  BY AgentsAssumption
<1> QED
  BY <1>1 DEF Init, Locking, Writing

LEMMA LockStep == ASSUME Typed, Locking, [Next]_vars PROVE Locking'
<1> USE DEF headscale, history, node, panel
<1>1. NoTask \notin Proc
  BY AgentsAssumption
<1>2. ASSUME NEW p \in Proc, Elsewhere(p) PROVE Locking'
  <2>1. Apart
    BY <1>2 DEF Elsewhere
  <2>2. \A q \in Proc : Writing(q)' <=> Writing(q)
    BY <1>2 DEF Elsewhere, Writing, Locked, Busy
  <2> QED
    BY <2>1, <2>2 DEF Apart, Locking
<1>3. CASE Apart /\ UNCHANGED <<pc, job>>
  BY <1>3 DEF Apart, Locking, Writing, Locked
<1>4. ASSUME NEW p \in Proc, Calls(p) PROVE Locking'
  <2>1. \A q \in Proc \ {p} : pc'[q] = pc[q] /\ job'[q] = job[q]
    BY <1>4 DEF Calls, Look, Store, Answered, Finish, Goto, Typed, HeldTyped
  <2>2. \A q \in Proc \ {p} : Writing(q)' <=> Writing(q)
    BY <2>1 DEF Writing, Locked
  <2>3. /\ after(p) # "looked"
        /\ Answered(p) => pc'[p] # "looked"
        /\ Finish(p) => pc'[p] # "looked"
    BY DEF after, Answered, Finish, Goto, Typed, HeldTyped
  <2>4. CASE Look(p)
    <3>1. /\ pc[p] = "ask" /\ (Locked(p) => lock = NoTask)
          /\ UNCHANGED <<agents, mixed>>
      BY <2>4 DEF Look
    <3>2. ~ Writing(p) /\ lock # p
      BY <3>1 DEF Writing, Locking
    <3>3. CASE UNCHANGED lock /\ (Answered(p) \/ (Finish(p) /\ UNCHANGED copy))
      <4>1. ~ Writing(p)' /\ \A q \in Proc \ {p} : copy'[q] = copy[q]
        BY <2>3, <3>3 DEF Writing, Answered, Typed, HeldTyped
      <4> QED
        BY <2>2, <3>1, <3>2, <3>3, <4>1 DEF Locking
    <3>4. CASE /\ copy' = [copy EXCEPT ![p] = agents] /\ Goto(p, "looked")
               /\ lock' = IF Locked(p) THEN p ELSE lock
               /\ UNCHANGED job
      <4>1. /\ Writing(p)' <=> Locked(p)
            /\ copy'[p] = agents /\ \A q \in Proc \ {p} : copy'[q] = copy[q]
        BY <3>4 DEF Writing, Locked, Goto, Typed, HeldTyped
      <4>2. CASE Locked(p)
        <5>1. lock = NoTask /\ mixed = {} /\ lock' = p
          BY <3>1, <3>4, <4>2 DEF Locking
        <5>2. \A q \in Proc \ {p} : ~ Writing(q)
          BY <1>1, <5>1 DEF Locking
        <5> QED
          BY <2>2, <3>1, <4>1, <4>2, <5>1, <5>2 DEF Locking
      <4>3. CASE ~ Locked(p)
        BY <2>2, <3>1, <3>2, <3>4, <4>1, <4>3 DEF Locking
      <4> QED
        BY <4>2, <4>3
    <3> QED
      BY <2>4, <3>3, <3>4 DEF Look
  <2>5. CASE Store(p)
    <3>1. ~ Writing(p)'
      BY <2>3, <2>5 DEF Store, Writing
    <3>2. CASE Locked(p)
      <4>1. lock = p /\ lock' = NoTask /\ mixed' = {}
        BY <2>5, <3>2 DEF Store, Writing, Locking
      <4> QED
        BY <1>1, <2>2, <3>1, <4>1 DEF Locking
    <3>3. CASE ~ Locked(p)
      <4>1. /\ lock # p /\ lock' = lock
            /\ mixed' = {lock} \ {NoTask}
        BY <2>5, <3>3 DEF Store, Writing, Locking
      <4> QED
        BY <1>1, <2>2, <3>1, <4>1 DEF Locking
    <3> QED
      BY <3>2, <3>3
  <2> QED
    BY <1>4, <2>4, <2>5 DEF Calls
<1>5. CASE Restart
  <2>1. lock' = NoTask /\ mixed' = {} /\ \A p \in Proc : pc'[p] # "looked"
    BY <1>5 DEF Restart
  <2> QED
    BY <1>1, <2>1 DEF Locking, Writing
<1> QED
  BY <1>2, <1>3, <1>4, <1>5, Kinds DEF StepKinds

(* --- what the lock promises ------------------------------------------------- *)

Pending == [p \in Proc |-> IF pc[p] \in {"ask", "looked"} THEN job[p] ELSE NoCall]

(* A call that is over is not pending.                                     *)
LEMMA Answering ==
    ASSUME Typed, NEW p \in Proc, pc[p] \in Busy, Answered(p) \/ Finish(p)
    PROVE  /\ Pending[p] = job[p] /\ job[p] \in Call /\ Pending[p] # NoCall
           /\ Pending' = [Pending EXCEPT ![p] = NoCall]
<1>1. job[p] \in Call /\ NoCall \notin Call
  BY AgentsAssumption DEF Typed, HeldTyped, CallAt, Busy
<1>2. /\ \A q \in Proc \ {p} : pc'[q] = pc[q] /\ job'[q] = job[q]
      /\ pc'[p] \notin Busy
  BY DEF Answered, Finish, Goto, after, Typed, HeldTyped, Busy
<1> QED
  BY <1>1, <1>2 DEF Pending, Busy

(* AgentStore speaks of the same calls and entries.                        *)
LEMMA SameBlob ==
    /\ Atomic!Blob = Blob /\ Atomic!Call = Call /\ Atomic!serialized = serialized
    /\ \A b, c : Atomic!Effect(b, c) = Effect(b, c)
<1>1. Atomic!Blob = Blob /\ Atomic!Call = Call /\ Atomic!serialized = serialized
  BY DEF Atomic!Blob, Blob, Atomic!Entry, Entry, Atomic!Call, Call,
     Atomic!serialized, serialized, Atomic!Thing, Thing, Atomic!Body, Body
<1>2. Atomic!Blank = Blank
  BY DEF Atomic!Blank, Blank
<1>3. \A b, c : Atomic!touched(b, c) = touched(b, c)
  BY DEF Atomic!touched, touched, Atomic!outdated, outdated, Atomic!owner, owner,
     Atomic!same_report, same_report, Atomic!dropped, dropped
<1>4. \A n, e, c : Atomic!changed(n, e, c) = changed(n, e, c)
  BY <1>2 DEF Atomic!changed, changed, Atomic!with_token, with_token,
     Atomic!put_agent, put_agent, Atomic!routes_of, routes_of,
     Atomic!reissue_agent_token, reissue_agent_token,
     Atomic!mark_agent_applied, mark_agent_applied, Atomic!untick, untick,
     Atomic!dropped, dropped
<1>5. \A b, c : Atomic!Effect(b, c) = Effect(b, c)
  BY <1>3, <1>4 DEF Atomic!Effect, Effect
<1> QED
  BY <1>1, <1>5

LEMMA StoreStep ==
    ASSUME Typed, Typed', Locking, [Next]_vars
    PROVE  Atomic!Next \/ UNCHANGED <<agents, Pending, mixed>>
<1> USE DEF headscale, history, node, panel
<1>1. NoTask \notin Proc /\ NoCall \notin Call
  BY AgentsAssumption
<1>2. ASSUME NEW p \in Proc, Elsewhere(p)
      PROVE  Atomic!Next \/ UNCHANGED <<agents, Pending, mixed>>
  <2>1. /\ UNCHANGED <<agents, mixed>>
        /\ \A q \in Proc \ {p} : Pending'[q] = Pending[q]
        /\ Pending[p] = NoCall
    BY <1>2 DEF Elsewhere, Apart, Pending, Busy
  <2>2. CASE pc'[p] = "ask"
    <3>1. Pending'[p] = job'[p] /\ job'[p] \in Call
      BY <2>2 DEF Pending, Typed, HeldTyped, CallAt
    <3>2. Pending' = [Pending EXCEPT ![p] = Pending'[p]]
      BY <2>1 DEF Pending
    <3>3. Atomic!Ask(p)
      BY <2>1, <3>1, <3>2, SameBlob DEF Atomic!Ask, Pending
    <3> QED
      BY <3>3 DEF Atomic!Next
  <2>3. CASE pc'[p] # "ask"
    <3>1. Pending'[p] = Pending[p]
      BY <1>2, <2>1, <2>3 DEF Pending, Elsewhere
    <3> QED
      BY <2>1, <3>1 DEF Pending
  <2> QED
    BY <2>2, <2>3
<1>3. ASSUME NEW p \in Proc, Look(p)
      PROVE  Atomic!Next \/ UNCHANGED <<agents, Pending, mixed>>
  <2>1. /\ pc[p] = "ask" /\ pc[p] \in Busy
        /\ Locked(p) => lock = NoTask
        /\ UNCHANGED <<agents, mixed>>
    BY <1>3 DEF Look, Busy
  <2>2. p \notin mixed
    BY <2>1 DEF Locking, Writing
  <2>3. CASE Finish(p) /\ (unknown_node(job[p]) \/ from_directions(job[p]))
    <3>1. /\ Pending[p] # NoCall /\ Pending[p] = job[p]
          /\ Pending' = [Pending EXCEPT ![p] = NoCall]
      BY <2>1, <2>3, Answering
    <3>2. CASE unknown_node(job[p])
      <4>1. job[p].op \notin serialized
        BY <3>2 DEF unknown_node, serialized
      <4>2. Atomic!Scribble(p)
        BY <2>1, <3>1, <4>1, SameBlob DEF Atomic!Scribble, Atomic!Answer, Pending
      <4> QED
        BY <4>2 DEF Atomic!Next
    <3>3. CASE from_directions(job[p])
      <4>1. Atomic!Refuse(p)
        BY <2>1, <3>1, <3>3 DEF Atomic!Refuse, Atomic!Answer, Pending,
           from_directions
      <4> QED
        BY <4>1 DEF Atomic!Next
    <3> QED
      BY <2>3, <3>2, <3>3
  <2>4. CASE Answered(p) /\ touched(agents, job[p]) = {}
    <3>1. /\ Pending[p] # NoCall /\ Pending[p] = job[p]
          /\ Pending' = [Pending EXCEPT ![p] = NoCall]
      BY <2>1, <2>4, Answering
    <3>2. Effect(agents, job[p]) = agents
      BY <2>4, NoEffect DEF Typed, StoredTyped
    <3>3. CASE Locked(p)
      <4>1. Atomic!Take(p)
        BY <2>1, <2>2, <3>1, <3>2, <3>3, SameBlob DEF Atomic!Take, Atomic!Answer, Pending,
           Locked
      <4> QED
        BY <4>1 DEF Atomic!Next
    <3>4. CASE ~ Locked(p)
      <4>1. Atomic!Scribble(p)
        BY <2>1, <3>1, <3>4, SameBlob DEF Atomic!Scribble, Atomic!Answer, Pending, Locked
      <4> QED
        BY <4>1 DEF Atomic!Next
    <3> QED
      BY <3>3, <3>4
  <2>5. CASE Goto(p, "looked") /\ UNCHANGED job
    <3>1. \A q \in Proc : /\ pc'[q] \in {"ask", "looked"} <=> pc[q] \in {"ask", "looked"}
                          /\ job'[q] = job[q]
      BY <2>1, <2>5 DEF Goto, Typed, HeldTyped
    <3> QED
      BY <2>1, <3>1 DEF Pending
  <2> QED
    BY <1>3, <2>3, <2>4, <2>5 DEF Look
<1>4. ASSUME NEW p \in Proc, Store(p)
      PROVE  Atomic!Next \/ UNCHANGED <<agents, Pending, mixed>>
  <2>1. /\ pc[p] = "looked" /\ pc[p] \in Busy
        /\ agents' = Effect(copy[p], job[p]) /\ Answered(p)
    BY <1>4 DEF Store, Busy
  <2>2. /\ Pending[p] # NoCall /\ Pending[p] = job[p]
        /\ Pending' = [Pending EXCEPT ![p] = NoCall]
    BY <2>1, Answering
  <2>3. CASE Locked(p)
    <3>1. lock = p /\ mixed' = mixed \ {p} /\ (p \notin mixed => copy[p] = agents)
      BY <1>4, <2>1, <2>3 DEF Store, Locking, Writing
    <3>2. Atomic!Take(p)
      BY <2>1, <2>2, <2>3, <3>1, SameBlob DEF Atomic!Take, Atomic!Answer, Pending, Locked
    <3> QED
      BY <3>2 DEF Atomic!Next
  <2>4. CASE ~ Locked(p)
    <3>1. mixed' = mixed \cup ({lock} \ {NoTask})
      BY <1>4, <2>4 DEF Store
    <3>2. ASSUME NEW q \in mixed' \ mixed PROVE Pending[q] # NoCall /\ q # p
      <4>1. q \in Proc /\ Writing(q)
        BY <3>1, <3>2 DEF Locking
      <4>2. job[q] \in Call
        BY <4>1 DEF Writing, Typed, HeldTyped, CallAt
      <4> QED
        BY <1>1, <2>4, <4>1, <4>2 DEF Pending, Writing
    <3>3. Atomic!Scribble(p)
      BY <2>2, <2>4, <3>1, <3>2, SameBlob DEF Atomic!Scribble, Atomic!Answer, Pending, Locked
    <3> QED
      BY <3>3 DEF Atomic!Next
  <2> QED
    BY <2>3, <2>4
<1>5. CASE Apart /\ UNCHANGED <<pc, job>>
  BY <1>5 DEF Apart, Pending
<1>6. CASE Restart
  <2>1. \A p \in Proc : pc'[p] \notin {"ask", "looked"}
    BY <1>6 DEF Restart
  <2>2. Pending' = [p \in Proc |-> NoCall]
    BY <2>1 DEF Pending
  <2>3. Atomic!Restart
    BY <1>6, <2>2 DEF Restart, Atomic!Restart, Pending
  <2> QED
    BY <2>3 DEF Atomic!Next
<1> QED
  BY <1>2, <1>3, <1>4, <1>5, <1>6, Kinds DEF StepKinds, Calls

(* --- orders to update ------------------------------------------------------- *)

(* A token is of one node, its agent has it and no other agent, and none   *)
(* will be minted again.                                                   *)
Owned ==
    /\ \A m, n \in Node : agents[m].token # 0 =>
           /\ agents[m].token = agents[n].token => m = n
           /\ agents[m].token = tok[n] => m = n
    /\ \A n \in Node : agents[n].token <= minted /\ tok[n] <= minted

(* One process at a time.                                                  *)
Solo == \A p, q \in Proc : pc[p] # "idle" /\ pc[q] # "idle" => p = q

(* Agents poll and report what they run, and nobody else does; what is     *)
(* minted for a call is nobody's yet; what was read is what is stored.     *)
SoloCall(p) ==
    /\ job[p].op \in {"touch", "applied"} <=> p \in Node
    /\ job[p].op = "applied" => job[p].token = tok[p] /\ job[p].release = own[p]
    /\ job[p].op \in Mints =>
           /\ job[p].token <= minted
           /\ \A n \in Node : job[p].token > agents[n].token
                              /\ job[p].token > tok[n]
    /\ pc[p] = "looked" => copy[p] = agents

SoloInv ==
    world.alone =>
        /\ Owned /\ Solo
        /\ \A p \in Proc : pc[p] \in Busy => SoloCall(p)
        /\ \A p \in Proc : pc[p] = "hs_delete" => job[p].op = "forget" /\ p \in Task
        /\ \A p \in Proc : pc[p] \in WishAt => p \in Task

(* No call but a report of that release takes an order off.                *)
LEMMA ChangedOrder ==
    ASSUME NEW e \in Entry, NEW c \in Call, NEW n \in Node
    PROVE  \/ changed(n, e, c).order >= e.order
           \/ c.op = "applied" /\ c.release >= e.order
           \/ c.op = "forget" /\ ~ changed(n, e, c).here
<1>1. e.order \in 0..Release /\ c.release \in 0..Release /\ Release \in Nat
      /\ c.op \in CallOp
  BY BlobAssumption DEF Entry, Call, CallOp
<1>2. CASE c.op = "forget"
  <2>1. CASE n = c.node
    <3>1. changed(n, e, c) = Blank
      BY <1>2, <2>1 DEF changed
    <3> QED
      BY <1>2, <3>1 DEF Blank
  <2>2. CASE n # c.node
    <3>1. changed(n, e, c) = [e EXCEPT !.via = NoNode]
      BY <1>2, <2>2 DEF changed
    <3>2. changed(n, e, c).order = e.order
      BY <3>1 DEF Entry
    <3> QED
      BY <1>1, <3>2
  <2> QED
    BY <2>1, <2>2
<1>3. CASE c.op = "applied"
  <2>1. changed(n, e, c) = mark_agent_applied(e, c)
    BY <1>3 DEF changed
  <2>2. changed(n, e, c).order = IF c.release > 0 /\ c.release >= e.order THEN 0
                                 ELSE e.order
    BY <2>1 DEF mark_agent_applied, Entry
  <2> QED
    BY <1>1, <1>3, <2>2
<1>4. CASE c.op \in {"order", "order_all"}
  <2>1. changed(n, e, c) = [e EXCEPT !.order = Release]
    BY <1>4 DEF changed
  <2> QED
    BY <1>1, <2>1 DEF Entry
<1>5. CASE c.op \in CallOp \ {"forget", "applied", "order", "order_all"}
  <2>1. changed(n, e, c).order = e.order
    <3>1. CASE c.op = "get"
      BY <3>1 DEF changed, with_token, Entry
    <3>2. CASE c.op = "put"
      BY <3>2 DEF changed, put_agent, with_token, Entry
    <3>3. CASE c.op = "reissue"
      BY <3>3 DEF changed, reissue_agent_token, Entry
    <3>4. CASE c.op = "exit"
      BY <3>4 DEF changed, Entry
    <3>5. CASE c.op = "via"
      BY <3>5 DEF changed, Entry
    <3>6. CASE c.op = "record"
      BY <3>6 DEF changed, Entry
    <3>7. CASE c.op = "mine"
      BY <3>7 DEF changed, Entry
    <3>8. CASE c.op = "untick"
      BY <3>8 DEF changed, untick, Entry
    <3>9. CASE c.op = "touch"
      BY <3>9 DEF changed
    <3> QED
      BY <1>5, <3>1, <3>2, <3>3, <3>4, <3>5, <3>6, <3>7, <3>8, <3>9 DEF CallOp
  <2> QED
    BY <1>1, <2>1
<1> QED
  BY <1>1, <1>2, <1>3, <1>4, <1>5

(* An entry keeps its token, loses it or gets the one minted for the call. *)
LEMMA ChangedToken ==
    ASSUME NEW e \in Entry, NEW c \in Call, NEW n \in Node
    PROVE  \/ changed(n, e, c).token \in {e.token, 0}
           \/ c.op \in Mints /\ changed(n, e, c).token = c.token
<1>1. c.op \in CallOp
  BY DEF Call, CallOp
<1>2. CASE c.op = "get"
  BY <1>2 DEF changed, with_token, Entry, Mints
<1>3. CASE c.op = "put"
  BY <1>3 DEF changed, put_agent, with_token, Entry, Mints
<1>4. CASE c.op = "reissue"
  BY <1>4 DEF changed, reissue_agent_token, Entry, Mints
<1>5. CASE c.op \in {"order", "order_all"}
  BY <1>5 DEF changed, Entry
<1>6. CASE c.op = "exit"
  BY <1>6 DEF changed, Entry
<1>7. CASE c.op = "via"
  BY <1>7 DEF changed, Entry
<1>8. CASE c.op = "record"
  BY <1>8 DEF changed, Entry
<1>9. CASE c.op = "mine"
  BY <1>9 DEF changed, Entry
<1>10. CASE c.op = "applied"
  BY <1>10 DEF changed, mark_agent_applied, Entry
<1>11. CASE c.op = "untick"
  BY <1>11 DEF changed, untick, Entry
<1>12. CASE c.op = "forget"
  BY <1>12 DEF changed, Blank
<1>13. CASE c.op = "touch"
  BY <1>13 DEF changed
<1> QED
  BY <1>1, <1>2, <1>3, <1>4, <1>5, <1>6, <1>7, <1>8, <1>9, <1>10, <1>11, <1>12,
     <1>13 DEF CallOp

LEMMA SoloInit == ASSUME Init, Owned PROVE SoloInv
BY DEF Init, SoloInv, Solo, Busy, WishAt

(* One process moves, others are idle before and after.                    *)
Turn(p) ==
    /\ pc[p] # "idle" \/ Quiet
    /\ \A q \in Proc \ {p} : pc'[q] = pc[q]
    /\ world'.alone = world.alone

LEMMA TakesTurn ==
    ASSUME SoloInv, world.alone, NEW p \in Proc, Turn(p), Owned',
           pc'[p] \in Busy => SoloCall(p)',
           pc'[p] = "hs_delete" => job'[p].op = "forget" /\ p \in Task,
           pc'[p] \in WishAt => p \in Task
    PROVE  SoloInv'
<1>1. \A q \in Proc \ {p} : pc'[q] = "idle"
  BY DEF SoloInv, Solo, Turn, Quiet
<1>2. "idle" \notin Busy \cup WishAt \cup {"hs_delete"}
  BY DEF Busy, WishAt
<1>3. Solo'
  BY <1>1 DEF Solo
<1> QED
  BY <1>1, <1>2, <1>3 DEF SoloInv

LEMMA OwnedAlone ==
    ASSUME Typed, Owned, UNCHANGED <<agents, tok>>,
           minted' \in {minted, minted + 1}
    PROVE  Owned'
<1>1. /\ minted \in Nat
      /\ \A n \in Node : agents[n].token \in Nat /\ tok[n] \in Nat
  BY DEF Typed, StoredTyped, NodesTyped, Blob, Entry
<1> QED
  BY <1>1 DEF Owned

LEMMA SoloCalls ==
    ASSUME Typed, SoloInv, world.alone, NEW p \in Proc, Calls(p)
    PROVE  SoloInv'
<1> USE DEF headscale, history, node
<1>1. /\ pc[p] \in Busy /\ job[p] \in Call /\ SoloCall(p) /\ Owned
      /\ UNCHANGED <<tok, own, minted, world>>
  BY DEF Calls, Look, Store, Busy, CallAt, Typed, HeldTyped, SoloInv
<1>2. Turn(p)
  BY <1>1 DEF Calls, Look, Store, Answered, Finish, Goto, Typed, HeldTyped, Turn,
     Busy
<1>3. Answered(p) \/ Finish(p) => pc'[p] \notin Busy \cup WishAt \cup {"hs_delete"}
  BY DEF Answered, Finish, Goto, after, Typed, HeldTyped, Busy, WishAt
<1>4. CASE Look(p)
  <2>1. UNCHANGED agents
    BY <1>4 DEF Look
  <2>2. Owned'
    BY <1>1, <2>1, OwnedAlone
  <2>3. CASE Answered(p) \/ Finish(p)
    BY <1>2, <1>3, <2>2, <2>3, TakesTurn
  <2>4. CASE copy' = [copy EXCEPT ![p] = agents] /\ Goto(p, "looked") /\ UNCHANGED job
    <3>1. pc'[p] = "looked" /\ copy'[p] = agents /\ job'[p] = job[p]
      BY <2>4 DEF Goto, Typed, HeldTyped
    <3>2. SoloCall(p)'
      BY <1>1, <2>1, <3>1 DEF SoloCall
    <3>3. pc'[p] \notin WishAt \cup {"hs_delete"}
      BY <3>1 DEF WishAt
    <3> QED
      BY <1>2, <2>2, <3>2, <3>3, TakesTurn
  <2> QED
    BY <1>4, <2>3, <2>4 DEF Look
<1>5. CASE Store(p)
  <2>1. copy[p] = agents /\ agents' = Effect(agents, job[p]) /\ Answered(p)
    BY <1>1, <1>5 DEF Store, SoloCall
  <2>2. /\ \A n \in Node : agents[n] \in Entry /\ agents[n].token \in Nat
                           /\ tok[n] \in Nat
        /\ minted \in Nat /\ job[p].token \in Nat
    BY <1>1 DEF Typed, StoredTyped, NodesTyped, Blob, Entry, Call
  <2>3. ASSUME NEW n \in Node
        PROVE  \/ agents'[n].token \in {agents[n].token, 0}
               \/ /\ job[p].op \in Mints /\ n = job[p].node
                  /\ agents'[n].token = job[p].token
    <3>1. CASE n \in touched(agents, job[p])
      <4>1. agents'[n] = changed(n, agents[n], job[p])
        BY <2>1, <3>1 DEF Effect
      <4>2. job[p].op \in Mints => n = job[p].node
        BY <3>1 DEF touched, Mints
      <4> QED
        BY <1>1, <2>2, <4>1, <4>2, ChangedToken
    <3>2. CASE n \notin touched(agents, job[p])
      BY <2>1, <3>2 DEF Effect
    <3> QED
      BY <3>1, <3>2
  <2>4. job[p].op \in Mints =>
           /\ job[p].token <= minted
           /\ \A n \in Node : job[p].token > agents[n].token
                              /\ job[p].token > tok[n]
    BY <1>1 DEF SoloCall
  <2>5. Owned'
    <3>1. ASSUME NEW m \in Node, NEW n \in Node, agents'[m].token # 0
          PROVE  /\ agents'[m].token = agents'[n].token => m = n
                 /\ agents'[m].token = tok[n] => m = n
      BY <1>1, <2>2, <2>3, <2>4, <3>1 DEF Owned
    <3>2. ASSUME NEW n \in Node
          PROVE  agents'[n].token <= minted /\ tok[n] <= minted
      BY <1>1, <2>2, <2>3, <2>4 DEF Owned
    <3> QED
      BY <1>1, <3>1, <3>2 DEF Owned
  <2> QED
    BY <1>2, <1>3, <2>1, <2>5, TakesTurn
<1> QED
  BY <1>4, <1>5 DEF Calls

LEMMA SoloRequest ==
    ASSUME Typed, Typed', SoloInv, world.alone, NEW t \in Task,
           \/ Arrive(t) \/ ApproveByHand(t) \/ HsDelete(t) \/ SaveDirection(t)
           \/ ReadWanted(t) \/ ReadNodes(t) \/ approve_for(t) \/ Approved(t)
    PROVE  SoloInv'
<1> USE DEF headscale, history, node, panel
<1>1. t \in Proc /\ t \notin Node
  BY AgentsAssumption DEF Proc
<1>2. UNCHANGED <<agents, tok, own>> /\ minted' \in {minted, minted + 1}
  BY DEF Arrive, ApproveByHand, HsDelete, SaveDirection, ReadWanted, ReadNodes,
     approve_for, Approved
<1>3. world'.alone = world.alone
  <2>1. \/ Fault("approve") \/ UNCHANGED world
        \/ world' = [world EXCEPT !.left = @ - 1]
    BY DEF Arrive, ApproveByHand, HsDelete, SaveDirection, ReadWanted,
       ReadNodes, approve_for, Approved
  <2> QED
    BY <2>1 DEF Fault, Typed, StoredTyped, World
<1>4. Owned'
  BY <1>2, OwnedAlone DEF SoloInv
<1>5. Turn(t)
  <2>1. pc[t] # "idle" \/ Quiet
    BY DEF Arrive, ApproveByHand, HsDelete, SaveDirection, ReadWanted, ReadNodes,
       approve_for, Approved, MayStart
  <2>2. \A q \in Proc \ {t} : pc'[q] = pc[q]
    BY <1>1 DEF Arrive, ApproveByHand, HsDelete, SaveDirection, ReadWanted,
       ReadNodes, approve_for, Approved, Finish, Ask, Goto, Typed, HeldTyped
  <2> QED
    BY <1>3, <2>1, <2>2 DEF Turn
<1>6. CASE Arrive(t)
  <2> PICK r \in world.requests[t] :
        /\ r.op # "install"
        /\ pc' = [pc EXCEPT ![t] = start_of(r.op)]
        /\ job' = [job EXCEPT ![t] =
              [aCall(r.op, r.node) EXCEPT !.things = r.things, !.exit = r.exit,
                  !.via = r.via,
                  !.token = IF r.op \in Mints THEN minted + 1 ELSE 0]]
        /\ minted' = IF r.op \in Mints THEN minted + 1 ELSE minted
    BY <1>6 DEF Arrive
  <2>1. r.op \in (CallOp \ {"touch", "applied"}) \cup {"direction", "resolve"}
    BY <1>1 DEF Typed, StoredTyped, World, Request, CallOp
  <2>2. pc'[t] = start_of(r.op)
    BY <1>1 DEF Typed, HeldTyped
  <2>3. /\ job'[t].op = r.op
        /\ r.op \in Mints => job'[t].token = minted + 1 /\ minted' = minted + 1
    BY <1>1 DEF Typed, HeldTyped, aCall
  <2>4. /\ pc'[t] \in {"save", "hs_delete", "ask"}
        /\ pc'[t] = "hs_delete" => r.op = "forget"
    BY <2>2 DEF start_of
  <2>5. SoloCall(t)'
    <3>1. /\ minted \in Nat
          /\ \A n \in Node : agents[n].token \in Nat /\ tok[n] \in Nat
                             /\ agents[n].token <= minted /\ tok[n] <= minted
      BY DEF Typed, StoredTyped, NodesTyped, Blob, Entry, SoloInv, Owned
    <3> QED
      BY <1>1, <1>2, <2>1, <2>3, <2>4, <3>1 DEF SoloCall
  <2> QED
    BY <1>1, <1>4, <1>5, <2>3, <2>4, <2>5, TakesTurn
<1>7. CASE ApproveByHand(t) \/ SaveDirection(t) \/ ReadWanted(t) \/ ReadNodes(t)
           \/ approve_for(t)
  <2>1. pc'[t] \notin Busy \cup {"hs_delete"}
    BY <1>1, <1>7 DEF ApproveByHand, SaveDirection, ReadWanted, ReadNodes,
       approve_for, Finish, Goto, Typed, HeldTyped, Busy
  <2> QED
    BY <1>1, <1>4, <1>5, <2>1, TakesTurn
<1>8. CASE HsDelete(t)
  <2>1. pc'[t] = "ask" /\ job'[t].op = "forget"
    BY <1>1, <1>8 DEF HsDelete, Goto, Typed, HeldTyped, SoloInv
  <2> QED
    BY <1>1, <1>4, <1>5, <2>1, TakesTurn DEF SoloCall, Mints
<1>9. CASE Approved(t)
  <2>1. CASE Finish(t)
    <3>1. pc'[t] \notin Busy \cup {"hs_delete"}
      BY <1>1, <2>1 DEF Finish, Goto, Typed, HeldTyped, Busy
    <3> QED
      BY <1>1, <1>4, <1>5, <3>1, TakesTurn
  <2>2. CASE Ask(t, [job[t] EXCEPT !.op = "record"])
    <3>1. job[t] \in Wish
      BY <1>1, <1>9 DEF Approved, Typed, HeldTyped, WishAt
    <3>2. pc'[t] = "ask" /\ job'[t].op = "record"
      BY <1>1, <2>2, <3>1 DEF Ask, Goto, Typed, HeldTyped, Wish
    <3> QED
      BY <1>1, <1>4, <1>5, <3>2, TakesTurn DEF SoloCall, Mints
  <2> QED
    BY <1>9, <2>1, <2>2 DEF Approved
<1> QED
  BY <1>6, <1>7, <1>8, <1>9

LEMMA SoloCollector ==
    ASSUME Typed, Typed', SoloInv, world.alone,
           Collect \/ ReadAgents \/ ReadDerived \/ AutoApprove \/ Collected
    PROVE  SoloInv'
<1> USE DEF headscale, history, node, panel
<1> DEFINE p == Collector
<1>1. p \in Proc /\ p \notin Node
  BY AgentsAssumption DEF Proc
<1>2. UNCHANGED <<agents, tok, own, minted>>
  BY DEF Collect, ReadAgents, ReadDerived, AutoApprove, Collected
<1>3. world'.alone = world.alone
  <2>1. Fault("approve") \/ UNCHANGED world
    BY DEF Collect, ReadAgents, ReadDerived, AutoApprove, Collected
  <2> QED
    BY <2>1 DEF Fault, Typed, StoredTyped, World
<1>4. Owned'
  BY <1>2, OwnedAlone DEF SoloInv
<1>5. Turn(p)
  <2>1. pc[p] # "idle" \/ Quiet
    BY DEF Collect, ReadAgents, ReadDerived, AutoApprove, Collected, MayStart
  <2>2. \A q \in Proc \ {p} : pc'[q] = pc[q]
    BY <1>1 DEF Collect, ReadAgents, ReadDerived, AutoApprove, Collected,
       Finish, Ask, Goto, Typed, HeldTyped
  <2> QED
    BY <1>3, <2>1, <2>2 DEF Turn
<1>6. \/ pc'[p] \in {"agents", "routing", "next", "idle"}
      \/ pc'[p] = "ask" /\ \E n \in Node, S \in SUBSET Thing :
            job'[p] = [aCall("mine", n) EXCEPT !.things = S]
  <2>1. CASE Collect \/ ReadAgents \/ ReadDerived \/ Collected
    BY <1>1, <2>1 DEF Collect, ReadAgents, ReadDerived, Collected, Finish, Goto,
       Typed, HeldTyped
  <2>2. CASE AutoApprove
    <3>1. PICK n \in view[p].nodes :
            LET mine == (view[p].agents[n].mine \cup ours_in(view[p], n))
                           \ stale_in(view[p], n)
            IN \/ UNCHANGED <<pc, job>>
               \/ Ask(p, [aCall("mine", n) EXCEPT !.things = mine])
               \/ Finish(p)
      BY <2>2 DEF AutoApprove
    <3> DEFINE mine == (view[p].agents[n].mine \cup ours_in(view[p], n))
                           \ stale_in(view[p], n)
    <3>2. view[p] \in AView /\ pc[p] = "next"
      BY <1>1, <2>2 DEF AutoApprove, Typed, SeenTyped, Viewer
    <3>3. n \in Node /\ view[p].agents[n] \in Entry
      BY <3>2 DEF AView, Blob
    <3>4. mine \in SUBSET Thing
      BY <3>2, <3>3 DEF ours_in, AView, Entry
    <3> HIDE DEF mine
    <3>5. \/ UNCHANGED <<pc, job>>
          \/ Ask(p, [aCall("mine", n) EXCEPT !.things = mine])
          \/ Finish(p)
      BY <3>1 DEF mine
    <3> QED
      BY <1>1, <3>2, <3>3, <3>4, <3>5 DEF Ask, Finish, Goto, Typed, HeldTyped
  <2> QED
    BY <2>1, <2>2
<1>7. pc'[p] \in Busy => SoloCall(p)'
  <2>1. CASE pc'[p] = "ask"
    <3>1. job'[p].op = "mine"
      BY <1>6, <2>1 DEF aCall
    <3> QED
      BY <1>1, <2>1, <3>1 DEF SoloCall, Mints
  <2> QED
    BY <1>6, <2>1 DEF Busy
<1>8. pc'[p] \notin WishAt \cup {"hs_delete"}
  BY <1>6 DEF WishAt
<1> QED
  BY <1>1, <1>4, <1>5, <1>7, <1>8, TakesTurn

LEMMA SoloAgent ==
    ASSUME Typed, Typed', SoloInv, world.alone, NEW n \in Node,
           \/ Poll(n) \/ Serve(n) \/ Update(n) \/ UpdateFails(n) \/ Apply(n)
           \/ SaveState(n) \/ SetFails(n) \/ Report(n)
           \/ Install(n) \/ AnnounceByHand(n)
    PROVE  SoloInv'
<1> USE DEF headscale, history, node, panel
<1>1. n \in Proc
  BY DEF Proc
<1>2. UNCHANGED <<agents, minted>>
  BY DEF Poll, Serve, Update, UpdateFails, Apply, SaveState, SetFails, Report,
     Install, AnnounceByHand
<1>3. world'.alone = world.alone
  <2>1. \/ \E k \in FaultKind : Fault(k)
        \/ UNCHANGED world
        \/ world' = [world EXCEPT !.left = @ - 1]
    BY DEF Poll, Serve, Update, UpdateFails, Apply, SaveState, SetFails, Report,
       Install, AnnounceByHand, FaultKind
  <2> QED
    BY <2>1 DEF Fault, Typed, StoredTyped, World
<1>4. CASE AnnounceByHand(n)
  <2>1. UNCHANGED <<pc, job, copy, agents, tok, own, minted>>
    BY <1>4 DEF AnnounceByHand
  <2>2. Owned'
    BY <2>1, OwnedAlone DEF SoloInv
  <2> QED
    BY <1>3, <2>1, <2>2 DEF SoloInv, Solo, SoloCall
<1>5. CASE Install(n)
  <2>1. /\ tok' = [tok EXCEPT ![n] = agents[n].token] /\ agents[n].token # 0
        /\ Quiet /\ UNCHANGED pc
    BY <1>5 DEF Install, MayStart
  <2>2. Owned'
    BY <1>2, <2>1 DEF Owned, SoloInv, Typed, NodesTyped
  <2> QED
    BY <1>1, <1>3, <2>1, <2>2 DEF SoloInv, Solo, Quiet, Busy, WishAt
<1>6. CASE \/ Poll(n) \/ Serve(n) \/ Update(n) \/ UpdateFails(n) \/ Apply(n)
           \/ SaveState(n) \/ SetFails(n) \/ Report(n)
  <2>1. UNCHANGED tok
    BY <1>6 DEF Poll, Serve, Update, UpdateFails, Apply, SaveState, SetFails,
       Report
  <2>2. Owned'
    BY <1>2, <2>1, OwnedAlone DEF SoloInv
  <2>3. Turn(n)
    <3>1. pc[n] # "idle" \/ Quiet
      BY <1>6 DEF Poll, Serve, Update, UpdateFails, Apply, SaveState, SetFails,
         Report, MayStart
    <3>2. \A q \in Proc \ {n} : pc'[q] = pc[q]
      BY <1>1, <1>6 DEF Poll, Serve, Update, UpdateFails, Apply, SaveState,
         SetFails, Report, Ask, Goto, Typed, HeldTyped
    <3> QED
      BY <1>3, <3>1, <3>2 DEF Turn
  <2>4. CASE Poll(n)
    <3>1. PICK m \in owner(agents, tok[n]) :
            Ask(n, [aCall("touch", m) EXCEPT !.token = tok[n]])
      BY <2>4 DEF Poll
    <3>2. pc'[n] = "ask" /\ job'[n].op = "touch"
      BY <1>1, <3>1 DEF Ask, Goto, Typed, HeldTyped, aCall
    <3> QED
      BY <1>1, <2>2, <2>3, <3>2, TakesTurn DEF SoloCall, Mints, WishAt
  <2>5. CASE Report(n)
    <3>1. /\ UNCHANGED own
          /\ \/ Ask(n, [aCall("applied", n) EXCEPT !.token = tok[n],
                        !.body = file[n], !.release = own[n]])
             \/ Goto(n, "idle")
      BY <2>5 DEF Report
    <3> DEFINE c0 == aCall("applied", n)
               c == [c0 EXCEPT !.token = tok[n], !.body = file[n],
                               !.release = own[n]]
    <3>3. c0 \in Call /\ c0.op = "applied"
      BY BlankCall DEF CallOp
    <3>4. Ask(n, c) \/ Goto(n, "idle")
      BY <3>1
    <3> HIDE DEF c0
    <3>5. c.op = "applied" /\ c.token = tok[n] /\ c.release = own[n]
      BY <3>3 DEF Call
    <3> HIDE DEF c
    <3>2. \/ pc'[n] = "idle"
          \/ /\ pc'[n] = "ask" /\ job'[n].op = "applied"
             /\ job'[n].token = tok[n] /\ job'[n].release = own[n]
      BY <1>1, <3>4, <3>5 DEF Ask, Goto, Typed, HeldTyped
    <3> QED
      BY <1>1, <2>1, <2>2, <2>3, <3>1, <3>2, TakesTurn
      DEF SoloCall, Mints, WishAt, Busy
  <2>6. CASE \/ Serve(n) \/ Update(n) \/ UpdateFails(n) \/ Apply(n)
             \/ SaveState(n) \/ SetFails(n)
    <3>1. pc'[n] \in {"update", "apply", "idle", "half", "report"}
      BY <1>1, <2>6 DEF Serve, Update, UpdateFails, Apply, SaveState, SetFails, Goto,
         Typed, HeldTyped
    <3> QED
      BY <1>1, <2>2, <2>3, <3>1, TakesTurn DEF WishAt, Busy
  <2> QED
    BY <1>6, <2>4, <2>5, <2>6
<1> QED
  BY <1>4, <1>5, <1>6

LEMMA SoloStep == ASSUME Typed, Typed', SoloInv, [Next]_vars PROVE SoloInv'
<1>1. CASE UNCHANGED vars
  BY <1>1 DEF vars, SoloInv, Owned, Solo, SoloCall
<1>2. world'.alone = world.alone
  <2> USE DEF headscale, history, node, panel, Typed, StoredTyped, World
  <2>1. \/ \E k \in FaultKind : Fault(k)
        \/ UNCHANGED world
        \/ world' = [world EXCEPT !.left = @ - 1]
    <3> USE DEF FaultKind
    <3>1. ASSUME NEW p \in Proc, Calls(p) PROVE UNCHANGED world
      BY <3>1 DEF Calls, Look, Store
    <3>2. ASSUME NEW t \in Task, Arrive(t) \/ Request_steps(t)
          PROVE  \/ Fault("approve") \/ UNCHANGED world
                 \/ world' = [world EXCEPT !.left = @ - 1]
      BY <3>1, <3>2 DEF Arrive, Request_steps, ApproveByHand, HsDelete,
         SaveDirection, ReadWanted, ReadNodes, approve_for, Approved, Proc
    <3>3. CASE Collector_steps
      BY <3>1, <3>3 DEF Collector_steps, Collect, ReadAgents, ReadDerived,
         AutoApprove, Collected, Proc
    <3>4. ASSUME NEW n \in Node,
                 \/ Agent_steps(n) \/ Update(n) \/ SetFails(n)
                 \/ Install(n) \/ AnnounceByHand(n)
          PROVE  \/ \E k \in FaultKind : Fault(k)
                 \/ UNCHANGED world
                 \/ world' = [world EXCEPT !.left = @ - 1]
      BY <3>1, <3>4 DEF Agent_steps, Poll, Serve, Update, UpdateFails, Apply,
         SaveState, SetFails, Report, Install, AnnounceByHand, Proc
    <3>5. CASE Restart
      BY <3>5 DEF Restart
    <3> QED
      BY <1>1, <3>2, <3>3, <3>4, <3>5 DEF Next, vars
  <2> QED
    BY <2>1 DEF Fault
<1>3. CASE ~ world.alone
  BY <1>2, <1>3 DEF SoloInv
<1>4. CASE world.alone /\ Next
  <2>1. ASSUME NEW t \in Task, Arrive(t) \/ Request_steps(t) PROVE SoloInv'
    BY <1>4, <2>1, SoloCalls, SoloRequest DEF Request_steps, Proc
  <2>2. CASE Collector_steps
    BY <1>4, <2>2, SoloCalls, SoloCollector DEF Collector_steps, Proc
  <2>3. ASSUME NEW n \in Node,
               \/ Agent_steps(n) \/ Update(n) \/ SetFails(n)
               \/ Install(n) \/ AnnounceByHand(n)
        PROVE  SoloInv'
    BY <1>4, <2>3, SoloCalls, SoloAgent DEF Agent_steps, Proc
  <2>4. CASE Restart
    <3>1. /\ UNCHANGED <<agents, tok, minted>>
          /\ \A p \in Proc : pc'[p] \in {pc[p], "idle"}
                             /\ pc'[p] \notin Busy \cup WishAt \cup {"hs_delete"}
      BY <2>4 DEF Restart, node, Busy, WishAt
    <3>2. Owned' /\ Solo'
      BY <1>4, <3>1, OwnedAlone DEF SoloInv, Solo
    <3> QED
      BY <3>1, <3>2 DEF SoloInv
  <2> QED
    BY <1>4, <2>1, <2>2, <2>3, <2>4 DEF Next
<1> QED
  BY <1>1, <1>3, <1>4

LEMMA OrderStep ==
    ASSUME Typed, SoloInv, [Next]_vars, world.alone,
           NEW n \in hsNodes, agents[n].order > agents'[n].order
    PROVE  own[n] >= agents[n].order \/ ~ agents'[n].here
<1>1. n \in Node /\ agents[n] \in Entry
  BY DEF Typed, StoredTyped, Blob
<1>2. agents[n].order \in Nat
  BY <1>1, BlobAssumption DEF Entry
<1>3. agents' # agents
  BY <1>2
<1>4. PICK p \in Proc : Store(p)
  <2>1. ASSUME Apart \/ (\E p \in Proc : Elsewhere(p)) \/ Restart
        PROVE  FALSE
    BY <1>3, <2>1 DEF Elsewhere, Apart, Restart
  <2>2. ASSUME NEW p \in Proc, Look(p) PROVE FALSE
    BY <1>3, <2>2 DEF Look
  <2> QED
    BY <2>1, <2>2, Kinds DEF StepKinds, Calls
<1>5. /\ job[p] \in Call /\ SoloCall(p) /\ Owned
      /\ agents' = Effect(agents, job[p])
  BY <1>4 DEF Store, SoloInv, SoloCall, Busy, Typed, HeldTyped, CallAt
<1>6. /\ n \in touched(agents, job[p])
      /\ agents'[n] = changed(n, agents[n], job[p])
  BY <1>1, <1>2, <1>5 DEF Effect
<1>7. CASE job[p].op = "applied" /\ job[p].release >= agents[n].order
  <2>1. p \in Node /\ job[p].token = tok[p] /\ job[p].release = own[p]
    BY <1>5, <1>7 DEF SoloCall
  <2>2. agents[n].token = tok[p] /\ tok[p] # 0
    BY <1>6, <1>7, <2>1 DEF touched, owner
  <2>3. n = p
    BY <1>1, <1>5, <2>1, <2>2 DEF Owned
  <2> QED
    BY <1>7, <2>1, <2>3
<1>8. CASE job[p].op = "forget" /\ ~ agents'[n].here
  BY <1>8
<1>9. CASE agents'[n].order >= agents[n].order
  <2>1. agents'[n].order \in Nat
    BY <1>1, <1>5, <1>6, ChangedTyped, BlobAssumption DEF Entry
  <2> QED
    BY <1>2, <1>9, <2>1
<1> QED
  BY <1>1, <1>5, <1>6, <1>7, <1>8, <1>9, ChangedOrder

(* models.py, headscale.py, settings_store.py: what is stored, held and    *)
(* read is of its type whatever interleaves, fails or restarts; an agent   *)
(* that goes on with an answer has one.                                    *)
THEOREM AgentsTyped == Spec => []Typed
<1>1. Init => Typed
  BY TypeInit
<1>2. Typed /\ [Next]_vars => Typed'
  BY TypeStep
<1> QED
  BY <1>1, <1>2, PTL DEF Spec

(* settings_store.py:34-44, api/agent.py, api/nodes.py: a call of the blob *)
(* that takes the lock happens at one moment, on the blob as it is then,   *)
(* unless a call that does not take it writes while it is under way.  So   *)
(* the agents implement AgentStore, for any number of nodes and requests.  *)
THEOREM AgentsImplementStore == Spec => Serialized
<1> DEFINE Inv == Typed /\ Locking
<1>1. Init => Inv
  BY TypeInit, LockInit
<1>2. Inv /\ [Next]_vars => Inv'
  BY TypeStep, LockStep
<1>3. Init => Atomic!Init
  <2> SUFFICES ASSUME Init PROVE Atomic!Init
    OBVIOUS
  <2>1. agents \in Blob /\ mixed = {} /\ Pending = [p \in Proc |-> NoCall]
    BY TypeInit DEF Typed, StoredTyped, Init, Pending
  <2> QED
    BY <2>1, SameBlob DEF Atomic!Init, Pending
<1>4. Inv /\ Inv' /\ [Next]_vars =>
         [Atomic!Next]_<<agents, Pending, mixed>>
  BY StoreStep
<1> HIDE DEF Inv
<1> QED
  BY <1>1, <1>2, <1>3, <1>4, PTL DEF Spec, Serialized, Atomic!Spec,
     Atomic!storeVars, Pending

(* settings_store.py:538-543, agent.py: when tokens are of one node each   *)
(* at the start and requests, cycles and polls take turns, an order to     *)
(* update goes only with a report of that release, or with the entry.      *)
THEOREM OrderStandsHolds == Spec /\ Owned => OrderStands
<1> DEFINE Inv == Typed /\ SoloInv
<1>1. Init /\ Owned => Inv
  BY TypeInit, SoloInit
<1>2. Inv /\ [Next]_vars => Inv'
  BY TypeStep, SoloStep
<1>3. Inv /\ [Next]_vars =>
         [world.alone =>
            \A n \in hsNodes : agents[n].order > agents'[n].order =>
                own[n] >= agents[n].order \/ ~ agents'[n].here]_vars
  BY OrderStep
<1> HIDE DEF Inv
<1> QED
  BY <1>1, <1>2, <1>3, PTL DEF Spec, OrderStands

-----------------------------------------------------------------------------
(* What is approved was asked for.                                         *)

EntryShape(e) ==
    e = [here |-> e.here, token |-> e.token, routes |-> e.routes,
         exit |-> e.exit, via |-> e.via, mine |-> e.mine, order |-> e.order,
         reported |-> e.reported, told |-> e.told, script |-> e.script,
         release |-> e.release]

CallShape(c) ==
    DOMAIN c = {"op", "node", "token", "things", "marks", "exit", "via",
                "body", "release"}

ViewShape(v) == DOMAIN v = {"agents", "derived", "nodes", "avail", "approved"}

(* A blob that wants nothing that was not asked for.                       *)
BlobAsked(b, a) ==
    /\ b = [n \in Node |-> b[n]]
    /\ \A n \in Node : EntryShape(b[n]) /\ announced_by(b[n]) \subseteq a[n]

(* The calls that bring routes bring such that were asked for.             *)
brings(c) == c.things \cup (IF c.exit THEN {Exit} ELSE {})
bringing == {"put", "exit", "untick", "direction", "resolve"}

CallAsked(c, a) ==
    /\ CallShape(c)
    /\ c.op \in bringing /\ c.node \in Node => brings(c) \subseteq a[c.node]

(* However old a view is, it held what was asked for by then.              *)
ViewAsked(v, a) ==
    /\ ViewShape(v)
    /\ \A n \in Node : /\ announced_by(v.agents[n]) \subseteq a[n]
                       /\ v.derived[n] \subseteq a[n]
                       /\ v.approved[n] \subseteq a[n]

(* Where a process has a call of its own.                                  *)
Calling == {"ask", "looked", "approve", "save", "hs_delete", "wanted", "nodes",
            "approve_for"}

StoredAsked ==
    /\ asked = [n \in Node |-> asked[n]]
    /\ derived = [n \in Node |-> derived[n]]
    /\ approved = [n \in Node |-> approved[n]]
    /\ BlobAsked(agents, asked)
    /\ \A n \in Node : derived[n] \subseteq asked[n] /\ approved[n] \subseteq asked[n]

HeldAsked ==
    /\ pc = [p \in Proc |-> pc[p]] /\ job = [p \in Proc |-> job[p]]
    /\ copy = [p \in Proc |-> copy[p]]
    /\ \A p \in Proc : BlobAsked(copy[p], asked)
    /\ \A p \in Proc : pc[p] \in Calling => CallAsked(job[p], asked)
    /\ \A p \in Proc : /\ pc[p] = "approve" => job[p].op = "untick"
                       /\ pc[p] = "save" => job[p].op \in {"direction", "resolve"}

SeenAsked ==
    /\ view = [p \in Viewer |-> view[p]]
    /\ \A p \in Viewer : ViewAsked(view[p], asked)

AskedInv == StoredAsked /\ HeldAsked /\ SeenAsked

(* --- calls ----------------------------------------------------------------- *)

(* What a call makes of an entry keeps its shape, and wants no more than   *)
(* the entry did and the call brings.                                      *)
LEMMA ChangedAsked ==
    ASSUME NEW n, NEW c, NEW h, NEW t, NEW r, NEW x, NEW v, NEW m, NEW o,
           NEW rp, NEW td, NEW s, NEW rl, NEW e,
           e = [here |-> h, token |-> t, routes |-> r, exit |-> x, via |-> v,
                mine |-> m, order |-> o, reported |-> rp, told |-> td,
                script |-> s, release |-> rl]
    PROVE  /\ EntryShape(changed(n, e, c))
           /\ \/ announced_by(changed(n, e, c)) \subseteq announced_by(e)
              \/ /\ c.op \in {"put", "exit"}
                 /\ announced_by(changed(n, e, c)) \subseteq
                       announced_by(e) \cup brings(c)
<1> USE DEF EntryShape, announced_by, brings
<1>1. CASE c.op = "get"
  <2>1. changed(n, e, c) = with_token(e, c)
    BY <1>1 DEF changed
  <2> QED
    BY <2>1 DEF with_token
<1>2. CASE c.op = "put"
  <2>1. changed(n, e, c) = put_agent(e, c)
    BY <1>2 DEF changed
  <2>2. changed(n, e, c) =
           [here |-> TRUE, token |-> IF t = 0 THEN c.token ELSE t,
            routes |-> c.things \ {Exit}, exit |-> c.exit, via |-> v,
            mine |-> m, order |-> o, reported |-> rp, told |-> td,
            script |-> s, release |-> rl]
    BY <2>1 DEF put_agent, with_token, routes_of
  <2>3. changed(n, e, c).routes \subseteq c.things /\ changed(n, e, c).exit = c.exit
    BY <2>2
  <2>4. announced_by(changed(n, e, c)) \subseteq brings(c)
    BY <2>3
  <2> QED
    BY <1>2, <2>2, <2>4
<1>3. CASE c.op = "reissue"
  <2>1. changed(n, e, c) = reissue_agent_token(e, c)
    BY <1>3 DEF changed
  <2> QED
    BY <2>1 DEF reissue_agent_token
<1>4. CASE c.op \in {"order", "order_all"}
  <2>1. changed(n, e, c) = [e EXCEPT !.order = Release]
    BY <1>4 DEF changed
  <2> QED
    BY <2>1
<1>5. CASE c.op = "exit"
  <2>1. changed(n, e, c) = [e EXCEPT !.here = TRUE, !.exit = c.exit]
    BY <1>5 DEF changed
  <2>2. changed(n, e, c) =
           [here |-> TRUE, token |-> t, routes |-> r, exit |-> c.exit,
            via |-> v, mine |-> m, order |-> o, reported |-> rp, told |-> td,
            script |-> s, release |-> rl]
    BY <2>1
  <2>3. changed(n, e, c).routes = e.routes /\ changed(n, e, c).exit = c.exit
    BY <2>2
  <2>4. announced_by(changed(n, e, c)) \subseteq announced_by(e) \cup brings(c)
    BY <2>3
  <2> QED
    BY <1>5, <2>2, <2>4
<1>6. CASE c.op = "via"
  <2>1. changed(n, e, c) = [e EXCEPT !.here = TRUE, !.via = c.via]
    BY <1>6 DEF changed
  <2> QED
    BY <2>1
<1>7. CASE c.op = "record"
  <2>1. changed(n, e, c) = [e EXCEPT !.mine = @ \cup c.marks[n]]
    BY <1>7 DEF changed
  <2> QED
    BY <2>1
<1>8. CASE c.op = "mine"
  <2>1. changed(n, e, c) = [e EXCEPT !.mine = c.things]
    BY <1>8 DEF changed
  <2> QED
    BY <2>1
<1>9. CASE c.op = "applied"
  <2>1. changed(n, e, c) = mark_agent_applied(e, c)
    BY <1>9 DEF changed
  <2> QED
    BY <2>1 DEF mark_agent_applied
<1>10. CASE c.op = "untick"
  <2>1. changed(n, e, c) = untick(e, c)
    BY <1>10 DEF changed
  <2>2. changed(n, e, c) =
           [here |-> h, token |-> t, routes |-> r \ dropped(e, c), exit |-> x,
            via |-> v, mine |-> m \ dropped(e, c), order |-> o,
            reported |-> rp, told |-> td, script |-> s, release |-> rl]
    BY <2>1 DEF untick
  <2>3. /\ changed(n, e, c).routes \subseteq e.routes
        /\ changed(n, e, c).exit = e.exit
    BY <2>2
  <2>4. announced_by(changed(n, e, c)) \subseteq announced_by(e)
    BY <2>3
  <2> QED
    BY <2>2, <2>4
<1>11. CASE c.op = "forget"
  <2>1. CASE n = c.node
    <3>1. changed(n, e, c) = Blank
      BY <1>11, <2>1 DEF changed
    <3> QED
      BY <3>1 DEF Blank
  <2>2. CASE n # c.node
    <3>1. changed(n, e, c) = [e EXCEPT !.via = NoNode]
      BY <1>11, <2>2 DEF changed
    <3> QED
      BY <3>1
  <2> QED
    BY <2>1, <2>2
<1>12. CASE c.op \notin {"get", "put", "reissue", "order", "order_all", "exit",
                         "via", "record", "mine", "applied", "untick", "forget"}
  <2>1. changed(n, e, c) = e
    BY <1>12 DEF changed
  <2> QED
    BY <2>1
<1> QED
  BY <1>1, <1>2, <1>3, <1>4, <1>5, <1>6, <1>7, <1>8, <1>9, <1>10, <1>11,
     <1>12

(* Writing a call into an old copy brings nothing that was not asked for.  *)
LEMMA EffectAsked ==
    ASSUME NEW b, NEW c, NEW a, BlobAsked(b, a), CallAsked(c, a)
    PROVE  BlobAsked(Effect(b, c), a)
<1>1. ASSUME NEW n \in Node
      PROVE  /\ EntryShape(Effect(b, c)[n])
             /\ announced_by(Effect(b, c)[n]) \subseteq a[n]
  <2>1. EntryShape(b[n]) /\ announced_by(b[n]) \subseteq a[n]
    BY DEF BlobAsked
  <2>2. CASE n \in touched(b, c)
    <3>1. Effect(b, c)[n] = changed(n, b[n], c)
      BY <2>2 DEF Effect
    <3>2. /\ EntryShape(changed(n, b[n], c))
          /\ \/ announced_by(changed(n, b[n], c)) \subseteq announced_by(b[n])
             \/ /\ c.op \in {"put", "exit"}
                /\ announced_by(changed(n, b[n], c)) \subseteq
                      announced_by(b[n]) \cup brings(c)
      BY <2>1, ChangedAsked DEF EntryShape
    <3>3. c.op \in {"put", "exit"} => n = c.node
      BY <2>2 DEF touched
    <3>4. c.op \in {"put", "exit"} => brings(c) \subseteq a[n]
      BY <3>3 DEF CallAsked, bringing
    <3> QED
      BY <2>1, <3>1, <3>2, <3>4
  <2>3. CASE n \notin touched(b, c)
    <3>1. Effect(b, c)[n] = b[n]
      BY <2>3 DEF Effect
    <3> QED
      BY <2>1, <3>1
  <2> QED
    BY <2>2, <2>3
<1>2. Effect(b, c) = [n \in Node |-> Effect(b, c)[n]]
  BY DEF Effect
<1> QED
  BY <1>1, <1>2 DEF BlobAsked

LEMMA BlankAsked ==
    ASSUME NEW a
    PROVE  BlobAsked(NoBlob, a) /\ ViewAsked(NoView, a)
<1>1. EntryShape(Blank) /\ announced_by(Blank) = {}
  BY DEF EntryShape, Blank, announced_by
<1>2. \A n \in Node : NoBlob[n] = Blank
  BY DEF NoBlob
<1>3. BlobAsked(NoBlob, a)
  BY <1>1, <1>2 DEF BlobAsked, NoBlob
<1>4. ViewAsked(NoView, a)
  BY <1>1, <1>2 DEF ViewAsked, ViewShape, NoView
<1> QED
  BY <1>3, <1>4

(* More may be asked for.                                                  *)
LEMMA MoreAsked ==
    ASSUME NEW a, NEW a2, \A n \in Node : a[n] \subseteq a2[n]
    PROVE  /\ \A b : BlobAsked(b, a) => BlobAsked(b, a2)
           /\ \A v : ViewAsked(v, a) => ViewAsked(v, a2)
           /\ \A c : CallAsked(c, a) => CallAsked(c, a2)
<1>1. \A b : BlobAsked(b, a) => BlobAsked(b, a2)
  BY DEF BlobAsked
<1>2. \A v : ViewAsked(v, a) => ViewAsked(v, a2)
  BY DEF ViewAsked
<1>3. \A c : CallAsked(c, a) => CallAsked(c, a2)
  BY DEF CallAsked
<1> QED
  BY <1>1, <1>2, <1>3

LEMMA AskedInit == ASSUME Init, OnlyAsked PROVE AskedInv
<1>1. world \in World
  BY AgentsAssumption DEF Init
<1>2. /\ agents \in Blob /\ derived \in [Node -> SUBSET Route]
      /\ agents = world.agents /\ derived = world.derived
  BY <1>1 DEF Init, World
<1>3. \A n \in Node : asked[n] = derived[n] \cup announced_by(agents[n])
  BY DEF Init
<1>4. \A n \in Node : EntryShape(agents[n])
  BY <1>2 DEF Blob, Entry, EntryShape
<1>5. \A n \in Node : approved[n] \subseteq asked[n]
  BY DEF Init, OnlyAsked
<1>6. StoredAsked
  <2>1. asked = [n \in Node |-> asked[n]]
    BY DEF Init
  <2>2. approved = [n \in Node |-> approved[n]]
    BY DEF Init
  <2>3. derived = [n \in Node |-> derived[n]] /\ agents = [n \in Node |-> agents[n]]
    BY <1>2 DEF Blob
  <2>4. BlobAsked(agents, asked)
    BY <1>3, <1>4, <2>3 DEF BlobAsked
  <2> QED
    BY <1>3, <1>5, <2>1, <2>2, <2>3, <2>4 DEF StoredAsked
<1>7. HeldAsked
  BY BlankAsked DEF Init, HeldAsked, Calling
<1>8. SeenAsked
  BY BlankAsked DEF Init, SeenAsked, Viewer
<1> QED
  BY <1>6, <1>7, <1>8 DEF AskedInv

(* --- what a process does to itself ----------------------------------------- *)

(* A process goes somewhere with a call and a copy.                        *)
LEMMA Moves ==
    ASSUME AskedInv, UNCHANGED asked, NEW p \in Proc, NEW where, NEW c, NEW b,
           pc' = [pc EXCEPT ![p] = where], job' = [job EXCEPT ![p] = c],
           copy' = [copy EXCEPT ![p] = b],
           BlobAsked(b, asked),
           where \in Calling => CallAsked(c, asked),
           where = "approve" => c.op = "untick",
           where = "save" => c.op \in {"direction", "resolve"}
    PROVE  HeldAsked'
<1>1. /\ pc' = [q \in Proc |-> IF q = p THEN where ELSE pc[q]]
      /\ job' = [q \in Proc |-> IF q = p THEN c ELSE job[q]]
      /\ copy' = [q \in Proc |-> IF q = p THEN b ELSE copy[q]]
  BY DEF AskedInv, HeldAsked
<1>2. \A q \in Proc : BlobAsked(copy'[q], asked')
  BY <1>1 DEF AskedInv, HeldAsked
<1>3. \A q \in Proc : pc'[q] \in Calling => CallAsked(job'[q], asked')
  BY <1>1 DEF AskedInv, HeldAsked
<1>4. \A q \in Proc :
         /\ pc'[q] = "approve" => job'[q].op = "untick"
         /\ pc'[q] = "save" => job'[q].op \in {"direction", "resolve"}
  BY <1>1 DEF AskedInv, HeldAsked
<1>5. /\ pc' = [q \in Proc |-> pc'[q]] /\ job' = [q \in Proc |-> job'[q]]
      /\ copy' = [q \in Proc |-> copy'[q]]
  BY <1>1
<1> QED
  BY <1>2, <1>3, <1>4, <1>5 DEF HeldAsked

(* A process goes on with what it has, where it needs no call.             *)
LEMMA MovesOn ==
    ASSUME AskedInv, UNCHANGED <<asked, job, copy>>, NEW p \in Proc, NEW where,
           Goto(p, where), where \notin Calling
    PROVE  HeldAsked'
<1>1. where # "approve" /\ where # "save"
  BY DEF Calling
<1>2. /\ job' = [job EXCEPT ![p] = job[p]] /\ copy' = [copy EXCEPT ![p] = copy[p]]
      /\ BlobAsked(copy[p], asked)
  BY DEF AskedInv, HeldAsked
<1> QED
  BY <1>1, <1>2, Moves DEF Goto

(* The same where it goes on with the call that it has.                    *)
LEMMA CallsOn ==
    ASSUME AskedInv, UNCHANGED <<asked, job, copy>>, NEW p \in Proc, NEW where,
           Goto(p, where), where \notin {"approve", "save"}, pc[p] \in Calling
    PROVE  HeldAsked'
<1>1. /\ job' = [job EXCEPT ![p] = job[p]] /\ copy' = [copy EXCEPT ![p] = copy[p]]
      /\ BlobAsked(copy[p], asked) /\ CallAsked(job[p], asked)
  BY DEF AskedInv, HeldAsked
<1> QED
  BY <1>1, Moves DEF Goto

LEMMA Asks ==
    ASSUME AskedInv, UNCHANGED <<asked, copy>>, NEW p \in Proc, NEW c, Ask(p, c),
           CallAsked(c, asked)
    PROVE  HeldAsked'
<1>1. copy' = [copy EXCEPT ![p] = copy[p]] /\ BlobAsked(copy[p], asked)
  BY DEF AskedInv, HeldAsked
<1> QED
  BY <1>1, Moves DEF Ask, Goto

LEMMA Finishes ==
    ASSUME AskedInv, UNCHANGED <<asked, copy>>, NEW p \in Proc, Finish(p)
    PROVE  HeldAsked'
<1>1. copy' = [copy EXCEPT ![p] = copy[p]] /\ BlobAsked(copy[p], asked)
  BY DEF AskedInv, HeldAsked
<1>2. "idle" \notin Calling
  BY DEF Calling
<1> QED
  BY <1>1, <1>2, Moves DEF Finish, Goto

LEMMA Answers ==
    ASSUME AskedInv, UNCHANGED asked, NEW p \in Proc, pc[p] \in Calling,
           Answered(p)
    PROVE  HeldAsked'
<1>1. CallAsked(job[p], asked)
  BY DEF AskedInv, HeldAsked
<1>2. /\ after(p) \in Calling => after(p) = "approve"
      /\ after(p) = "approve" => job[p].op = "untick"
      /\ after(p) # "save"
  <2>1. CASE job[p].op = "untick"
    BY <2>1 DEF after, Calling
  <2>2. CASE job[p].op = "touch"
    BY <2>2 DEF after, Calling
  <2>3. CASE job[p].op \notin {"untick", "touch"} /\ p = Collector
    BY <2>3 DEF after, Calling
  <2>4. CASE job[p].op \notin {"untick", "touch"} /\ p # Collector
    BY <2>4 DEF after, Calling
  <2> QED
    BY <2>1, <2>2, <2>3, <2>4
<1>3. BlobAsked(NoBlob, asked)
  BY BlankAsked
<1>4. CASE after(p) = "approve"
  <2>1. /\ pc' = [pc EXCEPT ![p] = "approve"] /\ job' = [job EXCEPT ![p] = job[p]]
        /\ copy' = [copy EXCEPT ![p] = NoBlob]
    BY <1>4 DEF Answered, Goto
  <2> QED
    BY <1>1, <1>2, <1>3, <1>4, <2>1, Moves
<1>5. CASE after(p) # "approve"
  <2> DEFINE where == after(p)
  <2>1. /\ pc' = [pc EXCEPT ![p] = where] /\ job' = [job EXCEPT ![p] = NoCall]
        /\ copy' = [copy EXCEPT ![p] = NoBlob]
        /\ where \notin Calling /\ where # "approve" /\ where # "save"
    BY <1>2, <1>5 DEF Answered, Goto
  <2> HIDE DEF where
  <2> QED
    BY <1>3, <2>1, Moves
<1> QED
  BY <1>4, <1>5

(* --- the parts that a step leaves alone ------------------------------------- *)

LEMMA StoredAlone ==
    ASSUME AskedInv, UNCHANGED <<asked, derived, approved, agents>>
    PROVE  StoredAsked'
BY DEF AskedInv, StoredAsked, BlobAsked, EntryShape, announced_by

LEMMA SeenAlone ==
    ASSUME AskedInv, UNCHANGED <<asked, view>>
    PROVE  SeenAsked'
BY DEF AskedInv, SeenAsked

LEMMA HeldAlone ==
    ASSUME AskedInv, UNCHANGED <<asked, pc, job, copy>>
    PROVE  HeldAsked'
BY DEF AskedInv, HeldAsked

(* headscale is given what was asked for.                                  *)
LEMMA ApprovesAsked ==
    ASSUME AskedInv, UNCHANGED <<asked, derived, agents>>,
           NEW n, NEW S, n \in Node => S \subseteq asked[n],
           approved' = [approved EXCEPT ![n] = S] \/ approved' = approved
    PROVE  StoredAsked'
<1>1. /\ approved' = [m \in Node |-> approved'[m]]
      /\ \A m \in Node : approved'[m] \subseteq asked[m]
  BY DEF AskedInv, StoredAsked
<1> QED
  BY <1>1 DEF AskedInv, StoredAsked

(* The view of a process becomes another.                                  *)
LEMMA Sees ==
    ASSUME AskedInv, UNCHANGED asked, NEW p \in Viewer, NEW v,
           view' = [view EXCEPT ![p] = v], ViewAsked(v, asked)
    PROVE  SeenAsked'
<1>1. view' = [q \in Viewer |-> IF q = p THEN v ELSE view[q]]
  BY DEF AskedInv, SeenAsked
<1> QED
  BY <1>1 DEF AskedInv, SeenAsked

(* --- calls ------------------------------------------------------------------ *)

LEMMA CallsAsked ==
    ASSUME AskedInv, NEW p \in Proc, Calls(p)
    PROVE  AskedInv'
<1> USE DEF headscale, history
<1>1. CASE Look(p)
  <2>1. pc[p] \in Calling /\ CallAsked(job[p], asked)
    BY <1>1 DEF Look, Calling, AskedInv, HeldAsked
  <2>2. UNCHANGED <<asked, derived, approved, agents, view>>
    BY <1>1 DEF Look
  <2>3. CASE Finish(p) /\ UNCHANGED copy
    BY <2>2, <2>3, Finishes, StoredAlone, SeenAlone DEF AskedInv
  <2>4. CASE Answered(p)
    BY <2>1, <2>2, <2>4, Answers, StoredAlone, SeenAlone DEF AskedInv
  <2>5. CASE copy' = [copy EXCEPT ![p] = agents] /\ Goto(p, "looked")
             /\ UNCHANGED job
    <3>1. BlobAsked(agents, asked) /\ job' = [job EXCEPT ![p] = job[p]]
      BY <2>5 DEF AskedInv, StoredAsked, HeldAsked
    <3>2. HeldAsked'
      BY <2>1, <2>2, <2>5, <3>1, Moves DEF Goto
    <3> QED
      BY <2>2, <3>2, StoredAlone, SeenAlone DEF AskedInv
  <2> QED
    BY <1>1, <2>3, <2>4, <2>5 DEF Look
<1>2. CASE Store(p)
  <2>1. pc[p] \in Calling /\ CallAsked(job[p], asked) /\ BlobAsked(copy[p], asked)
    BY <1>2 DEF Store, Calling, AskedInv, HeldAsked
  <2>2. UNCHANGED <<asked, approved, view>>
    BY <1>2 DEF Store
  <2>3. BlobAsked(agents', asked)
    BY <1>2, <2>1, EffectAsked DEF Store
  <2>4. /\ derived' = [n \in Node |-> derived'[n]]
        /\ \A n \in Node : derived'[n] \subseteq asked[n]
    BY <1>2 DEF Store, AskedInv, StoredAsked
  <2>5. StoredAsked'
    BY <2>2, <2>3, <2>4 DEF AskedInv, StoredAsked
  <2>6. HeldAsked'
    BY <1>2, <2>1, <2>2, Answers DEF Store
  <2> QED
    BY <2>2, <2>5, <2>6, SeenAlone DEF AskedInv
<1> QED
  BY <1>1, <1>2 DEF Calls

(* --- requests --------------------------------------------------------------- *)

LEMMA BlankShape ==
    ASSUME NEW o, NEW n
    PROVE  /\ CallShape(aCall(o, n)) /\ aCall(o, n).op = o
           /\ aCall(o, n).node = n
BY DEF aCall, CallShape

(* Asking for more.                                                        *)
LEMMA ArriveAsked ==
    ASSUME AskedInv, NEW t \in Task, Arrive(t)
    PROVE  AskedInv'
<1> DEFINE token(r) == IF r.op \in Mints THEN minted + 1 ELSE 0
<1>1. PICK r \in world.requests[t] :
        /\ pc' = [pc EXCEPT ![t] = start_of(r.op)]
        /\ job' = [job EXCEPT ![t] =
              [aCall(r.op, r.node) EXCEPT !.things = r.things, !.exit = r.exit,
                  !.via = r.via, !.token = token(r)]]
        /\ asked' = [asked EXCEPT ![r.node] =
              @ \cup r.things \cup (IF r.exit THEN {Exit} ELSE {})]
        /\ UNCHANGED <<agents, derived, approved, copy, view>>
  BY DEF Arrive, panel, headscale
<1> DEFINE c == [aCall(r.op, r.node) EXCEPT !.things = r.things,
                    !.exit = r.exit, !.via = r.via, !.token = token(r)]
           where == start_of(r.op)
<1>2. /\ CallShape(c) /\ c.op = r.op /\ c.node = r.node
      /\ c.things = r.things /\ c.exit = r.exit
  <2> DEFINE k == token(r)
             o == r.op
             n == r.node
             h == r.things
             x == r.exit
             v == r.via
  <2> DEFINE c0 == aCall(o, n)
  <2>1. CallShape(c0) /\ c0.op = o /\ c0.node = n
    BY BlankShape
  <2>3. c = [c0 EXCEPT !.things = h, !.exit = x, !.via = v, !.token = k]
    OBVIOUS
  <2> HIDE DEF c0, c, k, o, n, h, x, v
  <2>2. /\ CallShape(c) /\ c.op = o /\ c.node = n
        /\ c.things = h /\ c.exit = x
    BY <2>1, <2>3 DEF CallShape
  <2> QED
    BY <2>2 DEF o, n, h, x
<1>3. \A n \in Node : asked[n] \subseteq asked'[n]
  BY <1>1 DEF AskedInv, StoredAsked
<1>4. asked' = [n \in Node |-> asked'[n]]
  BY <1>1 DEF AskedInv, StoredAsked
<1>5. where \in Calling /\ where # "approve"
      /\ (where = "save" => r.op \in {"direction", "resolve"})
  BY DEF start_of, Calling
<1>6. pc' = [pc EXCEPT ![t] = where] /\ job' = [job EXCEPT ![t] = c]
  BY <1>1
<1> HIDE DEF c, where
<1>7. /\ \A b : BlobAsked(b, asked) => BlobAsked(b, asked')
      /\ \A v : ViewAsked(v, asked) => ViewAsked(v, asked')
      /\ \A d : CallAsked(d, asked) => CallAsked(d, asked')
  BY <1>3, MoreAsked
<1>8. CallAsked(c, asked')
  BY <1>1, <1>2 DEF AskedInv, StoredAsked, brings, CallAsked
<1>9. StoredAsked'
  <2>1. BlobAsked(agents', asked')
    BY <1>1, <1>7 DEF AskedInv, StoredAsked
  <2>2. \A n \in Node : derived'[n] \subseteq asked'[n]
                        /\ approved'[n] \subseteq asked'[n]
    BY <1>1, <1>3 DEF AskedInv, StoredAsked
  <2> QED
    BY <1>1, <1>4, <2>1, <2>2 DEF AskedInv, StoredAsked
<1>10. HeldAsked'
  <2>1. /\ pc' = [q \in Proc |-> IF q = t THEN where ELSE pc[q]]
        /\ job' = [q \in Proc |-> IF q = t THEN c ELSE job[q]]
        /\ copy' = [q \in Proc |-> copy'[q]]
    BY <1>1, <1>6 DEF AskedInv, HeldAsked
  <2>2. \A q \in Proc : BlobAsked(copy'[q], asked')
    BY <1>1, <1>7 DEF AskedInv, HeldAsked
  <2>3. \A q \in Proc : pc'[q] \in Calling => CallAsked(job'[q], asked')
    BY <1>7, <1>8, <2>1 DEF AskedInv, HeldAsked
  <2>4. \A q \in Proc :
           /\ pc'[q] = "approve" => job'[q].op = "untick"
           /\ pc'[q] = "save" => job'[q].op \in {"direction", "resolve"}
    BY <1>2, <1>5, <2>1 DEF AskedInv, HeldAsked
  <2>5. pc' = [q \in Proc |-> pc'[q]] /\ job' = [q \in Proc |-> job'[q]]
    BY <2>1
  <2> QED
    BY <2>1, <2>2, <2>3, <2>4, <2>5 DEF HeldAsked
<1>11. SeenAsked'
  BY <1>1, <1>7 DEF AskedInv, SeenAsked
<1> QED
  BY <1>9, <1>10, <1>11 DEF AskedInv

(* set_routes and delete_node at headscale, a direction saved.             *)
LEMMA HandAsked ==
    ASSUME AskedInv, NEW t \in Task,
           ApproveByHand(t) \/ HsDelete(t) \/ SaveDirection(t)
    PROVE  AskedInv'
<1> USE DEF panel, headscale, history
<1>1. t \in Proc
  BY DEF Proc
<1>2. pc[t] \in Calling /\ CallAsked(job[t], asked)
  BY <1>1 DEF ApproveByHand, HsDelete, SaveDirection, Calling, AskedInv,
     HeldAsked
<1> DEFINE n == job[t].node
<1>3. CASE ApproveByHand(t)
  <2>1. n \in Node => job[t].things \subseteq asked[n]
    BY <1>1, <1>2, <1>3 DEF ApproveByHand, AskedInv, HeldAsked, CallAsked,
       bringing, brings
  <2>2. StoredAsked'
    BY <1>3, <2>1, ApprovesAsked DEF ApproveByHand
  <2>3. HeldAsked'
    BY <1>1, <1>3, Finishes DEF ApproveByHand
  <2> QED
    BY <1>3, <2>2, <2>3, SeenAlone DEF ApproveByHand, AskedInv
<1>4. CASE HsDelete(t)
  <2>1. StoredAsked'
    BY <1>4, ApprovesAsked DEF HsDelete
  <2>2. HeldAsked'
    BY <1>1, <1>2, <1>4, CallsOn DEF HsDelete
  <2> QED
    BY <1>4, <2>1, <2>2, SeenAlone DEF HsDelete, AskedInv
<1>5. CASE SaveDirection(t)
  <2>1. n \in Node => routes_of(job[t]) \subseteq asked[n]
    BY <1>1, <1>2, <1>5 DEF SaveDirection, AskedInv, HeldAsked, CallAsked,
       bringing, brings, routes_of
  <2>2. /\ derived' = [m \in Node |-> derived'[m]]
        /\ \A m \in Node : derived'[m] \subseteq asked[m]
        /\ UNCHANGED <<agents, approved, asked>>
    BY <1>5, <2>1 DEF SaveDirection, AskedInv, StoredAsked
  <2>3. StoredAsked'
    BY <2>2 DEF AskedInv, StoredAsked
  <2>4. HeldAsked'
    BY <1>1, <1>2, <1>5, CallsOn DEF SaveDirection
  <2> QED
    BY <1>5, <2>3, <2>4, SeenAlone DEF SaveDirection, AskedInv
<1> QED
  BY <1>3, <1>4, <1>5

(* --- directions ------------------------------------------------------------- *)

LEMMA DirectionAsked ==
    ASSUME AskedInv, NEW t \in Task,
           ReadWanted(t) \/ ReadNodes(t) \/ approve_for(t) \/ Approved(t)
    PROVE  AskedInv'
<1> USE DEF panel, headscale, history
<1>1. t \in Proc /\ t \in Viewer
  BY DEF Proc, Viewer
<1>2. pc[t] \in Calling /\ pc[t] \notin {"approve", "save"}
  BY DEF ReadWanted, ReadNodes, approve_for, Approved, Calling
<1>3. /\ CallAsked(job[t], asked) /\ ViewAsked(view[t], asked)
      /\ \A n \in Node : derived[n] \subseteq asked[n]
                         /\ approved[n] \subseteq asked[n]
  BY <1>1, <1>2 DEF AskedInv, HeldAsked, SeenAsked, StoredAsked
<1>4. ViewAsked(NoView, asked)
  BY BlankAsked
<1> DEFINE v == view[t]
           c == job[t]
<1>5. CASE ReadWanted(t)
  <2> DEFINE w == [v EXCEPT !.derived = derived]
  <2>1. ViewAsked(w, asked)
    BY <1>3 DEF ViewAsked, ViewShape
  <2>2. view' = [view EXCEPT ![t] = w]
    BY <1>5 DEF ReadWanted
  <2> HIDE DEF w
  <2>3. SeenAsked'
    BY <1>1, <1>5, <2>1, <2>2, Sees DEF ReadWanted
  <2>4. HeldAsked'
    BY <1>1, <1>2, <1>5, CallsOn, Finishes DEF ReadWanted
  <2> QED
    BY <1>5, <2>3, <2>4, StoredAlone DEF ReadWanted, AskedInv
<1>6. CASE ReadNodes(t)
  <2> DEFINE w == [v EXCEPT !.approved = approved,
                      !.nodes = {n \in hsNodes : v.derived[n] # {}}]
             d == [c EXCEPT !.marks =
                      [n \in Node |-> IF n \in hsNodes THEN v.derived[n] ELSE {}]]
  <2>1. ViewAsked(w, asked)
    BY <1>3 DEF ViewAsked, ViewShape
  <2>2. CallAsked(d, asked)
    BY <1>3 DEF CallAsked, CallShape, brings
  <2>3. view' = [view EXCEPT ![t] = w] /\ job' = [job EXCEPT ![t] = d]
    BY <1>1, <1>6 DEF ReadNodes, AskedInv, SeenAsked, HeldAsked
  <2> HIDE DEF w, d
  <2>4. SeenAsked'
    BY <1>1, <1>6, <2>1, <2>3, Sees DEF ReadNodes
  <2>5. copy' = [copy EXCEPT ![t] = copy[t]] /\ BlobAsked(copy[t], asked)
    BY <1>1, <1>6 DEF ReadNodes, AskedInv, HeldAsked
  <2>6. HeldAsked'
    BY <1>1, <1>6, <2>2, <2>3, <2>5, Moves DEF ReadNodes, Goto
  <2> QED
    BY <1>6, <2>4, <2>6, StoredAlone DEF ReadNodes, AskedInv
<1>7. CASE approve_for(t)
  <2>1. PICK n \in v.nodes :
          LET target == v.approved[n] \cup v.derived[n]
              same == target = v.approved[n]
          IN \/ /\ approved' = IF same THEN approved
                               ELSE [approved EXCEPT ![n] = target]
                /\ view' = [view EXCEPT ![t].nodes = @ \ {n}]
                /\ UNCHANGED <<pc, job>>
             \/ /\ view' = [view EXCEPT ![t] = NoView]
                /\ Finish(t)
                /\ UNCHANGED approved
    BY <1>7 DEF approve_for
  <2>2. UNCHANGED <<agents, derived, asked, copy>>
    BY <1>7 DEF approve_for
  <2>3. StoredAsked'
    <3>1. n \in Node => v.approved[n] \cup v.derived[n] \subseteq asked[n]
      BY <1>3 DEF ViewAsked
    <3> QED
      BY <2>1, <2>2, <3>1, ApprovesAsked
  <2>4. HeldAsked'
    BY <1>1, <2>1, <2>2, Finishes, HeldAlone
  <2>5. SeenAsked'
    <3> DEFINE w == [v EXCEPT !.nodes = @ \ {n}]
    <3>1. ViewAsked(w, asked)
      BY <1>3 DEF ViewAsked, ViewShape
    <3>2. view' = [view EXCEPT ![t] = w] \/ view' = [view EXCEPT ![t] = NoView]
      BY <2>1
    <3> HIDE DEF w
    <3> QED
      BY <1>1, <1>4, <2>2, <3>1, <3>2, Sees
  <2> QED
    BY <2>3, <2>4, <2>5 DEF AskedInv
<1>8. CASE Approved(t)
  <2> DEFINE d == [c EXCEPT !.op = "record"]
  <2>1. CallAsked(d, asked)
    BY <1>3 DEF CallAsked, CallShape, bringing
  <2>2. Finish(t) \/ Ask(t, d)
    BY <1>8 DEF Approved
  <2> HIDE DEF d
  <2>3. HeldAsked'
    BY <1>1, <1>8, <2>1, <2>2, Finishes, Asks DEF Approved
  <2>4. SeenAsked'
    BY <1>1, <1>4, <1>8, Sees DEF Approved
  <2> QED
    BY <1>8, <2>3, <2>4, StoredAlone DEF Approved, AskedInv
<1> QED
  BY <1>5, <1>6, <1>7, <1>8

(* --- the collector ---------------------------------------------------------- *)

(* What a view leads to for a node was asked for, whatever it announces.   *)
LEMMA TargetAsked ==
    ASSUME NEW v, NEW a, ViewAsked(v, a), NEW n \in Node
    PROVE  target_in(v, n) \subseteq a[n]
BY DEF target_in, ours_in, wanted_in, stale_in, ViewAsked

LEMMA CollectAsked ==
    ASSUME AskedInv, Collect \/ ReadAgents \/ ReadDerived \/ Collected
    PROVE  AskedInv'
<1> USE DEF panel, headscale, history
<1> DEFINE p == Collector
           v == view[p]
<1>1. p \in Proc /\ p \in Viewer
  BY DEF Proc, Viewer
<1>2. ViewAsked(v, asked) /\ ViewAsked(NoView, asked)
  BY <1>1, BlankAsked DEF AskedInv, SeenAsked
<1>3. /\ \A n \in Node : announced_by(agents[n]) \subseteq asked[n]
      /\ \A n \in Node : derived[n] \subseteq asked[n]
                         /\ approved[n] \subseteq asked[n]
  BY DEF AskedInv, StoredAsked, BlobAsked
<1>4. UNCHANGED <<asked, derived, approved, agents, copy>>
  BY DEF Collect, ReadAgents, ReadDerived, Collected
<1>5. HeldAsked'
  <2>1. CASE Finish(p)
    BY <1>1, <1>4, <2>1, Finishes
  <2>2. CASE UNCHANGED job /\ \E where \in {"agents", "routing", "next"} :
                Goto(p, where)
    <3>1. \A where \in {"agents", "routing", "next"} : where \notin Calling
      BY DEF Calling
    <3> QED
      BY <1>1, <1>4, <2>2, <3>1, MovesOn
  <2> QED
    BY <2>1, <2>2 DEF Collect, ReadAgents, ReadDerived, Collected
<1>6. ASSUME NEW w, ViewAsked(w, asked), view' = [view EXCEPT ![p] = w]
      PROVE  SeenAsked'
  BY <1>1, <1>4, <1>6, Sees
<1>7. SeenAsked'
  <2>1. CASE Collect
    <3> DEFINE w == [NoView EXCEPT !.nodes = hsNodes, !.avail = avail,
                                   !.approved = approved]
    <3>1. ViewAsked(w, asked)
      BY <1>2, <1>3 DEF ViewAsked, ViewShape
    <3> QED
      BY <1>6, <2>1, <3>1 DEF Collect
  <2>2. CASE ReadAgents
    <3> DEFINE w == [v EXCEPT !.agents = agents]
    <3>1. ViewAsked(w, asked)
      BY <1>2, <1>3 DEF ViewAsked, ViewShape
    <3> QED
      BY <1>6, <2>2, <3>1 DEF ReadAgents
  <2>3. CASE ReadDerived
    <3> DEFINE w == [v EXCEPT !.derived = derived,
                        !.nodes = {n \in v.nodes : v.agents[n].here}]
    <3>1. ViewAsked(w, asked)
      BY <1>2, <1>3 DEF ViewAsked, ViewShape
    <3>2. [v EXCEPT !.derived = derived].nodes = v.nodes
      BY <1>2 DEF ViewAsked, ViewShape
    <3>3. view' = [view EXCEPT ![p] = w]
      BY <1>1, <2>3, <3>2 DEF ReadDerived, AskedInv, SeenAsked
    <3> HIDE DEF w
    <3> QED
      BY <1>6, <3>1, <3>3
  <2>4. CASE Collected
    BY <1>2, <1>6, <2>4 DEF Collected
  <2> QED
    BY <2>1, <2>2, <2>3, <2>4
<1> QED
  BY <1>4, <1>5, <1>7, StoredAlone DEF AskedInv

LEMMA AutoApproveAsked ==
    ASSUME AskedInv, AutoApprove PROVE AskedInv'
<1> USE DEF panel, headscale, history
<1> DEFINE p == Collector
           v == view[p]
<1>1. p \in Proc /\ p \in Viewer
  BY DEF Proc, Viewer
<1>2. ViewAsked(v, asked) /\ ViewAsked(NoView, asked)
  BY <1>1, BlankAsked DEF AskedInv, SeenAsked
<1>3. UNCHANGED <<asked, derived, agents, copy>>
  BY DEF AutoApprove
<1>4. PICK n \in v.nodes :
        LET target == target_in(v, n)
            mine == (v.agents[n].mine \cup ours_in(v, n)) \ stale_in(v, n)
            same == target = v.approved[n]
        IN \/ /\ approved' = IF same THEN approved
                             ELSE [approved EXCEPT ![n] = target]
              /\ view' = [view EXCEPT ![p].nodes = @ \ {n}]
              /\ IF mine = v.agents[n].mine THEN UNCHANGED <<pc, job>>
                 ELSE Ask(p, [aCall("mine", n) EXCEPT !.things = mine])
           \/ /\ view' = [view EXCEPT ![p] = NoView]
              /\ Finish(p)
              /\ UNCHANGED approved
  BY DEF AutoApprove
<1>5. StoredAsked'
  <2>1. n \in Node => target_in(v, n) \subseteq asked[n]
    BY <1>2, TargetAsked
  <2> QED
    BY <1>3, <1>4, <2>1, ApprovesAsked
<1>6. HeldAsked'
  <2> DEFINE mine == (v.agents[n].mine \cup ours_in(v, n)) \ stale_in(v, n)
             c == [aCall("mine", n) EXCEPT !.things = mine]
  <2>1. CallAsked(c, asked)
    BY BlankShape DEF CallAsked, CallShape, bringing
  <2>2. UNCHANGED <<pc, job>> \/ Ask(p, c) \/ Finish(p)
    BY <1>4
  <2> HIDE DEF c
  <2> QED
    BY <1>1, <1>3, <2>1, <2>2, HeldAlone, Asks, Finishes
<1>7. SeenAsked'
  <2> DEFINE w == [v EXCEPT !.nodes = @ \ {n}]
  <2>1. ViewAsked(w, asked)
    BY <1>2 DEF ViewAsked, ViewShape
  <2>2. view' = [view EXCEPT ![p] = w] \/ view' = [view EXCEPT ![p] = NoView]
    BY <1>4
  <2> HIDE DEF w
  <2> QED
    BY <1>1, <1>2, <1>3, <2>1, <2>2, Sees
<1> QED
  BY <1>5, <1>6, <1>7 DEF AskedInv

(* --- agents and everything around ------------------------------------------- *)

LEMMA AgentAsked ==
    ASSUME AskedInv, NEW n \in Node,
           \/ Poll(n) \/ Serve(n) \/ Update(n) \/ UpdateFails(n) \/ Apply(n)
           \/ SaveState(n) \/ SetFails(n) \/ Report(n)
           \/ Install(n) \/ AnnounceByHand(n)
    PROVE  AskedInv'
<1> USE DEF panel, headscale, history
<1>1. n \in Proc
  BY DEF Proc
<1>2. UNCHANGED <<asked, derived, approved, agents, copy, view>>
  BY DEF Poll, Serve, Update, UpdateFails, Apply, SaveState, SetFails, Report,
     Install, AnnounceByHand
<1>3. ASSUME UNCHANGED job, NEW where, Goto(n, where), where \notin Calling
      PROVE  HeldAsked'
  BY <1>1, <1>2, <1>3, MovesOn
<1>4. HeldAsked'
  <2>1. CASE Poll(n)
    <3>1. PICK m \in owner(agents, tok[n]) :
            Ask(n, [aCall("touch", m) EXCEPT !.token = tok[n]])
      BY <2>1 DEF Poll
    <3> DEFINE c == [aCall("touch", m) EXCEPT !.token = tok[n]]
    <3>2. CallAsked(c, asked)
      BY BlankShape DEF CallAsked, CallShape, bringing
    <3> HIDE DEF c
    <3> QED
      BY <1>1, <1>2, <3>1, <3>2, Asks DEF c
  <2>2. CASE Serve(n)
    BY <1>3, <2>2 DEF Serve, Calling
  <2>3. CASE Update(n) \/ UpdateFails(n) \/ SaveState(n) \/ SetFails(n)
    BY <1>3, <2>3 DEF Update, UpdateFails, SaveState, SetFails, Calling
  <2>4. CASE Apply(n)
    BY <1>3, <2>4 DEF Apply, Calling
  <2>5. CASE Report(n)
    <3> DEFINE c == [aCall("applied", n) EXCEPT !.token = tok[n],
                        !.body = file[n], !.release = own[n]]
    <3>1. CallAsked(c, asked)
      BY BlankShape DEF CallAsked, CallShape, bringing
    <3>2. Ask(n, c) \/ (Goto(n, "idle") /\ UNCHANGED job)
      BY <2>5 DEF Report
    <3> HIDE DEF c
    <3> QED
      BY <1>1, <1>2, <1>3, <3>1, <3>2, Asks DEF Calling
  <2>6. CASE Install(n) \/ AnnounceByHand(n)
    BY <1>2, <2>6, HeldAlone DEF Install, AnnounceByHand
  <2> QED
    BY <2>1, <2>2, <2>3, <2>4, <2>5, <2>6
<1> QED
  BY <1>2, <1>4, StoredAlone, SeenAlone DEF AskedInv

LEMMA RestartAsked ==
    ASSUME AskedInv, Restart PROVE AskedInv'
<1> USE DEF panel, headscale, history
<1>1. UNCHANGED <<asked, derived, approved, agents>>
  BY DEF Restart
<1>2. HeldAsked'
  BY <1>1, BlankAsked DEF Restart, HeldAsked, Calling
<1>3. SeenAsked'
  BY <1>1, BlankAsked DEF Restart, SeenAsked, Viewer
<1> QED
  BY <1>1, <1>2, <1>3, StoredAlone DEF AskedInv

LEMMA AskedStep == ASSUME AskedInv, [Next]_vars PROVE AskedInv'
<1>1. CASE UNCHANGED vars
  BY <1>1, StoredAlone, HeldAlone, SeenAlone DEF vars, AskedInv
<1>2. ASSUME NEW t \in Task, Arrive(t) \/ Request_steps(t) PROVE AskedInv'
  <2>1. t \in Proc
    BY DEF Proc
  <2> QED
    BY <1>2, <2>1, ArriveAsked, CallsAsked, HandAsked, DirectionAsked
    DEF Request_steps
<1>3. CASE Collector_steps
  <2>1. Collector \in Proc
    BY DEF Proc
  <2> QED
    BY <1>3, <2>1, CallsAsked, CollectAsked, AutoApproveAsked
    DEF Collector_steps
<1>4. ASSUME NEW n \in Node,
             \/ Agent_steps(n) \/ Update(n) \/ SetFails(n)
             \/ Install(n) \/ AnnounceByHand(n)
      PROVE  AskedInv'
  <2>1. n \in Proc
    BY DEF Proc
  <2> QED
    BY <1>4, <2>1, CallsAsked, AgentAsked DEF Agent_steps
<1>5. CASE Restart
  BY <1>5, RestartAsked
<1> QED
  BY <1>1, <1>2, <1>3, <1>4, <1>5 DEF Next

LEMMA NodesShrink == ASSUME [Next]_vars PROVE hsNodes' \subseteq hsNodes
<1> USE DEF panel, headscale, history
<1>1. CASE UNCHANGED vars
  BY <1>1 DEF vars
<1>2. ASSUME NEW p \in Proc, Calls(p) PROVE hsNodes' \subseteq hsNodes
  BY <1>2 DEF Calls, Look, Store
<1>3. ASSUME NEW t \in Task, Arrive(t) \/ Request_steps(t)
      PROVE  hsNodes' \subseteq hsNodes
  BY <1>2, <1>3 DEF Proc, Arrive, Request_steps, ApproveByHand, HsDelete,
     SaveDirection, ReadWanted, ReadNodes, approve_for, Approved
<1>4. CASE Collector_steps
  BY <1>2, <1>4 DEF Proc, Collector_steps, Collect, ReadAgents, ReadDerived,
     Collected, AutoApprove
<1>5. ASSUME NEW n \in Node,
             \/ Agent_steps(n) \/ Update(n) \/ SetFails(n)
             \/ Install(n) \/ AnnounceByHand(n)
      PROVE  hsNodes' \subseteq hsNodes
  BY <1>2, <1>5 DEF Proc, Agent_steps, Poll, Serve, Update, UpdateFails, Apply,
     SaveState, SetFails, Report, Install, AnnounceByHand
<1>6. CASE Restart
  BY <1>6 DEF Restart
<1> QED
  BY <1>1, <1>3, <1>4, <1>5, <1>6 DEF Next

(* collector.py:149-161, api/nodes.py:585-620, routing.py:300-340: if what *)
(* is approved at the start was asked for, it always is, for any number of *)
(* nodes and requests, however old the copies of the collector and of the  *)
(* requests are, and whatever is refused or restarted in between.          *)
THEOREM OnlyAskedHolds == Spec /\ OnlyAsked => []OnlyAsked
<1> DEFINE Inv == AskedInv /\ hsNodes \subseteq Node
<1>1. Init /\ OnlyAsked => Inv
  BY AskedInit DEF Init
<1>2. Inv /\ [Next]_vars => Inv'
  BY AskedStep, NodesShrink
<1>3. Inv => OnlyAsked
  BY DEF AskedInv, StoredAsked, OnlyAsked
<1> HIDE DEF Inv
<1> QED
  BY <1>1, <1>2, <1>3, PTL DEF Spec
============================================================================
