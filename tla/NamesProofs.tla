----------------------------- MODULE NamesProofs -----------------------------
(***************************************************************************)
(* Names, certificates and the root that signs them, for any nodes, names, *)
(* requests, failures and restarts.                                        *)
(***************************************************************************)
EXTENDS Names, TLAPS

(* --- what the variables hold --------------------------------------------- *)

Addrs == [Node -> Addr \cup {Nobody}]
Root == [key : Nat, cert : Nat, auto : BOOLEAN]
Serving == [pc : Inside \cup {"ask", "lock"}, node : Node, name : Name,
            waited : BOOLEAN, cert : Nat, key : Nat]
Line == [name : Name, fp : Cert \cup {NoCert}, need : BOOLEAN]
Run == {Idle} \cup [pc : {"poll"}, ca : Nat]
       \cup [pc : {"ca", "names", "wait"}, ca : Nat, lines : SUBSET Line]
Disk == [trust : Nat, keys : SUBSET Name, crt : [Name -> Cert \cup {NoCert}]]

Of(op) == {q \in Request : q.op = op}
Editing == [pc : {"read", "write", "set", "unused", "forget"},
            req : Of("records"), seen : Addrs, names : SUBSET Name]
Routing == [pc : {"zones"}, req : Of("dns"), seen : Addrs, names : {{}}]
Reissuing == [pc : {"auto", "key"}, req : Of("ca"), seen : Addrs, names : {{}}]
Replacing == [pc : {"cert", "select", "drop"}, req : Of("ca"), seen : Nat,
              names : SUBSET Name]
Deleting == [pc : {"leave", "refs"}, req : Of("delete"), seen : Addrs,
             names : {{}}]
Job == {Idle} \cup Editing \cup Routing \cup Reissuing \cup Replacing
       \cup Deleting

Cycle == {Idle} \cup [pc : {"sync"}, seen : Addrs] \cup [pc : {"names"}]
         \cup [pc : {"unused", "forget"}, names : SUBSET Name]

PanelTyped ==
    /\ records \in Lists /\ agents \subseteq Node /\ root \in Root
    /\ rows \in [Name -> Row \cup {NoRow}] /\ made \in Nat

HeadscaleTyped ==
    /\ addr \in Addrs
    /\ file \in [there : BOOLEAN, names : SUBSET (Name \X Addr)]
    /\ config \in [path : BOOLEAN, zones : SUBSET Zone]

NodesTyped == agent \in [Node -> Run] /\ disk \in [Node -> Disk]

WorkTyped ==
    /\ serving \in [Slot -> Serving \cup {Free}]
    /\ task \in [Task -> Job] /\ collector \in Cycle /\ world \in World

Typed == PanelTyped /\ HeadscaleTyped /\ NodesTyped /\ WorkTyped

(* Whoever still waits for an answer is an agent that waits for one.        *)
Waits(s) == serving[s] # Free /\ serving[s].waited
Waiting ==
    /\ \A s \in Slot : Waits(s) => agent[serving[s].node].pc = "wait"
    /\ \A s, u \in Slot :
          Waits(s) /\ Waits(u) /\ serving[s].node = serving[u].node => s = u

LEMMA InitTyped == ASSUME Init PROVE Typed
<1> USE DEF Init
<1>1. world \in World
  BY NamesAssumption
<1>2. PanelTyped
  BY <1>1 DEF PanelTyped, World, Root, Row, NoRow
<1>3. HeadscaleTyped
  BY <1>1 DEF HeadscaleTyped, World, Addrs
<1>4. NodesTyped
  BY DEF NodesTyped, Run, Disk
<1>5. WorkTyped
  BY <1>1 DEF WorkTyped, Job, Cycle
<1> QED
  BY <1>2, <1>3, <1>4, <1>5 DEF Typed

(* What a request for a certificate, or an agent, is while it runs.        *)
LEMMA Serves ==
    ASSUME WorkTyped, NEW s \in Slot, serving[s] # Free
    PROVE  serving[s] \in Serving
BY DEF WorkTyped

LEMMA ServingAt ==
    ASSUME WorkTyped, NEW s \in Slot, NEW where, At(s, where), where # "free"
    PROVE  serving[s] \in Serving
BY DEF WorkTyped, At, Free

LEMMA RunAt ==
    ASSUME NodesTyped, NEW n \in Node, agent[n].pc \in {"ca", "names", "wait"}
    PROVE  agent[n] \in [pc : {"ca", "names", "wait"}, ca : Nat,
                         lines : SUBSET Line]
<1>1. agent[n] \in Run
  BY DEF NodesTyped
<1>2. agent[n] # Idle
  BY DEF Idle
<1>3. agent[n] \notin [pc : {"poll"}, ca : Nat]
  OBVIOUS
<1> QED
  BY <1>1, <1>2, <1>3 DEF Run

(* Where a request of an administrator is says what it is.                 *)
LEMMA TaskAt ==
    ASSUME WorkTyped, NEW t \in Task
    PROVE  /\ task[t].pc \in {"read", "write", "set", "unused", "forget"} =>
                 task[t] \in Editing
           /\ task[t].pc = "zones" => task[t] \in Routing
           /\ task[t].pc \in {"auto", "key"} => task[t] \in Reissuing
           /\ task[t].pc \in {"cert", "select", "drop"} =>
                 task[t] \in Replacing
           /\ task[t].pc \in {"leave", "refs"} => task[t] \in Deleting
           /\ task[t] = Idle \/ task[t].pc # "idle"
<1>1. task[t] \in Job
  BY DEF WorkTyped
<1>2. CASE task[t] = Idle
  BY <1>2 DEF Idle
<1>3. CASE task[t] \in Editing
  BY <1>3 DEF Editing
<1>4. CASE task[t] \in Routing
  BY <1>4 DEF Routing
<1>5. CASE task[t] \in Reissuing
  BY <1>5 DEF Reissuing
<1>6. CASE task[t] \in Replacing
  BY <1>6 DEF Replacing
<1>7. CASE task[t] \in Deleting
  BY <1>7 DEF Deleting
<1> QED
  BY <1>1, <1>2, <1>3, <1>4, <1>5, <1>6, <1>7 DEF Job

(* A list of names asks for entries of its names and zones of the network. *)
LEMMA ZonesTyped ==
    ASSUME NEW R \in Lists PROVE routes_for_split(R) \subseteq Zone
BY NamesAssumption DEF routes_for_split, Listed

LEMMA HeldTyped ==
    ASSUME PanelTyped, NEW x \in Name PROVE held(rows[x]) \in Cert \cup {NoCert}
<1>1. rows[x] \in Row \cup {NoRow}
  BY DEF PanelTyped
<1>2. CASE rows[x] = NoRow
  BY <1>2 DEF held
<1>3. CASE rows[x] # NoRow
  <2>1. rows[x] \in Row
    BY <1>1, <1>3
  <2>2. rows[x].cert \in Cert \cup {NoCert}
    BY <2>1 DEF Row
  <2> QED
    BY <1>3, <2>2 DEF held
<1> QED
  BY <1>2, <1>3

(* The step of an agent.                                                   *)
LEMMA AgentTyped ==
    ASSUME Typed, NEW n \in Node, AgentRun(n) \/ GiveUp(n) PROVE Typed'
<1> USE DEF panel, headscale, nodes
<1>1. /\ agent \in [Node -> Run] /\ disk \in [Node -> Disk]
      /\ disk[n] \in Disk /\ root \in Root /\ NodesTyped /\ WorkTyped
      /\ PanelTyped
  BY DEF Typed, NodesTyped, PanelTyped
<1>2. ASSUME UNCHANGED <<panel, headscale, serving, task, collector, world>>,
             NodesTyped'
      PROVE  Typed'
  BY <1>2 DEF Typed, PanelTyped, HeadscaleTyped, WorkTyped
<1>3. ASSUME NEW r \in Run, agent' = [agent EXCEPT ![n] = r], UNCHANGED disk
      PROVE  NodesTyped'
  BY <1>1, <1>3 DEF NodesTyped
<1>4. ASSUME Poll(n) PROVE Typed'
  <2> DEFINE r == [pc |-> "poll", ca |-> IF root.auto THEN root.cert ELSE 0]
  <2>1. r \in Run
    BY <1>1 DEF Run, Root
  <2>2. agent' = [agent EXCEPT ![n] = r] /\ UNCHANGED disk
    BY <1>4 DEF Poll
  <2>3. NodesTyped'
    BY <1>3, <2>1, <2>2
  <2> QED
    BY <1>2, <1>4, <2>3 DEF Poll
<1>5. ASSUME PollNames(n) PROVE Typed'
  <2> DEFINE line(x) == [name |-> x, fp |-> held(rows[x]),
                         need |-> needs_renewal(rows[x])]
             r == [pc |-> "ca", ca |-> agent[n].ca,
                   lines |-> {line(x) : x \in wanted_for_node(n)}]
  <2>1. agent[n].ca \in Nat
    BY <1>1, <1>5 DEF PollNames, Run, Idle
  <2>2. \A x \in wanted_for_node(n) : line(x) \in Line
    <3>1. \A x \in wanted_for_node(n) : x \in Name
      BY DEF wanted_for_node, WithCert, Listed
    <3>2. \A x \in Name : needs_renewal(rows[x]) \in BOOLEAN
      BY DEF needs_renewal
    <3> QED
      BY <1>1, <3>1, <3>2, HeldTyped DEF Line
  <2>3. r \in Run
    BY <2>1, <2>2 DEF Run
  <2>4. agent' = [agent EXCEPT ![n] = r] /\ UNCHANGED disk
    BY <1>5 DEF PollNames
  <2>5. NodesTyped'
    BY <1>3, <2>3, <2>4
  <2> QED
    BY <1>2, <1>5, <2>5 DEF PollNames
<1>6. ASSUME agent[n].pc \in {"ca", "names", "wait"}
      PROVE  /\ \A where \in {"ca", "names", "wait"} :
                   [agent[n] EXCEPT !.pc = where] \in Run
             /\ \A line :
                   /\ [agent[n] EXCEPT !.lines = @ \ {line}] \in Run
                   /\ [[agent[n] EXCEPT !.lines = @ \ {line}]
                          EXCEPT !.pc = "wait"] \in Run
             /\ agent[n].lines \subseteq Line /\ agent[n].ca \in Nat
  BY <1>1, <1>6, RunAt DEF Run
<1>7. ASSUME InstallRoot(n) PROVE Typed'
  <2>1. agent' \in [Node -> Run]
    BY <1>1, <1>6, <1>7 DEF InstallRoot
  <2>2. [disk[n] EXCEPT !.trust =
            IF agent[n].ca = 0 \/ (n \in agents /\ agent[n].ca = root.cert)
            THEN agent[n].ca ELSE @] \in Disk
    BY <1>1, <1>6, <1>7 DEF InstallRoot, Disk
  <2>3. disk' \in [Node -> Disk]
    BY <1>1, <1>7, <2>2 DEF InstallRoot
  <2> QED
    BY <1>2, <1>7, <2>1, <2>3 DEF InstallRoot, NodesTyped
<1>8. ASSUME SendCsr(n) PROVE Typed'
  <2>1. PICK line \in agent[n].lines :
          LET s == CHOOSE s \in Slot : serving[s] = Free IN
          /\ Lacks(n, line)
          /\ disk' = [disk EXCEPT ![n].keys = @ \cup {line.name}]
          /\ serving' = [serving EXCEPT ![s] =
                [pc |-> "ask", node |-> n, name |-> line.name, waited |-> TRUE,
                 cert |-> 0, key |-> 0]]
          /\ agent' = [Drop(n, line) EXCEPT ![n].pc = "wait"]
    BY <1>8 DEF SendCsr
  <2>2. agent[n].pc = "names" /\ line.name \in Name
    BY <1>6, <1>8 DEF SendCsr, Line
  <2>3. agent' \in [Node -> Run]
    BY <1>1, <1>6, <2>1, <2>2 DEF Drop
  <2>4. disk' \in [Node -> Disk]
    <3>1. [disk[n] EXCEPT !.keys = @ \cup {line.name}] \in Disk
      BY <1>1, <2>2 DEF Disk
    <3> QED
      BY <1>1, <2>1, <3>1
  <2>5. serving' \in [Slot -> Serving \cup {Free}]
    <3>1. [pc |-> "ask", node |-> n, name |-> line.name, waited |-> TRUE,
           cert |-> 0, key |-> 0] \in Serving
      BY <2>2 DEF Serving
    <3>2. serving \in [Slot -> Serving \cup {Free}]
      BY <1>1 DEF WorkTyped
    <3> QED
      BY <2>1, <3>1, <3>2
  <2>6. WorkTyped'
    BY <1>1, <1>8, <2>5 DEF SendCsr, WorkTyped
  <2> QED
    BY <1>8, <2>3, <2>4, <2>6
    DEF SendCsr, Typed, NodesTyped, PanelTyped, HeadscaleTyped
<1>9. ASSUME FetchCert(n) PROVE Typed'
  <2>1. PICK line \in agent[n].lines :
          /\ agent' = Drop(n, line)
          /\ disk' = IF /\ line.fp \notin {NoCert, disk[n].crt[line.name]}
                        /\ may_ask(n, line.name)
                        /\ held(rows[line.name]) # NoCert
                     THEN [disk EXCEPT ![n].crt[line.name] =
                              held(rows[line.name])]
                     ELSE disk
    BY <1>9 DEF FetchCert
  <2>2. agent[n].pc = "names" /\ line.name \in Name
    BY <1>6, <1>9 DEF FetchCert, Line
  <2>3. agent' \in [Node -> Run]
    BY <1>1, <1>6, <2>1, <2>2 DEF Drop
  <2>4. disk' \in [Node -> Disk]
    <3>1. held(rows[line.name]) \in Cert \cup {NoCert}
      BY <1>1, <2>2, HeldTyped
    <3>2. [disk[n] EXCEPT !.crt[line.name] = held(rows[line.name])] \in Disk
      BY <1>1, <2>2, <3>1 DEF Disk
    <3> QED
      BY <1>1, <2>1, <3>2
  <2> QED
    BY <1>2, <1>9, <2>3, <2>4 DEF FetchCert, NodesTyped
<1>10. ASSUME Done(n) PROVE Typed'
  <2>1. NodesTyped'
    BY <1>3, <1>10 DEF Done, Run
  <2> QED
    BY <1>2, <1>10, <2>1 DEF Done
<1>11. ASSUME GiveUp(n) PROVE Typed'
  <2>1. NodesTyped'
    BY <1>1, <1>6, <1>11 DEF GiveUp, NodesTyped
  <2>2. serving' \in [Slot -> Serving \cup {Free}]
    <3>1. \A s \in Slot : serving[s] # Free =>
              [serving[s] EXCEPT !.waited = FALSE] \in Serving
      <4> SUFFICES ASSUME NEW s \in Slot, serving[s] # Free
                   PROVE  [serving[s] EXCEPT !.waited = FALSE] \in Serving
        OBVIOUS
      <4>1. serving[s] \in Serving
        BY <1>1, Serves
      <4> QED
        BY <4>1 DEF Serving
    <3>2. serving \in [Slot -> Serving \cup {Free}]
      BY <1>1 DEF WorkTyped
    <3> QED
      BY <1>11, <3>1, <3>2 DEF GiveUp
  <2>3. world' \in World
    BY <1>1, <1>11 DEF GiveUp, WorkTyped, World
  <2> QED
    BY <1>1, <1>11, <2>1, <2>2, <2>3
    DEF GiveUp, Typed, WorkTyped, PanelTyped, HeadscaleTyped
<1> QED
  BY <1>4, <1>5, <1>7, <1>8, <1>9, <1>10, <1>11 DEF AgentRun

(* A request for a certificate only ends, moves on, or answers.            *)
LEMMA ServedTyped ==
    ASSUME Typed, NEW s \in Slot, NEW c \in Serving \cup {Free},
           serving' = [serving EXCEPT ![s] = c],
           UNCHANGED <<task, collector, world>>
    PROVE  WorkTyped'
BY DEF Typed, WorkTyped

LEMMA GotoTyped ==
    ASSUME Typed, NEW s \in Slot, serving[s] \in Serving,
           NEW where \in Inside, Goto(s, where),
           UNCHANGED <<task, collector, world>>
    PROVE  WorkTyped'
<1>1. [serving[s] EXCEPT !.pc = where] \in Serving
  BY DEF Serving
<1>2. serving' = [serving EXCEPT ![s] = [serving[s] EXCEPT !.pc = where]]
  BY DEF Goto
<1> QED
  BY <1>1, <1>2, ServedTyped

LEMMA AnswerTyped ==
    ASSUME Typed, Waiting, NEW s \in Slot, serving[s] \in Serving,
           NEW c \in Cert \cup {NoCert}, Answer(s, c),
           UNCHANGED <<task, collector, world>>
    PROVE  WorkTyped' /\ NodesTyped'
<1> USE DEF nodes
<1>1. WorkTyped'
  BY ServedTyped DEF Answer
<1>2. serving[s].node \in Node /\ serving[s].name \in Name
  BY DEF Serving
<1>3. CASE serving[s].waited
  <2> DEFINE n == serving[s].node
             x == serving[s].name
  <2>1. agent' \in [Node -> Run]
    <3>1. agent' = [agent EXCEPT ![n].pc = "names"]
      BY <1>3 DEF Answer
    <3>2. serving[s] # Free
      BY DEF Serving, Free, Inside
    <3>3. agent[n].pc = "wait"
      BY <1>3, <3>2 DEF Waiting, Waits
    <3>4. [agent[n] EXCEPT !.pc = "names"] \in Run
      BY <1>2, <3>3, RunAt DEF Typed, Run
    <3>5. agent \in [Node -> Run]
      BY DEF Typed, NodesTyped
    <3> QED
      BY <3>1, <3>4, <3>5
  <2>2. disk' = disk \/ disk' = [disk EXCEPT ![n].crt[x] = c]
    BY <1>3 DEF Answer
  <2>3. disk' \in [Node -> Disk]
    <3>1. disk[n] \in Disk /\ disk \in [Node -> Disk]
      BY <1>2 DEF Typed, NodesTyped
    <3>2. [disk[n] EXCEPT !.crt[x] = c] \in Disk
      BY <1>2, <3>1 DEF Disk
    <3> QED
      BY <2>2, <3>1, <3>2
  <2> QED
    BY <1>1, <2>1, <2>3 DEF NodesTyped
<1>4. CASE ~ serving[s].waited
  BY <1>1, <1>4 DEF Answer, Typed, NodesTyped
<1> QED
  BY <1>3, <1>4

LEMMA ServeTyped ==
    ASSUME Typed, Waiting, NEW s \in Slot, Serve(s) PROVE Typed'
<1> USE DEF panel, headscale, nodes
<1>1. /\ root \in Root /\ rows \in [Name -> Row \cup {NoRow}] /\ made \in Nat
      /\ WorkTyped /\ PanelTyped /\ HeadscaleTyped /\ NodesTyped
  BY DEF Typed, PanelTyped
<1>2. UNCHANGED <<headscale, task, collector, world, records, agents>>
  BY DEF Serve, Ask, Begin, ReadCert, ReadKey, MakeKey, MakeCert, Sign, Store
<1>3. serving[s].pc \in Inside \cup {"ask", "lock"}
  BY DEF Serve, Ask, Begin, ReadCert, ReadKey, MakeKey, MakeCert, Sign, Store,
     At, Inside
<1>4. serving[s] \in Serving
  BY <1>1, <1>3, ServingAt DEF At, Inside
<1>5. serving[s].name \in Name /\ serving[s].node \in Node
      /\ serving[s].cert \in Nat /\ serving[s].key \in Nat
  BY <1>4 DEF Serving
<1>6. ASSUME root' \in Root, rows' \in [Name -> Row \cup {NoRow}], made' \in Nat,
             WorkTyped', NodesTyped'
      PROVE  Typed'
  BY <1>1, <1>2, <1>6 DEF Typed, PanelTyped, HeadscaleTyped
<1>7. ASSUME UNCHANGED <<agent, disk>> PROVE NodesTyped'
  BY <1>1, <1>7 DEF NodesTyped
<1>8. NoCert \in Cert \cup {NoCert}
  OBVIOUS
<1>9. ASSUME Ask(s) PROVE Typed'
  <2>1. CASE Goto(s, "lock") /\ UNCHANGED nodes
    <3>1. [serving[s] EXCEPT !.pc = "lock"] \in Serving
      BY <1>4 DEF Serving
    <3>2. WorkTyped'
      BY <1>2, <2>1, <3>1, ServedTyped DEF Goto
    <3> QED
      BY <1>1, <1>6, <1>7, <1>9, <2>1, <3>2 DEF Ask
  <2>2. CASE Answer(s, NoCert)
    BY <1>1, <1>2, <1>4, <1>6, <1>8, <1>9, <2>2, AnswerTyped DEF Ask
  <2> QED
    BY <1>9, <2>1, <2>2 DEF Ask
<1>10. ASSUME Begin(s) PROVE Typed'
  <2> DEFINE x == serving[s].name
  <2>1. rows[x] \in Row \cup {NoRow}
    BY <1>1, <1>5
  <2>2. CASE rows[x] # NoRow /\ rows[x].status = "ok" /\ ~ rows[x].due
    <3>1. rows[x].cert \in Cert \cup {NoCert}
      BY <2>1, <2>2 DEF Row
    <3> QED
      BY <1>1, <1>2, <1>4, <1>6, <1>10, <2>2, <3>1, AnswerTyped DEF Begin
  <2>3. CASE ~ (rows[x] # NoRow /\ rows[x].status = "ok" /\ ~ rows[x].due)
    <3>1. begun(rows[x]) \in Row
      <4>1. CASE rows[x] = NoRow
        BY <4>1 DEF begun, Row
      <4>2. CASE rows[x] \in Row /\ rows[x] # NoRow
        BY <4>2 DEF begun, Row
      <4> QED
        BY <2>1, <4>1, <4>2
    <3>2. rows' = [rows EXCEPT ![x] = begun(@)] /\ Goto(s, "cert")
          /\ UNCHANGED <<nodes, root, made>>
      BY <1>10, <2>3 DEF Begin
    <3>3. WorkTyped'
      BY <1>2, <1>4, <3>2, GotoTyped DEF Inside
    <3> QED
      BY <1>1, <1>6, <1>7, <3>1, <3>2, <3>3
  <2> QED
    BY <2>2, <2>3
<1>11. ASSUME ReadCert(s) PROVE Typed'
  <2>1. [[serving[s] EXCEPT !.pc = "key"] EXCEPT !.cert = root.cert] \in Serving
    BY <1>1, <1>4 DEF Serving, Root, Inside
  <2>2. WorkTyped'
    BY <1>2, <1>11, <2>1, ServedTyped DEF ReadCert
  <2> QED
    BY <1>1, <1>6, <1>7, <1>11, <2>2 DEF ReadCert
<1>12. ASSUME ReadKey(s) PROVE Typed'
  <2>1. WorkTyped'
    BY <1>2, <1>4, <1>12, GotoTyped DEF ReadKey, Inside
  <2> QED
    BY <1>1, <1>6, <1>7, <1>12, <2>1 DEF ReadKey
<1>13. ASSUME MakeKey(s) PROVE Typed'
  <2> DEFINE c == [serving[s] EXCEPT !.pc = "make_cert", !.cert = made']
  <2>1. root' \in Root /\ made' \in Nat
    BY <1>1, <1>13 DEF MakeKey, Root
  <2>2. c \in Serving
    BY <1>4, <2>1 DEF Serving, Inside
  <2>3. WorkTyped'
    <3>1. serving' = [serving EXCEPT ![s] = c]
      BY <1>13 DEF MakeKey
    <3> HIDE DEF c
    <3> QED
      BY <1>2, <2>2, <3>1, ServedTyped
  <2> QED
    BY <1>1, <1>6, <1>7, <1>13, <2>1, <2>3 DEF MakeKey
<1>14. ASSUME MakeCert(s) PROVE Typed'
  <2>1. WorkTyped'
    BY <1>2, <1>4, <1>14, GotoTyped DEF MakeCert, Inside
  <2>2. root' \in Root
    BY <1>1, <1>5, <1>14 DEF MakeCert, Root
  <2> QED
    BY <1>1, <1>6, <1>7, <1>14, <2>1, <2>2 DEF MakeCert
<1>15. ASSUME Sign(s) PROVE Typed'
  <2> DEFINE k == IF serving[s].name \in PublicName THEN 0 ELSE root.key
             c == [serving[s] EXCEPT !.pc = "store", !.key = k]
  <2>1. c \in Serving
    <3>1. k \in Nat
      BY <1>1 DEF Root
    <3> HIDE DEF k
    <3> QED
      BY <1>4, <3>1 DEF Serving, Inside
  <2>2. WorkTyped'
    <3>1. serving' = [serving EXCEPT ![s] = c]
      BY <1>15 DEF Sign
    <3> HIDE DEF c
    <3> QED
      BY <1>2, <2>1, <3>1, ServedTyped
  <2> QED
    BY <1>1, <1>6, <1>7, <1>15, <2>2 DEF Sign
<1>16. ASSUME Store(s) PROVE Typed'
  <2> DEFINE x == serving[s].name
             new == [root |-> serving[s].key, key |-> serving[s].node,
                     no |-> made + 1]
  <2>1. CASE Answer(s, NoCert) /\ UNCHANGED <<rows, made, root>>
    BY <1>1, <1>2, <1>4, <1>6, <1>8, <2>1, AnswerTyped
  <2>2. CASE /\ rows[x] # NoRow /\ Answer(s, NoCert) /\ UNCHANGED <<made, root>>
             /\ rows' = [rows EXCEPT ![x].status = "error", ![x].paused = TRUE]
    <3>1. [[rows[x] EXCEPT !.status = "error"] EXCEPT !.paused = TRUE] \in Row
      BY <1>1, <1>5, <2>2 DEF Row
    <3>2. rows' \in [Name -> Row \cup {NoRow}]
      BY <1>1, <1>5, <2>2, <3>1
    <3> QED
      BY <1>1, <1>2, <1>4, <1>6, <1>8, <2>2, <3>2, AnswerTyped
  <2>3. CASE /\ rows[x] # NoRow /\ serving[s].key # 0
             /\ rows' = [rows EXCEPT ![x] = [status |-> "ok", cert |-> new,
                                             due |-> FALSE, paused |-> FALSE]]
             /\ Answer(s, new) /\ made' = made + 1 /\ UNCHANGED root
    <3>1. new \in Cert
      BY <1>1, <1>5, <2>3 DEF Cert
    <3>2. [status |-> "ok", cert |-> new, due |-> FALSE, paused |-> FALSE] \in Row
      BY <3>1 DEF Row
    <3>3. WorkTyped' /\ NodesTyped'
      BY <1>2, <1>4, <2>3, <3>1, AnswerTyped
    <3>4. rows' \in [Name -> Row \cup {NoRow}]
      BY <1>1, <1>5, <2>3, <3>2
    <3>5. made' \in Nat
      BY <1>1, <2>3
    <3> QED
      BY <1>1, <1>6, <2>3, <3>3, <3>4, <3>5
  <2> QED
    BY <1>16, <2>1, <2>2, <2>3 DEF Store
<1> QED
  BY <1>9, <1>10, <1>11, <1>12, <1>13, <1>14, <1>15, <1>16 DEF Serve

(* The steps of an administrator's request.                                *)
LEMMA TaskTyped ==
    ASSUME Typed, NEW t \in Task, NEW j \in Job, task' = [task EXCEPT ![t] = j],
           UNCHANGED <<serving, collector>>, world' \in World
    PROVE  WorkTyped'
BY DEF Typed, WorkTyped

LEMMA EndTyped ==
    ASSUME Typed, NEW t \in Task, End(t), UNCHANGED <<serving, collector>>,
           world' \in World
    PROVE  WorkTyped'
<1>1. Idle \in Job
  BY DEF Job
<1> QED
  BY <1>1, TaskTyped DEF End

(* A request that moves on to a place of its kind.                         *)
LEMMA ThenTyped ==
    ASSUME Typed, NEW t \in Task, NEW where, Then(t, where),
           UNCHANGED <<serving, collector>>, world' \in World,
           \/ task[t] \in Editing /\ where \in {"set", "unused"}
           \/ task[t] \in Reissuing /\ where = "key"
           \/ task[t] \in Replacing /\ where = "select"
           \/ task[t] \in Deleting /\ where = "refs"
    PROVE  WorkTyped'
<1> DEFINE j == [task[t] EXCEPT !.pc = where]
<1>1. j \in Job
  <2>1. CASE task[t] \in Editing /\ where \in {"set", "unused"}
    BY <2>1 DEF Editing, Job
  <2>2. CASE task[t] \in Reissuing /\ where = "key"
    BY <2>2 DEF Reissuing, Job
  <2>3. CASE task[t] \in Replacing /\ where = "select"
    BY <2>3 DEF Replacing, Job
  <2>4. CASE task[t] \in Deleting /\ where = "refs"
    BY <2>4 DEF Deleting, Job
  <2> QED
    BY <2>1, <2>2, <2>3, <2>4
<1>2. task' = [task EXCEPT ![t] = j]
  BY DEF Then
<1> HIDE DEF j
<1> QED
  BY <1>1, <1>2, TaskTyped

LEMMA RequestOf ==
    ASSUME NEW q \in Request
    PROVE  /\ q.op \in {"records", "dns", "ca", "delete"}
           /\ q.op = "records" => q.records \in Lists
           /\ q.op = "ca" => q.auto \in BOOLEAN
           /\ q.op = "delete" => q.node \in Node
BY DEF Request

LEMMA ForgetTyped ==
    ASSUME PanelTyped, NEW names
    PROVE  without(names) \in [Name -> Row \cup {NoRow}]
BY DEF PanelTyped, without

LEMMA WorkStepTyped ==
    ASSUME Typed, NEW t \in Task, StartTask(t) \/ Work(t) PROVE Typed'
<1> USE DEF panel, headscale, nodes
<1>1. /\ root \in Root /\ rows \in [Name -> Row \cup {NoRow}] /\ made \in Nat
      /\ WorkTyped /\ PanelTyped /\ HeadscaleTyped /\ NodesTyped
      /\ addr \in Addrs /\ world \in World /\ records \in Lists
      /\ agents \subseteq Node
  BY DEF Typed, PanelTyped, HeadscaleTyped, WorkTyped
<1>2. UNCHANGED <<agent, disk, serving, collector>>
  BY DEF StartTask, Work, ReadNodes, WriteNames, SetRecords, UnusedRows, ForgetRows,
     WriteDns, SetAuto, RotateKey, RotateCert, SelectRows, DropRows,
     LeaveHeadscale, forget_node_refs
<1>3. ASSUME PanelTyped', HeadscaleTyped', WorkTyped' PROVE Typed'
  BY <1>1, <1>2, <1>3 DEF Typed, NodesTyped
<1>4. ASSUME UNCHANGED <<addr, file, config>> PROVE HeadscaleTyped'
  BY <1>1, <1>4 DEF HeadscaleTyped
<1>5. ASSUME UNCHANGED panel PROVE PanelTyped'
  BY <1>1, <1>5 DEF PanelTyped
<1>6. ASSUME rows' \in [Name -> Row \cup {NoRow}], root' \in Root,
             made' \in Nat, UNCHANGED <<records, agents>>
      PROVE  PanelTyped'
  BY <1>1, <1>6 DEF PanelTyped
<1>7. ASSUME StartTask(t) PROVE Typed'
  <2>1. PICK q \in world.requests :
            task' = [task EXCEPT ![t] = [pc |-> First[q.op], req |-> q,
                                         seen |-> addr, names |-> {}]]
    BY <1>7 DEF StartTask
  <2>2. q \in Request
    BY <1>1 DEF World
  <2> DEFINE j == [pc |-> First[q.op], req |-> q, seen |-> addr, names |-> {}]
  <2>3. j \in Job
    <3>1. CASE q.op = "records"
      BY <1>1, <2>2, <3>1 DEF Job, Editing, Of, First
    <3>2. CASE q.op = "dns"
      BY <1>1, <2>2, <3>2 DEF Job, Routing, Of, First
    <3>3. CASE q.op = "ca"
      BY <1>1, <2>2, <3>3 DEF Job, Reissuing, Of, First
    <3>4. CASE q.op = "delete"
      BY <1>1, <2>2, <3>4 DEF Job, Deleting, Of, First
    <3> QED
      BY <2>2, <3>1, <3>2, <3>3, <3>4, RequestOf
  <2>4. world' \in World
    BY <1>1, <1>7 DEF StartTask, World
  <2>5. WorkTyped'
    <3> HIDE DEF j
    <3> QED
      BY <1>2, <2>1, <2>3, <2>4, TaskTyped DEF j
  <2> QED
    BY <1>3, <1>4, <1>5, <1>7, <2>5 DEF StartTask
<1>8. ASSUME ReadNodes(t) PROVE Typed'
  <2>1. task[t] \in Editing
    BY <1>1, <1>8, TaskAt DEF ReadNodes, Doing
  <2>2. CASE End(t)
    BY <1>1, <1>2, <1>3, <1>4, <1>5, <1>8, <2>2, EndTyped DEF ReadNodes
  <2>3. CASE task' = [task EXCEPT ![t].pc = "write", ![t].seen = addr]
    <3> DEFINE j == [task[t] EXCEPT !.pc = "write", !.seen = addr]
    <3>1. j \in Job
      BY <1>1, <2>1 DEF Editing, Job
    <3>2. task' = [task EXCEPT ![t] = j]
      BY <2>3
    <3> HIDE DEF j
    <3>3. WorkTyped'
      BY <1>1, <1>2, <1>8, <3>1, <3>2, TaskTyped DEF ReadNodes
    <3> QED
      BY <1>3, <1>4, <1>5, <1>8, <3>3 DEF ReadNodes
  <2> QED
    BY <1>8, <2>2, <2>3 DEF ReadNodes
<1>9. ASSUME WriteNames(t) PROVE Typed'
  <2> DEFINE R == task[t].req.records
  <2>1. task[t] \in Editing /\ R \in Lists
    <3>1. task[t] \in Editing
      BY <1>1, <1>9, TaskAt DEF WriteNames, Doing
    <3> QED
      BY <3>1, RequestOf DEF Editing, Of
  <2>2. PICK k \in 0..3 :
            LET written == {edits[i] : i \in 1..k}
            IN  /\ k < 3 => world.faults > 0
                /\ file' = IF "file" \in written
                           THEN [there |-> TRUE,
                                 names |-> entries_for(R, task[t].seen)]
                           ELSE file
                /\ config' = [path |-> config.path \/ "path" \in written,
                              zones |-> IF "zones" \in written
                                        THEN zones_with(config.zones,
                                                        routes_for_split(R))
                                        ELSE config.zones]
                /\ IF k = 3 THEN Then(t, "set") ELSE End(t)
                /\ world' = [world EXCEPT !.faults = IF k = 3 THEN @ ELSE @ - 1]
    BY <1>9 DEF WriteNames
  <2>3. world' \in World
    BY <1>1, <2>2 DEF World
  <2>4. WorkTyped'
    BY <1>2, <2>1, <2>2, <2>3, EndTyped, ThenTyped
  <2>5. HeadscaleTyped'
    <3>1. entries_for(R, task[t].seen) \in SUBSET (Name \X Addr)
      BY DEF entries_for
    <3>2. file' \in [there : BOOLEAN, names : SUBSET (Name \X Addr)]
      BY <1>1, <2>2, <3>1 DEF HeadscaleTyped
    <3>3. config.zones \subseteq Zone /\ config.path \in BOOLEAN
      BY <1>1 DEF HeadscaleTyped
    <3>4. zones_with(config.zones, routes_for_split(R)) \subseteq Zone
      BY <2>1, <3>3, ZonesTyped DEF zones_with
    <3>5. config' \in [path : BOOLEAN, zones : SUBSET Zone]
      BY <2>2, <3>3, <3>4
    <3> QED
      BY <1>1, <1>9, <3>2, <3>5 DEF WriteNames, HeadscaleTyped
  <2> QED
    BY <1>3, <1>5, <1>9, <2>4, <2>5 DEF WriteNames
<1>10. ASSUME SetRecords(t) PROVE Typed'
  <2>1. task[t] \in Editing
    BY <1>1, <1>10, TaskAt DEF SetRecords, Doing
  <2>2. records' \in Lists
    BY <1>10, <2>1, RequestOf DEF SetRecords, Editing, Of
  <2>3. WorkTyped'
    BY <1>1, <1>2, <1>10, <2>1, ThenTyped DEF SetRecords
  <2>4. PanelTyped'
    BY <1>1, <1>10, <2>2 DEF SetRecords, PanelTyped
  <2> QED
    BY <1>3, <1>4, <1>10, <2>3, <2>4 DEF SetRecords
<1>11. ASSUME ForgetRows(t) \/ DropRows(t) PROVE Typed'
  <2>1. WorkTyped'
    BY <1>1, <1>2, <1>11, EndTyped DEF ForgetRows, DropRows
  <2>2. PanelTyped'
    BY <1>1, <1>6, <1>11, ForgetTyped DEF ForgetRows, DropRows
  <2> QED
    BY <1>3, <1>4, <1>11, <2>1, <2>2 DEF ForgetRows, DropRows
<1>12. ASSUME WriteDns(t) PROVE Typed'
  <2>1. WorkTyped'
    BY <1>1, <1>2, <1>12, EndTyped DEF WriteDns
  <2>2. routes_for_split(records) \subseteq Zone
    BY <1>1, ZonesTyped
  <2>3. HeadscaleTyped'
    BY <1>1, <1>12, <2>2 DEF WriteDns, HeadscaleTyped
  <2> QED
    BY <1>3, <1>5, <1>12, <2>1, <2>3 DEF WriteDns
<1>13. ASSUME SetAuto(t) PROVE Typed'
  <2>1. task[t] \in Reissuing /\ task[t].req.auto \in BOOLEAN
    <3>1. task[t] \in Reissuing
      BY <1>1, <1>13, TaskAt DEF SetAuto, Doing
    <3> QED
      BY <3>1, RequestOf DEF Reissuing, Of
  <2>2. WorkTyped'
    BY <1>1, <1>2, <1>13, <2>1, EndTyped, ThenTyped DEF SetAuto
  <2>3. root' \in Root
    BY <1>1, <1>13, <2>1 DEF SetAuto, Root
  <2> QED
    BY <1>1, <1>3, <1>4, <1>6, <1>13, <2>2, <2>3 DEF SetAuto
<1>14. ASSUME RotateKey(t) PROVE Typed'
  <2> DEFINE j == [task[t] EXCEPT !.pc = "cert", !.seen = made']
  <2>1. task[t] \in Reissuing
    BY <1>1, <1>14, TaskAt DEF RotateKey, Doing
  <2>2. made' \in Nat /\ root' \in Root
    BY <1>1, <1>14 DEF RotateKey, Root
  <2>3. j \in Job
    BY <2>1, <2>2 DEF Reissuing, Replacing, Job
  <2>4. task' = [task EXCEPT ![t] = j]
    BY <1>14 DEF RotateKey
  <2> HIDE DEF j
  <2>5. WorkTyped'
    BY <1>1, <1>2, <1>14, <2>3, <2>4, TaskTyped DEF RotateKey
  <2> QED
    BY <1>1, <1>3, <1>4, <1>6, <1>14, <2>2, <2>5 DEF RotateKey
<1>15. ASSUME RotateCert(t) PROVE Typed'
  <2>1. task[t] \in Replacing
    BY <1>1, <1>15, TaskAt DEF RotateCert, Doing
  <2>2. WorkTyped'
    BY <1>1, <1>2, <1>15, <2>1, ThenTyped DEF RotateCert
  <2>3. root' \in Root
    BY <1>1, <1>15, <2>1 DEF RotateCert, Root, Replacing
  <2> QED
    BY <1>1, <1>3, <1>4, <1>6, <1>15, <2>2, <2>3 DEF RotateCert
<1>16. ASSUME SelectRows(t) PROVE Typed'
  <2> DEFINE j == [task[t] EXCEPT !.pc = "drop", !.names = all_certs]
  <2>1. task[t] \in Replacing
    BY <1>1, <1>16, TaskAt DEF SelectRows, Doing
  <2>2. j \in Job
    <3>1. all_certs \in SUBSET Name
      BY DEF all_certs
    <3> QED
      BY <2>1, <3>1 DEF Replacing, Job
  <2>3. task' = [task EXCEPT ![t] = j]
    BY <1>16 DEF SelectRows
  <2> HIDE DEF j
  <2>4. WorkTyped'
    BY <1>1, <1>2, <1>16, <2>2, <2>3, TaskTyped DEF SelectRows
  <2> QED
    BY <1>3, <1>4, <1>5, <1>16, <2>4 DEF SelectRows
<1>17. ASSUME LeaveHeadscale(t) PROVE Typed'
  <2>1. task[t] \in Deleting
    BY <1>1, <1>17, TaskAt DEF LeaveHeadscale, Doing
  <2>2. WorkTyped'
    BY <1>1, <1>2, <1>17, <2>1, ThenTyped DEF LeaveHeadscale
  <2>3. HeadscaleTyped'
    BY <1>1, <1>17 DEF LeaveHeadscale, HeadscaleTyped, Addrs
  <2> QED
    BY <1>3, <1>5, <1>17, <2>2, <2>3 DEF LeaveHeadscale
<1>18. ASSUME forget_node_refs(t) PROVE Typed'
  <2>1. WorkTyped'
    BY <1>1, <1>2, <1>18, EndTyped DEF forget_node_refs
  <2>2. records' \in Lists
    BY <1>1, <1>18 DEF forget_node_refs, Lists
  <2>3. PanelTyped'
    BY <1>1, <1>18, <2>2 DEF forget_node_refs, PanelTyped
  <2> QED
    BY <1>3, <1>4, <1>18, <2>1, <2>3 DEF forget_node_refs
<1>19. ASSUME UnusedRows(t) PROVE Typed'
  <2> DEFINE gone == all_certs \ WithCert(task[t].req.records)
  <2> DEFINE j == [task[t] EXCEPT !.pc = "forget", !.names = gone]
  <2>1. task[t] \in Editing
    BY <1>1, <1>19, TaskAt DEF UnusedRows, Doing
  <2>2. gone \in SUBSET Name
    BY DEF all_certs
  <2>3. task' = [task EXCEPT ![t] = j]
    BY <1>19 DEF UnusedRows
  <2> HIDE DEF gone
  <2>4. j \in Job
    BY <2>1, <2>2 DEF Editing, Job
  <2> HIDE DEF j
  <2>5. WorkTyped'
    BY <1>1, <1>2, <1>19, <2>3, <2>4, TaskTyped DEF UnusedRows
  <2> QED
    BY <1>3, <1>4, <1>5, <1>19, <2>5 DEF UnusedRows
<1> QED
  BY <1>7, <1>8, <1>9, <1>10, <1>11, <1>12, <1>13, <1>14, <1>15, <1>16, <1>17,
     <1>18, <1>19 DEF Work

(* The collector, and what happens outside the panel.                      *)
LEMMA AroundTyped ==
    ASSUME Typed,
           \/ Collect \/ Restart
           \/ \E n \in Node : Readdress(n)
           \/ \E x \in Name : Age(x) \/ Unpause(x)
    PROVE  Typed'
<1> USE DEF panel, headscale, nodes
<1>1. /\ rows \in [Name -> Row \cup {NoRow}] /\ world \in World
      /\ WorkTyped /\ PanelTyped /\ HeadscaleTyped /\ NodesTyped
      /\ addr \in Addrs /\ records \in Lists /\ collector \in Cycle
  BY DEF Typed, PanelTyped, HeadscaleTyped, WorkTyped
<1>2. ASSUME CollectNodes PROVE Typed'
  <2>1. collector' \in Cycle
    BY <1>1, <1>2 DEF CollectNodes, Cycle
  <2> QED
    BY <1>1, <1>2, <2>1 DEF CollectNodes, Typed, WorkTyped, PanelTyped,
       HeadscaleTyped, NodesTyped
<1>3. ASSUME sync PROVE Typed'
  <2>1. file' \in [there : BOOLEAN, names : SUBSET (Name \X Addr)]
    BY <1>1, <1>3 DEF sync, HeadscaleTyped, entries_for
  <2>2. collector' \in Cycle
    BY <1>3 DEF sync, Cycle
  <2> QED
    BY <1>1, <1>3, <2>1, <2>2 DEF sync, Typed, WorkTyped, PanelTyped,
       HeadscaleTyped, NodesTyped
<1>4. ASSUME CollectNames PROVE Typed'
  <2>1. collector' \in Cycle
    BY <1>4 DEF CollectNames, Cycle, WithCert, Listed
  <2> QED
    BY <1>1, <1>4, <2>1 DEF CollectNames, Typed, WorkTyped, PanelTyped,
       HeadscaleTyped, NodesTyped
<1>5. ASSUME CollectForget PROVE Typed'
  <2>1. collector' \in Cycle /\ rows' \in [Name -> Row \cup {NoRow}]
    BY <1>1, <1>5, ForgetTyped DEF CollectForget, Cycle
  <2> QED
    BY <1>1, <1>5, <2>1 DEF CollectForget, Typed, WorkTyped, PanelTyped,
       HeadscaleTyped, NodesTyped
<1>6. ASSUME Restart PROVE Typed'
  <2>1. agent' \in [Node -> Run]
    <3>1. \A n \in Node : agent[n].pc = "wait" =>
              [agent[n] EXCEPT !.pc = "names"] \in Run
      BY <1>1, RunAt DEF Run
    <3> QED
      BY <1>1, <1>6, <3>1 DEF Restart, NodesTyped
  <2>2. serving' \in [Slot -> Serving \cup {Free}] /\ task' \in [Task -> Job]
        /\ collector' \in Cycle
    BY <1>6 DEF Restart, Job, Cycle
  <2>3. world' \in World
    BY <1>1, <1>6 DEF Restart, World
  <2> QED
    BY <1>1, <1>6, <2>1, <2>2, <2>3 DEF Restart, Typed, WorkTyped, PanelTyped,
       HeadscaleTyped, NodesTyped
<1>7. ASSUME NEW n \in Node, Readdress(n) PROVE Typed'
  <2>1. addr' \in Addrs /\ world' \in World
    BY <1>1, <1>7 DEF Readdress, Addrs, World
  <2> QED
    BY <1>1, <1>7, <2>1 DEF Readdress, Typed, WorkTyped, PanelTyped,
       HeadscaleTyped, NodesTyped
<1>8. ASSUME NEW x \in Name, Age(x) \/ Unpause(x) PROVE Typed'
  <2>1. rows[x] \in Row
    BY <1>1, <1>8 DEF Age, Unpause, NoRow
  <2>2. rows' \in [Name -> Row \cup {NoRow}]
    <3>1. [rows[x] EXCEPT !.due = TRUE] \in Row
      BY <2>1 DEF Row
    <3>2. [rows[x] EXCEPT !.paused = FALSE] \in Row
      BY <2>1 DEF Row
    <3>3. \/ rows' = [rows EXCEPT ![x] = [rows[x] EXCEPT !.due = TRUE]]
          \/ rows' = [rows EXCEPT ![x] = [rows[x] EXCEPT !.paused = FALSE]]
      BY <1>8 DEF Age, Unpause
    <3> QED
      BY <1>1, <3>1, <3>2, <3>3
  <2>3. world' \in World
    BY <1>1, <1>8 DEF Age, Unpause, World
  <2> QED
    BY <1>1, <1>8, <2>2, <2>3 DEF Age, Unpause, Typed, WorkTyped, PanelTyped,
       HeadscaleTyped, NodesTyped
<1>9. ASSUME CollectUnused PROVE Typed'
  <2>1. collector' \in Cycle
    BY <1>9 DEF CollectUnused, Cycle, all_certs
  <2> QED
    BY <1>1, <1>9, <2>1 DEF CollectUnused, Typed, WorkTyped, PanelTyped,
       HeadscaleTyped, NodesTyped
<1> QED
  BY <1>2, <1>3, <1>4, <1>5, <1>6, <1>7, <1>8, <1>9 DEF Collect

LEMMA TypedStep == ASSUME Typed, Waiting, [Next]_vars PROVE Typed'
<1>1. CASE UNCHANGED vars
  BY <1>1 DEF vars, panel, headscale, nodes, Typed, PanelTyped, HeadscaleTyped,
     NodesTyped, WorkTyped
<1> QED
  BY <1>1, AgentTyped, ServeTyped, WorkStepTyped, AroundTyped DEF Next

(* --- requests for certificates, one for a name at a time ------------------ *)

LockHeld == \A s, u \in Slot :
    (/\ serving[s].pc \in Inside /\ serving[u].pc \in Inside
     /\ serving[s].name = serving[u].name) => s = u

(* What a request has begun nobody else ends.                              *)
UnderWay == \A s \in Slot :
    serving[s].pc \in Inside =>
        rows[serving[s].name].status \in {"issuing", "none"}

(* A certificate in force is there.                                        *)
InForce == \A x \in Name : rows[x].status = "ok" => rows[x].cert # NoCert

TypeInv == Typed /\ Waiting /\ LockHeld /\ UnderWay /\ InForce

LEMMA InitInv == ASSUME Init PROVE TypeInv
BY InitTyped
   DEF Init, TypeInv, Waiting, Waits, LockHeld, UnderWay, InForce, Free, Inside,
       NoRow

(* What a step of a request does to it and to the row of its name.         *)
Moved(s) ==
    /\ \A u \in Slot : u # s => serving'[u] = serving[u]
    /\ \/ serving'[s] = Free
       \/ /\ serving'[s].node = serving[s].node
          /\ serving'[s].name = serving[s].name
          /\ serving'[s].waited = serving[s].waited
          /\ serving[s].pc \in Inside \/ ~ Locked(serving[s].name)
             \/ serving'[s].pc \notin Inside

LEMMA ServeMoves ==
    ASSUME Typed, NEW s \in Slot, Serve(s)
    PROVE  /\ Moved(s) /\ serving[s] \in Serving
           /\ UNCHANGED <<addr, file, config, records, agents, task, collector,
                          world>>
<1> USE DEF headscale, panel
<1>1. UNCHANGED <<addr, file, config, records, agents, task, collector, world>>
  BY DEF Serve, Ask, Begin, ReadCert, ReadKey, MakeKey, MakeCert, Sign, Store
<1>2. serving[s].pc \in Inside \cup {"ask", "lock"}
  BY DEF Serve, Ask, Begin, ReadCert, ReadKey, MakeKey, MakeCert, Sign, Store,
     At, Inside
<1>3. serving[s] \in Serving /\ serving \in [Slot -> Serving \cup {Free}]
  BY <1>2, ServingAt DEF Typed, WorkTyped, At, Inside
<1> SUFFICES Moved(s)
  BY <1>1, <1>3
<1>4. ASSUME NEW c, serving' = [serving EXCEPT ![s] = c]
      PROVE  serving'[s] = c /\ \A u \in Slot : u # s => serving'[u] = serving[u]
  BY <1>3, <1>4
<1>5. ASSUME NEW c, Answer(s, c) PROVE Moved(s)
  BY <1>4, <1>5 DEF Answer, Moved
<1>6. ASSUME NEW where, Goto(s, where),
             serving[s].pc \in Inside \/ ~ Locked(serving[s].name)
             \/ where \notin Inside
      PROVE  Moved(s)
  <2>1. serving' = [serving EXCEPT ![s] = [serving[s] EXCEPT !.pc = where]]
    BY <1>6 DEF Goto
  <2>2. /\ [serving[s] EXCEPT !.pc = where].node = serving[s].node
        /\ [serving[s] EXCEPT !.pc = where].name = serving[s].name
        /\ [serving[s] EXCEPT !.pc = where].waited = serving[s].waited
        /\ [serving[s] EXCEPT !.pc = where].pc = where
    BY <1>3 DEF Serving
  <2> QED
    BY <1>4, <1>6, <2>1, <2>2 DEF Moved
<1>7. CASE Ask(s)
  BY <1>5, <1>6, <1>7 DEF Ask, Inside
<1>8. CASE Begin(s)
  BY <1>5, <1>6, <1>8 DEF Begin
<1>9. CASE ReadKey(s) \/ MakeCert(s)
  BY <1>6, <1>9 DEF ReadKey, MakeCert, At, Inside
<1>10. CASE ReadCert(s)
  <2> DEFINE c == [serving[s] EXCEPT !.pc = "key", !.cert = root.cert]
  <2>1. /\ c.node = serving[s].node /\ c.name = serving[s].name
        /\ c.waited = serving[s].waited
    BY <1>3 DEF Serving
  <2>2. serving' = [serving EXCEPT ![s] = c] /\ serving[s].pc \in Inside
    BY <1>10 DEF ReadCert, At, Inside
  <2> HIDE DEF c
  <2> QED
    BY <1>4, <2>1, <2>2 DEF Moved
<1>11. CASE MakeKey(s)
  <2> DEFINE c == [serving[s] EXCEPT !.pc = "make_cert", !.cert = made']
  <2>1. /\ c.node = serving[s].node /\ c.name = serving[s].name
        /\ c.waited = serving[s].waited
    BY <1>3 DEF Serving
  <2>2. serving' = [serving EXCEPT ![s] = c] /\ serving[s].pc \in Inside
    BY <1>11 DEF MakeKey, At, Inside
  <2> HIDE DEF c
  <2> QED
    BY <1>4, <2>1, <2>2 DEF Moved
<1>12. CASE Sign(s)
  <2> DEFINE k == IF serving[s].name \in PublicName THEN 0 ELSE root.key
             c == [serving[s] EXCEPT !.pc = "store", !.key = k]
  <2>1. /\ c.node = serving[s].node /\ c.name = serving[s].name
        /\ c.waited = serving[s].waited
    BY <1>3 DEF Serving
  <2>2. serving' = [serving EXCEPT ![s] = c] /\ serving[s].pc \in Inside
    BY <1>12 DEF Sign, At, Inside
  <2> HIDE DEF c
  <2> QED
    BY <1>4, <2>1, <2>2 DEF Moved
<1>13. CASE Store(s)
  BY <1>5, <1>13 DEF Store
<1> QED
  BY <1>7, <1>8, <1>9, <1>10, <1>11, <1>12, <1>13 DEF Serve

(* A step of an agent with the requests for certificates.                  *)
LEMMA AgentMoves ==
    ASSUME Typed, NEW n \in Node, AgentRun(n)
    PROVE  /\ agent[n].pc # "wait"
           /\ \A m \in Node : m # n => agent'[m] = agent[m]
           /\ \/ UNCHANGED serving
              \/ /\ agent'[n].pc = "wait"
                 /\ \E s \in Slot, x \in Name :
                      /\ serving[s] = Free
                      /\ serving' = [serving EXCEPT ![s] =
                            [pc |-> "ask", node |-> n, name |-> x,
                             waited |-> TRUE, cert |-> 0, key |-> 0]]
           /\ UNCHANGED <<panel, headscale, task, collector, world>>
<1>1. agent \in [Node -> Run]
  BY DEF Typed, NodesTyped
<1>2. UNCHANGED <<panel, headscale, task, collector, world>>
  BY DEF AgentRun, Poll, PollNames, InstallRoot, SendCsr, FetchCert, Done
<1>3. agent[n].pc # "wait"
  BY DEF AgentRun, Poll, PollNames, InstallRoot, SendCsr, FetchCert, Done
<1>4. \A m \in Node : m # n => agent'[m] = agent[m]
  BY <1>1 DEF AgentRun, Poll, PollNames, InstallRoot, SendCsr, FetchCert, Done,
     Drop
<1>5. CASE SendCsr(n)
  <2>1. PICK line \in agent[n].lines :
          /\ serving' = [serving EXCEPT ![CHOOSE s \in Slot : serving[s] = Free] =
                [pc |-> "ask", node |-> n, name |-> line.name, waited |-> TRUE,
                 cert |-> 0, key |-> 0]]
          /\ agent' = [Drop(n, line) EXCEPT ![n].pc = "wait"]
    BY <1>5 DEF SendCsr
  <2> DEFINE s == CHOOSE s \in Slot : serving[s] = Free
  <2>2. s \in Slot /\ serving[s] = Free
    BY <1>5 DEF SendCsr
  <2>3. agent[n] \in [pc : {"ca", "names", "wait"}, ca : Nat,
                      lines : SUBSET Line]
    BY <1>5, RunAt DEF SendCsr, Typed
  <2>4. line.name \in Name
    BY <2>3 DEF Line
  <2>5. agent'[n].pc = "wait"
    BY <1>1, <2>1, <2>3 DEF Drop
  <2> HIDE DEF s
  <2> QED
    BY <1>2, <1>3, <1>4, <2>1, <2>2, <2>4, <2>5 DEF s
<1>6. CASE ~ SendCsr(n)
  <2>1. UNCHANGED serving
    BY <1>6 DEF AgentRun, Poll, PollNames, InstallRoot, FetchCert, Done
  <2> QED
    BY <1>2, <1>3, <1>4, <2>1
<1> QED
  BY <1>5, <1>6

(* A request that is given up is one nobody waits for, and nothing else.   *)
LEMMA GiveUpMoves ==
    ASSUME Typed, NEW n \in Node, GiveUp(n)
    PROVE  \A s \in Slot :
              \/ serving[s] = Free /\ serving'[s] = Free
              \/ /\ serving'[s].pc = serving[s].pc
                 /\ serving'[s].node = serving[s].node
                 /\ serving'[s].name = serving[s].name
                 /\ serving'[s].cert = serving[s].cert
                 /\ serving'[s].key = serving[s].key
                 /\ serving[s] # Free
                 /\ Waits(s)' => Waits(s) /\ serving[s].node # n
<1> SUFFICES ASSUME NEW s \in Slot, serving[s] # Free
    PROVE  /\ serving'[s].pc = serving[s].pc
           /\ serving'[s].node = serving[s].node
           /\ serving'[s].name = serving[s].name
           /\ serving'[s].cert = serving[s].cert
           /\ serving'[s].key = serving[s].key
           /\ Waits(s)' => Waits(s) /\ serving[s].node # n
  BY DEF GiveUp
<1>1. serving[s] \in Serving
  BY Serves DEF Typed
<1>2. CASE serving[s].node = n
  <2>1. serving'[s] = [serving[s] EXCEPT !.waited = FALSE]
    BY <1>2 DEF GiveUp
  <2>2. ~ [serving[s] EXCEPT !.waited = FALSE].waited
    BY <1>1 DEF Serving
  <2> QED
    BY <1>1, <2>1, <2>2 DEF Serving, Waits
<1>3. CASE serving[s].node # n
  <2>1. serving'[s] = serving[s]
    BY <1>3 DEF GiveUp
  <2> QED
    BY <1>3, <2>1 DEF Waits
<1> QED
  BY <1>2, <1>3

(* Everybody else leaves agents and their requests alone.                  *)
Elsewhere ==
    \/ \E t \in Task : StartTask(t) \/ Work(t)
    \/ Collect
    \/ \E n \in Node : Readdress(n)
    \/ \E x \in Name : Age(x) \/ Unpause(x)
    \/ UNCHANGED vars

LEMMA ElsewhereMoves ==
    ASSUME Elsewhere PROVE UNCHANGED <<serving, agent, disk>>
BY DEF Elsewhere, StartTask, Work, ReadNodes, WriteNames, SetRecords,
   UnusedRows, ForgetRows, WriteDns, SetAuto, RotateKey, RotateCert, SelectRows, DropRows,
   LeaveHeadscale, forget_node_refs, Collect, CollectNodes, sync, CollectNames,
   CollectUnused, CollectForget, Readdress, Age, Unpause, vars, nodes

LEMMA RestartMoves ==
    ASSUME Restart
    PROVE  /\ \A s \in Slot : serving'[s] = Free
           /\ \A t \in Task : task'[t] = Idle
           /\ UNCHANGED <<panel, headscale, disk>>
BY DEF Restart

LEMMA NextCases ==
    ASSUME [Next]_vars
    PROVE  \/ \E n \in Node : AgentRun(n)
           \/ \E n \in Node : GiveUp(n)
           \/ \E s \in Slot : Serve(s)
           \/ Restart \/ Elsewhere
BY DEF Next, Elsewhere

LEMMA WaitingStep == ASSUME Typed, Waiting, [Next]_vars PROVE Waiting'
<1> USE DEF nodes
<1>1. serving \in [Slot -> Serving \cup {Free}] /\ agent \in [Node -> Run]
      /\ \A s \in Slot : serving[s] # Free =>
            serving[s] \in Serving /\ serving[s].node \in Node
  BY Serves DEF Typed, WorkTyped, NodesTyped, Serving
<1>2. ASSUME NEW n \in Node, AgentRun(n) PROVE Waiting'
  <2>1. /\ agent[n].pc # "wait"
        /\ \A m \in Node : m # n => agent'[m] = agent[m]
    BY <1>2, AgentMoves
  <2>2. \A s \in Slot : Waits(s) => serving[s].node # n
    BY <2>1 DEF Waiting
  <2>3. CASE UNCHANGED serving
    BY <1>1, <2>1, <2>2, <2>3 DEF Waiting, Waits
  <2>4. CASE /\ agent'[n].pc = "wait"
             /\ \E s \in Slot, x \in Name :
                  /\ serving[s] = Free
                  /\ serving' = [serving EXCEPT ![s] =
                        [pc |-> "ask", node |-> n, name |-> x,
                         waited |-> TRUE, cert |-> 0, key |-> 0]]
    <3>1. PICK s \in Slot : \E x \in Name :
                  serving' = [serving EXCEPT ![s] =
                        [pc |-> "ask", node |-> n, name |-> x,
                         waited |-> TRUE, cert |-> 0, key |-> 0]]
      BY <2>4
    <3>2. serving'[s].node = n
      BY <1>1, <3>1
    <3>3. \A u \in Slot : u # s => serving'[u] = serving[u]
      BY <1>1, <3>1
    <3>4. \A u \in Slot : u # s /\ Waits(u)' =>
              Waits(u) /\ serving'[u].node = serving[u].node
      BY <3>3 DEF Waits
    <3>5. \A u \in Slot : Waits(u)' => agent'[serving'[u].node].pc = "wait"
      BY <1>1, <2>1, <2>2, <2>4, <3>2, <3>4 DEF Waiting, Waits
    <3>6. \A u, v \in Slot : Waits(u)' /\ Waits(v)'
              /\ serving'[u].node = serving'[v].node => u = v
      BY <2>2, <3>2, <3>4 DEF Waiting
    <3> QED
      BY <3>5, <3>6 DEF Waiting
  <2> QED
    BY <1>2, <2>3, <2>4, AgentMoves
<1>3. ASSUME NEW n \in Node, GiveUp(n) PROVE Waiting'
  <2>1. \A s \in Slot : Waits(s)' =>
            /\ Waits(s) /\ serving[s].node # n
            /\ serving'[s].node = serving[s].node
    BY <1>3, GiveUpMoves DEF Waits
  <2>2. \A m \in Node : m # n => agent'[m] = agent[m]
    BY <1>1, <1>3 DEF GiveUp
  <2>3. \A s \in Slot : Waits(s) => serving[s].node \in Node
    BY <1>1 DEF Waits
  <2> QED
    BY <2>1, <2>2, <2>3 DEF Waiting
<1>4. ASSUME NEW s \in Slot, Serve(s) PROVE Waiting'
  <2>1. Moved(s) /\ serving[s] \in Serving
    BY <1>4, ServeMoves
  <2>2. \A u \in Slot : Waits(u)' =>
            Waits(u) /\ serving'[u].node = serving[u].node
    <3>1. serving[s] # Free
      BY <2>1 DEF Serving, Free, Inside
    <3> QED
      BY <2>1, <3>1 DEF Moved, Waits
  <2>3. CASE UNCHANGED agent
    BY <2>2, <2>3 DEF Waiting
  <2>4. CASE \E c : Answer(s, c) /\ serving[s].waited
    <3> DEFINE n == serving[s].node
    <3>1. agent' = [agent EXCEPT ![n].pc = "names"]
      BY <2>4 DEF Answer
    <3>2. \A m \in Node : m # n => agent'[m] = agent[m]
      BY <1>1, <3>1
    <3>3. Waits(s)
      BY <2>1, <2>4 DEF Waits, Serving, Free, Inside
    <3>4. ~ Waits(s)'
      BY <1>1, <2>4 DEF Answer, Waits
    <3>5. \A u \in Slot : Waits(u)' => serving[u].node # n
      BY <2>2, <3>3, <3>4 DEF Waiting
    <3>6. \A u \in Slot : Waits(u) => serving[u].node \in Node
      BY <1>1 DEF Waits
    <3> QED
      BY <2>2, <3>2, <3>5, <3>6 DEF Waiting
  <2> QED
    BY <1>4, <2>3, <2>4 DEF Serve, Ask, Begin, ReadCert, ReadKey, MakeKey,
       MakeCert, Sign, Store, Answer
<1>5. CASE Restart
  BY <1>5, RestartMoves DEF Waiting, Waits
<1>6. CASE Elsewhere
  BY <1>6, ElsewhereMoves DEF Waiting, Waits
<1> QED
  BY <1>2, <1>3, <1>4, <1>5, <1>6, NextCases

LEMMA LockStep == ASSUME Typed, LockHeld, [Next]_vars PROVE LockHeld'
<1>1. serving \in [Slot -> Serving \cup {Free}]
  BY DEF Typed, WorkTyped
<1>2. ASSUME NEW n \in Node, AgentRun(n) PROVE LockHeld'
  <2>1. \A s \in Slot : serving'[s].pc \in Inside => serving'[s] = serving[s]
    BY <1>1, <1>2, AgentMoves DEF Inside
  <2> QED
    BY <2>1 DEF LockHeld
<1>3. ASSUME NEW n \in Node, GiveUp(n) PROVE LockHeld'
  <2>1. \A s \in Slot : serving'[s].pc \in Inside =>
            serving[s].pc \in Inside /\ serving'[s].name = serving[s].name
    BY <1>3, GiveUpMoves DEF Inside, Free
  <2> QED
    BY <2>1 DEF LockHeld
<1>4. ASSUME NEW s \in Slot, Serve(s) PROVE LockHeld'
  <2>1. Moved(s)
    BY <1>4, ServeMoves
  <2>2. \A u \in Slot : u # s => serving'[u] = serving[u]
    BY <2>1 DEF Moved
  <2>3. serving'[s].pc \in Inside => serving'[s].name = serving[s].name
    BY <2>1 DEF Moved, Free, Inside
  <2>4. ASSUME serving'[s].pc \in Inside, NEW u \in Slot, u # s,
               serving[u].pc \in Inside
        PROVE  serving[u].name # serving[s].name
    BY <2>1, <2>4 DEF Moved, Locked, LockHeld, Free, Inside
  <2> QED
    BY <2>2, <2>3, <2>4 DEF LockHeld
<1>5. CASE Restart
  BY <1>5, RestartMoves DEF LockHeld, Free, Inside
<1>6. CASE Elsewhere
  BY <1>6, ElsewhereMoves DEF LockHeld
<1> QED
  BY <1>2, <1>3, <1>4, <1>5, <1>6, NextCases

(* What may become of a row.                                               *)
Begins(s, x) ==
    /\ serving[s].name = x /\ serving[s].pc = "lock" /\ ~ Locked(x)
    /\ ~ (rows[x] # NoRow /\ rows[x].status = "ok" /\ ~ rows[x].due)
    /\ rows'[x] = begun(rows[x]) /\ UNCHANGED <<root, made, agent, disk>>
Fails(s, x) ==
    /\ serving[s].name = x /\ serving[s].pc = "store" /\ rows[x] # NoRow
    /\ rows'[x] = [rows[x] EXCEPT !.status = "error", !.paused = TRUE]
    /\ serving'[s] = Free /\ UNCHANGED root
Issues(s, x) ==
    /\ serving[s].name = x /\ serving[s].pc = "store" /\ rows[x] # NoRow
    /\ serving[s].key # 0 /\ serving'[s] = Free /\ UNCHANGED root
    /\ rows'[x] = [status |-> "ok",
                   cert |-> [root |-> serving[s].key, key |-> serving[s].node,
                             no |-> made + 1],
                   due |-> FALSE, paused |-> FALSE]
Ages(x) ==
    /\ rows[x].status = "ok" /\ ~ rows[x].due /\ UNCHANGED <<root, serving, task>>
    /\ rows'[x] = [rows[x] EXCEPT !.due = TRUE]
Recovers(x) ==
    /\ rows[x].status = "error" /\ UNCHANGED <<root, serving, task>>
    /\ rows'[x] = [rows[x] EXCEPT !.paused = FALSE]

RowMoves(x) ==
    \/ rows'[x] = rows[x] \/ rows'[x] = NoRow \/ Ages(x) \/ Recovers(x)
    \/ \E s \in Slot : Serve(s) /\ (Begins(s, x) \/ Fails(s, x) \/ Issues(s, x))

LEMMA RowsMove ==
    ASSUME Typed, [Next]_vars, NEW x \in Name PROVE RowMoves(x)
<1> USE DEF panel
<1>1. rows \in [Name -> Row \cup {NoRow}]
      /\ serving \in [Slot -> Serving \cup {Free}]
  BY DEF Typed, PanelTyped, WorkTyped
<1>2. ASSUME NEW n \in Node, AgentRun(n) PROVE RowMoves(x)
  BY <1>2, AgentMoves DEF RowMoves
<1>3. ASSUME NEW n \in Node, GiveUp(n) PROVE RowMoves(x)
  BY <1>3 DEF GiveUp, RowMoves
<1>4. ASSUME NEW s \in Slot, Serve(s) PROVE RowMoves(x)
  <2>1. CASE UNCHANGED rows
    BY <2>1 DEF RowMoves
  <2>2. CASE Begin(s) /\ rows' # rows
    <3>1. /\ serving[s].pc = "lock" /\ ~ Locked(serving[s].name)
          /\ ~ (/\ rows[serving[s].name] # NoRow
                /\ rows[serving[s].name].status = "ok"
                /\ ~ rows[serving[s].name].due)
          /\ rows' = [rows EXCEPT ![serving[s].name] = begun(@)]
          /\ UNCHANGED <<root, made, agent, disk>>
      BY <2>2 DEF Begin, At, nodes
    <3>2. CASE x = serving[s].name
      BY <1>1, <1>4, <3>1, <3>2 DEF RowMoves, Begins
    <3>3. CASE x # serving[s].name
      BY <1>1, <3>1, <3>3 DEF RowMoves
    <3> QED
      BY <3>2, <3>3
  <2>3. CASE Store(s) /\ rows' # rows
    <3> DEFINE y == serving[s].name
    <3>1. /\ serving[s].pc = "store" /\ rows[y] # NoRow /\ UNCHANGED root
          /\ serving' = [serving EXCEPT ![s] = Free]
          /\ \/ rows' = [rows EXCEPT ![y].status = "error", ![y].paused = TRUE]
             \/ /\ serving[s].key # 0
                /\ rows' = [rows EXCEPT ![y] =
                     [status |-> "ok",
                      cert |-> [root |-> serving[s].key,
                                key |-> serving[s].node, no |-> made + 1],
                      due |-> FALSE, paused |-> FALSE]]
      BY <2>3 DEF Store, At, Answer
    <3>2. serving'[s] = Free
      BY <1>1, <3>1
    <3>3. CASE x = y
      BY <1>1, <1>4, <3>1, <3>2, <3>3 DEF RowMoves, Fails, Issues
    <3>4. CASE x # y
      BY <1>1, <3>1, <3>4 DEF RowMoves
    <3> QED
      BY <3>3, <3>4
  <2> QED
    BY <1>4, <2>1, <2>2, <2>3 DEF Serve, Ask, ReadCert, ReadKey, MakeKey,
       MakeCert, Sign
<1>5. CASE Restart
  BY <1>5, RestartMoves DEF RowMoves
<1>6. CASE Elsewhere
  <2>1. CASE UNCHANGED rows
    BY <2>1 DEF RowMoves
  <2>2. CASE \E names : rows' = without(names)
    BY <2>2 DEF without, RowMoves
  <2>3. ASSUME NEW y \in Name, Age(y) \/ Unpause(y) PROVE RowMoves(x)
    BY <1>1, <2>3 DEF Age, Unpause, RowMoves, Ages, Recovers
  <2> QED
    BY <1>6, <2>1, <2>2, <2>3 DEF Elsewhere, StartTask, Work, ReadNodes,
       WriteNames, SetRecords, UnusedRows, ForgetRows, WriteDns, SetAuto, RotateKey,
       RotateCert, SelectRows, DropRows, LeaveHeadscale, forget_node_refs,
       Collect, CollectNodes, sync, CollectNames, CollectUnused, CollectForget, Readdress, vars
<1> QED
  BY <1>2, <1>3, <1>4, <1>5, <1>6, NextCases

LEMMA UnderWayStep ==
    ASSUME Typed, LockHeld, UnderWay, [Next]_vars PROVE UnderWay'
<1>1. /\ rows \in [Name -> Row \cup {NoRow}]
      /\ serving \in [Slot -> Serving \cup {Free}]
      /\ \A s \in Slot : serving[s].pc \in Inside => serving[s].name \in Name
  BY DEF Typed, PanelTyped, WorkTyped, Serving, Free, Inside
<1> SUFFICES ASSUME NEW u \in Slot, serving'[u].pc \in Inside
             PROVE  rows'[serving'[u].name].status \in {"issuing", "none"}
  BY DEF UnderWay
<1>2. CASE serving[u].pc \in Inside /\ serving'[u].name = serving[u].name
  <2> DEFINE x == serving[u].name
  <2>1. rows[x].status \in {"issuing", "none"} /\ x \in Name
    BY <1>1, <1>2 DEF UnderWay
  <2>2. CASE rows'[x] = rows[x] \/ rows'[x] = NoRow
    BY <1>2, <2>1, <2>2 DEF NoRow
  <2>3. CASE Ages(x) \/ Recovers(x)
    BY <2>1, <2>3 DEF Ages, Recovers
  <2>4. ASSUME NEW s \in Slot, Begins(s, x) \/ Fails(s, x) \/ Issues(s, x)
        PROVE  FALSE
    <3>1. CASE Begins(s, x)
      BY <1>2, <3>1 DEF Begins, Locked
    <3>2. CASE Fails(s, x) \/ Issues(s, x)
      <4>1. s = u
        BY <1>2, <3>2 DEF Fails, Issues, LockHeld, Inside
      <4> QED
        BY <3>2, <4>1 DEF Fails, Issues, Free, Inside
    <3> QED
      BY <2>4, <3>1, <3>2
  <2> QED
    BY <2>1, <2>2, <2>3, <2>4, RowsMove DEF RowMoves
<1>3. CASE ~ (serving[u].pc \in Inside /\ serving'[u].name = serving[u].name)
  <2>1. ASSUME NEW n \in Node, AgentRun(n) PROVE FALSE
    BY <1>1, <1>3, <2>1, AgentMoves DEF Inside
  <2>2. ASSUME NEW n \in Node, GiveUp(n) PROVE FALSE
    BY <1>3, <2>2, GiveUpMoves DEF Inside, Free
  <2>3. ASSUME NEW s \in Slot, Serve(s)
        PROVE  rows'[serving'[u].name].status \in {"issuing", "none"}
    <3>1. Moved(s)
      BY <2>3, ServeMoves
    <3>2. u = s
      BY <1>3, <3>1 DEF Moved
    <3>3. serving[s].pc \notin Inside /\ serving'[s].name = serving[s].name
      BY <1>3, <3>1, <3>2 DEF Moved, Free, Inside
    <3>4. serving[s] \in Serving
      BY <2>3, ServeMoves
    <3> DEFINE x == serving[s].name
    <3>5. CASE Ask(s)
      <4>1. Goto(s, "lock") \/ serving'[s] = Free
        BY <1>1, <3>5 DEF Ask, Answer
      <4>2. serving'[s].pc \notin Inside
        BY <1>1, <3>4, <4>1 DEF Goto, Serving, Free, Inside
      <4> QED
        BY <3>2, <4>2
    <3>6. CASE Begin(s)
      <4>1. serving'[s] # Free
        BY <3>2 DEF Free, Inside
      <4>2. rows' = [rows EXCEPT ![x] = begun(@)]
        BY <1>1, <3>6, <4>1 DEF Begin, Answer
      <4>3. begun(rows[x]).status = "issuing"
        <5>1. rows[x] \in Row \cup {NoRow}
          BY <1>1, <3>4 DEF Serving
        <5> QED
          BY <5>1 DEF begun, Row
      <4>4. rows'[x] = begun(rows[x])
        BY <1>1, <3>4, <4>2 DEF Serving
      <4> QED
        BY <3>2, <3>3, <4>3, <4>4
    <3> QED
      BY <2>3, <3>3, <3>5, <3>6 DEF Serve, ReadCert, ReadKey, MakeKey,
         MakeCert, Sign, Store, At, Inside
  <2>4. CASE Restart
    BY <2>4, RestartMoves DEF Free, Inside
  <2>5. CASE Elsewhere
    BY <1>3, <2>5, ElsewhereMoves
  <2> QED
    BY <2>1, <2>2, <2>3, <2>4, <2>5, NextCases
<1> QED
  BY <1>2, <1>3

LEMMA InForceStep == ASSUME Typed, InForce, [Next]_vars PROVE InForce'
<1>1. rows \in [Name -> Row \cup {NoRow}]
  BY DEF Typed, PanelTyped
<1> SUFFICES ASSUME NEW x \in Name, rows'[x].status = "ok"
             PROVE  rows'[x].cert # NoCert
  BY DEF InForce
<1>2. rows[x] \in Row \cup {NoRow} /\ (rows[x].status = "ok" => rows[x].cert # NoCert)
  BY <1>1 DEF InForce
<1>3. CASE rows'[x] = rows[x]
  BY <1>2, <1>3
<1>4. CASE rows'[x] = NoRow
  BY <1>4 DEF NoRow
<1>5. CASE Ages(x) \/ Recovers(x)
  <2>1. rows[x] \in Row
    BY <1>2, <1>5 DEF Ages, Recovers, NoRow
  <2> QED
    BY <1>2, <1>5, <2>1 DEF Ages, Recovers, Row
<1>6. ASSUME NEW s \in Slot, Begins(s, x) \/ Fails(s, x) \/ Issues(s, x)
      PROVE  rows'[x].cert # NoCert
  <2>1. CASE Begins(s, x)
    <3>1. begun(rows[x]).status = "issuing"
      BY <1>2 DEF begun, Row
    <3> QED
      BY <2>1, <3>1 DEF Begins
  <2>2. CASE Fails(s, x)
    <3>1. rows[x] \in Row
      BY <1>2, <2>2 DEF Fails
    <3>2. [rows[x] EXCEPT !.status = "error", !.paused = TRUE].status = "error"
      BY <3>1 DEF Row
    <3> QED
      BY <2>2, <3>2 DEF Fails
  <2>3. CASE Issues(s, x)
    <3>1. rows'[x].cert = [root |-> serving[s].key, key |-> serving[s].node,
                           no |-> made + 1]
      BY <2>3 DEF Issues
    <3>2. "no" \in DOMAIN [root |-> serving[s].key, key |-> serving[s].node,
                           no |-> made + 1]
      OBVIOUS
    <3>3. "no" \notin DOMAIN NoCert
      BY DEF NoCert
    <3> QED
      BY <3>1, <3>2, <3>3
  <2> QED
    BY <1>6, <2>1, <2>2, <2>3
<1> QED
  BY <1>3, <1>4, <1>5, <1>6, RowsMove DEF RowMoves

LEMMA TypeInvStep == ASSUME TypeInv, [Next]_vars PROVE TypeInv'
BY TypedStep, WaitingStep, LockStep, UnderWayStep, InForceStep DEF TypeInv

(* certs.py:47-48, 150-163: a certificate in force is not replaced by      *)
(* another one, for any number of agents, requests and names, through any  *)
(* number of restarts: it ages or is forgotten.                            *)
THEOREM OneCertificateHolds == Spec => OneCertificate
<1>1. Init => TypeInv
  BY InitInv
<1>2. TypeInv /\ [Next]_vars => TypeInv'
  BY TypeInvStep
<1>3. TypeInv /\ [Next]_vars =>
          [\A x \in Name : rows[x].status = "ok" /\ ~ rows[x].due =>
              rows'[x] \in {rows[x], [rows[x] EXCEPT !.due = TRUE], NoRow}]_rows
  <2> SUFFICES ASSUME TypeInv, [Next]_vars, NEW x \in Name,
                      rows[x].status = "ok", ~ rows[x].due
               PROVE  rows'[x] \in {rows[x], [rows[x] EXCEPT !.due = TRUE],
                                    NoRow}
    OBVIOUS
  <2>1. ASSUME NEW s \in Slot, Begins(s, x) \/ Fails(s, x) \/ Issues(s, x)
        PROVE  FALSE
    <3>1. CASE Begins(s, x)
      BY <3>1 DEF Begins, NoRow
    <3>2. CASE Fails(s, x) \/ Issues(s, x)
      BY <3>2 DEF Fails, Issues, TypeInv, UnderWay, Inside
    <3> QED
      BY <2>1, <3>1, <3>2
  <2>2. ~ Recovers(x)
    BY DEF Recovers
  <2> QED
    BY <2>1, <2>2, RowsMove DEF TypeInv, RowMoves, Ages
<1> QED
  BY <1>1, <1>2, <1>3, PTL DEF Spec, OneCertificate

(* --- nothing is of a root that was not made ------------------------------- *)

Made ==
    /\ root.key <= made /\ root.cert <= made
    /\ \A s \in Slot : serving[s] # Free =>
          serving[s].cert <= made /\ serving[s].key <= made
    /\ \A t \in Task : task[t].pc = "cert" => task[t].seen <= made
    /\ \A n \in Node : agent[n] # Idle => agent[n].ca <= made
    /\ \A n \in Node : disk[n].trust <= made

LEMMA MadeInit == ASSUME Init PROVE Made
<1>1. world.root \in Nat
  BY NamesAssumption DEF Init, World
<1> QED
  BY <1>1 DEF Init, Made, Idle, Free

LEMMA MadeAgent ==
    ASSUME Typed, Made, NEW n \in Node, AgentRun(n) PROVE Made'
<1>1. /\ agent \in [Node -> Run] /\ disk \in [Node -> Disk]
      /\ root \in Root /\ serving \in [Slot -> Serving \cup {Free}]
      /\ made \in Nat
  BY DEF Typed, NodesTyped, PanelTyped, WorkTyped
<1>2. UNCHANGED <<root, made, task>>
  BY AgentMoves DEF panel
<1>3. \A s \in Slot : serving'[s] # Free =>
          serving'[s].cert <= made /\ serving'[s].key <= made
  <2>1. CASE UNCHANGED serving
    BY <2>1 DEF Made
  <2>2. CASE \E s \in Slot, x \in Name :
                serving' = [serving EXCEPT ![s] =
                   [pc |-> "ask", node |-> n, name |-> x, waited |-> TRUE,
                    cert |-> 0, key |-> 0]]
    BY <1>1, <2>2 DEF Made
  <2> QED
    BY <2>1, <2>2, AgentMoves
<1>4. \A m \in Node : agent'[m] # Idle => agent'[m].ca <= made
  <2>1. \A m \in Node : m # n => agent'[m] = agent[m]
    BY AgentMoves
  <2>2. agent'[n] # Idle => agent'[n].ca <= made
    <3>1. CASE Poll(n)
      <4>1. agent'[n].ca = IF root.auto THEN root.cert ELSE 0
        BY <1>1, <3>1 DEF Poll
      <4> QED
        BY <1>1, <4>1 DEF Made, Root
    <3>2. CASE PollNames(n)
      <4>1. agent'[n].ca = agent[n].ca /\ agent[n] # Idle
        BY <1>1, <3>2 DEF PollNames, Idle
      <4> QED
        BY <4>1 DEF Made
    <3>3. CASE Done(n)
      BY <1>1, <3>3 DEF Done
    <3>4. CASE InstallRoot(n) \/ SendCsr(n) \/ FetchCert(n)
      <4>1. agent[n].pc \in {"ca", "names"} /\ agent[n] # Idle
        BY <3>4 DEF InstallRoot, SendCsr, FetchCert, Idle
      <4>2. agent[n] \in [pc : {"ca", "names", "wait"}, ca : Nat,
                          lines : SUBSET Line]
        BY <4>1, RunAt DEF Typed
      <4> DEFINE a == agent[n]
      <4>3. \/ agent'[n] = [a EXCEPT !.pc = "names"]
            \/ \E line : agent'[n] = [a EXCEPT !.lines = @ \ {line}]
            \/ \E line : agent'[n] = [[a EXCEPT !.lines = @ \ {line}]
                                        EXCEPT !.pc = "wait"]
        BY <1>1, <3>4 DEF InstallRoot, SendCsr, FetchCert, Drop
      <4> HIDE DEF a
      <4>5. a.ca = agent[n].ca /\ a = agent[n]
        BY DEF a
      <4>6. agent'[n].ca = a.ca
        BY <4>2, <4>3, <4>5
      <4> QED
        BY <4>1, <4>5, <4>6 DEF Made
    <3> QED
      BY <3>1, <3>2, <3>3, <3>4 DEF AgentRun
  <2> QED
    BY <2>1, <2>2 DEF Made
<1>5. \A m \in Node : disk'[m].trust <= made
  <2>1. CASE InstallRoot(n)
    <3>1. agent[n].ca <= made
      BY <2>1 DEF InstallRoot, Made, Idle
    <3>2. disk'[n].trust \in {agent[n].ca, disk[n].trust}
      BY <1>1, <2>1 DEF InstallRoot, Disk
    <3>3. \A m \in Node : m # n => disk'[m] = disk[m]
      BY <1>1, <2>1 DEF InstallRoot
    <3> QED
      BY <3>1, <3>2, <3>3 DEF Made
  <2>2. CASE ~ InstallRoot(n)
    <3>1. UNCHANGED disk
          \/ \E k : disk' = [disk EXCEPT ![n].keys = k]
          \/ \E c : disk' = [disk EXCEPT ![n].crt = c]
      BY <2>2 DEF AgentRun, Poll, PollNames, SendCsr, FetchCert, Done
    <3>2. ASSUME NEW m \in Node PROVE disk'[m].trust = disk[m].trust
      <4>1. /\ disk[n] = [trust |-> disk[n].trust, keys |-> disk[n].keys,
                          crt |-> disk[n].crt]
            /\ DOMAIN disk = Node
        BY <1>1 DEF Disk
      <4>2. CASE UNCHANGED disk
        BY <4>2
      <4>3. CASE \E k : disk' = [disk EXCEPT ![n].keys = k]
        BY <4>1, <4>3
      <4>4. CASE \E c : disk' = [disk EXCEPT ![n].crt = c]
        BY <4>1, <4>4
      <4> QED
        BY <3>1, <4>2, <4>3, <4>4
    <3> QED
      BY <3>2 DEF Made
  <2> QED
    BY <2>1, <2>2
<1> QED
  BY <1>2, <1>3, <1>4, <1>5 DEF Made

LEMMA MadeServe ==
    ASSUME Typed, Waiting, Made, NEW s \in Slot, Serve(s) PROVE Made'
<1>1. /\ agent \in [Node -> Run] /\ disk \in [Node -> Disk]
      /\ root \in Root /\ serving \in [Slot -> Serving \cup {Free}]
      /\ made \in Nat /\ Typed' /\ UNCHANGED task
  BY ServeTyped, ServeMoves DEF Typed, NodesTyped, PanelTyped, WorkTyped
<1>2. Moved(s) /\ serving[s] \in Serving
  BY ServeMoves
<1>3. serving[s] # Free /\ serving[s].name \in Name /\ serving[s].node \in Node
  BY <1>2 DEF Serving, Free, Inside
<1>4. /\ serving[s].cert <= made /\ serving[s].key <= made
      /\ root.key <= made /\ root.cert <= made
  BY <1>3 DEF Made
<1>5. made' = made \/ made' = made + 1
  BY DEF Serve, Ask, Begin, ReadCert, ReadKey, MakeKey, MakeCert, Sign, Store,
     panel
<1>6. root'.key <= made' /\ root'.cert <= made'
  <2>1. CASE MakeKey(s)
    BY <1>1, <1>4, <2>1 DEF MakeKey, Root
  <2>2. CASE MakeCert(s)
    BY <1>1, <1>4, <2>2 DEF MakeCert, Root
  <2>3. CASE UNCHANGED root
    BY <1>1, <1>4, <1>5, <2>3 DEF Root
  <2> QED
    BY <2>1, <2>2, <2>3 DEF Serve, Ask, Begin, ReadCert, ReadKey, Sign, Store,
       panel
<1>7. serving'[s] # Free => serving'[s].cert <= made' /\ serving'[s].key <= made'
  <2>1. CASE ReadCert(s)
    <3>1. /\ serving'[s].cert = root.cert /\ serving'[s].key = serving[s].key
          /\ made' = made
      BY <1>1, <1>2, <2>1 DEF ReadCert, Serving, panel
    <3> QED
      BY <1>4, <3>1
  <2>2. CASE MakeKey(s)
    <3>1. /\ serving'[s].cert = made' /\ serving'[s].key = serving[s].key
          /\ made' = made + 1
      BY <1>1, <1>2, <2>2 DEF MakeKey, Serving
    <3> QED
      BY <1>1, <1>2, <1>4, <3>1 DEF Serving
  <2>3. CASE Sign(s)
    <3>1. /\ serving'[s].cert = serving[s].cert /\ made' = made
          /\ serving'[s].key \in {0, root.key}
      BY <1>1, <1>2, <2>3 DEF Sign, Serving, panel
    <3> QED
      BY <1>1, <1>4, <3>1
  <2>4. CASE (\E where : Goto(s, where)) /\ made' = made
    <3>1. serving'[s].cert = serving[s].cert /\ serving'[s].key = serving[s].key
      BY <1>1, <1>2, <2>4 DEF Goto, Serving
    <3> QED
      BY <1>4, <2>4, <3>1
  <2>5. CASE \E c : Answer(s, c)
    BY <1>1, <2>5 DEF Answer
  <2> QED
    BY <2>1, <2>2, <2>3, <2>4, <2>5 DEF Serve, Ask, Begin, ReadKey, MakeCert,
       Store, panel
<1>8. \A u \in Slot : serving'[u] # Free =>
          serving'[u].cert <= made' /\ serving'[u].key <= made'
  <2> SUFFICES ASSUME NEW u \in Slot, u # s, serving'[u] # Free
               PROVE  serving'[u].cert <= made' /\ serving'[u].key <= made'
    BY <1>7
  <2>1. serving'[u] = serving[u] /\ serving[u] \in Serving
    BY <1>1, <1>2 DEF Moved
  <2>2. serving[u].cert <= made /\ serving[u].key <= made
    BY <2>1 DEF Made
  <2> QED
    BY <1>1, <1>5, <2>1, <2>2 DEF Serving
<1>9. \A n \in Node : agent'[n] # Idle => agent'[n].ca <= made
  <2>1. CASE UNCHANGED agent
    BY <2>1 DEF Made
  <2>2. CASE /\ agent' = [agent EXCEPT ![serving[s].node].pc = "names"]
             /\ serving[s].waited
    <3> DEFINE n == serving[s].node
    <3>1. agent[n].pc = "wait"
      BY <1>3, <2>2 DEF Waiting, Waits
    <3>2. agent[n] \in [pc : {"ca", "names", "wait"}, ca : Nat,
                        lines : SUBSET Line]
      BY <1>3, <3>1, RunAt DEF Typed
    <3>3. agent'[n].ca = agent[n].ca /\ agent[n] # Idle
      BY <1>1, <1>3, <2>2, <3>1, <3>2 DEF Idle
    <3>4. \A m \in Node : m # n => agent'[m] = agent[m]
      BY <1>1, <2>2
    <3> QED
      BY <1>3, <3>3, <3>4 DEF Made
  <2> QED
    BY <2>1, <2>2 DEF Serve, Ask, Begin, ReadCert, ReadKey, MakeKey, MakeCert,
       Sign, Store, Answer, nodes
<1>10. \A n \in Node : disk'[n].trust <= made
  <2>1. UNCHANGED disk
        \/ \E c, x : disk' = [disk EXCEPT ![serving[s].node].crt[x] = c]
    BY DEF Serve, Ask, Begin, ReadCert, ReadKey, MakeKey, MakeCert, Sign, Store,
       Answer, nodes
  <2>2. CASE UNCHANGED disk
    BY <2>2 DEF Made
  <2>3. ASSUME NEW c, NEW x,
               disk' = [disk EXCEPT ![serving[s].node].crt[x] = c]
        PROVE  \A n \in Node : disk'[n].trust <= made
    <3> DEFINE n == serving[s].node
               d == disk[n]
    <3>1. disk'[n] = [d EXCEPT !.crt = [d.crt EXCEPT ![x] = c]]
      BY <1>1, <1>3, <2>3
    <3>2. \A m \in Node : m # n => disk'[m] = disk[m]
      BY <1>1, <2>3
    <3>3. d \in Disk /\ d.trust <= made
      BY <1>1, <1>3 DEF Made
    <3> HIDE DEF d
    <3>4. disk'[n].trust = d.trust
      BY <3>1, <3>3 DEF Disk
    <3> QED
      BY <3>2, <3>3, <3>4 DEF Made
  <2> QED
    BY <2>1, <2>2, <2>3
<1>11. \A n \in Node : agent'[n] # Idle => agent'[n].ca \in Nat
  BY <1>1 DEF Typed, NodesTyped, Run
<1>12. \A n \in Node : disk'[n].trust \in Nat
  BY <1>1 DEF Typed, NodesTyped, Disk
<1>13. \A t \in Task : task[t].pc = "cert" => task[t].seen \in Nat
  BY TaskAt DEF Typed, Replacing
<1> QED
  BY <1>1, <1>5, <1>6, <1>8, <1>9, <1>10, <1>11, <1>12, <1>13 DEF Made

LEMMA MadeStep ==
    ASSUME Typed, Waiting, Made, [Next]_vars PROVE Made'
<1> USE DEF panel
<1>1. /\ agent \in [Node -> Run] /\ root \in Root /\ made \in Nat
      /\ serving \in [Slot -> Serving \cup {Free}] /\ task \in [Task -> Job]
      /\ disk \in [Node -> Disk]
  BY DEF Typed, NodesTyped, PanelTyped, WorkTyped
<1>2. ASSUME NEW n \in Node, GiveUp(n) PROVE Made'
  <2>1. UNCHANGED <<root, made, task, disk>>
    BY <1>2 DEF GiveUp
  <2>2. \A s \in Slot : serving'[s] # Free =>
            serving'[s].cert <= made /\ serving'[s].key <= made
    BY <1>2, GiveUpMoves DEF Made
  <2>3. \A m \in Node : agent'[m] # Idle => agent'[m].ca <= made
    <3>1. agent[n] \in [pc : {"ca", "names", "wait"}, ca : Nat,
                        lines : SUBSET Line]
      BY <1>2, RunAt DEF GiveUp, Typed
    <3>2. agent'[n].ca = agent[n].ca /\ agent[n] # Idle
      BY <1>1, <1>2, <3>1 DEF GiveUp, Idle
    <3>3. \A m \in Node : m # n => agent'[m] = agent[m]
      BY <1>1, <1>2 DEF GiveUp
    <3> QED
      BY <3>2, <3>3 DEF Made
  <2> QED
    BY <2>1, <2>2, <2>3 DEF Made
<1>3. CASE Restart
  <2>1. \A n \in Node : agent'[n] # Idle => agent'[n].ca <= made
    <3> SUFFICES ASSUME NEW n \in Node, agent[n].pc = "wait"
                 PROVE  agent'[n].ca <= made
      BY <1>3 DEF Restart, Made
    <3>1. agent[n] \in [pc : {"ca", "names", "wait"}, ca : Nat,
                        lines : SUBSET Line]
      BY RunAt DEF Typed
    <3>2. agent'[n] = [agent[n] EXCEPT !.pc = "names"]
      BY <1>3 DEF Restart
    <3> QED
      BY <3>1, <3>2 DEF Made, Idle
  <2> QED
    BY <1>3, <2>1, RestartMoves DEF Made, Idle
<1>4. CASE Elsewhere
  <2>1. UNCHANGED <<serving, agent, disk>>
    BY <1>4, ElsewhereMoves
  <2>2. ASSUME NEW t \in Task, RotateKey(t) PROVE Made'
    <3>1. task[t] \in Reissuing
      BY <2>2, TaskAt DEF RotateKey, Doing, Typed
    <3>2. /\ made' = made + 1 /\ root'.key = made' /\ root'.cert = root.cert
          /\ task'[t].seen = made'
          /\ \A u \in Task : u # t => task'[u] = task[u]
      BY <1>1, <2>2, <3>1 DEF RotateKey, Root, Reissuing
    <3>3. \A u \in Task : task[u].pc = "cert" => task[u].seen \in Nat
      BY TaskAt DEF Typed, Replacing
    <3>4. \A n \in Node : agent[n] # Idle => agent[n].ca \in Nat
      BY <1>1 DEF Run
    <3>5. \A s \in Slot : serving[s] # Free =>
              serving[s].cert \in Nat /\ serving[s].key \in Nat
      BY <1>1 DEF Serving
    <3> QED
      BY <1>1, <2>1, <3>2, <3>3, <3>4, <3>5 DEF Made, Root, Disk
  <2>3. ASSUME NEW t \in Task, RotateCert(t) PROVE Made'
    <3>1. task[t] \in Replacing /\ task[t].seen <= made
      BY <2>3, TaskAt DEF RotateCert, Doing, Typed, Made
    <3>2. /\ made' = made /\ root'.key = root.key /\ root'.cert = task[t].seen
          /\ task'[t].pc # "cert"
          /\ \A u \in Task : u # t => task'[u] = task[u]
      BY <1>1, <2>3, <3>1 DEF RotateCert, Then, Root, Replacing
    <3> QED
      BY <2>1, <3>1, <3>2 DEF Made
  <2>4. ASSUME UNCHANGED made, root'.key = root.key, root'.cert = root.cert,
               \A t \in Task : task'[t] = task[t] \/ task'[t].pc # "cert"
        PROVE  Made'
    BY <2>1, <2>4 DEF Made
  <2>5. ASSUME NEW t \in Task, StartTask(t) PROVE Made'
    <3>1. \A q \in Request : First[q.op] # "cert"
      BY RequestOf DEF First
    <3>2. \A q \in world.requests : q \in Request
      BY DEF Typed, WorkTyped, World
    <3>3. task'[t].pc # "cert" /\ \A u \in Task : u # t => task'[u] = task[u]
      BY <1>1, <2>5, <3>1, <3>2 DEF StartTask
    <3> QED
      BY <2>4, <2>5, <3>3 DEF StartTask
  <2>6. ASSUME NEW t \in Task, Work(t), ~ RotateKey(t), ~ RotateCert(t)
        PROVE  Made'
    <3>1. UNCHANGED made /\ root'.key = root.key /\ root'.cert = root.cert
      BY <1>1, <2>6 DEF Work, ReadNodes, WriteNames, SetRecords, UnusedRows, ForgetRows,
         WriteDns, SetAuto, SelectRows, DropRows, LeaveHeadscale,
         forget_node_refs, Root
    <3>2. task[t] \in Job \ {Idle}
      BY <1>1, <2>6 DEF Work, ReadNodes, WriteNames, SetRecords, UnusedRows, ForgetRows,
         WriteDns, SetAuto, SelectRows, DropRows, LeaveHeadscale,
         forget_node_refs, Doing, Idle
    <3>3. \/ End(t)
          \/ \E where \in {"set", "unused", "key", "select", "refs"} :
                Then(t, where)
          \/ task' = [task EXCEPT ![t].pc = "write", ![t].seen = addr]
          \/ task' = [task EXCEPT ![t].pc = "drop", ![t].names = all_certs]
          \/ UnusedRows(t)
      BY <2>6 DEF Work, ReadNodes, WriteNames, SetRecords, UnusedRows, ForgetRows,
         WriteDns, SetAuto, SelectRows, DropRows, LeaveHeadscale,
         forget_node_refs
    <3>4. DOMAIN task[t] = {"pc", "req", "seen", "names"}
      BY <3>2 DEF Job, Editing, Routing, Reissuing, Replacing, Deleting
    <3>5. task'[t].pc # "cert" /\ \A u \in Task : u # t => task'[u] = task[u]
      BY <1>1, <3>3, <3>4 DEF End, Then, UnusedRows, Idle
    <3> QED
      BY <2>4, <3>1, <3>5
  <2>7. CASE UNCHANGED <<root, made, task>>
    BY <2>4, <2>7
  <2> QED
    BY <1>4, <2>2, <2>3, <2>5, <2>6, <2>7 DEF Elsewhere, Collect, CollectNodes,
       sync, CollectNames, CollectUnused, CollectForget, Readdress, Age, Unpause, vars
<1> QED
  BY <1>2, <1>3, <1>4, MadeAgent, MadeServe, NextCases

(* Types of the variables, and what hangs together with them: a certificate*)
(* in force is there, a request beyond the check of its name has a row     *)
(* under way or forgotten, nobody trusts a root that was not made.         *)
THEOREM TypeCorrect == Spec => []TypeOK
<1>1. Init => TypeInv /\ Made
  BY InitInv, MadeInit
<1>2. TypeInv /\ Made /\ [Next]_vars => (TypeInv /\ Made)'
  BY TypeInvStep, MadeStep DEF TypeInv
<1>3. TypeInv /\ Made => TypeOK
  <2> SUFFICES ASSUME TypeInv, Made PROVE TypeOK
    OBVIOUS
  <2>1. {root.key, root.cert} \subseteq 0..made /\ root.auto \in BOOLEAN
    BY DEF TypeInv, Typed, PanelTyped, Root, Made
  <2>2. \A n \in Node : disk[n].trust \in 0..made /\ disk[n].keys \subseteq Name
    BY DEF TypeInv, Typed, PanelTyped, NodesTyped, Disk, Made
  <2>3. DOMAIN records = Name /\ \A x \in Listed(records) : records[x] \in Record
    BY DEF TypeInv, Typed, PanelTyped, Lists, Listed
  <2> QED
    BY <2>1, <2>2, <2>3 DEF TypeOK, TypeInv, Typed, PanelTyped, HeadscaleTyped,
       Addrs, UnderWay, InForce
<1> QED
  BY <1>1, <1>2, <1>3, PTL DEF Spec


(* --- headscale never gets the path of a file that is not there ------------ *)

LEMMA PathStep ==
    ASSUME Typed, PathAfterFile, [Next]_vars PROVE PathAfterFile'
<1> USE DEF headscale
<1>1. config \in [path : BOOLEAN, zones : SUBSET Zone]
  BY DEF Typed, HeadscaleTyped
<1>2. ASSUME NEW t \in Task, WriteNames(t) PROVE PathAfterFile'
  <2>1. PICK k \in 0..3 :
          LET written == {edits[i] : i \in 1..k}
          IN  /\ file' = IF "file" \in written
                         THEN [there |-> TRUE,
                               names |-> entries_for(task[t].req.records,
                                                     task[t].seen)]
                         ELSE file
              /\ config'.path = (config.path \/ "path" \in written)
    BY <1>2 DEF WriteNames
  <2> DEFINE written == {edits[i] : i \in 1..k}
  <2>2. "path" \in written => "file" \in written
    <3>1. edits[1] = "file" /\ edits[2] = "path" /\ edits[3] = "zones"
      BY DEF edits
    <3>2. \A i \in 1..k : edits[i] = "path" => i = 2 /\ 1 \in 1..k
      BY <3>1
    <3> QED
      BY <3>1, <3>2
  <2> HIDE DEF written
  <2> QED
    BY <2>1, <2>2 DEF PathAfterFile, written
<1>3. CASE sync
  BY <1>3 DEF sync, PathAfterFile
<1>4. ASSUME NEW t \in Task, WriteDns(t) PROVE PathAfterFile'
  BY <1>1, <1>4 DEF WriteDns, PathAfterFile
<1>5. CASE UNCHANGED <<file, config>>
  BY <1>5 DEF PathAfterFile
<1>6. CASE Elsewhere
  BY <1>2, <1>3, <1>4, <1>5, <1>6 DEF Elsewhere, StartTask, Work, ReadNodes,
     SetRecords, UnusedRows, ForgetRows, SetAuto, RotateKey, RotateCert, SelectRows,
     DropRows, LeaveHeadscale, forget_node_refs, Collect, CollectNodes,
     CollectNames, CollectUnused, CollectForget, Readdress, Age, Unpause, vars
<1>7. CASE \E n \in Node : AgentRun(n) \/ GiveUp(n)
  BY <1>5, <1>7, AgentMoves DEF GiveUp
<1>8. CASE \E s \in Slot : Serve(s)
  BY <1>5, <1>8, ServeMoves
<1> QED
  BY <1>5, <1>6, <1>7, <1>8, NextCases, RestartMoves

(* The path gets into the config of headscale only with the file beside    *)
(* it, whatever write fails and whoever else edits (update_dns_records).   *)
THEOREM PathAfterFileHolds == Spec => []PathAfterFile
<1>1. Init => TypeInv /\ PathAfterFile
  BY InitInv DEF Init, PathAfterFile
<1>2. TypeInv /\ PathAfterFile /\ [Next]_vars => (TypeInv /\ PathAfterFile)'
  BY TypeInvStep, PathStep DEF TypeInv
<1> QED
  BY <1>1, <1>2, PTL DEF Spec

(* --- one administrator at a time ------------------------------------------ *)

(* What a world says beyond its budgets stays as it is; a budget is spent. *)
LEMMA WorldStep ==
    ASSUME Typed, [Next]_vars
    PROVE  /\ world'.one_edit = world.one_edit /\ world'.root = world.root
           /\ world'.requests = world.requests /\ world'.agents = world.agents
           /\ world.faults = 0 => world'.faults = 0
           /\ world.lost = 0 => world'.lost = 0
<1>1. world \in World
  BY DEF Typed, WorkTyped
<1>2. CASE UNCHANGED world
  BY <1>2
<1>3. ASSUME NEW n \in Node, GiveUp(n)
      PROVE  world.lost # 0 /\ world' = [world EXCEPT !.lost = @ - 1]
  BY <1>1, <1>3 DEF GiveUp
<1>4. ASSUME NEW t \in Task, StartTask(t)
      PROVE  world' = [world EXCEPT !.left = @ - 1]
  BY <1>4 DEF StartTask
<1>5. ASSUME NEW t \in Task, WriteNames(t)
      PROVE  \/ UNCHANGED world
             \/ world.faults # 0 /\ world' = [world EXCEPT !.faults = @ - 1]
  BY <1>1, <1>5 DEF WriteNames, World
<1>6. ASSUME NEW n \in Node, Readdress(n)
      PROVE  world' = [world EXCEPT !.moves = @ - 1]
  BY <1>6 DEF Readdress
<1>7. ASSUME NEW x \in Name, Age(x)
      PROVE  world' = [world EXCEPT !.aging = @ - 1]
  BY <1>7 DEF Age
<1>8. ASSUME Restart
      PROVE  world.faults # 0 /\ world' = [world EXCEPT !.faults = @ - 1]
  BY <1>1, <1>8 DEF Restart
<1>9. \/ UNCHANGED world
      \/ world' = [world EXCEPT !.left = @ - 1]
      \/ world' = [world EXCEPT !.moves = @ - 1]
      \/ world' = [world EXCEPT !.aging = @ - 1]
      \/ world.lost # 0 /\ world' = [world EXCEPT !.lost = @ - 1]
      \/ world.faults # 0 /\ world' = [world EXCEPT !.faults = @ - 1]
  <2>1. CASE Elsewhere
    BY <1>4, <1>5, <1>6, <1>7, <2>1 DEF Elsewhere, Work, ReadNodes,
       SetRecords, UnusedRows, ForgetRows, WriteDns, SetAuto, RotateKey, RotateCert,
       SelectRows, DropRows, LeaveHeadscale, forget_node_refs, Collect,
       CollectNodes, sync, CollectNames, CollectUnused, CollectForget, Unpause, vars
  <2> QED
    BY <1>3, <1>8, <2>1, NextCases, AgentMoves, ServeMoves
<1> QED
  BY <1>1, <1>9 DEF World

(* How a request of an administrator goes on.                              *)
LEMMA WorkMoves ==
    ASSUME Typed, NEW t \in Task, Work(t)
    PROVE  /\ task[t] # Idle /\ task[t] \in Job
           /\ \A u \in Task : u # t => task'[u] = task[u]
           /\ \/ task'[t] = Idle
              \/ task'[t].req = task[t].req /\ task'[t].pc # "idle"
           /\ UNCHANGED <<agents, serving, agent, disk>>
              \/ forget_node_refs(t)
<1> USE DEF nodes, panel
<1>1. task \in [Task -> Job]
  BY DEF Typed, WorkTyped
<1>2. task[t] \in Job \ {Idle}
  BY <1>1 DEF Work, ReadNodes, WriteNames, SetRecords, UnusedRows, ForgetRows,
     WriteDns, SetAuto, RotateKey, RotateCert, SelectRows, DropRows,
     LeaveHeadscale, forget_node_refs, Doing, Idle
<1>3. /\ DOMAIN task[t] = {"pc", "req", "seen", "names"}
      /\ task[t] = [x \in DOMAIN task[t] |-> task[t][x]]
  BY <1>2 DEF Job, Editing, Routing, Reissuing, Replacing, Deleting
<1>4. \/ End(t)
      \/ \E where \in {"set", "unused", "key", "select", "refs"} :
            Then(t, where)
      \/ task' = [task EXCEPT ![t].pc = "write", ![t].seen = addr]
      \/ task' = [task EXCEPT ![t].pc = "cert", ![t].seen = made']
      \/ task' = [task EXCEPT ![t].pc = "drop", ![t].names = all_certs]
      \/ UnusedRows(t)
  BY DEF Work, ReadNodes, WriteNames, SetRecords, UnusedRows, ForgetRows,
     WriteDns, SetAuto, RotateKey, RotateCert, SelectRows, DropRows,
     LeaveHeadscale, forget_node_refs
<1>5. \A u \in Task : u # t => task'[u] = task[u]
  BY <1>1, <1>4 DEF End, Then, UnusedRows
<1>6. task'[t] = Idle \/ (task'[t].req = task[t].req /\ task'[t].pc # "idle")
  BY <1>1, <1>3, <1>4 DEF End, Then, UnusedRows
<1>7. UNCHANGED <<agents, serving, agent, disk>> \/ forget_node_refs(t)
  BY DEF Work, ReadNodes, WriteNames, SetRecords, UnusedRows, ForgetRows,
     WriteDns, SetAuto, RotateKey, RotateCert, SelectRows, DropRows,
     LeaveHeadscale
<1> QED
  BY <1>2, <1>5, <1>6, <1>7

OneTask == \A t, u \in Task : task[t] # Idle /\ task[u] # Idle => t = u

LEMMA OneTaskStep ==
    ASSUME Typed, world.one_edit, OneTask, [Next]_vars PROVE OneTask'
<1>1. task \in [Task -> Job]
  BY DEF Typed, WorkTyped
<1>2. ASSUME NEW t \in Task, StartTask(t) PROVE OneTask'
  <2>1. \A u \in Task : task[u] = Idle
    BY <1>2, TaskAt DEF StartTask, Typed, Doing
  <2>2. \A u \in Task : u # t => task'[u] = task[u]
    BY <1>1, <1>2 DEF StartTask
  <2> QED
    BY <2>1, <2>2 DEF OneTask
<1>3. ASSUME NEW t \in Task, Work(t) PROVE OneTask'
  BY <1>3, WorkMoves DEF OneTask
<1>4. CASE UNCHANGED task
  BY <1>4 DEF OneTask
<1>5. CASE Elsewhere
  BY <1>2, <1>3, <1>4, <1>5 DEF Elsewhere, Collect, CollectNodes, sync,
     CollectNames, CollectUnused, CollectForget, Readdress, Age, Unpause, vars
<1>6. CASE Restart
  BY <1>6, RestartMoves DEF OneTask
<1> QED
  BY <1>4, <1>5, <1>6, NextCases, AgentMoves, ServeMoves DEF GiveUp

(* --- the zones ------------------------------------------------------------ *)

Routed ==
    /\ OneTask
    /\ routes_for_split(records) \subseteq config.zones
    /\ \A t \in Task : task[t].pc = "set" =>
          routes_for_split(task[t].req.records) \subseteq config.zones

LEMMA RoutedStep ==
    ASSUME Typed, world.one_edit, Routed, [Next]_vars PROVE Routed'
<1> USE DEF headscale, panel
<1>1. /\ task \in [Task -> Job] /\ records \in Lists
      /\ config \in [path : BOOLEAN, zones : SUBSET Zone]
  BY DEF Typed, WorkTyped, PanelTyped, HeadscaleTyped
<1>2. OneTask'
  BY OneTaskStep DEF Routed
<1>3. ASSUME UNCHANGED <<records, config>>,
             \A t \in Task : task'[t] = task[t] \/ task'[t].pc # "set"
      PROVE  Routed'
  BY <1>2, <1>3 DEF Routed
<1>4. ASSUME NEW t \in Task, Work(t)
      PROVE  \A u \in Task : u # t => task'[u] = Idle /\ task'[u].pc # "set"
  BY <1>4, WorkMoves DEF Routed, OneTask, Idle
<1>5. ASSUME NEW t \in Task, WriteNames(t) PROVE Routed'
  <2> DEFINE R == task[t].req.records
  <2>1. PICK k \in 0..3 :
          /\ config'.zones = IF "zones" \in {edits[i] : i \in 1..k}
                             THEN config.zones \cup routes_for_split(R)
                             ELSE config.zones
          /\ IF k = 3 THEN Then(t, "set") ELSE End(t)
    BY <1>5 DEF WriteNames, zones_with
  <2>2. records' = records /\ config.zones \subseteq config'.zones
    BY <1>5, <2>1 DEF WriteNames
  <2>3. routes_for_split(records)' \subseteq config'.zones
    BY <2>2 DEF Routed, routes_for_split, Listed
  <2>4. CASE k = 3
    <3>1. "zones" \in {edits[i] : i \in 1..3}
      BY DEF edits
    <3>2. routes_for_split(R) \subseteq config'.zones
      BY <2>1, <2>4, <3>1
    <3>3. task[t] \in Editing
      BY <1>5, TaskAt DEF WriteNames, Doing, Typed
    <3>4. task'[t].req = task[t].req
      BY <1>1, <2>1, <2>4, <3>3 DEF Then, Editing
    <3>5. routes_for_split(task'[t].req.records) \subseteq config'.zones
      BY <3>2, <3>4
    <3> QED
      BY <1>2, <1>4, <1>5, <2>3, <3>5 DEF Routed, Work
  <2>5. CASE k # 3
    <3>1. task'[t] = Idle
      BY <1>1, <2>1, <2>5 DEF End
    <3> QED
      BY <1>2, <1>4, <1>5, <2>3, <3>1 DEF Routed, Work, Idle
  <2> QED
    BY <2>4, <2>5
<1>6. ASSUME NEW t \in Task, SetRecords(t) PROVE Routed'
  <2>1. task[t] \in Editing /\ task[t].pc = "set"
    BY <1>6, TaskAt DEF SetRecords, Doing, Typed
  <2>2. /\ records' = task[t].req.records /\ config' = config
        /\ task'[t].pc = "unused"
    BY <1>1, <1>6, <2>1 DEF SetRecords, Then, Editing
  <2>3. routes_for_split(records') \subseteq config'.zones
    BY <2>1, <2>2 DEF Routed
  <2> QED
    BY <1>2, <1>4, <1>6, <2>2, <2>3 DEF Routed, Work, routes_for_split, Listed
<1>7. ASSUME NEW t \in Task, WriteDns(t) PROVE Routed'
  <2>1. task'[t] = Idle
    BY <1>1, <1>7 DEF WriteDns, End
  <2>2. config'.zones = routes_for_split(records) /\ records' = records
    BY <1>1, <1>7 DEF WriteDns
  <2> QED
    BY <1>2, <1>4, <1>7, <2>1, <2>2
    DEF Routed, Work, routes_for_split, Listed, Idle
<1>8. ASSUME NEW t \in Task, forget_node_refs(t) PROVE Routed'
  <2>1. task'[t] = Idle /\ config' = config
    BY <1>1, <1>8 DEF forget_node_refs, End
  <2>2. \A x \in Name : records'[x] # NoRecord =>
            records'[x] = records[x] /\ records[x] # NoRecord
    BY <1>8 DEF forget_node_refs
  <2>3. routes_for_split(records)' \subseteq routes_for_split(records)
    BY <2>2 DEF routes_for_split, Listed
  <2> QED
    BY <1>2, <1>4, <1>8, <2>1, <2>3 DEF Routed, Work, Idle
<1>9. ASSUME NEW t \in Task, Work(t), ~ WriteNames(t), ~ SetRecords(t),
             ~ WriteDns(t), ~ forget_node_refs(t)
      PROVE  Routed'
  <2>1. UNCHANGED <<records, config>>
    BY <1>9 DEF Work, ReadNodes, UnusedRows, ForgetRows, SetAuto, RotateKey, RotateCert,
       SelectRows, DropRows, LeaveHeadscale
  <2>2. DOMAIN task[t] = {"pc", "req", "seen", "names"}
    BY <1>9, WorkMoves
    DEF Job, Editing, Routing, Reissuing, Replacing, Deleting
  <2>3. \/ End(t)
        \/ \E where \in {"key", "select", "refs"} : Then(t, where)
        \/ task' = [task EXCEPT ![t].pc = "write", ![t].seen = addr]
        \/ task' = [task EXCEPT ![t].pc = "cert", ![t].seen = made']
        \/ task' = [task EXCEPT ![t].pc = "drop", ![t].names = all_certs]
        \/ UnusedRows(t)
    BY <1>9 DEF Work, ReadNodes, UnusedRows, ForgetRows, SetAuto, RotateKey, RotateCert,
       SelectRows, DropRows, LeaveHeadscale
  <2>4. task'[t].pc # "set"
    BY <1>1, <2>2, <2>3 DEF End, Then, UnusedRows, Idle
  <2> QED
    BY <1>3, <1>4, <1>9, <2>1, <2>4
<1>10. ASSUME NEW t \in Task, StartTask(t) PROVE Routed'
  <2>1. \A q \in Request : First[q.op] # "set"
    BY RequestOf DEF First
  <2>2. \A q \in world.requests : q \in Request
    BY DEF Typed, WorkTyped, World
  <2>3. task'[t].pc # "set" /\ \A u \in Task : u # t => task'[u] = task[u]
    BY <1>1, <1>10, <2>1, <2>2 DEF StartTask
  <2> QED
    BY <1>3, <1>10, <2>3 DEF StartTask
<1>11. CASE UNCHANGED <<records, config, task>>
  BY <1>3, <1>11
<1>12. CASE Elsewhere
  BY <1>5, <1>6, <1>7, <1>8, <1>9, <1>10, <1>11, <1>12 DEF Elsewhere, Collect,
     CollectNodes, sync, CollectNames, CollectUnused, CollectForget, Readdress, Age, Unpause,
     vars
<1>13. CASE Restart
  BY <1>3, <1>13, RestartMoves DEF Idle
<1>14. CASE \E n \in Node : AgentRun(n) \/ GiveUp(n)
  BY <1>11, <1>14, AgentMoves DEF GiveUp
<1>15. CASE \E s \in Slot : Serve(s)
  BY <1>11, <1>15, ServeMoves
<1> QED
  BY <1>12, <1>13, <1>14, <1>15, NextCases

(* If the zones of the list are routed when the panel starts, they are     *)
(* after every write of every edit, one that fails in the middle included, *)
(* as long as edits do not overlap (update_dns_records, update_dns,        *)
(* forget_node_refs).                                                      *)
THEOREM ZonesCoverNamesHolds == Spec /\ ZonesCoverNames => []ZonesCoverNames
<1> DEFINE Inv == world.one_edit => Routed
<1>1. Init /\ ZonesCoverNames => TypeInv /\ Inv
  <2>1. Init /\ ZonesCoverNames => Inv
    BY DEF Init, ZonesCoverNames, Routed, OneTask, Idle
  <2> QED
    BY <2>1, InitInv
<1>2. TypeInv /\ Inv /\ [Next]_vars => (TypeInv /\ Inv)'
  <2>1. TypeInv /\ Inv /\ [Next]_vars => TypeInv'
    BY TypeInvStep
  <2>2. TypeInv /\ Inv /\ [Next]_vars => Inv'
    BY RoutedStep, WorldStep DEF TypeInv
  <2> QED
    BY <2>1, <2>2
<1>3. Inv => ZonesCoverNames
  BY DEF Routed, ZonesCoverNames
<1> QED
  BY <1>1, <1>2, <1>3, PTL DEF Spec

(* --- the root that signed what is in force --------------------------------- *)

(* How a start is meant whose certificates are all of the root in force:   *)
(* administrators do not overlap; a panel without a root makes it for one  *)
(* agent, that does not give up, and does not replace it; a panel that     *)
(* replaces its root is not cut short in it.                               *)
Reissues == {q \in world.requests : q.op = "ca" /\ q.reissue}
OneAsks == world.lost = 0 /\ \A m, n \in world.agents : m = n
Rooted ==
    /\ world.one_edit
    /\ world.root = 0 => OneAsks /\ Reissues = {}
    /\ Reissues # {} => world.faults = 0

(* A root is replaced because it was asked for.                            *)
Rotations == \A t \in Task : task[t] # Idle =>
    /\ task[t].req \in world.requests
    /\ task[t].pc \in {"key", "cert", "select", "drop"} => task[t].req.reissue

(* Where there is no root at the start one agent asks, and waits.          *)
Alone == world.root = 0 =>
    /\ agents \subseteq world.agents
    /\ \A n \in Node : agent[n] # Idle => n \in world.agents
    /\ \A s \in Slot : serving[s] # Free =>
          serving[s].node \in world.agents /\ serving[s].waited

(* Key and certificate of the root fit, are being replaced, or the root is *)
(* being made.                                                             *)
Unmade ==
    /\ root.cert = 0 /\ world.root = 0
    /\ \A x \in Name : rows[x].status # "ok"
    /\ \A s \in Slot :
          /\ serving[s].pc \notin {"sign", "store"}
          /\ serving[s].pc = "make_cert" =>
                serving[s].cert = root.key /\ root.key # 0
Pair ==
    \/ root.key = root.cert /\ root.key # 0
    \/ root.key # 0 /\ root.cert # 0 /\ \E t \in Task : task[t].pc = "cert"
    \/ Unmade

Making ==
    /\ \A s \in Slot :
          /\ serving[s].pc \in {"make_key", "make_cert"} => root.cert = 0
          /\ serving[s].pc = "key" => (serving[s].cert = 0 <=> root.cert = 0)
    /\ \A t \in Task : task[t].pc = "cert" => task[t].seen = root.key

(* What a replaced root has signed is going to be forgotten.               *)
Doomed(x) == \E t \in Task :
    \/ task[t].pc \in {"cert", "select"}
    \/ task[t].pc = "drop" /\ x \in task[t].names

Signed ==
    /\ \A x \in Name : rows[x].status = "ok" =>
          rows[x].cert.root = root.key \/ Doomed(x)
    /\ \A s \in Slot : serving[s].pc = "store" /\ serving[s].key # 0 =>
          \/ serving[s].key = root.key \/ Doomed(serving[s].name)
          \/ rows[serving[s].name] = NoRow

RootInv ==
    /\ Rooted /\ OneTask /\ Rotations /\ Alone
    /\ Pair /\ Making /\ Signed

LEMMA RootInit == ASSUME Init, Rooted PROVE RootInv
<1>1. world.root \in Nat
  BY NamesAssumption DEF Init, World
<1>2. OneTask /\ Rotations /\ Alone /\ Making /\ Signed
  BY DEF Init, OneTask, Rotations, Alone, Making, Signed, Idle, Free, NoRow
<1>3. Pair
  BY <1>1 DEF Init, Pair, Unmade, Free, NoRow
<1> QED
  BY <1>2, <1>3 DEF RootInv

LEMMA RootedStep == ASSUME Typed, Rooted, [Next]_vars PROVE Rooted'
BY WorldStep DEF Rooted, Reissues, OneAsks

(* Without a request for it no root is replaced.                           *)
LEMMA NoRotation ==
    ASSUME Typed, Rotations, Reissues = {}
    PROVE  \A t \in Task : task[t].pc \notin {"key", "cert", "select", "drop"}
<1> SUFFICES ASSUME NEW t \in Task,
                    task[t].pc \in {"key", "cert", "select", "drop"}
             PROVE  FALSE
  OBVIOUS
<1>1. task[t] # Idle
  BY DEF Idle
<1>2. task[t].req \in world.requests /\ task[t].req.reissue
  BY <1>1 DEF Rotations
<1>3. task[t] \in Reissuing \cup Replacing
  BY TaskAt DEF Typed
<1>4. task[t].req.op = "ca"
  BY <1>3 DEF Reissuing, Replacing, Of
<1> QED
  BY <1>2, <1>4 DEF Reissues

LEMMA RotationsStep == ASSUME Typed, Rotations, [Next]_vars PROVE Rotations'
<1>1. task \in [Task -> Job] /\ world'.requests = world.requests
  BY WorldStep DEF Typed, WorkTyped
<1>2. ASSUME NEW t \in Task, StartTask(t) PROVE Rotations'
  <2>1. PICK q \in world.requests :
          task' = [task EXCEPT ![t] = [pc |-> First[q.op], req |-> q,
                                       seen |-> addr, names |-> {}]]
    BY <1>2 DEF StartTask
  <2>2. q \in Request
    BY DEF Typed, WorkTyped, World
  <2>3. First[q.op] \notin {"key", "cert", "select", "drop"}
    BY <2>2, RequestOf DEF First
  <2>4. task'[t].req \in world.requests
        /\ task'[t].pc \notin {"key", "cert", "select", "drop"}
    BY <1>1, <2>1, <2>3
  <2>5. \A u \in Task : u # t => task'[u] = task[u]
    BY <1>1, <2>1
  <2> QED
    BY <1>1, <2>4, <2>5 DEF Rotations
<1>3. ASSUME NEW t \in Task, Work(t) PROVE Rotations'
  <2>1. /\ task[t] # Idle /\ \A u \in Task : u # t => task'[u] = task[u]
        /\ task'[t] # Idle => task'[t].req = task[t].req
    BY <1>3, WorkMoves
  <2>2. DOMAIN task[t] = {"pc", "req", "seen", "names"}
    BY <1>3, WorkMoves
    DEF Job, Editing, Routing, Reissuing, Replacing, Deleting
  <2>3. \/ SetAuto(t) /\ task[t].req.reissue
        \/ RotateKey(t) \/ RotateCert(t) \/ SelectRows(t)
        \/ End(t) \/ \E where \in {"set", "unused", "refs"} : Then(t, where)
        \/ task' = [task EXCEPT ![t].pc = "write", ![t].seen = addr]
        \/ UnusedRows(t)
    BY <1>3 DEF Work, ReadNodes, WriteNames, SetRecords, UnusedRows, ForgetRows, WriteDns,
       SetAuto, DropRows, LeaveHeadscale, forget_node_refs
  <2>4. task'[t].pc \in {"key", "cert", "select", "drop"}
           => task[t].pc \in {"key", "cert", "select"} \/ task[t].req.reissue
    BY <1>1, <2>2, <2>3 DEF RotateKey, RotateCert, SelectRows, UnusedRows, Doing,
       End, Then, Idle
  <2> QED
    BY <1>1, <2>1, <2>4 DEF Rotations
<1>4. CASE UNCHANGED task
  BY <1>1, <1>4 DEF Rotations
<1>5. CASE Elsewhere
  BY <1>2, <1>3, <1>4, <1>5 DEF Elsewhere, Collect, CollectNodes, sync,
     CollectNames, CollectUnused, CollectForget, Readdress, Age, Unpause, vars
<1>6. CASE Restart
  BY <1>6, RestartMoves DEF Rotations
<1> QED
  BY <1>4, <1>5, <1>6, NextCases, AgentMoves, ServeMoves DEF GiveUp

LEMMA AloneStep ==
    ASSUME Typed, Waiting, Rooted, Alone, [Next]_vars PROVE Alone'
<1> USE DEF panel, nodes
<1>1. /\ world'.root = world.root /\ world'.agents = world.agents
  BY WorldStep
<1>2. /\ agent \in [Node -> Run] /\ serving \in [Slot -> Serving \cup {Free}]
  BY DEF Typed, NodesTyped, WorkTyped
<1> SUFFICES ASSUME world.root = 0
             PROVE  /\ agents' \subseteq world.agents
                    /\ \A n \in Node : agent'[n] # Idle => n \in world.agents
                    /\ \A s \in Slot : serving'[s] # Free =>
                          /\ serving'[s].node \in world.agents
                          /\ serving'[s].waited
  BY <1>1 DEF Alone
<1>3. /\ agents \subseteq world.agents
      /\ \A n \in Node : agent[n] # Idle => n \in world.agents
      /\ \A s \in Slot : serving[s] # Free =>
            serving[s].node \in world.agents /\ serving[s].waited
  BY DEF Alone
<1>4. ASSUME NEW n \in Node, AgentRun(n)
      PROVE  /\ agents' \subseteq world.agents
             /\ \A m \in Node : agent'[m] # Idle => m \in world.agents
             /\ \A s \in Slot : serving'[s] # Free =>
                   serving'[s].node \in world.agents /\ serving'[s].waited
  <2>1. n \in world.agents
    BY <1>3, <1>4 DEF AgentRun, Poll, PollNames, InstallRoot, SendCsr,
       FetchCert, Done, Idle
  <2>2. /\ \A m \in Node : m # n => agent'[m] = agent[m]
        /\ agents' = agents
        /\ \/ UNCHANGED serving
           \/ \E s \in Slot, x \in Name :
                serving' = [serving EXCEPT ![s] =
                   [pc |-> "ask", node |-> n, name |-> x, waited |-> TRUE,
                    cert |-> 0, key |-> 0]]
    BY <1>4, AgentMoves
  <2>3. \A s \in Slot : serving'[s] # Free =>
            serving'[s].node \in world.agents /\ serving'[s].waited
    <3>1. CASE UNCHANGED serving
      BY <1>3, <3>1
    <3>2. ASSUME NEW s \in Slot, NEW x \in Name,
                 serving' = [serving EXCEPT ![s] =
                   [pc |-> "ask", node |-> n, name |-> x, waited |-> TRUE,
                    cert |-> 0, key |-> 0]]
          PROVE  \A u \in Slot : serving'[u] # Free =>
                    serving'[u].node \in world.agents /\ serving'[u].waited
      BY <1>2, <1>3, <2>1, <3>2
    <3> QED
      BY <2>2, <3>1, <3>2
  <2> QED
    BY <1>3, <2>1, <2>2, <2>3
<1>5. ASSUME NEW n \in Node, GiveUp(n) PROVE FALSE
  BY <1>5 DEF GiveUp, Rooted, OneAsks
<1>6. ASSUME NEW s \in Slot, Serve(s)
      PROVE  /\ agents' \subseteq world.agents
             /\ \A m \in Node : agent'[m] # Idle => m \in world.agents
             /\ \A u \in Slot : serving'[u] # Free =>
                   serving'[u].node \in world.agents /\ serving'[u].waited
  <2>1. Moved(s) /\ serving[s] \in Serving /\ agents' = agents
    BY <1>6, ServeMoves
  <2>2. serving[s] # Free /\ serving[s].node \in Node
    BY <2>1 DEF Serving, Free, Inside
  <2>3. \/ UNCHANGED agent
        \/ agent' = [agent EXCEPT ![serving[s].node].pc = "names"]
    BY <1>6 DEF Serve, Ask, Begin, ReadCert, ReadKey, MakeKey, MakeCert, Sign,
       Store, Answer
  <2>4. \A m \in Node : m # serving[s].node => agent'[m] = agent[m]
    BY <1>2, <2>3
  <2> QED
    BY <1>3, <2>1, <2>2, <2>4 DEF Moved
<1>7. CASE Restart
  <2>1. \A n \in Node : agent'[n] # Idle => agent[n] # Idle
    BY <1>7 DEF Restart, Idle
  <2> QED
    BY <1>3, <1>7, <2>1, RestartMoves
<1>8. CASE Elsewhere
  <2>1. UNCHANGED <<serving, agent>>
    BY <1>8, ElsewhereMoves
  <2>2. agents' \subseteq agents
    BY <1>8 DEF Elsewhere, StartTask, Work, ReadNodes, WriteNames, SetRecords,
       UnusedRows, ForgetRows, WriteDns, SetAuto, RotateKey, RotateCert, SelectRows,
       DropRows, LeaveHeadscale, forget_node_refs, Collect, CollectNodes, sync,
       CollectNames, CollectUnused, CollectForget, Readdress, Age, Unpause, vars
  <2> QED
    BY <1>3, <2>1, <2>2
<1> QED
  BY <1>4, <1>5, <1>6, <1>7, <1>8, NextCases

(* Where there was no root, one request makes it.                          *)
LEMMA OneBusy ==
    ASSUME Typed, Waiting, Rooted, Alone, world.root = 0,
           NEW s \in Slot, serving[s] # Free
    PROVE  \A u \in Slot : u # s => serving[u] = Free
BY DEF Waiting, Waits, Rooted, OneAsks, Alone

(* A step that neither makes, replaces nor forgets a root, and signs       *)
(* nothing.                                                                *)
QuietRoot == root'.key = root.key /\ root'.cert = root.cert
QuietSlots == \A s \in Slot :
    \/ serving'[s].pc \in {"free", "ask", "lock", "cert"}
    \/ /\ serving'[s].pc = serving[s].pc /\ serving'[s].cert = serving[s].cert
       /\ serving'[s].key = serving[s].key /\ serving'[s].name = serving[s].name
QuietTasks == \A t \in Task :
    (\/ task[t].pc \in {"cert", "select", "drop"}
     \/ task'[t].pc \in {"cert", "select", "drop"}) => task'[t] = task[t]
QuietRows == \A x \in Name :
    /\ rows'[x].status = "ok" =>
          rows[x].status = "ok" /\ rows'[x].cert = rows[x].cert
    /\ rows[x] = NoRow =>
          rows'[x] = NoRow
          \/ ~ \E s \in Slot : serving[s].pc = "store" /\ serving[s].name = x

LEMMA QuietStep ==
    ASSUME Typed, Typed', Pair, Making, Signed, world'.root = world.root,
           QuietRoot, QuietSlots, QuietTasks, QuietRows
    PROVE  Pair' /\ Making' /\ Signed'
<1>1. Pair'
  <2>1. CASE root.key = root.cert /\ root.key # 0
    BY <2>1 DEF Pair, QuietRoot
  <2>2. CASE root.key # 0 /\ root.cert # 0 /\ \E t \in Task : task[t].pc = "cert"
    BY <2>2 DEF Pair, QuietRoot, QuietTasks
  <2>3. CASE Unmade
    BY <2>3 DEF Unmade, Pair, QuietRoot, QuietSlots, QuietRows
  <2> QED
    BY <2>1, <2>2, <2>3 DEF Pair
<1>2. Making'
  BY DEF Making, QuietRoot, QuietSlots, QuietTasks
<1>3. \A x \in Name : Doomed(x) => Doomed(x)'
  BY DEF Doomed, QuietTasks
<1>4. \A x \in Name : rows'[x].status = "ok" =>
          rows'[x].cert.root = root'.key \/ Doomed(x)'
  BY <1>3 DEF Signed, QuietRoot, QuietRows
<1>5. ASSUME NEW s \in Slot, serving'[s].pc = "store", serving'[s].key # 0
      PROVE  (\/ serving[s].key = root.key \/ Doomed(serving[s].name)
              \/ rows[serving[s].name] = NoRow)'
  <2>1. /\ serving[s].pc = "store" /\ serving[s].key = serving'[s].key
        /\ serving[s].name = serving'[s].name
    BY <1>5 DEF QuietSlots
  <2> DEFINE x == serving[s].name
  <2>2. x \in Name
    BY <2>1, ServingAt DEF Typed, At, Serving
  <2>3. CASE serving[s].key = root.key
    BY <2>1, <2>3 DEF QuietRoot
  <2>4. CASE Doomed(x)
    <3>1. \A y \in Name : y = x => Doomed(y)'
      BY <1>3, <2>4
    <3>2. Doomed(x)' <=> \E t \in Task :
                \/ task'[t].pc \in {"cert", "select"}
                \/ task'[t].pc = "drop" /\ x \in task'[t].names
      BY <2>1 DEF Doomed
    <3> QED
      BY <2>2, <3>1, <3>2 DEF Doomed
  <2>5. CASE rows[x] = NoRow
    BY <2>1, <2>2, <2>5 DEF QuietRows
  <2> QED
    BY <1>5, <2>1, <2>3, <2>4, <2>5 DEF Signed
<1>6. Signed'
  BY <1>4, <1>5 DEF Signed
<1> QED
  BY <1>1, <1>2, <1>6

LEMMA RowsQuiet ==
    ASSUME Typed, [Next]_vars, \A s \in Slot : ~ Store(s) PROVE QuietRows
<1> SUFFICES ASSUME NEW x \in Name
    PROVE  /\ rows'[x].status = "ok" =>
                 rows[x].status = "ok" /\ rows'[x].cert = rows[x].cert
           /\ rows[x] = NoRow =>
                 rows'[x] = NoRow \/ ~ \E s \in Slot :
                     serving[s].pc = "store" /\ serving[s].name = x
  BY DEF QuietRows
<1>1. rows[x] \in Row \cup {NoRow}
  BY DEF Typed, PanelTyped
<1>2. CASE rows'[x] = rows[x] \/ rows'[x] = NoRow
  BY <1>2 DEF NoRow
<1>3. CASE Ages(x) \/ Recovers(x)
  <2>1. rows[x] # NoRow /\ rows[x] \in Row
    BY <1>1, <1>3 DEF Ages, Recovers, NoRow
  <2> QED
    BY <1>3, <2>1 DEF Ages, Recovers, Row
<1>4. ASSUME NEW s \in Slot, Begins(s, x)
      PROVE  rows'[x].status # "ok" /\ Locked(x) = FALSE
  <2>1. begun(rows[x]).status = "issuing"
    BY <1>1 DEF begun, Row
  <2> QED
    BY <1>4, <2>1 DEF Begins, Locked
<1>5. ASSUME NEW s \in Slot, Serve(s), Fails(s, x) \/ Issues(s, x) PROVE FALSE
  BY <1>5 DEF Serve, Ask, Begin, ReadCert, ReadKey, MakeKey, MakeCert, Sign, At,
     Fails, Issues
<1> QED
  BY <1>2, <1>3, <1>4, <1>5, RowsMove DEF RowMoves, Locked, Inside

LEMMA SlotsQuiet ==
    ASSUME Typed, [Next]_vars,
           \A s \in Slot : Serve(s) => Ask(s) \/ Begin(s)
    PROVE  QuietSlots
<1>1. serving \in [Slot -> Serving \cup {Free}]
  BY DEF Typed, WorkTyped
<1>2. ASSUME NEW n \in Node, AgentRun(n) PROVE QuietSlots
  BY <1>1, <1>2, AgentMoves DEF QuietSlots
<1>3. ASSUME NEW n \in Node, GiveUp(n) PROVE QuietSlots
  BY <1>3, GiveUpMoves DEF QuietSlots, Free
<1>4. ASSUME NEW s \in Slot, Serve(s) PROVE QuietSlots
  <2>1. Moved(s) /\ serving[s] \in Serving
    BY <1>4, ServeMoves
  <2>2. serving'[s] = Free \/ Goto(s, "lock") \/ Goto(s, "cert")
    BY <1>1, <1>4 DEF Ask, Begin, Answer
  <2>3. serving'[s].pc \in {"free", "lock", "cert"}
    BY <1>1, <2>1, <2>2 DEF Goto, Serving, Free
  <2> QED
    BY <2>1, <2>3 DEF Moved, QuietSlots
<1>5. CASE Restart
  BY <1>5, RestartMoves DEF QuietSlots, Free
<1>6. CASE Elsewhere
  BY <1>6, ElsewhereMoves DEF QuietSlots
<1> QED
  BY <1>2, <1>3, <1>4, <1>5, <1>6, NextCases

Rotates(t) == RotateKey(t) \/ RotateCert(t) \/ SelectRows(t) \/ DropRows(t)

LEMMA TasksQuiet ==
    ASSUME Typed, Rooted, Rotations, [Next]_vars,
           \A t \in Task : ~ Rotates(t)
    PROVE  QuietTasks
<1>1. task \in [Task -> Job]
  BY DEF Typed, WorkTyped
<1>2. ASSUME NEW t \in Task, StartTask(t) PROVE QuietTasks
  <2>1. \A q \in Request : First[q.op] \notin {"cert", "select", "drop"}
    BY RequestOf DEF First
  <2>2. \A q \in world.requests : q \in Request
    BY DEF Typed, WorkTyped, World
  <2>3. task'[t].pc \notin {"cert", "select", "drop"}
    BY <1>1, <1>2, <2>1, <2>2 DEF StartTask
  <2>4. task[t].pc = "idle" /\ \A u \in Task : u # t => task'[u] = task[u]
    BY <1>1, <1>2 DEF StartTask, Doing
  <2> QED
    BY <2>3, <2>4 DEF QuietTasks
<1>3. ASSUME NEW t \in Task, Work(t) PROVE QuietTasks
  <2>1. \A u \in Task : u # t => task'[u] = task[u]
    BY <1>3, WorkMoves
  <2>2. DOMAIN task[t] = {"pc", "req", "seen", "names"}
    BY <1>3, WorkMoves
    DEF Job, Editing, Routing, Reissuing, Replacing, Deleting
  <2>3. /\ task[t].pc \notin {"cert", "select", "drop"}
        /\ \/ End(t)
           \/ \E where \in {"set", "unused", "key", "refs"} : Then(t, where)
           \/ task' = [task EXCEPT ![t].pc = "write", ![t].seen = addr]
           \/ UnusedRows(t)
    BY <1>3 DEF Work, Rotates, ReadNodes, WriteNames, SetRecords, UnusedRows, ForgetRows,
       WriteDns, SetAuto, LeaveHeadscale, forget_node_refs, Doing
  <2>4. task'[t].pc \notin {"cert", "select", "drop"}
    BY <1>1, <2>2, <2>3 DEF End, Then, UnusedRows, Idle
  <2> QED
    BY <2>1, <2>3, <2>4 DEF QuietTasks
<1>4. CASE UNCHANGED task
  BY <1>4 DEF QuietTasks
<1>5. CASE Elsewhere
  BY <1>2, <1>3, <1>4, <1>5 DEF Elsewhere, Collect, CollectNodes, sync,
     CollectNames, CollectUnused, CollectForget, Readdress, Age, Unpause, vars
<1>6. CASE Restart
  <2>1. world.faults # 0
    BY <1>6 DEF Restart, Typed, WorkTyped, World
  <2>2. \A t \in Task : task[t].pc \notin {"cert", "select", "drop"}
    BY <2>1, NoRotation DEF Rooted
  <2> QED
    BY <1>6, <2>2, RestartMoves DEF QuietTasks, Idle
<1> QED
  BY <1>4, <1>5, <1>6, NextCases, AgentMoves, ServeMoves DEF GiveUp

LEMMA RootQuiet ==
    ASSUME Typed, [Next]_vars,
           \A t \in Task : ~ Rotates(t),
           \A s \in Slot : ~ MakeKey(s) /\ ~ MakeCert(s)
    PROVE  QuietRoot
<1> USE DEF panel
<1>1. root \in Root
  BY DEF Typed, PanelTyped
<1>2. CASE UNCHANGED root
  BY <1>2 DEF QuietRoot
<1>3. ASSUME NEW t \in Task, SetAuto(t) PROVE QuietRoot
  BY <1>1, <1>3 DEF SetAuto, QuietRoot, Root
<1>4. CASE Elsewhere
  BY <1>2, <1>3, <1>4 DEF Elsewhere, StartTask, Work, Rotates, ReadNodes,
     WriteNames, SetRecords, UnusedRows, ForgetRows, WriteDns, LeaveHeadscale,
     forget_node_refs, Collect, CollectNodes, sync, CollectNames,
     CollectUnused, CollectForget, Readdress, Age, Unpause, vars
<1>5. CASE \E s \in Slot : Serve(s)
  BY <1>2, <1>5 DEF Serve, Ask, Begin, ReadCert, ReadKey, Sign, Store
<1> QED
  BY <1>2, <1>4, <1>5, NextCases, AgentMoves, RestartMoves DEF GiveUp

(* --- the steps that make, replace and forget a root ------------------------ *)

LEMMA RotatesStep ==
    ASSUME Typed, Typed', RootInv, [Next]_vars, NEW t \in Task, Rotates(t)
    PROVE  Pair' /\ Making' /\ Signed'
<1> USE DEF panel
<1>1. /\ root \in Root /\ made \in Nat /\ task \in [Task -> Job]
      /\ rows \in [Name -> Row \cup {NoRow}]
      /\ serving \in [Slot -> Serving \cup {Free}]
  BY DEF Typed, PanelTyped, WorkTyped
<1>2. task[t].pc \in {"key", "cert", "select", "drop"} /\ task[t] # Idle
  BY DEF Rotates, RotateKey, RotateCert, SelectRows, DropRows, Doing, Idle
<1>3. world.root # 0 /\ ~ Unmade
  <2>1. Reissues # {}
    BY <1>2, NoRotation DEF RootInv
  <2> QED
    BY <2>1 DEF RootInv, Rooted, Unmade
<1>4. \A u \in Task : u # t => task[u] = Idle
  BY <1>2 DEF RootInv, OneTask
<1>5. \A u \in Task : u # t => task'[u].pc = "idle"
  <2>1. Work(t)
    BY DEF Rotates, Work
  <2> QED
    BY <1>4, <2>1, WorkMoves DEF Idle
<1>6. UNCHANGED serving
  BY DEF Rotates, RotateKey, RotateCert, SelectRows, DropRows
<1>7. \A x \in Name : Doomed(x) =>
          \/ task[t].pc \in {"cert", "select"}
          \/ task[t].pc = "drop" /\ x \in task[t].names
  BY <1>4 DEF Doomed, Idle
<1>8. root.key # 0 /\ root.cert # 0
  BY <1>3 DEF RootInv, Pair
<1>9. \A s \in Slot : /\ serving[s].pc \notin {"make_key", "make_cert"}
                      /\ serving[s].pc = "key" => serving[s].cert # 0
  BY <1>8 DEF RootInv, Making
<1>10. \A s \in Slot : serving[s].pc = "store" => serving[s].name \in Name
  BY ServingAt DEF Typed, At, Serving
<1>11. CASE RotateKey(t)
  <2>1. task[t] \in Reissuing
    BY <1>11, TaskAt DEF RotateKey, Doing, Typed
  <2>2. /\ root'.key = made' /\ root'.cert = root.cert /\ made' # 0
        /\ task'[t].pc = "cert" /\ task'[t].seen = made'
    BY <1>1, <1>11, <2>1 DEF RotateKey, Root, Reissuing
  <2>3. Pair'
    BY <1>8, <2>2 DEF Pair
  <2>4. Making'
    BY <1>5, <1>6, <1>8, <1>9, <2>2 DEF Making
  <2>5. \A x \in Name : Doomed(x)'
    BY <2>2 DEF Doomed
  <2>6. Signed'
    BY <1>6, <1>10, <2>5 DEF Signed
  <2> QED
    BY <2>3, <2>4, <2>6
<1>12. CASE RotateCert(t)
  <2>1. task[t] \in Replacing /\ task[t].pc = "cert"
    BY <1>12, TaskAt DEF RotateCert, Doing, Typed
  <2>2. task[t].seen = root.key
    BY <2>1 DEF RootInv, Making
  <2>3. /\ root'.key = root.key /\ root'.cert = root.key
        /\ task'[t].pc = "select"
    BY <1>1, <1>12, <2>1, <2>2 DEF RotateCert, Then, Root, Replacing
  <2>4. Pair'
    BY <1>8, <2>3 DEF Pair
  <2>5. Making'
    BY <1>5, <1>6, <1>8, <1>9, <2>3 DEF Making
  <2>6. \A x \in Name : Doomed(x)'
    BY <2>3 DEF Doomed
  <2>7. Signed'
    BY <1>6, <1>10, <2>6 DEF Signed
  <2> QED
    BY <2>4, <2>5, <2>7
<1>13. CASE SelectRows(t) \/ DropRows(t)
  <2>1. task[t] \in Replacing /\ task[t].pc \in {"select", "drop"}
    BY <1>13, TaskAt DEF SelectRows, DropRows, Doing, Typed
  <2>2. root' = root /\ root.key = root.cert
    <3>1. ~ \E u \in Task : task[u].pc = "cert"
      BY <1>4, <2>1 DEF Idle
    <3> QED
      BY <1>3, <1>13, <3>1 DEF RootInv, Pair, SelectRows, DropRows
  <2>3. task'[t].pc # "cert"
    BY <1>1, <1>13, <2>1 DEF SelectRows, DropRows, End, Idle, Replacing
  <2>4. Pair' /\ Making'
    BY <1>5, <1>6, <1>8, <1>9, <2>2, <2>3 DEF Pair, Making
  <2>5. CASE SelectRows(t)
    <3>1. /\ task'[t].pc = "drop" /\ task'[t].names = all_certs
          /\ UNCHANGED rows
      BY <1>1, <2>1, <2>5 DEF SelectRows, Replacing
    <3>2. \A x \in Name : rows[x] # NoRow => Doomed(x)'
      BY <3>1 DEF Doomed, all_certs
    <3>3. Signed'
      BY <1>6, <1>10, <3>1, <3>2 DEF Signed, NoRow
    <3> QED
      BY <2>4, <3>3
  <2>6. CASE DropRows(t)
    <3>1. \A x \in Name : rows'[x] = IF x \in task[t].names THEN NoRow
                                     ELSE rows[x]
      BY <2>6 DEF DropRows, without
    <3>2. \A x \in Name : Doomed(x) => x \in task[t].names
      BY <1>7, <2>6 DEF DropRows, Doing
    <3>3. \A x \in Name : rows'[x].status = "ok" =>
              rows'[x].cert.root = root'.key
      BY <2>2, <3>1, <3>2 DEF RootInv, Signed, NoRow
    <3>4. \A s \in Slot : serving[s].pc = "store" /\ serving[s].key # 0 =>
              \/ serving[s].key = root'.key \/ rows'[serving[s].name] = NoRow
      BY <1>10, <2>2, <3>1, <3>2 DEF RootInv, Signed
    <3>5. Signed'
      BY <1>6, <3>3, <3>4 DEF Signed
    <3> QED
      BY <2>4, <3>5
  <2> QED
    BY <1>13, <2>5, <2>6
<1> QED
  BY <1>11, <1>12, <1>13 DEF Rotates

LEMMA ServesStep ==
    ASSUME TypeInv, Typed', RootInv, [Next]_vars, NEW s \in Slot, Serve(s),
           ~ Ask(s), ~ Begin(s)
    PROVE  Pair' /\ Making' /\ Signed'
<1> USE DEF panel
<1>1. /\ root \in Root /\ made \in Nat
      /\ rows \in [Name -> Row \cup {NoRow}]
      /\ serving \in [Slot -> Serving \cup {Free}]
      /\ Typed /\ Waiting /\ LockHeld
  BY DEF TypeInv, Typed, PanelTyped, WorkTyped
<1>2. /\ serving[s] \in Serving /\ UNCHANGED task /\ world' = world
      /\ \A u \in Slot : u # s => serving'[u] = serving[u]
  BY <1>1, ServeMoves DEF Moved
<1>3. serving[s] # Free /\ serving[s].name \in Name
  BY <1>2 DEF Serving, Free, Inside
<1>4. \A x : Doomed(x)' <=> Doomed(x)
  BY <1>2 DEF Doomed
<1>5. Pair /\ Making /\ Signed
  BY DEF RootInv
<1>6. ASSUME UNCHANGED <<root, rows>>, serving'[s].pc # "store" PROVE Signed'
  BY <1>2, <1>4, <1>5, <1>6 DEF Signed
<1>7. ASSUME root.cert = 0
      PROVE  /\ Unmade /\ \A u \in Slot : u # s => serving[u] = Free
             /\ \A t \in Task : task[t].pc # "cert"
  <2>1. Unmade
    BY <1>5, <1>7 DEF Pair
  <2>2. world.root = 0
    BY <2>1 DEF Unmade
  <2>3. \A u \in Slot : u # s => serving[u] = Free
    BY <1>1, <1>3, <2>2, OneBusy DEF RootInv
  <2>4. \A t \in Task : task[t].pc # "cert"
    BY <1>1, <2>2, NoRotation DEF RootInv, Rooted
  <2> QED
    BY <2>1, <2>3, <2>4
<1>8. CASE ReadCert(s)
  <2>1. serving'[s].pc = "key" /\ serving'[s].cert = root.cert
        /\ UNCHANGED <<root, rows>>
    BY <1>1, <1>2, <1>8 DEF ReadCert, Serving
  <2>2. Making'
    BY <1>2, <1>5, <2>1 DEF Making
  <2>3. Pair'
    BY <1>2, <1>5, <2>1 DEF Pair, Unmade
  <2> QED
    BY <1>6, <2>1, <2>2, <2>3
<1>9. CASE ReadKey(s)
  <2>1. /\ UNCHANGED <<root, rows>> /\ serving[s].pc = "key"
        /\ serving'[s].pc = IF serving[s].cert # 0 /\ root.key # 0
                            THEN "sign" ELSE "make_key"
    BY <1>1, <1>2, <1>9 DEF ReadKey, Goto, At, Serving
  <2>2. serving[s].cert = 0 <=> root.cert = 0
    BY <1>5, <2>1 DEF Making
  <2>3. root.cert # 0 => root.key # 0 /\ ~ Unmade
    BY <1>5 DEF Pair, Unmade
  <2>4. Making'
    BY <1>2, <1>5, <2>1, <2>2, <2>3 DEF Making
  <2>5. Pair'
    BY <1>2, <1>5, <2>1, <2>2, <2>3 DEF Pair, Unmade
  <2> QED
    BY <1>6, <2>1, <2>4, <2>5
<1>10. CASE MakeKey(s)
  <2>1. root.cert = 0
    BY <1>5, <1>10 DEF MakeKey, At, Making
  <2>2. /\ UNCHANGED rows /\ root'.key = made' /\ root'.cert = 0 /\ made' # 0
        /\ serving'[s].pc = "make_cert" /\ serving'[s].cert = made'
    BY <1>1, <1>2, <1>10, <2>1 DEF MakeKey, Root, Serving
  <2>3. \A u \in Slot : u # s => serving'[u].pc = "free"
    BY <1>2, <1>7, <2>1 DEF Free
  <2>4. Pair'
    BY <1>2, <1>7, <2>1, <2>2, <2>3 DEF Pair, Unmade
  <2>5. Making'
    BY <1>2, <1>7, <2>1, <2>2, <2>3 DEF Making
  <2>6. Signed'
    BY <1>7, <2>1, <2>2, <2>3 DEF Signed, Unmade
  <2> QED
    BY <2>4, <2>5, <2>6
<1>11. CASE MakeCert(s)
  <2>1. root.cert = 0 /\ serving[s].pc = "make_cert"
    BY <1>5, <1>11 DEF MakeCert, At, Making
  <2>2. serving[s].cert = root.key /\ root.key # 0
    BY <1>7, <2>1 DEF Unmade
  <2>3. /\ UNCHANGED rows /\ root'.key = root.key /\ root'.cert = root.key
        /\ serving'[s].pc = "sign"
    BY <1>1, <1>2, <1>11, <2>2 DEF MakeCert, Goto, Root, Serving
  <2>4. \A u \in Slot : u # s => serving'[u].pc = "free"
    BY <1>2, <1>7, <2>1 DEF Free
  <2>5. Pair'
    BY <2>2, <2>3 DEF Pair
  <2>6. Making'
    BY <1>2, <1>7, <2>1, <2>3, <2>4 DEF Making
  <2>7. Signed'
    BY <1>7, <2>1, <2>3, <2>4 DEF Signed, Unmade
  <2> QED
    BY <2>5, <2>6, <2>7
<1>12. CASE Sign(s)
  <2>1. /\ UNCHANGED <<root, rows>> /\ serving[s].pc = "sign"
        /\ serving'[s].pc = "store" /\ serving'[s].key \in {0, root.key}
    BY <1>1, <1>2, <1>12 DEF Sign, At, Serving
  <2>2. ~ Unmade
    BY <2>1 DEF Unmade
  <2>3. Pair'
    BY <1>2, <1>5, <2>1, <2>2 DEF Pair
  <2>4. Making'
    BY <1>2, <1>5, <2>1 DEF Making
  <2>5. Signed'
    BY <1>2, <1>4, <1>5, <2>1 DEF Signed
  <2> QED
    BY <2>3, <2>4, <2>5
<1>13. CASE Store(s)
  <2> DEFINE x == serving[s].name
  <2>1. serving[s].pc = "store" /\ serving'[s] = Free /\ UNCHANGED root
    BY <1>1, <1>13 DEF Store, At, Answer
  <2>2. Pair'
    BY <1>2, <1>5, <2>1 DEF Pair, Unmade
  <2>3. Making'
    BY <1>2, <1>5, <2>1 DEF Making, Free
  <2>4. \A y \in Name : y # x => rows'[y] = rows[y]
    BY <1>1, <1>13 DEF Store
  <2>5. rows'[x].status = "ok" =>
            \/ rows'[x] = rows[x]
            \/ /\ rows[x] # NoRow /\ serving[s].key # 0
               /\ rows'[x].cert.root = serving[s].key
    <3>1. \/ rows' = rows
          \/ /\ rows' = [rows EXCEPT ![x].status = "error", ![x].paused = TRUE]
             /\ rows[x] # NoRow
          \/ /\ rows[x] # NoRow /\ serving[s].key # 0
             /\ rows' = [rows EXCEPT ![x] =
                  [status |-> "ok",
                   cert |-> [root |-> serving[s].key, key |-> serving[s].node,
                             no |-> made + 1],
                   due |-> FALSE, paused |-> FALSE]]
      BY <1>13 DEF Store
    <3>2. CASE /\ rows' = [rows EXCEPT ![x].status = "error", ![x].paused = TRUE]
               /\ rows[x] # NoRow
      <4>1. rows[x] \in Row
        BY <1>1, <1>3, <3>2
      <4>2. rows'[x].status = "error"
        BY <1>1, <1>3, <3>2, <4>1 DEF Row
      <4> QED
        BY <4>2
    <3> QED
      BY <1>1, <1>3, <3>1, <3>2
  <2>6. rows'[x].status = "ok" => rows'[x].cert.root = root'.key \/ Doomed(x)
    BY <1>3, <1>5, <2>1, <2>5 DEF Signed
  <2>7. \A y \in Name : rows'[y].status = "ok" =>
            rows'[y].cert.root = root'.key \/ Doomed(y)
    BY <1>5, <2>1, <2>4, <2>6 DEF Signed
  <2>8. ASSUME NEW u \in Slot, serving'[u].pc = "store", serving'[u].key # 0
        PROVE  \/ serving'[u].key = root'.key \/ Doomed(serving'[u].name)
               \/ rows'[serving'[u].name] = NoRow
    <3>1. u # s /\ serving'[u] = serving[u]
      BY <1>2, <2>1, <2>8 DEF Free
    <3>2. serving[u].name # x
      BY <1>1, <2>1, <2>8, <3>1 DEF LockHeld, Inside
    <3>3. serving[u].name \in Name
      BY <1>1, <2>8, <3>1, ServingAt DEF Typed, At, Serving
    <3> QED
      BY <1>5, <2>1, <2>4, <2>8, <3>1, <3>2, <3>3 DEF Signed
  <2>9. Signed'
    BY <1>4, <2>7, <2>8 DEF Signed
  <2> QED
    BY <2>2, <2>3, <2>9
<1> QED
  BY <1>8, <1>9, <1>10, <1>11, <1>12, <1>13 DEF Serve

LEMMA RootStep ==
    ASSUME TypeInv, RootInv, [Next]_vars PROVE RootInv'
<1>1. Typed /\ Typed' /\ Waiting /\ Rooted /\ Rotations
  BY TypeInvStep DEF TypeInv, RootInv
<1>2. Pair' /\ Making' /\ Signed'
  <2>1. CASE \E t \in Task : Rotates(t)
    BY <1>1, <2>1, RotatesStep
  <2>2. CASE \E s \in Slot : Serve(s) /\ ~ Ask(s) /\ ~ Begin(s)
    BY <1>1, <2>2, ServesStep
  <2>3. CASE /\ \A t \in Task : ~ Rotates(t)
             /\ \A s \in Slot : Serve(s) => Ask(s) \/ Begin(s)
    <3>1. \A s \in Slot : ~ Store(s) /\ ~ MakeKey(s) /\ ~ MakeCert(s)
      BY <2>3 DEF Serve, Ask, Begin, Store, MakeKey, MakeCert, At
    <3>2. QuietRows /\ QuietSlots /\ QuietTasks /\ QuietRoot
      BY <1>1, <2>3, <3>1, RowsQuiet, SlotsQuiet, TasksQuiet, RootQuiet
    <3> QED
      BY <1>1, <3>2, QuietStep, WorldStep DEF RootInv
  <2> QED
    BY <2>1, <2>2, <2>3
<1>3. Rooted' /\ OneTask' /\ Rotations' /\ Alone'
  BY <1>1, RootedStep, OneTaskStep, RotationsStep, AloneStep
  DEF RootInv, Rooted
<1> QED
  BY <1>2, <1>3 DEF RootInv

(* Between rotations of the root every certificate that counts as issued   *)
(* is signed by the root in force (update_ca, certs.issue), for a start as *)
(* Rooted says: requests of administrators that do not overlap, a root made*)
(* for one agent or there from the start, a rotation that is not cut short.*)
THEOREM SignedByRootInForceHolds == Spec /\ Rooted => []SignedByRootInForce
<1>1. Init /\ Rooted => TypeInv /\ RootInv
  BY InitInv, RootInit
<1>2. TypeInv /\ RootInv /\ [Next]_vars => (TypeInv /\ RootInv)'
  BY TypeInvStep, RootStep
<1>3. TypeInv /\ RootInv => SignedByRootInForce
  <2> SUFFICES ASSUME RootInv, ~ Rotating, NEW x \in Name,
                      rows[x].status = "ok"
               PROVE  rows[x].cert.root = root.cert /\ root.cert = root.key
    BY DEF SignedByRootInForce
  <2>1. ~ Doomed(x)
    BY DEF Doomed, Rotating
  <2>2. root.key = root.cert
    BY DEF RootInv, Pair, Unmade, Rotating
  <2> QED
    BY <2>1, <2>2 DEF RootInv, Signed
<1> QED
  BY <1>1, <1>2, <1>3, PTL DEF Spec
============================================================================
