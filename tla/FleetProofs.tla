---------------------------- MODULE FleetProofs ----------------------------
(***************************************************************************)
(* Alerts that are confirmed, keys that are kept and notes that are not    *)
(* lost, for any number of machines, names, ids and keys, any worlds (for  *)
(* the notes, the careful ones), any number of restarts.                   *)
(***************************************************************************)
EXTENDS Fleet, TLAPS

(* --- alerts --------------------------------------------------------------- *)

Calls == [down : Nat, agent : Nat, key : Nat]

CycleShape ==
    cycle # Idle =>
        cycle = [began |-> cycle.began, pc |-> cycle.pc, ok |-> cycle.ok,
                 raw |-> cycle.raw, muted |-> cycle.muted,
                 devices |-> cycle.devices, tell |-> cycle.tell,
                 flags |-> cycle.flags]

WatchTyped ==
    /\ streak \in [Id -> Nat] /\ apart \in [Id -> 0..Misses]
    /\ calls \in [Id -> Calls]
    /\ self \in [up : {"unknown", "up", "down"}, fails : Nat]
    /\ outage \in [calls : Nat, fails : 0..Misses]

(* What is counted in memory was observed, and who is about to be told of  *)
(* or was told of has been observed often enough.                          *)
Counted ==
    /\ \A i \in Id : streak[i] <= apart[i]
    /\ \A i \in Id : calls[i].down > 0 => apart[i] = Misses
    /\ In("tell") => \A i \in cycle.tell \cap Id : apart[i] = Misses
    /\ self.fails <= outage.fails
    /\ outage.calls > 0 => outage.fails = Misses

AlertInv == CycleShape /\ WatchTyped /\ Counted

(* What one observation makes of a streak (alerts.py:313-335).             *)
LEMMA ObservedStreak ==
    ASSUME NEW s, NEW online, NEW n \in Nat
    PROVE  /\ observed(s, online, n).streak \in Nat
           /\ online => observed(s, online, n).streak = 0
           /\ \/ observed(s, online, n).streak <= n
              \/ /\ observed(s, online, n).streak = n + 1
                 /\ n + 1 < Misses
           /\ observed(s, online, n).told = "down" =>
                 ~ online /\ n + 1 >= Misses
<1> USE WatchAssumption DEF observed, result
<1>1. CASE s = NoStatus
  BY <1>1
<1>2. CASE s # NoStatus /\ online
  BY <1>2
<1>3. CASE s # NoStatus /\ ~ online
  BY <1>3
<1> QED
  BY <1>1, <1>2, <1>3

LEMMA AlertInit == Init => AlertInv
<1> SUFFICES ASSUME Init PROVE AlertInv
  OBVIOUS
<1>1. CycleShape /\ ~ In("tell")
  BY DEF Init, CycleShape, In
<1>2. WatchTyped
  <2>1. NoCall \in Calls
    BY DEF NoCall, Calls
  <2> QED
    BY <2>1, WatchAssumption DEF Init, WatchTyped
<1>3. Counted
  BY <1>1 DEF Init, Counted, NoCall
<1> QED
  BY <1>1, <1>2, <1>3 DEF AlertInv

Alerts == <<streak, apart, calls, self, outage>>

(* A step that counts nothing keeps it, if it moves the cycle at most to a *)
(* place where nobody is about to be told.                                 *)
LEMMA AlertsAlone ==
    ASSUME AlertInv, UNCHANGED Alerts, CycleShape',
           UNCHANGED cycle \/ ~ In("tell")'
    PROVE  AlertInv'
<1>1. WatchTyped'
  BY DEF AlertInv, WatchTyped, Alerts
<1>2. Counted'
  BY DEF AlertInv, Counted, Alerts, In
<1> QED
  BY <1>1, <1>2 DEF AlertInv

LEMMA AlertsOutside ==
    ASSUME AlertInv, UNCHANGED <<Alerts, cycle>>
    PROVE  AlertInv'
<1>1. CycleShape'
  BY DEF AlertInv, CycleShape
<1> QED
  BY <1>1, AlertsAlone

(* --- one lemma for every group of steps ----------------------------------- *)

LEMMA RequestsQuiet ==
    ASSUME AlertInv, StartTask \/ Work
    PROVE  AlertInv'
<1> USE DEF rung, watch, Local, Alerts
<1>1. CASE StartTask
  BY <1>1, AlertsOutside DEF StartTask
<1>2. CASE FindNode
  BY <1>2, AlertsOutside DEF FindNode
<1>3. CASE MakeKey
  BY <1>3, AlertsOutside DEF MakeKey
<1>4. CASE ReadNote
  BY <1>4, AlertsOutside DEF ReadNote
<1>5. CASE PutAside
  BY <1>5, AlertsOutside DEF PutAside
<1>6. CASE DeleteOld
  BY <1>6, AlertsOutside DEF DeleteOld
<1>7. CASE clear_node_meta
  BY <1>7, AlertsOutside DEF clear_node_meta
<1>8. CASE save_join_script
  BY <1>8, AlertsOutside DEF save_join_script
<1>9. CASE LookForKey
  BY <1>9, AlertsOutside DEF LookForKey
<1>10. CASE LookForName
  BY <1>10, AlertsOutside DEF LookForName
<1>11. CASE Rename
  BY <1>11, AlertsOutside DEF Rename
<1>12. CASE RemoveNode
  BY <1>12, AlertsOutside DEF RemoveNode
<1>13. CASE forget_node_refs
  BY <1>13, AlertsOutside DEF forget_node_refs
<1>14. CASE set_node_meta
  BY <1>14, AlertsOutside DEF set_node_meta
<1> QED
  BY <1>1, <1>2, <1>3, <1>4, <1>5, <1>6, <1>7, <1>8, <1>9, <1>10, <1>11,
     <1>12, <1>13, <1>14 DEF Work

LEMMA WorldQuiet ==
    ASSUME AlertInv,
           \/ \E k \in Key : Download(k) \/ RunScript(k)
           \/ \E i \in Id : NodeFlips(i) \/ KeyFlips(i) \/ AgentFlips(i)
           \/ HeadscaleFlips \/ Tick
    PROVE  AlertInv'
<1> USE DEF rung, watch, Panel, Alerts
<1>1. ASSUME NEW k \in Key, Download(k) PROVE AlertInv'
  BY <1>1, AlertsOutside DEF Download
<1>2. ASSUME NEW k \in Key, RunScript(k) PROVE AlertInv'
  BY <1>2, AlertsOutside DEF RunScript
<1>3. ASSUME NEW i \in Id, NodeFlips(i) PROVE AlertInv'
  BY <1>3, AlertsOutside DEF NodeFlips
<1>4. ASSUME NEW i \in Id, KeyFlips(i) PROVE AlertInv'
  BY <1>4, AlertsOutside DEF KeyFlips
<1>5. ASSUME NEW i \in Id, AgentFlips(i) PROVE AlertInv'
  BY <1>5, AlertsOutside DEF AgentFlips
<1>6. CASE HeadscaleFlips
  BY <1>6, AlertsOutside DEF HeadscaleFlips
<1>7. CASE Tick
  BY <1>7, AlertsOutside DEF Tick
<1> QED
  BY <1>1, <1>2, <1>3, <1>4, <1>5, <1>6, <1>7

(* Where the cycle goes from each of its places.                           *)
LEMMA NextPlace ==
    /\ next_step["list"] = "claim" /\ next_step["claim"] = "hand"
    /\ next_step["hand"] = "close" /\ next_step["close"] = "meta"
    /\ next_step["meta"] = "nodes" /\ next_step["nodes"] = "tell"
    /\ next_step["tell"] = "agents" /\ next_step["agents"] = "keys"
    /\ next_step["keys"] = "flags" /\ next_step["flags"] = "prune"
    /\ next_step["prune"] = "self"
BY DEF next_step

LEMMA CycleQuiet ==
    ASSUME AlertInv,
           \/ ListNodes \/ Repoint \/ HandBack \/ Close \/ ReadMeta
           \/ PruneKeys
    PROVE  AlertInv'
<1> USE NextPlace DEF AlertInv, CycleShape, In, Alerts, rung, watch, Onward
<1>1. CASE ListNodes
  <2>1. CycleShape' /\ ~ In("tell")'
    BY <1>1 DEF ListNodes
  <2> QED
    BY <1>1, <2>1, AlertsAlone DEF ListNodes
<1>2. CASE Repoint
  <2>1. CycleShape' /\ ~ In("tell")'
    BY <1>2 DEF Repoint
  <2> QED
    BY <1>2, <2>1, AlertsAlone DEF Repoint
<1>3. CASE HandBack
  <2>1. CycleShape' /\ ~ In("tell")'
    BY <1>3 DEF HandBack
  <2> QED
    BY <1>3, <2>1, AlertsAlone DEF HandBack
<1>4. CASE Close
  <2>1. CycleShape' /\ ~ In("tell")'
    BY <1>4 DEF Close
  <2> QED
    BY <1>4, <2>1, AlertsAlone DEF Close
<1>5. CASE ReadMeta
  <2>1. CycleShape' /\ ~ In("tell")'
    BY <1>5 DEF ReadMeta
  <2> QED
    BY <1>5, <2>1, AlertsAlone DEF ReadMeta
<1>6. CASE PruneKeys
  <2>1. CycleShape' /\ ~ In("tell")'
    BY <1>6 DEF PruneKeys
  <2> QED
    BY <1>6, <2>1, AlertsAlone DEF PruneKeys
<1> QED
  BY <1>1, <1>2, <1>3, <1>4, <1>5, <1>6

(* The observation of a cycle: whoever is about to be told of has been     *)
(* found offline as often as it takes, in a row.                           *)
LEMMA NodesCounted ==
    ASSUME AlertInv, reconcile_nodes
    PROVE  AlertInv'
<1> USE WatchAssumption
<1>1. CycleShape'
  BY DEF AlertInv, CycleShape, reconcile_nodes, In
<1>2. /\ streak \in [Id -> Nat] /\ apart \in [Id -> 0..Misses]
      /\ calls \in [Id -> Calls]
      /\ \A i \in Id : streak[i] <= apart[i]
      /\ \A i \in Id : calls[i].down > 0 => apart[i] = Misses
  BY DEF AlertInv, WatchTyped, Counted
<1>3. UNCHANGED <<self, outage>>
  BY DEF reconcile_nodes
<1>4. /\ streak' = [i \in Id |-> streak'[i]]
      /\ apart' = [i \in Id |-> apart'[i]]
      /\ calls' = [i \in Id |-> calls'[i]]
  BY DEF reconcile_nodes
<1>5. ASSUME NEW i \in Id
      PROVE  /\ streak'[i] \in Nat /\ apart'[i] \in 0..Misses
             /\ calls'[i] \in Calls
             /\ streak'[i] <= apart'[i]
             /\ calls'[i].down > 0 => apart'[i] = Misses
             /\ i \in cycle'.tell => apart'[i] = Misses
  <2> DEFINE on == cycle.raw[i].online
             what == observed(status[i], on, streak[i])
  <2>1. /\ streak'[i] = IF i \in Listed THEN what.streak
                        ELSE IF status[i] # NoStatus THEN 0 ELSE streak[i]
        /\ apart'[i] = IF i \in Listed /\ on THEN 0
                       ELSE IF i \in Listed /\ ~ on /\ apart[i] < Misses
                       THEN apart[i] + 1 ELSE apart[i]
        /\ calls'[i] = IF i \in Listed /\ on
                       THEN [calls[i] EXCEPT !.down = 0] ELSE calls[i]
    BY DEF reconcile_nodes, seen
  <2>2. i \in cycle'.tell <=> i \in Listed /\ what.told = "down"
    <3>1. cycle'.tell = {j \in Listed : seen(j).told = "down"}
      BY DEF reconcile_nodes, AlertInv, CycleShape, In
    <3> QED
      BY <3>1 DEF seen
  <2>3. /\ what.streak \in Nat
        /\ on => what.streak = 0
        /\ \/ what.streak <= streak[i]
           \/ /\ what.streak = streak[i] + 1
              /\ streak[i] + 1 < Misses
        /\ what.told = "down" => ~ on /\ streak[i] + 1 >= Misses
    BY <1>2, ObservedStreak
  <2> HIDE DEF what, on
  <2>4. /\ streak[i] \in Nat /\ apart[i] \in 0..Misses /\ calls[i] \in Calls
        /\ streak[i] <= apart[i] /\ (calls[i].down > 0 => apart[i] = Misses)
    BY <1>2
  <2>5. calls'[i] \in Calls /\ (i \in Listed /\ on => calls'[i].down = 0)
    BY <2>1, <2>4 DEF Calls
  <2>6. CASE i \in Listed /\ on
    BY <2>1, <2>2, <2>3, <2>4, <2>5, <2>6
  <2>7. CASE i \in Listed /\ ~ on
    <3>1. apart'[i] = IF apart[i] < Misses THEN apart[i] + 1 ELSE apart[i]
      BY <2>1, <2>7
    <3>2. streak'[i] = what.streak /\ calls'[i] = calls[i]
      BY <2>1, <2>7
    <3> QED
      BY <3>1, <3>2, <2>2, <2>3, <2>4, <2>5
  <2>8. CASE i \notin Listed
    <3>1. /\ apart'[i] = apart[i] /\ calls'[i] = calls[i]
          /\ streak'[i] = 0 \/ streak'[i] = streak[i]
      BY <2>1, <2>8
    <3> QED
      BY <3>1, <2>2, <2>4, <2>5, <2>8
  <2> QED
    BY <2>6, <2>7, <2>8
<1>6. WatchTyped'
  <2>1. /\ self' = self /\ outage' = outage
    BY <1>3
  <2> QED
    BY <1>4, <1>5, <2>1 DEF WatchTyped, AlertInv
<1>7. Counted'
  BY <1>3, <1>5 DEF Counted, AlertInv
<1> QED
  BY <1>1, <1>6, <1>7 DEF AlertInv

(* A step that rings for agents and keys only.                             *)
LEMMA OtherCalls ==
    ASSUME AlertInv, UNCHANGED <<streak, apart, self, outage>>,
           CycleShape', ~ In("tell")',
           calls' \in [Id -> Calls],
           \A i \in Id : calls'[i].down = calls[i].down
    PROVE  AlertInv'
<1>1. WatchTyped'
  BY DEF AlertInv, WatchTyped
<1>2. Counted'
  BY DEF AlertInv, Counted
<1> QED
  BY <1>1, <1>2 DEF AlertInv

LEMMA TellingCounted ==
    ASSUME AlertInv, TellNodes
    PROVE  AlertInv'
<1> USE WatchAssumption, NextPlace
<1>1. CycleShape' /\ ~ In("tell")'
  BY DEF AlertInv, CycleShape, TellNodes, Onward, In
<1>2. UNCHANGED <<streak, apart, self, outage>>
  BY DEF TellNodes, watch
<1>3. calls \in [Id -> Calls] /\ \A i \in cycle.tell \cap Id : apart[i] = Misses
  BY DEF AlertInv, WatchTyped, Counted, TellNodes
<1>4. ASSUME NEW i \in Id
      PROVE  /\ calls'[i] \in Calls
             /\ calls'[i].down > 0 => calls[i].down > 0 \/ i \in cycle.tell
  <2>1. \/ calls'[i] = calls[i]
        \/ calls'[i] = [calls[i] EXCEPT !.down = @ + 1] /\ i \in cycle.tell
    BY DEF TellNodes
  <2> QED
    BY <2>1, <1>3 DEF Calls
<1>5. calls' \in [Id -> Calls]
  <2>1. calls' = [i \in Id |-> calls'[i]]
    BY DEF TellNodes
  <2> QED
    BY <2>1, <1>4
<1>6. WatchTyped'
  BY <1>2, <1>5 DEF AlertInv, WatchTyped
<1>7. Counted'
  BY <1>1, <1>2, <1>3, <1>4 DEF AlertInv, Counted
<1> QED
  BY <1>1, <1>6, <1>7 DEF AlertInv

LEMMA AgentsCounted ==
    ASSUME AlertInv, reconcile_agents
    PROVE  AlertInv'
<1> USE NextPlace
<1>1. CycleShape' /\ ~ In("tell")'
  BY DEF AlertInv, CycleShape, reconcile_agents, Onward, In
<1>2. UNCHANGED <<streak, apart, self, outage>>
  BY DEF reconcile_agents
<1>3. ASSUME NEW i \in Id
      PROVE  calls'[i] \in Calls /\ calls'[i].down = calls[i].down
  <2>1. calls[i] \in Calls
    BY DEF AlertInv, WatchTyped
  <2>2. \/ calls'[i] = [calls[i] EXCEPT !.agent = calls[i].agent + 1]
        \/ calls'[i] = [calls[i] EXCEPT !.agent = 0]
        \/ calls'[i] = [calls[i] EXCEPT !.agent = calls[i].agent]
    BY DEF reconcile_agents
  <2> QED
    BY <2>1, <2>2 DEF Calls
<1>4. calls' \in [Id -> Calls]
  <2>1. calls' = [i \in Id |-> calls'[i]]
    BY DEF reconcile_agents
  <2> QED
    BY <2>1, <1>3
<1> QED
  BY <1>1, <1>2, <1>3, <1>4, OtherCalls

LEMMA KeysCounted ==
    ASSUME AlertInv, check_key_expiry
    PROVE  AlertInv'
<1> USE NextPlace
<1>1. CycleShape' /\ ~ In("tell")'
  BY DEF AlertInv, CycleShape, check_key_expiry, In
<1>2. UNCHANGED <<streak, apart, self, outage>>
  BY DEF check_key_expiry, watch
<1>3. ASSUME NEW i \in Id
      PROVE  calls'[i] \in Calls /\ calls'[i].down = calls[i].down
  <2>1. calls[i] \in Calls
    BY DEF AlertInv, WatchTyped
  <2>2. \/ calls'[i] = [calls[i] EXCEPT !.key = calls[i].key + 1]
        \/ calls'[i] = [calls[i] EXCEPT !.key = calls[i].key]
    BY DEF check_key_expiry
  <2> QED
    BY <2>1, <2>2 DEF Calls
<1>4. calls' \in [Id -> Calls]
  <2>1. calls' = [i \in Id |-> calls'[i]]
    BY DEF check_key_expiry
  <2> QED
    BY <2>1, <1>3
<1> QED
  BY <1>1, <1>2, <1>3, <1>4, OtherCalls

LEMMA FlagsCounted ==
    ASSUME AlertInv, KeepFlags
    PROVE  AlertInv'
<1> USE NextPlace
<1>1. CycleShape' /\ ~ In("tell")'
  BY DEF AlertInv, CycleShape, KeepFlags, Onward, In
<1>2. UNCHANGED <<streak, apart, self, outage>>
  BY DEF KeepFlags
<1>3. ASSUME NEW i \in Id
      PROVE  calls'[i] \in Calls /\ calls'[i].down = calls[i].down
  <2>1. calls[i] \in Calls
    BY DEF AlertInv, WatchTyped
  <2>2. calls'[i] = [calls[i] EXCEPT !.key = 0] \/ calls'[i] = calls[i]
    BY DEF KeepFlags
  <2> QED
    BY <2>1, <2>2 DEF Calls
<1>4. calls' \in [Id -> Calls]
  <2>1. calls' = [i \in Id |-> calls'[i]]
    BY DEF KeepFlags
  <2> QED
    BY <2>1, <1>3
<1> QED
  BY <1>1, <1>2, <1>3, <1>4, OtherCalls

LEMMA SelfCounted ==
    ASSUME AlertInv, reconcile_selfcheck
    PROVE  AlertInv'
<1> USE WatchAssumption
<1>1. CycleShape' /\ ~ In("tell")'
  BY DEF CycleShape, reconcile_selfcheck, In
<1>2. UNCHANGED <<streak, apart, calls>>
  BY DEF reconcile_selfcheck
<1>3. /\ self \in [up : {"unknown", "up", "down"}, fails : Nat]
      /\ outage \in [calls : Nat, fails : 0..Misses]
      /\ self.fails <= outage.fails
      /\ outage.calls > 0 => outage.fails = Misses
  BY DEF AlertInv, WatchTyped, Counted
<1>4. CASE cycle.ok
  <2>1. /\ self' = [up |-> "up", fails |-> 0]
        /\ outage' = [calls |-> 0, fails |-> 0]
    BY <1>4 DEF reconcile_selfcheck, checked
  <2>2. WatchTyped'
    BY <1>2, <2>1 DEF AlertInv, WatchTyped
  <2>3. Counted'
    BY <1>1, <1>2, <2>1 DEF AlertInv, Counted
  <2> QED
    BY <1>1, <2>2, <2>3 DEF AlertInv
<1>5. CASE ~ cycle.ok
  <2>1. /\ self' = checked(self, FALSE)
        /\ outage' = [calls |-> IF self.up # "down" /\ self'.up = "down"
                                THEN outage.calls + 1 ELSE outage.calls,
                      fails |-> IF outage.fails < Misses THEN outage.fails + 1
                                ELSE Misses]
    BY <1>5 DEF reconcile_selfcheck, checked
  <2>2. /\ self' \in [up : {"unknown", "up", "down"}, fails : Nat]
        /\ self'.fails <= outage'.fails
        /\ self.up # "down" /\ self'.up = "down" => outage'.fails = Misses
    BY <1>3, <2>1 DEF checked
  <2>3. /\ outage' \in [calls : Nat, fails : 0..Misses]
        /\ outage'.calls > 0 => outage'.fails = Misses
    <3>1. outage.calls \in Nat /\ outage.fails \in 0..Misses
      BY <1>3
    <3>2. /\ \/ outage'.calls = outage.calls
             \/ outage'.calls = outage.calls + 1 /\ outage'.fails = Misses
          /\ outage'.fails = IF outage.fails < Misses THEN outage.fails + 1
                             ELSE Misses
          /\ outage' = [calls |-> outage'.calls, fails |-> outage'.fails]
      BY <2>1, <2>2
    <3>3. outage'.calls \in Nat /\ outage'.fails \in 0..Misses
      BY <3>1, <3>2
    <3> QED
      BY <1>3, <3>1, <3>2, <3>3
  <2>4. WatchTyped'
    BY <1>2, <2>2, <2>3 DEF AlertInv, WatchTyped
  <2>5. Counted'
    BY <1>1, <1>2, <2>2, <2>3 DEF AlertInv, Counted
  <2> QED
    BY <1>1, <2>4, <2>5 DEF AlertInv
<1> QED
  BY <1>4, <1>5

LEMMA RestartCounted ==
    ASSUME AlertInv, Restart
    PROVE  AlertInv'
<1> USE WatchAssumption
<1>1. CycleShape' /\ ~ In("tell")'
  BY DEF CycleShape, Restart, In
<1>2. /\ streak' = [i \in Id |-> 0] /\ self' = [up |-> "unknown", fails |-> 0]
      /\ UNCHANGED <<apart, calls, outage>>
  BY DEF Restart, rung
<1>3. WatchTyped'
  BY <1>2 DEF AlertInv, WatchTyped
<1>4. Counted'
  BY <1>1, <1>2 DEF AlertInv, WatchTyped, Counted
<1> QED
  BY <1>1, <1>3, <1>4 DEF AlertInv

LEMMA AlertStep == AlertInv /\ [Next]_vars => AlertInv'
<1> SUFFICES ASSUME AlertInv, [Next]_vars PROVE AlertInv'
  OBVIOUS
<1>1. CASE StartTask \/ Work
  BY <1>1, RequestsQuiet
<1>2. CASE \/ \E k \in Key : Download(k) \/ RunScript(k)
           \/ \E i \in Id : NodeFlips(i) \/ KeyFlips(i) \/ AgentFlips(i)
           \/ HeadscaleFlips \/ Tick
  BY <1>2, WorldQuiet
<1>3. CASE Collect
  BY <1>3, CycleQuiet, NodesCounted, TellingCounted, AgentsCounted,
     KeysCounted, FlagsCounted, SelfCounted DEF Collect
<1>4. CASE Restart
  BY <1>4, RestartCounted
<1>5. CASE UNCHANGED vars
  BY <1>5, AlertsOutside DEF vars, Alerts, watch, rung
<1> QED
  BY <1>1, <1>2, <1>3, <1>4, <1>5 DEF Next

(* Nobody is called about a node that only blinked, or about headscale,    *)
(* for any number of observations that it takes, whatever restarts, mutes  *)
(* and reconnections come in between (alerts.py:193, 329-335).             *)
THEOREM AlertsConfirmedHolds == Spec => []AlertsConfirmed
<1>1. AlertInv => AlertsConfirmed
  BY DEF AlertInv, Counted, AlertsConfirmed
<1> QED
  BY <1>1, AlertInit, AlertStep, PTL DEF Spec

(* --- keys ----------------------------------------------------------------- *)

KeyShape ==
    /\ now \in Nat
    /\ keys = [k \in Key |-> keys[k]]
    /\ \A k \in Key : keys[k] # NoKey =>
          /\ keys[k] = [at |-> keys[k].at, machine |-> keys[k].machine,
                        name |-> keys[k].name, used |-> keys[k].used,
                        gone |-> keys[k].gone]
          /\ keys[k].at \in Nat

NodeShape ==
    /\ nodes = [i \in Id |-> nodes[i]]
    /\ \A i \in Id : nodes[i] # NoNode =>
          nodes[i] = [machine |-> nodes[i].machine, name |-> nodes[i].name,
                      online |-> nodes[i].online,
                      expiring |-> nodes[i].expiring, key |-> nodes[i].key]

TaskShape ==
    task # Idle =>
        task = [pc |-> task.pc, req |-> task.req, key |-> task.key,
                id |-> task.id, node |-> task.node, note |-> task.note]

(* Only a key that was made has a link, or is about to have one.           *)
Made ==
    /\ links = [k \in Key |-> links[k]]
    /\ \A k \in Key : links[k] # NoLink => keys[k] # NoKey
    /\ \A k \in Key : task # Idle /\ task.key = k => keys[k] # NoKey

Held ==
    \A i \in Id : nodes[i] # NoNode /\ nodes[i].key # 0 =>
        /\ nodes[i].key \in Key
        /\ keys[nodes[i].key] # NoKey /\ ~ keys[nodes[i].key].gone

(* A node that the cycle did not list came with a key that still lasted,   *)
(* and too little time has passed since for that key to be old.            *)
Listing ==
    cycle # Idle =>
        /\ cycle.began \in Nat /\ cycle.began <= now
        /\ now <= cycle.began + Retention - TTL
        /\ \A i \in Id : nodes[i] # NoNode /\ nodes[i].key # 0 =>
              \/ nodes[i].key \in in_use
              \/ cycle.began < keys[nodes[i].key].at + TTL

KeyInv ==
    KeyShape /\ NodeShape /\ TaskShape /\ Made /\ Held /\ Listing

LEMMA KeyInit == Init => KeyInv
<1> SUFFICES ASSUME Init PROVE KeyInv
  OBVIOUS
<1>1. nodes \in [Id -> {n \in Node : n.key = 0} \cup {NoNode}]
  <2>1. world \in World
    BY FleetAssumption DEF Init
  <2>2. world.nodes \in [Id -> {n \in Node : n.key = 0} \cup {NoNode}]
    BY <2>1 DEF World
  <2> QED
    BY <2>2 DEF Init
<1>2. \A i \in Id : nodes[i] # NoNode => nodes[i] \in Node /\ nodes[i].key = 0
  BY <1>1
<1>3. NodeShape
  BY <1>1, <1>2 DEF NodeShape, Node
<1>4. KeyShape /\ TaskShape /\ Made
  BY DEF Init, KeyShape, TaskShape, Made
<1>5. Held /\ Listing
  BY <1>2 DEF Init, Held, Listing
<1> QED
  BY <1>3, <1>4, <1>5 DEF KeyInv

(* The nodes of a step that makes no key and brings no machine.            *)
NoneCame ==
    /\ nodes' = [i \in Id |-> nodes'[i]]
    /\ \A i \in Id : nodes'[i] # NoNode =>
          /\ nodes[i] # NoNode /\ nodes'[i].key = nodes[i].key
          /\ nodes'[i] = [machine |-> nodes'[i].machine,
                          name |-> nodes'[i].name,
                          online |-> nodes'[i].online,
                          expiring |-> nodes'[i].expiring,
                          key |-> nodes'[i].key]

SameCycle ==
    \/ cycle' = Idle
    \/ cycle # Idle /\ cycle'.began = cycle.began /\ cycle'.raw = cycle.raw

SameTask ==
    \/ task' = Idle
    \/ task # Idle /\ task'.key = task.key
    \/ task'.key = 0

LEMMA KeysAlone ==
    ASSUME KeyInv, UNCHANGED <<keys, links, now>>, NoneCame, SameCycle,
           SameTask, TaskShape'
    PROVE  KeyInv'
<1>1. KeyShape' /\ NodeShape'
  BY DEF KeyInv, KeyShape, NodeShape, NoneCame
<1>2. Made'
  <2>1. \A k \in Key : k # 0
    BY FleetAssumption
  <2> QED
    BY <2>1 DEF KeyInv, Made, SameTask
<1>3. Held'
  BY DEF KeyInv, Held, NoneCame
<1>4. Listing'
  <2> SUFFICES ASSUME cycle' # Idle PROVE Listing'
    BY DEF Listing
  <2>1. cycle # Idle /\ cycle'.began = cycle.began /\ cycle'.raw = cycle.raw
    BY DEF SameCycle
  <2>2. in_use' = in_use
    BY <2>1 DEF in_use, Listed, Present
  <2> QED
    BY <2>1, <2>2 DEF KeyInv, Listing, NoneCame
<1> QED
  BY <1>1, <1>2, <1>3, <1>4 DEF KeyInv

(* What marking a key leaves of it.                                        *)
LEMMA Marked ==
    ASSUME NEW r, NEW a, NEW m, NEW x, NEW u, NEW g, NEW b,
           r = [at |-> a, machine |-> m, name |-> x, used |-> u, gone |-> g]
    PROVE  /\ [r EXCEPT !.used = b] =
                 [at |-> a, machine |-> m, name |-> x, used |-> b, gone |-> g]
           /\ [r EXCEPT !.gone = b] =
                 [at |-> a, machine |-> m, name |-> x, used |-> u, gone |-> b]
OBVIOUS

LEMMA NodesAlone == KeyInv /\ UNCHANGED nodes => NoneCame
BY DEF KeyInv, NodeShape, NoneCame

LEMMA CycleAlone == UNCHANGED cycle => SameCycle
BY DEF SameCycle

LEMMA TaskAlone ==
    ASSUME KeyInv, UNCHANGED task \/ task' = Idle
    PROVE  SameTask /\ TaskShape'
BY DEF KeyInv, SameTask, TaskShape

LEMMA ThenAlone ==
    ASSUME KeyInv, NEW x, At(x), NEW y, Then(y)
    PROVE  SameTask /\ TaskShape'
BY DEF KeyInv, SameTask, TaskShape, At, Then

(* --- keys: one lemma for every group of steps ------------------------------ *)

LEMMA WorkKeepsKeys ==
    ASSUME KeyInv,
           \/ StartTask \/ FindNode \/ ReadNote \/ PutAside \/ DeleteOld
           \/ clear_node_meta \/ LookForKey \/ LookForName \/ Rename
           \/ RemoveNode \/ forget_node_refs \/ set_node_meta
    PROVE  KeyInv'
<1> USE NodesAlone, CycleAlone, TaskAlone, KeysAlone
    DEF Local, headscale, End
<1>1. CASE StartTask
  <2>1. task' # Idle => task'.key = 0
    BY <1>1 DEF StartTask
  <2>2. SameTask /\ TaskShape'
    BY <1>1, <2>1 DEF StartTask, SameTask, TaskShape
  <2> QED
    BY <1>1, <2>2 DEF StartTask
<1>2. CASE FindNode
  <2>1. SameTask /\ TaskShape'
    BY <1>2 DEF FindNode, KeyInv, SameTask, TaskShape, At
  <2> QED
    BY <1>2, <2>1 DEF FindNode
<1>3. CASE ReadNote
  <2>1. SameTask /\ TaskShape'
    BY <1>3 DEF ReadNote, KeyInv, SameTask, TaskShape, At
  <2> QED
    BY <1>3, <2>1 DEF ReadNote
<1>4. CASE PutAside
  BY <1>4, ThenAlone DEF PutAside
<1>5. CASE DeleteOld
  <2>1. NoneCame
    BY <1>5 DEF DeleteOld, KeyInv, NodeShape, NoneCame
  <2> QED
    BY <1>5, <2>1, ThenAlone DEF DeleteOld
<1>6. CASE clear_node_meta
  BY <1>6, ThenAlone DEF clear_node_meta
<1>7. CASE LookForKey
  <2>1. SameTask /\ TaskShape'
    BY <1>7 DEF LookForKey, KeyInv, SameTask, TaskShape, At
  <2> QED
    BY <1>7, <2>1 DEF LookForKey
<1>8. CASE LookForName
  <2>1. SameTask /\ TaskShape'
    BY <1>8 DEF LookForName, KeyInv, SameTask, TaskShape, At
  <2> QED
    BY <1>8, <2>1 DEF LookForName
<1>9. CASE Rename
  <2>1. NoneCame
    <3>1. CASE UNCHANGED nodes
      BY <3>1
    <3>2. CASE /\ nodes[task.id] # NoNode
               /\ nodes' = [nodes EXCEPT ![task.id].name = task.req.name]
      <4>1. nodes' = [i \in Id |-> nodes'[i]]
        BY <3>2 DEF KeyInv, NodeShape
      <4>2. ASSUME NEW i \in Id, nodes'[i] # NoNode
            PROVE  /\ nodes[i] # NoNode /\ nodes'[i].key = nodes[i].key
                   /\ nodes'[i] = [machine |-> nodes'[i].machine,
                                   name |-> nodes'[i].name,
                                   online |-> nodes'[i].online,
                                   expiring |-> nodes'[i].expiring,
                                   key |-> nodes'[i].key]
        <5>1. CASE i = task.id
          BY <3>2, <5>1 DEF KeyInv, NodeShape
        <5>2. CASE i # task.id
          BY <3>2, <4>2, <5>2 DEF KeyInv, NodeShape
        <5> QED
          BY <5>1, <5>2
      <4> QED
        BY <4>1, <4>2 DEF NoneCame
    <3> QED
      BY <1>9, <3>1, <3>2 DEF Rename
  <2> QED
    BY <1>9, <2>1 DEF Rename
<1>10. CASE RemoveNode
  <2>1. NoneCame
    BY <1>10 DEF RemoveNode, KeyInv, NodeShape, NoneCame
  <2> QED
    BY <1>10, <2>1, ThenAlone DEF RemoveNode
<1>11. CASE forget_node_refs
  BY <1>11 DEF forget_node_refs
<1>12. CASE set_node_meta
  BY <1>12 DEF set_node_meta
<1> QED
  BY <1>1, <1>2, <1>3, <1>4, <1>5, <1>6, <1>7, <1>8, <1>9, <1>10, <1>11,
     <1>12

(* A new key was nobody's.                                                 *)
LEMMA MakingKeepsKeys ==
    ASSUME KeyInv, MakeKey
    PROVE  KeyInv'
<1>1. CASE task' = Idle /\ UNCHANGED keys
  BY <1>1, NodesAlone, CycleAlone, TaskAlone, KeysAlone DEF MakeKey, Local
<1>2. ASSUME NEW k \in NewKey, NEW m, NEW x,
             keys' = [keys EXCEPT ![k] =
                [at |-> now, machine |-> m, name |-> x, used |-> FALSE,
                 gone |-> FALSE]],
             task' = [task EXCEPT !.key = k,
                !.pc = IF task.req.op = "enroll" THEN "link" ELSE "read"]
      PROVE  KeyInv'
  <2>1. k \in Key /\ keys[k] = NoKey
    BY <1>2 DEF NewKey, New
  <2>2. /\ task # Idle
        /\ UNCHANGED <<nodes, links, now, cycle>>
    BY DEF MakeKey, At, Local
  <2>3. /\ keys'[k] = [at |-> now, machine |-> m, name |-> x, used |-> FALSE,
                       gone |-> FALSE]
        /\ \A j \in Key \ {k} : keys'[j] = keys[j]
        /\ keys' = [j \in Key |-> keys'[j]]
    BY <1>2, <2>1 DEF KeyInv, KeyShape
  <2>4. keys'[k] # NoKey
    BY <2>3 DEF NoKey
  <2>5. KeyShape'
    BY <2>2, <2>3 DEF KeyInv, KeyShape
  <2>6. task'.key = k /\ TaskShape'
    BY <1>2, <2>2 DEF KeyInv, TaskShape
  <2>7. Made'
    BY <2>2, <2>3, <2>4, <2>6 DEF KeyInv, Made
  <2>8. \A i \in Id : nodes[i] # NoNode /\ nodes[i].key # 0 =>
           nodes[i].key \in Key \ {k}
    BY <2>1 DEF KeyInv, Held
  <2>9. NodeShape' /\ Held'
    BY <2>2, <2>3, <2>8 DEF KeyInv, NodeShape, Held
  <2>10. Listing'
    <3>1. in_use' = in_use
      BY <2>2 DEF in_use, Listed, Present
    <3> QED
      BY <2>2, <2>3, <2>8, <3>1 DEF KeyInv, Listing
  <2> QED
    BY <2>5, <2>6, <2>7, <2>9, <2>10 DEF KeyInv
<1>3. \/ task' = Idle /\ UNCHANGED keys
      \/ \E k \in NewKey : \E m, x :
           /\ keys' = [keys EXCEPT ![k] =
                 [at |-> now, machine |-> m, name |-> x, used |-> FALSE,
                  gone |-> FALSE]]
           /\ task' = [task EXCEPT !.key = k,
                 !.pc = IF task.req.op = "enroll" THEN "link" ELSE "read"]
  BY Zenon DEF MakeKey, End
<1> QED
  BY <1>1, <1>2, <1>3

LEMMA LinksKeepKeys ==
    ASSUME KeyInv, save_join_script \/ \E k \in Key : Download(k)
    PROVE  KeyInv'
<1> DEFINE Same == /\ UNCHANGED <<nodes, keys, now, cycle>>
                   /\ UNCHANGED task \/ task' = Idle
<1>1. Same /\ links' = [k \in Key |-> links'[k]]
  BY DEF save_join_script, Download, KeyInv, Made, headscale, End
<1>2. \A k \in Key : links'[k] # NoLink => keys[k] # NoKey
  <2>1. CASE save_join_script
    <3>1. ASSUME NEW k \in Key, links'[k] # NoLink
          PROVE  links[k] # NoLink \/ k = task.key
      BY <2>1, <3>1 DEF save_join_script
    <3>2. task # Idle
      BY <2>1 DEF save_join_script, At
    <3> QED
      BY <3>1, <3>2 DEF KeyInv, Made
  <2>2. ASSUME NEW j \in Key, Download(j)
        PROVE  \A k \in Key : links'[k] # NoLink => keys[k] # NoKey
    <3>1. links[j] # NoLink /\ \A k \in Key \ {j} : links'[k] = links[k]
      BY <2>2 DEF Download, KeyInv, Made
    <3> QED
      BY <3>1 DEF KeyInv, Made
  <2> QED
    BY <2>1, <2>2
<1>3. Made'
  BY <1>1, <1>2 DEF KeyInv, Made
<1>4. KeyShape' /\ NodeShape' /\ TaskShape' /\ Held'
  BY <1>1 DEF KeyInv, KeyShape, NodeShape, TaskShape, Held
<1>5. Listing'
  <2>1. in_use' = in_use
    BY <1>1 DEF in_use, Listed, Present
  <2> QED
    BY <1>1, <2>1 DEF KeyInv, Listing
<1> QED
  BY <1>3, <1>4, <1>5 DEF KeyInv

(* The key that a machine comes with lasts, so it lasted when the cycle    *)
(* began.                                                                  *)
LEMMA ComingKeepsKeys ==
    ASSUME KeyInv, NEW k \in Key, RunScript(k)
    PROVE  KeyInv'
<1> USE DEF over, until
<1>1. /\ keys[k] # NoKey /\ ~ keys[k].gone /\ keys[k].at \in Nat
      /\ ~ now >= keys[k].at + TTL
      /\ UNCHANGED <<links, task, now, cycle>>
  BY DEF RunScript, KeyInv, KeyShape, Made
<1>2. /\ keys' = [j \in Key |-> keys'[j]]
      /\ \A j \in Key \ {k} : keys'[j] = keys[j]
      /\ keys'[k] = [keys[k] EXCEPT !.used = TRUE]
  BY DEF RunScript, KeyInv, KeyShape
<1>3. /\ keys'[k].at = keys[k].at /\ keys'[k].gone = keys[k].gone
      /\ keys'[k] = [at |-> keys'[k].at, machine |-> keys'[k].machine,
                     name |-> keys'[k].name, used |-> keys'[k].used,
                     gone |-> keys'[k].gone]
      /\ keys'[k] # NoKey
  <2> DEFINE a == keys[k].at  m == keys[k].machine  x == keys[k].name
             u == keys[k].used  g == keys[k].gone
  <2>1. keys[k] = [at |-> a, machine |-> m, name |-> x, used |-> u, gone |-> g]
    BY <1>1 DEF KeyInv, KeyShape
  <2>2. PICK b : keys'[k] = [keys[k] EXCEPT !.used = b]
    BY <1>2
  <2> HIDE DEF a, m, x, u, g
  <2>3. keys'[k] = [at |-> a, machine |-> m, name |-> x, used |-> b, gone |-> g]
    BY <2>1, <2>2, Marked
  <2> QED
    BY <2>3 DEF NoKey, a, g
<1>4. keys'[k] # NoKey
  BY <1>3
<1>5. KeyShape' /\ TaskShape' /\ Made'
  BY <1>1, <1>2, <1>3, <1>4 DEF KeyInv, KeyShape, TaskShape, Made
<1>6. PICK i \in Id :
        /\ \A j \in Id \ {i} : nodes'[j] = nodes[j]
        /\ nodes' = [j \in Id |-> nodes'[j]]
        /\ nodes'[i].key = k
        /\ nodes'[i] = [machine |-> nodes'[i].machine,
                        name |-> nodes'[i].name,
                        online |-> nodes'[i].online,
                        expiring |-> nodes'[i].expiring,
                        key |-> nodes'[i].key]
  <2>1. ASSUME NEW i \in Present(nodes), nodes' = [nodes EXCEPT ![i].key = k]
        PROVE  /\ i \in Id
               /\ \A j \in Id \ {i} : nodes'[j] = nodes[j]
               /\ nodes' = [j \in Id |-> nodes'[j]]
               /\ nodes'[i].key = k
               /\ nodes'[i] = [machine |-> nodes'[i].machine,
                               name |-> nodes'[i].name,
                               online |-> nodes'[i].online,
                               expiring |-> nodes'[i].expiring,
                               key |-> nodes'[i].key]
    <3>1. i \in Id /\ nodes[i] # NoNode
      BY DEF Present, KeyInv, NodeShape
    <3> QED
      BY <2>1, <3>1 DEF KeyInv, NodeShape
  <2>2. ASSUME NEW i \in NewId, NEW m, NEW y,
               nodes' = [nodes EXCEPT ![i] =
                   [machine |-> m, name |-> y, online |-> TRUE,
                    expiring |-> FALSE, key |-> k]]
        PROVE  /\ i \in Id
               /\ \A j \in Id \ {i} : nodes'[j] = nodes[j]
               /\ nodes' = [j \in Id |-> nodes'[j]]
               /\ nodes'[i].key = k
               /\ nodes'[i] = [machine |-> nodes'[i].machine,
                               name |-> nodes'[i].name,
                               online |-> nodes'[i].online,
                               expiring |-> nodes'[i].expiring,
                               key |-> nodes'[i].key]
    <3>1. i \in Id
      BY DEF NewId, New
    <3> QED
      BY <2>2, <3>1 DEF KeyInv, NodeShape
  <2>3. \/ \E i \in Present(nodes) : nodes' = [nodes EXCEPT ![i].key = k]
        \/ \E i \in NewId, y \in Name : nodes' = [nodes EXCEPT ![i] =
               [machine |-> keys[k].machine, name |-> y, online |-> TRUE,
                expiring |-> FALSE, key |-> k]]
    BY DEF RunScript
  <2> QED
    BY <2>1, <2>2, <2>3
<1>7. NodeShape'
  BY <1>6 DEF KeyInv, NodeShape
<1>8. \A j \in Key : keys[j] # NoKey =>
         keys'[j].at = keys[j].at /\ keys'[j].gone = keys[j].gone
  BY <1>2, <1>3
<1>9. Held'
  <2>1. ASSUME NEW j \in Id, nodes'[j] # NoNode, nodes'[j].key # 0
        PROVE  /\ nodes'[j].key \in Key
               /\ keys'[nodes'[j].key] # NoKey /\ ~ keys'[nodes'[j].key].gone
    <3>1. CASE j = i
      BY <1>1, <1>4, <1>6, <1>8, <3>1
    <3>2. CASE j # i
      BY <1>2, <1>4, <1>6, <1>8, <2>1, <3>2 DEF KeyInv, Held
    <3> QED
      BY <3>1, <3>2
  <2> QED
    BY <2>1 DEF Held
<1>10. Listing'
  <2> SUFFICES ASSUME cycle # Idle PROVE Listing'
    BY <1>1 DEF Listing
  <2>1. in_use' = in_use
    BY <1>1 DEF in_use, Listed, Present
  <2>2. /\ cycle.began \in Nat /\ cycle.began <= now
        /\ now <= cycle.began + Retention - TTL
    BY DEF KeyInv, Listing
  <2>3. ASSUME NEW j \in Id, nodes'[j] # NoNode, nodes'[j].key # 0
        PROVE  \/ nodes'[j].key \in in_use
               \/ cycle.began < keys'[nodes'[j].key].at + TTL
    <3>1. CASE j = i
      <4>1. keys'[nodes'[j].key].at = keys[k].at
        BY <1>1, <1>6, <1>8, <3>1
      <4>2. now \in Nat /\ TTL \in Nat
        BY FleetAssumption DEF KeyInv, KeyShape
      <4> QED
        BY <1>1, <2>2, <4>1, <4>2
    <3>2. CASE j # i
      BY <1>6, <1>8, <2>3, <3>2 DEF KeyInv, Held, Listing
    <3> QED
      BY <3>1, <3>2
  <2> QED
    BY <1>1, <2>1, <2>2, <2>3 DEF Listing
<1> QED
  BY <1>5, <1>7, <1>9, <1>10 DEF KeyInv

LEMMA CycleKeepsKeys ==
    ASSUME KeyInv, CycleShape,
           \/ Repoint \/ HandBack \/ Close \/ ReadMeta \/ reconcile_nodes
           \/ TellNodes \/ reconcile_agents \/ check_key_expiry \/ KeepFlags
           \/ reconcile_selfcheck
    PROVE  KeyInv'
<1> USE NodesAlone, TaskAlone, KeysAlone
    DEF Outside, headscale, Onward, In, CycleShape, SameCycle
<1>1. CASE Repoint
  <2>1. SameCycle
    BY <1>1 DEF Repoint
  <2> QED
    BY <1>1, <2>1 DEF Repoint
<1>2. CASE HandBack
  <2>1. SameCycle
    BY <1>2 DEF HandBack
  <2> QED
    BY <1>2, <2>1 DEF HandBack
<1>3. CASE Close
  <2>1. SameCycle
    BY <1>3 DEF Close
  <2> QED
    BY <1>3, <2>1 DEF Close
<1>4. CASE ReadMeta
  <2>1. SameCycle
    BY <1>4 DEF ReadMeta
  <2> QED
    BY <1>4, <2>1 DEF ReadMeta
<1>5. CASE reconcile_nodes
  <2>1. SameCycle
    BY <1>5 DEF reconcile_nodes
  <2> QED
    BY <1>5, <2>1 DEF reconcile_nodes
<1>6. CASE TellNodes
  <2>1. SameCycle
    BY <1>6 DEF TellNodes
  <2> QED
    BY <1>6, <2>1 DEF TellNodes
<1>7. CASE reconcile_agents
  <2>1. SameCycle
    BY <1>7 DEF reconcile_agents
  <2> QED
    BY <1>7, <2>1 DEF reconcile_agents
<1>8. CASE check_key_expiry
  <2>1. SameCycle
    BY <1>8 DEF check_key_expiry
  <2> QED
    BY <1>8, <2>1 DEF check_key_expiry
<1>9. CASE KeepFlags
  <2>1. SameCycle
    BY <1>9 DEF KeepFlags
  <2> QED
    BY <1>9, <2>1 DEF KeepFlags
<1>10. CASE reconcile_selfcheck
  <2>1. SameCycle
    BY <1>10 DEF reconcile_selfcheck
  <2> QED
    BY <1>10, <2>1 DEF reconcile_selfcheck
<1> QED
  BY <1>1, <1>2, <1>3, <1>4, <1>5, <1>6, <1>7, <1>8, <1>9, <1>10

(* The list of a cycle that begins holds the keys of all nodes.            *)
LEMMA ListKeepsKeys ==
    ASSUME KeyInv, ListNodes
    PROVE  KeyInv'
<1>1. /\ UNCHANGED <<nodes, keys, links, task, now>>
      /\ cycle'.began = now /\ cycle'.raw = nodes
  BY DEF ListNodes, Outside, headscale
<1>2. KeyShape' /\ NodeShape' /\ TaskShape' /\ Made' /\ Held'
  BY <1>1 DEF KeyInv, KeyShape, NodeShape, TaskShape, Made, Held
<1>3. Listing'
  <2>1. now \in Nat /\ DOMAIN nodes = Id
    BY DEF KeyInv, KeyShape, NodeShape
  <2>2. in_use' = {nodes[i].key : i \in Present(nodes)}
    BY <1>1 DEF in_use, Listed, Present
  <2>3. \A i \in Id : nodes[i] # NoNode => nodes[i].key \in in_use'
    BY <2>1, <2>2 DEF Present
  <2>4. now <= now + Retention - TTL
    BY <2>1, FleetAssumption
  <2> QED
    BY <1>1, <2>1, <2>3, <2>4 DEF Listing
<1> QED
  BY <1>2, <1>3 DEF KeyInv

(* What is pruned is old, and was not listed: no node that is there has it.*)
LEMMA PruneKeepsKeys ==
    ASSUME KeyInv, CycleShape, PruneKeys
    PROVE  KeyInv'
<1>1. /\ UNCHANGED <<nodes, links, task, now>>
      /\ cycle # Idle /\ cycle'.began = cycle.began /\ cycle'.raw = cycle.raw
  BY DEF PruneKeys, CycleShape, In, Onward
<1>2. CASE UNCHANGED keys
  BY <1>1, <1>2, NodesAlone, TaskAlone, KeysAlone DEF SameCycle
<1>3. CASE keys' = [k \in Key |-> IF k \in keys_to_prune
                                  THEN [keys[k] EXCEPT !.gone = TRUE]
                                  ELSE keys[k]]
  <2>1. keys' = [k \in Key |-> keys'[k]]
    BY <1>3
  <2>2. ASSUME NEW k \in Key
        PROVE  /\ keys[k] = NoKey => keys'[k] = NoKey
               /\ keys[k] # NoKey =>
                    /\ keys'[k] # NoKey /\ keys'[k].at = keys[k].at
                    /\ keys'[k] = [at |-> keys'[k].at,
                                   machine |-> keys'[k].machine,
                                   name |-> keys'[k].name,
                                   used |-> keys'[k].used,
                                   gone |-> keys'[k].gone]
                    /\ k \notin keys_to_prune => keys'[k] = keys[k]
    <3>1. CASE k \notin keys_to_prune
      BY <1>3, <3>1 DEF KeyInv, KeyShape
    <3>2. CASE k \in keys_to_prune
      <4>1. keys[k] # NoKey
        BY <3>2 DEF keys_to_prune
      <4> DEFINE a == keys[k].at  m == keys[k].machine  x == keys[k].name
                 u == keys[k].used  g == keys[k].gone
      <4>2. keys[k] =
               [at |-> a, machine |-> m, name |-> x, used |-> u, gone |-> g]
        BY <4>1 DEF KeyInv, KeyShape
      <4>3. PICK b : keys'[k] = [keys[k] EXCEPT !.gone = b]
        BY <1>3, <3>2
      <4> HIDE DEF a, m, x, u, g
      <4>4. keys'[k] =
               [at |-> a, machine |-> m, name |-> x, used |-> u, gone |-> b]
        BY <4>2, <4>3, Marked
      <4> QED
        BY <3>2, <4>1, <4>4 DEF NoKey, a
    <3> QED
      BY <3>1, <3>2
  <2>3. KeyShape'
    <3>1. \A k \in Key : keys'[k] # NoKey =>
             /\ keys'[k] = [at |-> keys'[k].at, machine |-> keys'[k].machine,
                            name |-> keys'[k].name, used |-> keys'[k].used,
                            gone |-> keys'[k].gone]
             /\ keys'[k].at \in Nat
      BY <2>2 DEF KeyInv, KeyShape
    <3> QED
      BY <1>1, <2>1, <3>1 DEF KeyInv, KeyShape
  <2>4. NodeShape' /\ TaskShape' /\ Made'
    BY <1>1, <2>2 DEF KeyInv, NodeShape, TaskShape, Made
  <2>5. ASSUME NEW i \in Id, nodes[i] # NoNode, nodes[i].key # 0
        PROVE  nodes[i].key \notin keys_to_prune
    <3> DEFINE k == nodes[i].key
    <3>1. k \in Key /\ keys[k] # NoKey
      BY <2>5 DEF KeyInv, Held
    <3>2. keys[k].at \in Nat /\ now \in Nat
      BY <3>1 DEF KeyInv, KeyShape
    <3>3. /\ cycle.began \in Nat /\ now <= cycle.began + Retention - TTL
          /\ k \in in_use \/ cycle.began < keys[k].at + TTL
      BY <1>1, <2>5 DEF KeyInv, Listing
    <3> HIDE DEF k
    <3>4. k \in in_use \/ ~ now >= keys[k].at + Retention
      BY <3>2, <3>3, FleetAssumption
    <3> QED
      BY <3>4 DEF keys_to_prune, k
  <2>6. Held'
    <3>1. \A i \in Id : nodes[i] # NoNode /\ nodes[i].key # 0 =>
             /\ nodes[i].key \in Key /\ keys'[nodes[i].key] # NoKey
             /\ ~ keys'[nodes[i].key].gone
      BY <2>2, <2>5 DEF KeyInv, Held
    <3> QED
      BY <1>1, <3>1 DEF Held
  <2>7. Listing'
    <3>1. in_use' = in_use
      BY <1>1 DEF in_use, Listed, Present
    <3>2. \A i \in Id : nodes[i] # NoNode /\ nodes[i].key # 0 =>
             keys'[nodes[i].key].at = keys[nodes[i].key].at
      BY <2>2 DEF KeyInv, Held
    <3> QED
      BY <1>1, <3>1, <3>2 DEF KeyInv, Listing
  <2> QED
    BY <2>3, <2>4, <2>6, <2>7 DEF KeyInv
<1> QED
  BY <1>2, <1>3 DEF PruneKeys

LEMMA TickKeepsKeys ==
    ASSUME KeyInv, Tick
    PROVE  KeyInv'
<1>1. /\ UNCHANGED <<nodes, keys, links, task, cycle>>
      /\ now' = now + 1
      /\ cycle # Idle => now < cycle.began + Retention - TTL
  BY DEF Tick, headscale
<1>2. now \in Nat
  BY DEF KeyInv, KeyShape
<1>3. KeyShape' /\ NodeShape' /\ TaskShape' /\ Made' /\ Held'
  BY <1>1, <1>2 DEF KeyInv, KeyShape, NodeShape, TaskShape, Made, Held
<1>4. Listing'
  <2> SUFFICES ASSUME cycle # Idle PROVE Listing'
    BY <1>1 DEF Listing
  <2>1. in_use' = in_use
    BY <1>1 DEF in_use, Listed, Present
  <2>2. cycle.began \in Nat /\ cycle.began <= now
    BY DEF KeyInv, Listing
  <2>3. now' <= cycle.began + Retention - TTL /\ cycle.began <= now'
    BY <1>1, <1>2, <2>2, FleetAssumption
  <2> QED
    BY <1>1, <2>1, <2>2, <2>3 DEF KeyInv, Listing
<1> QED
  BY <1>3, <1>4 DEF KeyInv

LEMMA WorldKeepsKeys ==
    ASSUME KeyInv,
           \/ \E i \in Id : NodeFlips(i) \/ KeyFlips(i) \/ AgentFlips(i)
           \/ HeadscaleFlips \/ Restart
    PROVE  KeyInv'
<1> USE NodesAlone, CycleAlone, TaskAlone, KeysAlone DEF headscale, Panel
<1>1. ASSUME NEW i \in Id, NodeFlips(i) PROVE KeyInv'
  <2>1. NoneCame
    BY <1>1 DEF NodeFlips, KeyInv, NodeShape, NoneCame
  <2> QED
    BY <1>1, <2>1 DEF NodeFlips
<1>2. ASSUME NEW i \in Id, KeyFlips(i) PROVE KeyInv'
  <2>1. NoneCame
    BY <1>2 DEF KeyFlips, KeyInv, NodeShape, NoneCame
  <2> QED
    BY <1>2, <2>1 DEF KeyFlips
<1>3. ASSUME NEW i \in Id, AgentFlips(i) PROVE KeyInv'
  BY <1>3 DEF AgentFlips
<1>4. CASE HeadscaleFlips
  BY <1>4 DEF HeadscaleFlips
<1>5. CASE Restart
  BY <1>5 DEF Restart, SameCycle
<1> QED
  BY <1>1, <1>2, <1>3, <1>4, <1>5

LEMMA KeyStep == KeyInv /\ AlertInv /\ [Next]_vars => KeyInv'
<1> SUFFICES ASSUME KeyInv, CycleShape, [Next]_vars PROVE KeyInv'
  BY DEF AlertInv
<1>1. CASE StartTask \/ Work
  BY <1>1, WorkKeepsKeys, MakingKeepsKeys, LinksKeepKeys DEF Work
<1>2. CASE Collect
  BY <1>2, ListKeepsKeys, CycleKeepsKeys, PruneKeepsKeys DEF Collect
<1>3. CASE \E k \in Key : Download(k) \/ RunScript(k)
  BY <1>3, LinksKeepKeys, ComingKeepsKeys
<1>4. CASE \/ \E i \in Id : NodeFlips(i) \/ KeyFlips(i) \/ AgentFlips(i)
           \/ HeadscaleFlips \/ Restart
  BY <1>4, WorldKeepsKeys
<1>5. CASE Tick
  BY <1>5, TickKeepsKeys
<1>6. CASE UNCHANGED vars
  BY <1>6, NodesAlone, CycleAlone, TaskAlone, KeysAlone DEF vars, headscale
<1> QED
  BY <1>1, <1>2, <1>3, <1>4, <1>5, <1>6 DEF Next

(* The key of a node that is there is never pruned, for any times a key    *)
(* lasts and is kept, also when the node came after the list was taken     *)
(* (collector.py:234-236, enroll.py's keys_to_prune).                      *)
THEOREM LiveKeysKeptHolds == Spec => []LiveKeysKept
<1>1. KeyInv => LiveKeysKept
  BY DEF KeyInv, NodeShape, Held, LiveKeysKept, Present
<1> QED
  BY <1>1, AlertInit, AlertStep, KeyInit, KeyStep, PTL DEF Spec

(* --- links ----------------------------------------------------------------- *)

(* The first download as it is noted is the first there was.               *)
LinkInv ==
    \A k \in Key : links[k] # NoLink =>
        /\ DOMAIN links[k] = {"first_at", "began", "last"}
        /\ links[k].first_at = links[k].began
        /\ \/ links[k].began = Nobody /\ links[k].last = Nobody
           \/ /\ links[k].began \in Nat /\ links[k].last \in Nat
              /\ links[k].last - links[k].began <= Grace
              /\ links[k].last < keys[k].at + TTL

(* The time of a key stands.                                               *)
LEMMA KeysStand ==
    ASSUME KeyInv, [Next]_vars, NEW k \in Key, keys[k] # NoKey
    PROVE  keys'[k].at = keys[k].at
<1>1. CASE UNCHANGED keys
  BY <1>1
<1>2. CASE MakeKey
  <2>1. ASSUME NEW n \in NewKey,
               NEW m, keys' = [keys EXCEPT ![n] = m]
        PROVE  keys'[k].at = keys[k].at
    <3>1. n # k
      BY DEF NewKey, New
    <3> QED
      BY <2>1, <3>1 DEF KeyInv, KeyShape
  <2> QED
    BY <1>1, <1>2, <2>1 DEF MakeKey
<1>3. ASSUME NEW n \in Key, RunScript(n) PROVE keys'[k].at = keys[k].at
  <2>1. keys' = [keys EXCEPT ![n].used = TRUE]
    BY <1>3 DEF RunScript
  <2> QED
    BY <2>1 DEF KeyInv, KeyShape
<1>4. CASE PruneKeys
  <2>1. CASE keys' = [n \in Key |-> IF n \in keys_to_prune
                                    THEN [keys[n] EXCEPT !.gone = TRUE]
                                    ELSE keys[n]]
    BY <2>1 DEF KeyInv, KeyShape
  <2> QED
    BY <1>1, <1>4, <2>1 DEF PruneKeys
<1> USE DEF Local, Panel, Outside, headscale
<1>5. CASE StartTask \/ Work
  BY <1>1, <1>2, <1>5 DEF StartTask, Work, FindNode, ReadNote, PutAside,
     DeleteOld, clear_node_meta, save_join_script, LookForKey, LookForName,
     Rename, RemoveNode, forget_node_refs, set_node_meta
<1>6. CASE Collect
  BY <1>1, <1>4, <1>6 DEF Collect, ListNodes, Repoint, HandBack, Close, ReadMeta,
     reconcile_nodes, TellNodes, reconcile_agents, check_key_expiry, KeepFlags,
     reconcile_selfcheck
<1>7. CASE \/ \E n \in Key : Download(n) \/ RunScript(n)
           \/ \E i \in Id : NodeFlips(i) \/ KeyFlips(i) \/ AgentFlips(i)
           \/ HeadscaleFlips \/ Tick \/ Restart
  BY <1>1, <1>3, <1>7 DEF Download, NodeFlips, KeyFlips, AgentFlips,
     HeadscaleFlips, Tick, Restart
<1> QED
  BY <1>1, <1>5, <1>6, <1>7 DEF Next, vars, headscale

LEMMA LinksStand ==
    ASSUME [Next]_vars
    PROVE  \/ UNCHANGED links
           \/ save_join_script
           \/ \E k \in Key : Download(k)
<1> USE DEF Local, Panel, Outside
<1>1. CASE StartTask \/ Work
  BY <1>1 DEF StartTask, Work, FindNode, MakeKey, ReadNote, PutAside,
     DeleteOld, clear_node_meta, LookForKey, LookForName,
     Rename, RemoveNode, forget_node_refs, set_node_meta
<1>2. CASE Collect
  BY <1>2 DEF Collect, ListNodes, Repoint, HandBack, Close, ReadMeta,
     reconcile_nodes, TellNodes, reconcile_agents, check_key_expiry, KeepFlags,
     PruneKeys, reconcile_selfcheck
<1>3. CASE \/ \E k \in Key : Download(k) \/ RunScript(k)
           \/ \E i \in Id : NodeFlips(i) \/ KeyFlips(i) \/ AgentFlips(i)
           \/ HeadscaleFlips \/ Tick \/ Restart
  BY <1>3 DEF RunScript, NodeFlips, KeyFlips, AgentFlips,
     HeadscaleFlips, Tick, Restart
<1> QED
  BY <1>1, <1>2, <1>3 DEF Next, vars

LEMMA LinkStep ==
    ASSUME KeyInv, LinkInv, [Next]_vars
    PROVE  LinkInv'
<1>1. ASSUME NEW k \in Key, links[k] # NoLink
      PROVE  keys'[k].at = keys[k].at
  BY <1>1, KeysStand DEF KeyInv, Made
<1>2. CASE UNCHANGED links
  BY <1>1, <1>2 DEF LinkInv
<1>3. CASE save_join_script
  <2>1. \A k \in Key : \/ links'[k] = links[k]
                       \/ links'[k] = NoLink
                       \/ links'[k] = [first_at |-> Nobody, began |-> Nobody,
                                       last |-> Nobody]
    BY <1>3 DEF save_join_script
  <2> QED
    BY <1>1, <2>1 DEF LinkInv
<1>4. ASSUME NEW k \in Key, Download(k) PROVE LinkInv'
  <2> DEFINE old == links[k]
             marks == marked(old)
             link == [marks EXCEPT !.began = IF @ = Nobody THEN now ELSE @,
                                   !.last = now]
  <2>1. /\ old # NoLink /\ ~ over(k)
        /\ old.first_at # Nobody => now - old.first_at <= Grace
        /\ links' = [links EXCEPT ![k] = link] /\ UNCHANGED keys
    BY <1>4 DEF Download, headscale
  <2>2. now \in Nat /\ now # Nobody /\ keys[k].at \in Nat
    BY <2>1, FleetAssumption DEF KeyInv, KeyShape, Made
  <2>3. /\ DOMAIN old = {"first_at", "began", "last"}
        /\ old.first_at = old.began
        /\ old.began = Nobody \/ old.began \in Nat
    BY <2>1 DEF LinkInv
  <2>4. /\ DOMAIN marks = DOMAIN old
        /\ marks.began = old.began
        /\ marks.first_at = IF old.first_at = Nobody THEN now ELSE old.first_at
    BY <2>3 DEF marked
  <2>5. /\ DOMAIN link = {"first_at", "began", "last"} /\ link.last = now
        /\ link.began = IF old.began = Nobody THEN now ELSE old.began
        /\ link.first_at = IF old.began = Nobody THEN now ELSE old.began
    BY <2>3, <2>4
  <2> HIDE DEF link, marks
  <2>6. /\ link.began \in Nat /\ link.first_at = link.began /\ link.last \in Nat
        /\ link.last - link.began <= Grace
        /\ link.last < keys[k].at + TTL
    BY <2>1, <2>2, <2>3, <2>5, FleetAssumption DEF over, until
  <2>7. links'[k] = link /\ \A n \in Key : n # k => links'[n] = links[n]
    BY <2>1 DEF KeyInv, Made
  <2> QED
    BY <2>1, <2>5, <2>6, <2>7 DEF LinkInv
<1> QED
  BY <1>2, <1>3, <1>4, LinksStand

(* settings_store.py:670-696: a link serves for its grace from the first   *)
(* download and not beyond its key, for any number of keys and downloads.  *)
THEOREM LinkGraceHolds == Spec => []LinkGrace
<1>1. Init => LinkInv
  BY DEF Init, LinkInv
<1>2. LinkInv => LinkGrace
  BY FleetAssumption DEF LinkInv, LinkGrace, NoLink, until
<1>3. KeyInv /\ LinkInv /\ [Next]_vars => LinkInv'
  BY LinkStep
<1> QED
  BY <1>1, <1>2, <1>3, AlertInit, AlertStep, KeyInit, KeyStep, PTL DEF Spec

(* --- types ----------------------------------------------------------------- *)

AKey == KeyRec \cup {NoKey}
ANode == Node \cup {NoNode}

(* Where a request of each kind can be, and what it has found by then.     *)
Asked ==
    /\ task.req \in Request /\ task.key \in Key \cup {0}
    /\ task.note \subseteq Flag
    /\ task.req.op \in {"rename", "delete", "note", "reconnect"} => task.req.id \in Id
    /\ task.pc = "find" => task.req.op = "reconnect"
    /\ task.pc = "key" => task.req.op \in {"enroll", "reconnect"}
    /\ task.pc = "look" => task.req.op = "status"
    /\ task.pc = "names" => task.req.op = "rename"
    /\ task.pc = "rename" =>
          task.req.op \in {"status", "rename"} /\ task.id \in Id
    /\ task.pc \in {"remove", "refs"} => task.req.op = "delete"
    /\ task.pc = "note" => task.req.op = "note"
    /\ task.pc \in {"read", "stash", "delete", "clear"} => task.req.op = "reconnect"
    /\ \/ task.pc \in {"read", "stash", "delete", "clear"}
       \/ task.pc = "key" /\ task.req.op = "reconnect"
       => task.id \in Id /\ task.node \in Node
    /\ task.pc \in {"read", "stash", "delete", "clear", "link"} => task.key # 0

Cycling ==
    cycle # Idle =>
        /\ cycle.raw \in [Id -> ANode] /\ Apart(cycle.raw)
        /\ cycle.tell \subseteq Id

Typed ==
    /\ world \in World /\ now \in Nat
    /\ nodes \in [Id -> ANode] /\ Apart(nodes) /\ keys \in [Key -> AKey]
    /\ meta \in [Id -> SUBSET Flag] /\ refs \subseteq Id
    /\ agents \in [Id -> AgentState]
    /\ pending \in [Name -> Stash \cup {NoStash}]
    /\ status \in [Id -> Status \cup {NoStatus}]
    /\ streak \in [Id -> 0..Misses - 1] /\ silent \subseteq Id /\ self \in Self
    /\ (task # Idle => Asked) /\ Cycling

LEMMA RequestShape ==
    ASSUME NEW q \in Request
    PROVE  /\ q.op \in {"enroll", "status", "reconnect", "delete", "rename", "note"}
           /\ q.op = "enroll" => q.machine \in Machine
           /\ q.op \in {"enroll", "status", "rename"} => q.name \in Name
           /\ q.op \in {"reconnect", "delete", "rename", "note"} => q.id \in Id
           /\ q.op = "note" => q.flag \in Flag /\ q.on \in BOOLEAN
BY DEF Request

(* What is the same beside the task, the nodes, the notes or the cycle.    *)
LEMMA TypedAlone ==
    ASSUME Typed, UNCHANGED <<world, now, nodes, keys, meta, refs, agents, pending,
                              status, streak, silent, self, task, cycle>>
    PROVE  Typed'
BY DEF Typed, Asked, Cycling, Apart

StoredTyped ==
    /\ world \in World /\ now \in Nat
    /\ nodes \in [Id -> ANode] /\ Apart(nodes) /\ keys \in [Key -> AKey]
    /\ meta \in [Id -> SUBSET Flag] /\ refs \subseteq Id
    /\ agents \in [Id -> AgentState]
    /\ pending \in [Name -> Stash \cup {NoStash}]
    /\ status \in [Id -> Status \cup {NoStatus}]
    /\ streak \in [Id -> 0..Misses - 1] /\ silent \subseteq Id /\ self \in Self

LEMMA TypedParts == Typed <=> StoredTyped /\ (task # Idle => Asked) /\ Cycling
BY DEF Typed, StoredTyped

LEMMA StoredAlone ==
    ASSUME StoredTyped, UNCHANGED <<world, now, nodes, keys, meta, refs, agents,
                                    pending, status, streak, silent, self>>
    PROVE  StoredTyped'
BY DEF StoredTyped, Apart

LEMMA TaskOver == ASSUME task' = Idle PROVE (task # Idle => Asked)'
BY DEF Idle

LEMMA AskedAlone ==
    ASSUME task # Idle => Asked, UNCHANGED task
    PROVE  (task # Idle => Asked)'
BY DEF Asked

LEMMA CyclingAlone == ASSUME Cycling, UNCHANGED cycle PROVE Cycling'
BY DEF Cycling, Apart

LEMMA TypedInit == ASSUME Init PROVE Typed
<1>1. world \in World
  BY FleetAssumption DEF Init
<1>2. /\ nodes \in [Id -> ANode] /\ Apart(nodes)
      /\ meta \in [Id -> SUBSET Flag] /\ agents \in [Id -> AgentState]
      /\ refs \subseteq Id
  BY <1>1 DEF Init, World, ANode, Apart
<1>3. /\ now \in Nat /\ keys \in [Key -> AKey]
      /\ pending \in [Name -> Stash \cup {NoStash}]
      /\ status \in [Id -> Status \cup {NoStatus}] /\ silent \subseteq Id
  BY DEF Init, AKey
<1>4. streak \in [Id -> 0..Misses - 1] /\ self \in Self
  BY WatchAssumption DEF Init, Self
<1>5. (task # Idle => Asked) /\ Cycling
  BY DEF Init, Cycling
<1> QED
  BY <1>1, <1>2, <1>3, <1>4, <1>5 DEF Typed

LEMMA WorldTyped ==
    ASSUME world \in World
    PROVE  /\ world.left > 0 => [world EXCEPT !.left = @ - 1] \in World
           /\ world.changes > 0 => [world EXCEPT !.changes = @ - 1] \in World
           /\ world.ticks > 0 => [world EXCEPT !.ticks = @ - 1] \in World
           /\ world.faults > 0 => [world EXCEPT !.faults = @ - 1] \in World
           /\ world.requests \subseteq Request
<1> DEFINE N == {m \in [Id -> {n \in Node : n.key = 0} \cup {NoNode}] : Apart(m)}
           W == [Id -> SUBSET Flag]
           A == [Id -> AgentState]
           R == SUBSET Request
           D == SUBSET {"across", "again"}
           F == SUBSET {"node", "agent", "key", "headscale"}
<1>1. World = [nodes : N, notes : W, agents : A, refs : SUBSET Id,
               requests : R, left : Nat, admits : D, flips : F, changes : Nat,
               ticks : Nat, faults : Nat]
  BY DEF World
<1>2. world.requests \in R
  BY <1>1
<1> HIDE DEF N, W, A, R, D, F
<1>3. \A n \in Nat : n > 0 => n - 1 \in Nat
  OBVIOUS
<1>4. /\ world.left \in Nat /\ world.changes \in Nat
      /\ world.ticks \in Nat /\ world.faults \in Nat
  BY <1>1
<1>5. world.left > 0 => [world EXCEPT !.left = @ - 1] \in World
  BY <1>1, <1>3, <1>4
<1>6. world.changes > 0 => [world EXCEPT !.changes = @ - 1] \in World
  BY <1>1, <1>3, <1>4
<1>7. world.ticks > 0 => [world EXCEPT !.ticks = @ - 1] \in World
  BY <1>1, <1>3, <1>4
<1>8. world.faults > 0 => [world EXCEPT !.faults = @ - 1] \in World
  BY <1>1, <1>3, <1>4
<1> QED
  BY <1>2, <1>5, <1>6, <1>7, <1>8 DEF R

(* A task that moves on keeps what it has found.                           *)
LEMMA MovedOn ==
    ASSUME task # Idle, Asked, NEW x,
           task' = [task EXCEPT !.pc = x], TaskShape,
           \/ task.pc = "stash" /\ x = "delete"
           \/ task.pc = "delete" /\ x = "clear"
           \/ task.pc = "clear" /\ x = "link"
           \/ task.pc = "remove" /\ x = "refs"
    PROVE  Asked'
<1>1. /\ task'.req = task.req /\ task'.key = task.key /\ task'.id = task.id
      /\ task'.node = task.node /\ task'.note = task.note /\ task'.pc = x
  BY DEF TaskShape
<1> QED
  BY <1>1 DEF Asked

LEMMA AskedSteps ==
    ASSUME Typed, TaskShape, StartTask \/ Work
    PROVE  (task # Idle => Asked)'
<1>1. CASE task' = Idle
  BY <1>1, TaskOver
<1>2. CASE StartTask
  <2>1. PICK q \in world.requests :
            task' = [pc |-> First[q.op], req |-> q, key |-> 0, id |-> 0,
                     node |-> NoNode, note |-> {}]
    BY <1>2 DEF StartTask
  <2>2. q \in Request
    BY <2>1, WorldTyped DEF Typed
  <2>3. /\ q.op = "enroll" => First[q.op] = "key"
        /\ q.op = "reconnect" => First[q.op] = "find"
        /\ q.op = "status" => First[q.op] = "look"
        /\ q.op = "rename" => First[q.op] = "names"
        /\ q.op = "delete" => First[q.op] = "remove"
        /\ q.op = "note" => First[q.op] = "note"
    BY DEF First
  <2>4. /\ task'.pc = First[q.op] /\ task'.req = q /\ task'.key = 0
        /\ task'.note = {}
    BY <2>1
  <2> QED
    BY <2>2, <2>3, <2>4, RequestShape DEF Asked
<1>3. CASE FindNode
  <2>1. SUFFICES ASSUME nodes[task.req.id] # NoNode,
                        task' = [task EXCEPT !.pc = "key", !.id = task.req.id,
                                             !.node = nodes[task.req.id]]
                 PROVE  Asked'
    BY <1>1, <1>3 DEF FindNode, End
  <2>2. task # Idle /\ Asked /\ task.pc = "find"
    BY <1>3 DEF FindNode, At, Typed
  <2>3. /\ task'.pc = "key" /\ task'.id = task.req.id
        /\ task'.node = nodes[task.req.id]
        /\ task'.req = task.req /\ task'.key = task.key /\ task'.note = task.note
    BY <2>1, <2>2 DEF TaskShape
  <2>4. task.req.id \in Id /\ nodes[task.req.id] \in Node
    BY <2>1, <2>2, RequestShape DEF Asked, Typed, ANode
  <2> QED
    BY <2>2, <2>3, <2>4 DEF Asked
<1>4. CASE MakeKey
  <2>1. SUFFICES ASSUME NEW k \in NewKey,
                        task' = [task EXCEPT !.key = k,
                            !.pc = IF task.req.op = "enroll" THEN "link" ELSE "read"]
                 PROVE  Asked'
    BY <1>1, <1>4 DEF MakeKey, End
  <2>2. task # Idle /\ Asked /\ task.pc = "key"
    BY <1>4 DEF MakeKey, At, Typed
  <2>3. /\ task'.pc = IF task.req.op = "enroll" THEN "link" ELSE "read"
        /\ task'.id = task.id /\ task'.node = task.node
        /\ task'.req = task.req /\ task'.key = k /\ task'.note = task.note
    BY <2>1, <2>2 DEF TaskShape
  <2>4. k \in Key /\ k # 0
    BY FleetAssumption DEF NewKey, New
  <2> QED
    BY <2>2, <2>3, <2>4 DEF Asked
<1>5. CASE ReadNote
  <2>1. /\ task # Idle /\ Asked /\ task.pc = "read"
        /\ task' = [task EXCEPT !.pc = "stash", !.note = meta[task.id]]
    BY <1>5 DEF ReadNote, At, Typed
  <2>2. /\ task'.pc = "stash" /\ task'.id = task.id /\ task'.node = task.node
        /\ task'.req = task.req /\ task'.key = task.key
        /\ task'.note = meta[task.id]
    BY <2>1 DEF TaskShape
  <2>3. meta[task.id] \subseteq Flag
    BY <2>1 DEF Asked, Typed
  <2> QED
    BY <2>1, <2>2, <2>3 DEF Asked
<1>6. CASE PutAside
  BY <1>6, MovedOn DEF PutAside, At, Then, Typed
<1>7. CASE DeleteOld
  BY <1>1, <1>7, MovedOn DEF DeleteOld, At, Then, Typed, End
<1>8. CASE clear_node_meta
  BY <1>8, MovedOn DEF clear_node_meta, At, Then, Typed
<1>9. CASE LookForKey
  <2>1. SUFFICES ASSUME NEW i \in Present(nodes),
                        task' = [task EXCEPT !.pc = "rename", !.id = i]
                 PROVE  Asked'
    BY <1>1, <1>9 DEF LookForKey, End
  <2>2. task # Idle /\ Asked /\ task.pc = "look"
    BY <1>9 DEF LookForKey, At, Typed
  <2>3. /\ task'.pc = "rename" /\ task'.id = i /\ task'.node = task.node
        /\ task'.req = task.req /\ task'.key = task.key /\ task'.note = task.note
    BY <2>1, <2>2 DEF TaskShape
  <2>4. i \in Id
    BY DEF Present, Typed
  <2> QED
    BY <2>2, <2>3, <2>4 DEF Asked
<1>10. CASE LookForName
  <2>1. SUFFICES ASSUME task' = [task EXCEPT !.pc = "rename", !.id = task.req.id]
                 PROVE  Asked'
    BY <1>1, <1>10 DEF LookForName, End
  <2>2. task # Idle /\ Asked /\ task.pc = "names"
    BY <1>10 DEF LookForName, At, Typed
  <2>3. /\ task'.pc = "rename" /\ task'.id = task.req.id /\ task'.node = task.node
        /\ task'.req = task.req /\ task'.key = task.key /\ task'.note = task.note
    BY <2>1, <2>2 DEF TaskShape
  <2>4. task.req.id \in Id
    BY <2>2, RequestShape DEF Asked
  <2> QED
    BY <2>2, <2>3, <2>4 DEF Asked
<1>11. CASE RemoveNode
  BY <1>1, <1>11, MovedOn DEF RemoveNode, At, Then, Typed, End
<1>12. CASE save_join_script \/ Rename \/ forget_node_refs \/ set_node_meta
  BY <1>1, <1>12 DEF save_join_script, Rename, forget_node_refs, set_node_meta, End
<1> QED
  BY <1>2, <1>3, <1>4, <1>5, <1>6, <1>7, <1>8, <1>9, <1>10, <1>11, <1>12 DEF Work

(* --- types: what is stored -------------------------------------------------- *)

LEMMA NodesLess ==
    ASSUME nodes \in [Id -> ANode], Apart(nodes), NEW i \in Id,
           nodes' = [nodes EXCEPT ![i] = NoNode]
    PROVE  nodes' \in [Id -> ANode] /\ Apart(nodes')
BY DEF Apart, ANode

LEMMA WorkTyped ==
    ASSUME Typed, TaskShape, StartTask \/ Work
    PROVE  StoredTyped'
<1> USE DEF Local, watch, headscale, notes, End
<1>0. StoredTyped /\ (task # Idle => Asked)
  BY TypedParts
<1>1. CASE StartTask
  <2>1. world' \in World
    BY <1>1, WorldTyped DEF StartTask, Typed
  <2> QED
    BY <1>0, <1>1, <2>1 DEF StartTask, StoredTyped, Apart
<1>2. CASE FindNode \/ ReadNote \/ save_join_script \/ LookForKey \/ LookForName
  BY <1>0, <1>2, StoredAlone DEF FindNode, ReadNote, save_join_script, LookForKey,
     LookForName
<1>3. CASE MakeKey
  <2> DEFINE m == IF task.req.op = "enroll" THEN task.req.machine ELSE task.node.machine
             x == IF task.req.op = "enroll" THEN task.req.name ELSE task.node.name
  <2>1. m \in Machine /\ x \in Name
    BY <1>0, <1>3, RequestShape DEF MakeKey, At, Asked, Node
  <2>2. keys' \in [Key -> AKey]
    <3>1. CASE UNCHANGED keys
      BY <1>0, <3>1 DEF StoredTyped
    <3>2. CASE \E k \in NewKey : keys' = [keys EXCEPT ![k] =
                  [at |-> now, machine |-> m, name |-> x, used |-> FALSE,
                   gone |-> FALSE]]
      <4>1. [at |-> now, machine |-> m, name |-> x, used |-> FALSE,
             gone |-> FALSE] \in AKey
        BY <1>0, <2>1 DEF AKey, KeyRec, StoredTyped
      <4> QED
        BY <1>0, <3>2, <4>1 DEF StoredTyped
    <3> HIDE DEF m, x
    <3> QED
      BY <1>3, <3>1, <3>2 DEF MakeKey, m, x
  <2> QED
    BY <1>0, <1>3, <2>2 DEF MakeKey, StoredTyped, Apart
<1>4. CASE PutAside
  <2>1. /\ task.node.name \in Name
        /\ [note |-> task.note, old |-> task.id] \in Stash
    BY <1>0, <1>4 DEF PutAside, At, Asked, Stash, Node
  <2>2. pending' \in [Name -> Stash \cup {NoStash}]
    BY <1>0, <1>4, <2>1 DEF PutAside, stash_node_meta, StoredTyped
  <2> QED
    BY <1>0, <1>4, <2>2 DEF PutAside, StoredTyped, Apart
<1>5. CASE DeleteOld
  <2>1. task.id \in Id
    BY <1>0, <1>5 DEF DeleteOld, At, Asked
  <2>2. nodes' \in [Id -> ANode] /\ Apart(nodes')
    BY <1>0, <1>5, <2>1, NodesLess DEF DeleteOld, StoredTyped
  <2> QED
    BY <1>0, <1>5, <2>2 DEF DeleteOld, StoredTyped
<1>6. CASE clear_node_meta
  BY <1>0, <1>6 DEF clear_node_meta, StoredTyped, Apart
<1>7. CASE Rename
  <2>1. task.id \in Id /\ task.req.name \in Name
    BY <1>0, <1>7, RequestShape DEF Rename, At, Asked
  <2>2. nodes' \in [Id -> ANode] /\ Apart(nodes')
    <3>1. CASE UNCHANGED nodes
      BY <1>0, <3>1 DEF StoredTyped, Apart
    <3>2. CASE /\ nodes[task.id] # NoNode /\ ~ Taken(task.req.name)
               /\ nodes' = [nodes EXCEPT ![task.id].name = task.req.name]
      <4>1. nodes[task.id] \in Node
        BY <1>0, <2>1, <3>2 DEF StoredTyped, ANode
      <4>2. /\ nodes'[task.id] \in Node /\ nodes'[task.id].name = task.req.name
            /\ nodes'[task.id].machine = nodes[task.id].machine
        BY <1>0, <2>1, <3>2, <4>1 DEF Node, StoredTyped
      <4>3. \A i \in Id : i # task.id => nodes'[i] = nodes[i]
        BY <1>0, <3>2 DEF StoredTyped
      <4>4. \A i \in Id : nodes[i] # NoNode => nodes[i].name # task.req.name
        BY <1>0, <3>2 DEF Taken, Present, StoredTyped
      <4>5. nodes' \in [Id -> ANode]
        BY <1>0, <3>2, <4>2, <4>3 DEF StoredTyped, ANode
      <4> QED
        BY <1>0, <3>2, <4>2, <4>3, <4>4, <4>5 DEF StoredTyped, Apart
    <3> QED
      BY <1>7, <3>1, <3>2 DEF Rename
  <2> QED
    BY <1>0, <1>7, <2>2 DEF Rename, StoredTyped
<1>8. CASE RemoveNode
  <2>1. task.req.id \in Id
    BY <1>0, <1>8, RequestShape DEF RemoveNode, At, Asked
  <2>2. nodes' \in [Id -> ANode] /\ Apart(nodes')
    BY <1>0, <1>8, <2>1, NodesLess DEF RemoveNode, StoredTyped
  <2> QED
    BY <1>0, <1>8, <2>2 DEF RemoveNode, StoredTyped
<1>9. CASE forget_node_refs
  BY <1>0, <1>9 DEF forget_node_refs, StoredTyped, Apart, AgentState
<1>10. CASE set_node_meta
  <2>1. task.req.id \in Id /\ task.req.flag \in Flag
    BY <1>0, <1>10, RequestShape DEF set_node_meta, At, Asked
  <2>2. meta' \in [Id -> SUBSET Flag]
    BY <1>0, <1>10, <2>1 DEF set_node_meta, StoredTyped
  <2> QED
    BY <1>0, <1>10, <2>2 DEF set_node_meta, StoredTyped, Apart
<1> QED
  BY <1>1, <1>2, <1>3, <1>4, <1>5, <1>6, <1>7, <1>8, <1>9, <1>10 DEF Work

LEMMA ObservedTyped ==
    ASSUME NEW s \in Status \cup {NoStatus}, NEW online \in BOOLEAN,
           NEW n \in 0..Misses - 1
    PROVE  /\ observed(s, online, n).status \in Status
           /\ observed(s, online, n).status.key_alerted = s.key_alerted
           /\ observed(s, online, n).streak \in 0..Misses - 1
           /\ observed(s, online, n).told = "down" =>
                 /\ ~ online /\ s # NoStatus /\ s.online
                 /\ ~ observed(s, online, n).status.online
           /\ s # NoStatus /\ ~ s.online /\ ~ online =>
                 ~ observed(s, online, n).status.online
<1> USE WatchAssumption DEF result, observed
<1>1. CASE s = NoStatus
  <2>1. /\ [online |-> online, key_alerted |-> FALSE] \in Status
        /\ s.key_alerted = FALSE /\ 0 \in 0..Misses - 1
        /\ [online |-> online, key_alerted |-> FALSE].key_alerted = FALSE
    BY <1>1 DEF Status, NoStatus
  <2>2. observed(s, online, n) =
            result([online |-> online, key_alerted |-> FALSE], 0, "no")
    BY <1>1
  <2>3. /\ observed(s, online, n).status = [online |-> online, key_alerted |-> FALSE]
        /\ observed(s, online, n).streak = 0 /\ observed(s, online, n).told = "no"
    BY <2>2
  <2> HIDE DEF observed
  <2> QED
    BY <1>1, <2>1, <2>3
<1>2. CASE s # NoStatus /\ online
  <2>0. 0 \in 0..Misses - 1
    OBVIOUS
  <2>1. /\ [s EXCEPT !.online = TRUE] \in Status
        /\ [s EXCEPT !.online = TRUE].key_alerted = s.key_alerted
    BY <1>2 DEF Status
  <2>2. observed(s, online, n) =
            result([s EXCEPT !.online = TRUE], 0, IF s.online THEN "no" ELSE "up")
    BY <1>2
  <2>3. /\ observed(s, online, n).status = [s EXCEPT !.online = TRUE]
        /\ observed(s, online, n).streak = 0 /\ observed(s, online, n).told # "down"
    BY <2>2
  <2> HIDE DEF observed
  <2> QED
    BY <1>2, <2>0, <2>1, <2>3
<1>3. CASE s # NoStatus /\ ~ online
  <2>1. /\ s \in Status /\ [s EXCEPT !.online = FALSE] \in Status
        /\ [s EXCEPT !.online = FALSE].key_alerted = s.key_alerted
        /\ ~ [s EXCEPT !.online = FALSE].online
    BY <1>3 DEF Status
  <2>2. observed(s, online, n) =
            IF ~ s.online THEN result(s, n, "no")
            ELSE IF n + 1 < Misses THEN result(s, n + 1, "no")
            ELSE result([s EXCEPT !.online = FALSE], 0, "down")
    BY <1>3
  <2> HIDE DEF observed
  <2> QED
    BY <1>3, <2>1, <2>2
<1> QED
  BY <1>1, <1>2, <1>3

LEMMA ListedTyped ==
    ASSUME Typed, cycle # Idle
    PROVE  /\ Listed \subseteq Id
           /\ \A i \in Listed : /\ cycle.raw[i] \in Node
                                /\ cycle.raw[i].name \in Name
                                /\ cycle.raw[i].online \in BOOLEAN
                                /\ cycle.raw[i].expiring \in BOOLEAN
           /\ \A i, j \in Listed : cycle.raw[i].name = cycle.raw[j].name => i = j
           /\ Owed \subseteq Listed /\ repointed \subseteq Owed
           /\ \A i \in Owed : owed(i) \in Stash
<1>1. cycle.raw \in [Id -> ANode] /\ Apart(cycle.raw)
  BY DEF Typed, Cycling
<1>2. /\ Listed \subseteq Id
      /\ \A i \in Listed : cycle.raw[i] \in Node /\ cycle.raw[i] # NoNode
  BY <1>1 DEF Listed, Present, ANode
<1>3. \A i \in Listed : /\ cycle.raw[i].name \in Name
                        /\ cycle.raw[i].online \in BOOLEAN
                        /\ cycle.raw[i].expiring \in BOOLEAN
  BY <1>2 DEF Node
<1>4. \A i \in Owed : owed(i) \in Stash
  BY <1>3 DEF Owed, owed, Typed
<1> QED
  BY <1>1, <1>2, <1>3, <1>4 DEF Owed, repointed, Apart

LEMMA CollectTyped ==
    ASSUME Typed, Collect
    PROVE  StoredTyped'
<1> USE DEF Outside, watch, headscale, notes
<1>0. StoredTyped
  BY TypedParts
<1>1. CASE ListNodes \/ ReadMeta \/ TellNodes \/ check_key_expiry
  BY <1>0, <1>1, StoredAlone DEF ListNodes, ReadMeta, TellNodes, check_key_expiry
<1>2. CASE Repoint
  <2>1. cycle # Idle
    BY <1>2 DEF Repoint, In
  <2>2. refs' \subseteq Id
    BY <1>0, <1>2, <2>1, ListedTyped DEF Repoint, StoredTyped
  <2>3. agents' \in [Id -> AgentState]
    <3>1. \A i \in repointed : agents[owed(i).old] \in AgentState
      BY <1>0, <2>1, ListedTyped DEF StoredTyped, Stash
    <3> QED
      BY <1>0, <1>2, <3>1 DEF Repoint, StoredTyped, AgentState
  <2> QED
    BY <1>0, <1>2, <2>2, <2>3 DEF Repoint, StoredTyped, Apart
<1>3. CASE HandBack
  <2>1. cycle # Idle
    BY <1>3 DEF HandBack, In
  <2>2. \A i \in Owed : owed(i).note \subseteq Flag
    BY <2>1, ListedTyped DEF Stash
  <2>3. meta' \in [Id -> SUBSET Flag]
    BY <1>0, <1>3, <2>2 DEF HandBack, StoredTyped
  <2> QED
    BY <1>0, <1>3, <2>3 DEF HandBack, StoredTyped, Apart
<1>4. CASE Close
  <2>1. pending' \in [Name -> Stash \cup {NoStash}]
    BY <1>0, <1>4 DEF Close, StoredTyped
  <2> QED
    BY <1>0, <1>4, <2>1 DEF Close, StoredTyped, Apart
<1>5. CASE reconcile_nodes
  <2>1. cycle # Idle
    BY <1>5 DEF reconcile_nodes, In
  <2>2. \A i \in Listed : seen(i).status \in Status /\ seen(i).streak \in 0..Misses - 1
    BY <1>0, <2>1, ListedTyped, ObservedTyped DEF StoredTyped, seen
  <2>3. 0 \in 0..Misses - 1
    BY WatchAssumption
  <2>4. status' \in [Id -> Status \cup {NoStatus}] /\ streak' \in [Id -> 0..Misses - 1]
    BY <1>0, <1>5, <2>2, <2>3 DEF reconcile_nodes, StoredTyped
  <2> QED
    BY <1>0, <1>5, <2>4 DEF reconcile_nodes, StoredTyped, Apart
<1>6. CASE reconcile_agents
  BY <1>0, <1>6 DEF reconcile_agents, StoredTyped, Apart
<1>7. CASE KeepFlags
  <2>1. status' \in [Id -> Status \cup {NoStatus}]
    <3>1. \A s \in Status, b \in BOOLEAN : [s EXCEPT !.key_alerted = b] \in Status
      BY DEF Status
    <3>2. ASSUME NEW i \in Id
          PROVE  (IF status[i] = NoStatus THEN NoStatus ELSE
                    [status[i] EXCEPT !.key_alerted = i \in cycle.flags])
                 \in Status \cup {NoStatus}
      <4>1. (i \in cycle.flags) \in BOOLEAN
        OBVIOUS
      <4>2. status[i] \in Status \cup {NoStatus}
        BY <1>0 DEF StoredTyped
      <4> QED
        BY <3>1, <4>1, <4>2
    <3> QED
      BY <1>7, <3>2 DEF KeepFlags
  <2> QED
    BY <1>0, <1>7, <2>1 DEF KeepFlags, StoredTyped, Apart
<1>8. CASE PruneKeys
  <2>1. \A r \in KeyRec : [r EXCEPT !.gone = TRUE] \in KeyRec
    BY DEF KeyRec
  <2>2. \A k \in keys_to_prune : k \in Key /\ keys[k] \in KeyRec
    BY <1>0 DEF keys_to_prune, StoredTyped, AKey
  <2>3. keys' \in [Key -> AKey]
    BY <1>0, <1>8, <2>1, <2>2 DEF PruneKeys, StoredTyped, AKey
  <2> QED
    BY <1>0, <1>8, <2>3 DEF PruneKeys, StoredTyped, Apart
<1>9. CASE reconcile_selfcheck
  <2>1. \A s \in Self : checked(s, TRUE) \in Self /\ checked(s, FALSE) \in Self
    <3> SUFFICES ASSUME NEW s \in Self
                 PROVE  checked(s, TRUE) \in Self /\ checked(s, FALSE) \in Self
      OBVIOUS
    <3>1. [up |-> "up", fails |-> 0] \in Self /\ [up |-> "down", fails |-> Misses] \in Self
      BY WatchAssumption DEF Self
    <3>2. s.fails + 1 < Misses => [s EXCEPT !.fails = @ + 1] \in Self
      BY WatchAssumption DEF Self
    <3> QED
      BY <3>1, <3>2 DEF checked
  <2>2. self' = checked(self, TRUE) \/ self' = checked(self, FALSE)
    BY <1>9 DEF reconcile_selfcheck, checked
  <2> QED
    BY <1>0, <1>9, <2>1, <2>2 DEF reconcile_selfcheck, StoredTyped, Apart
<1> QED
  BY <1>1, <1>2, <1>3, <1>4, <1>5, <1>6, <1>7, <1>8, <1>9 DEF Collect

LEMMA CollectCycling ==
    ASSUME Typed, CycleShape, Collect
    PROVE  Cycling'
<1> USE DEF In, Onward
<1>1. CASE ListNodes
  <2>1. cycle'.raw = nodes /\ cycle'.tell = {}
    BY <1>1 DEF ListNodes
  <2> QED
    BY <2>1 DEF Typed, Cycling, Apart
<1>2. CASE reconcile_nodes
  <2>1. cycle # Idle /\ cycle'.raw = cycle.raw /\ cycle'.tell \subseteq Listed
    BY <1>2 DEF reconcile_nodes, CycleShape
  <2> QED
    BY <2>1, ListedTyped DEF Typed, Cycling, Apart
<1>3. CASE \/ Repoint \/ HandBack \/ Close \/ ReadMeta \/ TellNodes
           \/ reconcile_agents \/ check_key_expiry \/ KeepFlags \/ PruneKeys
  <2>1. cycle # Idle /\ cycle'.raw = cycle.raw /\ cycle'.tell = cycle.tell
    BY <1>3 DEF Repoint, HandBack, Close, ReadMeta, TellNodes, reconcile_agents,
       check_key_expiry, KeepFlags, PruneKeys, CycleShape
  <2> QED
    BY <2>1 DEF Typed, Cycling, Apart
<1>4. CASE reconcile_selfcheck
  BY <1>4 DEF reconcile_selfcheck, Cycling
<1> QED
  BY <1>1, <1>2, <1>3, <1>4 DEF Collect

LEMMA WorldStepTyped ==
    ASSUME Typed, KeyInv,
           \/ \E k \in Key : Download(k) \/ RunScript(k)
           \/ \E i \in Id : NodeFlips(i) \/ KeyFlips(i) \/ AgentFlips(i)
           \/ HeadscaleFlips \/ Tick \/ Restart
    PROVE  StoredTyped'
<1> USE DEF Panel, watch, headscale, notes
<1>0. StoredTyped
  BY TypedParts
<1>1. ASSUME NEW k \in Key, Download(k) PROVE StoredTyped'
  BY <1>0, <1>1, StoredAlone DEF Download
<1>2. ASSUME NEW k \in Key, RunScript(k) PROVE StoredTyped'
  <2> DEFINE m == keys[k].machine
             x == keys[k].name
  <2>1. keys[k] \in KeyRec
    <3>1. keys[k] # NoKey
      BY <1>2 DEF RunScript, KeyInv, Made
    <3> QED
      BY <1>0, <3>1 DEF StoredTyped, AKey
  <2>2. m \in Machine
    BY <2>1 DEF KeyRec
  <2>3. keys' \in [Key -> AKey]
    <3>1. [keys[k] EXCEPT !.used = TRUE] \in KeyRec
      BY <2>1 DEF KeyRec
    <3> QED
      BY <1>0, <1>2, <3>1 DEF RunScript, StoredTyped, AKey
  <2>4. nodes' \in [Id -> ANode] /\ Apart(nodes')
    <3>1. ASSUME NEW i \in Present(nodes), nodes' = [nodes EXCEPT ![i].key = k]
          PROVE  nodes' \in [Id -> ANode] /\ Apart(nodes')
      <4>1. i \in Id /\ nodes[i] \in Node
        BY <1>0 DEF Present, StoredTyped, ANode
      <4>2. /\ nodes'[i] \in Node /\ nodes'[i].name = nodes[i].name
            /\ nodes'[i].machine = nodes[i].machine
            /\ \A j \in Id : j # i => nodes'[j] = nodes[j]
        BY <1>0, <3>1, <4>1 DEF Node, StoredTyped
      <4>3. nodes' \in [Id -> ANode]
        BY <1>0, <3>1, <4>2 DEF StoredTyped, ANode
      <4>4. nodes[i] # NoNode
        BY DEF Present
      <4> QED
        BY <1>0, <4>1, <4>2, <4>3, <4>4 DEF StoredTyped, Apart
    <3>2. ASSUME NEW i \in NewId, NEW y \in Name,
                 \A j \in Present(nodes) : nodes[j].machine # m,
                 ~ Taken(y),
                 nodes' = [nodes EXCEPT ![i] =
                     [machine |-> m, name |-> y, online |-> TRUE,
                      expiring |-> FALSE, key |-> k]]
          PROVE  nodes' \in [Id -> ANode] /\ Apart(nodes')
      <4> DEFINE n == [machine |-> m, name |-> y, online |-> TRUE,
                       expiring |-> FALSE, key |-> k]
      <4>1. n \in Node /\ n.machine = m /\ n.name = y
        BY <2>2 DEF Node
      <4> HIDE DEF n, m
      <4>2. /\ i \in Id /\ nodes'[i] = n
            /\ \A j \in Id : j # i => nodes'[j] = nodes[j]
        BY <1>0, <3>2 DEF NewId, New, StoredTyped, n
      <4>3. nodes' \in [Id -> ANode]
        BY <1>0, <3>2, <4>1 DEF StoredTyped, ANode, n
      <4>4. \A j \in Id : nodes[j] # NoNode => nodes[j].machine # m /\ nodes[j].name # y
        BY <1>0, <3>2 DEF StoredTyped, Present, Taken
      <4> QED
        BY <1>0, <4>1, <4>2, <4>3, <4>4 DEF StoredTyped, Apart
    <3> QED
      BY <1>2, <3>1, <3>2 DEF RunScript
  <2> QED
    BY <1>0, <1>2, <2>3, <2>4 DEF RunScript, StoredTyped
<1>3. ASSUME Spent PROVE world' \in World \/ ~ world.changes > 0
  BY <1>0, <1>3, WorldTyped DEF Spent, StoredTyped
<1>4. ASSUME NEW i \in Id, NodeFlips(i) \/ KeyFlips(i) PROVE StoredTyped'
  <2>1. /\ nodes[i] # NoNode /\ UNCHANGED <<keys, Panel>> /\ world' \in World
        /\ \/ nodes' = [nodes EXCEPT ![i].online = ~ @]
           \/ nodes' = [nodes EXCEPT ![i].expiring = ~ @]
    BY <1>3, <1>4 DEF NodeFlips, KeyFlips, Flip
  <2>2. nodes[i] \in Node
    BY <1>0, <2>1 DEF StoredTyped, ANode
  <2>3. /\ [nodes[i] EXCEPT !.online = ~ @] \in Node
        /\ [nodes[i] EXCEPT !.expiring = ~ @] \in Node
    BY <2>2 DEF Node
  <2>4. /\ nodes'[i] \in Node /\ nodes'[i].name = nodes[i].name
        /\ nodes'[i].machine = nodes[i].machine
        /\ \A j \in Id : j # i => nodes'[j] = nodes[j]
    BY <1>0, <2>1, <2>2, <2>3 DEF StoredTyped, Node
  <2>5. nodes' \in [Id -> ANode]
    BY <1>0, <2>1, <2>4 DEF StoredTyped, ANode
  <2>6. Apart(nodes')
    BY <1>0, <2>1, <2>4 DEF StoredTyped, Apart
  <2> QED
    BY <1>0, <2>1, <2>5, <2>6 DEF StoredTyped
<1>5. ASSUME NEW i \in Id, AgentFlips(i) PROVE StoredTyped'
  <2>1. agents' \in [Id -> AgentState] /\ world' \in World
    BY <1>0, <1>3, <1>5 DEF AgentFlips, Flip, StoredTyped, AgentState
  <2> QED
    BY <1>0, <1>5, <2>1 DEF AgentFlips, StoredTyped, Apart
<1>6. CASE HeadscaleFlips
  BY <1>0, <1>3, <1>6 DEF HeadscaleFlips, Flip, StoredTyped, Apart
<1>7. CASE Tick
  <2>1. world' \in World /\ now' \in Nat
    BY <1>0, <1>7, WorldTyped DEF Tick, StoredTyped
  <2> QED
    BY <1>0, <1>7, <2>1 DEF Tick, StoredTyped, Apart
<1>8. CASE Restart
  <2>1. /\ world' \in World /\ self' \in Self
        /\ streak' \in [Id -> 0..Misses - 1] /\ silent' \subseteq Id
    BY <1>0, <1>8, WorldTyped, WatchAssumption DEF Restart, StoredTyped, Self
  <2> QED
    BY <1>0, <1>8, <2>1 DEF Restart, StoredTyped, Apart
<1> QED
  BY <1>1, <1>2, <1>4, <1>5, <1>6, <1>7, <1>8

LEMMA TypedStep ==
    ASSUME Typed, KeyInv, CycleShape, [Next]_vars
    PROVE  Typed'
<1>1. CASE StartTask \/ Work
  <2>1. UNCHANGED cycle
    BY <1>1 DEF StartTask, Work, Local, FindNode, MakeKey, ReadNote, PutAside,
       DeleteOld, clear_node_meta, save_join_script, LookForKey, LookForName,
       Rename, RemoveNode, forget_node_refs, set_node_meta
  <2> QED
    BY <1>1, <2>1, WorkTyped, AskedSteps, CyclingAlone, TypedParts
       DEF StoredTyped, Typed, KeyInv
<1>2. CASE Collect
  <2>1. UNCHANGED task
    BY <1>2 DEF Collect, Outside, ListNodes, Repoint, HandBack, Close, ReadMeta,
       reconcile_nodes, TellNodes, reconcile_agents, check_key_expiry, KeepFlags,
       PruneKeys, reconcile_selfcheck
  <2> QED
    BY <1>2, <2>1, CollectTyped, CollectCycling, AskedAlone, TypedParts
       DEF StoredTyped, Typed
<1>3. CASE \/ \E k \in Key : Download(k) \/ RunScript(k)
           \/ \E i \in Id : NodeFlips(i) \/ KeyFlips(i) \/ AgentFlips(i)
           \/ HeadscaleFlips \/ Tick \/ Restart
  <2>1. \/ task' = Idle /\ cycle' = Idle
        \/ UNCHANGED <<task, cycle>>
    BY <1>3 DEF Download, RunScript, NodeFlips, KeyFlips, AgentFlips, Panel,
       HeadscaleFlips, Tick, Restart
  <2>2. StoredTyped'
    BY <1>3, WorldStepTyped
  <2>3. (task # Idle => Asked)' /\ Cycling'
    BY <2>1, TypedParts, AskedAlone, CyclingAlone, TaskOver DEF Cycling
  <2> QED
    BY <2>2, <2>3 DEF StoredTyped, Typed
<1>4. CASE UNCHANGED vars
  BY <1>4, TypedAlone DEF vars, headscale, notes, watch
<1> QED
  BY <1>1, <1>2, <1>3, <1>4 DEF Next

(* What is stored and remembered is of its type, no two nodes share a name *)
(* or a machine, and a node is down after so many observations and not     *)
(* later (alerts.py:329-335), for any number of machines and requests.     *)
THEOREM TypeOKHolds == Spec => []TypeOK
<1>1. Init => Typed
  BY TypedInit
<1>2. KeyInv /\ AlertInv /\ Typed /\ [Next]_vars => Typed'
  BY TypedStep DEF AlertInv
<1>3. Typed => TypeOK
  BY DEF Typed, TypeOK, ANode, AKey
<1> QED
  BY <1>1, <1>2, <1>3, AlertInit, AlertStep, KeyInit, KeyStep, PTL DEF Spec

(* --- one alert for one cause ------------------------------------------------ *)

Here(i) == nodes[i] # NoNode
OnList(i) == cycle # Idle /\ i \in Listed

(* A node that is gone does not come back under its id.                    *)
Gone(i) == ~ Here(i) /\ ~ OnList(i) /\ owner[i] # Nobody

(* A node that is not known to the cycle is new and nobody was told of it. *)
Known ==
    /\ restarts \in Nat /\ owner = [i \in Id |-> owner[i]]
    /\ \A i \in Id :
          /\ Here(i) \/ OnList(i) => owner[i] # Nobody
          /\ \/ owner[i] = Nobody
             \/ cycle # Idle /\ Here(i) /\ ~ OnList(i)
             => calls[i].down = 0 /\ calls[i].key = 0

(* What is done of the observation of the nodes.                           *)
Observed ==
    /\ cycle # Idle => DOMAIN cycle.raw = Id
    /\ In("tell") \/ In("agents") \/ In("keys") \/ In("flags") =>
          \A i \in Id : i \in Listed <=> status[i] # NoStatus

Offline(i) == status[i] # NoStatus /\ ~ status[i].online

DownOnce ==
    /\ \A i \in Id : calls[i].down <= 1
    /\ \A i \in Id : calls[i].down > 0 => Gone(i) \/ Offline(i)
    /\ In("tell") =>
          \A i \in cycle.tell : i \in Listed /\ calls[i].down = 0 /\ Offline(i)

AgentOnce ==
    \A i \in Id : calls[i].agent <= restarts + (IF i \in silent THEN 1 ELSE 0)

Flagged(i) == status[i].key_alerted \/ (In("flags") /\ i \in cycle.flags)

KeyOnce ==
    /\ \A i \in Id : calls[i].key <= restarts + 1
    /\ \A i \in Id : calls[i].key > restarts => Gone(i) \/ Flagged(i)
    /\ In("flags") =>
          /\ cycle.flags \subseteq Listed
          /\ \A i \in Listed \ cycle.flags :
                status[i].key_alerted => i \notin cycle.muted /\ ~ cycle.raw[i].expiring

OutageOnce ==
    outage.calls <= restarts + (IF self.up = "down" THEN 1 ELSE 0)

Once == Known /\ Observed /\ DownOnce /\ AgentOnce /\ KeyOnce /\ OutageOnce

LEMMA OnceInit == ASSUME Init, Typed PROVE Once
<1>1. /\ \A i \in Id : calls[i].down = 0 /\ calls[i].key = 0 /\ calls[i].agent = 0
      /\ restarts = 0 /\ cycle = Idle /\ outage.calls = 0
      /\ owner = [i \in Id |-> nodes[i].machine]
  BY DEF Init, NoCall
<1>2. \A i \in Id : Here(i) => nodes[i].machine # Nobody
  BY FleetAssumption DEF Typed, ANode, Node, Here
<1>3. Known
  BY <1>1, <1>2 DEF Known, OnList
<1>4. ~ In("tell") /\ ~ In("agents") /\ ~ In("keys") /\ ~ In("flags")
  BY <1>1 DEF In
<1> QED
  BY <1>1, <1>3, <1>4 DEF Once, Observed, DownOnce, AgentOnce, KeyOnce, OutageOnce

(* A step that tells nobody and at most takes nodes away.                  *)
LEMMA OnceAlone ==
    ASSUME Once, UNCHANGED <<calls, outage, status, silent, self, restarts, cycle, owner>>,
           \A i \in Id : Here(i)' => Here(i)
    PROVE  Once'
<1>1. /\ \A x : In(x)' = In(x)
      /\ Listed' = Listed /\ \A i : Offline(i)' = Offline(i)
      /\ \A i \in Id : OnList(i)' = OnList(i) /\ (Gone(i) => Gone(i)')
                       /\ Offline(i)' = Offline(i) /\ Flagged(i)' = Flagged(i)
  BY DEF In, Listed, Present, OnList, Gone, Offline, Flagged, Here
<1>2. Known'
  BY <1>1 DEF Once, Known
<1>3. Observed'
  BY <1>1 DEF Once, Observed
<1>4. DownOnce'
  BY <1>1 DEF Once, DownOnce
<1>5. AgentOnce' /\ OutageOnce'
  BY <1>1 DEF Once, AgentOnce, OutageOnce
<1>6. KeyOnce'
  BY <1>1 DEF Once, KeyOnce
<1> QED
  BY <1>2, <1>3, <1>4, <1>5, <1>6 DEF Once

(* A step of the collector that tells nobody and goes on, but not to where *)
(* somebody is about to be told.                                           *)
LEMMA OnceOnward ==
    ASSUME Once, Typed, CycleShape,
           UNCHANGED <<calls, outage, status, silent, self, restarts, nodes, owner>>,
           cycle # Idle, cycle' # Idle, cycle'.raw = cycle.raw,
           ~ In("flags"), ~ In("tell")', ~ In("agents")', ~ In("keys")', ~ In("flags")'
    PROVE  Once'
<1>1. /\ Listed' = Listed
      /\ \A i \in Id : OnList(i)' = OnList(i) /\ (Gone(i) => Gone(i)')
                       /\ Offline(i)' = Offline(i)
                       /\ Flagged(i)' = Flagged(i) /\ Here(i)' = Here(i)
  BY DEF In, Listed, Present, OnList, Gone, Offline, Flagged, Here
<1>2. Known' /\ Observed'
  BY <1>1 DEF Once, Known, Observed
<1>4. DownOnce'
  BY <1>1 DEF Once, DownOnce
<1>5. AgentOnce' /\ OutageOnce'
  BY <1>1 DEF Once, AgentOnce, OutageOnce
<1>6. KeyOnce'
  BY <1>1 DEF Once, KeyOnce
<1> QED
  BY <1>2, <1>4, <1>5, <1>6 DEF Once

LEMMA RequestsOnce ==
    ASSUME Once, Typed, KeyInv, StartTask \/ Work
    PROVE  Once'
<1> USE DEF Local, watch, rung, meant, headscale
<1>1. /\ UNCHANGED <<calls, outage, status, silent, self, restarts, cycle, owner>>
  <2>1. CASE \/ StartTask \/ FindNode \/ MakeKey \/ ReadNote \/ PutAside
             \/ DeleteOld \/ clear_node_meta \/ save_join_script
    BY <2>1 DEF StartTask, FindNode, MakeKey, ReadNote, PutAside, DeleteOld,
       clear_node_meta, save_join_script
  <2>2. CASE \/ LookForKey \/ LookForName \/ Rename \/ RemoveNode
             \/ forget_node_refs \/ set_node_meta
    BY <2>2 DEF LookForKey, LookForName, Rename, RemoveNode, forget_node_refs,
       set_node_meta
  <2> QED
    BY <2>1, <2>2 DEF Work
<1>2. nodes = [i \in Id |-> nodes[i]]
  BY DEF Typed
<1>3. \A i \in Id : Here(i)' => Here(i)
  <2>1. CASE DeleteOld
    BY <1>2, <2>1 DEF DeleteOld, Here
  <2>2. CASE RemoveNode
    BY <1>2, <2>2 DEF RemoveNode, Here
  <2>3. CASE Rename
    BY <1>2, <2>3 DEF Rename, Here
  <2>4. CASE \/ StartTask \/ FindNode \/ MakeKey \/ ReadNote \/ PutAside
             \/ clear_node_meta \/ save_join_script
             \/ LookForKey \/ LookForName
             \/ forget_node_refs \/ set_node_meta
    BY <2>4 DEF Here, StartTask, FindNode, MakeKey, ReadNote, PutAside,
       clear_node_meta, save_join_script, LookForKey, LookForName,
       forget_node_refs, set_node_meta
  <2> QED
    BY <2>1, <2>2, <2>3, <2>4 DEF Work
<1> QED
  BY <1>1, <1>3, OnceAlone

LEMMA OutsideOnce ==
    ASSUME Once, Typed, KeyInv,
           \/ \E k \in Key : Download(k) \/ RunScript(k)
           \/ \E i \in Id : NodeFlips(i) \/ KeyFlips(i) \/ AgentFlips(i)
           \/ HeadscaleFlips \/ Tick
    PROVE  Once'
<1> USE DEF Panel, watch, rung, meant, headscale
<1>0. nodes = [i \in Id |-> nodes[i]] /\ owner = [i \in Id |-> owner[i]]
  BY DEF Typed, Once, Known
<1>1. ASSUME NEW k \in Key, Download(k) PROVE Once'
  BY <1>1, OnceAlone DEF Download, Here
<1>2. ASSUME NEW i \in Id, NodeFlips(i) \/ KeyFlips(i) \/ AgentFlips(i) PROVE Once'
  <2>1. \A j \in Id : Here(j)' => Here(j)
    BY <1>0, <1>2 DEF NodeFlips, KeyFlips, AgentFlips, Here
  <2> QED
    BY <1>2, <2>1, OnceAlone DEF NodeFlips, KeyFlips, AgentFlips
<1>3. CASE HeadscaleFlips \/ Tick
  BY <1>3, OnceAlone DEF HeadscaleFlips, Tick, Here
<1>4. ASSUME NEW k \in Key, RunScript(k) PROVE Once'
  <2>0. UNCHANGED <<calls, outage, status, silent, self, restarts, cycle>>
    BY <1>4 DEF RunScript
  <2>1. ASSUME NEW i \in Present(nodes), nodes' = [nodes EXCEPT ![i].key = k],
               UNCHANGED owner
        PROVE  Once'
    <3>1. \A j \in Id : Here(j)' => Here(j)
      BY <1>0, <2>1 DEF Here, Present
    <3> QED
      BY <2>0, <2>1, <3>1, OnceAlone
  <2>2. ASSUME NEW i \in NewId, NEW n, nodes' = [nodes EXCEPT ![i] = n],
               NEW m, owner' = [owner EXCEPT ![i] = m], m # Nobody
        PROVE  Once'
    <3>1. i \in Id /\ owner[i] = Nobody
      BY DEF NewId, New
    <3>2. ~ Here(i) /\ ~ OnList(i) /\ calls[i].down = 0 /\ calls[i].key = 0
      BY <3>1 DEF Once, Known
    <3>3. /\ owner' = [j \in Id |-> owner'[j]] /\ owner'[i] # Nobody
          /\ \A j \in Id : j # i => owner'[j] = owner[j] /\ Here(j)' = Here(j)
      BY <1>0, <2>2, <3>1 DEF Here
    <3>4. /\ \A x : In(x)' = In(x)
          /\ Listed' = Listed /\ \A j : Offline(j)' = Offline(j)
          /\ \A j \in Id : OnList(j)' = OnList(j) /\ Flagged(j)' = Flagged(j)
          /\ \A j \in Id : j # i => (Gone(j) => Gone(j)')
      BY <2>0, <3>3 DEF In, Listed, Present, OnList, Gone, Offline, Flagged
    <3>5. ~ Gone(i)
      BY <3>1 DEF Gone
    <3>6. Known'
      BY <2>0, <3>2, <3>3, <3>4 DEF Once, Known
    <3>7. Observed' /\ DownOnce'
      BY <2>0, <3>4, <3>5 DEF Once, Observed, DownOnce
    <3>8. AgentOnce' /\ OutageOnce'
      BY <2>0 DEF Once, AgentOnce, OutageOnce
    <3>9. KeyOnce'
      BY <2>0, <3>4, <3>5 DEF Once, KeyOnce
    <3> QED
      BY <3>6, <3>7, <3>8, <3>9 DEF Once
  <2>3. keys[k].machine # Nobody
    <3>1. keys[k] \in KeyRec
      BY <1>4 DEF RunScript, KeyInv, Made, Typed, AKey
    <3> QED
      BY <3>1, FleetAssumption DEF KeyRec
  <2> QED
    BY <1>4, <2>1, <2>2, <2>3 DEF RunScript
<1> QED
  BY <1>1, <1>2, <1>3, <1>4

LEMMA QuietCycleOnce ==
    ASSUME Once, Typed, AlertInv,
           ListNodes \/ Repoint \/ HandBack \/ Close \/ ReadMeta \/ PruneKeys
    PROVE  Once'
<1> USE DEF Outside, watch, rung, meant, headscale
<1>0. CycleShape
  BY DEF AlertInv
<1>1. CASE ListNodes
  <2>1. /\ UNCHANGED <<calls, outage, status, silent, self, restarts, nodes, owner>>
        /\ cycle = Idle
        /\ cycle' # Idle /\ cycle'.raw = nodes
        /\ ~ In("tell")' /\ ~ In("agents")' /\ ~ In("keys")' /\ ~ In("flags")'
    BY <1>1, NextPlace DEF ListNodes, Idle, In
  <2>2. DOMAIN nodes = Id
    BY DEF Typed
  <2>3. \A i \in Id : /\ OnList(i)' <=> Here(i)
                      /\ Here(i)' = Here(i) /\ ~ OnList(i)
                      /\ Offline(i)' = Offline(i)
    BY <2>1, <2>2 DEF OnList, Listed, Present, Here, Offline
  <2>4. \A i \in Id : (Gone(i) => Gone(i)') /\ (Flagged(i) => Flagged(i)')
    BY <2>1, <2>3 DEF Gone, Flagged, In
  <2>5. Known' /\ Observed'
    BY <2>1, <2>2, <2>3 DEF Once, Known, Observed
  <2>6. DownOnce' /\ KeyOnce'
    BY <2>1, <2>3, <2>4 DEF Once, DownOnce, KeyOnce
  <2>7. AgentOnce' /\ OutageOnce'
    BY <2>1 DEF Once, AgentOnce, OutageOnce
  <2> QED
    BY <2>5, <2>6, <2>7 DEF Once
<1>2. CASE Repoint
  <2>1. /\ UNCHANGED <<calls, outage, status, silent, self, restarts, nodes, owner>>
        /\ cycle # Idle /\ cycle.pc = "claim"
        /\ cycle' = [cycle EXCEPT !.pc = next_step[IF Owed = {} THEN "close" ELSE @]]
    BY <1>2 DEF Repoint, In
  <2>2. /\ cycle' # Idle /\ cycle'.raw = cycle.raw
        /\ cycle'.pc \in {"meta", "hand"}
    BY <1>0, <2>1, NextPlace DEF CycleShape, Idle
  <2> QED
    BY <1>0, <2>1, <2>2, OnceOnward DEF In
<1>3. CASE HandBack \/ Close \/ PruneKeys
  <2>1. /\ UNCHANGED <<calls, outage, status, silent, self, restarts, nodes, owner>>
        /\ cycle # Idle /\ cycle.pc \in {"hand", "close", "prune"}
        /\ cycle' = [cycle EXCEPT !.pc = next_step[@]]
    BY <1>3 DEF HandBack, Close, PruneKeys, In, Onward
  <2>2. /\ cycle' # Idle /\ cycle'.raw = cycle.raw
        /\ cycle'.pc \in {"close", "meta", "self"}
    BY <1>0, <2>1, NextPlace DEF CycleShape, Idle
  <2> QED
    BY <1>0, <2>1, <2>2, OnceOnward DEF In
<1>4. CASE ReadMeta
  <2>1. /\ UNCHANGED <<calls, outage, status, silent, self, restarts, nodes, owner>>
        /\ cycle # Idle /\ cycle.pc = "meta"
        /\ cycle'.pc = "nodes" /\ cycle'.raw = cycle.raw
    BY <1>0, <1>4, NextPlace DEF ReadMeta, In, CycleShape
  <2>2. cycle' # Idle
    BY <2>1 DEF Idle
  <2> QED
    BY <1>0, <2>1, <2>2, OnceOnward DEF In
<1> QED
  BY <1>1, <1>2, <1>3, <1>4

LEMMA NodesOnce ==
    ASSUME Once, Typed, AlertInv, reconcile_nodes
    PROVE  Once'
<1>1. /\ UNCHANGED <<silent, self, outage, restarts, nodes, owner>>
      /\ cycle # Idle /\ cycle.pc = "nodes" /\ cycle' # Idle
      /\ cycle'.raw = cycle.raw /\ cycle'.pc = "tell"
      /\ cycle'.tell = {i \in Listed : seen(i).told = "down"}
      /\ cycle'.flags = cycle.flags
  BY NextPlace DEF reconcile_nodes, In, AlertInv, CycleShape, Outside, meant, headscale,
     Idle
<1>2. /\ calls \in [Id -> Calls]
      /\ \A i \in Id : calls'[i] = IF i \in Listed /\ cycle.raw[i].online
                                   THEN [calls[i] EXCEPT !.down = 0] ELSE calls[i]
      /\ \A i \in Id : status'[i] = IF i \in Listed THEN seen(i).status ELSE NoStatus
  <2>1. \A i \in Id : i \in Listed \ {j \in Listed : ~ cycle.raw[j].online}
                      <=> i \in Listed /\ cycle.raw[i].online
    OBVIOUS
  <2> QED
    BY <2>1 DEF reconcile_nodes, AlertInv, WatchTyped
<1>3. \A i \in Listed :
         /\ seen(i).status \in Status
         /\ seen(i).status.key_alerted = status[i].key_alerted
         /\ seen(i).told = "down" =>
               /\ ~ cycle.raw[i].online /\ status[i] # NoStatus /\ status[i].online
               /\ ~ seen(i).status.online
         /\ status[i] # NoStatus /\ ~ status[i].online /\ ~ cycle.raw[i].online =>
               ~ seen(i).status.online
  BY <1>1, ListedTyped, ObservedTyped DEF Typed, seen
<1>4. Listed \subseteq Id
  BY <1>1, ListedTyped
<1>5. \A s \in Status : s # NoStatus
  BY DEF Status, NoStatus
<1>6. /\ Listed' = Listed
      /\ \A i \in Id : /\ OnList(i)' = OnList(i) /\ (OnList(i) <=> i \in Listed)
                       /\ Here(i)' = Here(i) /\ (Gone(i) => Gone(i)')
  BY <1>1 DEF Listed, Present, OnList, Here, Gone
<1>7. \A i \in Id : /\ calls'[i].down = IF i \in Listed /\ cycle.raw[i].online
                                        THEN 0 ELSE calls[i].down
                    /\ calls'[i].agent = calls[i].agent
                    /\ calls'[i].key = calls[i].key
  BY <1>2 DEF Calls
<1>8. Known'
  BY <1>1, <1>6, <1>7 DEF Once, Known
<1>9. Observed'
  BY <1>1, <1>2, <1>3, <1>5, <1>6 DEF Once, Observed
<1>10. \A i \in Id : calls[i].down > 0 /\ ~ Gone(i) =>
                        i \in Listed /\ Offline(i)
  BY <1>1, <1>6 DEF Once, Known, DownOnce, Gone
<1>11. DownOnce'
  <2>1. ASSUME NEW i \in Id, calls'[i].down > 0
        PROVE  Gone(i)' \/ Offline(i)'
    <3>1. CASE Gone(i)
      BY <1>6, <3>1
    <3>2. CASE ~ Gone(i)
      <4>1. i \in Listed /\ ~ cycle.raw[i].online /\ Offline(i)
        BY <1>7, <1>10, <2>1, <3>2
      <4> QED
        BY <1>2, <1>3, <1>5, <4>1 DEF Offline
    <3> QED
      BY <3>1, <3>2
  <2>2. ASSUME NEW i \in Listed, seen(i).told = "down"
        PROVE  calls'[i].down = 0 /\ Offline(i)'
    <3>1. /\ i \in Id /\ ~ Offline(i) /\ ~ Gone(i)
          /\ Offline(i)'
      BY <1>2, <1>3, <1>4, <1>5, <1>6, <2>2 DEF Offline, Gone
    <3>2. ~ calls[i].down > 0 /\ calls[i].down \in Nat
      BY <1>2, <1>10, <3>1 DEF Calls
    <3> QED
      BY <1>7, <3>1, <3>2
  <2>3. \A i \in Id : calls'[i].down <= 1
    BY <1>7 DEF Once, DownOnce
  <2> QED
    BY <1>1, <1>6, <2>1, <2>2, <2>3 DEF DownOnce
<1>12. AgentOnce' /\ OutageOnce'
  BY <1>1, <1>7 DEF Once, AgentOnce, OutageOnce
<1>13. KeyOnce'
  <2>1. ~ In("flags") /\ ~ In("flags")'
    BY <1>1 DEF In
  <2>2. ASSUME NEW i \in Id, calls[i].key > restarts PROVE Gone(i)' \/ Flagged(i)'
    <3>1. Gone(i) \/ status[i].key_alerted
      BY <2>1, <2>2 DEF Once, KeyOnce, Flagged
    <3>2. CASE i \in Listed
      BY <1>2, <1>3, <1>6, <3>1, <3>2 DEF Flagged
    <3>3. CASE i \notin Listed
      <4>1. ~ OnList(i) /\ calls[i].key # 0
        BY <1>6, <2>2, <3>3 DEF Once, Known
      <4>2. Gone(i)
        BY <1>1, <4>1 DEF Once, Known, Gone
      <4> QED
        BY <1>6, <4>2
    <3> QED
      BY <3>2, <3>3
  <2> QED
    BY <1>1, <1>7, <2>1, <2>2 DEF Once, KeyOnce
<1> QED
  BY <1>8, <1>9, <1>11, <1>12, <1>13 DEF Once

(* The cycle goes on within itself: what is known of the nodes stays.      *)
LEMMA WithinCycle ==
    ASSUME Once, UNCHANGED <<restarts, nodes, owner, status>>,
           cycle # Idle, cycle' # Idle, cycle'.raw = cycle.raw,
           \A i \in Id : calls'[i].down \in {0, calls[i].down} \/ i \in Listed,
           \A i \in Id : calls'[i].key \in {0, calls[i].key} \/ i \in Listed,
           In("tell") \/ In("agents") \/ In("keys")
    PROVE  /\ Known' /\ Observed'
           /\ Listed' = Listed
           /\ \A i \in Id : /\ Gone(i)' = Gone(i) /\ (i \in Listed => ~ Gone(i))
           /\ \A i : Offline(i)' = Offline(i)
<1>1. /\ Listed' = Listed
      /\ \A i \in Id : /\ OnList(i)' = OnList(i) /\ (OnList(i) <=> i \in Listed)
                       /\ Here(i)' = Here(i) /\ Gone(i)' = Gone(i)
                       /\ (i \in Listed => ~ Gone(i))
      /\ \A i : Offline(i)' = Offline(i)
  BY DEF Listed, Present, OnList, Here, Gone, Offline
<1>2. Known'
  BY <1>1 DEF Once, Known
<1>3. Observed'
  BY <1>1 DEF Once, Observed
<1> QED
  BY <1>1, <1>2, <1>3

LEMMA TellOnce ==
    ASSUME Once, Typed, AlertInv, TellNodes
    PROVE  Once'
<1> DEFINE told == cycle.tell \ (cycle.muted \cup cycle.devices)
<1>1. /\ UNCHANGED <<status, silent, self, outage, restarts, nodes, owner>>
      /\ cycle # Idle /\ cycle.pc = "tell" /\ cycle' # Idle
      /\ cycle'.raw = cycle.raw /\ cycle'.pc = "agents"
  BY NextPlace DEF TellNodes, Onward, In, AlertInv, CycleShape, Outside, meant,
     headscale, watch, Idle
<1>2. /\ calls \in [Id -> Calls]
      /\ calls' = [i \in Id |-> IF i \in told THEN [calls[i] EXCEPT !.down = @ + 1]
                                ELSE calls[i]]
  BY DEF TellNodes, AlertInv, WatchTyped
<1>3. \A i \in told : i \in Listed /\ calls[i].down = 0 /\ Offline(i)
  BY <1>1 DEF Once, DownOnce, In
<1>4. \A i \in Id : /\ calls'[i].down = IF i \in told THEN calls[i].down + 1
                                        ELSE calls[i].down
                    /\ calls'[i].agent = calls[i].agent
                    /\ calls'[i].key = calls[i].key
  BY <1>2 DEF Calls
<1> HIDE DEF told
<1>5. /\ Known' /\ Observed' /\ Listed' = Listed
      /\ \A i \in Id : Gone(i)' = Gone(i) /\ (i \in Listed => ~ Gone(i))
      /\ \A i : Offline(i)' = Offline(i)
  BY <1>1, <1>3, <1>4, WithinCycle DEF In
<1>6. DownOnce'
  <2>1. \A i \in Id : calls'[i].down <= 1
    BY <1>3, <1>4 DEF Once, DownOnce
  <2>2. \A i \in Id : calls'[i].down > 0 => Gone(i)' \/ Offline(i)'
    BY <1>3, <1>4, <1>5 DEF Once, DownOnce
  <2> QED
    BY <1>1, <2>1, <2>2 DEF DownOnce, In
<1>7. AgentOnce' /\ OutageOnce'
  BY <1>1, <1>4 DEF Once, AgentOnce, OutageOnce
<1>8. KeyOnce'
  <2>1. \A i \in Id : Flagged(i)' = Flagged(i)
    BY <1>1 DEF Flagged, In
  <2> QED
    BY <1>1, <1>4, <1>5, <2>1 DEF Once, KeyOnce, In
<1> QED
  BY <1>5, <1>6, <1>7, <1>8 DEF Once

LEMMA AgentsOnce ==
    ASSUME Once, Typed, AlertInv, reconcile_agents
    PROVE  Once'
<1> DEFINE on(i) == i \in Listed /\ cycle.raw[i].online
           still(i) == agent_silent(agents[i], i \in cycle.muted, i \in Listed,
                                    on(i), i \in silent)
           ends(i) == \/ agents[i] = "never" \/ i \in cycle.muted \/ i \notin Listed
                      \/ agents[i] = "fresh" /\ cycle.raw[i].online
<1>1. /\ UNCHANGED <<status, self, outage, restarts, nodes, owner>>
      /\ cycle # Idle /\ cycle.pc = "agents" /\ cycle' # Idle
      /\ cycle'.raw = cycle.raw /\ cycle'.pc = "keys"
  BY NextPlace DEF reconcile_agents, Onward, In, AlertInv, CycleShape, Outside, meant,
     headscale, Idle
<1>2. /\ calls \in [Id -> Calls]
      /\ \A i \in Id : i \in silent' <=> still(i)
      /\ \A i \in Id : calls'[i] =
            [calls[i] EXCEPT !.agent = IF still(i) /\ i \notin silent THEN @ + 1
                                       ELSE IF ends(i) THEN 0 ELSE @]
  BY Zenon DEF reconcile_agents, AlertInv, WatchTyped
<1>3. \A i \in Id : /\ calls'[i].down = calls[i].down
                    /\ calls'[i].key = calls[i].key
                    /\ calls'[i].agent = IF still(i) /\ i \notin silent
                                         THEN calls[i].agent + 1
                                         ELSE IF ends(i) THEN 0 ELSE calls[i].agent
  <2> HIDE DEF still, ends
  <2> SUFFICES ASSUME NEW i \in Id
               PROVE  /\ calls'[i].down = calls[i].down
                      /\ calls'[i].key = calls[i].key
                      /\ calls'[i].agent = IF still(i) /\ i \notin silent
                                           THEN calls[i].agent + 1
                                           ELSE IF ends(i) THEN 0 ELSE calls[i].agent
    OBVIOUS
  <2>1. calls[i] \in Calls
    BY <1>2
  <2>2. /\ still(i) /\ i \notin silent =>
              calls'[i] = [calls[i] EXCEPT !.agent = calls[i].agent + 1]
        /\ ~ (still(i) /\ i \notin silent) /\ ends(i) =>
              calls'[i] = [calls[i] EXCEPT !.agent = 0]
        /\ ~ (still(i) /\ i \notin silent) /\ ~ ends(i) =>
              calls'[i] = [calls[i] EXCEPT !.agent = calls[i].agent]
    BY <1>2
  <2> QED
    BY <2>1, <2>2 DEF Calls
<1>4. \A i \in Id : i \in silent /\ ~ still(i) => ends(i)
  <2> SUFFICES ASSUME NEW i \in Id, i \in silent, ~ still(i) PROVE ends(i)
    OBVIOUS
  <2>1. agents[i] \in {"none", "never", "fresh", "stale"}
    BY DEF Typed, AgentState
  <2> QED
    BY <2>1 DEF agent_silent
<1> HIDE DEF still, ends
<1>5. /\ Known' /\ Observed' /\ Listed' = Listed
      /\ \A i \in Id : Gone(i)' = Gone(i) /\ (i \in Listed => ~ Gone(i))
      /\ \A i : Offline(i)' = Offline(i)
  BY <1>1, <1>3, WithinCycle DEF In
<1>6. DownOnce'
  BY <1>1, <1>3, <1>5 DEF Once, DownOnce, In
<1>7. AgentOnce'
  <2> SUFFICES ASSUME NEW i \in Id
               PROVE  calls'[i].agent <= restarts' + (IF i \in silent' THEN 1 ELSE 0)
    BY DEF AgentOnce
  <2>1. /\ calls[i].agent <= restarts + (IF i \in silent THEN 1 ELSE 0)
        /\ restarts \in Nat /\ calls[i].agent \in Nat
    BY <1>2 DEF Once, AgentOnce, Known, Calls
  <2> QED
    BY <1>1, <1>2, <1>3, <1>4, <2>1
<1>8. OutageOnce'
  BY <1>1 DEF Once, OutageOnce
<1>9. KeyOnce'
  <2>1. \A i \in Id : Flagged(i)' = Flagged(i)
    BY <1>1 DEF Flagged, In
  <2> QED
    BY <1>1, <1>3, <1>5, <2>1 DEF Once, KeyOnce, In
<1> QED
  BY <1>5, <1>6, <1>7, <1>8, <1>9 DEF Once

LEMMA ExpiryOnce ==
    ASSUME Once, Typed, AlertInv, check_key_expiry
    PROVE  Once'
<1> DEFINE flagged(i) == key_alerted(status[i], cycle.raw[i].expiring, i \in cycle.muted)
           first(i) == i \in Listed /\ flagged(i) /\ ~ status[i].key_alerted
<1>1. /\ UNCHANGED <<status, silent, self, outage, restarts, nodes, owner>>
      /\ cycle # Idle /\ cycle.pc = "keys" /\ cycle' # Idle
      /\ cycle'.raw = cycle.raw /\ cycle'.pc = "flags" /\ cycle'.muted = cycle.muted
      /\ cycle'.flags = {i \in Listed : flagged(i)}
  BY NextPlace DEF check_key_expiry, In, AlertInv, CycleShape, Outside, meant,
     headscale, watch, Idle
<1>2. /\ calls \in [Id -> Calls]
      /\ \A i \in Id : calls'[i] = [calls[i] EXCEPT !.key = IF first(i) THEN @ + 1 ELSE @]
  BY Zenon DEF check_key_expiry, AlertInv, WatchTyped
<1>3. \A i \in Id : /\ calls'[i].down = calls[i].down
                    /\ calls'[i].agent = calls[i].agent
                    /\ calls'[i].key = IF first(i) THEN calls[i].key + 1
                                       ELSE calls[i].key
                    /\ calls[i].key \in Nat
  <2> HIDE DEF first
  <2> SUFFICES ASSUME NEW i \in Id
               PROVE  /\ calls'[i].down = calls[i].down
                      /\ calls'[i].agent = calls[i].agent
                      /\ calls'[i].key = IF first(i) THEN calls[i].key + 1
                                         ELSE calls[i].key
                      /\ calls[i].key \in Nat
    OBVIOUS
  <2>1. calls[i] \in Calls
    BY <1>2
  <2>2. /\ first(i) => calls'[i] = [calls[i] EXCEPT !.key = calls[i].key + 1]
        /\ ~ first(i) => calls'[i] = [calls[i] EXCEPT !.key = calls[i].key]
    BY <1>2
  <2> QED
    BY <2>1, <2>2 DEF Calls
<1>4. ASSUME NEW i \in Listed, ~ flagged(i), status[i].key_alerted
      PROVE  i \notin cycle.muted /\ ~ cycle.raw[i].expiring
  <2>1. /\ i \in Id /\ cycle.raw[i].expiring \in BOOLEAN
        /\ status[i] \in Status \cup {NoStatus}
    BY <1>1, ListedTyped DEF Typed
  <2>2. (i \in cycle.muted) \in BOOLEAN
    OBVIOUS
  <2> QED
    BY <1>4, <2>1, <2>2 DEF key_alerted
<1> HIDE DEF flagged
<1>5. /\ Known' /\ Observed' /\ Listed' = Listed
      /\ \A i \in Id : Gone(i)' = Gone(i) /\ (i \in Listed => ~ Gone(i))
      /\ \A i : Offline(i)' = Offline(i)
  BY <1>1, <1>3, WithinCycle DEF In
<1>6. DownOnce'
  BY <1>1, <1>3, <1>5 DEF Once, DownOnce, In
<1>7. AgentOnce' /\ OutageOnce'
  BY <1>1, <1>3 DEF Once, AgentOnce, OutageOnce
<1>8. KeyOnce'
  <2>1. \A i \in Id : Flagged(i) <=> status[i].key_alerted
    BY <1>1 DEF Flagged, In
  <2>2. \A i \in Id : Flagged(i)' <=> status[i].key_alerted \/ (i \in Listed /\ flagged(i))
    BY <1>1 DEF Flagged, In
  <2>3. ASSUME NEW i \in Id
        PROVE  /\ calls'[i].key <= restarts + 1
               /\ calls'[i].key > restarts => Gone(i) \/ Flagged(i)'
    <3>1. /\ calls[i].key <= restarts + 1 /\ restarts \in Nat
          /\ calls[i].key > restarts => Gone(i) \/ Flagged(i)
      BY DEF Once, KeyOnce, Known
    <3>2. first(i) => ~ Gone(i) /\ ~ Flagged(i) /\ Flagged(i)'
      BY <1>5, <2>1, <2>2
    <3> HIDE DEF first
    <3> QED
      BY <1>3, <2>1, <2>2, <3>1, <3>2
  <2> QED
    BY <1>1, <1>4, <1>5, <2>3 DEF KeyOnce
<1> QED
  BY <1>5, <1>6, <1>7, <1>8 DEF Once

LEMMA FlagsOnce ==
    ASSUME Once, Typed, AlertInv, KeepFlags
    PROVE  Once'
<1>1. /\ UNCHANGED <<silent, self, outage, restarts, nodes, owner>>
      /\ cycle # Idle /\ cycle.pc = "flags" /\ cycle' # Idle
      /\ cycle'.raw = cycle.raw /\ cycle'.pc = "prune"
  BY NextPlace DEF KeepFlags, Onward, In, AlertInv, CycleShape, Outside, meant,
     headscale, Idle
<1>2. ASSUME NEW i \in Id
      PROVE  /\ calls'[i].down = calls[i].down
             /\ calls'[i].agent = calls[i].agent
             /\ calls'[i].key = IF /\ i \in Listed \ cycle.muted
                                   /\ ~ cycle.raw[i].expiring
                                THEN 0 ELSE calls[i].key
  <2>1. calls[i] \in Calls
    BY DEF AlertInv, WatchTyped
  <2>2. calls'[i] = IF i \in Listed \ cycle.muted /\ ~ cycle.raw[i].expiring
                    THEN [calls[i] EXCEPT !.key = 0] ELSE calls[i]
    BY DEF KeepFlags
  <2> QED
    BY <2>1, <2>2 DEF Calls
<1>3. ASSUME NEW i \in Id
      PROVE  IF status[i] = NoStatus THEN status'[i] = NoStatus
             ELSE /\ status'[i] # NoStatus
                  /\ status'[i].online = status[i].online
                  /\ status'[i].key_alerted = (i \in cycle.flags)
  <2>1. status[i] \in Status \cup {NoStatus}
    BY DEF Typed
  <2>2. status'[i] = IF status[i] = NoStatus THEN NoStatus
                     ELSE [status[i] EXCEPT !.key_alerted = i \in cycle.flags]
    BY DEF KeepFlags
  <2> QED
    BY <2>1, <2>2 DEF Status, NoStatus
<1>4. /\ Listed' = Listed /\ Listed \subseteq Id
      /\ \A i \in Id : /\ OnList(i)' = OnList(i) /\ (OnList(i) <=> i \in Listed)
                       /\ Here(i)' = Here(i) /\ Gone(i)' = Gone(i)
                       /\ Offline(i)' = Offline(i)
  BY <1>1, <1>3, ListedTyped DEF Listed, Present, OnList, Here, Gone, Offline
<1>5. restarts \in Nat /\ \A i \in Id : calls[i].key \in Nat
  BY DEF Once, Known, AlertInv, WatchTyped, Calls
<1>6. Known'
  BY <1>1, <1>2, <1>4 DEF Once, Known
<1>7. Observed' /\ DownOnce'
  BY <1>1, <1>2, <1>4 DEF Once, Observed, DownOnce, In
<1>8. AgentOnce' /\ OutageOnce'
  BY <1>1, <1>2 DEF Once, AgentOnce, OutageOnce
<1>9. KeyOnce'
  <2>1. ASSUME NEW i \in Id, calls'[i].key > restarts
        PROVE  Gone(i)' \/ status'[i].key_alerted
    <3>1. /\ calls'[i].key = calls[i].key /\ calls[i].key # 0
          /\ ~ (i \in Listed \ cycle.muted /\ ~ cycle.raw[i].expiring)
      BY <1>2, <1>5, <2>1
    <3>2. Gone(i) \/ status[i].key_alerted \/ i \in cycle.flags
      BY <2>1, <3>1 DEF Once, KeyOnce, Flagged
    <3>3. CASE i \in Listed
      <4>1. status[i] # NoStatus
        BY <1>1, <3>3 DEF Once, Observed, In
      <4>2. ~ Gone(i)
        BY <1>4, <3>3 DEF Gone
      <4>3. i \in cycle.flags
        BY <1>1, <3>1, <3>2, <3>3, <4>2 DEF Once, KeyOnce, In
      <4> QED
        BY <1>3, <4>1, <4>3
    <3>4. CASE i \notin Listed
      BY <1>1, <1>4, <3>1, <3>4 DEF Once, Known, Gone
    <3> QED
      BY <3>3, <3>4
  <2>2. \A i \in Id : calls'[i].key <= restarts + 1
    BY <1>2, <1>5 DEF Once, KeyOnce
  <2> QED
    BY <1>1, <2>1, <2>2 DEF KeyOnce, Flagged, In
<1> QED
  BY <1>6, <1>7, <1>8, <1>9 DEF Once

(* The cycle is over, or the panel starts anew.                            *)
LEMMA OverOnce ==
    ASSUME Once, UNCHANGED <<calls, status, nodes, owner>>, cycle' = Idle,
           (restarts' = restarts /\ ~ In("flags")) \/ restarts' = restarts + 1,
           \A i \in Id : calls[i].key \in Nat
    PROVE  Known' /\ Observed' /\ DownOnce' /\ KeyOnce'
<1>1. /\ \A x : ~ In(x)'
      /\ \A i \in Id : /\ ~ OnList(i)' /\ Here(i)' = Here(i)
                       /\ Offline(i)' = Offline(i)
  BY DEF In, OnList, Here, Offline
<1>2. \A i \in Id : Gone(i) => Gone(i)'
  BY <1>1 DEF Gone
<1>3. restarts \in Nat
  BY DEF Once, Known
<1>4. Known' /\ Observed'
  BY <1>1 DEF Once, Known, Observed
<1>5. DownOnce'
  BY <1>1, <1>2 DEF Once, DownOnce
<1>6. KeyOnce'
  <2>1. ASSUME NEW i \in Id, calls[i].key > restarts'
        PROVE  Gone(i)' \/ Flagged(i)'
    <3>1. calls[i].key <= restarts + 1 /\ calls[i].key > restarts /\ ~ In("flags")
      BY <1>3, <2>1 DEF Once, KeyOnce
    <3>2. Gone(i) \/ status[i].key_alerted
      BY <3>1 DEF Once, KeyOnce, Flagged
    <3> QED
      BY <1>2, <3>2 DEF Flagged
  <2>2. \A i \in Id : calls[i].key <= restarts' + 1
    BY <1>3 DEF Once, KeyOnce
  <2> QED
    BY <1>1, <2>1, <2>2 DEF KeyOnce
<1> QED
  BY <1>4, <1>5, <1>6

LEMMA SelfOnce ==
    ASSUME Once, Typed, AlertInv, reconcile_selfcheck
    PROVE  Once'
<1>1. /\ UNCHANGED <<calls, status, silent, restarts, nodes, owner>>
      /\ cycle' = Idle /\ ~ In("flags")
      /\ \A i \in Id : calls[i].key \in Nat
  BY DEF reconcile_selfcheck, Outside, meant, headscale, In, AlertInv, WatchTyped,
     Calls
<1>2. /\ restarts \in Nat /\ outage.calls \in Nat
      /\ outage.calls <= restarts + (IF self.up = "down" THEN 1 ELSE 0)
  BY DEF Once, Known, OutageOnce, AlertInv, WatchTyped
<1>3. /\ self' = checked(self, cycle.ok)
      /\ outage'.calls = IF cycle.ok THEN 0
                         ELSE IF self.up # "down" /\ self'.up = "down"
                         THEN outage.calls + 1 ELSE outage.calls
  BY DEF reconcile_selfcheck
<1>4. \/ cycle.ok /\ self'.up = "up"
      \/ ~ cycle.ok /\ self.up = "down" /\ self'.up = "down"
      \/ ~ cycle.ok /\ self.up # "down" /\ self'.up = self.up
      \/ ~ cycle.ok /\ self.up # "down" /\ self'.up = "down"
  <2>1. self \in [up : {"unknown", "up", "down"}, fails : Nat]
    BY DEF AlertInv, WatchTyped
  <2> QED
    BY <1>3, <2>1 DEF checked
<1>5. OutageOnce'
  BY <1>1, <1>2, <1>3, <1>4 DEF OutageOnce
<1>6. AgentOnce'
  BY <1>1 DEF Once, AgentOnce
<1> QED
  BY <1>1, <1>5, <1>6, OverOnce DEF Once

LEMMA RestartOnce ==
    ASSUME Once, Typed, AlertInv, Restart
    PROVE  Once'
<1>1. /\ UNCHANGED <<calls, outage, status, nodes, owner>>
      /\ cycle' = Idle /\ restarts' = restarts + 1
      /\ silent' = {} /\ self'.up = "unknown"
  BY DEF Restart, meant, headscale, rung
<1>2. /\ restarts \in Nat /\ outage.calls \in Nat
      /\ \A i \in Id : calls[i].agent \in Nat /\ calls[i].key \in Nat
  BY DEF Once, Known, AlertInv, WatchTyped, Calls
<1>3. AgentOnce' /\ OutageOnce'
  BY <1>1, <1>2 DEF Once, AgentOnce, OutageOnce
<1> QED
  BY <1>1, <1>2, <1>3, OverOnce DEF Once

LEMMA OnceStep ==
    ASSUME Once, Typed, AlertInv, KeyInv, [Next]_vars
    PROVE  Once'
<1>1. CASE StartTask \/ Work
  BY <1>1, RequestsOnce
<1>2. CASE Collect
  BY <1>2, QuietCycleOnce, NodesOnce, TellOnce, AgentsOnce, ExpiryOnce, FlagsOnce,
     SelfOnce DEF Collect
<1>3. CASE \/ \E k \in Key : Download(k) \/ RunScript(k)
           \/ \E i \in Id : NodeFlips(i) \/ KeyFlips(i) \/ AgentFlips(i)
           \/ HeadscaleFlips \/ Tick
  BY <1>3, OutsideOnce
<1>4. CASE Restart
  BY <1>4, RestartOnce
<1>5. CASE UNCHANGED vars
  BY <1>5, OnceAlone DEF vars, watch, rung, meant, headscale, Here
<1> QED
  BY <1>1, <1>2, <1>3, <1>4, <1>5 DEF Next

(* alerts.py:166-290, 317-335, collector.py:259-304: one outage            *)
(* of a node is told once, wherever the panel restarts; silence of an      *)
(* agent, a key running out and an outage of headscale once more at most   *)
(* for each restart, for any number of nodes and requests.                 *)
THEOREM OneAlertPerCauseHolds == Spec => []OneAlertPerCause
<1>1. Once /\ AlertInv => OneAlertPerCause
  <2> SUFFICES ASSUME Once, AlertInv PROVE OneAlertPerCause
    OBVIOUS
  <2>1. restarts \in Nat
    BY DEF Once, Known
  <2>2. \A i \in Id : calls[i].agent <= restarts + (IF i \in silent THEN 1 ELSE 0)
    BY DEF Once, AgentOnce
  <2>3. outage.calls <= restarts + (IF self.up = "down" THEN 1 ELSE 0)
    BY DEF Once, OutageOnce
  <2>4. \A i \in Id : calls[i].down <= 1 /\ calls[i].key <= restarts + 1
    BY DEF Once, DownOnce, KeyOnce
  <2>5. outage.calls \in Nat /\ \A i \in Id : calls[i].agent \in Nat
    BY DEF AlertInv, WatchTyped, Calls
  <2> QED
    BY <2>1, <2>2, <2>3, <2>4, <2>5 DEF OneAlertPerCause
<1>2. Init => Typed /\ Once
  BY TypedInit, OnceInit
<1>3. KeyInv /\ AlertInv /\ Typed /\ Once /\ [Next]_vars => Typed' /\ Once'
  BY TypedStep, OnceStep DEF AlertInv
<1> QED
  BY <1>1, <1>2, <1>3, AlertInit, AlertStep, KeyInit, KeyStep, PTL DEF Spec

(* --- notes ------------------------------------------------------------------ *)

Asking(op) == \E q \in world.requests : q.op = op

(* Machines and their names where nodes reconnect: as at the start.         *)
Pair(m, x) == \E j \in Id : /\ world.nodes[j] # NoNode
                            /\ world.nodes[j].machine = m /\ world.nodes[j].name = x

Waits(x) == pending[x] # NoStash
Of(x) == owner[pending[x].old]

Meant ==
    /\ owner = [i \in Id |-> owner[i]] /\ wish = [m \in Machine |-> wish[m]]
    /\ \A i \in Id : Here(i) => owner[i] = nodes[i].machine
    /\ \A i \in Id : owner[i] = Nobody => meta[i] = {}

Admitted ==
    /\ Careful(world)
    /\ task # Idle => task.req \in world.requests
    /\ ~ Asking("reconnect") => \A x \in Name : ~ Waits(x)

Named ==
    Asking("reconnect") =>
        /\ \A i \in Id : Here(i) => Pair(nodes[i].machine, nodes[i].name)
        /\ \A k \in Key : keys[k] # NoKey => Pair(keys[k].machine, keys[k].name)
        /\ \A x \in Name : Waits(x) => Pair(Of(x), x)

(* A machine has a flag by its note.                                        *)
Has(m, f) == \E i \in Id : Here(i) /\ owner[i] = m /\ f \in meta[i]

(* What is put aside is what the machine is to have, besides what has been  *)
(* set by hand meanwhile; its rules name the id it had, or already the one  *)
(* it has.                                                                  *)
Stashed ==
    \A x \in Name : Waits(x) =>
        /\ pending[x].note \subseteq wish[Of(x)]
        /\ \A f \in wish[Of(x)] : f \in pending[x].note \/ Has(Of(x), f)
        /\ Of(x) \in bound => \/ pending[x].old \in refs
                              \/ \E i \in refs : Here(i) /\ owner[i] = Of(x)

(* A machine that is here has nothing it is not to have, and everything     *)
(* unless its note waits.                                                   *)
Carried ==
    \A i \in Id : Here(i) =>
        /\ meta[i] \subseteq wish[owner[i]]
        /\ ~ Waiting(owner[i]) =>
              meta[i] = wish[owner[i]] /\ (owner[i] \in bound => i \in refs)

(* A machine that is away and nothing waits for is to have nothing.         *)
Absent ==
    \A m \in Machine : (\A i \in Id : Here(i) => owner[i] # m) /\ ~ Waiting(m) =>
        wish[m] = {} /\ m \notin bound

(* A reconnection before and after its note is put aside.                   *)
Found == \/ At("key") /\ task.req.op = "reconnect"
         \/ At("read") \/ At("stash")
Parted == At("delete") \/ At("clear")

Handing == {"claim", "hand", "close", "meta"}

OnWay ==
    /\ Found \/ Parted => /\ Pair(task.node.machine, task.node.name)
                          /\ owner[task.id] = task.node.machine
    /\ Found => Here(task.id) /\ nodes[task.id].name = task.node.name
    /\ At("stash") => ~ Waiting(task.node.machine) /\ task.note = meta[task.id]
    /\ Parted => /\ Waits(task.node.name) /\ pending[task.node.name].old = task.id
                 /\ cycle.pc \notin Handing
    /\ At("delete") => meta[task.id] \subseteq pending[task.node.name].note
    /\ At("clear") => ~ Here(task.id)
    /\ At("refs") /\ Here(task.req.id) =>
          wish[owner[task.req.id]] = {} /\ owner[task.req.id] \notin bound

(* What the cycle has listed is still there while it hands notes back.      *)
Standing(i) ==
    /\ Here(i) /\ nodes[i].machine = cycle.raw[i].machine
    /\ Asking("reconnect") => nodes[i].name = cycle.raw[i].name

OnRound ==
    /\ cycle.pc \in Handing /\ ~ Asking("delete") => \A i \in Listed : Standing(i)
    /\ In("hand") => \A i \in Owed : owner[i] \in bound => i \in refs
    /\ In("close") => \A i \in Owed : /\ owner[i] \in bound => i \in refs
                                      /\ meta[i] = wish[owner[i]]
    /\ In("meta") => \A i \in Listed : ~ Waiting(owner[i])

Ground == Typed /\ Once /\ CycleShape /\ Meant /\ Admitted /\ Named
Lost == Stashed /\ Carried /\ Absent

(* --- what the parts say ------------------------------------------------------ *)

LEMMA PairOne ==
    ASSUME world \in World, NEW m, NEW x, NEW n, NEW y, Pair(m, x), Pair(n, y)
    PROVE  /\ m = n <=> x = y
           /\ m \in Machine /\ x \in Name
<1>1. /\ world.nodes \in [Id -> {d \in Node : d.key = 0} \cup {NoNode}]
      /\ Apart(world.nodes)
  BY DEF World
<1>2. \A j \in Id : world.nodes[j] # NoNode =>
          world.nodes[j].machine \in Machine /\ world.nodes[j].name \in Name
  BY <1>1 DEF Node
<1> QED
  BY <1>1, <1>2 DEF Pair, Apart

LEMMA HereOne ==
    ASSUME Typed, Meant
    PROVE  /\ \A i \in Id : Here(i) => /\ owner[i] \in Machine /\ nodes[i].name \in Name
                                       /\ nodes[i] \in Node /\ owner[i] # Nobody
           /\ \A i, j \in Id : Here(i) /\ Here(j) /\ owner[i] = owner[j] => i = j
<1>1. \A i \in Id : Here(i) => nodes[i] \in Node
  BY DEF Typed, ANode, Here
<1>2. \A n \in Node : n.machine \in Machine /\ n.name \in Name
  BY DEF Node
<1>3. \A i \in Id : Here(i) => /\ owner[i] \in Machine /\ nodes[i].name \in Name
                               /\ nodes[i] \in Node /\ owner[i] # Nobody
  BY <1>1, <1>2, FleetAssumption DEF Meant
<1>4. \A i, j \in Id : Here(i) /\ Here(j) /\ owner[i] = owner[j] => i = j
  BY DEF Meant, Typed, Apart, Here
<1> QED
  BY <1>3, <1>4

(* Each note that waits is of one machine, under its name.                  *)
LEMMA WaitsOne ==
    ASSUME Typed, Admitted, Named, NEW x \in Name, Waits(x)
    PROVE  /\ Asking("reconnect") /\ ~ Asking("delete") /\ Pair(Of(x), x)
           /\ pending[x].old \in Id /\ Of(x) \in Machine /\ Of(x) # Nobody
           /\ Waiting(Of(x))
           /\ \A y \in Name : Waits(y) /\ Of(y) = Of(x) => y = x
<1>1. Asking("reconnect")
  BY DEF Admitted
<1>2. \A q \in world.requests : q.op \in {"reconnect", "note"}
  BY <1>1 DEF Admitted, Careful, Asking
<1>3. pending[x] \in Stash
  BY DEF Typed, Waits
<1>4. world \in World
  BY DEF Typed
<1>5. Pair(Of(x), x)
  BY <1>1 DEF Named
<1>6. \A y \in Name : Waits(y) /\ Of(y) = Of(x) => y = x
  BY <1>1, <1>4, <1>5, PairOne DEF Named
<1>7. Waiting(Of(x))
  BY DEF Waiting, Waits, Of
<1>8. Of(x) \in Machine /\ Of(x) # Nobody
  BY <1>4, <1>5, PairOne, FleetAssumption
<1>9. ~ Asking("delete")
  BY <1>2 DEF Asking
<1> QED
  BY <1>1, <1>3, <1>5, <1>6, <1>7, <1>8, <1>9 DEF Stash

LEMMA WaitingFor ==
    ASSUME NEW m, Waiting(m)
    PROVE  \E x \in Name : Waits(x) /\ Of(x) = m
BY DEF Waiting, Waits, Of

(* --- what every step leaves alone -------------------------------------------- *)

Stays == /\ world'.requests = world.requests /\ world'.nodes = world.nodes
         /\ world'.admits = world.admits /\ world'.notes = world.notes

LEMMA WorldStays == ASSUME Typed, [Next]_vars PROVE Stays
<1>1. \/ UNCHANGED world
      \/ world' = [world EXCEPT !.left = @ - 1]
      \/ world' = [world EXCEPT !.changes = @ - 1]
      \/ world' = [world EXCEPT !.ticks = @ - 1]
      \/ world' = [world EXCEPT !.faults = @ - 1]
  <2>1. CASE StartTask \/ Work
    BY <2>1 DEF StartTask, Work, Local, FindNode, MakeKey, ReadNote, PutAside,
       DeleteOld, clear_node_meta, save_join_script, LookForKey, LookForName,
       Rename, RemoveNode, forget_node_refs, set_node_meta
  <2>2. CASE Collect
    BY <2>2 DEF Collect, Outside, ListNodes, Repoint, HandBack, Close, ReadMeta,
       reconcile_nodes, TellNodes, reconcile_agents, check_key_expiry, KeepFlags,
       PruneKeys, reconcile_selfcheck
  <2>3. CASE \/ \E k \in Key : Download(k) \/ RunScript(k)
             \/ \E i \in Id : NodeFlips(i) \/ KeyFlips(i) \/ AgentFlips(i)
             \/ HeadscaleFlips \/ Tick \/ Restart \/ UNCHANGED vars
    BY <2>3 DEF Download, RunScript, NodeFlips, KeyFlips, AgentFlips, Spent,
       HeadscaleFlips, Tick, Restart, vars
  <2> QED
    BY <2>1, <2>2, <2>3 DEF Next
<1> QED
  BY <1>1 DEF Typed, World, Stays

LEMMA Staying ==
    ASSUME Stays
    PROVE  /\ \A m, x : Pair(m, x)' <=> Pair(m, x)
           /\ \A op : Asking(op)' <=> Asking(op)
           /\ Careful(world)' <=> Careful(world)
BY DEF Stays, Pair, Asking, Careful

(* --- notes and rules: the steps that do not touch them ------------------------ *)

LEMMA LostAlone ==
    ASSUME Lost, UNCHANGED <<owner, wish, bound, meta, pending, refs>>,
           \A i \in Id : Here(i)' <=> Here(i), refs \subseteq Id
    PROVE  Lost'
<1>1. /\ \A x \in Name : (Waits(x)' <=> Waits(x)) /\ Of(x)' = Of(x)
      /\ \A m : Waiting(m)' <=> Waiting(m)
  BY DEF Waits, Of, Waiting
<1>2. Stashed'
  BY <1>1 DEF Lost, Stashed, Has
<1>3. Carried'
  BY <1>1 DEF Lost, Carried
<1>4. Absent'
  BY <1>1 DEF Lost, Absent
<1> QED
  BY <1>2, <1>3, <1>4 DEF Lost

(* A machine comes under a new id.                                          *)
LEMMA ComingKeepsNotes ==
    ASSUME Ground, Lost, NEW i \in Id, owner[i] = Nobody,
           UNCHANGED <<wish, bound, meta, pending, refs>>,
           NEW m \in Machine, owner' = [owner EXCEPT ![i] = m],
           \A j \in Id : Here(j) => owner[j] # m,
           \A j \in Id : j # i => (Here(j)' <=> Here(j))
    PROVE  Lost'
<1> USE DEF Ground
<1>1. /\ owner'[i] = m /\ \A j \in Id : j # i => owner'[j] = owner[j]
      /\ ~ Here(i) /\ refs \subseteq Id
  BY FleetAssumption DEF Meant, Once, Known, Typed
<1>2. \A x \in Name : Waits(x) => pending[x].old # i
  BY WaitsOne DEF Of
<1>3. \A x \in Name : (Waits(x)' <=> Waits(x)) /\ (Waits(x) => Of(x)' = Of(x))
  BY <1>1, <1>2, WaitsOne DEF Waits, Of
<1>4. \A n \in Machine : Waiting(n)' <=> Waiting(n)
  BY <1>3 DEF Waiting, Waits, Of
<1>5. Stashed'
  <2>1. \A n, f : Has(n, f) => Has(n, f)'
    BY <1>1 DEF Has
  <2> QED
    BY <1>1, <1>3, <2>1 DEF Lost, Stashed
<1>6. Carried'
  <2>1. meta[i] = {} /\ (~ Waiting(m) => wish[m] = {} /\ m \notin bound)
    BY DEF Meant, Lost, Absent
  <2>2. \A j \in Id : Here(j) => owner[j] \in Machine
    BY HereOne
  <2> QED
    BY <1>1, <1>4, <2>1, <2>2 DEF Lost, Carried
<1>7. Absent'
  BY <1>1, <1>4 DEF Lost, Absent
<1> QED
  BY <1>5, <1>6, <1>7 DEF Lost

(* --- the reconnection ---------------------------------------------------------- *)

LEMMA Parting ==
    ASSUME Ground, Found \/ Parted, OnWay
    PROVE  /\ task # Idle /\ task.id \in Id /\ task.node \in Node
           /\ task.node.name \in Name /\ task.node.machine \in Machine
           /\ Asking("reconnect") /\ ~ Asking("delete")
           /\ owner[task.id] = task.node.machine
           /\ Pair(task.node.machine, task.node.name)
<1> USE DEF Ground
<1>1. task # Idle /\ task.req.op = "reconnect"
  BY DEF Found, Parted, At, Typed, Asked
<1>2. task.id \in Id /\ task.node \in Node
  BY <1>1 DEF Found, Parted, At, Typed, Asked
<1>3. task.req \in world.requests
  BY <1>1 DEF Admitted
<1>4. Asking("reconnect") /\ ~ Asking("delete")
  BY <1>1, <1>3 DEF Asking, Admitted, Careful
<1> QED
  BY <1>1, <1>2, <1>4 DEF OnWay, Node

LEMMA PuttingAside ==
    ASSUME Ground, Lost, OnWay, PutAside
    PROVE  /\ pending' = [pending EXCEPT ![task.node.name] =
                              [note |-> task.note, old |-> task.id]]
           /\ ~ Waits(task.node.name)
           /\ \A x \in Name : x # task.node.name =>
                  (Waits(x)' <=> Waits(x)) /\ (Waits(x) => Of(x)' = Of(x))
           /\ \A x \in Name : x = task.node.name =>
                  Waits(x)' /\ Of(x)' = task.node.machine
           /\ \A m : Waiting(m)' <=> Waiting(m) \/ m = task.node.machine
<1> USE DEF Ground
<1>0. PICK c \in Name : c = task.node.name
  BY Parting DEF PutAside, Found
<1>1. Found /\ At("stash")
  BY DEF PutAside, Found
<1>2. /\ task.id \in Id /\ c \in Name /\ owner[task.id] = task.node.machine
      /\ Pair(task.node.machine, c) /\ ~ Waiting(task.node.machine)
      /\ task.note \subseteq Flag /\ world \in World
  BY <1>0, <1>1, Parting DEF OnWay, Typed, Asked, At
<1>3. ~ Waits(c)
  BY <1>2, WaitsOne, PairOne
<1>4. /\ pending = [x \in Name |-> pending[x]] /\ UNCHANGED owner
      /\ pending' = [pending EXCEPT ![c] = [note |-> task.note, old |-> task.id]]
  BY <1>0 DEF PutAside, stash_node_meta, meant, Typed
<1>5. [note |-> task.note, old |-> task.id] # NoStash
  <2>1. [note |-> task.note, old |-> task.id].old \in Id
    BY <1>2
  <2>2. [note |-> task.note, old |-> task.id] \in Stash
    BY <1>2 DEF Stash
  <2>3. NoStash \notin Stash
    BY DEF NoStash, Stash
  <2> QED
    BY <2>2, <2>3
<1>6. /\ pending'[c] = [note |-> task.note, old |-> task.id]
      /\ \A x \in Name : x # c => pending'[x] = pending[x]
  BY <1>2, <1>4
<1>7. Waits(c)' /\ Of(c)' = task.node.machine
  BY <1>2, <1>4, <1>5, <1>6 DEF Waits, Of
<1>8. \A x \in Name : x # c => (Waits(x)' <=> Waits(x)) /\ (Waits(x) => Of(x)' = Of(x))
  BY <1>4, <1>6 DEF Waits, Of
<1>9. ASSUME NEW m PROVE Waiting(m)' <=> Waiting(m) \/ m = task.node.machine
  <2>1. Waiting(m) <=> \E x \in Name : Waits(x) /\ Of(x) = m
    BY DEF Waiting, Waits, Of
  <2>2. Waiting(m)' <=> \E x \in Name : Waits(x)' /\ Of(x)' = m
    BY DEF Waiting, Waits, Of
  <2> QED
    BY <1>2, <1>3, <1>7, <1>8, <2>1, <2>2
<1> QED
  BY <1>0, <1>3, <1>4, <1>7, <1>8, <1>9

LEMMA StashKeepsNotes ==
    ASSUME Ground, Lost, OnWay, PutAside
    PROVE  Lost'
<1> USE DEF Ground
<1>0. PICK c \in Name, m \in Machine : c = task.node.name /\ m = task.node.machine
  BY Parting DEF PutAside, Found
<1>1. /\ UNCHANGED <<owner, wish, bound, meta, refs, nodes>>
      /\ refs \subseteq Id /\ \A i \in Id : Here(i)' <=> Here(i)
  BY DEF PutAside, meant, headscale, Here, Typed
<1>2. /\ c \in Name /\ task.id \in Id /\ owner[task.id] = m /\ Here(task.id)
      /\ task.note = meta[task.id] /\ ~ Waiting(m)
  BY <1>0, Parting DEF PutAside, Found, OnWay
<1>3. /\ \A x \in Name : x # c => pending'[x] = pending[x]
      /\ pending'[c].note = task.note /\ pending'[c].old = task.id
  BY <1>0, <1>2, PuttingAside DEF Typed
<1>4. Stashed'
  <2>1. pending'[c].note = wish[m] /\ (m \in bound => task.id \in refs)
    BY <1>2, <1>3 DEF Lost, Carried
  <2>2. ASSUME NEW x \in Name, Waits(x)'
        PROVE  /\ pending'[x].note \subseteq wish[Of(x)']
               /\ \A f \in wish[Of(x)'] : f \in pending'[x].note \/ Has(Of(x)', f)
               /\ Of(x)' \in bound => \/ pending'[x].old \in refs
                                      \/ \E i \in refs : Here(i) /\ owner[i] = Of(x)'
    BY <1>0, <1>3, <2>1, <2>2, PuttingAside DEF Lost, Stashed
  <2>3. \A n, f : Has(n, f)' <=> Has(n, f)
    BY <1>1 DEF Has
  <2> QED
    BY <1>1, <2>2, <2>3 DEF Stashed
<1>5. Carried'
  BY <1>1, PuttingAside DEF Lost, Carried
<1>6. Absent'
  BY <1>1, PuttingAside DEF Lost, Absent
<1> QED
  BY <1>4, <1>5, <1>6 DEF Lost

LEMMA DeletingKeepsNotes ==
    ASSUME Ground, Lost, OnWay, DeleteOld
    PROVE  Lost'
<1> USE DEF Ground
<1>0. PICK c \in Name, o \in Id : c = task.node.name /\ o = task.id
  BY Parting DEF DeleteOld, Parted
<1>1. /\ UNCHANGED <<owner, wish, bound, meta, refs, pending>>
      /\ refs \subseteq Id /\ nodes = [i \in Id |-> nodes[i]]
  BY DEF DeleteOld, meant, notes, Typed
<1>2. /\ c \in Name /\ o \in Id /\ Waits(c) /\ pending[c].old = o
      /\ owner[o] = task.node.machine /\ Of(c) = owner[o]
      /\ meta[o] \subseteq pending[c].note
  BY <1>0, Parting DEF DeleteOld, Parted, OnWay, Of
<1>3. CASE UNCHANGED nodes
  BY <1>1, <1>3, LostAlone DEF Here
<1>4. CASE nodes' = [nodes EXCEPT ![o] = NoNode]
  <2>1. ~ Here(o)' /\ \A i \in Id : i # o => (Here(i)' <=> Here(i))
    BY <1>1, <1>2, <1>4 DEF Here
  <2>2. /\ \A x \in Name : (Waits(x)' <=> Waits(x)) /\ Of(x)' = Of(x)
        /\ \A n : Waiting(n)' <=> Waiting(n)
    BY <1>1 DEF Waits, Of, Waiting
  <2>3. Stashed'
    <3>1. \A x \in Name : Waits(x) /\ Of(x) = owner[o] => x = c
      BY <1>2, WaitsOne
    <3>2. ASSUME NEW x \in Name, Waits(x), NEW f, Has(Of(x), f)
          PROVE  f \in pending[x].note \/ Has(Of(x), f)'
      <4>1. PICK i \in Id : Here(i) /\ owner[i] = Of(x) /\ f \in meta[i]
        BY <3>2 DEF Has
      <4>2. CASE i = o
        BY <1>2, <3>1, <3>2, <4>1, <4>2
      <4>3. CASE i # o
        BY <1>1, <2>1, <2>2, <4>1, <4>3 DEF Has
      <4> QED
        BY <4>2, <4>3
    <3>3. \A x \in Name : Waits(x) /\ Of(x) \in bound =>
              \/ pending[x].old \in refs
              \/ \E i \in refs : Here(i)' /\ owner[i] = Of(x)
      BY <1>1, <1>2, <2>1, <2>2, <3>1 DEF Lost, Stashed
    <3>4. ASSUME NEW x \in Name, Waits(x)
          PROVE  /\ pending[x].note \subseteq wish[Of(x)]
                 /\ \A f \in wish[Of(x)] : f \in pending[x].note \/ Has(Of(x), f)'
      BY <3>2, <3>4 DEF Lost, Stashed
    <3> QED
      BY <1>1, <2>2, <3>3, <3>4 DEF Stashed
  <2>4. Carried'
    BY <1>1, <2>1, <2>2 DEF Lost, Carried
  <2>5. Absent'
    <3>1. Waiting(owner[o])
      BY <1>2, WaitsOne
    <3> QED
      BY <1>1, <2>1, <2>2, <3>1 DEF Lost, Absent
  <2> QED
    BY <2>3, <2>4, <2>5 DEF Lost
<1> QED
  BY <1>0, <1>3, <1>4 DEF DeleteOld

LEMMA ClearingKeepsNotes ==
    ASSUME Ground, Lost, OnWay, clear_node_meta
    PROVE  Lost'
<1> USE DEF Ground
<1>1. /\ UNCHANGED <<owner, wish, bound, refs, pending, nodes>>
      /\ task.id \in Id /\ ~ Here(task.id)
      /\ meta' = [meta EXCEPT ![task.id] = {}] /\ meta = [i \in Id |-> meta[i]]
  BY Parting DEF clear_node_meta, meant, headscale, Parted, OnWay, Typed
<1>2. \A i \in Id : (Here(i)' <=> Here(i)) /\ (Here(i) => meta'[i] = meta[i])
  BY <1>1 DEF Here
<1>3. /\ \A x \in Name : (Waits(x)' <=> Waits(x)) /\ Of(x)' = Of(x)
      /\ \A n : Waiting(n)' <=> Waiting(n)
  BY <1>1 DEF Waits, Of, Waiting
<1>4. Stashed'
  <2>1. \A n, f : Has(n, f)' <=> Has(n, f)
    BY <1>1, <1>2 DEF Has
  <2> QED
    BY <1>1, <1>2, <1>3, <2>1 DEF Lost, Stashed, Typed
<1>5. Carried'
  BY <1>1, <1>2, <1>3 DEF Lost, Carried
<1>6. Absent'
  BY <1>1, <1>2, <1>3 DEF Lost, Absent
<1> QED
  BY <1>4, <1>5, <1>6 DEF Lost

(* --- deletions and notes -------------------------------------------------------- *)

LEMMA DeletionAlone ==
    ASSUME Ground, task # Idle, task.req.op = "delete"
    PROVE  /\ \A x \in Name : ~ Waits(x)
           /\ \A m : ~ Waiting(m)
<1>1. Asking("delete")
  BY DEF Ground, Admitted, Asking
<1> QED
  BY <1>1, WaitsOne DEF Ground, Waiting, Waits

LEMMA RemovalKeepsNotes ==
    ASSUME Ground, Lost, RemoveNode
    PROVE  Lost'
<1> USE DEF Ground
<1>0. PICK o \in Id : o = task.req.id
  BY DEF RemoveNode, At, Typed, Asked
<1>1. /\ UNCHANGED <<owner, meta, refs, pending>>
      /\ refs \subseteq Id /\ nodes = [i \in Id |-> nodes[i]]
  BY DEF RemoveNode, notes, Typed
<1>2. \A x \in Name : ~ Waits(x)
  BY DeletionAlone DEF RemoveNode, At, Typed, Asked
<1>3. /\ \A x \in Name : ~ Waits(x)'
      /\ \A m : ~ Waiting(m) /\ ~ Waiting(m)'
  BY <1>1, <1>2 DEF Waits, Waiting
<1>4. CASE UNCHANGED <<nodes, wish, bound>>
  BY <1>1, <1>4, LostAlone DEF Here
<1>5. CASE /\ nodes' = [nodes EXCEPT ![o] = NoNode]
           /\ wish' = [m \in Machine |-> IF nodes[o].machine = m THEN {} ELSE wish[m]]
           /\ bound' = bound \ {nodes[o].machine}
  <2>1. ~ Here(o)' /\ \A i \in Id : i # o => (Here(i)' <=> Here(i))
    BY <1>1, <1>5 DEF Here
  <2>2. \A i \in Id : Here(i) => owner[i] \in Machine
    BY HereOne
  <2>3. \A i \in Id : Here(i) /\ i # o => owner[i] # nodes[o].machine
    <3>1. CASE Here(o)
      BY <3>1, HereOne DEF Meant
    <3>2. CASE ~ Here(o)
      BY <2>2, <3>2, FleetAssumption DEF Here, NoNode
    <3> QED
      BY <3>1, <3>2
  <2>4. Stashed'
    BY <1>3 DEF Stashed
  <2>5. Carried'
    BY <1>1, <1>3, <1>5, <2>1, <2>2, <2>3 DEF Lost, Carried
  <2>6. Absent'
    <3>1. ASSUME NEW m \in Machine, m # nodes[o].machine,
                 \A i \in Id : Here(i)' => owner'[i] # m
          PROVE  wish'[m] = {} /\ m \notin bound'
      <4>1. \A i \in Id : Here(i) => owner[i] # m
        BY <1>1, <2>1, <3>1 DEF Meant
      <4> QED
        BY <1>3, <1>5, <3>1, <4>1 DEF Lost, Absent
    <3>2. ASSUME NEW m \in Machine, m = nodes[o].machine
          PROVE  wish'[m] = {} /\ m \notin bound'
      BY <1>5, <3>2
    <3> QED
      BY <3>1, <3>2 DEF Absent
  <2> QED
    BY <2>4, <2>5, <2>6 DEF Lost
<1> QED
  BY <1>0, <1>4, <1>5 DEF RemoveNode

LEMMA ForgettingKeepsNotes ==
    ASSUME Ground, Lost, OnWay, forget_node_refs
    PROVE  Lost'
<1> USE DEF Ground
<1>0. PICK o \in Id : o = task.req.id
  BY DEF forget_node_refs, At, Typed, Asked
<1>1. /\ UNCHANGED <<owner, wish, bound, pending, nodes>>
      /\ meta' = [meta EXCEPT ![o] = {}] /\ refs' = refs \ {o}
      /\ meta = [i \in Id |-> meta[i]]
      /\ Here(o) => wish[owner[o]] = {} /\ owner[o] \notin bound
  BY <1>0 DEF forget_node_refs, meant, headscale, OnWay, Typed
<1>2. \A x \in Name : ~ Waits(x)
  BY DeletionAlone DEF forget_node_refs, At, Typed, Asked
<1>3. /\ \A x \in Name : ~ Waits(x)'
      /\ \A m : ~ Waiting(m) /\ ~ Waiting(m)'
      /\ \A i \in Id : Here(i)' <=> Here(i)
  BY <1>1, <1>2 DEF Waits, Waiting, Here
<1>4. Stashed'
  BY <1>3 DEF Stashed
<1>5. Carried'
  BY <1>1, <1>3 DEF Lost, Carried
<1>6. Absent'
  BY <1>1, <1>3 DEF Lost, Absent
<1> QED
  BY <1>4, <1>5, <1>6 DEF Lost

LEMMA NotingKeepsNotes ==
    ASSUME Ground, Lost, set_node_meta
    PROVE  Lost'
<1> USE DEF Ground
<1> DEFINE put(S) == IF task.req.on THEN S \cup {task.req.flag} ELSE S \ {task.req.flag}
<1>0. PICK o \in Id : o = task.req.id
  BY DEF set_node_meta, At, Typed, Asked
<1>1. /\ UNCHANGED <<owner, bound, pending, refs, nodes>> /\ refs \subseteq Id
      /\ \A i \in Id : Here(i)' <=> Here(i)
  BY DEF set_node_meta, headscale, Typed, Here
<1>2. CASE UNCHANGED <<meta, wish>>
  BY <1>1, <1>2, LostAlone
<1>3. CASE /\ Here(o)
           /\ meta' = [meta EXCEPT ![o] = put(@)]
           /\ wish' = [wish EXCEPT ![owner[o]] = put(@) \cup aside(owner[o])]
  <2>1. /\ owner[o] \in Machine /\ meta[o] \subseteq wish[owner[o]]
        /\ \A i \in Id : Here(i) /\ i # o => owner[i] # owner[o]
    BY <1>3, HereOne DEF Lost, Carried
  <2>2. /\ meta'[o] = put(meta[o])
        /\ wish'[owner[o]] = put(wish[owner[o]]) \cup aside(owner[o])
        /\ \A i \in Id : i # o => meta'[i] = meta[i]
        /\ \A m \in Machine : m # owner[o] => wish'[m] = wish[m]
    <3> HIDE DEF put
    <3> QED
      BY <1>3, <2>1 DEF Typed, Meant
  <2>3. /\ \A x \in Name : (Waits(x)' <=> Waits(x)) /\ Of(x)' = Of(x)
        /\ \A n : Waiting(n)' <=> Waiting(n)
    BY <1>1 DEF Waits, Of, Waiting
  <2>4. \A x \in Name : Waits(x) /\ Of(x) = owner[o] =>
            aside(owner[o]) = pending[x].note
    <3>1. ASSUME NEW x \in Name, Waits(x), Of(x) = owner[o]
          PROVE  {y \in Name : pending[y] # NoStash /\ owner[pending[y].old] = owner[o]}
                 = {x}
      BY <3>1, WaitsOne DEF Waits, Of
    <3> QED
      BY <3>1 DEF aside
  <2>5. \A S, T : S \subseteq T => put(S) \subseteq put(T)
    OBVIOUS
  <2>6. Stashed'
    <3>1. \A x \in Name : Waits(x) => Of(x) \in Machine
      BY WaitsOne
    <3>2. ASSUME NEW x \in Name, Waits(x), Of(x) = owner[o]
          PROVE  /\ pending[x].note \subseteq wish'[owner[o]]
                 /\ \A f \in wish'[owner[o]] : f \in pending[x].note \/ f \in meta'[o]
      <4>1. \A f \in wish[owner[o]] : f \in pending[x].note \/ f \in meta[o]
        BY <2>1, <3>2 DEF Lost, Stashed, Has
      <4>2. \A f \in put(wish[owner[o]]) : f \in pending[x].note \/ f \in put(meta[o])
        BY <4>1
      <4> HIDE DEF put
      <4> QED
        BY <2>2, <2>4, <3>2, <4>2
    <3>3. ASSUME NEW x \in Name, Waits(x), Of(x) = owner[o]
          PROVE  \A f \in wish'[owner[o]] : f \in pending[x].note \/ Has(owner[o], f)'
      BY <1>1, <1>3, <3>2, <3>3 DEF Has
    <3>4. \A n, f : n # owner[o] /\ Has(n, f) => Has(n, f)'
      BY <1>1, <2>2 DEF Has
    <3> HIDE DEF put
    <3> QED
      BY <1>1, <2>2, <2>3, <3>1, <3>2, <3>3, <3>4 DEF Lost, Stashed
  <2>7. Carried'
    <3>1. \A i \in Id : Here(i) => owner[i] \in Machine
      BY HereOne
    <3>2. meta'[o] \subseteq wish'[owner[o]]
      <4> HIDE DEF put
      <4> QED
        BY <2>1, <2>2, <2>5
    <3>3. ~ Waiting(owner[o]) => meta'[o] = wish'[owner[o]]
      <4>1. ~ Waiting(owner[o]) => aside(owner[o]) = {}
        BY DEF aside, Waiting
      <4>2. ~ Waiting(owner[o]) => meta[o] = wish[owner[o]]
        BY <1>3 DEF Lost, Carried
      <4> HIDE DEF put
      <4> QED
        BY <2>2, <4>1, <4>2
    <3> HIDE DEF put
    <3>4. ASSUME NEW i \in Id, Here(i)
          PROVE  /\ meta'[i] \subseteq wish'[owner[i]]
                 /\ ~ Waiting(owner[i]) => meta'[i] = wish'[owner[i]]
      <4>1. CASE i = o
        BY <4>1, <3>2, <3>3
      <4>2. CASE i # o
        <5>1. /\ meta'[i] = meta[i]
              /\ wish'[owner[i]] = wish[owner[i]]
          BY <2>1, <2>2, <3>1, <3>4, <4>2
        <5> QED
          BY <5>1, <3>4 DEF Lost, Carried
      <4> QED
        BY <4>1, <4>2
    <3> QED
      BY <1>1, <2>3, <3>4 DEF Lost, Carried
  <2>8. Absent'
    <3> HIDE DEF put
    <3> QED
      BY <1>1, <1>3, <2>1, <2>2, <2>3 DEF Lost, Absent
  <2> QED
    BY <2>6, <2>7, <2>8 DEF Lost
<1> QED
  BY <1>0, <1>2, <1>3 DEF set_node_meta, Here

(* --- the cycle hands notes back --------------------------------------------------- *)

(* A note that is owed is the note of the machine that is listed.           *)
LEMMA OwedOne ==
    ASSUME Ground, OnRound, cycle # Idle, cycle.pc \in Handing, NEW i \in Owed
    PROVE  /\ i \in Id /\ i \in Listed /\ Here(i)
           /\ cycle.raw[i].name \in Name /\ Waits(cycle.raw[i].name)
           /\ Of(cycle.raw[i].name) = owner[i] /\ Waiting(owner[i])
           /\ owed(i) = pending[cycle.raw[i].name]
<1> USE DEF Ground
<1>1. i \in Listed /\ i \in Id /\ cycle.raw[i].name \in Name
  BY ListedTyped DEF Owed
<1>2. Waits(cycle.raw[i].name)
  BY DEF Owed, Waits
<1>3. Asking("reconnect") /\ Standing(i)
  BY <1>1, <1>2, WaitsOne DEF OnRound
<1>4. Pair(Of(cycle.raw[i].name), cycle.raw[i].name) /\ Pair(owner[i], cycle.raw[i].name)
  BY <1>1, <1>2, <1>3, WaitsOne DEF Standing, Named, Meant
<1>5. Of(cycle.raw[i].name) = owner[i]
  BY <1>4, PairOne DEF Typed
<1>6. Waiting(owner[i])
  BY <1>1, <1>2, <1>5, WaitsOne
<1> QED
  BY <1>1, <1>2, <1>3, <1>5, <1>6 DEF Standing, owed

LEMMA ListedWait ==
    ASSUME Ground, OnRound, cycle # Idle, cycle.pc \in Handing, NEW i \in Listed,
           Waiting(owner[i])
    PROVE  i \in Owed
<1> USE DEF Ground
<1>1. PICK x \in Name : Waits(x) /\ Of(x) = owner[i]
  BY WaitingFor
<1>2. i \in Id /\ cycle.raw[i].name \in Name /\ Standing(i) /\ Asking("reconnect")
  BY <1>1, WaitsOne, ListedTyped DEF OnRound
<1>3. Pair(owner[i], cycle.raw[i].name) /\ Pair(owner[i], x)
  BY <1>1, <1>2, WaitsOne DEF Standing, Named, Meant
<1>4. cycle.raw[i].name = x
  BY <1>3, PairOne DEF Typed
<1> QED
  BY <1>1, <1>2, <1>4 DEF Owed, Waits

LEMMA RepointKeepsNotes ==
    ASSUME Ground, Lost, OnRound, Repoint
    PROVE  /\ Lost'
           /\ \A i \in Owed : owner[i] \in bound => i \in refs'
<1> USE DEF Ground
<1>1. /\ cycle # Idle /\ cycle.pc \in Handing
      /\ UNCHANGED <<nodes, owner, wish, bound, meta, pending>>
      /\ refs' = {r \in refs : \A i \in repointed : owed(i).old # r}
                 \cup {i \in repointed : owed(i).old \in refs}
  BY DEF Repoint, In, Handing, Outside, headscale, meant
<1>2. /\ \A i \in Id : Here(i)' <=> Here(i)
      /\ \A x \in Name : (Waits(x)' <=> Waits(x)) /\ Of(x)' = Of(x)
      /\ \A n : Waiting(n)' <=> Waiting(n)
  BY <1>1 DEF Here, Waits, Of, Waiting
<1>3. \A i \in repointed : /\ i \in Owed /\ owed(i).old # i /\ owner[owed(i).old] = owner[i]
                           /\ i \in Id /\ Here(i) /\ Waiting(owner[i])
  BY <1>1, OwedOne DEF repointed, Of
<1>4. \A r \in refs : Here(r) => r \in refs'
  <2> SUFFICES ASSUME NEW r \in refs, Here(r), NEW i \in repointed, owed(i).old = r
               PROVE  FALSE
    BY <1>1
  <2>1. r \in Id /\ owner[i] = owner[r]
    BY <1>3 DEF Typed
  <2> QED
    BY <1>3, <2>1, HereOne
<1>5. \A i \in Owed : owner[i] \in bound => i \in refs'
  <2> SUFFICES ASSUME NEW i \in Owed, owner[i] \in bound PROVE i \in refs'
    OBVIOUS
  <2>1. /\ i \in Id /\ Here(i)
        /\ owed(i).old \in refs \/ \E j \in refs : Here(j) /\ owner[j] = owner[i]
    BY <1>1, OwedOne DEF Lost, Stashed
  <2>2. ASSUME NEW j \in refs, Here(j), owner[j] = owner[i] PROVE i \in refs'
    BY <1>4, <2>1, <2>2, HereOne DEF Typed
  <2>3. CASE owed(i).old \in refs /\ owed(i).old = i
    BY <1>4, <2>1, <2>3
  <2>4. CASE owed(i).old \in refs /\ owed(i).old # i
    BY <1>1, <2>4 DEF repointed
  <2> QED
    BY <2>1, <2>2, <2>3, <2>4
<1>6. Stashed'
  <2> SUFFICES ASSUME NEW x \in Name, Waits(x), Of(x) \in bound
               PROVE  \/ pending[x].old \in refs'
                      \/ \E i \in refs' : Here(i) /\ owner[i] = Of(x)
    BY <1>1, <1>2 DEF Lost, Stashed, Here, Has
  <2>1. CASE \E i \in Owed : owner[i] = Of(x)
    BY <1>1, <1>5, <2>1, OwedOne
  <2>2. CASE ~ \E i \in Owed : owner[i] = Of(x)
    <3>1. CASE pending[x].old \in refs
      <4>1. \A i \in repointed : owed(i).old # pending[x].old
        BY <1>3, <2>2 DEF Of
      <4> QED
        BY <1>1, <3>1, <4>1
    <3>2. ASSUME NEW i \in refs, Here(i), owner[i] = Of(x)
          PROVE  \E j \in refs' : Here(j) /\ owner[j] = Of(x)
      BY <1>4, <3>2
    <3> QED
      BY <3>1, <3>2 DEF Lost, Stashed
  <2> QED
    BY <2>1, <2>2
<1>7. Carried'
  BY <1>1, <1>2, <1>4 DEF Lost, Carried
<1>8. Absent'
  BY <1>1, <1>2 DEF Lost, Absent
<1> QED
  BY <1>5, <1>6, <1>7, <1>8 DEF Lost

LEMMA HandBackKeepsNotes ==
    ASSUME Ground, Lost, OnRound, HandBack
    PROVE  Lost' /\ \A i \in Owed : meta'[i] = wish[owner[i]]
<1> USE DEF Ground
<1>1. /\ cycle # Idle /\ cycle.pc \in Handing
      /\ UNCHANGED <<nodes, owner, wish, bound, refs, pending>> /\ refs \subseteq Id
      /\ meta' = [i \in Id |-> IF i \in Owed THEN owed(i).note \cup meta[i]
                               ELSE meta[i]]
  BY DEF HandBack, In, Handing, Outside, headscale, meant, Typed
<1>2. /\ \A i \in Id : Here(i)' <=> Here(i)
      /\ \A x \in Name : (Waits(x)' <=> Waits(x)) /\ Of(x)' = Of(x)
      /\ \A n : Waiting(n)' <=> Waiting(n)
  BY <1>1 DEF Here, Waits, Of, Waiting
<1>3. ASSUME NEW i \in Owed PROVE i \in Id /\ meta'[i] = wish[owner[i]]
  <2>1. /\ Here(i) /\ i \in Id /\ owed(i).note \subseteq wish[owner[i]]
        /\ \A f \in wish[owner[i]] : f \in owed(i).note \/ Has(owner[i], f)
    BY <1>1, OwedOne DEF Lost, Stashed
  <2>2. meta[i] \subseteq wish[owner[i]]
    BY <2>1 DEF Lost, Carried
  <2>3. \A f : Has(owner[i], f) => f \in meta[i]
    BY <2>1, HereOne DEF Has
  <2> QED
    BY <1>1, <2>1, <2>2, <2>3
<1>4. \A i \in Id : i \notin Owed => meta'[i] = meta[i]
  BY <1>1
<1>5. Stashed'
  <2>1. \A n, f : Has(n, f) => Has(n, f)'
    BY <1>1, <1>2 DEF Has
  <2> QED
    BY <1>1, <1>2, <2>1 DEF Lost, Stashed
<1>6. Carried'
  BY <1>1, <1>2, <1>3, <1>4 DEF Lost, Carried
<1>7. Absent'
  BY <1>1, <1>2 DEF Lost, Absent
<1> QED
  BY <1>3, <1>5, <1>6, <1>7 DEF Lost

LEMMA CloseKeepsNotes ==
    ASSUME Ground, Lost, OnRound, Close
    PROVE  Lost' /\ \A i \in Listed : ~ Waiting(owner[i])'
<1> USE DEF Ground
<1>1. /\ cycle # Idle /\ In("close") /\ cycle.pc \in Handing
      /\ UNCHANGED <<nodes, owner, wish, bound, refs, meta>> /\ refs \subseteq Id
      /\ pending' = [x \in Name |-> IF \E i \in Owed : cycle.raw[i].name = x
                                    THEN NoStash ELSE pending[x]]
  BY DEF Close, In, Handing, Outside, headscale, meant, Typed
<1>2. /\ \A i \in Id : Here(i)' <=> Here(i)
      /\ \A x \in Name : Waits(x)' <=> Waits(x) /\ ~ \E i \in Owed : cycle.raw[i].name = x
      /\ \A x \in Name : Waits(x)' => pending'[x] = pending[x] /\ Of(x)' = Of(x)
  BY <1>1 DEF Here, Waits, Of
<1>3. ASSUME NEW m, Waiting(m), ~ Waiting(m)'
      PROVE  \E i \in Owed : owner[i] = m /\ Here(i) /\ i \in Id
  <2>1. PICK x \in Name : Waits(x) /\ Of(x) = m
    BY <1>3, WaitingFor
  <2>2. ~ Waits(x)'
    BY <1>2, <1>3, <2>1 DEF Waiting, Waits, Of
  <2>3. PICK i \in Owed : cycle.raw[i].name = x
    BY <1>2, <2>1, <2>2
  <2> QED
    BY <1>1, <2>1, <2>3, OwedOne
<1>4. \A m : Waiting(m)' => Waiting(m)
  BY <1>2 DEF Waiting, Waits, Of
<1>5. Stashed'
  <2>1. \A n, f : Has(n, f)' <=> Has(n, f)
    BY <1>1, <1>2 DEF Has
  <2> QED
    BY <1>1, <1>2, <2>1 DEF Lost, Stashed
<1>6. Carried'
  <2>1. ASSUME NEW i \in Id, Here(i), ~ Waiting(owner[i])', Waiting(owner[i])
        PROVE  meta[i] = wish[owner[i]] /\ (owner[i] \in bound => i \in refs)
    <3>1. PICK j \in Owed : owner[j] = owner[i] /\ Here(j) /\ j \in Id
      BY <1>1, <1>3, <2>1
    <3>2. j = i
      BY <2>1, <3>1, HereOne
    <3> QED
      BY <1>1, <3>1, <3>2 DEF OnRound
  <2> QED
    BY <1>1, <1>2, <2>1 DEF Lost, Carried
<1>7. Absent'
  BY <1>1, <1>2, <1>3 DEF Lost, Absent
<1>8. ASSUME NEW i \in Listed PROVE ~ Waiting(owner[i])'
  <2> SUFFICES ASSUME Waiting(owner[i])' PROVE FALSE
    OBVIOUS
  <2>1. PICK x \in Name : Waits(x)' /\ Of(x)' = owner[i]'
    BY DEF Waiting, Waits, Of
  <2>2. Waits(x) /\ Of(x) = owner[i] /\ ~ \E j \in Owed : cycle.raw[j].name = x
    BY <1>1, <1>2, <2>1
  <2>3. i \in Id /\ cycle.raw[i].name \in Name /\ Standing(i) /\ Asking("reconnect")
    BY <1>1, <2>2, WaitsOne, ListedTyped DEF OnRound
  <2>4. Pair(owner[i], cycle.raw[i].name) /\ Pair(owner[i], x)
    BY <2>2, <2>3, WaitsOne DEF Standing, Named, Meant
  <2>5. cycle.raw[i].name = x
    BY <2>4, PairOne DEF Typed
  <2> QED
    BY <2>2, <2>5 DEF Owed, Waits
<1> QED
  BY <1>5, <1>6, <1>7, <1>8 DEF Lost

(* --- nodes that come and go ---------------------------------------------------- *)

Steady == \A i \in Id :
    /\ Here(i)' <=> Here(i)
    /\ Here(i) => nodes'[i].machine = nodes[i].machine /\ nodes'[i].name = nodes[i].name

LEMMA FlipsSteady ==
    ASSUME Typed, NEW i \in Id, Here(i), NEW v,
           \/ nodes' = [nodes EXCEPT ![i].online = v]
           \/ nodes' = [nodes EXCEPT ![i].expiring = v]
           \/ nodes' = [nodes EXCEPT ![i].key = v]
    PROVE  Steady
<1>1. nodes = [j \in Id |-> nodes[j]] /\ nodes[i] \in Node
  BY DEF Typed, ANode, Here
<1>2. /\ nodes'[i].machine = nodes[i].machine /\ nodes'[i].name = nodes[i].name
      /\ nodes'[i].online = v \/ nodes'[i].online = nodes[i].online
      /\ \A j \in Id : j # i => nodes'[j] = nodes[j]
  BY <1>1 DEF Node
<1>3. nodes'[i] # NoNode
  <2>1. nodes[i].machine # Nobody
    BY <1>1, FleetAssumption DEF Node
  <2> QED
    BY <1>2, <2>1 DEF NoNode
<1> QED
  BY <1>2, <1>3 DEF Steady, Here

(* A script leaves a machine as it is, or brings it under a new id.         *)
Comes(k, i, y) ==
    /\ owner[i] = Nobody /\ ~ Here(i) /\ Here(i)'
    /\ \A j \in Id : j # i => nodes'[j] = nodes[j] /\ owner'[j] = owner[j]
    /\ owner' = [owner EXCEPT ![i] = keys[k].machine]
    /\ nodes'[i].machine = keys[k].machine /\ nodes'[i].name = y
    /\ \A j \in Id : Here(j) => nodes[j].machine # keys[k].machine
    /\ y = keys[k].name \/ \E j \in Id : Here(j) /\ nodes[j].name = keys[k].name

LEMMA Scripted ==
    ASSUME Typed, KeyInv, Once, NEW k \in Key, RunScript(k)
    PROVE  /\ keys[k] # NoKey /\ keys[k].machine \in Machine
           /\ \/ Steady /\ UNCHANGED owner
              \/ \E i \in Id, y \in Name : Comes(k, i, y)
<1>1. keys[k] # NoKey /\ keys[k].machine \in Machine /\ keys[k].machine # Nobody
  <2>1. keys[k] \in KeyRec /\ keys[k] # NoKey
    BY DEF RunScript, KeyInv, Made, Typed, AKey
  <2> QED
    BY <2>1, FleetAssumption DEF KeyRec
<1>2. nodes = [i \in Id |-> nodes[i]] /\ owner = [i \in Id |-> owner[i]]
  BY DEF Typed, Once, Known
<1>3. ASSUME NEW i \in Present(nodes), nodes' = [nodes EXCEPT ![i].key = k]
      PROVE  Steady
  <2>1. i \in Id /\ Here(i)
    BY <1>2 DEF Present, Here
  <2> QED
    BY <1>3, <2>1, FlipsSteady
<1>4. ASSUME NEW i \in NewId, NEW y \in Name, y = keys[k].name \/ Taken(keys[k].name),
             \A j \in Present(nodes) : nodes[j].machine # keys[k].machine,
             nodes' = [nodes EXCEPT ![i] =
                 [machine |-> keys[k].machine, name |-> y, online |-> TRUE,
                  expiring |-> FALSE, key |-> k]],
             owner' = [owner EXCEPT ![i] = keys[k].machine]
      PROVE  i \in Id /\ Comes(k, i, y)
  <2> DEFINE n == [machine |-> keys[k].machine, name |-> y, online |-> TRUE,
                   expiring |-> FALSE, key |-> k]
  <2>1. n.machine = keys[k].machine /\ n.name = y
    OBVIOUS
  <2>2. n # NoNode
    BY <1>1, <2>1 DEF NoNode
  <2> HIDE DEF n
  <2>3. i \in Id /\ owner[i] = Nobody
    BY DEF NewId, New
  <2>4. ~ Here(i)
    BY <2>3 DEF Once, Known
  <2>5. /\ nodes'[i] = n
        /\ \A j \in Id : j # i => nodes'[j] = nodes[j] /\ owner'[j] = owner[j]
    BY <1>2, <1>4, <2>3 DEF n
  <2>6. \A j \in Id : Here(j) => j \in Present(nodes)
    BY <1>2 DEF Here, Present
  <2>7. Taken(keys[k].name) => \E j \in Id : Here(j) /\ nodes[j].name = keys[k].name
    BY <1>2 DEF Taken, Here, Present
  <2>8. Here(i)'
    BY <2>2, <2>5 DEF Here
  <2>9. \A j \in Id : Here(j) => nodes[j].machine # keys[k].machine
    BY <1>4, <2>6
  <2> QED
    BY <1>4, <2>1, <2>3, <2>4, <2>5, <2>7, <2>8, <2>9 DEF Comes
<1> QED
  BY <1>1, <1>3, <1>4 DEF RunScript

LEMMA Renaming ==
    ASSUME Typed, Rename
    PROVE  /\ \A i \in Id : /\ Here(i)' <=> Here(i)
                            /\ Here(i) => nodes'[i].machine = nodes[i].machine
           /\ task # Idle /\ task.req.op \in {"status", "rename"}
<1>1. task # Idle /\ task.req.op \in {"status", "rename"} /\ task.id \in Id
  BY DEF Rename, At, Typed, Asked
<1>2. CASE UNCHANGED nodes
  BY <1>1, <1>2 DEF Here
<1>3. CASE /\ nodes[task.id] # NoNode
           /\ nodes' = [nodes EXCEPT ![task.id].name = task.req.name]
  <2>1. nodes = [j \in Id |-> nodes[j]] /\ nodes[task.id] \in Node
    BY <1>1, <1>3 DEF Typed, ANode
  <2>2. /\ nodes'[task.id].machine = nodes[task.id].machine
        /\ \A j \in Id : j # task.id => nodes'[j] = nodes[j]
    BY <1>1, <1>3, <2>1 DEF Node
  <2>3. nodes[task.id].machine # Nobody
    BY <2>1, FleetAssumption DEF Node
  <2>4. nodes'[task.id] # NoNode
    BY <2>2, <2>3 DEF NoNode
  <2> QED
    BY <1>1, <1>3, <2>2, <2>4 DEF Here
<1> QED
  BY <1>2, <1>3 DEF Rename

LEMMA LostStep ==
    ASSUME Ground, KeyInv, Lost, OnWay, OnRound, [Next]_vars
    PROVE  Lost'
<1> USE DEF Ground
<1>0. refs \subseteq Id
  BY DEF Typed
<1>1. CASE \/ StartTask \/ FindNode \/ MakeKey \/ ReadNote
           \/ save_join_script \/ LookForKey \/ LookForName
  <2>1. UNCHANGED <<nodes, owner, wish, bound, meta, pending, refs>>
    BY <1>1 DEF StartTask, FindNode, MakeKey, ReadNote, save_join_script,
       LookForKey, LookForName, meant, notes, headscale
  <2> QED
    BY <1>0, <2>1, LostAlone DEF Here
<1>2. CASE Rename
  <2>1. UNCHANGED <<owner, wish, bound, meta, pending, refs>>
    BY <1>2 DEF Rename, meant, notes
  <2> QED
    BY <1>0, <1>2, <2>1, Renaming, LostAlone
<1>3. CASE \/ PutAside \/ DeleteOld \/ clear_node_meta \/ RemoveNode
           \/ forget_node_refs \/ set_node_meta
  BY <1>3, StashKeepsNotes, DeletingKeepsNotes, ClearingKeepsNotes,
     RemovalKeepsNotes, ForgettingKeepsNotes, NotingKeepsNotes
<1>4. CASE Repoint \/ HandBack \/ Close
  BY <1>4, RepointKeepsNotes, HandBackKeepsNotes, CloseKeepsNotes
<1>5. CASE \/ ListNodes \/ ReadMeta \/ reconcile_nodes \/ TellNodes
           \/ reconcile_agents \/ check_key_expiry \/ KeepFlags \/ PruneKeys
           \/ reconcile_selfcheck
  <2>1. UNCHANGED <<nodes, owner, wish, bound, meta, pending, refs>>
    BY <1>5 DEF ListNodes, ReadMeta, reconcile_nodes, TellNodes, reconcile_agents,
       check_key_expiry, KeepFlags, PruneKeys, reconcile_selfcheck, Outside,
       meant, notes, headscale
  <2> QED
    BY <1>0, <2>1, LostAlone DEF Here
<1>6. ASSUME NEW k \in Key, Download(k) \/ RunScript(k) PROVE Lost'
  <2>1. UNCHANGED <<wish, bound, meta, pending, refs>>
    BY <1>6 DEF Download, RunScript, notes, meant
  <2>2. CASE UNCHANGED <<nodes, owner>> \/ (Steady /\ UNCHANGED owner)
    BY <1>0, <2>1, <2>2, LostAlone DEF Steady, Here
  <2>3. ASSUME NEW i \in Id, NEW y, Comes(k, i, y), keys[k].machine \in Machine
        PROVE  Lost'
    <3>1. PICK m \in Machine : m = keys[k].machine
      BY <2>3
    <3>2. \A j \in Id : Here(j) => owner[j] # m
      BY <2>3, <3>1 DEF Comes, Meant
    <3>3. \A j \in Id : j # i => (Here(j)' <=> Here(j))
      BY <2>3 DEF Comes, Here
    <3> QED
      BY <2>1, <2>3, <3>1, <3>2, <3>3, ComingKeepsNotes DEF Comes
  <2> QED
    BY <1>6, <2>2, <2>3, Scripted DEF Download, headscale, meant
<1>7. ASSUME NEW i \in Id, NodeFlips(i) \/ KeyFlips(i) PROVE Lost'
  <2>1. UNCHANGED <<owner, wish, bound, meta, pending, refs>> /\ Steady
    BY <1>7, FlipsSteady DEF NodeFlips, KeyFlips, Panel, notes, meant, Here
  <2> QED
    BY <1>0, <2>1, LostAlone DEF Steady
<1>8. CASE \/ \E i \in Id : AgentFlips(i)
           \/ HeadscaleFlips \/ Tick \/ Restart \/ UNCHANGED vars
  <2>1. UNCHANGED <<nodes, owner, wish, bound, meta, pending, refs>>
    BY <1>8 DEF AgentFlips, HeadscaleFlips, Tick, Restart, vars, Panel, notes,
       meant, headscale
  <2> QED
    BY <1>0, <2>1, LostAlone DEF Here
<1> QED
  BY <1>1, <1>2, <1>3, <1>4, <1>5, <1>6, <1>7, <1>8 DEF Next, Work, Collect

(* --- the ground: whose ids, which requests, which names ------------------------ *)

LEMMA MeantAlone ==
    ASSUME Meant, UNCHANGED <<owner, wish, meta>>,
           \A i \in Id : Here(i)' => Here(i) /\ nodes'[i].machine = nodes[i].machine
    PROVE  Meant'
BY DEF Meant

(* A step that changes notes only of machines that are here, or to nothing. *)
LEMMA MeantNoting ==
    ASSUME Meant, Typed, UNCHANGED <<owner, nodes>>,
           wish' = [m \in Machine |-> wish'[m]],
           \A i \in Id : meta'[i] = meta[i] \/ meta'[i] = {} \/ Here(i)
    PROVE  Meant'
<1>1. \A i \in Id : Here(i) => owner[i] # Nobody
  BY HereOne
<1> QED
  BY <1>1 DEF Meant, Here

LEMMA MeantStep ==
    ASSUME Ground, KeyInv, OnRound, [Next]_vars
    PROVE  Meant'
<1> USE DEF Ground
<1>1. CASE \/ StartTask \/ FindNode \/ MakeKey \/ ReadNote \/ PutAside
           \/ save_join_script \/ LookForKey \/ LookForName
  <2>1. UNCHANGED <<nodes, owner, wish, meta>>
    BY <1>1 DEF StartTask, FindNode, MakeKey, ReadNote, PutAside,
       save_join_script, LookForKey, LookForName, meant, notes, headscale
  <2> QED
    BY <2>1, MeantAlone DEF Here
<1>2. CASE Rename
  <2>1. UNCHANGED <<owner, wish, meta>>
    BY <1>2 DEF Rename, meant, notes
  <2> QED
    BY <1>2, <2>1, Renaming, MeantAlone
<1>3. CASE DeleteOld \/ RemoveNode
  <2>1. /\ UNCHANGED <<owner, meta>>
        /\ UNCHANGED nodes \/ \E i \in Id : nodes' = [nodes EXCEPT ![i] = NoNode]
    BY <1>3 DEF DeleteOld, RemoveNode, At, meant, notes, Typed, Asked
  <2>2. \A i \in Id : Here(i)' => Here(i) /\ nodes'[i].machine = nodes[i].machine
    BY <2>1 DEF Here, Typed
  <2>3. wish' = [m \in Machine |-> wish'[m]]
    BY <1>3 DEF DeleteOld, RemoveNode, meant, Meant
  <2> QED
    BY <2>1, <2>2, <2>3 DEF Meant
<1>4. CASE clear_node_meta \/ forget_node_refs
  <2>1. /\ UNCHANGED <<nodes, owner, wish>>
        /\ \E i \in Id : meta' = [meta EXCEPT ![i] = {}]
    BY <1>4 DEF clear_node_meta, forget_node_refs, At, headscale, meant, Typed, Asked
  <2>2. \A i \in Id : meta'[i] = meta[i] \/ meta'[i] = {}
    BY <2>1 DEF Typed
  <2> QED
    BY <2>1, <2>2, MeantNoting DEF Meant
<1>5. CASE set_node_meta
  <2>1. /\ UNCHANGED <<nodes, owner>> /\ task.req.id \in Id
        /\ \/ UNCHANGED <<meta, wish>>
           \/ /\ Here(task.req.id)
              /\ \E S : meta' = [meta EXCEPT ![task.req.id] = S]
              /\ \E S : wish' = [wish EXCEPT ![owner[task.req.id]] = S]
    BY <1>5 DEF set_node_meta, headscale, At, Typed, Asked, Here
  <2>2. /\ wish' = [m \in Machine |-> wish'[m]]
        /\ \A i \in Id : meta'[i] = meta[i] \/ Here(i)
    BY <2>1 DEF Typed, Meant
  <2> QED
    BY <2>1, <2>2, MeantNoting
<1>6. CASE HandBack
  <2>1. UNCHANGED <<nodes, owner, wish>> /\ cycle # Idle /\ cycle.pc \in Handing
    BY <1>6 DEF HandBack, Outside, headscale, meant, In, Handing
  <2>2. \A i \in Id : meta'[i] = meta[i] \/ Here(i)
    BY <1>6, <2>1, OwedOne DEF HandBack
  <2> QED
    BY <2>1, <2>2, MeantNoting DEF Meant
<1>7. CASE \/ ListNodes \/ Repoint \/ Close \/ ReadMeta \/ reconcile_nodes
           \/ TellNodes \/ reconcile_agents \/ check_key_expiry \/ KeepFlags
           \/ PruneKeys \/ reconcile_selfcheck
  <2>1. UNCHANGED <<nodes, owner, wish, meta>>
    BY <1>7 DEF ListNodes, Repoint, Close, ReadMeta, reconcile_nodes, TellNodes,
       reconcile_agents, check_key_expiry, KeepFlags, PruneKeys,
       reconcile_selfcheck, Outside, meant, notes, headscale
  <2> QED
    BY <2>1, MeantAlone DEF Here
<1>8. ASSUME NEW k \in Key, Download(k) \/ RunScript(k) PROVE Meant'
  <2>1. UNCHANGED <<wish, meta>>
    BY <1>8 DEF Download, RunScript, notes, meant
  <2>2. CASE UNCHANGED <<nodes, owner>> \/ (Steady /\ UNCHANGED owner)
    BY <2>1, <2>2, MeantAlone DEF Steady, Here
  <2>3. ASSUME NEW i \in Id, NEW y, Comes(k, i, y), keys[k].machine \in Machine
        PROVE  Meant'
    <3>1. keys[k].machine # Nobody
      BY <2>3, FleetAssumption
    <3>2. owner'[i] = keys[k].machine /\ owner' = [j \in Id |-> owner'[j]]
      BY <2>3 DEF Comes, Meant
    <3> QED
      BY <2>1, <2>3, <3>1, <3>2 DEF Meant, Comes, Here
  <2> QED
    BY <1>8, <2>2, <2>3, Scripted DEF Download, headscale, meant
<1>9. ASSUME NEW i \in Id, NodeFlips(i) \/ KeyFlips(i) PROVE Meant'
  <2>1. UNCHANGED <<owner, wish, meta>> /\ Steady
    BY <1>9, FlipsSteady DEF NodeFlips, KeyFlips, Panel, notes, meant, Here
  <2> QED
    BY <2>1, MeantAlone DEF Steady
<1>10. CASE \/ \E i \in Id : AgentFlips(i)
            \/ HeadscaleFlips \/ Tick \/ Restart \/ UNCHANGED vars
  <2>1. UNCHANGED <<nodes, owner, wish, meta>>
    BY <1>10 DEF AgentFlips, HeadscaleFlips, Tick, Restart, vars, Panel, notes,
       meant, headscale
  <2> QED
    BY <2>1, MeantAlone DEF Here
<1> QED
  BY <1>1, <1>2, <1>3, <1>4, <1>5, <1>6, <1>7, <1>8, <1>9, <1>10
     DEF Next, Work, Collect

LEMMA TaskGoes ==
    ASSUME Typed, KeyInv, [Next]_vars, task' # Idle
    PROVE  \/ task # Idle /\ task'.req = task.req
           \/ task'.req \in world.requests
<1>1. CASE StartTask
  BY <1>1 DEF StartTask
<1>2. CASE Work
  BY <1>2 DEF Work, FindNode, MakeKey, ReadNote, PutAside, DeleteOld,
     clear_node_meta, save_join_script, LookForKey, LookForName, Rename,
     RemoveNode, forget_node_refs, set_node_meta, At, Then, End, KeyInv, TaskShape
<1>3. CASE Collect
  BY <1>3 DEF Collect, Outside, ListNodes, Repoint, HandBack, Close, ReadMeta,
     reconcile_nodes, TellNodes, reconcile_agents, check_key_expiry, KeepFlags,
     PruneKeys, reconcile_selfcheck
<1>4. CASE \/ \E k \in Key : Download(k) \/ RunScript(k)
           \/ \E i \in Id : NodeFlips(i) \/ KeyFlips(i) \/ AgentFlips(i)
           \/ HeadscaleFlips \/ Tick \/ Restart \/ UNCHANGED vars
  BY <1>4 DEF Download, RunScript, NodeFlips, KeyFlips, AgentFlips, Panel,
     HeadscaleFlips, Tick, Restart, vars
<1> QED
  BY <1>1, <1>2, <1>3, <1>4 DEF Next

(* Notes are put aside by reconnections and otherwise only taken back.      *)
LEMMA PendingGoes ==
    ASSUME [Next]_vars
    PROVE  PutAside \/ Close \/ UNCHANGED pending
<1>1. CASE StartTask \/ Work
  BY <1>1 DEF StartTask, Work, FindNode, MakeKey, ReadNote, DeleteOld,
     clear_node_meta, save_join_script, LookForKey, LookForName, Rename,
     RemoveNode, forget_node_refs, set_node_meta, notes
<1>2. CASE Collect
  BY <1>2 DEF Collect, ListNodes, Repoint, HandBack, ReadMeta, reconcile_nodes,
     TellNodes, reconcile_agents, check_key_expiry, KeepFlags, PruneKeys,
     reconcile_selfcheck, notes
<1>3. CASE \/ \E k \in Key : Download(k) \/ RunScript(k)
           \/ \E i \in Id : NodeFlips(i) \/ KeyFlips(i) \/ AgentFlips(i)
           \/ HeadscaleFlips \/ Tick \/ Restart \/ UNCHANGED vars
  BY <1>3 DEF Download, RunScript, NodeFlips, KeyFlips, AgentFlips, Panel,
     HeadscaleFlips, Tick, Restart, vars, notes
<1> QED
  BY <1>1, <1>2, <1>3 DEF Next

LEMMA AdmittedStep ==
    ASSUME Ground, KeyInv, [Next]_vars
    PROVE  Admitted'
<1> USE DEF Ground
<1>1. Stays
  BY WorldStays
<1>2. Careful(world)'
  BY <1>1, Staying DEF Admitted
<1>3. task' # Idle => task'.req \in world'.requests
  BY <1>1, TaskGoes DEF Stays, Admitted
<1>4. ASSUME ~ Asking("reconnect") PROVE \A x \in Name : ~ Waits(x)'
  <2>1. \A x \in Name : ~ Waits(x)
    BY <1>4 DEF Admitted
  <2>2. CASE PutAside
    BY <1>4, <2>2 DEF PutAside, At, Typed, Asked, Admitted, Asking
  <2>3. CASE Close
    BY <2>1, <2>3 DEF Close, Waits
  <2>4. CASE UNCHANGED pending
    BY <2>1, <2>4 DEF Waits
  <2> QED
    BY <2>2, <2>3, <2>4, PendingGoes
<1>5. Asking("reconnect")' <=> Asking("reconnect")
  BY <1>1, Staying
<1> QED
  BY <1>2, <1>3, <1>4, <1>5 DEF Admitted

(* Keys that are used or pruned are still for their machine and name.       *)
KeysKeep == \A k \in Key : keys'[k] # NoKey =>
    /\ keys[k] # NoKey
    /\ keys'[k].machine = keys[k].machine /\ keys'[k].name = keys[k].name

LEMMA KeyMarked ==
    ASSUME NEW n \in KeyRec, NEW v
    PROVE  /\ [n EXCEPT !.used = v].machine = n.machine
           /\ [n EXCEPT !.used = v].name = n.name
           /\ [n EXCEPT !.gone = v].machine = n.machine
           /\ [n EXCEPT !.gone = v].name = n.name
BY DEF KeyRec

LEMMA KeysGo ==
    ASSUME Typed, KeyInv, [Next]_vars
    PROVE  MakeKey \/ KeysKeep
<1>0. keys = [k \in Key |-> keys[k]] /\ \A k \in Key : keys[k] # NoKey => keys[k] \in KeyRec
  BY DEF Typed, AKey
<1>1. ASSUME UNCHANGED keys PROVE KeysKeep
  BY <1>1 DEF KeysKeep
<1>2. CASE \/ StartTask \/ FindNode \/ ReadNote \/ PutAside \/ DeleteOld
           \/ clear_node_meta \/ save_join_script \/ LookForKey \/ LookForName
           \/ Rename \/ RemoveNode \/ forget_node_refs \/ set_node_meta
  BY <1>1, <1>2 DEF StartTask, FindNode, ReadNote, PutAside, DeleteOld,
     clear_node_meta, save_join_script, LookForKey, LookForName, Rename,
     RemoveNode, forget_node_refs, set_node_meta, headscale
<1>3. CASE \/ ListNodes \/ Repoint \/ HandBack \/ Close \/ ReadMeta
           \/ reconcile_nodes \/ TellNodes \/ reconcile_agents
           \/ check_key_expiry \/ KeepFlags \/ reconcile_selfcheck
  BY <1>1, <1>3 DEF ListNodes, Repoint, HandBack, Close, ReadMeta,
     reconcile_nodes, TellNodes, reconcile_agents, check_key_expiry, KeepFlags,
     reconcile_selfcheck, Outside, headscale
<1>4. CASE PruneKeys
  <2>1. CASE keys' = [k \in Key |-> IF k \in keys_to_prune
                                    THEN [keys[k] EXCEPT !.gone = TRUE] ELSE keys[k]]
    <3>1. \A k \in Key : k \in keys_to_prune => keys[k] # NoKey
      BY DEF keys_to_prune
    <3>2. ASSUME NEW k \in Key, k \in keys_to_prune
          PROVE  /\ keys[k] # NoKey
                 /\ keys'[k].machine = keys[k].machine /\ keys'[k].name = keys[k].name
      <4>1. keys[k] \in KeyRec /\ keys'[k] = [keys[k] EXCEPT !.gone = TRUE]
        BY <1>0, <2>1, <3>1, <3>2
      <4> QED
        BY <3>1, <3>2, <4>1, KeyMarked
    <3>3. \A k \in Key : k \notin keys_to_prune => keys'[k] = keys[k]
      BY <2>1
    <3> QED
      BY <3>2, <3>3 DEF KeysKeep
  <2> QED
    BY <1>1, <1>4, <2>1 DEF PruneKeys
<1>5. ASSUME NEW k \in Key, Download(k) \/ RunScript(k) PROVE KeysKeep
  <2>1. CASE RunScript(k)
    <3>1. keys[k] # NoKey /\ keys[k] \in KeyRec
      BY <1>0, <2>1 DEF RunScript, KeyInv, Made
    <3>2. keys'[k] = [keys[k] EXCEPT !.used = TRUE]
          /\ \A j \in Key : j # k => keys'[j] = keys[j]
      BY <1>0, <2>1 DEF RunScript
    <3>3. keys'[k].machine = keys[k].machine /\ keys'[k].name = keys[k].name
      BY <3>1, <3>2, KeyMarked
    <3> QED
      BY <3>1, <3>2, <3>3 DEF KeysKeep
  <2> QED
    BY <1>1, <1>5, <2>1 DEF Download, headscale
<1>6. CASE \/ \E i \in Id : NodeFlips(i) \/ KeyFlips(i) \/ AgentFlips(i)
           \/ HeadscaleFlips \/ Tick \/ Restart \/ UNCHANGED vars
  BY <1>1, <1>6 DEF NodeFlips, KeyFlips, AgentFlips, Panel, HeadscaleFlips,
     Tick, Restart, vars, headscale
<1> QED
  BY <1>2, <1>3, <1>4, <1>5, <1>6 DEF Next, Work, Collect

(* The steps that add or take away nodes; the others leave them.            *)
LEMMA NodesGo ==
    ASSUME Typed, KeyInv, Once, [Next]_vars
    PROVE  \/ Steady /\ UNCHANGED owner
           \/ Rename \/ DeleteOld \/ RemoveNode
           \/ \E k \in Key : RunScript(k) /\ \E i \in Id, y \in Name : Comes(k, i, y)
<1>1. ASSUME UNCHANGED nodes PROVE Steady
  BY <1>1 DEF Steady, Here
<1>2. CASE \/ StartTask \/ FindNode \/ MakeKey \/ ReadNote \/ PutAside
           \/ clear_node_meta \/ save_join_script \/ LookForKey \/ LookForName
           \/ forget_node_refs \/ set_node_meta
  BY <1>1, <1>2 DEF StartTask, FindNode, MakeKey, ReadNote, PutAside,
     clear_node_meta, save_join_script, LookForKey, LookForName,
     forget_node_refs, set_node_meta, headscale, meant
<1>3. CASE Collect
  BY <1>1, <1>3 DEF Collect, ListNodes, Repoint, HandBack, Close, ReadMeta,
     reconcile_nodes, TellNodes, reconcile_agents, check_key_expiry, KeepFlags,
     PruneKeys, reconcile_selfcheck, Outside, headscale, meant
<1>4. ASSUME NEW i \in Id, NodeFlips(i) \/ KeyFlips(i)
      PROVE  Steady /\ UNCHANGED owner
  BY <1>4, FlipsSteady DEF NodeFlips, KeyFlips, Panel, meant, Here
<1>5. CASE \/ \E k \in Key : Download(k)
           \/ \E i \in Id : AgentFlips(i)
           \/ HeadscaleFlips \/ Tick \/ Restart \/ UNCHANGED vars
  BY <1>1, <1>5 DEF Download, AgentFlips, Panel, HeadscaleFlips, Tick, Restart,
     vars, headscale, meant
<1>6. ASSUME NEW k \in Key, RunScript(k)
      PROVE  \/ Steady /\ UNCHANGED owner
             \/ \E i \in Id, y \in Name : Comes(k, i, y)
  BY <1>6, Scripted
<1> QED
  BY <1>2, <1>3, <1>4, <1>5, <1>6 DEF Next, Work

LEMMA Reconnecting ==
    ASSUME Admitted, Asking("reconnect")
    PROVE  /\ ~ Asking("delete")
           /\ task # Idle => task.req.op \in {"reconnect", "note"}
BY DEF Admitted, Careful, Asking

LEMMA NamedStep ==
    ASSUME Ground, KeyInv, Lost, OnWay, [Next]_vars
    PROVE  Named'
<1> USE DEF Ground
<1>1. /\ \A m, x : Pair(m, x)' <=> Pair(m, x)
      /\ Asking("reconnect")' <=> Asking("reconnect")
  BY WorldStays, Staying
<1> SUFFICES ASSUME Asking("reconnect") PROVE Named'
  BY <1>1 DEF Named
<1>2. ~ Asking("delete") /\ ~ Rename /\ ~ RemoveNode
  BY Reconnecting, Renaming DEF RemoveNode, At, Typed, Asked
<1>3. world \in World
  BY DEF Typed
<1>4. ASSUME NEW k \in Key, NEW i \in Id, NEW y \in Name, Comes(k, i, y), RunScript(k)
      PROVE  Pair(keys[k].machine, y)
  <2>1. Pair(keys[k].machine, keys[k].name)
    BY <1>4, Scripted DEF Named
  <2>2. ASSUME NEW j \in Id, Here(j), nodes[j].name = keys[k].name PROVE FALSE
    BY <1>3, <1>4, <2>1, <2>2, PairOne DEF Named, Comes
  <2> QED
    BY <1>4, <2>1, <2>2 DEF Comes
<1>5. ASSUME NEW i \in Id, Here(i)' PROVE Pair(nodes'[i].machine, nodes'[i].name)
  <2>1. CASE Steady
    BY <1>5, <2>1 DEF Steady, Named
  <2>2. CASE DeleteOld
    <3>1. \/ UNCHANGED nodes
          \/ task.id \in Id /\ nodes' = [nodes EXCEPT ![task.id] = NoNode]
      BY <2>2 DEF DeleteOld, At, Typed, Asked
    <3>2. nodes'[i] = nodes[i]
      BY <1>5, <3>1 DEF Here, Typed
    <3> QED
      BY <1>5, <3>2 DEF Here, Named
  <2>3. ASSUME NEW k \in Key, NEW j \in Id, NEW y \in Name, Comes(k, j, y), RunScript(k)
        PROVE  Pair(nodes'[i].machine, nodes'[i].name)
    <3>1. CASE i = j
      BY <1>4, <2>3, <3>1 DEF Comes
    <3>2. CASE i # j
      BY <1>5, <2>3, <3>2 DEF Comes, Here, Named
    <3> QED
      BY <3>1, <3>2
  <2> QED
    BY <1>2, <2>1, <2>2, <2>3, NodesGo
<1>6. ASSUME NEW k \in Key, keys'[k] # NoKey
      PROVE  Pair(keys'[k].machine, keys'[k].name)
  <2>1. CASE KeysKeep
    BY <1>6, <2>1 DEF KeysKeep, Named
  <2>2. CASE MakeKey
    <3>1. Found /\ task.req.op = "reconnect"
      BY <2>2, Reconnecting DEF MakeKey, At, Typed, Asked, Found
    <3>2. Pair(task.node.machine, task.node.name)
      BY <3>1, Parting
    <3>3. \/ UNCHANGED keys
          \/ \E j \in Key : keys' = [keys EXCEPT ![j] =
                [at |-> now, machine |-> task.node.machine, name |-> task.node.name,
                 used |-> FALSE, gone |-> FALSE]]
      BY <2>2, <3>1 DEF MakeKey, NewKey, New
    <3>4. \/ keys'[k] = keys[k]
          \/ /\ keys'[k].machine = task.node.machine
             /\ keys'[k].name = task.node.name
      <4> DEFINE r == [at |-> now, machine |-> task.node.machine,
                       name |-> task.node.name, used |-> FALSE, gone |-> FALSE]
      <4>1. r.machine = task.node.machine /\ r.name = task.node.name
        OBVIOUS
      <4>2. UNCHANGED keys \/ \E j \in Key : keys' = [keys EXCEPT ![j] = r]
        BY <3>3
      <4> HIDE DEF r
      <4> QED
        BY <4>1, <4>2 DEF Typed
    <3> QED
      BY <1>6, <3>2, <3>4 DEF Named
  <2> QED
    BY <2>1, <2>2, KeysGo
<1>7. ASSUME NEW x \in Name, Waits(x)' PROVE Pair(Of(x)', x)
  <2>1. CASE PutAside
    <3>1. PICK c \in Name, m \in Machine : c = task.node.name /\ m = task.node.machine
      BY <2>1, Parting DEF PutAside, Found
    <3>2. Pair(m, c)
      BY <2>1, <3>1, Parting DEF PutAside, Found
    <3> QED
      BY <1>7, <2>1, <3>1, <3>2, PuttingAside DEF Named
  <2>2. CASE ~ PutAside
    <3>1. Waits(x) /\ pending'[x] = pending[x]
      BY <1>7, <2>2, PendingGoes DEF Close, Waits
    <3>2. pending[x].old \in Id /\ owner[pending[x].old] # Nobody
      BY <3>1, WaitsOne DEF Of
    <3>3. owner'[pending[x].old] = owner[pending[x].old]
      BY <1>2, <3>2, NodesGo DEF Comes, DeleteOld, meant
    <3> QED
      BY <3>1, <3>3 DEF Of, Named
  <2> QED
    BY <2>1, <2>2
<1> QED
  BY <1>1, <1>5, <1>6, <1>7 DEF Named

(* --- a reconnection on its way --------------------------------------------------- *)

LEMMA OffWay ==
    ASSUME \/ task' = Idle
           \/ /\ task'.pc \notin {"read", "stash", "delete", "clear", "refs"}
              /\ task'.pc = "key" => task'.req.op # "reconnect"
    PROVE  OnWay'
BY DEF OnWay, Found, Parted, At

LEMMA RequestsOnWay ==
    ASSUME Ground, KeyInv, Lost, OnWay, StartTask \/ Work
    PROVE  OnWay'
<1> USE DEF Ground
<1>0. /\ \A m, x : Pair(m, x)' <=> Pair(m, x)
      /\ task # Idle => Asked
      /\ task # Idle => task = [pc |-> task.pc, req |-> task.req, key |-> task.key,
                                id |-> task.id, node |-> task.node, note |-> task.note]
  BY WorldStays, Staying DEF Next, KeyInv, TaskShape, Typed
<1>1. CASE StartTask
  <2>1. PICK q \in world.requests : task'.pc = First[q.op] /\ task'.req = q
    BY <1>1 DEF StartTask
  <2>2. q.op \in {"enroll", "status", "reconnect", "delete", "rename", "note"}
    BY <2>1, WorldTyped, RequestShape DEF Typed
  <2> QED
    BY <2>1, <2>2, OffWay DEF First
<1>2. CASE FindNode
  <2>1. SUFFICES ASSUME Here(task.req.id),
                        task' = [task EXCEPT !.pc = "key", !.id = task.req.id,
                                             !.node = nodes[task.req.id]]
                 PROVE  OnWay'
    BY <1>2, OffWay DEF FindNode, End, Here
  <2>2. task # Idle /\ task.req.op = "reconnect" /\ task.req.id \in Id
    BY <1>2 DEF FindNode, At, Typed, Asked
  <2>3. /\ task' # Idle /\ task'.pc = "key" /\ task'.id = task.req.id
        /\ task'.node = nodes[task.req.id] /\ task'.req = task.req
    BY <1>0, <2>1, <2>2 DEF Idle
  <2>4. Asking("reconnect")
    BY <2>2 DEF Admitted, Asking
  <2>5. /\ Pair(nodes[task.req.id].machine, nodes[task.req.id].name)
        /\ owner[task.req.id] = nodes[task.req.id].machine
    BY <2>1, <2>2, <2>4 DEF Named, Meant
  <2>6. UNCHANGED <<nodes, owner>>
    BY <1>2 DEF FindNode, headscale, meant
  <2> QED
    BY <1>0, <2>1, <2>3, <2>5, <2>6 DEF OnWay, Found, Parted, At, Here
<1>3. CASE MakeKey
  <2>0. task.req.op = "enroll" => task' = Idle \/ task'.pc = "link"
    BY <1>0, <1>3 DEF MakeKey, End, At
  <2>1. SUFFICES ASSUME task' # Idle, task.req.op # "enroll" PROVE OnWay'
    BY <2>0, OffWay
  <2>2. Found /\ task # Idle
    BY <1>3, <2>1 DEF MakeKey, At, Found, Typed, Asked
  <2>3. /\ task'.pc = "read" /\ task'.id = task.id /\ task'.node = task.node
    BY <1>0, <1>3, <2>1, <2>2 DEF MakeKey, End
  <2>4. UNCHANGED <<nodes, owner>>
    BY <1>3 DEF MakeKey, meant
  <2> QED
    BY <1>0, <2>2, <2>3, <2>4 DEF OnWay, Found, Parted, At, Here
<1>4. CASE ReadNote
  <2>1. Found /\ task # Idle /\ ~ Waiting(owner[task.id])
    BY <1>4 DEF ReadNote, At, Found, Admitted, Careful
  <2>2. /\ task'.pc = "stash" /\ task'.id = task.id /\ task'.node = task.node
        /\ task'.note = meta[task.id]
    BY <1>0, <1>4, <2>1 DEF ReadNote
  <2>3. UNCHANGED <<nodes, owner, meta, pending>>
    BY <1>4 DEF ReadNote, headscale, notes, meant
  <2>4. ~ Waiting(task.node.machine)'
    <3>1. PICK m : m = task.node.machine
      OBVIOUS
    <3>2. ~ Waiting(m)'
      BY <2>1, <2>3, <3>1 DEF OnWay, Waiting
    <3>3. m = task'.node.machine
      BY <2>2, <3>1
    <3> QED
      BY <3>2, <3>3 DEF Waiting
  <2> QED
    BY <1>0, <2>1, <2>2, <2>3, <2>4 DEF OnWay, Found, Parted, At, Here
<1>5. CASE PutAside
  <2>1. /\ Found /\ task # Idle /\ cycle.pc \notin Handing /\ UNCHANGED <<cycle, owner>>
    BY <1>5 DEF PutAside, At, Found, Admitted, Careful, Unlocked, Handing, Local, meant
  <2>2. /\ task'.pc = "delete" /\ task'.id = task.id /\ task'.node = task.node
    BY <1>0, <1>5, <2>1 DEF PutAside, Then
  <2>3. PICK c \in Name : c = task.node.name
    BY <2>1, Parting
  <2>4. Waits(c)' /\ pending'[c].old = task.id /\ meta'[task.id] \subseteq pending'[c].note
    BY <1>5, <2>3, PuttingAside DEF Typed, PutAside, OnWay, At
  <2>5. Waits(task.node.name)'
    <3>1. c = task'.node.name
      BY <2>2, <2>3
    <3> QED
      BY <2>4, <3>1 DEF Waits
  <2> QED
    BY <1>0, <2>1, <2>2, <2>3, <2>4, <2>5 DEF OnWay, Found, Parted, At
<1>6. CASE DeleteOld
  <2>1. SUFFICES ASSUME task' # Idle PROVE OnWay'
    BY <1>6, OffWay
  <2>2. /\ Parted /\ task # Idle /\ task.id \in Id
        /\ nodes' = [nodes EXCEPT ![task.id] = NoNode]
        /\ UNCHANGED <<cycle, owner, pending>>
    BY <1>6, <2>1 DEF DeleteOld, At, Parted, End, Local, notes, meant, Typed, Asked
  <2>3. /\ task'.pc = "clear" /\ task'.id = task.id /\ task'.node = task.node
    BY <1>0, <1>6, <2>1, <2>2 DEF DeleteOld, Then, End
  <2>5. Waits(task.node.name)'
    <3>1. PICK c \in Name : c = task.node.name
      BY <2>2, Parting
    <3>2. Waits(c)' /\ c = task'.node.name
      BY <2>2, <2>3, <3>1 DEF Waits, OnWay
    <3> QED
      BY <3>2 DEF Waits
  <2>6. nodes'[task'.id] = NoNode
    BY <2>2, <2>3 DEF Typed
  <2> QED
    BY <1>0, <2>2, <2>3, <2>5, <2>6 DEF OnWay, Found, Parted, At, Here
<1>7. CASE RemoveNode
  <2>1. SUFFICES ASSUME task' # Idle PROVE OnWay'
    BY <1>7, OffWay
  <2>2. /\ task # Idle /\ task.req.id \in Id
        /\ nodes' = [nodes EXCEPT ![task.req.id] = NoNode]
    BY <1>7, <2>1 DEF RemoveNode, At, End, Typed, Asked
  <2>3. task'.pc = "refs" /\ task'.req = task.req
    BY <1>0, <1>7, <2>1, <2>2 DEF RemoveNode, Then, End
  <2>4. nodes'[task'.req.id] = NoNode
    BY <2>2, <2>3 DEF Typed
  <2> QED
    BY <2>3, <2>4 DEF OnWay, Found, Parted, At, Here
<1>8. CASE LookForKey \/ LookForName \/ clear_node_meta
  <2>1. task' = Idle \/ task'.pc \in {"rename", "link"}
    BY <1>0, <1>8 DEF LookForKey, LookForName, clear_node_meta, End, At, Then
  <2> QED
    BY <2>1, OffWay
<1>9. CASE save_join_script \/ Rename \/ forget_node_refs \/ set_node_meta
  BY <1>9, OffWay DEF save_join_script, Rename, forget_node_refs, set_node_meta, End
<1> QED
  BY <1>1, <1>2, <1>3, <1>4, <1>5, <1>6, <1>7, <1>8, <1>9 DEF Work

(* Notes of reconnections that go on wait as before, and no others.         *)
LEMMA WaitsLess ==
    ASSUME Ground, KeyInv, [Next]_vars, ~ PutAside
    PROVE  /\ \A x \in Name : Waits(x)' => Waits(x) /\ pending'[x] = pending[x]
                                           /\ Of(x)' = Of(x)
           /\ \A m : Waiting(m)' => Waiting(m)
<1> USE DEF Ground
<1>1. ASSUME NEW x \in Name, Waits(x)'
      PROVE  Waits(x) /\ pending'[x] = pending[x] /\ Of(x)' = Of(x)
  <2>1. Waits(x) /\ pending'[x] = pending[x]
    BY <1>1, PendingGoes DEF Close, Waits
  <2>2. /\ pending[x].old \in Id /\ owner[pending[x].old] # Nobody
    BY <2>1, WaitsOne DEF Of
  <2>3. owner'[pending[x].old] = owner[pending[x].old]
    BY <2>2, NodesGo DEF Comes, DeleteOld, Rename, RemoveNode, meant
  <2> QED
    BY <2>1, <2>3 DEF Of
<1>2. ASSUME NEW m, Waiting(m)' PROVE Waiting(m)
  <2>1. PICK x \in Name : Waits(x)' /\ Of(x)' = m
    BY <1>2 DEF Waiting, Waits, Of
  <2> QED
    BY <1>1, <2>1 DEF Waiting, Waits, Of
<1> QED
  BY <1>1, <1>2

(* Where the cycle is after each of its steps.                              *)
LEMMA CyclePlace ==
    ASSUME Collect, CycleShape, cycle' # Idle
    PROVE  \/ ListNodes /\ cycle'.pc \in {"claim", "self"}
           \/ Repoint /\ cycle'.pc = IF Owed = {} THEN "meta" ELSE "hand"
           \/ HandBack /\ cycle'.pc = "close"
           \/ Close /\ cycle'.pc = "meta"
           \/ ReadMeta /\ cycle'.pc = "nodes"
           \/ reconcile_nodes /\ cycle'.pc = "tell"
           \/ TellNodes /\ cycle'.pc = "agents"
           \/ reconcile_agents /\ cycle'.pc = "keys"
           \/ check_key_expiry /\ cycle'.pc = "flags"
           \/ KeepFlags /\ cycle'.pc = "prune"
           \/ PruneKeys /\ cycle'.pc = "self"
<1> USE NextPlace DEF In, Onward
<1>1. CASE ListNodes
  <2>1. cycle'.pc = next_step["list"] \/ cycle'.pc = "self"
    BY <1>1 DEF ListNodes
  <2> QED
    BY <1>1, <2>1
<1>6. CASE Repoint
  <2>1. /\ cycle # Idle /\ cycle.pc = "claim"
        /\ \/ Owed = {} /\ cycle' = [cycle EXCEPT !.pc = next_step["close"]]
           \/ Owed # {} /\ cycle' = [cycle EXCEPT !.pc = next_step[@]]
    BY <1>6 DEF Repoint
  <2>2. cycle'.pc = IF Owed = {} THEN next_step["close"] ELSE next_step["claim"]
    BY <2>1 DEF CycleShape
  <2> QED
    BY <1>6, <2>2
<1>7. CASE HandBack \/ Close
  BY <1>7 DEF HandBack, Close, CycleShape
<1>2. CASE ReadMeta
  <2>1. /\ cycle # Idle /\ cycle.pc = "meta"
        /\ \E M, D : cycle' = [cycle EXCEPT !.pc = next_step[@], !.muted = M,
                                            !.devices = D]
    BY <1>2 DEF ReadMeta
  <2>2. cycle'.pc = next_step[cycle.pc]
    BY <2>1 DEF CycleShape
  <2> QED
    BY <1>2, <2>1, <2>2
<1>3. CASE reconcile_nodes \/ check_key_expiry
  <2>1. /\ cycle # Idle
        /\ \/ cycle.pc = "nodes" /\ reconcile_nodes
           \/ cycle.pc = "keys" /\ check_key_expiry
        /\ \/ \E T : cycle' = [cycle EXCEPT !.pc = next_step[@], !.tell = T]
           \/ \E T : cycle' = [cycle EXCEPT !.pc = next_step[@], !.flags = T]
    BY <1>3 DEF reconcile_nodes, check_key_expiry
  <2>2. cycle'.pc = next_step[cycle.pc]
    BY <2>1 DEF CycleShape
  <2>3. CASE cycle.pc = "nodes" /\ reconcile_nodes
    BY <2>2, <2>3
  <2>4. CASE cycle.pc = "keys" /\ check_key_expiry
    BY <2>2, <2>4
  <2> QED
    BY <2>1, <2>3, <2>4
<1>4. CASE TellNodes \/ reconcile_agents \/ KeepFlags \/ PruneKeys
  BY <1>4 DEF TellNodes, reconcile_agents, KeepFlags, PruneKeys, CycleShape
<1>5. CASE reconcile_selfcheck
  BY <1>5 DEF reconcile_selfcheck
<1> QED
  BY <1>1, <1>2, <1>3, <1>4, <1>5, <1>6, <1>7 DEF Collect

Elsewhere ==
    \/ Collect \/ \E k \in Key : Download(k) \/ RunScript(k)
    \/ \E i \in Id : NodeFlips(i) \/ KeyFlips(i) \/ AgentFlips(i)
    \/ HeadscaleFlips \/ Tick \/ UNCHANGED vars

LEMMA NotTheRequest ==
    ASSUME KeyInv, Elsewhere
    PROVE  /\ UNCHANGED <<task, wish, bound>>
           /\ ~ PutAside /\ ~ DeleteOld /\ ~ Rename /\ ~ RemoveNode
           /\ Collect \/ UNCHANGED <<cycle, meta, pending, refs, quiet>>
<1>1. UNCHANGED <<task, wish, bound>>
  BY DEF Elsewhere, Collect, Outside, ListNodes, Repoint, HandBack, Close, ReadMeta,
     reconcile_nodes, TellNodes, reconcile_agents, check_key_expiry, KeepFlags,
     PruneKeys, reconcile_selfcheck, Download, RunScript, NodeFlips, KeyFlips,
     AgentFlips, Panel, HeadscaleFlips, Tick, vars, meant
<1>2. Collect \/ UNCHANGED <<cycle, meta, pending, refs, quiet>>
  BY DEF Elsewhere, Download, RunScript, NodeFlips, KeyFlips,
     AgentFlips, Panel, HeadscaleFlips, Tick, vars, notes, rung
<1>3. ~ PutAside /\ ~ DeleteOld /\ ~ Rename /\ ~ RemoveNode
  BY <1>1 DEF PutAside, DeleteOld, Rename, RemoveNode, At, Then, End, KeyInv, TaskShape
<1> QED
  BY <1>1, <1>2, <1>3

LEMMA ElsewhereOnWay ==
    ASSUME Ground, KeyInv, Lost, OnWay, OnRound, [Next]_vars, Elsewhere
    PROVE  OnWay'
<1> USE DEF Ground
<1>0. /\ UNCHANGED task
      /\ \A m, x : Pair(m, x)' <=> Pair(m, x)
      /\ \A x : At(x)' <=> At(x)
      /\ Found' <=> Found
      /\ Parted' <=> Parted
  BY WorldStays, Staying, NotTheRequest DEF At, Found, Parted
<1>1. /\ Steady /\ UNCHANGED owner
      \/ \E k \in Key, i \in Id, y \in Name :
             Comes(k, i, y) /\ keys[k].machine \in Machine
  BY NodesGo, NotTheRequest, Scripted
<1>2. ASSUME NEW i \in Id, owner[i] # Nobody
      PROVE  /\ owner'[i] = owner[i] /\ (Here(i)' <=> Here(i))
             /\ Here(i) => nodes'[i].name = nodes[i].name
  BY <1>1, <1>2 DEF Steady, Comes, Here
<1>3. ASSUME Found \/ Parted
      PROVE  /\ Pair(task.node.machine, task.node.name)' /\ task.id \in Id
             /\ owner'[task.id] = task.node.machine
             /\ Here(task.id)' <=> Here(task.id)
             /\ Here(task.id) => nodes'[task.id].name = nodes[task.id].name
  <2>1. PICK m \in Machine, x \in Name, i \in Id :
            m = task.node.machine /\ x = task.node.name /\ i = task.id
    BY <1>3, Parting
  <2>2. Pair(m, x)' /\ owner[i] = m /\ m # Nobody
    BY <1>0, <1>3, <2>1, Parting, FleetAssumption
  <2>3. m = task'.node.machine /\ x = task'.node.name /\ i = task'.id
    BY <1>0, <2>1
  <2> QED
    BY <1>2, <2>1, <2>2, <2>3 DEF Here, Pair
<1>4. ASSUME At("stash")
      PROVE  ~ Waiting(task.node.machine)' /\ task.note = meta'[task.id]
  <2>1. PICK m : m = task.node.machine
    OBVIOUS
  <2>2. ~ Waiting(m)' /\ m = task'.node.machine
    BY <1>0, <1>4, <2>1, WaitsLess, NotTheRequest DEF OnWay
  <2>3. task.id \notin Owed \/ ~ HandBack
    BY <1>4, OwedOne DEF OnWay, Found, HandBack, In, Handing
  <2>4. task.id \in Id /\ task.note = meta[task.id]
    BY <1>4, Parting DEF Found, OnWay
  <2>5. HandBack \/ UNCHANGED meta
    BY NotTheRequest DEF Collect, ListNodes, Repoint, Close, ReadMeta,
       reconcile_nodes, TellNodes, reconcile_agents, check_key_expiry, KeepFlags,
       PruneKeys, reconcile_selfcheck, notes
  <2>6. meta'[task.id] = meta[task.id]
    BY <2>3, <2>4, <2>5 DEF HandBack
  <2> QED
    BY <2>2, <2>4, <2>6 DEF Waiting
<1>5. ASSUME Parted
      PROVE  /\ Waits(task.node.name)' /\ pending'[task.node.name].old = task.id
             /\ cycle'.pc \notin Handing
  <2>1. PICK x \in Name : x = task.node.name
    BY <1>5, Parting
  <2>2. Waits(x) /\ pending[x].old = task.id /\ cycle.pc \notin Handing
    BY <1>5, <2>1 DEF OnWay
  <2>3. UNCHANGED pending
    BY <2>2, PendingGoes, NotTheRequest DEF Close, In, Handing
  <2>4. Waits(x)' /\ pending'[x].old = task.id /\ x = task'.node.name
    BY <1>0, <2>1, <2>2, <2>3 DEF Waits
  <2>5. cycle'.pc \notin Handing
    <3>1. CASE Collect
      <4>1. ~ ListNodes
        BY <1>5 DEF Parted, At, ListNodes, Admitted, Careful
      <4> QED
        BY <2>2, <3>1, <4>1, CyclePlace DEF Idle, Handing, HandBack, Close, Repoint, In
    <3> QED
      BY <2>2, <3>1, NotTheRequest
  <2> QED
    BY <2>1, <2>4, <2>5 DEF Waits
<1>7. ASSUME At("delete")
      PROVE  meta'[task.id] \subseteq pending'[task.node.name].note
  <2>1. PICK x \in Name : x = task.node.name
    BY <1>7, Parting DEF Parted
  <2>2. meta[task.id] \subseteq pending[x].note /\ cycle.pc \notin Handing
    BY <1>7, <2>1 DEF OnWay, Parted
  <2>3. UNCHANGED pending
    BY <2>2, PendingGoes, NotTheRequest DEF Close, In, Handing
  <2>4. UNCHANGED meta
    BY <2>2, NotTheRequest DEF Collect, ListNodes, Repoint, HandBack, Close, ReadMeta,
       reconcile_nodes, TellNodes, reconcile_agents, check_key_expiry, KeepFlags,
       PruneKeys, reconcile_selfcheck, notes, In, Handing
  <2> QED
    BY <2>1, <2>2, <2>3, <2>4
<1>6. ASSUME At("refs"), Here(task.req.id)'
      PROVE  wish'[owner'[task.req.id]] = {} /\ owner'[task.req.id] \notin bound'
  <2>1. PICK i \in Id : i = task.req.id
    BY <1>6 DEF At, Typed, Asked
  <2>2. Here(i)' /\ UNCHANGED <<wish, bound>>
    BY <1>0, <1>6, <2>1, NotTheRequest DEF Here
  <2>3. CASE Steady /\ UNCHANGED owner
    BY <1>6, <2>1, <2>2, <2>3 DEF OnWay, Steady
  <2>4. ASSUME NEW k \in Key, NEW j \in Id, NEW y \in Name, Comes(k, j, y),
               keys[k].machine \in Machine
        PROVE  wish[owner'[i]] = {} /\ owner'[i] \notin bound
    <3>1. CASE i = j
      <4>1. owner'[i] = keys[k].machine
        BY <2>4, <3>1 DEF Comes, Meant
      <4>2. ~ Waiting(keys[k].machine)
        BY <1>6, DeletionAlone DEF At, Typed, Asked
      <4>3. \A a \in Id : Here(a) => owner[a] # keys[k].machine
        BY <2>4 DEF Comes, Meant
      <4> QED
        BY <2>4, <4>1, <4>2, <4>3 DEF Lost, Absent
    <3>2. CASE i # j
      BY <1>6, <2>1, <2>2, <2>4, <3>2 DEF OnWay, Comes, Here
    <3> QED
      BY <3>1, <3>2
  <2> QED
    BY <1>1, <2>1, <2>2, <2>3, <2>4
<1> QED
  BY <1>0, <1>3, <1>4, <1>5, <1>6, <1>7 DEF OnWay, Found, Parted

(* --- a cycle on its round --------------------------------------------------------- *)

LEMMA NobodyWaits ==
    ASSUME Typed, Admitted, ~ Asking("reconnect")
    PROVE  /\ \A m : ~ Waiting(m)
           /\ cycle # Idle => Owed = {}
<1>1. \A x \in Name : ~ Waits(x)
  BY DEF Admitted
<1>2. \A m : ~ Waiting(m)
  BY <1>1 DEF Waiting, Waits
<1>3. cycle # Idle => Owed = {}
  BY <1>1, ListedTyped DEF Owed, Waits
<1> QED
  BY <1>2, <1>3

(* The requests leave the cycle alone, and the notes while it has the lock. *)
LEMMA CycleStands ==
    ASSUME Ground, KeyInv, [Next]_vars, ~ Collect
    PROVE  /\ cycle' = Idle \/ UNCHANGED cycle
           /\ Asking("reconnect") /\ cycle.pc \in {"hand", "close"} =>
                 UNCHANGED <<meta, wish, bound, refs, pending>>
           /\ cycle.pc \in Handing => ~ PutAside
<1> USE DEF Ground
<1>1. cycle' = Idle \/ UNCHANGED cycle
  <2>1. CASE StartTask \/ Work
    BY <2>1 DEF StartTask, Work, Local, FindNode, MakeKey, ReadNote, PutAside,
       DeleteOld, clear_node_meta, save_join_script, LookForKey, LookForName,
       Rename, RemoveNode, forget_node_refs, set_node_meta
  <2>2. CASE \/ \E k \in Key : Download(k) \/ RunScript(k)
             \/ \E i \in Id : NodeFlips(i) \/ KeyFlips(i) \/ AgentFlips(i)
             \/ HeadscaleFlips \/ Tick \/ Restart \/ UNCHANGED vars
    BY <2>2 DEF Download, RunScript, NodeFlips, KeyFlips, AgentFlips, Panel,
       HeadscaleFlips, Tick, Restart, vars
  <2> QED
    BY <2>1, <2>2 DEF Next
<1>2. cycle.pc \in Handing => ~ PutAside
  BY DEF Handing, PutAside, Unlocked, Admitted, Careful
<1>3. ASSUME Asking("reconnect"), cycle.pc \in {"hand", "close"}
      PROVE  UNCHANGED <<meta, wish, bound, refs, pending>>
  <2>1. ~ RemoveNode
    BY <1>3, Reconnecting DEF RemoveNode, At, Typed, Asked
  <2>2. ~ PutAside /\ ~ clear_node_meta /\ ~ forget_node_refs /\ ~ set_node_meta
    BY <1>3 DEF PutAside, clear_node_meta, forget_node_refs, set_node_meta, Unlocked
  <2>3. CASE StartTask \/ Work
    BY <2>1, <2>2, <2>3 DEF StartTask, Work, FindNode, MakeKey, ReadNote, DeleteOld,
       save_join_script, LookForKey, LookForName, Rename, notes, meant
  <2>4. CASE \/ \E k \in Key : Download(k) \/ RunScript(k)
             \/ \E i \in Id : NodeFlips(i) \/ KeyFlips(i) \/ AgentFlips(i)
             \/ HeadscaleFlips \/ Tick \/ Restart \/ UNCHANGED vars
    BY <2>4 DEF Download, RunScript, NodeFlips, KeyFlips, AgentFlips, Panel,
       HeadscaleFlips, Tick, Restart, vars, notes, meant
  <2> QED
    BY <2>3, <2>4 DEF Next
<1> QED
  BY <1>1, <1>2, <1>3

(* The cycle takes its list at the start and keeps it.                      *)
LEMMA ListKept ==
    ASSUME CycleShape, Collect, ~ ListNodes
    PROVE  cycle' = Idle \/ (cycle # Idle /\ cycle'.raw = cycle.raw)
<1> USE DEF In, Onward
<1>1. CASE \/ Repoint \/ HandBack \/ Close \/ ReadMeta
           \/ TellNodes \/ reconcile_agents \/ KeepFlags \/ PruneKeys
  BY <1>1 DEF Repoint, HandBack, Close, ReadMeta, TellNodes, reconcile_agents,
     KeepFlags, PruneKeys, CycleShape
<1>2. CASE reconcile_nodes \/ check_key_expiry
  <2>1. /\ cycle # Idle
        /\ \/ \E T : cycle' = [cycle EXCEPT !.pc = next_step[@], !.tell = T]
           \/ \E T : cycle' = [cycle EXCEPT !.pc = next_step[@], !.flags = T]
    BY <1>2 DEF reconcile_nodes, check_key_expiry
  <2> QED
    BY <2>1 DEF CycleShape
<1>3. CASE reconcile_selfcheck
  BY <1>3 DEF reconcile_selfcheck
<1> QED
  BY <1>1, <1>2, <1>3 DEF Collect

LEMMA StandingStep ==
    ASSUME Ground, KeyInv, OnWay, OnRound, [Next]_vars,
           cycle' # Idle, cycle'.pc \in Handing, ~ Asking("delete"), NEW i \in Listed'
    PROVE  /\ Here(i)' /\ nodes'[i].machine = cycle'.raw[i].machine
           /\ Asking("reconnect") => nodes'[i].name = cycle'.raw[i].name
<1> USE DEF Ground
<1>1. CASE ListNodes
  <2>1. UNCHANGED nodes /\ cycle'.raw = nodes
    BY <1>1 DEF ListNodes, Outside, headscale
  <2> QED
    BY <2>1 DEF Listed, Present, Here
<1>2. CASE ~ ListNodes
  <2>1. cycle # Idle /\ cycle.pc \in Handing /\ cycle'.raw = cycle.raw
    <3>1. CASE Collect
      BY <1>2, <3>1, CyclePlace, ListKept DEF Handing, Repoint, HandBack, Close, In
    <3>2. CASE ~ Collect
      BY <3>2, CycleStands
    <3> QED
      BY <3>1, <3>2
  <2>2. i \in Listed /\ i \in Id /\ Standing(i)
    <3>1. i \in Listed
      BY <2>1 DEF Listed
    <3> QED
      BY <2>1, <3>1, ListedTyped DEF OnRound
  <2>3. ~ DeleteOld
    BY <2>1 DEF DeleteOld, OnWay, Parted
  <2>4. ~ RemoveNode
    BY DEF RemoveNode, At, Typed, Asked, Admitted, Asking
  <2>5. CASE Rename
    <3>1. ~ Asking("reconnect")
      BY <2>5, Renaming, Reconnecting
    <3> QED
      BY <2>1, <2>2, <2>5, <3>1, Renaming DEF Standing
  <2>6. CASE Steady
    BY <2>1, <2>2, <2>6 DEF Steady, Standing
  <2>7. ASSUME NEW k \in Key, NEW j \in Id, NEW y \in Name, Comes(k, j, y)
        PROVE  /\ Here(i)' /\ nodes'[i].machine = cycle'.raw[i].machine
               /\ Asking("reconnect") => nodes'[i].name = cycle'.raw[i].name
    BY <2>1, <2>2, <2>7 DEF Comes, Standing, Here
  <2> QED
    BY <2>3, <2>4, <2>5, <2>6, <2>7, NodesGo
<1> QED
  BY <1>1, <1>2

LEMMA OnRoundStep ==
    ASSUME Ground, KeyInv, Lost, OnWay, OnRound, [Next]_vars, Ground'
    PROVE  OnRound'
<1> USE DEF Ground
<1>0. /\ Asking("delete")' <=> Asking("delete")
      /\ Asking("reconnect")' <=> Asking("reconnect")
  BY WorldStays, Staying
<1>1. ASSUME cycle' # Idle, cycle'.pc \in Handing, ~ Asking("delete")
      PROVE  \A i \in Listed' : Standing(i)'
  BY <1>0, <1>1, StandingStep DEF Standing
<1>2. CASE ~ Asking("reconnect")
  <2>1. \A x \in Name : ~ Waits(x)'
    BY <1>0, <1>2 DEF Admitted
  <2>2. \A m : ~ Waiting(m)'
    BY <2>1 DEF Waiting, Waits
  <2>3. ASSUME cycle' # Idle, NEW i \in Owed' PROVE FALSE
    <3>1. cycle'.raw \in [Id -> ANode] /\ cycle'.raw[i] # NoNode /\ i \in Id
      BY <2>3 DEF Typed, Cycling, Owed, Listed, Present
    <3>2. cycle'.raw[i].name \in Name
      BY <3>1 DEF ANode, Node
    <3> QED
      BY <2>1, <2>3, <3>2 DEF Owed, Waits
  <2> QED
    BY <1>0, <1>1, <2>2, <2>3 DEF OnRound, In, Handing, Idle
<1>3. CASE Asking("reconnect")
  <2>1. ~ Asking("delete")
    BY <1>3, Reconnecting
  <2>2. ASSUME ~ Collect, cycle' # Idle
        PROVE  /\ UNCHANGED cycle /\ (\A x : In(x)' <=> In(x)) /\ Listed' = Listed
               /\ \A i \in Listed : owner'[i] = owner[i]
    <3>1. UNCHANGED cycle
      BY <2>2, CycleStands
    <3>2. \A i \in Listed : i \in Id /\ owner[i] # Nobody
      BY <2>2, <3>1, ListedTyped DEF Once, Known, OnList
    <3>3. ~ RemoveNode
      BY <1>3, Reconnecting DEF RemoveNode, At, Typed, Asked
    <3>4. \A i \in Listed : owner'[i] = owner[i]
      BY <3>2, <3>3, NodesGo DEF Comes, DeleteOld, Rename, meant
    <3> QED
      BY <3>1, <3>4 DEF In, Listed
  <2>3. ASSUME In("hand")', NEW i \in Owed' PROVE owner'[i] \in bound' => i \in refs'
    <3>1. CASE Collect
      <4>1. Repoint /\ Owed' = Owed /\ UNCHANGED <<owner, bound>>
        <5>1. Repoint
          BY <2>3, <3>1, CyclePlace DEF In
        <5>2. UNCHANGED pending /\ cycle'.raw = cycle.raw
          BY <5>1 DEF Repoint, In, CycleShape
        <5> QED
          BY <5>1, <5>2 DEF Owed, Listed, Repoint, Outside, meant
      <4> QED
        BY <4>1, RepointKeepsNotes
    <3>2. CASE ~ Collect
      <4>1. In("hand") /\ UNCHANGED <<bound, refs, pending, cycle>>
        BY <1>3, <2>2, <2>3, <3>2, CycleStands DEF In
      <4>2. i \in Owed /\ i \in Listed
        BY <4>1 DEF Owed, Listed
      <4> QED
        BY <2>2, <2>3, <3>2, <4>1, <4>2 DEF OnRound, In
    <3> QED
      BY <3>1, <3>2
  <2>4. ASSUME In("close")', NEW i \in Owed'
        PROVE  (owner'[i] \in bound' => i \in refs') /\ meta'[i] = wish'[owner'[i]]
    <3>2. CASE HandBack
      <4>1. UNCHANGED pending /\ cycle'.raw = cycle.raw
        BY <3>2 DEF HandBack, In, Onward, CycleShape
      <4>2. i \in Owed /\ UNCHANGED <<owner, bound, refs, wish>> /\ In("hand")
        BY <2>4, <3>2, <4>1 DEF Owed, Listed, HandBack, Outside, meant
      <4> QED
        BY <3>2, <4>2, HandBackKeepsNotes DEF OnRound
    <3>3. CASE Collect /\ ~ HandBack
      BY <2>4, <3>3, CyclePlace DEF In
    <3>4. CASE ~ Collect
      <4>1. In("close") /\ UNCHANGED <<meta, wish, bound, refs, pending, cycle>>
        BY <1>3, <2>2, <2>4, <3>4, CycleStands DEF In
      <4>2. i \in Owed /\ i \in Listed
        BY <2>4, <4>1 DEF Owed, Listed
      <4> QED
        BY <2>2, <2>4, <3>4, <4>1, <4>2 DEF OnRound, In
    <3> QED
      BY <3>2, <3>3, <3>4
  <2>5. ASSUME In("meta")', NEW i \in Listed' PROVE ~ Waiting(owner[i])'
    <3>1. CASE Close
      <4>1. Listed' = Listed
        BY <3>1 DEF Close, In, Onward, CycleShape, Listed
      <4> QED
        BY <3>1, <4>1, CloseKeepsNotes
    <3>2. CASE Collect /\ ~ Close
      <4>1. Repoint /\ Owed = {} /\ In("claim")
        BY <2>5, <3>2, CyclePlace DEF In, Repoint
      <4>2. /\ UNCHANGED <<owner, pending>> /\ Listed' = Listed
        BY <4>1 DEF Repoint, In, CycleShape, Listed, Outside, meant
      <4>3. PICK m : m = owner[i]
        OBVIOUS
      <4>4. ~ Waiting(m)
        BY <2>5, <4>1, <4>2, <4>3, ListedWait DEF In, Handing
      <4>5. ~ Waiting(m)' /\ m = owner'[i]
        BY <4>2, <4>3, <4>4 DEF Waiting
      <4> QED
        BY <4>5 DEF Waiting
    <3>3. CASE ~ Collect
      <4>1. In("meta") /\ i \in Listed /\ owner'[i] = owner[i] /\ ~ PutAside
        BY <2>2, <2>5, <3>3, CycleStands DEF In, Handing
      <4>2. PICK m : m = owner[i]
        OBVIOUS
      <4>3. ~ Waiting(m)' /\ m = owner'[i]
        BY <4>1, <4>2, WaitsLess DEF OnRound
      <4> QED
        BY <4>3 DEF Waiting
    <3> QED
      BY <3>1, <3>2, <3>3
  <2> QED
    BY <1>0, <1>1, <2>3, <2>4, <2>5 DEF OnRound, In, Handing, Idle
<1> QED
  BY <1>2, <1>3

(* --- nothing is lost ----------------------------------------------------------------- *)

LEMMA LostInit ==
    ASSUME Init, Typed, Careful(world)
    PROVE  Meant /\ Admitted /\ Named /\ Lost /\ OnWay /\ OnRound
<1>1. /\ nodes = world.nodes /\ meta = world.notes
      /\ pending = [x \in Name |-> NoStash] /\ keys = [k \in Key |-> NoKey]
      /\ owner = [i \in Id |-> nodes[i].machine]
      /\ wish = [m \in Machine |-> UNION {meta[i] : i \in {i \in Id : owner[i] = m}}]
      /\ bound = {owner[i] : i \in refs} /\ refs \subseteq Id
      /\ cycle = Idle /\ task = Idle
  BY DEF Init, Typed
<1>2. \A i \in Id : /\ Here(i) => owner[i] \in Machine /\ owner[i] # Nobody
                    /\ ~ Here(i) => owner[i] = Nobody
                    /\ owner[i] = Nobody => meta[i] = {}
  <2> SUFFICES ASSUME NEW i \in Id
               PROVE  /\ Here(i) => owner[i] \in Machine /\ owner[i] # Nobody
                      /\ ~ Here(i) => owner[i] = Nobody
                      /\ owner[i] = Nobody => meta[i] = {}
    OBVIOUS
  <2>1. owner[i] = nodes[i].machine
    BY <1>1
  <2>2. CASE Here(i)
    <3>1. nodes[i] \in Node
      BY <2>2 DEF Typed, ANode, Here
    <3> QED
      BY <2>1, <2>2, <3>1, FleetAssumption DEF Node
  <2>3. CASE ~ Here(i)
    <3>1. nodes[i] = NoNode /\ NoNode.machine = Nobody
      BY <2>3 DEF Here, NoNode
    <3> QED
      BY <1>1, <2>1, <2>3, <3>1 DEF Careful
  <2> QED
    BY <2>2, <2>3
<1>3. Meant
  BY <1>1, <1>2 DEF Meant
<1>4. \A x \in Name : ~ Waits(x)
  BY <1>1 DEF Waits
<1>5. \A m : ~ Waiting(m)
  BY <1>4 DEF Waiting, Waits
<1>6. Admitted
  BY <1>1, <1>4 DEF Admitted
<1>7. Named
  BY <1>1, <1>4 DEF Named, Pair, Here
<1>8. ASSUME NEW i \in Id, Here(i)
      PROVE  meta[i] = wish[owner[i]] /\ (owner[i] \in bound => i \in refs)
  <2>1. \A j \in Id : owner[j] = owner[i] => j = i
    BY <1>2, <1>3, <1>8, HereOne
  <2>2. {j \in Id : owner[j] = owner[i]} = {i}
    BY <1>8, <2>1
  <2>3. wish[owner[i]] = UNION {meta[j] : j \in {i}}
    BY <1>1, <1>2, <1>8, <2>2
  <2>4. wish[owner[i]] = meta[i]
    BY <2>3
  <2>5. owner[i] \in bound => i \in refs
    BY <1>1, <2>1
  <2> QED
    BY <2>4, <2>5
<1>9. ASSUME NEW m \in Machine, \A i \in Id : Here(i) => owner[i] # m
      PROVE  wish[m] = {} /\ m \notin bound
  <2>1. \A i \in Id : owner[i] # m
    BY <1>2, <1>9, FleetAssumption
  <2>2. {i \in Id : owner[i] = m} = {}
    BY <2>1
  <2> QED
    BY <1>1, <2>1, <2>2
<1>10. Lost
  BY <1>4, <1>8, <1>9 DEF Lost, Stashed, Carried, Absent
<1>11. OnWay /\ OnRound
  BY <1>1 DEF OnWay, OnRound, Found, Parted, At, In, Idle, Handing
<1> QED
  BY <1>3, <1>6, <1>7, <1>10, <1>11

LEMMA NothingIsLost == ASSUME Ground, Lost PROVE NothingLost
<1> USE DEF Ground
<1>1. ASSUME NEW m \in Machine
      PROVE  /\ wish[m] \subseteq Noted(m)
             /\ m \in bound => \E i \in refs : owner[i] = m
  <2>1. CASE Waiting(m)
    <3>1. PICK x \in Name : Waits(x) /\ Of(x) = m
      BY <2>1, WaitingFor
    <3>2. /\ \A f \in wish[m] : f \in pending[x].note \/ Has(m, f)
          /\ pending[x] \in Stash
          /\ m \in bound => \E i \in refs : owner[i] = m
      BY <3>1 DEF Lost, Stashed, Waits, Of, Typed
    <3>3. \A f \in wish[m] : f \in Flag
      BY <3>2 DEF Stash, Has, Typed
    <3> QED
      BY <3>1, <3>2, <3>3 DEF Noted, Waits, Of, Has
  <2>2. ASSUME ~ Waiting(m), NEW i \in Id, Here(i), owner[i] = m
        PROVE  /\ wish[m] \subseteq Noted(m)
               /\ m \in bound => \E j \in refs : owner[j] = m
    <3>1. meta[i] = wish[m] /\ meta[i] \subseteq Flag /\ (m \in bound => i \in refs)
      BY <2>2 DEF Lost, Carried, Typed
    <3> QED
      BY <2>2, <3>1 DEF Noted
  <2>3. CASE ~ Waiting(m) /\ \A i \in Id : Here(i) => owner[i] # m
    BY <2>3 DEF Lost, Absent
  <2> QED
    BY <2>1, <2>2, <2>3
<1>2. \A i \in Present(nodes) : i \in Id /\ Here(i)
  BY DEF Present, Here, Typed
<1> QED
  BY <1>1, <1>2 DEF NothingLost, Lost, Carried

LostInv == Ground /\ Lost /\ OnWay /\ OnRound

LEMMA LostInvStep ==
    ASSUME LostInv, KeyInv, AlertInv, [Next]_vars
    PROVE  LostInv'
<1>1. Ground'
  BY TypedStep, OnceStep, AlertStep, MeantStep, AdmittedStep, NamedStep
     DEF LostInv, Ground, AlertInv
<1> QED
  BY <1>1, LostStep, RequestsOnWay, ElsewhereOnWay, OnRoundStep, OffWay
     DEF LostInv, Next, Elsewhere, Restart

(* nodes.py:484-492, settings_store.py:191-238: a reconnection loses        *)
(* neither the flags of a machine nor the rules about it, wherever it fails *)
(* or the panel restarts, and no machine has the flags of another, for any  *)
(* number of machines and names.                                            *)
THEOREM NothingLostHolds ==
    ASSUME \A w \in Worlds : Careful(w)
    PROVE  Spec => []NothingLost
<1>1. Init => LostInv
  <2> SUFFICES ASSUME Init PROVE LostInv
    OBVIOUS
  <2>1. Typed /\ Once /\ CycleShape /\ Careful(world)
    BY TypedInit, OnceInit, AlertInit DEF AlertInv, Init
  <2> QED
    BY <2>1, LostInit DEF LostInv, Ground
<1>2. LostInv /\ KeyInv /\ AlertInv /\ [Next]_vars => LostInv'
  BY LostInvStep
<1>3. LostInv => NothingLost
  BY NothingIsLost DEF LostInv
<1> QED
  BY <1>1, <1>2, <1>3, AlertInit, AlertStep, KeyInit, KeyStep, PTL DEF Spec

(* --- the muted are left alone ------------------------------------------------------- *)

(* Who was muted when the cycle began is still to be, and once the notes    *)
(* are read the cycle knows it of every node it listed.                     *)
Muffled ==
    ~ Asking("delete") =>
        /\ quiet \subseteq Machine \X {"muted", "device"}
        /\ \A m \in Machine, f \in {"muted", "device"} :
              <<m, f>> \in quiet => f \in wish[m]
        /\ In("nodes") \/ In("tell") \/ In("agents") \/ In("keys") =>
              \A i \in Listed :
                  /\ <<owner[i], "muted">> \in quiet => i \in cycle.muted
                  /\ <<owner[i], "device">> \in quiet => i \in cycle.devices

(* The cycle takes down who is muted at the start, and reads the notes once.*)
LEMMA MutedKept ==
    ASSUME CycleShape, Collect, ~ ListNodes, ~ ReadMeta, cycle' # Idle
    PROVE  /\ cycle # Idle /\ cycle'.raw = cycle.raw
           /\ cycle'.muted = cycle.muted /\ cycle'.devices = cycle.devices
           /\ UNCHANGED <<quiet, wish, owner>>
<1> USE DEF In, Onward, Outside, meant, rung
<1>1. CASE \/ Repoint \/ HandBack \/ Close
           \/ TellNodes \/ reconcile_agents \/ KeepFlags \/ PruneKeys
  BY <1>1 DEF Repoint, HandBack, Close, TellNodes, reconcile_agents,
     KeepFlags, PruneKeys, CycleShape
<1>2. CASE reconcile_nodes \/ check_key_expiry
  <2>1. /\ cycle # Idle /\ UNCHANGED <<quiet, wish, owner>>
        /\ \/ \E T : cycle' = [cycle EXCEPT !.pc = next_step[@], !.tell = T]
           \/ \E T : cycle' = [cycle EXCEPT !.pc = next_step[@], !.flags = T]
    BY <1>2 DEF reconcile_nodes, check_key_expiry
  <2> QED
    BY <2>1 DEF CycleShape
<1>3. CASE reconcile_selfcheck
  BY <1>3 DEF reconcile_selfcheck
<1> QED
  BY <1>1, <1>2, <1>3 DEF Collect

LEMMA QuietGoes ==
    ASSUME [Next]_vars, ~ Collect, ~ set_node_meta, ~ RemoveNode
    PROVE  UNCHANGED <<quiet, wish>>
<1>1. CASE StartTask \/ Work
  BY <1>1 DEF StartTask, Work, FindNode, MakeKey, ReadNote, PutAside, DeleteOld,
     clear_node_meta, save_join_script, LookForKey, LookForName, Rename,
     forget_node_refs, Local, meant, rung
<1>2. CASE \/ \E k \in Key : Download(k) \/ RunScript(k)
           \/ \E i \in Id : NodeFlips(i) \/ KeyFlips(i) \/ AgentFlips(i)
           \/ HeadscaleFlips \/ Tick \/ Restart \/ UNCHANGED vars
  BY <1>2 DEF Download, RunScript, NodeFlips, KeyFlips, AgentFlips, Panel,
     HeadscaleFlips, Tick, Restart, vars, meant, rung
<1> QED
  BY <1>1, <1>2 DEF Next

LEMMA MuffledStep ==
    ASSUME LostInv, KeyInv, Muffled, [Next]_vars
    PROVE  Muffled'
<1> USE DEF LostInv, Ground
<1>0. Asking("delete")' <=> Asking("delete")
  BY WorldStays, Staying
<1> SUFFICES ASSUME ~ Asking("delete")
             PROVE  /\ quiet' \subseteq Machine \X {"muted", "device"}
                    /\ \A m \in Machine, f \in {"muted", "device"} :
                          <<m, f>> \in quiet' => f \in wish'[m]
                    /\ \/ In("nodes")'
                       \/ In("tell")'
                       \/ In("agents")'
                       \/ In("keys")'
                       => \A i \in Listed' :
                            /\ <<owner'[i], "muted">> \in quiet' => i \in cycle'.muted
                            /\ <<owner'[i], "device">> \in quiet' => i \in cycle'.devices
  BY <1>0 DEF Muffled
<1>1. ~ RemoveNode
  BY DEF RemoveNode, At, Typed, Asked, Admitted, Asking
<1>2. CASE ListNodes
  <2>1. /\ quiet' = {q \in Machine \X {"muted", "device"} : q[2] \in wish[q[1]]}
        /\ UNCHANGED wish
    BY <1>2 DEF ListNodes, Outside, meant
  <2>2. cycle' # Idle => cycle'.pc \in {"claim", "self"}
    BY <1>2, NextPlace DEF ListNodes
  <2> QED
    BY <2>1, <2>2 DEF In
<1>3. CASE ReadMeta
  <2>1. /\ In("meta") /\ UNCHANGED <<quiet, wish, owner>>
        /\ cycle' = [cycle EXCEPT !.pc = next_step[@],
                        !.muted = {i \in Id : "muted" \in meta[i]},
                        !.devices = {i \in Id : "device" \in meta[i]}]
    BY <1>3 DEF ReadMeta, Outside, meant, rung
  <2>2. /\ Listed' = Listed
        /\ \A i \in Id : "muted" \in meta[i] => i \in cycle'.muted
        /\ \A i \in Id : "device" \in meta[i] => i \in cycle'.devices
    <3> DEFINE M == {i \in Id : "muted" \in meta[i]}
               D == {i \in Id : "device" \in meta[i]}
    <3>1. cycle' = [cycle EXCEPT !.pc = next_step[@], !.muted = M, !.devices = D]
      BY <2>1
    <3> HIDE DEF M, D
    <3>2. cycle'.raw = cycle.raw /\ cycle'.muted = M /\ cycle'.devices = D
      BY <2>1, <3>1 DEF In, CycleShape
    <3> QED
      BY <3>2 DEF M, D, Listed
  <2>3. \A i \in Listed : i \in Id /\ owner[i] \in Machine /\ meta[i] = wish[owner[i]]
    <3>1. \A i \in Listed : i \in Id /\ Standing(i) /\ ~ Waiting(owner[i])
      BY <2>1, ListedTyped DEF In, OnRound, Handing
    <3> QED
      BY <3>1, HereOne DEF Standing, Lost, Carried
  <2> QED
    BY <2>1, <2>2, <2>3 DEF Muffled
<1>4. CASE Collect /\ ~ ListNodes /\ ~ ReadMeta
  <2>1. UNCHANGED <<quiet, wish>>
    BY <1>4 DEF Collect, Repoint, HandBack, Close, reconcile_nodes, TellNodes,
       reconcile_agents, check_key_expiry, KeepFlags, PruneKeys,
       reconcile_selfcheck, Outside, meant, rung
  <2>2. ASSUME In("nodes")' \/ In("tell")' \/ In("agents")' \/ In("keys")',
               NEW i \in Listed'
        PROVE  /\ <<owner'[i], "muted">> \in quiet' => i \in cycle'.muted
               /\ <<owner'[i], "device">> \in quiet' => i \in cycle'.devices
    <3>1. cycle' # Idle
      BY <2>2 DEF In
    <3>2. /\ i \in Listed /\ cycle'.muted = cycle.muted /\ cycle'.devices = cycle.devices
          /\ UNCHANGED <<quiet, owner>>
      BY <1>4, <3>1, MutedKept DEF Listed
    <3>3. In("nodes") \/ In("tell") \/ In("agents")
      BY <1>4, <2>2, <3>1, CyclePlace
         DEF In, reconcile_nodes, TellNodes, reconcile_agents
    <3> QED
      BY <3>2, <3>3 DEF Muffled
  <2> QED
    BY <2>1, <2>2 DEF Muffled
<1>5. ASSUME ~ Collect
      PROVE  \/ In("nodes")' \/ In("tell")' \/ In("agents")' \/ In("keys")'
             => /\ In("nodes") \/ In("tell") \/ In("agents") \/ In("keys")
                /\ Listed' = Listed /\ UNCHANGED cycle
                /\ \A i \in Listed : owner'[i] = owner[i]
  <2> SUFFICES ASSUME cycle' # Idle
               PROVE  UNCHANGED cycle /\ \A i \in Listed : owner'[i] = owner[i]
    BY DEF In, Listed
  <2>1. UNCHANGED cycle
    BY <1>5, CycleStands
  <2>2. \A i \in Listed : i \in Id /\ owner[i] # Nobody
    BY <2>1, ListedTyped DEF Once, Known, OnList
  <2> QED
    BY <1>1, <2>1, <2>2, NodesGo DEF Comes, DeleteOld, Rename, meant
<1>6. CASE set_node_meta
  <2> DEFINE put(S) == IF task.req.on THEN S \cup {task.req.flag} ELSE S \ {task.req.flag}
             o == owner[task.req.id]
  <2>1. ~ Collect
    BY <1>6 DEF set_node_meta, Collect, Outside, ListNodes, Repoint, HandBack, Close,
       ReadMeta, reconcile_nodes, TellNodes, reconcile_agents, check_key_expiry,
       KeepFlags, PruneKeys, reconcile_selfcheck, At, End
  <2>2. CASE UNCHANGED <<quiet, wish>>
    BY <1>5, <2>1, <2>2 DEF Muffled
  <2>3. CASE /\ wish' = [wish EXCEPT ![o] = put(@) \cup aside(o)]
             /\ quiet' = {q \in quiet : q # <<o, task.req.flag>>}
    <3>1. /\ quiet' \subseteq quiet /\ <<o, task.req.flag>> \notin quiet'
          /\ \A f : f # task.req.flag /\ f \in wish[o] => f \in put(wish[o])
      BY <2>3
    <3>2. ASSUME NEW m \in Machine, NEW f \in {"muted", "device"}, <<m, f>> \in quiet'
          PROVE  f \in wish'[m]
      <4>1. f \in wish[m] /\ (m = o => f # task.req.flag)
        BY <3>1, <3>2 DEF Muffled
      <4>2. wish = [n \in Machine |-> wish[n]]
        BY DEF Meant
      <4> HIDE DEF put, o
      <4> QED
        BY <2>3, <3>1, <4>1, <4>2
    <3>3. quiet' \subseteq Machine \X {"muted", "device"}
      BY <3>1 DEF Muffled
    <3> QED
      BY <1>5, <2>1, <3>1, <3>2, <3>3 DEF Muffled
  <2> QED
    BY <1>6, <2>2, <2>3 DEF set_node_meta, rung
<1>7. CASE ~ Collect /\ ~ set_node_meta
  BY <1>1, <1>5, <1>7, QuietGoes DEF Muffled
<1> QED
  BY <1>2, <1>3, <1>4, <1>6, <1>7

LEMMA OneCall ==
    ASSUME NEW c \in Calls, NEW v \in Nat
    PROVE  /\ [c EXCEPT !.down = v].down = v /\ [c EXCEPT !.down = v].agent = c.agent
           /\ [c EXCEPT !.down = v].key = c.key
           /\ [c EXCEPT !.agent = v].agent = v /\ [c EXCEPT !.agent = v].down = c.down
           /\ [c EXCEPT !.agent = v].key = c.key
           /\ [c EXCEPT !.key = v].key = v /\ [c EXCEPT !.key = v].down = c.down
           /\ [c EXCEPT !.key = v].agent = c.agent
           /\ c.down \in Nat /\ c.agent \in Nat /\ c.key \in Nat
BY DEF Calls

LEMMA MutedStep ==
    ASSUME Muffled, ~ Asking("delete"), Once, AlertInv, [Next]_vars, NEW i \in Id
    PROVE  /\ calls'[i].down > calls[i].down =>
                <<owner[i], "muted">> \notin quiet /\ <<owner[i], "device">> \notin quiet
           /\ (\/ calls'[i].agent > calls[i].agent
               \/ calls'[i].key > calls[i].key) => <<owner[i], "muted">> \notin quiet
<1>0. calls[i] \in Calls /\ 0 \in Nat
      /\ calls[i].down \in Nat /\ calls[i].agent \in Nat /\ calls[i].key \in Nat
  BY DEF AlertInv, WatchTyped, Calls
<1>1. CASE calls'[i] = calls[i]
  BY <1>0, <1>1
<1>2. CASE TellNodes
  <2>1. SUFFICES ASSUME i \in cycle.tell, i \notin cycle.muted, i \notin cycle.devices,
                        calls'[i] = [calls[i] EXCEPT !.down = calls[i].down + 1]
                 PROVE  /\ calls'[i].agent = calls[i].agent /\ calls'[i].key = calls[i].key
                        /\ <<owner[i], "muted">> \notin quiet
                        /\ <<owner[i], "device">> \notin quiet
    BY <1>0, <1>1, <1>2 DEF TellNodes
  <2>2. In("tell") /\ i \in Listed
    BY <1>2, <2>1 DEF TellNodes, Once, DownOnce
  <2> QED
    BY <1>0, <2>1, <2>2, OneCall DEF Muffled
<1>3. CASE reconcile_agents
  <2>1. \/ calls'[i] = [calls[i] EXCEPT !.agent = 0]
        \/ calls'[i] = calls[i]
        \/ /\ calls'[i] = [calls[i] EXCEPT !.agent = calls[i].agent + 1]
           /\ agent_silent(agents[i], i \in cycle.muted, i \in Listed,
                           i \in Listed /\ cycle.raw[i].online, i \in silent)
           /\ i \notin silent
    <3>1. calls'[i] = [calls[i] EXCEPT !.agent =
              IF /\ agent_silent(agents[i], i \in cycle.muted, i \in Listed,
                                 i \in Listed /\ cycle.raw[i].online, i \in silent)
                 /\ i \notin silent
              THEN @ + 1
              ELSE IF \/ agents[i] = "never" \/ i \in cycle.muted \/ i \notin Listed
                      \/ agents[i] = "fresh" /\ cycle.raw[i].online THEN 0 ELSE @]
      BY <1>3, Zenon DEF reconcile_agents
    <3>2. [calls[i] EXCEPT !.agent = calls[i].agent] = calls[i]
      BY <1>0 DEF Calls
    <3> QED
      BY <3>1, <3>2
  <2>2. CASE calls'[i] = [calls[i] EXCEPT !.agent = 0]
    BY <1>0, <2>2, OneCall
  <2>3. ASSUME agent_silent(agents[i], i \in cycle.muted, i \in Listed,
                            i \in Listed /\ cycle.raw[i].online, i \in silent),
               i \notin silent
        PROVE  <<owner[i], "muted">> \notin quiet
    <3>1. i \in Listed /\ i \notin cycle.muted
      BY <2>3 DEF agent_silent
    <3> QED
      BY <1>3, <3>1 DEF Muffled, reconcile_agents
  <2>4. CASE calls'[i] = [calls[i] EXCEPT !.agent = calls[i].agent + 1]
             /\ <<owner[i], "muted">> \notin quiet
    BY <1>0, <2>4, OneCall
  <2> QED
    BY <1>1, <2>1, <2>2, <2>3, <2>4
<1>4. CASE check_key_expiry
  <2>1. \/ calls'[i] = calls[i]
        \/ /\ calls'[i] = [calls[i] EXCEPT !.key = calls[i].key + 1]
           /\ i \in Listed /\ ~ status[i].key_alerted
           /\ key_alerted(status[i], cycle.raw[i].expiring, i \in cycle.muted)
    <3>1. calls'[i] = [calls[i] EXCEPT !.key =
              IF /\ i \in Listed
                 /\ key_alerted(status[i], cycle.raw[i].expiring, i \in cycle.muted)
                 /\ ~ status[i].key_alerted
              THEN @ + 1 ELSE @]
      BY <1>4, Zenon DEF check_key_expiry
    <3>2. [calls[i] EXCEPT !.key = calls[i].key] = calls[i]
      BY <1>0 DEF Calls
    <3> QED
      BY <3>1, <3>2
  <2>2. ASSUME i \in Listed, ~ status[i].key_alerted,
               key_alerted(status[i], cycle.raw[i].expiring, i \in cycle.muted)
        PROVE  <<owner[i], "muted">> \notin quiet
    <3>1. i \notin cycle.muted
      BY <2>2 DEF key_alerted
    <3> QED
      BY <1>4, <2>2, <3>1 DEF Muffled, check_key_expiry
  <2>3. CASE calls'[i] = [calls[i] EXCEPT !.key = calls[i].key + 1]
             /\ <<owner[i], "muted">> \notin quiet
    BY <1>0, <2>3, OneCall
  <2> QED
    BY <1>1, <2>1, <2>2, <2>3
<1>5. CASE reconcile_nodes \/ KeepFlags
  <2>1. \/ calls'[i] = calls[i]
        \/ calls'[i] = [calls[i] EXCEPT !.down = 0]
        \/ calls'[i] = [calls[i] EXCEPT !.key = 0]
    BY <1>5 DEF reconcile_nodes, KeepFlags
  <2>2. CASE calls'[i] = [calls[i] EXCEPT !.down = 0]
    BY <1>0, <2>2, OneCall
  <2>3. CASE calls'[i] = [calls[i] EXCEPT !.key = 0]
    BY <1>0, <2>3, OneCall
  <2> QED
    BY <1>1, <2>1, <2>2, <2>3
<1>6. CASE \/ ListNodes \/ Repoint \/ HandBack \/ Close \/ ReadMeta
           \/ PruneKeys \/ reconcile_selfcheck
  BY <1>1, <1>6 DEF ListNodes, Repoint, HandBack, Close, ReadMeta, PruneKeys,
     reconcile_selfcheck, rung
<1>7. CASE StartTask \/ Work
  BY <1>1, <1>7 DEF StartTask, Work, FindNode, MakeKey, ReadNote, PutAside,
     DeleteOld, clear_node_meta, save_join_script, LookForKey, LookForName,
     Rename, RemoveNode, forget_node_refs, set_node_meta, Local, rung
<1>8. CASE \/ \E k \in Key : Download(k) \/ RunScript(k)
           \/ \E j \in Id : NodeFlips(j) \/ KeyFlips(j) \/ AgentFlips(j)
           \/ HeadscaleFlips \/ Tick \/ Restart \/ UNCHANGED vars
  BY <1>1, <1>8 DEF Download, RunScript, NodeFlips, KeyFlips, AgentFlips, Panel,
     HeadscaleFlips, Tick, Restart, vars, rung
<1> QED
  BY <1>2, <1>3, <1>4, <1>5, <1>6, <1>7, <1>8 DEF Next, Collect

LEMMA MuffledInit == ASSUME Init PROVE Muffled
BY DEF Init, Muffled, In

(* collector.py:82-94, alerts.py:193-290: while no node is deleted, a      *)
(* machine that was muted before a cycle began is not told about in it,    *)
(* nor is a device that goes offline, under whatever id it has come back.  *)
THEOREM MutedIsSilentHolds ==
    ASSUME \A w \in Worlds : Careful(w)
    PROVE  Spec /\ ~ Asking("delete") => MutedIsSilent
<1>1. Init => LostInv /\ Muffled
  <2> SUFFICES ASSUME Init PROVE LostInv /\ Muffled
    OBVIOUS
  <2>1. Typed /\ Once /\ CycleShape /\ Careful(world)
    BY TypedInit, OnceInit, AlertInit DEF AlertInv, Init
  <2> QED
    BY <2>1, LostInit, MuffledInit DEF LostInv, Ground
<1>2. LostInv /\ Muffled /\ KeyInv /\ AlertInv /\ [Next]_vars => LostInv' /\ Muffled'
  BY LostInvStep, MuffledStep
<1>3. LostInv /\ ~ Asking("delete") /\ [Next]_vars => ~ Asking("delete")'
  BY WorldStays, Staying DEF LostInv, Ground
<1>4. LostInv /\ Muffled /\ AlertInv /\ ~ Asking("delete") /\ [Next]_vars =>
          [\A i \in Id :
          /\ calls'[i].down > calls[i].down =>
                <<owner[i], "muted">> \notin quiet /\ <<owner[i], "device">> \notin quiet
          /\ (\/ calls'[i].agent > calls[i].agent
              \/ calls'[i].key > calls[i].key) => <<owner[i], "muted">> \notin quiet]_calls
  BY MutedStep DEF LostInv, Ground
<1> QED
  BY <1>1, <1>2, <1>3, <1>4, AlertInit, AlertStep, KeyInit, KeyStep, PTL
     DEF Spec, MutedIsSilent
=============================================================================
