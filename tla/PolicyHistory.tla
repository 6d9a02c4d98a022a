--------------------------- MODULE PolicyHistory ---------------------------
(***************************************************************************)
(* PolicySync with a record of which nodes the collector has found to be   *)
(* personal devices, to say how soon a server that turns into one is cut   *)
(* off.  The record changes nothing of what the system does.               *)
(***************************************************************************)
EXTENDS PolicySync

VARIABLES
    found,    \* devices at the last start of a cycle, and ever since
    settled   \* devices at the start of a cycle that has ended, and ever since

personal == {n.id : n \in devices(hsNodes, meta)}

CycleStarts == pc[Collector] = "idle" /\ pc'[Collector] # "idle"
CycleEnds ==
    pc[Collector] # "idle" /\ pc'[Collector] = "idle" /\ faults' = faults

HInit == Init /\ found = personal /\ settled = personal

Record ==
    /\ found' = personal' \cap (IF CycleStarts THEN personal ELSE found)
    /\ settled' = personal' \cap (settled \cup (IF CycleEnds THEN found ELSE {}))

HNext == Next /\ Record
hvars == <<vars, found, settled>>
HSpec == HInit /\ [][HNext]_hvars

(* A server that turns into a personal device, because the collector or an *)
(* administrator withdraws its last approved route, is cut off by the end  *)
(* of the first cycle that finds it so (collector.collect_once: reconcile  *)
(* after the approvals), and nothing brings it back within reach while it  *)
(* stays a device: no push under way, and no cycle with an older list of   *)
(* nodes.                                                                  *)
TurnedPersonalIsCutOff ==
    \A r \in live.acls : \A d \in r.dst :
        Reach(d, hsNodes) \cap ipv4({n \in hsNodes : n.id \in settled}) = {}
=============================================================================
