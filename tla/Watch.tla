-------------------------------- MODULE Watch --------------------------------
(***************************************************************************)
(* What the panel makes of one observation of a node, of an agent, of the  *)
(* key of a node and of headscale itself, and whether somebody is told     *)
(* (alerts.py, _check_key_expiry in collector.py).                         *)
(***************************************************************************)
EXTENDS Naturals

CONSTANTS Misses        \* observations of a failure before it is one

ASSUME WatchAssumption == Misses \in Nat \ {0}

Told == {"no", "down", "up"}

NoStatus == [key_alerted |-> FALSE]
Status == [online : BOOLEAN, key_alerted : BOOLEAN]

AgentState == {"none", "never", "fresh", "stale"}

result(status, streak, told) ==
    [status |-> status, streak |-> streak, told |-> told]

(* Slip: being online does not end a streak.                               *)
observed_without_reset(status, online, streak) ==
    CASE status = NoStatus ->
            result([online |-> online, key_alerted |-> FALSE], 0, "no")
      [] status # NoStatus /\ online ->
            result([status EXCEPT !.online = TRUE], streak,
                   IF status.online THEN "no" ELSE "up")
      [] status # NoStatus /\ ~ online ->
            IF ~ status.online THEN result(status, streak, "no")
            ELSE IF streak + 1 < Misses THEN result(status, streak + 1, "no")
            ELSE result([status EXCEPT !.online = FALSE], 0, "down")

(* Slip: one observation more before a node is down.                       *)
observed_once_more(status, online, streak) ==
    CASE status = NoStatus ->
            result([online |-> online, key_alerted |-> FALSE], 0, "no")
      [] status # NoStatus /\ online ->
            result([status EXCEPT !.online = TRUE], 0,
                   IF status.online THEN "no" ELSE "up")
      [] status # NoStatus /\ ~ online ->
            IF ~ status.online THEN result(status, streak, "no")
            ELSE IF streak < Misses THEN result(status, streak + 1, "no")
            ELSE result([status EXCEPT !.online = FALSE], 0, "down")

(* The first observation is only noted; down after so many in a row, up at *)
(* once.                                                                   *)
observed(status, online, streak) ==
    CASE status = NoStatus ->
            result([online |-> online, key_alerted |-> FALSE], 0, "no")
      [] status # NoStatus /\ online ->
            result([status EXCEPT !.online = TRUE], 0,
                   IF status.online THEN "no" ELSE "up")
      [] status # NoStatus /\ ~ online ->
            IF ~ status.online THEN result(status, streak, "no")
            ELSE IF streak + 1 < Misses THEN result(status, streak + 1, "no")
            ELSE result([status EXCEPT !.online = FALSE], 0, "down")

(* Slip: the silence of an agent is over when its node goes offline.       *)
agent_silent_online(entry, muted, listed, online, silent) ==
    IF entry = "none" THEN silent
    ELSE entry = "stale" /\ ~ muted /\ listed /\ online

(* An agent that was there and stopped asking; a node that is offline or   *)
(* muted is no news.                                                       *)
agent_silent(entry, muted, listed, online, silent) ==
    IF entry = "none" THEN silent
    ELSE IF entry = "never" \/ muted \/ ~ listed THEN FALSE
    ELSE IF ~ online THEN silent
    ELSE entry = "stale"

(* Slip: the flag is not taken back when the key is prolonged.             *)
key_alerted_for_good(status, expiring, muted) ==
    IF status = NoStatus \/ muted THEN status.key_alerted
    ELSE status.key_alerted \/ expiring

(* The key of a node is told about once until it is prolonged.             *)
key_alerted(status, expiring, muted) ==
    IF status = NoStatus \/ muted THEN status.key_alerted ELSE expiring

(* headscale: fails in a row, and what was last found and told.            *)
Self == [up : {"unknown", "up", "down"}, fails : 0..Misses]

checked(self, ok) ==
    IF ok THEN [up |-> "up", fails |-> 0]
    ELSE IF self.up = "down" THEN self
    ELSE IF self.fails + 1 < Misses THEN [self EXCEPT !.fails = @ + 1]
    ELSE [up |-> "down", fails |-> Misses]
=============================================================================
