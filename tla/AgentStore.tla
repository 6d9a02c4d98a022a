----------------------------- MODULE AgentStore -----------------------------
(***************************************************************************)
(* What the settings lock promises of the blob of the agents               *)
(* (settings_store.py:34-44): a serialized call takes effect once, at one  *)
(* moment, on the blob as it is then, unless someone who does not take the *)
(* lock writes the blob while the call is under way.                       *)
(***************************************************************************)
EXTENDS AgentBlob

CONSTANTS Proc, NoCall

VARIABLES
    stored,    \* the blob
    pending,   \* the call each process has asked for and not had yet
    mixed      \* processes during whose call someone wrote without the lock

storeVars == <<stored, pending, mixed>>

Init ==
    /\ stored \in Blob
    /\ pending = [p \in Proc |-> NoCall]
    /\ mixed = {}

Answer(p) == pending' = [pending EXCEPT ![p] = NoCall]

Ask(p) ==
    /\ pending[p] = NoCall
    /\ pending'[p] \in Call
    /\ pending' = [pending EXCEPT ![p] = pending'[p]]
    /\ UNCHANGED <<stored, mixed>>

Take(p) ==
    /\ pending[p] # NoCall /\ pending[p].op \in serialized
    /\ p \notin mixed => stored' = Effect(stored, pending[p])
    /\ Answer(p)
    /\ mixed' = mixed \ {p}

(* A call without the lock writes what it likes, and may spoil those that  *)
(* are under way.                                                          *)
Scribble(p) ==
    /\ pending[p] # NoCall /\ pending[p].op \notin serialized
    /\ Answer(p)
    /\ mixed \subseteq mixed'
    /\ \A q \in mixed' \ mixed : pending[q] # NoCall /\ q # p

(* set_routes may be refused because of a direction.                       *)
Refuse(p) ==
    /\ pending[p] # NoCall /\ pending[p].op = "untick"
    /\ Answer(p)
    /\ UNCHANGED <<stored, mixed>>

Restart ==
    /\ pending' = [p \in Proc |-> NoCall]
    /\ mixed' = {}
    /\ UNCHANGED stored

Next ==
    \/ \E p \in Proc : Ask(p) \/ Take(p) \/ Scribble(p) \/ Refuse(p)
    \/ Restart

Spec == Init /\ [][Next]_storeVars
=============================================================================
