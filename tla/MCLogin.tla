------------------------------ MODULE MCLogin ------------------------------
(***************************************************************************)
(* Values for the constants of Login: two requests at a time, two          *)
(* passwords, a lockout of two units after two failures, one device.       *)
(***************************************************************************)
EXTENDS Login

CONSTANTS t1, t2, p1, p2

TwoTasks == {t1, t2}
TwoPasswords == {p1, p2}

plain(op) ==
    [op |-> op, password |-> p1, new |-> p2, coded |-> FALSE, ahead |-> 1,
     cookie |-> FALSE, remember |-> FALSE, days |-> 1]
wrong(op) == [plain(op) EXCEPT !.password = p2, !.new = p1]
coded(op, S) == {[plain(op) EXCEPT !.coded = TRUE, !.ahead = a] : a \in S}

Without == [password |-> p1, secret |-> NoSecret, enabled |-> FALSE, last |-> 0,
            version |-> 0]
With == [Without EXCEPT !.secret = 1, !.enabled = TRUE]

Base == [user |-> Without, requests |-> [t \in Task |-> {}], alone |-> FALSE,
         one_change |-> TRUE, left |-> 0, ticks |-> 0, faults |-> {}]

Switch == coded("enable", {1, 2}) \cup coded("disable", {2, 3})
Remembering == {[r EXCEPT !.remember = TRUE, !.cookie = TRUE] :
                    r \in coded("login", {0, 1, 2})}

(* Passwords are guessed; sessions end while others open; codes and devices*)
(* one request after another; any two requests at once, changes too.       *)
Guessing ==
    [Base EXCEPT !.requests = [t \in Task |-> {plain("login"), wrong("login"),
                                               wrong("password")}],
                 !.left = 6, !.ticks = 2, !.faults = {"restart"}]
Ending ==
    [Base EXCEPT !.requests = [t \in Task |->
                    {plain("password"), wrong("password"), plain("logout")}
                    \cup IF t = t1 THEN {} ELSE {plain("login"), wrong("login")}],
                 !.left = 5, !.faults = {"restart", "reset"}]
InTurn == {[Base EXCEPT !.user = u, !.alone = TRUE, !.left = 5, !.ticks = 1,
                        !.faults = {"age"},
                        !.requests[t1] = Switch \cup Remembering
                            \cup {plain("login"), plain("setup"), plain("password")}] :
               u \in {Without, With}}
AtOnce ==
    [Base EXCEPT !.user = With, !.one_change = FALSE, !.left = 3,
                 !.faults = {"age", "restart"},
                 !.requests[t1] = {plain(op) : op \in {"login", "password",
                        "logout", "days", "forget", "forget_all", "devices", "setup"}}
                     \cup {[plain("days") EXCEPT !.days = 0]} \cup Switch,
                 !.requests[t2] = Remembering \cup {plain("logout")}]
AllWorlds == {Guessing, Ending, AtOnce} \cup InTurn

ASSUME UndisturbedAssumption == Undisturbed
=============================================================================
