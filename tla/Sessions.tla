------------------------------ MODULE Sessions ------------------------------
(***************************************************************************)
(* What the login promises: a session is opened with the password of that  *)
(* moment, and a change of the password or a logout ends all of them       *)
(* (api/auth.py:173-210, deps.py:37-39).                                   *)
(***************************************************************************)
CONSTANTS Password

VARIABLES
    password,   \* the password of the account
    sessions    \* the passwords under which the open sessions were opened

TypeOK == password \in Password /\ sessions \subseteq Password

Init == password \in Password /\ sessions \in SUBSET {password}

SignIn == sessions' = {password} /\ UNCHANGED password

(* Whoever changes the password is given a session a little later.         *)
ChangePassword ==
    /\ password' \in Password
    /\ sessions' = {}

SignOut == sessions' = {} /\ UNCHANGED password

Next == SignIn \/ ChangePassword \/ SignOut

Spec == Init /\ [][Next]_<<password, sessions>>
=============================================================================
