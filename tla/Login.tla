-------------------------------- MODULE Login --------------------------------
(***************************************************************************)
(* Signing in to the panel: the password, the one-time code and the        *)
(* devices that need none, the sessions, and the lockout after failures    *)
(* (api/auth.py, devices.py, ratelimit.py, deps.py, bootstrap.py).         *)
(*                                                                         *)
(* One account, one client address.  A request loads the row of the user   *)
(* first and works with that copy to its end; what it writes are the       *)
(* columns it has changed (the session of SQLAlchemy, expire_on_commit     *)
(* off).  A step is the code from one access to the database to the next.  *)
(***************************************************************************)
EXTENDS Naturals, FiniteSets, SequencesExt

CONSTANTS
    Task,           \* requests at the same time
    Password,
    NoSecret,
    MAX_FAILURES, WINDOW, LOCKOUT,   \* of failures, in units of time
    MAX_DEVICES,
    Worlds          \* how a behaviour starts and what it admits

Secret == Nat \cup {NoSecret}
User == [password : Password, secret : Secret, enabled : BOOLEAN, last : Nat,
         version : Nat]

(* A code is of a secret and a step of the clock; code 0 is none.          *)
Code == [secret : Secret, counter : Nat]

(* A request; offset says of which step the code is, seen from now, cookie *)
(* whether it carries the cookie of a device, and days is the new setting. *)
Request == [op : {"login", "password", "logout", "setup", "enable", "disable",
                  "days", "forget", "forget_all", "devices"},
            password : Password, new : Password, coded : BOOLEAN,
            ahead : 0..3, cookie : BOOLEAN, remember : BOOLEAN, days : 0..1]

(* Devices remember, for the properties, the password and the secret of    *)
(* the login that made them.                                               *)
Device == [password : Password, secret : Secret, expired : BOOLEAN]
Token == [version : Nat, password : Password]

FaultKind == {"restart", "reset", "age"}

(* one_change: requests that end sessions do not overlap; alone: no        *)
(* requests do.                                                            *)
World == [user : User, requests : [Task -> SUBSET Request], alone : BOOLEAN,
          one_change : BOOLEAN, left : Nat, ticks : Nat,
          faults : SUBSET FaultKind]

ASSUME LoginAssumption ==
    /\ MAX_FAILURES \in Nat \ {0} /\ WINDOW \in Nat /\ LOCKOUT \in Nat
    /\ MAX_DEVICES \in Nat \ {0}
    /\ IsFiniteSet(Task) /\ NoSecret \notin Nat
    /\ \A w \in Worlds : w \in World

Where == {"idle", "load", "verify", "check", "code", "issue", "issue_remember",
          "trust_days", "remember", "cut", "confirm", "logout", "set_days",
          "forget", "reply"}

VARIABLES
    user,       \* database: the row of the account
    devices,    \* database: trusted devices, the last used first
    days,       \* database: 0 if devices are not to be trusted
    tokens,     \* sessions issued
    failures,   \* memory: when sign-ins and confirmations failed
    now,        \* the clock, in steps of a code
    pc, request, code, row,   \* where a request is, and its copy of the user
    made,       \* secrets made so far
    used,       \* history: codes accepted
    again,      \* history: a code was accepted twice
    uncut,      \* history: sign-ins killed before they had cut the devices
    world       \* what this behaviour admits

database == <<user, devices, days>>
history == <<made, used, again, uncut>>
vars == <<user, devices, days, tokens, failures, now, pc, request, code, row,
          made, used, again, uncut, world>>

NoCode == [secret |-> NoSecret, counter |-> 0]
NoRequest == [op |-> "none"]
NoRow == [version |-> 0]

Init ==
    /\ world \in Worlds
    /\ user = world.user
    /\ devices = << >> /\ days = 1
    /\ tokens = {[version |-> user.version, password |-> user.password]}
    /\ failures = [k \in {"login", "stepup"} |-> << >>]
    /\ now = 2
    /\ pc = [t \in Task |-> "idle"]
    /\ request = [t \in Task |-> NoRequest]
    /\ code = [t \in Task |-> NoCode]
    /\ row = [t \in Task |-> NoRow]
    /\ made = 1 /\ used = {} /\ again = FALSE /\ uncut = 0

(* --- failures and codes ------------------------------------------------- *)

within(k, span) == {i \in DOMAIN failures[k] : now - failures[k][i] < span}

(* Slip: the lockout is as short as the window of the alert.               *)
is_locked_in_window(k) == Cardinality(within(k, WINDOW)) >= MAX_FAILURES

is_locked(k) == Cardinality(within(k, LOCKOUT)) >= MAX_FAILURES

(* The list is in order of time, so what is too old comes first.           *)
record_failure(k) ==
    LET old == Cardinality(DOMAIN failures[k] \ within(k, LOCKOUT))
    IN  failures' = [failures EXCEPT ![k] =
                        Append(SubSeq(@, old + 1, Len(@)), now)]

clear(k) == failures' = [failures EXCEPT ![k] = << >>]

(* The code of the step before, of this one or of the next, not used yet.  *)
accepted(t) ==
    /\ row[t].secret # NoSecret /\ code[t].secret = row[t].secret
    /\ code[t].counter \in now - 1 .. now + 1
    /\ code[t].counter > row[t].last

Used(t) ==
    /\ used' = used \cup {code[t]}
    /\ again' = (again \/ code[t] \in used)

(* --- what a request is made of ----------------------------------------- *)

Goto(t, where) == pc' = [pc EXCEPT ![t] = where]

Finish(t) ==
    /\ Goto(t, "idle")
    /\ request' = [request EXCEPT ![t] = NoRequest]
    /\ code' = [code EXCEPT ![t] = NoCode]
    /\ row' = [row EXCEPT ![t] = NoRow]

Quiet == \A t \in Task : pc[t] = "idle"

(* Changes of the token version, past the moment the user was loaded.      *)
Changing == {"password", "logout"}
Changer(t) == request[t].op \in Changing /\ pc[t] # "load"

given(t) == request[t].password = row[t].password

(* A request comes in; the lockout is looked at before the user is loaded. *)
Arrive(t) ==
    /\ pc[t] = "idle" /\ world.left > 0
    /\ world.alone => Quiet
    /\ \E r \in world.requests[t] :
        /\ r.op = "login" => ~ is_locked("login")
        /\ request' = [request EXCEPT ![t] = r]
        /\ code' = [code EXCEPT ![t] =
                IF r.coded THEN [secret |-> user.secret,
                                 counter |-> (now + r.ahead) - 1]
                ELSE NoCode]
    /\ Goto(t, "load")
    /\ world' = [world EXCEPT !.left = @ - 1]
    /\ UNCHANGED <<database, tokens, failures, now, row, history>>

first_step(op) ==
    CASE op = "login" -> "verify"
      [] op = "days" -> "set_days"
      [] op \in {"forget", "forget_all", "devices"} -> "forget"
      [] op = "logout" -> "logout"
      [] OTHER -> "confirm"

(* get_current_user: other requests need a token of the present version.   *)
Load(t) ==
    LET op == request[t].op
    IN  /\ pc[t] = "load"
        /\ op \in Changing /\ world.one_change => ~ \E s \in Task : Changer(s)
        /\ IF op = "login" \/ \E k \in tokens : k.version = user.version
           THEN /\ row' = [row EXCEPT ![t] = user]
                /\ Goto(t, first_step(op))
                /\ UNCHANGED <<request, code>>
           ELSE Finish(t)
        /\ UNCHANGED <<database, tokens, failures, now, history, world>>

(* --- login --------------------------------------------------------------- *)

Verify(t) ==
    /\ pc[t] = "verify"
    /\ IF ~ given(t)
       THEN record_failure("login") /\ Finish(t)
       ELSE /\ Goto(t, IF row[t].enabled THEN "check" ELSE "issue")
            /\ UNCHANGED <<failures, request, code, row>>
    /\ UNCHANGED <<database, tokens, now, history, world>>

(* devices.check: the cookie is of a device that is known, or of none; one *)
(* whose days are over is deleted.                                         *)
CheckDevice(t) ==
    /\ pc[t] = "check"
    /\ \/ Goto(t, "code") /\ UNCHANGED devices
       \/ /\ request[t].cookie /\ days > 0
          /\ \E i \in DOMAIN devices :
              /\ Goto(t, IF devices[i].expired THEN "code" ELSE "issue")
              /\ devices' = (IF devices[i].expired THEN << >>
                             ELSE <<devices[i]>>) \o RemoveAt(devices, i)
    /\ UNCHANGED <<user, days, tokens, failures, now, request, code, row,
                   history, world>>

(* No code is not a failure; a wrong or a used one is.                     *)
CheckCode(t) ==
    /\ pc[t] = "code"
    /\ IF ~ accepted(t)
       THEN /\ Finish(t)
            /\ IF code[t] = NoCode THEN UNCHANGED failures
               ELSE record_failure("login")
            /\ UNCHANGED <<user, used, again>>
       ELSE /\ user' = [user EXCEPT !.last = code[t].counter]
            /\ Used(t)
            /\ Goto(t, IF request[t].remember THEN "issue_remember" ELSE "issue")
            /\ UNCHANGED <<failures, request, code, row>>
    /\ UNCHANGED <<devices, days, tokens, now, made, uncut, world>>

(* Slip: the version is read when the token is written.                    *)
token_version_now(t) == user.version

token_version(t) == row[t].version

Issue(t) ==
    /\ pc[t] \in {"issue", "issue_remember"}
    /\ clear("login")
    /\ tokens' = tokens \cup {[version |-> token_version(t),
                               password |-> row[t].password]}
    /\ IF pc[t] = "issue" THEN Finish(t)
       ELSE Goto(t, "trust_days") /\ UNCHANGED <<request, code, row>>
    /\ UNCHANGED <<database, now, history, world>>

TrustDays(t) ==
    /\ pc[t] = "trust_days"
    /\ IF days = 0 THEN Finish(t)
       ELSE Goto(t, "remember") /\ UNCHANGED <<request, code, row>>
    /\ UNCHANGED <<database, tokens, failures, now, history, world>>

(* What a sequence has at some of its places, in its order.                *)
at(s, places) ==
    LET nth(k) == CHOOSE i \in places : Cardinality({j \in places : j <= i}) = k
    IN  [k \in 1..Cardinality(places) |-> s[nth(k)]]

unexpired(ds) == at(ds, {i \in DOMAIN ds : ~ ds[i].expired})

(* The device is added and committed; what is over the limit goes after.   *)
Remember(t) ==
    /\ pc[t] = "remember"
    /\ LET d == [password |-> row[t].password, secret |-> row[t].secret,
                 expired |-> FALSE]
       IN  devices' = <<d>> \o unexpired(devices)
    /\ Goto(t, "cut")
    /\ UNCHANGED <<user, days, tokens, failures, now, request, code, row, history,
                   world>>

(* Slip: the list of devices is not cut.                                   *)
newest_all == devices

(* The ones used last.                                                     *)
newest ==
    SubSeq(devices, 1, IF Len(devices) > MAX_DEVICES THEN MAX_DEVICES
                       ELSE Len(devices))

CutDevices(t) ==
    /\ pc[t] = "cut"
    /\ devices' = newest
    /\ Finish(t)
    /\ uncut' = 0
    /\ UNCHANGED <<user, days, tokens, failures, now, made, used, again, world>>

(* --- requests of a session ---------------------------------------------- *)

(* Slip: the switch of the second factor does not count the code.          *)
after_code_uncounted(t) == [user EXCEPT !.enabled = ~ row[t].enabled]

(* 2fa_enable, 2fa_disable: the columns they write.                        *)
after_code(t) ==
    [user EXCEPT !.enabled = ~ row[t].enabled, !.last = code[t].counter]

Change(t) ==
    /\ request[t].op = "password"
    /\ user' = [user EXCEPT !.password = request[t].new,
                            !.version = row[t].version + 1]
    /\ row' = [row EXCEPT ![t].password = request[t].new,
                          ![t].version = @ + 1]
    /\ Goto(t, "forget")
    /\ UNCHANGED <<request, code, made, used, again>>

Setup(t) ==
    /\ request[t].op = "setup"
    /\ user' = IF row[t].enabled THEN user
               ELSE [user EXCEPT !.secret = made + 1]
    /\ made' = IF row[t].enabled THEN made ELSE made + 1
    /\ Finish(t)
    /\ UNCHANGED <<used, again>>

Enable(t) ==
    /\ request[t].op = "enable"
    /\ IF ~ row[t].enabled /\ accepted(t)
       THEN user' = after_code(t) /\ Used(t)
       ELSE UNCHANGED <<user, used, again>>
    /\ Finish(t)
    /\ UNCHANGED made

Disable(t) ==
    /\ request[t].op = "disable"
    /\ IF row[t].enabled /\ accepted(t)
       THEN /\ user' = [after_code(t) EXCEPT !.secret = NoSecret]
            /\ Used(t)
            /\ Goto(t, "forget")
            /\ UNCHANGED <<request, code, row>>
       ELSE Finish(t) /\ UNCHANGED <<user, used, again>>
    /\ UNCHANGED made

(* The present password confirms the operation; its failures have a        *)
(* counter of their own.                                                   *)
Confirm(t) ==
    /\ pc[t] = "confirm"
    /\ IF is_locked("stepup")
       THEN Finish(t) /\ UNCHANGED <<user, failures, made, used, again>>
       ELSE IF ~ given(t)
       THEN /\ record_failure("stepup") /\ Finish(t)
            /\ UNCHANGED <<user, made, used, again>>
       ELSE /\ clear("stepup")
            /\ Change(t) \/ Setup(t) \/ Enable(t) \/ Disable(t)
    /\ UNCHANGED <<devices, days, tokens, now, uncut, world>>

Logout(t) ==
    /\ pc[t] = "logout"
    /\ user' = [user EXCEPT !.version = row[t].version + 1]
    /\ Finish(t)
    /\ UNCHANGED <<devices, days, tokens, failures, now, history, world>>

SetTrustDays(t) ==
    /\ pc[t] = "set_days"
    /\ days' = request[t].days
    /\ IF request[t].days = 0
       THEN Goto(t, "forget") /\ UNCHANGED <<request, code, row>>
       ELSE Finish(t)
    /\ UNCHANGED <<user, devices, tokens, failures, now, history, world>>

(* Slip: the devices outlive the second factor.                            *)
kept_with_codes_off(t) ==
    CASE request[t].op = "devices" -> {unexpired(devices)}
      [] request[t].op = "disable" -> {devices}
      [] request[t].op = "forget" -> {RemoveAt(devices, i) : i \in DOMAIN devices}
      [] OTHER -> {<< >>}

(* The list drops what has expired; one device is forgotten, or all: on    *)
(* demand, with the setting, the password or the second factor.            *)
kept(t) ==
    CASE request[t].op = "devices" -> {unexpired(devices)}
      [] request[t].op = "forget" -> {RemoveAt(devices, i) : i \in DOMAIN devices}
      [] OTHER -> {<< >>}

Forget(t) ==
    /\ pc[t] = "forget"
    /\ devices' \in (IF kept(t) = {} THEN {devices} ELSE kept(t))
    /\ IF request[t].op = "password"
       THEN Goto(t, "reply") /\ UNCHANGED <<request, code, row>>
       ELSE Finish(t)
    /\ UNCHANGED <<user, days, tokens, failures, now, history, world>>

(* change_password signs the client in anew.                               *)
Reply(t) ==
    /\ pc[t] = "reply"
    /\ tokens' = tokens \cup {[version |-> token_version(t),
                               password |-> row[t].password]}
    /\ Finish(t)
    /\ UNCHANGED <<database, failures, now, history, world>>

(* --- around the requests ------------------------------------------------ *)

Tick ==
    /\ world.ticks > 0
    /\ now' = now + 1
    /\ world' = [world EXCEPT !.ticks = @ - 1]
    /\ UNCHANGED <<database, tokens, failures, pc, request, code, row, history>>

(* The days of a device are over.                                          *)
Age ==
    /\ "age" \in world.faults
    /\ \E i \in DOMAIN devices :
        /\ ~ devices[i].expired
        /\ devices' = [devices EXCEPT ![i].expired = TRUE]
    /\ UNCHANGED <<user, days, tokens, failures, now, pc, request, code, row,
                   history, world>>

Cutting == {t \in Task : pc[t] = "cut"}

Halt ==
    /\ failures' = [k \in {"login", "stepup"} |-> << >>]
    /\ pc' = [t \in Task |-> "idle"]
    /\ request' = [t \in Task |-> NoRequest]
    /\ code' = [t \in Task |-> NoCode]
    /\ row' = [t \in Task |-> NoRow]
    /\ uncut' = uncut + Cardinality(Cutting)

Restart ==
    /\ "restart" \in world.faults
    /\ Halt
    /\ world' = [world EXCEPT !.faults = @ \ {"restart"}]
    /\ UNCHANGED <<database, tokens, now, made, used, again>>

(* ensure_admin with the reset asked for: the initial password, no second  *)
(* factor, no session.                                                     *)
Reset ==
    /\ "reset" \in world.faults
    /\ Halt
    /\ user' = [user EXCEPT !.password = world.user.password,
                            !.enabled = FALSE, !.secret = NoSecret,
                            !.version = @ + 1]
    /\ world' = [world EXCEPT !.faults = @ \ {"reset"}]
    /\ UNCHANGED <<devices, days, tokens, now, made, used, again>>

Next ==
    \/ \E t \in Task :
        \/ Arrive(t) \/ Load(t) \/ Verify(t) \/ CheckDevice(t) \/ CheckCode(t)
        \/ Issue(t) \/ TrustDays(t) \/ Remember(t) \/ CutDevices(t) \/ Confirm(t)
        \/ Logout(t) \/ SetTrustDays(t) \/ Forget(t) \/ Reply(t)
    \/ Tick \/ Age \/ Restart \/ Reset

Spec == Init /\ [][Next]_vars

(* --- properties --------------------------------------------------------- *)

live(k) == k.version = user.version

(* Variables have their types; a request past the password had it right,   *)
(* as far as its copy of the user goes; the devices are over their limit   *)
(* by no more than the sign-ins still to cut them, or killed before.       *)
TypeOK ==
    /\ user \in User /\ days \in 0..1 /\ now \in Nat
    /\ uncut \in Nat /\ Len(devices) <= MAX_DEVICES + Cardinality(Cutting) + uncut
    /\ \A i \in DOMAIN devices : devices[i] \in Device
    /\ tokens \subseteq Token /\ pc \in [Task -> Where]
    /\ \A t \in Task : pc[t] \notin {"idle", "load"} => row[t] \in User
    /\ \A t \in Task : pc[t] \in {"check", "code", "issue", "issue_remember"} =>
           given(t)

(* deps.py:37-39: a session that passes was opened with the password of    *)
(* today, as long as requests that end sessions do not overlap; sign-ins   *)
(* may overlap anything.                                                   *)
SessionsOfThisPassword ==
    world.one_change => \A k \in tokens : live(k) => k.password = user.password

(* ratelimit.py:54-62: as many failures as the lockout allows, and one for *)
(* every request that had passed the gate before; confirmations are looked *)
(* at and counted in one go.                                               *)
AttemptsBounded ==
    /\ Cardinality(within("login", LOCKOUT)) < MAX_FAILURES + Cardinality(Task)
    /\ Cardinality(within("stepup", LOCKOUT)) <= MAX_FAILURES

(* api/auth.py:302-304: a code is good once, for whatever it was entered,  *)
(* when requests do not overlap.                                           *)
CodeOnce == world.alone => ~ again

(* api/auth.py:182-185, 329-331: a device that needs no code has entered   *)
(* one, with the secret and the password of today.                         *)
DevicesHaveEnteredACode ==
    (world.alone /\ Quiet) =>
        \A i \in DOMAIN devices :
            /\ user.enabled
            /\ devices[i].secret = user.secret
            /\ devices[i].password = user.password

(* What the theorem about devices supposes: where requests do not overlap, *)
(* the panel is not stopped between a change and the devices it forgets,   *)
(* nor the second factor switched off from outside.                        *)
Undisturbed == \A w \in Worlds : w.alone => w.faults \subseteq {"age"}

(* The same against Sessions: a sign-in opens a session of today's password*)
(* or none, a change of the password or a logout ends all of them.         *)
open == {k.password : k \in {k \in tokens : live(k)}}
Abstract == INSTANCE Sessions WITH password <- user.password, sessions <- open
SessionsKept ==
    /\ Abstract!Init
    /\ [][world.one_change =>
             Abstract!Next \/ UNCHANGED <<user.password, open>>]_vars
=============================================================================
