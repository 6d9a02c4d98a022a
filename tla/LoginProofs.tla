---------------------------- MODULE LoginProofs ----------------------------
(***************************************************************************)
(* Sessions and the password they were opened with, codes and their one    *)
(* use, failures and the lockout, trusted devices: for any number of       *)
(* requests at a time, any passwords, any requests, restarts and resets.   *)
(***************************************************************************)
EXTENDS Login, FiniteSetTheorems, SequenceTheorems, TLAPS

Past(t) == pc[t] \notin {"idle", "load"}

(* What the variables hold that the argument needs.                        *)
TaskTyped(t) ==
    /\ pc[t] # "idle" => request[t] \in Request
    /\ pc[t] = "idle" => request[t] = NoRequest
    /\ Past(t) => row[t] \in User
    /\ pc[t] = "logout" => request[t].op = "logout"

TasksTyped ==
    /\ pc \in [Task -> Where]
    /\ request \in [Task -> Request \cup {NoRequest}]
    /\ code \in [Task -> Code] /\ row \in [Task -> User \cup {NoRow}]
    /\ \A t \in Task : TaskTyped(t)

RestTyped ==
    /\ world \in World /\ user \in User /\ tokens \subseteq Token
    /\ made \in Nat /\ now \in Nat \ {0}

Typed == TasksTyped /\ RestTyped

(* Nothing is newer than the user's row, and what is as new was made with  *)
(* its password.                                                           *)
AsOf(r) ==
    /\ r.version <= user.version
    /\ r.version = user.version => r.password = user.password

(* A request that is about to end the sessions has the row of today: no    *)
(* other such request is under way.                                        *)
About(t) == pc[t] \in {"confirm", "logout"} /\ request[t].op \in Changing

Order ==
    /\ \A k \in tokens : AsOf(k)
    /\ \A t \in Task : Past(t) => AsOf(row[t])
    /\ \A s, t \in Task : Changer(s) /\ Changer(t) => s = t
    /\ \A t \in Task : About(t) => row[t].version = user.version

Inv == Typed /\ (world.one_change => Order)

LEMMA InitInv == ASSUME Init PROVE Inv
<1> USE DEF Init, NoRequest, NoCode, NoRow
<1>1. world \in World /\ user \in User
  BY LoginAssumption DEF World
<1>2. Typed
  <2>1. tokens \subseteq Token
    BY <1>1 DEF Token, User
  <2>2. code \in [Task -> Code]
    BY DEF Code, Secret
  <2>3. row \in [Task -> User \cup {NoRow}]
    OBVIOUS
  <2>4. pc \in [Task -> Where]
    BY DEF Where
  <2>5. request \in [Task -> Request \cup {NoRequest}]
    OBVIOUS
  <2> QED
    BY <1>1, <2>1, <2>2, <2>3, <2>4, <2>5
    DEF Typed, TasksTyped, RestTyped, TaskTyped, Past
<1>3. Order
  BY <1>1 DEF Order, AsOf, User, Past, About, Changer, Changing
<1> QED
  BY <1>2, <1>3 DEF Inv

(* A step of a request that ends it, or only moves it on.                  *)
LEMMA FinishTyped ==
    ASSUME TasksTyped, NEW t \in Task, Finish(t) PROVE TasksTyped'
<1>1. pc' \in [Task -> Where]
  BY DEF TasksTyped, Finish, Goto, Where
<1>2. request' \in [Task -> Request \cup {NoRequest}]
  BY DEF TasksTyped, Finish
<1>3. code' \in [Task -> Code]
  <2>1. NoCode \in Code
    BY DEF NoCode, Code, Secret
  <2> QED
    BY <2>1 DEF TasksTyped, Finish
<1>4. row' \in [Task -> User \cup {NoRow}]
  BY DEF TasksTyped, Finish
<1>5. \A u \in Task : TaskTyped(u)'
  BY DEF TasksTyped, TaskTyped, Finish, Goto, Past
<1> QED
  BY <1>1, <1>2, <1>3, <1>4, <1>5 DEF TasksTyped

LEMMA GotoTyped ==
    ASSUME TasksTyped, NEW t \in Task, NEW where \in Where, Goto(t, where),
           pc[t] \notin {"idle", "load"}, where \notin {"idle", "logout"},
           UNCHANGED <<request, code, row>>
    PROVE  TasksTyped'
<1>1. pc' \in [Task -> Where]
  BY DEF TasksTyped, Goto
<1>2. \A u \in Task : TaskTyped(u)'
  BY DEF TasksTyped, TaskTyped, Goto, Past
<1> QED
  BY <1>1, <1>2 DEF TasksTyped

LEMMA ChangeTyped ==
    ASSUME Typed, NEW t \in Task, pc[t] = "confirm",
           Change(t) \/ Setup(t) \/ Enable(t) \/ Disable(t),
           UNCHANGED <<devices, days, tokens, now, world>>
    PROVE  Typed'
<1>1. row[t] \in User /\ request[t] \in Request /\ code[t] \in Code
      /\ user \in User /\ made \in Nat /\ tokens' \subseteq Token
      /\ world' \in World /\ now' \in Nat \ {0}
  BY DEF Typed, TasksTyped, TaskTyped, RestTyped, Past
<1>2. CASE Change(t)
  <2>0. request[t].new \in Password /\ row[t].version + 1 \in Nat
    BY <1>1 DEF User, Request
  <2>1. user' \in User
    <3>1. user' = [user EXCEPT !.password = request[t].new,
                               !.version = row[t].version + 1]
      BY <1>2 DEF Change
    <3> QED
      BY <1>1, <2>0, <3>1 DEF User
  <2>2. row'[t] \in User /\ row' \in [Task -> User \cup {NoRow}]
    BY <1>1, <1>2 DEF Change, User, Request, Typed, TasksTyped
  <2>3. \A u \in Task : u # t => row'[u] = row[u]
    BY <1>2 DEF Change, Typed, TasksTyped
  <2> QED
    <3>1. pc' = [pc EXCEPT ![t] = "forget"] /\ pc' \in [Task -> Where]
      BY <1>2 DEF Change, Goto, Typed, TasksTyped, Where
    <3>2. UNCHANGED <<request, code, made>>
      BY <1>2 DEF Change, history
    <3>3. \A u \in Task : TaskTyped(u)'
      BY <1>1, <2>2, <2>3, <3>1, <3>2 DEF Typed, TasksTyped, TaskTyped, Past
    <3> QED
      BY <1>1, <2>1, <2>2, <3>1, <3>2, <3>3 DEF Typed, TasksTyped, RestTyped
<1>3. CASE Setup(t)
  <2>1. user' \in User /\ made' \in Nat
    BY <1>1, <1>3 DEF Setup, User, Secret
  <2> QED
    BY <1>1, <1>3, <2>1, FinishTyped DEF Setup, Typed, RestTyped
<1>4. CASE Enable(t)
  <2>1. user' \in User /\ made' \in Nat
    BY <1>1, <1>4 DEF Enable, after_code, User, Code
  <2> QED
    BY <1>1, <1>4, <2>1, FinishTyped DEF Enable, Typed, RestTyped
<1>5. CASE Disable(t)
  <2>1. user' \in User /\ made' \in Nat
    BY <1>1, <1>5 DEF Disable, after_code, User, Code, Secret
  <2>2. CASE Finish(t)
    BY <1>1, <1>5, <2>1, <2>2, FinishTyped DEF Disable, Typed, RestTyped
  <2>3. CASE Goto(t, "forget") /\ UNCHANGED <<request, code, row>>
    <3>1. TasksTyped'
      BY <2>3, GotoTyped DEF Typed, Where
    <3> QED
      BY <1>1, <1>5, <2>1, <3>1 DEF Disable, Typed, RestTyped
  <2> QED
    BY <1>5, <2>2, <2>3 DEF Disable
<1> QED
  BY <1>2, <1>3, <1>4, <1>5

LEMMA TypedStep == ASSUME Typed, [Next]_vars PROVE Typed'
<1> USE DEF database, history
<1>1. /\ world \in World /\ user \in User /\ tokens \subseteq Token
      /\ made \in Nat /\ now \in Nat \ {0} /\ TasksTyped
      /\ \A t \in Task : Past(t) => row[t] \in User
  BY DEF Typed, TasksTyped, TaskTyped, RestTyped
<1>2. ASSUME NEW t \in Task, Arrive(t) PROVE Typed'
  <2>1. world' \in World
    BY <1>1, <1>2 DEF Arrive, World
  <2>2. PICK r \in world.requests[t] :
            /\ request' = [request EXCEPT ![t] = r]
            /\ code' = [code EXCEPT ![t] =
                   IF r.coded THEN [secret |-> user.secret,
                                    counter |-> (now + r.ahead) - 1]
                   ELSE NoCode]
    BY <1>2 DEF Arrive
  <2>3. r \in Request
    BY <1>1 DEF World
  <2>4. code' \in [Task -> Code]
    <3>1. (now + r.ahead) - 1 \in Nat
      BY <1>1, <2>3 DEF Request
    <3>2. [secret |-> user.secret, counter |-> (now + r.ahead) - 1] \in Code
      BY <1>1, <3>1 DEF Code, User
    <3>3. NoCode \in Code
      BY DEF NoCode, Code, Secret
    <3> QED
      BY <1>1, <2>2, <3>2, <3>3 DEF TasksTyped
  <2>5. TasksTyped'
    <3>1. pc' = [pc EXCEPT ![t] = "load"] /\ pc' \in [Task -> Where]
      BY <1>1, <1>2 DEF Arrive, Goto, TasksTyped, Where
    <3>2. \A u \in Task : TaskTyped(u)'
      BY <1>1, <1>2, <2>2, <2>3, <3>1 DEF Arrive, TasksTyped, TaskTyped, Past
    <3> QED
      BY <1>1, <1>2, <2>2, <2>3, <2>4, <3>1, <3>2 DEF Arrive, TasksTyped
  <2> QED
    BY <1>1, <1>2, <2>1, <2>5 DEF Arrive, Typed, RestTyped
<1>3. ASSUME NEW t \in Task, Load(t) PROVE Typed'
  <2>1. UNCHANGED <<user, tokens, made, now, world>>
    BY <1>3 DEF Load
  <2>2. TasksTyped'
    <3>1. CASE Finish(t)
      BY <1>1, <3>1, FinishTyped
    <3>2. CASE /\ row' = [row EXCEPT ![t] = user]
               /\ Goto(t, first_step(request[t].op))
               /\ UNCHANGED <<request, code>>
      <4>1. first_step(request[t].op) \in Where \ {"idle"}
        BY DEF first_step, Where
      <4>2. first_step(request[t].op) = "logout" => request[t].op = "logout"
        BY DEF first_step
      <4>3. pc' \in [Task -> Where] /\ row' \in [Task -> User \cup {NoRow}]
        BY <1>1, <3>2, <4>1 DEF TasksTyped, Goto
      <4>4. pc[t] = "load"
        BY <1>3 DEF Load
      <4>5. \A u \in Task : TaskTyped(u)'
        BY <1>1, <3>2, <4>1, <4>2, <4>4 DEF TasksTyped, TaskTyped, Past, Goto
      <4> QED
        BY <1>1, <3>2, <4>3, <4>5 DEF TasksTyped
    <3> QED
      BY <1>3, <3>1, <3>2 DEF Load
  <2> QED
    BY <1>1, <2>1, <2>2 DEF Typed, RestTyped
<1>4. ASSUME NEW t \in Task, Verify(t) PROVE Typed'
  <2>1. UNCHANGED <<user, tokens, made, now, world>>
    BY <1>4 DEF Verify
  <2>2. Finish(t) \/ (\E where \in {"check", "issue"} :
            Goto(t, where) /\ UNCHANGED <<request, code, row>>)
    BY <1>4 DEF Verify
  <2>3. TasksTyped'
    <3>1. pc[t] = "verify" /\ {"check", "issue"} \subseteq Where
      BY <1>4 DEF Verify, Where
    <3> QED
      BY <1>1, <2>2, <3>1, FinishTyped, GotoTyped
  <2> QED
    BY <1>1, <2>1, <2>3 DEF Typed, RestTyped
<1>5. ASSUME NEW t \in Task, CheckDevice(t) PROVE Typed'
  <2>1. UNCHANGED <<user, tokens, made, now, world, request, code, row>>
    BY <1>5 DEF CheckDevice
  <2>2. \E where \in {"code", "issue"} : Goto(t, where)
    BY <1>5 DEF CheckDevice
  <2>3. TasksTyped'
    <3>1. pc[t] = "check" /\ {"code", "issue"} \subseteq Where
      BY <1>5 DEF CheckDevice, Where
    <3> QED
      BY <1>1, <2>1, <2>2, <3>1, GotoTyped
  <2> QED
    BY <1>1, <2>1, <2>3 DEF Typed, RestTyped
<1>6. ASSUME NEW t \in Task, CheckCode(t) PROVE Typed'
  <2>1. UNCHANGED <<tokens, made, now, world>>
    BY <1>6 DEF CheckCode
  <2>2. Finish(t) \/ (\E where \in {"issue", "issue_remember"} :
            Goto(t, where) /\ UNCHANGED <<request, code, row>>)
    BY <1>6 DEF CheckCode
  <2>3. TasksTyped'
    <3>1. pc[t] = "code" /\ {"issue", "issue_remember"} \subseteq Where
      BY <1>6 DEF CheckCode, Where
    <3> QED
      BY <1>1, <2>2, <3>1, FinishTyped, GotoTyped
  <2>4. user' \in User
    <3>1. code[t].counter \in Nat
      BY <1>1 DEF TasksTyped, Code
    <3>2. user' = user \/ user' = [user EXCEPT !.last = code[t].counter]
      BY <1>6 DEF CheckCode
    <3> QED
      BY <1>1, <3>1, <3>2 DEF User
  <2> QED
    BY <1>1, <2>1, <2>3, <2>4 DEF Typed, RestTyped
<1>7. ASSUME NEW t \in Task, Issue(t) PROVE Typed'
  <2>1. UNCHANGED <<user, made, now, world>>
    BY <1>7 DEF Issue
  <2>2. pc[t] \in {"issue", "issue_remember"}
    BY <1>7 DEF Issue
  <2>3. TasksTyped'
    <3>1. Finish(t) \/ (Goto(t, "trust_days") /\ UNCHANGED <<request, code, row>>)
      BY <1>7 DEF Issue
    <3> QED
      BY <1>1, <2>2, <3>1, FinishTyped, GotoTyped DEF Where
  <2>4. tokens' \subseteq Token
    <3>1. row[t] \in User
      BY <1>1, <2>2 DEF Past
    <3>2. [version |-> token_version(t), password |-> row[t].password] \in Token
      BY <3>1 DEF Token, User, token_version
    <3> QED
      BY <1>1, <1>7, <3>2 DEF Issue
  <2> QED
    BY <1>1, <2>1, <2>3, <2>4 DEF Typed, RestTyped
<1>8. ASSUME NEW t \in Task, TrustDays(t) PROVE Typed'
  <2>1. UNCHANGED <<user, tokens, made, now, world>>
    BY <1>8 DEF TrustDays
  <2>2. TasksTyped'
    <3>1. /\ pc[t] = "trust_days"
          /\ Finish(t) \/ (Goto(t, "remember") /\ UNCHANGED <<request, code, row>>)
      BY <1>8 DEF TrustDays
    <3> QED
      BY <1>1, <3>1, FinishTyped, GotoTyped DEF Where
  <2> QED
    BY <1>1, <2>1, <2>2 DEF Typed, RestTyped
<1>9. ASSUME NEW t \in Task, Remember(t) \/ CutDevices(t) PROVE Typed'
  <2>1. UNCHANGED <<user, tokens, made, now, world>>
    BY <1>9 DEF Remember, CutDevices
  <2>2. \/ Finish(t)
        \/ pc[t] = "remember" /\ Goto(t, "cut") /\ UNCHANGED <<request, code, row>>
    BY <1>9 DEF Remember, CutDevices
  <2>3. TasksTyped'
    BY <1>1, <2>2, FinishTyped, GotoTyped DEF Where
  <2> QED
    BY <1>1, <2>1, <2>3 DEF Typed, RestTyped
<1>10. ASSUME NEW t \in Task, Confirm(t) PROVE Typed'
  <2>1. pc[t] = "confirm" /\ UNCHANGED <<devices, days, tokens, now, world>>
    BY <1>10 DEF Confirm
  <2>2. \/ Finish(t) /\ UNCHANGED <<user, made>>
        \/ Change(t) \/ Setup(t) \/ Enable(t) \/ Disable(t)
    BY <1>10 DEF Confirm
  <2>3. CASE Finish(t) /\ UNCHANGED <<user, made>>
    BY <1>1, <2>1, <2>3, FinishTyped DEF Typed, RestTyped
  <2>4. CASE Change(t) \/ Setup(t) \/ Enable(t) \/ Disable(t)
    BY <2>1, <2>4, ChangeTyped
  <2> QED
    BY <2>2, <2>3, <2>4
<1>11. ASSUME NEW t \in Task, Logout(t) PROVE Typed'
  <2>1. UNCHANGED <<tokens, made, now, world>> /\ Finish(t) /\ pc[t] = "logout"
    BY <1>11 DEF Logout
  <2>2. user' \in User
    <3>1. row[t].version + 1 \in Nat
      BY <1>1, <2>1 DEF Past, User
    <3>2. user' = [user EXCEPT !.version = row[t].version + 1]
      BY <1>11 DEF Logout
    <3> QED
      BY <1>1, <3>1, <3>2 DEF User
  <2> QED
    BY <1>1, <2>1, <2>2, FinishTyped DEF Typed, RestTyped
<1>12. ASSUME NEW t \in Task, SetTrustDays(t) PROVE Typed'
  <2>1. UNCHANGED <<user, tokens, made, now, world>>
    BY <1>12 DEF SetTrustDays
  <2>2. TasksTyped'
    <3>1. /\ pc[t] = "set_days"
          /\ Finish(t) \/ (Goto(t, "forget") /\ UNCHANGED <<request, code, row>>)
      BY <1>12 DEF SetTrustDays
    <3> QED
      BY <1>1, <3>1, FinishTyped, GotoTyped DEF Where
  <2> QED
    BY <1>1, <2>1, <2>2 DEF Typed, RestTyped
<1>13. ASSUME NEW t \in Task, Forget(t) PROVE Typed'
  <2>1. UNCHANGED <<user, tokens, made, now, world>>
    BY <1>13 DEF Forget
  <2>2. TasksTyped'
    <3>1. /\ pc[t] = "forget"
          /\ Finish(t) \/ (Goto(t, "reply") /\ UNCHANGED <<request, code, row>>)
      BY <1>13 DEF Forget
    <3> QED
      BY <1>1, <3>1, FinishTyped, GotoTyped DEF Where
  <2> QED
    BY <1>1, <2>1, <2>2 DEF Typed, RestTyped
<1>14. ASSUME NEW t \in Task, Reply(t) PROVE Typed'
  <2>1. /\ UNCHANGED <<user, made, now, world>> /\ Finish(t) /\ pc[t] = "reply"
        /\ tokens' = tokens \cup {[version |-> token_version(t),
                                   password |-> row[t].password]}
    BY <1>14 DEF Reply
  <2>2. tokens' \subseteq Token
    <3>1. row[t] \in User
      BY <1>1, <2>1 DEF Past
    <3>2. [version |-> token_version(t), password |-> row[t].password] \in Token
      BY <3>1 DEF Token, User, token_version
    <3> QED
      BY <1>1, <2>1, <3>2
  <2> QED
    BY <1>1, <2>1, <2>2, FinishTyped DEF Typed, RestTyped
<1>15. ASSUME Tick PROVE Typed'
  <2>1. world' \in World /\ now' \in Nat \ {0}
    BY <1>1, <1>15 DEF Tick, World
  <2>2. UNCHANGED <<user, tokens, made, pc, request, code, row>>
    BY <1>15 DEF Tick
  <2> QED
    BY <1>1, <2>1, <2>2 DEF Typed, TasksTyped, TaskTyped, Past, RestTyped
<1>16. ASSUME Age PROVE Typed'
  <2>1. UNCHANGED <<user, tokens, made, now, world, pc, request, code, row>>
    BY <1>16 DEF Age
  <2> QED
    BY <1>1, <2>1 DEF Typed, TasksTyped, TaskTyped, Past, RestTyped
<1>17. ASSUME Halt PROVE TasksTyped'
  <2>1. pc' \in [Task -> Where]
    BY <1>17 DEF Halt, Where
  <2>2. request' \in [Task -> Request \cup {NoRequest}]
    BY <1>17 DEF Halt
  <2>3. code' \in [Task -> Code]
    <3>1. NoCode \in Code
      BY DEF NoCode, Code, Secret
    <3> QED
      BY <1>17, <3>1 DEF Halt
  <2>4. row' \in [Task -> User \cup {NoRow}]
    BY <1>17 DEF Halt
  <2>5. \A t \in Task : TaskTyped(t)'
    BY <1>17 DEF Halt, TaskTyped, Past
  <2> QED
    BY <2>1, <2>2, <2>3, <2>4, <2>5 DEF TasksTyped
<1>18. ASSUME Restart PROVE Typed'
  <2>1. world' \in World
    BY <1>1, <1>18 DEF Restart, World
  <2>2. TasksTyped' /\ UNCHANGED <<user, tokens, made, now>>
    BY <1>17, <1>18 DEF Restart
  <2> QED
    BY <1>1, <2>1, <2>2 DEF Typed, RestTyped
<1>19. ASSUME Reset PROVE Typed'
  <2>1. world' \in World
    BY <1>1, <1>19 DEF Reset, World
  <2>2. TasksTyped' /\ UNCHANGED <<tokens, made, now>>
    BY <1>17, <1>19 DEF Reset
  <2>3. user' \in User
    <3>1. world.user.password \in Password
      BY <1>1 DEF World, User
    <3>2. user' = [password |-> world.user.password, secret |-> NoSecret,
                   enabled |-> FALSE, last |-> user.last,
                   version |-> user.version + 1]
      BY <1>1, <1>19 DEF Reset, User
    <3>3. user.last \in Nat /\ user.version + 1 \in Nat
      BY <1>1 DEF User
    <3> QED
      BY <3>1, <3>2, <3>3 DEF User, Secret
  <2> QED
    BY <1>1, <2>1, <2>2, <2>3 DEF Typed, RestTyped
<1>20. CASE UNCHANGED vars
  BY <1>1, <1>20 DEF vars, Typed, TasksTyped, TaskTyped, Past, RestTyped
<1> QED
  BY <1>2, <1>3, <1>4, <1>5, <1>6, <1>7, <1>8, <1>9, <1>10, <1>11, <1>12,
     <1>13, <1>14, <1>15, <1>16, <1>18, <1>19, <1>20 DEF Next

(* A request goes on with its row, or ends.                                *)
Onward(t) ==
    Past(t)' => /\ Past(t)
                /\ row'[t] = row[t] /\ request'[t] = request[t]
                /\ pc'[t] = pc[t] \/ pc'[t] \notin {"confirm", "logout"}

(* A request that ends sessions is past its Load in the same sense before  *)
(* and after.                                                              *)
LEMMA ChangerPast ==
    ASSUME TasksTyped, NEW t \in Task, Changer(t) PROVE Past(t)
BY DEF TasksTyped, TaskTyped, Changer, Past, NoRequest, Changing

LEMMA OnwardOrder ==
    ASSUME Typed, Typed', Order,
           user'.version = user.version, user'.password = user.password,
           \A t \in Task : Onward(t),
           \A k \in tokens' : k \in tokens \/
               \E t \in Task : /\ Past(t) /\ k.version = row[t].version
                              /\ k.password = row[t].password
    PROVE  Order'
<1>1. \A k \in tokens' : AsOf(k)'
  BY DEF Order, AsOf
<1>2. \A t \in Task : Past(t)' => AsOf(row[t])'
  BY DEF Order, AsOf, Onward
<1>3. \A t \in Task : Changer(t)' => Changer(t)
  <2>1. \A t \in Task : Changer(t)' => Past(t)'
    BY DEF Typed, TasksTyped, TaskTyped, Changer, Past, NoRequest, Changing
  <2> QED
    BY <2>1 DEF Onward, Changer, Past, Changing
<1>4. \A t \in Task : About(t)' => About(t) /\ row'[t] = row[t]
  BY DEF Onward, About, Past, Changing
<1> QED
  BY <1>1, <1>2, <1>3, <1>4 DEF Order

(* A change of version: everything else becomes older than the row.        *)
LEMMA NewVersionOrder ==
    ASSUME Typed, Typed', Order, NEW t \in Task, About(t),
           user'.version = user.version + 1, UNCHANGED tokens,
           \A s \in Task \ {t} : UNCHANGED <<pc[s], request[s], row[s]>>,
           \/ pc'[t] = "idle"
           \/ /\ pc'[t] = "forget" /\ row'[t].version = user'.version
              /\ row'[t].password = user'.password
              /\ request'[t] = request[t]
    PROVE  Order'
<1>1. user.version \in Nat /\ tokens \subseteq Token
  BY DEF Typed, RestTyped, User
<1>2. \A k \in tokens : k.version \in Nat
  BY <1>1 DEF Token
<1>3. \A k \in tokens' : AsOf(k)'
  BY <1>1, <1>2 DEF Order, AsOf
<1>4. \A s \in Task : Past(s) => row[s].version \in Nat
  BY DEF Typed, TasksTyped, TaskTyped, User
<1>5. \A s \in Task : Past(s)' => AsOf(row[s])'
  <2>1. ASSUME NEW s \in Task, s # t, Past(s)' PROVE AsOf(row[s])'
    <3>1. Past(s) /\ AsOf(row[s]) /\ row'[s] = row[s]
      BY <2>1 DEF Past, Order
    <3> QED
      BY <1>1, <1>4, <3>1 DEF AsOf
  <2>2. Past(t)' => AsOf(row[t])'
    BY <1>1 DEF Past, AsOf
  <2> QED
    BY <2>1, <2>2
<1>6. Changer(t)
  BY DEF About, Changer
<1>7. \A s \in Task : Changer(s)' => s = t
  BY <1>6 DEF Order, Changer
<1>8. \A s \in Task : ~ About(s)'
  <2>1. ASSUME NEW s \in Task, s # t, About(s)' PROVE FALSE
    <3>1. Changer(s)
      BY <2>1 DEF About, Changer
    <3> QED
      BY <1>6, <2>1, <3>1 DEF Order
  <2>2. ~ About(t)'
    BY DEF About
  <2> QED
    BY <2>1, <2>2
<1> QED
  BY <1>3, <1>5, <1>7, <1>8 DEF Order

LEMMA OrderStep ==
    ASSUME Typed, Typed', world.one_change, Order, [Next]_vars PROVE Order'
<1> USE DEF database, history
<1>1. /\ pc \in [Task -> Where] /\ row \in [Task -> User \cup {NoRow}]
      /\ request \in [Task -> Request \cup {NoRequest}]
      /\ user.version \in Nat /\ user \in User
  BY DEF Typed, TasksTyped, RestTyped, User
<1>2. ASSUME NEW t \in Task, Finish(t) PROVE \A s \in Task : Onward(s)
  BY <1>1, <1>2 DEF Finish, Goto, Onward, Past
<1>3. ASSUME NEW t \in Task, NEW where, Goto(t, where), Past(t),
             where \notin {"confirm", "logout"}, UNCHANGED <<request, row>>
      PROVE  \A s \in Task : Onward(s)
  BY <1>1, <1>3 DEF Goto, Onward, Past
<1>4. ASSUME NEW t \in Task, Arrive(t) PROVE Order'
  <2>1. \A s \in Task : Onward(s)
    BY <1>1, <1>4 DEF Arrive, Goto, Onward, Past
  <2>2. UNCHANGED <<user, tokens>>
    BY <1>4 DEF Arrive
  <2> QED
    BY <2>1, <2>2, OnwardOrder
<1>5. ASSUME NEW t \in Task, Load(t) PROVE Order'
  <2>1. UNCHANGED <<user, tokens>> /\ pc[t] = "load"
    BY <1>5 DEF Load
  <2>2. CASE Finish(t)
    BY <1>2, <2>1, <2>2, OnwardOrder
  <2>3. CASE /\ row' = [row EXCEPT ![t] = user] /\ UNCHANGED request
             /\ Goto(t, first_step(request[t].op))
    <3>1. \A s \in Task : s # t => UNCHANGED <<pc[s], row[s], request[s]>>
      BY <1>1, <2>3 DEF Goto
    <3>2. row'[t] = user' /\ request' = request
      BY <1>1, <2>1, <2>3
    <3>3. \A k \in tokens' : AsOf(k)'
      BY <2>1 DEF Order, AsOf
    <3>4. \A s \in Task : Past(s)' => AsOf(row[s])'
      BY <1>1, <2>1, <3>1, <3>2 DEF Order, AsOf, Past
    <3>5. \A s \in Task : s # t => (Changer(s)' => Changer(s))
      BY <3>1 DEF Changer
    <3>6. Changer(t)' => \A s \in Task : ~ Changer(s)
      BY <1>5, <3>2 DEF Load, Changer
    <3>7. \A s \in Task : About(s)' => row'[s].version = user'.version
      <4>1. \A s \in Task : s # t => (About(s)' => About(s))
        BY <3>1 DEF About
      <4> QED
        BY <2>1, <3>1, <3>2, <4>1 DEF Order
    <3> QED
      BY <3>3, <3>4, <3>5, <3>6, <3>7 DEF Order
  <2> QED
    BY <1>5, <2>2, <2>3 DEF Load
<1>6. ASSUME NEW t \in Task, Verify(t) PROVE Order'
  <2>1. UNCHANGED <<user, tokens>> /\ pc[t] = "verify"
    BY <1>6 DEF Verify
  <2>2. Finish(t) \/ \E where \in {"check", "issue"} :
            Goto(t, where) /\ UNCHANGED <<request, row>>
    BY <1>6 DEF Verify
  <2>3. \A s \in Task : Onward(s)
    BY <1>2, <1>3, <2>1, <2>2 DEF Past
  <2> QED
    BY <2>1, <2>3, OnwardOrder
<1>7. ASSUME NEW t \in Task, CheckDevice(t) PROVE Order'
  <2>1. UNCHANGED <<user, tokens, request, row>> /\ pc[t] = "check"
    BY <1>7 DEF CheckDevice
  <2>2. \E where \in {"code", "issue"} : Goto(t, where)
    BY <1>7 DEF CheckDevice
  <2>3. \A s \in Task : Onward(s)
    BY <1>3, <2>1, <2>2 DEF Past
  <2> QED
    BY <2>1, <2>3, OnwardOrder
<1>8. ASSUME NEW t \in Task, CheckCode(t) PROVE Order'
  <2>1. UNCHANGED tokens /\ pc[t] = "code"
    BY <1>8 DEF CheckCode
  <2>2. user'.version = user.version /\ user'.password = user.password
    BY <1>1, <1>8 DEF CheckCode, User
  <2>3. Finish(t) \/ \E where \in {"issue", "issue_remember"} :
            Goto(t, where) /\ UNCHANGED <<request, row>>
    BY <1>8 DEF CheckCode
  <2>4. \A s \in Task : Onward(s)
    BY <1>2, <1>3, <2>1, <2>3 DEF Past
  <2> QED
    BY <2>1, <2>2, <2>4, OnwardOrder
<1>9. ASSUME NEW t \in Task, Issue(t) PROVE Order'
  <2>1. UNCHANGED user /\ Past(t)
    BY <1>9 DEF Issue, Past
  <2>2. Finish(t) \/ (Goto(t, "trust_days") /\ UNCHANGED <<request, row>>)
    BY <1>9 DEF Issue
  <2>3. \A s \in Task : Onward(s)
    BY <1>2, <1>3, <2>1, <2>2
  <2>4. \A k \in tokens' : k \in tokens \/ (/\ k.version = row[t].version
                                          /\ k.password = row[t].password)
    BY <1>9 DEF Issue, token_version
  <2> QED
    BY <2>1, <2>3, <2>4, OnwardOrder
<1>10. ASSUME NEW t \in Task, TrustDays(t) \/ Remember(t) \/ CutDevices(t) \/ SetTrustDays(t)
                                \/ Forget(t)
       PROVE Order'
  <2>1. UNCHANGED <<user, tokens>> /\ Past(t)
    BY <1>10 DEF TrustDays, Remember, CutDevices, SetTrustDays, Forget, Past
  <2>2. Finish(t) \/ \E where \in {"remember", "cut", "forget", "reply"} :
            Goto(t, where) /\ UNCHANGED <<request, row>>
    BY <1>10 DEF TrustDays, Remember, CutDevices, SetTrustDays, Forget
  <2>3. \A s \in Task : Onward(s)
    BY <1>2, <1>3, <2>1, <2>2
  <2> QED
    BY <2>1, <2>3, OnwardOrder
<1>11. ASSUME NEW t \in Task, Confirm(t) PROVE Order'
  <2>1. UNCHANGED tokens /\ pc[t] = "confirm"
    BY <1>11 DEF Confirm
  <2>2. CASE Change(t)
    <3>1. About(t) /\ row[t].version = user.version
      BY <2>1, <2>2 DEF Change, About, Changing, Order
    <3>2. row[t] \in User
      BY <2>1 DEF Typed, TasksTyped, TaskTyped, Past
    <3>3. user'.version = user.version + 1 /\ user'.password = request[t].new
      BY <1>1, <2>2, <3>1 DEF Change, User
    <3>4. /\ row'[t].version = user.version + 1
          /\ row'[t].password = request[t].new
      BY <1>1, <2>2, <3>1, <3>2 DEF Change, User
    <3>5. /\ pc'[t] = "forget" /\ request' = request
          /\ \A s \in Task \ {t} : UNCHANGED <<pc[s], request[s], row[s]>>
      BY <1>1, <2>2 DEF Change, Goto
    <3> QED
      BY <2>1, <3>1, <3>3, <3>4, <3>5, NewVersionOrder
  <2>3. CASE ~ Change(t)
    <3>1. user'.version = user.version /\ user'.password = user.password
      BY <1>1, <1>11, <2>3
      DEF Confirm, Setup, Enable, Disable, after_code, User
    <3>2. Finish(t) \/ (Goto(t, "forget") /\ UNCHANGED <<request, row>>)
      BY <1>11, <2>3 DEF Confirm, Setup, Enable, Disable
    <3>3. \A s \in Task : Onward(s)
      BY <1>2, <1>3, <2>1, <3>2 DEF Past
    <3> QED
      BY <2>1, <3>1, <3>3, OnwardOrder
  <2> QED
    BY <2>2, <2>3
<1>12. ASSUME NEW t \in Task, Logout(t) PROVE Order'
  <2>1. UNCHANGED tokens /\ pc[t] = "logout" /\ Finish(t)
    BY <1>12 DEF Logout
  <2>2. About(t) /\ row[t].version = user.version
    BY <2>1 DEF About, Changing, Order, Typed, TasksTyped, TaskTyped
  <2>3. user'.version = user.version + 1
    BY <1>1, <1>12, <2>2 DEF Logout, User
  <2>4. /\ pc'[t] = "idle"
        /\ \A s \in Task \ {t} : UNCHANGED <<pc[s], request[s], row[s]>>
    BY <1>1, <2>1 DEF Finish, Goto
  <2> QED
    BY <2>1, <2>2, <2>3, <2>4, NewVersionOrder
<1>13. ASSUME NEW t \in Task, Reply(t) PROVE Order'
  <2>1. UNCHANGED user /\ Past(t) /\ Finish(t)
    BY <1>13 DEF Reply, Past
  <2>2. \A s \in Task : Onward(s)
    BY <1>2, <2>1
  <2>3. \A k \in tokens' : k \in tokens \/ (/\ k.version = row[t].version
                                          /\ k.password = row[t].password)
    BY <1>13 DEF Reply, token_version
  <2> QED
    BY <2>1, <2>2, <2>3, OnwardOrder
<1>14. CASE Tick \/ Age \/ UNCHANGED vars
  <2>1. UNCHANGED <<user, tokens, pc, request, row>>
    BY <1>14 DEF Tick, Age, vars
  <2>2. \A s \in Task : Onward(s)
    BY <2>1 DEF Onward, Past
  <2> QED
    BY <2>1, <2>2, OnwardOrder
<1>15. ASSUME Halt PROVE \A s \in Task : Onward(s)
  BY <1>15 DEF Halt, Onward, Past
<1>16. CASE Restart
  <2>1. UNCHANGED <<user, tokens>> /\ Halt
    BY <1>16 DEF Restart
  <2> QED
    BY <1>15, <2>1, OnwardOrder
<1>17. CASE Reset
  <2>1. UNCHANGED tokens /\ Halt /\ user'.version = user.version + 1
    BY <1>1, <1>17 DEF Reset, User
  <2>2. \A k \in tokens : k.version \in Nat
    BY DEF Typed, RestTyped, Token
  <2>3. \A k \in tokens' : AsOf(k)'
    BY <1>1, <2>1, <2>2 DEF Order, AsOf
  <2>4. \A s \in Task : ~ Past(s)' /\ ~ Changer(s)' /\ ~ About(s)'
    BY <2>1 DEF Halt, Past, Changer, About, NoRequest, Changing
  <2> QED
    BY <2>3, <2>4 DEF Order
<1> QED
  BY <1>4, <1>5, <1>6, <1>7, <1>8, <1>9, <1>10, <1>11, <1>12, <1>13, <1>14,
     <1>16, <1>17 DEF Next

LEMMA WorldStep ==
    ASSUME Typed, [Next]_vars PROVE world'.one_change = world.one_change
<1>1. world \in World
  BY DEF Typed, RestTyped
<1> QED
  BY <1>1 DEF World, Next, vars, Arrive, Load, Verify, CheckDevice, CheckCode,
     Issue, TrustDays, Remember, CutDevices, Confirm, Logout, SetTrustDays, Forget, Reply,
     Tick, Age, Restart, Reset

(* deps.py:37-39: a session that passes was opened with the password of    *)
(* today, for any number of requests, any passwords and devices, through   *)
(* restarts and resets, where requests that end sessions do not overlap.   *)
THEOREM SessionsOfThisPasswordHolds == Spec => []SessionsOfThisPassword
<1>1. Init => Inv
  BY InitInv
<1>2. Inv /\ [Next]_vars => Inv'
  BY TypedStep, OrderStep, WorldStep DEF Inv
<1>3. Inv => SessionsOfThisPassword
  BY DEF Inv, Order, AsOf, SessionsOfThisPassword, live
<1> QED
  BY <1>1, <1>2, <1>3, PTL DEF Spec

(* Either the version and the password stay and no session goes, or there  *)
(* is a new version and no new session.                                    *)
SameVersion ==
    /\ user'.version = user.version /\ user'.password = user.password
    /\ tokens \subseteq tokens'
NewVersion == user'.version = user.version + 1 /\ UNCHANGED tokens

LEMMA VersionStep ==
    ASSUME Typed, Order, [Next]_vars PROVE SameVersion \/ NewVersion
<1> USE DEF database, history
<1>1. user \in User /\ user.version \in Nat
  BY DEF Typed, RestTyped, User
<1>2. ASSUME NEW t \in Task,
             \/ Arrive(t) \/ Load(t) \/ Verify(t) \/ CheckDevice(t)
             \/ Issue(t) \/ TrustDays(t) \/ Remember(t) \/ CutDevices(t) \/ SetTrustDays(t)
             \/ Forget(t) \/ Reply(t)
      PROVE  SameVersion
  BY <1>2 DEF SameVersion, Arrive, Load, Verify, CheckDevice, Issue, TrustDays,
     Remember, CutDevices, SetTrustDays, Forget, Reply
<1>3. ASSUME NEW t \in Task, CheckCode(t) PROVE SameVersion
  BY <1>1, <1>3 DEF SameVersion, CheckCode, User
<1>4. ASSUME NEW t \in Task, Confirm(t) PROVE SameVersion \/ NewVersion
  <2>1. UNCHANGED tokens /\ pc[t] = "confirm"
    BY <1>4 DEF Confirm
  <2>2. CASE Change(t)
    <3>1. row[t].version = user.version
      BY <2>1, <2>2 DEF Change, About, Changing, Order
    <3> QED
      BY <1>1, <2>1, <2>2, <3>1 DEF Change, NewVersion, User
  <2>3. CASE ~ Change(t)
    BY <1>1, <1>4, <2>1, <2>3
    DEF SameVersion, Confirm, Setup, Enable, Disable, after_code, User
  <2> QED
    BY <2>2, <2>3
<1>5. ASSUME NEW t \in Task, Logout(t) PROVE NewVersion
  <2>1. pc[t] = "logout" /\ UNCHANGED tokens
    BY <1>5 DEF Logout
  <2>2. row[t].version = user.version
    BY <2>1 DEF About, Changing, Order, Typed, TasksTyped, TaskTyped
  <2> QED
    BY <1>1, <1>5, <2>1, <2>2 DEF Logout, NewVersion, User
<1>6. CASE Tick \/ Age \/ Restart \/ UNCHANGED vars
  BY <1>6 DEF SameVersion, Tick, Age, Restart, vars
<1>7. CASE Reset
  BY <1>1, <1>7 DEF NewVersion, Reset, User
<1> QED
  BY <1>2, <1>3, <1>4, <1>5, <1>6, <1>7 DEF Next

(* What an open session says of the step of Sessions.                      *)
LEMMA SessionsStep ==
    ASSUME Typed, Typed', Order, Order', [Next]_vars
    PROVE  Abstract!Next \/ UNCHANGED <<user.password, open>>
<1>1. open \subseteq {user.password} /\ open' \subseteq {user'.password}
  BY DEF Order, AsOf, open, live
<1>2. CASE SameVersion
  <2>1. open \subseteq open'
    BY <1>2 DEF SameVersion, open, live
  <2>2. open' = open \/ open' = {user.password}
    BY <1>1, <1>2, <2>1 DEF SameVersion
  <2> QED
    BY <1>2, <2>2 DEF SameVersion, Abstract!Next, Abstract!SignIn
<1>3. CASE NewVersion
  <2>1. user.version \in Nat /\ \A k \in tokens : k.version \in Nat
    BY DEF Typed, RestTyped, User, Token
  <2>2. \A k \in tokens' : k.version # user'.version
    BY <1>3, <2>1 DEF NewVersion, Order, AsOf
  <2>3. open' = {}
    BY <2>2 DEF open, live
  <2>4. user'.password \in Password
    BY DEF Typed, RestTyped, User
  <2> QED
    BY <2>3, <2>4 DEF Abstract!Next, Abstract!ChangePassword
<1> QED
  BY <1>2, <1>3, VersionStep

(* The login implements Sessions (deps.py:37-39, api/auth.py:173-210): a   *)
(* sign-in opens a session of the password of today or none, a change of   *)
(* the password, a logout or a reset ends all of them.                     *)
THEOREM LoginImplementsSessions == Spec => SessionsKept
<1>1. Init => Inv
  BY InitInv
<1>2. Inv /\ [Next]_vars => Inv'
  BY TypedStep, OrderStep, WorldStep DEF Inv
<1>3. Init => Abstract!Init
  <2> SUFFICES ASSUME Init PROVE Abstract!Init
    OBVIOUS
  <2>1. user.password \in Password
    BY InitInv DEF Inv, Typed, RestTyped, User
  <2>2. open \in SUBSET {user.password}
    BY DEF Init, open, live
  <2> QED
    BY <2>1, <2>2 DEF Abstract!Init
<1>4. Inv /\ Inv' /\ [Next]_vars =>
         [world.one_change =>
             Abstract!Next \/ UNCHANGED <<user.password, open>>]_vars
  BY SessionsStep, WorldStep DEF Inv
<1> QED
  BY <1>1, <1>2, <1>3, <1>4, PTL DEF Spec, SessionsKept

(* --- codes ------------------------------------------------------------------ *)

(* Where a request may still enter its code.                               *)
Coding == {"verify", "check", "code", "confirm"}

(* Requests do not overlap, so the one that may enter a code knows the     *)
(* last that was counted, and none that was accepted is newer.             *)
OneAtATime == \A s, t \in Task : pc[s] # "idle" /\ pc[t] # "idle" => s = t

CodesCounted ==
    /\ ~ again
    /\ \A c \in used : c \in Code /\ c.counter <= user.last
    /\ \A t \in Task : pc[t] \in Coding => row[t].last = user.last

Once == world.alone => OneAtATime /\ CodesCounted

(* A request takes a step that accepts no code.                            *)
LEMMA OnceKept ==
    ASSUME Typed, OneAtATime, CodesCounted, UNCHANGED <<used, again>>,
           NEW t \in Task, pc[t] # "idle" \/ Quiet,
           \A s \in Task \ {t} : pc'[s] = pc[s] /\ row'[s] = row[s],
           user'.last = user.last,
           pc'[t] \in Coding => row'[t].last = user.last
    PROVE  OneAtATime' /\ CodesCounted'
<1>1. \A s \in Task \ {t} : pc'[s] = "idle"
  BY DEF OneAtATime, Quiet
<1>2. "idle" \notin Coding
  BY DEF Coding
<1> QED
  BY <1>1, <1>2 DEF OneAtATime, CodesCounted

(* It accepts its code, and has no other.                                  *)
LEMMA OnceAccepted ==
    ASSUME Typed, OneAtATime, CodesCounted, NEW t \in Task,
           pc[t] \in Coding, accepted(t), Used(t),
           \A s \in Task \ {t} : pc'[s] = pc[s],
           pc'[t] \notin Coding, user'.last = code[t].counter
    PROVE  OneAtATime' /\ CodesCounted'
<1>1. code[t] \in Code /\ user.last \in Nat
  BY DEF Typed, TasksTyped, RestTyped, User
<1>2. code[t].counter > user.last
  BY DEF accepted, CodesCounted
<1>3. code[t] \notin used /\ \A c \in used : c \in Code /\ c.counter <= user.last
  BY <1>1, <1>2 DEF CodesCounted, Code
<1>4. ~ again'
  BY <1>3 DEF Used, CodesCounted
<1>5. \A c \in used' : c \in Code /\ c.counter <= user'.last
  <2>1. \A c \in used : c.counter \in Nat
    BY <1>3 DEF Code
  <2>2. code[t].counter \in Nat
    BY <1>1 DEF Code
  <2> QED
    BY <1>1, <1>2, <1>3, <2>1, <2>2 DEF Used
<1>6. \A s \in Task \ {t} : pc'[s] = "idle"
  BY DEF OneAtATime, Coding
<1>7. "idle" \notin Coding
  BY DEF Coding
<1> QED
  BY <1>4, <1>5, <1>6, <1>7 DEF OneAtATime, CodesCounted

LEMMA OnceStep == ASSUME Typed, Typed', Once, [Next]_vars PROVE Once'
<1> USE DEF database, history
<1>1. world'.alone = world.alone
  BY DEF Next, vars, Arrive, Load, Verify, CheckDevice, CheckCode, Issue,
     TrustDays, Remember, CutDevices, Confirm, Logout, SetTrustDays, Forget, Reply, Tick, Age,
     Restart, Reset, Typed, RestTyped, World
<1>2. CASE ~ world.alone
  BY <1>1, <1>2 DEF Once
<1> SUFFICES ASSUME world.alone PROVE OneAtATime' /\ CodesCounted'
  BY <1>1, <1>2 DEF Once
<1>3. OneAtATime /\ CodesCounted
  BY DEF Once
<1>4. /\ user \in User /\ pc \in [Task -> Where]
      /\ row \in [Task -> User \cup {NoRow}]
      /\ \A t \in Task : pc[t] \in Coding => row[t] \in User
  BY DEF Typed, TasksTyped, RestTyped, TaskTyped, Past, Coding
<1>5. CASE UNCHANGED vars
  BY <1>3, <1>5 DEF vars, OneAtATime, CodesCounted
<1>6. ASSUME NEW t \in Task, Arrive(t) PROVE OneAtATime' /\ CodesCounted'
  <2>1. pc'[t] \notin Coding /\ \A s \in Task \ {t} : pc'[s] = pc[s]
    BY <1>4, <1>6 DEF Arrive, Goto, Coding
  <2> QED
    BY <1>3, <1>6, <2>1, OnceKept DEF Arrive
<1>7. ASSUME NEW t \in Task, pc[t] # "idle", Finish(t), user'.last = user.last,
             UNCHANGED <<used, again>>
      PROVE  OneAtATime' /\ CodesCounted'
  <2>1. /\ pc'[t] \notin Coding
        /\ \A s \in Task \ {t} : pc'[s] = pc[s] /\ row'[s] = row[s]
    BY <1>4, <1>7 DEF Finish, Goto, Coding
  <2> QED
    BY <1>3, <1>7, <2>1, OnceKept
<1>8. ASSUME NEW t \in Task, pc[t] # "idle", NEW where, Goto(t, where),
             row' = row, user'.last = user.last, UNCHANGED <<used, again>>,
             where \in Coding => pc[t] \in Coding
      PROVE  OneAtATime' /\ CodesCounted'
  <2>1. /\ pc'[t] \in Coding => row'[t].last = user.last
        /\ \A s \in Task \ {t} : pc'[s] = pc[s] /\ row'[s] = row[s]
    BY <1>3, <1>4, <1>8 DEF Goto, CodesCounted
  <2> QED
    BY <1>3, <1>8, <2>1, OnceKept
<1>9. ASSUME NEW t \in Task, Load(t) PROVE OneAtATime' /\ CodesCounted'
  <2>1. /\ pc'[t] \in Coding => row'[t].last = user.last
        /\ \A s \in Task \ {t} : pc'[s] = pc[s] /\ row'[s] = row[s]
    BY <1>4, <1>9 DEF Load, Finish, Goto, Coding
  <2> QED
    BY <1>3, <1>9, <2>1, OnceKept DEF Load
<1>10. ASSUME NEW t \in Task, Verify(t) \/ CheckDevice(t)
       PROVE  OneAtATime' /\ CodesCounted'
  BY <1>7, <1>8, <1>10 DEF Verify, CheckDevice, Coding
<1>11. ASSUME NEW t \in Task, CheckCode(t) PROVE OneAtATime' /\ CodesCounted'
  <2>1. pc[t] \in Coding /\ pc[t] # "idle"
    BY <1>11 DEF CheckCode, Coding
  <2>2. CASE accepted(t)
    <3>1. user'.last = code[t].counter /\ Used(t)
      BY <1>4, <1>11, <2>2 DEF CheckCode, User
    <3>2. pc'[t] \notin Coding /\ \A s \in Task \ {t} : pc'[s] = pc[s]
      BY <1>4, <1>11, <2>2 DEF CheckCode, Goto, Coding
    <3> QED
      BY <1>3, <2>1, <2>2, <3>1, <3>2, OnceAccepted
  <2>3. CASE ~ accepted(t)
    BY <1>7, <1>11, <2>1, <2>3 DEF CheckCode
  <2> QED
    BY <2>2, <2>3
<1>12. ASSUME NEW t \in Task,
              \/ Issue(t) \/ TrustDays(t) \/ Remember(t) \/ CutDevices(t) \/ SetTrustDays(t)
              \/ Forget(t) \/ Reply(t)
       PROVE  OneAtATime' /\ CodesCounted'
  BY <1>7, <1>8, <1>12 DEF Issue, TrustDays, Remember, CutDevices, SetTrustDays, Forget,
     Reply, Coding
<1>13. ASSUME NEW t \in Task, Logout(t) PROVE OneAtATime' /\ CodesCounted'
  <2>1. user'.last = user.last
    BY <1>4, <1>13 DEF Logout, User
  <2> QED
    BY <1>7, <1>13, <2>1 DEF Logout
<1>14. ASSUME NEW t \in Task, Confirm(t) PROVE OneAtATime' /\ CodesCounted'
  <2>1. pc[t] \in Coding /\ pc[t] # "idle"
    BY <1>14 DEF Confirm, Coding
  <2>2. CASE Finish(t) /\ UNCHANGED <<user, used, again>>
    BY <1>7, <2>1, <2>2
  <2>3. CASE Change(t)
    <3>1. /\ user'.last = user.last /\ pc'[t] \notin Coding
          /\ \A s \in Task \ {t} : pc'[s] = pc[s] /\ row'[s] = row[s]
      BY <1>4, <2>3 DEF Change, Goto, User, Coding
    <3> QED
      BY <1>3, <2>1, <2>3, <3>1, OnceKept DEF Change
  <2>4. CASE Setup(t)
    <3>1. user'.last = user.last
      BY <1>4, <2>4 DEF Setup, User
    <3> QED
      BY <1>7, <2>1, <2>4, <3>1 DEF Setup
  <2>5. CASE (Enable(t) \/ Disable(t)) /\ accepted(t) /\ Used(t)
              /\ user'.last = code[t].counter
    <3>1. pc'[t] \notin Coding /\ \A s \in Task \ {t} : pc'[s] = pc[s]
      BY <1>4, <2>5 DEF Enable, Disable, Finish, Goto, Coding
    <3> QED
      BY <1>3, <2>1, <2>5, <3>1, OnceAccepted
  <2>6. CASE Enable(t)
    <3>1. after_code(t).last = code[t].counter
      BY <1>4 DEF after_code, User
    <3> QED
      BY <2>2, <2>5, <2>6, <3>1 DEF Enable
  <2>7. CASE Disable(t)
    <3>1. [after_code(t) EXCEPT !.secret = NoSecret].last = code[t].counter
      BY <1>4 DEF after_code, User
    <3> QED
      BY <2>2, <2>5, <2>7, <3>1 DEF Disable
  <2> QED
    BY <1>14, <2>2, <2>3, <2>4, <2>6, <2>7 DEF Confirm
<1>15. CASE Tick \/ Age
  BY <1>3, <1>15 DEF Tick, Age, OneAtATime, CodesCounted
<1>16. CASE Restart \/ Reset
  <2>1. user'.last = user.last /\ \A t \in Task : pc'[t] = "idle"
    <3>1. CASE Restart
      BY <3>1 DEF Restart, Halt
    <3>2. CASE Reset
      <4>1. user'.last = user.last
        BY <1>4, <3>2 DEF Reset, User
      <4> QED
        BY <3>2, <4>1 DEF Reset, Halt
    <3> QED
      BY <1>16, <3>1, <3>2
  <2> QED
    BY <1>3, <1>16, <2>1 DEF Restart, Reset, OneAtATime, CodesCounted, Coding
<1> QED
  BY <1>5, <1>6, <1>9, <1>10, <1>11, <1>12, <1>13, <1>14, <1>15, <1>16 DEF Next

(* api/auth.py:188-193, 302-318: a code is accepted once, at the sign-in   *)
(* or where the second factor is switched, when requests do not overlap,   *)
(* for any requests, changes of the secret, restarts and resets.           *)
THEOREM CodeOnceHolds == Spec => []CodeOnce
<1>1. Init => Typed /\ Once
  BY InitInv DEF Inv, Init, Once, OneAtATime, CodesCounted, Coding
<1>2. Typed /\ Once /\ [Next]_vars => (Typed /\ Once)'
  BY TypedStep, OnceStep
<1>3. Typed /\ Once => CodeOnce
  BY DEF Once, CodesCounted, CodeOnce
<1> QED
  BY <1>1, <1>2, <1>3, PTL DEF Spec

(* --- failures --------------------------------------------------------------- *)

Kind == {"login", "stepup"}

(* Failures are in order of time: whatever the moment, those before it come *)
(* first.                                                                  *)
InOrder(s) ==
    \A b \in Int : \E a \in 0..Len(s) : \A i \in 1..Len(s) : s[i] < b <=> i <= a

FailuresTyped ==
    \A k \in Kind : /\ failures[k] \in Seq(Nat) /\ InOrder(failures[k])
                    /\ \A i \in 1..Len(failures[k]) : failures[k][i] <= now

(* Sign-ins that are past the gate and may still fail.                     *)
Passed ==
    {t \in Task : request[t].op = "login"
                  /\ pc[t] \in {"load", "verify", "check", "code"}}

Recent(k) == Cardinality(within(k, LOCKOUT))

Attempts ==
    /\ failures = [k \in Kind |-> failures[k]] /\ FailuresTyped
    /\ \A t \in Task : pc[t] \in {"verify", "check", "code"} =>
                           request[t].op = "login"
    /\ Recent("login") + Cardinality(Passed) < MAX_FAILURES + Cardinality(Task)
    /\ Recent("stepup") <= MAX_FAILURES

LEMMA Counts ==
    ASSUME Attempts
    PROVE  /\ Recent("login") \in Nat /\ Recent("stepup") \in Nat
           /\ Cardinality(Passed) \in Nat /\ Cardinality(Task) \in Nat
           /\ IsFiniteSet(Passed)
           /\ \A k \in Kind : IsFiniteSet(within(k, LOCKOUT))
<1>1. IsFiniteSet(Passed)
  BY LoginAssumption, FS_Subset DEF Passed
<1>2. ASSUME NEW k \in Kind PROVE IsFiniteSet(within(k, LOCKOUT))
  <2>1. failures[k] \in Seq(Nat)
    BY DEF Attempts, FailuresTyped
  <2>2. within(k, LOCKOUT) \in SUBSET (1..Len(failures[k])) /\ Len(failures[k]) \in Nat
    BY <2>1 DEF within
  <2>3. IsFiniteSet(1..Len(failures[k]))
    BY <2>2, FS_Interval
  <2> QED
    BY <2>2, <2>3, FS_Subset
<1> QED
  BY <1>1, <1>2, LoginAssumption, FS_CardinalityType DEF Recent, Kind

(* A failure counts once, and only as long as the lockout is.              *)
LEMMA OneMore ==
    ASSUME Attempts, now \in Nat, now' = now, NEW k \in Kind, record_failure(k)
    PROVE  /\ failures' = [j \in Kind |-> failures'[j]]
           /\ FailuresTyped'
           /\ Recent(k)' <= Recent(k) + 1
           /\ \A j \in Kind \ {k} : Recent(j)' = Recent(j)
<1> DEFINE s == failures[k]
           W == within(k, LOCKOUT)
           old == Cardinality(DOMAIN s \ W)
           r == SubSeq(s, old + 1, Len(s))
           z == Append(r, now)
<1>1. /\ s \in Seq(Nat) /\ InOrder(s) /\ \A i \in 1..Len(s) : s[i] \in Nat /\ s[i] <= now
      /\ LOCKOUT \in Nat /\ Len(s) \in Nat /\ DOMAIN s = 1..Len(s)
  BY LoginAssumption DEF Attempts, FailuresTyped
<1>2. PICK a \in 0..Len(s) :
         \A i \in 1..Len(s) : s[i] < (now - LOCKOUT) + 1 <=> i <= a
  <2>1. (now - LOCKOUT) + 1 \in Int
    BY <1>1
  <2> QED
    BY <1>1, <2>1 DEF InOrder
<1>3. W = (a + 1)..Len(s) /\ DOMAIN s \ W = 1..a
  <2>1. W = {i \in 1..Len(s) : now - s[i] < LOCKOUT}
    BY <1>1 DEF within
  <2> HIDE DEF s, W
  <2>2. ASSUME NEW i \in 1..Len(s) PROVE now - s[i] < LOCKOUT <=> a < i
    <3>1. s[i] \in Nat /\ (s[i] < (now - LOCKOUT) + 1 <=> i <= a)
      BY <1>1, <1>2
    <3> QED
      BY <1>1, <3>1
  <2>3. W = {i \in 1..Len(s) : a < i}
    BY <2>1, <2>2
  <2>4. W = (a + 1)..Len(s)
    BY <1>1, <2>3
  <2> QED
    BY <1>1, <2>4
<1>4. old = a /\ Recent(k) = Len(s) - a
  <2>1. Cardinality(1..a) = a
    BY <1>1, FS_Interval
  <2>2. Cardinality((a + 1)..Len(s)) = Len(s) - a
    <3>1. a + 1 \in Int /\ Len(s) \in Int
      BY <1>1
    <3>2. Cardinality((a + 1)..Len(s)) =
             IF a + 1 > Len(s) THEN 0 ELSE Len(s) - (a + 1) + 1
      BY <3>1, FS_Interval
    <3> QED
      BY <1>1, <3>2
  <2> QED
    BY <1>3, <2>1, <2>2 DEF Recent
<1>5. failures' = [failures EXCEPT ![k] = z]
  BY DEF record_failure
<1> HIDE DEF old
<1>6. /\ r \in Seq(Nat) /\ Len(r) = Len(s) - a
      /\ \A i \in 1..Len(s) - a : r[i] = s[a + i]
  <2>1. \A i \in (a + 1)..Len(s) : s[i] \in Nat
    BY <1>1
  <2>2. a + 1 \in Int /\ Len(s) \in Int /\ r = SubSeq(s, a + 1, Len(s))
    BY <1>1, <1>4
  <2> HIDE DEF s
  <2>3. /\ SubSeq(s, a + 1, Len(s)) \in Seq(Nat)
        /\ Len(SubSeq(s, a + 1, Len(s))) =
              IF a + 1 <= Len(s) THEN Len(s) - (a + 1) + 1 ELSE 0
        /\ \A i \in 1..Len(s) - (a + 1) + 1 :
              SubSeq(s, a + 1, Len(s))[i] = s[(a + 1) + i - 1]
    BY <2>1, <2>2, SubSeqProperties
  <2> HIDE DEF r
  <2>4. Len(r) = Len(s) - a /\ Len(s) - (a + 1) + 1 = Len(s) - a
    <3>1. \A l \in Nat : \A m \in 0..l :
             /\ (IF m + 1 <= l THEN l - (m + 1) + 1 ELSE 0) = l - m
             /\ l - (m + 1) + 1 = l - m
      OBVIOUS
    <3> QED
      BY <1>1, <2>2, <2>3, <3>1
  <2>5. ASSUME NEW i \in 1..Len(s) - a PROVE r[i] = s[a + i]
    <3>1. (a + 1) + i - 1 = a + i
      BY <1>1
    <3> QED
      BY <2>2, <2>3, <2>4, <3>1
  <2> QED
    BY <2>2, <2>3, <2>4, <2>5
<1> HIDE DEF r, s, W
<1>7. /\ z \in Seq(Nat) /\ Len(z) = (Len(s) - a) + 1
      /\ \A i \in 1..Len(s) - a : z[i] = s[a + i]
      /\ z[(Len(s) - a) + 1] = now
  BY <1>6, AppendProperties
<1> HIDE DEF z
<1>14. \A i \in 1..Len(s) - a : a + i \in 1..Len(s)
  BY <1>1
<1>15. 1..Len(z) = (1..Len(s) - a) \cup {(Len(s) - a) + 1}
  BY <1>1, <1>7
<1>8. \A i \in 1..Len(z) : z[i] <= now
  <2>1. ASSUME NEW i \in 1..Len(s) - a PROVE z[i] <= now
    BY <1>1, <1>7, <1>14, <2>1
  <2>2. z[(Len(s) - a) + 1] <= now
    BY <1>7
  <2> QED
    BY <1>15, <2>1, <2>2
<1>9. InOrder(z)
  <2> SUFFICES ASSUME NEW b \in Int
               PROVE  \E e \in 0..Len(z) : \A i \in 1..Len(z) : z[i] < b <=> i <= e
    BY DEF InOrder
  <2>1. PICK c \in 0..Len(s) : \A i \in 1..Len(s) : s[i] < b <=> i <= c
    BY <1>1 DEF InOrder
  <2>2. CASE now < b
    <3>1. \A i \in 1..Len(z) : z[i] < b
      BY <1>1, <1>7, <1>8, <2>2
    <3>2. Len(z) \in 0..Len(z)
      BY <1>1, <1>7
    <3> QED
      BY <3>1, <3>2
  <2>3. CASE ~ now < b
    <3> DEFINE e == IF c <= a THEN 0 ELSE c - a
    <3>1. e \in 0..Len(z)
      BY <1>1, <1>7
    <3>2. ASSUME NEW i \in 1..Len(z) PROVE z[i] < b <=> i <= e
      <4>1. CASE i = (Len(s) - a) + 1
        BY <1>1, <1>7, <2>3, <4>1
      <4>2. CASE i \in 1..Len(s) - a
        <5>1. z[i] = s[a + i] /\ a + i \in 1..Len(s)
          BY <1>1, <1>7, <4>2
        <5>2. z[i] < b <=> a + i <= c
          BY <2>1, <5>1
        <5> QED
          BY <1>1, <2>1, <4>2, <5>2
      <4> QED
        BY <1>15, <4>1, <4>2
    <3> HIDE DEF e
    <3> QED
      BY <3>1, <3>2
  <2> QED
    BY <2>2, <2>3
<1>10. /\ failures' = [j \in Kind |-> IF j = k THEN z ELSE failures[j]]
  BY <1>5 DEF Attempts
<1>11. FailuresTyped'
  BY <1>7, <1>8, <1>9, <1>10 DEF Attempts, FailuresTyped
<1>12. Recent(k)' <= Recent(k) + 1
  <2>1. within(k, LOCKOUT)' \in SUBSET (1..Len(z))
    BY <1>7, <1>10 DEF within
  <2>2. IsFiniteSet(1..Len(z)) /\ Cardinality(1..Len(z)) = Len(z)
    BY <1>1, <1>7, FS_Interval
  <2>3. Cardinality(within(k, LOCKOUT)') <= Len(z)
    BY <2>1, <2>2, FS_Subset
  <2> QED
    BY <1>1, <1>4, <1>7, <2>3 DEF Recent
<1>13. \A j \in Kind \ {k} : Recent(j)' = Recent(j)
  BY <1>10 DEF Recent, within
<1> QED
  BY <1>10, <1>11, <1>12, <1>13

LEMMA NoMore ==
    ASSUME Attempts, now' = now, NEW k \in Kind, clear(k)
    PROVE  /\ failures' = [j \in Kind |-> failures'[j]]
           /\ FailuresTyped'
           /\ Recent(k)' = 0
           /\ \A j \in Kind \ {k} : Recent(j)' = Recent(j)
<1>1. failures' = [j \in Kind |-> IF j = k THEN << >> ELSE failures[j]]
  BY DEF clear, Attempts
<1>2. << >> \in Seq(Nat) /\ Len(<< >>) = 0 /\ InOrder(<< >>)
  BY DEF InOrder
<1>3. FailuresTyped'
  BY <1>1, <1>2 DEF Attempts, FailuresTyped
<1>4. within(k, LOCKOUT)' = {}
  BY <1>1, <1>2 DEF within
<1> QED
  BY <1>1, <1>3, <1>4, FS_EmptySet DEF Recent, within

LEMMA SameFailures ==
    ASSUME Attempts, UNCHANGED <<failures, now>>
    PROVE  /\ failures' = [j \in Kind |-> failures'[j]]
           /\ FailuresTyped'
           /\ \A j \in Kind : Recent(j)' = Recent(j)
BY DEF Attempts, FailuresTyped, InOrder, Recent, within

(* A request takes a step: it is past the gate afterwards only if it was,   *)
(* or if the gate let it through, and a failure ends it.                   *)
LEMMA AttemptsKept ==
    ASSUME Typed, Attempts, NEW t \in Task, UNCHANGED <<failures, now>>,
           \A s \in Task \ {t} : pc'[s] = pc[s] /\ request'[s] = request[s],
           t \in Passed' => t \in Passed \/ Recent("login") < MAX_FAILURES,
           pc'[t] \in {"verify", "check", "code"} => request'[t].op = "login"
    PROVE  Attempts'
<1>1. /\ failures' = [j \in Kind |-> failures'[j]] /\ FailuresTyped'
      /\ Recent("login")' = Recent("login") /\ Recent("stepup")' = Recent("stepup")
  BY SameFailures DEF Kind
<1>2. \A s \in Task : pc'[s] \in {"verify", "check", "code"} => request'[s].op = "login"
  BY DEF Attempts
<1>3. Passed' \subseteq Passed \cup {t} /\ IsFiniteSet(Passed') /\ Passed' \subseteq Task
  BY LoginAssumption, FS_Subset DEF Passed
<1>4. /\ Cardinality(Passed') \in Nat /\ Cardinality(Task) \in Nat
      /\ Cardinality(Passed') <= Cardinality(Task)
  BY <1>3, LoginAssumption, FS_CardinalityType, FS_Subset
<1>5. Recent("login") + Cardinality(Passed') < MAX_FAILURES + Cardinality(Task)
  <2>1. CASE t \in Passed' /\ t \notin Passed
    BY <1>4, <2>1, Counts, LoginAssumption
  <2>2. CASE ~ (t \in Passed' /\ t \notin Passed)
    <3>1. Passed' \subseteq Passed
      BY <1>3, <2>2
    <3>2. Cardinality(Passed') <= Cardinality(Passed)
      BY <3>1, Counts, FS_Subset
    <3> QED
      BY <1>4, <3>2, Counts, LoginAssumption DEF Attempts
  <2> QED
    BY <2>1, <2>2
<1> QED
  BY <1>1, <1>2, <1>5 DEF Attempts

LEMMA AttemptFailed ==
    ASSUME Typed, Attempts, NEW t \in Passed, now' = now, pc'[t] = "idle",
           \A s \in Task \ {t} : pc'[s] = pc[s] /\ request'[s] = request[s],
           record_failure("login")
    PROVE  Attempts'
<1>1. /\ failures' = [j \in Kind |-> failures'[j]] /\ FailuresTyped'
      /\ Recent("login")' <= Recent("login") + 1 /\ Recent("stepup")' = Recent("stepup")
  BY OneMore DEF Kind, Typed, RestTyped
<1>2. \A s \in Task : pc'[s] \in {"verify", "check", "code"} => request'[s].op = "login"
  BY DEF Attempts
<1>3. Passed' = Passed \ {t}
  BY DEF Passed
<1>4. /\ Cardinality(Passed') = Cardinality(Passed) - 1
      /\ Cardinality(Passed) \in Nat /\ Recent("login") \in Nat
      /\ Cardinality(Task) \in Nat /\ MAX_FAILURES \in Nat
  BY <1>3, Counts, FS_RemoveElement, LoginAssumption
<1>5. Recent("login")' \in Nat
  <2>1. failures'["login"] \in Seq(Nat)
    BY <1>1 DEF FailuresTyped, Kind
  <2>2. /\ within("login", LOCKOUT)' \in SUBSET (1..Len(failures'["login"]))
        /\ Len(failures'["login"]) \in Nat
    BY <2>1 DEF within
  <2>3. IsFiniteSet(1..Len(failures'["login"]))
    BY <2>2, FS_Interval
  <2> QED
    BY <2>2, <2>3, FS_Subset, FS_CardinalityType DEF Recent
<1>6. Recent("login")' + Cardinality(Passed') < MAX_FAILURES + Cardinality(Task)
  BY <1>1, <1>4, <1>5 DEF Attempts
<1> QED
  BY <1>1, <1>2, <1>6 DEF Attempts

(* Failures of confirmations, and what is forgotten, leave sign-ins alone. *)
LEMMA AttemptsFewer ==
    ASSUME Typed, Attempts, NEW t \in Task, now' = now,
           \A s \in Task \ {t} : pc'[s] = pc[s] /\ request'[s] = request[s],
           pc'[t] \notin {"load", "verify", "check", "code"},
           \/ record_failure("stepup") /\ Recent("stepup") < MAX_FAILURES
           \/ clear("stepup") \/ clear("login")
    PROVE  Attempts'
<1>1. /\ failures' = [j \in Kind |-> failures'[j]] /\ FailuresTyped'
      /\ Recent("login")' \in {Recent("login"), 0}
      /\ Recent("stepup")' <= MAX_FAILURES
  <2>1. CASE record_failure("stepup") /\ Recent("stepup") < MAX_FAILURES
    <3>1. /\ failures' = [j \in Kind |-> failures'[j]] /\ FailuresTyped'
          /\ Recent("stepup")' <= Recent("stepup") + 1
          /\ Recent("login")' = Recent("login")
      BY <2>1, OneMore DEF Kind, Typed, RestTyped
    <3>2. Recent("stepup")' \in Nat
      <4>1. failures'["stepup"] \in Seq(Nat)
        BY <3>1 DEF FailuresTyped, Kind
      <4>2. /\ within("stepup", LOCKOUT)' \in SUBSET (1..Len(failures'["stepup"]))
            /\ Len(failures'["stepup"]) \in Nat
        BY <4>1 DEF within
      <4>3. IsFiniteSet(1..Len(failures'["stepup"]))
        BY <4>2, FS_Interval
      <4> QED
        BY <4>2, <4>3, FS_Subset, FS_CardinalityType DEF Recent
    <3> QED
      BY <2>1, <3>1, <3>2, Counts, LoginAssumption
  <2>2. CASE clear("stepup")
    BY <2>2, NoMore, Counts, LoginAssumption DEF Kind
  <2>3. CASE clear("login")
    BY <2>3, NoMore DEF Kind, Attempts
  <2> QED
    BY <2>1, <2>2, <2>3
<1>2. \A s \in Task : pc'[s] \in {"verify", "check", "code"} => request'[s].op = "login"
  BY DEF Attempts
<1>3. Passed' \subseteq Passed
  BY DEF Passed
<1>4. /\ Cardinality(Passed') <= Cardinality(Passed) /\ Cardinality(Passed') \in Nat
      /\ Cardinality(Passed) \in Nat /\ Recent("login") \in Nat
      /\ Cardinality(Task) \in Nat /\ MAX_FAILURES \in Nat
  BY <1>3, Counts, FS_Subset, FS_CardinalityType, LoginAssumption
<1>5. Recent("login")' + Cardinality(Passed') < MAX_FAILURES + Cardinality(Task)
  BY <1>1, <1>4 DEF Attempts
<1> QED
  BY <1>1, <1>2, <1>5 DEF Attempts

LEMMA AttemptsEmpty ==
    ASSUME now \in Nat, failures = [k \in Kind |-> << >>],
           \A t \in Task : pc[t] = "idle"
    PROVE  Attempts
<1>1. << >> \in Seq(Nat) /\ Len(<< >>) = 0 /\ InOrder(<< >>)
  BY DEF InOrder
<1>2. FailuresTyped /\ failures = [k \in Kind |-> failures[k]]
  BY <1>1 DEF FailuresTyped
<1>3. Recent("login") = 0 /\ Recent("stepup") = 0
  <2>1. within("login", LOCKOUT) = {} /\ within("stepup", LOCKOUT) = {}
    BY <1>1 DEF within, Kind
  <2> QED
    BY <2>1, FS_EmptySet DEF Recent
<1>4. Passed = {}
  BY DEF Passed
<1> QED
  BY <1>2, <1>3, <1>4, FS_EmptySet, FS_CardinalityType, LoginAssumption
  DEF Attempts

LEMMA AttemptsStep == ASSUME Typed, Attempts, [Next]_vars PROVE Attempts'
<1> USE DEF database, history
<1>1. /\ pc \in [Task -> Where] /\ request \in [Task -> Request \cup {NoRequest}]
      /\ now \in Nat
  BY DEF Typed, TasksTyped, RestTyped
<1>2. CASE UNCHANGED vars
  BY <1>2 DEF vars, Attempts, FailuresTyped, InOrder, Recent, within, Passed
<1>3. ASSUME NEW t \in Task, Arrive(t) PROVE Attempts'
  <2>1. /\ \A s \in Task \ {t} : pc'[s] = pc[s] /\ request'[s] = request[s]
        /\ pc'[t] = "load"
    BY <1>1, <1>3 DEF Arrive, Goto
  <2>2. request'[t].op = "login" => Recent("login") < MAX_FAILURES
    <3>1. request'[t].op = "login" => ~ is_locked("login")
      BY <1>1, <1>3 DEF Arrive
    <3> QED
      BY <3>1, Counts, LoginAssumption DEF is_locked, Recent
  <2> QED
    BY <1>3, <2>1, <2>2, AttemptsKept DEF Arrive, Passed
<1>4. ASSUME NEW t \in Task, Finish(t), UNCHANGED <<failures, now>>
      PROVE  Attempts'
  <2>1. /\ \A s \in Task \ {t} : pc'[s] = pc[s] /\ request'[s] = request[s]
        /\ pc'[t] = "idle"
    BY <1>1, <1>4 DEF Finish, Goto
  <2> QED
    BY <1>4, <2>1, AttemptsKept DEF Passed
<1>5. ASSUME NEW t \in Task, UNCHANGED <<failures, now, request>>, NEW where,
             Goto(t, where),
             where \in {"load", "verify", "check", "code"} =>
                 t \in Passed \/ (where = "verify" /\ request[t].op = "login"
                                  /\ pc[t] = "load")
      PROVE  Attempts'
  <2>1. /\ \A s \in Task \ {t} : pc'[s] = pc[s] /\ request'[s] = request[s]
        /\ pc'[t] = where /\ request'[t] = request[t]
    BY <1>1, <1>5 DEF Goto
  <2>2. t \in Passed' => t \in Passed
    BY <1>5, <2>1 DEF Passed
  <2>3. pc'[t] \in {"verify", "check", "code"} => request'[t].op = "login"
    BY <1>5, <2>1 DEF Passed
  <2> QED
    BY <1>5, <2>1, <2>2, <2>3, AttemptsKept
<1>6. ASSUME NEW t \in Task, Load(t) PROVE Attempts'
  <2>1. CASE Finish(t)
    BY <1>4, <1>6, <2>1 DEF Load
  <2>2. CASE Goto(t, first_step(request[t].op)) /\ UNCHANGED request
    <3> DEFINE where == first_step(request[t].op)
    <3>1. where \in {"load", "verify", "check", "code"} =>
             where = "verify" /\ request[t].op = "login"
      BY DEF first_step
    <3> HIDE DEF where
    <3>2. Goto(t, where) /\ pc[t] = "load"
      BY <1>6, <2>2 DEF where, Load
    <3> QED
      BY <1>5, <1>6, <2>2, <3>1, <3>2 DEF Load
  <2> QED
    BY <1>6, <2>1, <2>2 DEF Load
<1>7. ASSUME NEW t \in Passed, Finish(t), record_failure("login"), now' = now
      PROVE  Attempts'
  <2>1. /\ \A s \in Task \ {t} : pc'[s] = pc[s] /\ request'[s] = request[s]
        /\ pc'[t] = "idle" /\ t \in Task
    BY <1>1, <1>7 DEF Finish, Goto, Passed
  <2> QED
    BY <1>7, <2>1, AttemptFailed
<1>8. ASSUME NEW t \in Task, Verify(t) \/ CheckDevice(t) \/ CheckCode(t)
      PROVE  Attempts'
  <2>1. t \in Passed
    BY <1>8 DEF Verify, CheckDevice, CheckCode, Passed, Attempts
  <2>2. CASE Verify(t)
    BY <1>5, <1>7, <2>1, <2>2 DEF Verify
  <2>3. CASE CheckDevice(t)
    BY <1>5, <2>1, <2>3 DEF CheckDevice
  <2>4. CASE CheckCode(t)
    BY <1>4, <1>5, <1>7, <2>1, <2>4 DEF CheckCode
  <2> QED
    BY <1>8, <2>2, <2>3, <2>4
<1>9. ASSUME NEW t \in Task, Issue(t) PROVE Attempts'
  <2>1. /\ \A s \in Task \ {t} : pc'[s] = pc[s] /\ request'[s] = request[s]
        /\ pc'[t] \notin {"load", "verify", "check", "code"}
    BY <1>1, <1>9 DEF Issue, Finish, Goto
  <2> QED
    BY <1>9, <2>1, AttemptsFewer DEF Issue
<1>10. ASSUME NEW t \in Task,
              \/ TrustDays(t) \/ Remember(t) \/ CutDevices(t) \/ Logout(t) \/ SetTrustDays(t)
              \/ Forget(t) \/ Reply(t)
       PROVE  Attempts'
  BY <1>4, <1>5, <1>10 DEF TrustDays, Remember, CutDevices, Logout, SetTrustDays, Forget, Reply
<1>11. ASSUME NEW t \in Task, Confirm(t) PROVE Attempts'
  <2>1. CASE Finish(t) /\ UNCHANGED failures
    BY <1>4, <1>11, <2>1 DEF Confirm
  <2>2. /\ \A s \in Task \ {t} : pc'[s] = pc[s] /\ request'[s] = request[s]
        /\ pc'[t] \notin {"load", "verify", "check", "code"}
    BY <1>1, <1>11 DEF Confirm, Change, Setup, Enable, Disable, Finish, Goto
  <2>3. CASE ~ is_locked("stepup") /\ record_failure("stepup")
    <3>1. Recent("stepup") < MAX_FAILURES
      BY <2>3, Counts, LoginAssumption DEF is_locked, Recent
    <3> QED
      BY <1>11, <2>2, <2>3, <3>1, AttemptsFewer DEF Confirm
  <2>4. CASE clear("stepup")
    BY <1>11, <2>2, <2>4, AttemptsFewer DEF Confirm
  <2> QED
    BY <1>11, <2>1, <2>3, <2>4 DEF Confirm
<1>12. CASE Age
  <2>1. UNCHANGED <<failures, now, pc, request>>
    BY <1>12 DEF Age
  <2> QED
    BY <2>1 DEF Attempts, FailuresTyped, InOrder, Recent, within, Passed
<1>13. CASE Tick
  <2>1. UNCHANGED <<failures, pc, request>> /\ now' = now + 1
    BY <1>13 DEF Tick
  <2>2. Passed' = Passed
    BY <2>1 DEF Passed
  <2>3. FailuresTyped'
    <3>1. ASSUME NEW k \in Kind, NEW i \in 1..Len(failures[k])
          PROVE  failures[k][i] <= now + 1
      <4>1. failures[k] \in Seq(Nat) /\ failures[k][i] <= now
        BY DEF Attempts, FailuresTyped
      <4>2. failures[k][i] \in Nat
        BY <4>1
      <4> QED
        BY <1>1, <4>1, <4>2
    <3> QED
      BY <2>1, <3>1 DEF Attempts, FailuresTyped, InOrder
  <2>4. ASSUME NEW k \in Kind
        PROVE  Recent(k)' <= Recent(k) /\ Recent(k)' \in Nat
    <3>1. /\ failures[k] \in Seq(Nat)
          /\ \A i \in DOMAIN failures[k] : failures[k][i] \in Nat
      BY DEF Attempts, FailuresTyped
    <3>2. within(k, LOCKOUT)' \subseteq within(k, LOCKOUT)
      BY <1>1, <2>1, <3>1, LoginAssumption DEF within
    <3> QED
      BY <3>2, Counts, FS_Subset, FS_CardinalityType DEF Recent
  <2>5. /\ Recent("login")' <= Recent("login") /\ Recent("login")' \in Nat
        /\ Recent("stepup")' <= Recent("stepup") /\ Recent("stepup")' \in Nat
    BY <2>4 DEF Kind
  <2>6. /\ Recent("login")' + Cardinality(Passed') < MAX_FAILURES + Cardinality(Task)
        /\ Recent("stepup")' <= MAX_FAILURES
    BY <2>2, <2>5, Counts, LoginAssumption DEF Attempts
  <2> QED
    BY <2>1, <2>3, <2>6 DEF Attempts
<1>14. CASE Restart \/ Reset
  <2>1. /\ now' = now /\ failures' = [k \in Kind |-> << >>]
        /\ \A t \in Task : pc'[t] = "idle"
    BY <1>14 DEF Restart, Reset, Halt, Kind
  <2>2. << >> \in Seq(Nat) /\ Len(<< >>) = 0 /\ InOrder(<< >>)
    BY DEF InOrder
  <2>3. FailuresTyped'
    <3>1. \A k \in Kind : failures'[k] = << >>
      BY <2>1
    <3> QED
      BY <2>1, <2>2, <3>1 DEF FailuresTyped
  <2>4. Recent("login")' = 0 /\ Recent("stepup")' = 0
    <3>1. within("login", LOCKOUT)' = {} /\ within("stepup", LOCKOUT)' = {}
      BY <2>1, <2>2 DEF within, Kind
    <3> QED
      BY <3>1, FS_EmptySet DEF Recent
  <2>5. Passed' = {}
    BY <2>1 DEF Passed
  <2>6. /\ failures' = [k \in Kind |-> failures'[k]]
        /\ \A t \in Task : pc'[t] \notin {"verify", "check", "code"}
    BY <2>1
  <2> QED
    BY <2>3, <2>4, <2>5, <2>6, FS_EmptySet, FS_CardinalityType, LoginAssumption
    DEF Attempts
<1> QED
  BY <1>2, <1>3, <1>6, <1>8, <1>9, <1>10, <1>11, <1>12, <1>13, <1>14 DEF Next

(* ratelimit.py:54-82, api/auth.py:43-73, 108-115: no more sign-ins fail   *)
(* within the time of a lockout than it allows and were past the gate, and *)
(* no more confirmations than it allows, for any number of requests, any   *)
(* limits, restarts and resets.                                            *)
THEOREM AttemptsBoundedHolds == Spec => []AttemptsBounded
<1>1. Init => Typed /\ Attempts
  <2> SUFFICES ASSUME Init PROVE Typed /\ Attempts
    OBVIOUS
  <2>1. now \in Nat /\ failures = [k \in Kind |-> << >>]
        /\ \A t \in Task : pc[t] = "idle"
    BY DEF Init, Kind
  <2> QED
    BY <2>1, InitInv, AttemptsEmpty DEF Inv
<1>2. Typed /\ Attempts /\ [Next]_vars => (Typed /\ Attempts)'
  BY TypedStep, AttemptsStep
<1>3. Typed /\ Attempts => AttemptsBounded
  <2> SUFFICES ASSUME Attempts PROVE AttemptsBounded
    OBVIOUS
  <2> QED
    BY Counts, LoginAssumption DEF Attempts, AttemptsBounded, Recent
<1> QED
  BY <1>1, <1>2, <1>3, PTL DEF Spec

(* --- devices ---------------------------------------------------------------- *)

(* The places of a sequence, counted in their order, have a first, a second *)
(* and so on up to their number.                                            *)
LEMMA EveryPlaceCounted ==
    ASSUME NEW n \in Nat, NEW I \in SUBSET (1..n), NEW k \in 1..Cardinality(I)
    PROVE  \E i \in I : Cardinality({j \in I : j <= i}) = k
<1> DEFINE upto(i) == {j \in I : j <= i}
           rank == [i \in I |-> Cardinality(upto(i))]
<1>1. IsFiniteSet(I) /\ Cardinality(I) \in Nat
  <2>1. IsFiniteSet(1..n)
    BY FS_Interval
  <2> QED
    BY <2>1, FS_Subset, FS_CardinalityType
<1>2. \A i \in I : /\ IsFiniteSet(upto(i)) /\ Cardinality(upto(i)) \in Nat
                   /\ Cardinality(upto(i)) <= Cardinality(I)
  BY <1>1, FS_Subset, FS_CardinalityType
<1>3. ASSUME NEW i \in I PROVE Cardinality(upto(i)) # 0
  <2>1. i \in upto(i)
    OBVIOUS
  <2> HIDE DEF upto
  <2> QED
    BY <1>2, <2>1, FS_EmptySet
<1>4. rank \in [I -> 1..Cardinality(I)]
  <2>1. \A i \in I : Cardinality(upto(i)) \in 1..Cardinality(I)
    BY <1>1, <1>2, <1>3
  <2> QED
    BY <2>1
<1>5. ASSUME NEW i \in I, NEW j \in I, i < j
      PROVE  Cardinality(upto(i)) # Cardinality(upto(j))
  <2>0. I \subseteq Int
    OBVIOUS
  <2>1. upto(i) \in SUBSET upto(j)
    <3>1. \A x \in I : x <= i => x <= j
      BY <1>5, <2>0
    <3> QED
      BY <3>1
  <2>2. j \in upto(j)
    BY <2>0
  <2>3. j \notin upto(i)
    BY <1>5, <2>0
  <2> HIDE DEF upto
  <2> QED
    BY <1>2, <2>1, <2>2, <2>3, FS_Subset
<1>6. \A i, j \in I : rank[i] = rank[j] => i = j
  <2>1. \A i, j \in I : i < j \/ j < i \/ i = j
    OBVIOUS
  <2> HIDE DEF upto
  <2> QED
    BY <1>5, <2>1
<1>7. rank \in Injection(I, 1..Cardinality(I))
  <2> HIDE DEF rank
  <2> QED
    BY <1>4, <1>6 DEF Injection, IsInjective
<1>8. IsFiniteSet(1..Cardinality(I)) /\ Cardinality(1..Cardinality(I)) = Cardinality(I)
  BY <1>1, FS_Interval
<1>9. rank \in Surjection(I, 1..Cardinality(I))
  <2> HIDE DEF rank
  <2> QED
    BY <1>7, <1>8, FS_Injection
<1>10. PICK i \in I : rank[i] = k
  BY <1>9 DEF Surjection
<1> QED
  BY <1>10

LEMMA AtPlaces ==
    ASSUME NEW S, NEW s \in Seq(S), NEW I \in SUBSET (1..Len(s))
    PROVE  at(s, I) \in Seq(S) /\ Len(at(s, I)) <= Len(s)
<1> DEFINE nth(k) == CHOOSE i \in I : Cardinality({j \in I : j <= i}) = k
<1>1. Len(s) \in Nat /\ IsFiniteSet(1..Len(s)) /\ Cardinality(1..Len(s)) = Len(s)
  BY FS_Interval
<1>2. Cardinality(I) \in Nat /\ Cardinality(I) <= Len(s)
  BY <1>1, FS_Subset, FS_CardinalityType
<1>3. \A k \in 1..Cardinality(I) : nth(k) \in I
  BY <1>1, EveryPlaceCounted
<1>4. \A k \in 1..Cardinality(I) : s[nth(k)] \in S
  <2> HIDE DEF nth
  <2>1. \A i \in 1..Len(s) : s[i] \in S
    OBVIOUS
  <2> QED
    BY <1>3, <2>1
<1>5. at(s, I) = [k \in 1..Cardinality(I) |-> s[nth(k)]]
  BY DEF at
<1> HIDE DEF nth
<1> QED
  BY <1>2, <1>4, <1>5

LEMMA FewerPlaces ==
    ASSUME NEW S, NEW s \in Seq(S), NEW i \in 1..Len(s)
    PROVE  /\ RemoveAt(s, i) \in Seq(S) /\ Len(RemoveAt(s, i)) = Len(s) - 1
<1>1. SubSeq(s, 1, i - 1) \in Seq(S) /\ Len(SubSeq(s, 1, i - 1)) = i - 1
  BY SubSeqProperties
<1>2. /\ SubSeq(s, i + 1, Len(s)) \in Seq(S)
      /\ Len(SubSeq(s, i + 1, Len(s))) = Len(s) - i
  BY SubSeqProperties
<1> DEFINE front == SubSeq(s, 1, i - 1)
           back == SubSeq(s, i + 1, Len(s))
<1>3. RemoveAt(s, i) = front \o back
  BY DEF RemoveAt
<1>4. front \in Seq(S) /\ Len(front) = i - 1 /\ back \in Seq(S) /\ Len(back) = Len(s) - i
  BY <1>1, <1>2
<1> HIDE DEF front, back
<1>5. front \o back \in Seq(S) /\ Len(front \o back) = Len(front) + Len(back)
  BY <1>4, ConcatProperties
<1> QED
  BY <1>3, <1>4, <1>5

LEMMA MorePlaces ==
    ASSUME NEW S, NEW s \in Seq(S), NEW d \in S
    PROVE  <<d>> \o s \in Seq(S) /\ Len(<<d>> \o s) = Len(s) + 1
<1>1. <<d>> \in Seq(S) /\ Len(<<d>>) = 1
  OBVIOUS
<1> QED
  BY <1>1, ConcatProperties

LEMMA Unexpired ==
    ASSUME NEW S, NEW s \in Seq(S)
    PROVE  unexpired(s) \in Seq(S) /\ Len(unexpired(s)) <= Len(s)
<1> DEFINE I == {i \in DOMAIN s : ~ s[i].expired}
<1>1. I \in SUBSET (1..Len(s))
  OBVIOUS
<1> HIDE DEF I
<1>2. at(s, I) \in Seq(S) /\ Len(at(s, I)) <= Len(s)
  BY <1>1, AtPlaces
<1> QED
  BY <1>2 DEF unexpired, I

LEMMA Newest ==
    ASSUME NEW S, devices \in Seq(S)
    PROVE  newest \in Seq(S) /\ Len(newest) <= MAX_DEVICES
<1> DEFINE n == IF Len(devices) > MAX_DEVICES THEN MAX_DEVICES ELSE Len(devices)
<1>1. n \in Nat /\ n <= Len(devices) /\ n <= MAX_DEVICES
  BY LoginAssumption
<1>2. newest = SubSeq(devices, 1, n)
  BY DEF newest
<1> HIDE DEF n
<1>3. \A i \in 1..n : devices[i] \in S
  BY <1>1
<1>4. SubSeq(devices, 1, n) \in Seq(S) /\ Len(SubSeq(devices, 1, n)) <= n
  BY <1>1, <1>3, SubSeqProperties
<1>5. Len(SubSeq(devices, 1, n)) \in Nat
  BY <1>4
<1> QED
  BY <1>1, <1>2, <1>4, <1>5, LoginAssumption

(* The device a sign-in leaves behind.                                      *)
Newly(t) == [password |-> row[t].password, secret |-> row[t].secret, expired |-> FALSE]

(* A device more, the list cut, or no more than before.                     *)
Longer == Len(devices') <= Len(devices) + 1 /\ \E t \in Task : Remember(t)
Shortened == Len(devices') <= MAX_DEVICES /\ \E t \in Task : CutDevices(t)

(* The list stays one of devices of the same kind, and only a sign-in makes *)
(* it longer.                                                               *)
LEMMA DevicesStep ==
    ASSUME [Next]_vars, NEW S, devices \in Seq(S),
           \A d \in S : [d EXCEPT !.expired = TRUE] \in S,
           \A t \in Task : Remember(t) => Newly(t) \in S
    PROVE  /\ devices' \in Seq(S)
           /\ Longer \/ Shortened \/ Len(devices') <= Len(devices)
<1> USE DEF database, history
<1>1. CASE UNCHANGED devices
  BY <1>1
<1>2. /\ << >> \in Seq(S) /\ Len(<< >>) = 0
      /\ Len(devices) \in Nat /\ 0 <= Len(devices)
  OBVIOUS
<1>3. \A i \in DOMAIN devices :
          /\ RemoveAt(devices, i) \in Seq(S)
          /\ Len(RemoveAt(devices, i)) = Len(devices) - 1
  BY FewerPlaces
<1>4. ASSUME NEW t \in Task, CheckDevice(t)
      PROVE  devices' \in Seq(S) /\ Len(devices') <= Len(devices)
  <2>1. CASE UNCHANGED devices
    BY <2>1
  <2>2. CASE \E i \in DOMAIN devices :
                 devices' = (IF devices[i].expired THEN << >>
                             ELSE <<devices[i]>>) \o RemoveAt(devices, i)
    <3>1. PICK i \in DOMAIN devices :
                 devices' = (IF devices[i].expired THEN << >>
                             ELSE <<devices[i]>>) \o RemoveAt(devices, i)
      BY <2>2
    <3>2. devices[i] \in S
      OBVIOUS
    <3>3. CASE devices[i].expired
      <4>1. devices' = << >> \o RemoveAt(devices, i)
        BY <3>1, <3>3
      <4>2. devices' = RemoveAt(devices, i)
        BY <1>3, <4>1, ConcatEmptySeq
      <4> QED
        BY <1>3, <4>2, <1>2
    <3>4. CASE ~ devices[i].expired
      <4> DEFINE rest == RemoveAt(devices, i)
      <4>1. devices' = <<devices[i]>> \o rest
        BY <3>1, <3>4
      <4>2. rest \in Seq(S) /\ Len(rest) = Len(devices) - 1
        BY <1>3
      <4> HIDE DEF rest
      <4>3. devices' \in Seq(S) /\ Len(devices') = Len(rest) + 1
        BY <3>2, <4>1, <4>2, MorePlaces
      <4> QED
        BY <4>2, <4>3, <1>2
    <3> QED
      BY <3>3, <3>4
  <2> QED
    BY <1>4, <2>1, <2>2 DEF CheckDevice
<1>5. ASSUME NEW t \in Task, Remember(t) PROVE devices' \in Seq(S) /\ Longer
  <2>1. Newly(t) \in S /\ devices' = <<Newly(t)>> \o unexpired(devices)
    BY <1>5 DEF Remember, Newly
  <2>2. unexpired(devices) \in Seq(S) /\ Len(unexpired(devices)) <= Len(devices)
    BY Unexpired
  <2>3. devices' \in Seq(S) /\ Len(devices') = Len(unexpired(devices)) + 1
    BY <2>1, <2>2, MorePlaces
  <2>4. Len(unexpired(devices)) \in Nat
    BY <2>2
  <2> QED
    BY <1>2, <1>5, <2>2, <2>3, <2>4 DEF Longer
<1>8. ASSUME NEW t \in Task, CutDevices(t) PROVE devices' \in Seq(S) /\ Shortened
  BY <1>8, Newest DEF CutDevices, Shortened
<1>6. ASSUME NEW t \in Task, Forget(t)
      PROVE  devices' \in Seq(S) /\ Len(devices') <= Len(devices)
  <2>1. \/ UNCHANGED devices
        \/ devices' = unexpired(devices)
        \/ \E i \in DOMAIN devices : devices' = RemoveAt(devices, i)
        \/ devices' = << >>
    BY <1>6 DEF Forget, kept
  <2>2. Len(unexpired(devices)) \in Nat /\ Len(devices) \in Nat
    BY Unexpired
  <2>3. CASE devices' = unexpired(devices)
    BY <2>2, <2>3, Unexpired, <1>2
  <2>4. CASE \E i \in DOMAIN devices : devices' = RemoveAt(devices, i)
    <3>1. PICK i \in DOMAIN devices : devices' = RemoveAt(devices, i)
      BY <2>4
    <3>2. devices' \in Seq(S) /\ Len(devices') = Len(devices) - 1
      BY <1>3, <3>1
    <3> QED
      BY <2>2, <3>2, <1>2
  <2>5. CASE UNCHANGED devices
    BY <2>2, <2>5
  <2>6. CASE devices' = << >>
    BY <1>2, <2>6
  <2> QED
    BY <2>1, <2>3, <2>4, <2>5, <2>6
<1>7. ASSUME Age PROVE devices' \in Seq(S) /\ Len(devices') <= Len(devices)
  <2>1. PICK i \in DOMAIN devices : devices' = [devices EXCEPT ![i].expired = TRUE]
    BY <1>7 DEF Age
  <2>2. [devices[i] EXCEPT !.expired = TRUE] \in S
    OBVIOUS
  <2> DEFINE e == [devices[i] EXCEPT !.expired = TRUE]
  <2>3. devices' = [devices EXCEPT ![i] = e]
    BY <2>1
  <2> HIDE DEF e
  <2>4. devices' \in Seq(S) /\ Len(devices') = Len(devices)
    BY <2>2, <2>3 DEF e
  <2> QED
    BY <2>4
<1> QED
  BY <1>1, <1>4, <1>5, <1>6, <1>7, <1>8 DEF Next, vars, Arrive, Load, Verify, CheckCode, Issue,
     TrustDays, Confirm, Logout, SetTrustDays, Reply, Tick, Restart, Reset

(* Who is cutting, and who was killed at it.                                *)
LEMMA CuttingStep ==
    ASSUME Typed, uncut \in Nat, [Next]_vars
    PROVE  /\ Cardinality(Cutting) \in Nat /\ Cardinality(Cutting)' \in Nat
           /\ uncut' \in Nat
           /\ ((\E t \in Task : Remember(t)) =>
                  Cardinality(Cutting)' = Cardinality(Cutting) + 1 /\ uncut' = uncut)
           /\ (~ (\E t \in Task : Remember(t) \/ CutDevices(t)) =>
                  Cardinality(Cutting)' + uncut' = Cardinality(Cutting) + uncut)
<1> USE DEF database, history
<1>1. pc \in [Task -> Where] /\ pc' \in [Task -> Where]
  BY TypedStep DEF Typed, TasksTyped
<1>2. IsFiniteSet(Cutting) /\ Cardinality(Cutting) \in Nat
  BY LoginAssumption, FS_Subset, FS_CardinalityType DEF Cutting
<1>3. IsFiniteSet(Cutting') /\ Cardinality(Cutting') \in Nat
  BY LoginAssumption, FS_Subset, FS_CardinalityType DEF Cutting
<1>4. ASSUME NEW t \in Task, Remember(t)
      PROVE  Cardinality(Cutting)' = Cardinality(Cutting) + 1 /\ uncut' = uncut
  <2>1. t \notin Cutting /\ Cutting' = Cutting \cup {t} /\ uncut' = uncut
    BY <1>1, <1>4 DEF Remember, Goto, Cutting
  <2> QED
    BY <1>2, <2>1, FS_AddElement
<1>5. ASSUME NEW t \in Task, CutDevices(t) PROVE uncut' = 0 /\ ~ \E s \in Task : Remember(s)
  <2>1. uncut' = 0 /\ pc'[t] = "idle" /\ pc[t] = "cut"
    BY <1>1, <1>5 DEF CutDevices, Finish, Goto
  <2>2. ASSUME NEW s \in Task, Remember(s) PROVE FALSE
    <3>1. pc[s] = "remember" /\ pc'[s] = "cut" /\ pc'[t] = (IF s = t THEN "cut" ELSE pc[t])
      BY <1>1, <2>2 DEF Remember, Goto
    <3> QED
      BY <2>1, <3>1
  <2> QED
    BY <2>1, <2>2
<1>6. ASSUME Restart \/ Reset
      PROVE  Cardinality(Cutting)' = 0 /\ uncut' = uncut + Cardinality(Cutting)
  <2>1. Cutting' = {} /\ uncut' = uncut + Cardinality(Cutting)
    BY <1>6 DEF Restart, Reset, Halt, Cutting
  <2> QED
    BY <2>1, FS_EmptySet
<1>7. ASSUME Tick \/ Age \/ UNCHANGED vars PROVE Cutting' = Cutting /\ uncut' = uncut
  BY <1>7 DEF Tick, Age, vars, Cutting
<1>8. ASSUME NEW t \in Task,
             \/ Arrive(t) \/ Load(t) \/ Verify(t) \/ CheckDevice(t) \/ CheckCode(t)
             \/ Issue(t) \/ TrustDays(t) \/ Confirm(t) \/ Logout(t)
             \/ SetTrustDays(t) \/ Forget(t) \/ Reply(t)
      PROVE  Cutting' = Cutting /\ uncut' = uncut
  <2>1. uncut' = uncut
    BY <1>8 DEF Arrive, Load, Verify, CheckDevice, CheckCode, Issue, TrustDays,
       Confirm, Logout, SetTrustDays, Forget, Reply
  <2>2. /\ pc[t] # "cut"
        /\ \E where : pc' = [pc EXCEPT ![t] = where] /\ where # "cut"
    BY <1>8 DEF Arrive, Load, Verify, CheckDevice, CheckCode, Issue, TrustDays,
       Confirm, Logout, SetTrustDays, Forget, Reply, Finish, Goto, Change, Setup, Enable,
       Disable, first_step
  <2> QED
    BY <1>1, <2>1, <2>2 DEF Cutting
<1> QED
  BY <1>2, <1>3, <1>4, <1>5, <1>6, <1>7, <1>8 DEF Next

(* --- types -------------------------------------------------------------------- *)

OverLimit ==
    uncut \in Nat /\ Len(devices) <= MAX_DEVICES + Cardinality(Cutting) + uncut

Listed ==
    /\ devices \in Seq(Device) /\ OverLimit /\ days \in 0..1
    /\ \A t \in Task : pc[t] \in {"check", "code", "issue", "issue_remember"} => given(t)

LEMMA GivenStep == ASSUME Typed, Listed, [Next]_vars, NEW t \in Task,
                          pc'[t] \in {"check", "code", "issue", "issue_remember"}
                   PROVE  given(t)'
<1> USE DEF database, history
<1> DEFINE In(p) == p \in {"check", "code", "issue", "issue_remember"}
<1>1. /\ pc \in [Task -> Where] /\ request \in [Task -> Request \cup {NoRequest}]
      /\ row \in [Task -> User \cup {NoRow}]
      /\ In(pc[t]) => given(t)
  BY DEF Typed, TasksTyped, Listed
<1>2. CASE pc'[t] = pc[t] /\ request'[t] = request[t] /\ row'[t] = row[t]
  BY <1>1, <1>2 DEF given
<1>3. ASSUME NEW u \in Task,
             \/ Arrive(u) \/ Load(u) \/ Verify(u) \/ CheckDevice(u) \/ CheckCode(u)
             \/ Issue(u) \/ TrustDays(u) \/ Remember(u) \/ CutDevices(u) \/ Confirm(u) \/ Logout(u)
             \/ SetTrustDays(u) \/ Forget(u) \/ Reply(u)
      PROVE  given(t)'
  <2>1. CASE u # t
    <3>1. pc'[t] = pc[t] /\ request'[t] = request[t] /\ row'[t] = row[t]
      <4>1. CASE \/ Finish(u)
                 \/ \E where : Goto(u, where) /\ UNCHANGED <<request, row>>
        BY <1>1, <2>1, <4>1 DEF Finish, Goto
      <4>2. CASE Arrive(u) \/ Load(u) \/ Change(u)
        BY <1>1, <2>1, <4>2 DEF Arrive, Load, Change, Finish, Goto
      <4>3. Setup(u) \/ Enable(u) \/ Disable(u) =>
                \/ Finish(u)
                \/ Goto(u, "forget") /\ UNCHANGED <<request, row>>
        BY DEF Setup, Enable, Disable
      <4>4. Confirm(u) => Finish(u) \/ Change(u) \/ Setup(u) \/ Enable(u) \/ Disable(u)
        BY DEF Confirm
      <4> QED
        BY <1>3, <4>1, <4>2, <4>3, <4>4 DEF Verify, CheckDevice, CheckCode, Issue,
           TrustDays, Remember, CutDevices, Logout, SetTrustDays, Forget, Reply
    <3> QED
      BY <1>2, <3>1
  <2>2. CASE u = t
    <3>1. CASE Finish(t)
      BY <1>1, <3>1 DEF Finish, Goto
    <3>2. CASE ~ Finish(t)
      <4>1. (In(pc[t]) \/ (pc[t] = "verify" /\ given(t))) /\ UNCHANGED <<request, row>>
        BY <1>1, <1>3, <2>2, <3>2 DEF Arrive, Load, Verify, CheckDevice, CheckCode, Issue,
           TrustDays, Remember, CutDevices, Confirm, Logout, SetTrustDays, Forget, Reply,
           Goto, Change, Setup, Enable, Disable, first_step
      <4>2. given(t)
        BY <1>1, <4>1
      <4> QED
        BY <4>1, <4>2 DEF given
    <3> QED
      BY <3>1, <3>2
  <2> QED
    BY <2>1, <2>2
<1>4. ~ Restart /\ ~ Reset
  BY DEF Restart, Reset, Halt
<1>5. CASE Tick \/ Age \/ UNCHANGED vars
  BY <1>2, <1>5 DEF Tick, Age, vars
<1> QED
  BY <1>3, <1>4, <1>5 DEF Next

LEMMA InitListed == ASSUME Init PROVE Listed
<1>1. devices = << >> /\ days = 1 /\ \A t \in Task : pc[t] = "idle"
  BY DEF Init
<1>2. OverLimit
  <2>1. Cutting = {} /\ uncut = 0
    BY <1>1 DEF Init, Cutting
  <2>2. Cardinality(Cutting) = 0 /\ Len(devices) = 0 /\ MAX_DEVICES \in Nat
    BY <1>1, <2>1, FS_EmptySet, LoginAssumption
  <2> QED
    BY <2>1, <2>2 DEF OverLimit
<1> QED
  BY <1>1, <1>2 DEF Listed

LEMMA ListedStep == ASSUME Typed, Listed, [Next]_vars PROVE Listed'
<1> USE DEF database, history
<1>1. \A d \in Device : [d EXCEPT !.expired = TRUE] \in Device
  BY DEF Device
<1>2. ASSUME NEW t \in Task, Remember(t) PROVE Newly(t) \in Device
  <2>1. row[t] \in User
    BY <1>2 DEF Typed, TasksTyped, TaskTyped, Past, Remember
  <2> QED
    BY <2>1 DEF Newly, Device, User
<1>3. /\ devices \in Seq(Device) /\ devices' \in Seq(Device)
      /\ Longer \/ Shortened \/ Len(devices') <= Len(devices)
  BY <1>1, <1>2, DevicesStep DEF Listed
<1>5. OverLimit'
  <2>1. /\ Len(devices) \in Nat /\ Len(devices') \in Nat
        /\ MAX_DEVICES \in Nat /\ OverLimit /\ uncut \in Nat
    BY <1>3, LoginAssumption DEF Listed, OverLimit
  <2>2. CASE Shortened
    BY <2>1, <2>2, CuttingStep DEF Shortened, OverLimit
  <2>3. CASE Longer
    BY <2>1, <2>3, CuttingStep DEF Longer, OverLimit
  <2>4. CASE Len(devices') <= Len(devices) /\ ~ \E t \in Task : CutDevices(t)
    BY <2>1, <2>4, CuttingStep DEF OverLimit
  <2>5. CASE \E t \in Task : CutDevices(t)
    <3>1. Len(devices') <= MAX_DEVICES
      BY <1>3, <2>5, Newest DEF CutDevices
    <3> QED
      BY <2>1, <3>1, CuttingStep DEF OverLimit
  <2> QED
    BY <1>3, <2>2, <2>3, <2>4, <2>5
<1>4. days' \in 0..1
  <2>1. CASE UNCHANGED days
    BY <2>1 DEF Listed
  <2>2. ASSUME NEW t \in Task, SetTrustDays(t) PROVE days' \in 0..1
    <3>1. request[t] \in Request
      BY <2>2 DEF Typed, TasksTyped, TaskTyped, SetTrustDays
    <3> QED
      BY <2>2, <3>1 DEF SetTrustDays, Request
  <2> QED
    BY <2>1, <2>2 DEF Next, vars, Arrive, Load, Verify, CheckDevice, CheckCode, Issue,
       TrustDays, Remember, CutDevices, Confirm, Logout, Forget, Reply, Tick, Age, Restart, Reset
<1> QED
  BY <1>3, <1>4, <1>5, GivenStep DEF Listed

(* api/auth.py:43-115, devices.py:133-160: the variables hold what the code *)
(* keeps in them, a request that is past the password had it right, and the *)
(* list of devices is over its limit by no more than the sign-ins that have *)
(* added one and not cut the list yet, or were killed before they could.    *)
THEOREM TypeCorrect == Spec => []TypeOK
<1>1. Init => Typed /\ Listed
  BY InitInv, InitListed DEF Inv
<1>2. Typed /\ Listed /\ [Next]_vars => (Typed /\ Listed)'
  BY TypedStep, ListedStep
<1>3. Typed /\ Listed => TypeOK
  BY DEF Typed, TasksTyped, TaskTyped, RestTyped, Past, Listed, OverLimit, TypeOK
<1> QED
  BY <1>1, <1>2, <1>3, PTL DEF Spec

(* --- devices that need no code ---------------------------------------------- *)

(* A device that the second factor of today has let in.                     *)
Trusted == {d \in Device : /\ user.enabled
                           /\ d.secret = user.secret /\ d.password = user.password}

SameUser(r) == /\ r.enabled = user.enabled
               /\ r.secret = user.secret /\ r.password = user.password

(* A request knows the user of today until it changes it itself, only one   *)
(* that has shown a code goes on to be remembered, and the devices are      *)
(* trusted or about to be forgotten.                                        *)
Fresh(t) ==
    /\ pc[t] \notin {"idle", "load", "forget", "reply"} => SameUser(row[t])
    /\ pc[t] \in {"check", "code", "issue_remember", "trust_days", "remember"} =>
          row[t].enabled
Ending(t) == pc[t] = "forget" /\ request[t].op \in {"password", "disable"}

Entered ==
    /\ \A t \in Task : Fresh(t)
    /\ devices \in Seq(Trusted) \/ \E t \in Task : Ending(t)

Kept == world.alone => world.faults \subseteq {"age"} /\ Entered

(* A request takes a step, and there is no other.                           *)
LEMMA EnteredAlone ==
    ASSUME OneAtATime, NEW t \in Task, pc[t] # "idle" \/ Quiet,
           \A s \in Task \ {t} : pc'[s] = pc[s],
           Fresh(t)', devices' \in Seq(Trusted)' \/ Ending(t)'
    PROVE  Entered'
<1>1. \A s \in Task \ {t} : pc'[s] = "idle"
  BY DEF OneAtATime, Quiet
<1>2. \A s \in Task \ {t} : Fresh(s)'
  BY <1>1 DEF Fresh
<1> QED
  BY <1>2 DEF Entered

LEMMA OthersIdle ==
    ASSUME Typed, NEW t \in Task,
           \/ Arrive(t) \/ Load(t) \/ Verify(t) \/ CheckDevice(t) \/ CheckCode(t)
           \/ Issue(t) \/ TrustDays(t) \/ Remember(t) \/ CutDevices(t) \/ Confirm(t) \/ Logout(t)
           \/ SetTrustDays(t) \/ Forget(t) \/ Reply(t)
    PROVE  /\ \A s \in Task \ {t} : pc'[s] = pc[s]
           /\ pc[t] # "idle" \/ Arrive(t)
<1>1. pc \in [Task -> Where]
  BY DEF Typed, TasksTyped
<1> QED
  BY <1>1 DEF Arrive, Load, Verify, CheckDevice, CheckCode, Issue, TrustDays, Remember, CutDevices,
     Confirm, Logout, SetTrustDays, Forget, Reply, Finish, Goto, Change, Setup, Enable,
     Disable

(* The user stays as the devices know it.                                   *)
LEMMA TrustedSame ==
    ASSUME user'.enabled = user.enabled, user'.secret = user.secret,
           user'.password = user.password
    PROVE  Trusted' = Trusted
  BY DEF Trusted

LEMMA FinishFresh ==
    ASSUME Typed, NEW t \in Task, Finish(t)
    PROVE  Fresh(t)'
  BY DEF Finish, Goto, Fresh, Typed, TasksTyped

LEMMA GotoFresh ==
    ASSUME Typed, NEW t \in Task, Fresh(t), NEW where, Goto(t, where),
           UNCHANGED <<request, row>>,
           user'.enabled = user.enabled, user'.secret = user.secret,
           user'.password = user.password,
           pc[t] \notin {"idle", "load", "forget", "reply"}
               \/ where \in {"idle", "load", "forget", "reply"},
           where \in {"check", "code", "issue_remember", "trust_days", "remember"}
               => row[t].enabled
    PROVE  Fresh(t)'
  BY DEF Goto, Fresh, SameUser, Typed, TasksTyped

LEMMA LargerSeq ==
    ASSUME NEW S, NEW T, S \subseteq T, NEW s \in Seq(S)
    PROVE  s \in Seq(T)
  OBVIOUS

LEMMA EnteredStep ==
    ASSUME Typed, Listed, world.alone, world.faults \subseteq {"age"}, OneAtATime,
           Entered, [Next]_vars
    PROVE  Entered'
<1> USE DEF database, history
<1>1. /\ pc \in [Task -> Where] /\ user \in User
      /\ row \in [Task -> User \cup {NoRow}]
      /\ \A t \in Task : Fresh(t) /\ (Past(t) => row[t] \in User)
  BY DEF Typed, TasksTyped, TaskTyped, RestTyped, Entered
<1>2. \A d \in Trusted : [d EXCEPT !.expired = TRUE] \in Trusted
  BY DEF Trusted, Device
<1>3. ASSUME NEW t \in Task, Remember(t) PROVE Newly(t) \in Trusted
  <2>1. row[t].enabled /\ SameUser(row[t])
    BY <1>1, <1>3 DEF Remember, Fresh
  <2> QED
    BY <1>1, <2>1 DEF SameUser, Newly, Trusted, Device, User
<1>4. devices \in Seq(Trusted) => devices' \in Seq(Trusted)
  BY <1>2, <1>3, DevicesStep DEF Listed
<1>5. UNCHANGED <<user.enabled, user.secret, user.password>> => Trusted' = Trusted
  BY TrustedSame
<1>6. ASSUME NEW t \in Task, pc[t] # "forget", pc[t] # "idle" \/ Quiet
      PROVE  devices \in Seq(Trusted)
  BY <1>6 DEF Entered, OneAtATime, Ending, Quiet
<1>7. ASSUME NEW t \in Task,
             \/ Load(t) \/ Verify(t) \/ CheckDevice(t) \/ CheckCode(t)
             \/ Issue(t) \/ TrustDays(t) \/ Remember(t) \/ CutDevices(t) \/ Logout(t) \/ SetTrustDays(t)
             \/ Arrive(t) \/ Reply(t)
      PROVE  Entered'
  <2>1. /\ user'.enabled = user.enabled /\ user'.secret = user.secret
        /\ user'.password = user.password
    <3>1. \/ UNCHANGED user
          \/ user' = [user EXCEPT !.last = code[t].counter]
          \/ user' = [user EXCEPT !.version = row[t].version + 1]
      BY <1>7 DEF Load, Verify, CheckDevice, CheckCode, Issue, TrustDays, Remember, CutDevices,
         Logout, SetTrustDays, Arrive, Reply
    <3> QED
      BY <1>1, <3>1 DEF User
  <2>2. pc[t] # "forget" /\ (pc[t] # "idle" \/ Quiet)
    BY <1>7 DEF Load, Verify, CheckDevice, CheckCode, Issue, TrustDays, Remember, CutDevices,
         Logout, SetTrustDays, Arrive, Reply
  <2>3. devices' \in Seq(Trusted)'
    BY <1>4, <1>6, <2>1, <2>2, TrustedSame
  <2>4. Fresh(t)'
    <3>1. CASE Finish(t)
      BY <3>1, FinishFresh
    <3>2. CASE Arrive(t) \/ (Load(t) /\ ~ Finish(t))
      BY <1>1, <2>1, <3>2 DEF Arrive, Load, first_step, Goto, Fresh, SameUser
    <3>3. CASE ~ Arrive(t) /\ ~ Load(t) /\ ~ Finish(t)
      <4>1. CASE Verify(t) \/ CheckDevice(t)
        <5>1. /\ pc[t] \in {"verify", "check"} /\ UNCHANGED <<request, row>>
              /\ Goto(t, "check") \/ Goto(t, "code") \/ Goto(t, "issue")
              /\ Goto(t, "check") \/ pc[t] = "check" => row[t].enabled
          BY <1>1, <3>3, <4>1 DEF Verify, CheckDevice, Goto, Fresh
        <5>2. CASE Goto(t, "check")
          BY <1>1, <2>1, <5>1, <5>2, GotoFresh
        <5>3. CASE Goto(t, "code") /\ row[t].enabled
          BY <1>1, <2>1, <5>1, <5>3, GotoFresh
        <5>4. CASE Goto(t, "issue")
          BY <1>1, <2>1, <5>1, <5>4, GotoFresh
        <5>5. CASE Goto(t, "code") /\ Verify(t)
          BY <1>1, <5>5 DEF Verify, Goto, Finish
        <5> QED
          BY <4>1, <5>1, <5>2, <5>3, <5>4, <5>5 DEF CheckDevice
      <4>2. CASE CheckCode(t)
        <5>1. /\ pc[t] = "code" /\ row[t].enabled /\ UNCHANGED <<request, row>>
              /\ Goto(t, "issue_remember") \/ Goto(t, "issue")
          BY <1>1, <3>3, <4>2 DEF CheckCode, Fresh
        <5> QED
          BY <1>1, <2>1, <5>1, GotoFresh
      <4>3. CASE Issue(t)
        <5>1. /\ pc[t] = "issue_remember" /\ row[t].enabled /\ UNCHANGED <<request, row>>
              /\ Goto(t, "trust_days")
          BY <1>1, <3>3, <4>3 DEF Issue, Fresh
        <5> QED
          BY <1>1, <2>1, <5>1, GotoFresh
      <4>4. CASE TrustDays(t)
        <5>1. /\ pc[t] = "trust_days" /\ row[t].enabled /\ UNCHANGED <<request, row>>
              /\ Goto(t, "remember")
          BY <1>1, <3>3, <4>4 DEF TrustDays, Fresh
        <5> QED
          BY <1>1, <2>1, <5>1, GotoFresh
      <4>5. CASE SetTrustDays(t)
        <5>1. pc[t] = "set_days" /\ Goto(t, "forget") /\ UNCHANGED <<request, row>>
          BY <3>3, <4>5 DEF SetTrustDays
        <5> QED
          BY <1>1, <2>1, <5>1, GotoFresh
      <4>6. ~ CutDevices(t) /\ ~ Logout(t) /\ ~ Reply(t)
        BY <3>3 DEF CutDevices, Logout, Reply
      <4>7. CASE Remember(t)
        <5>1. pc[t] = "remember" /\ Goto(t, "cut") /\ UNCHANGED <<request, row>>
          BY <4>7 DEF Remember
        <5> QED
          BY <1>1, <2>1, <5>1, GotoFresh
      <4> QED
        BY <1>7, <3>3, <4>1, <4>2, <4>3, <4>4, <4>5, <4>6, <4>7
    <3> QED
      BY <3>1, <3>2, <3>3
  <2>5. \A s \in Task \ {t} : pc'[s] = pc[s]
    BY <1>7, OthersIdle
  <2> QED
    BY <2>2, <2>3, <2>4, <2>5, EnteredAlone
<1>8. ASSUME NEW t \in Task, Forget(t) PROVE Entered'
  <2>1. UNCHANGED user /\ pc[t] = "forget"
    BY <1>8 DEF Forget
  <2>2. devices' \in Seq(Trusted)
    <3>1. CASE Ending(t)
      <4>1. kept(t) = {<< >>}
        BY <3>1 DEF Ending, kept
      <4>2. devices' = << >>
        BY <1>8, <4>1 DEF Forget
      <4> QED
        BY <4>2
    <3>2. CASE ~ Ending(t)
      BY <1>4, <2>1, <3>2 DEF Entered, OneAtATime, Ending
    <3> QED
      BY <3>1, <3>2
  <2>3. Fresh(t)'
    <3>1. Finish(t) \/ Goto(t, "reply")
      BY <1>8 DEF Forget
    <3> QED
      BY <1>1, <3>1, FinishFresh DEF Fresh, Goto
  <2>4. \A s \in Task \ {t} : pc'[s] = pc[s]
    BY <1>8, OthersIdle
  <2>5. devices' \in Seq(Trusted)'
    BY <2>1, <2>2, TrustedSame
  <2> QED
    BY <2>1, <2>3, <2>4, <2>5, EnteredAlone
<1>9. ASSUME NEW t \in Task, Confirm(t) PROVE Entered'
  <2>1. pc[t] = "confirm" /\ UNCHANGED devices /\ SameUser(row[t]) /\ row[t] \in User
    BY <1>1, <1>9 DEF Confirm, Fresh, Past
  <2>2. devices \in Seq(Trusted) /\ \A s \in Task \ {t} : pc'[s] = pc[s]
    BY <1>6, <1>9, <2>1, OthersIdle
  <2>3. CASE Finish(t) /\ (Trusted \subseteq Trusted')
    <3>1. devices' \in Seq(Trusted)'
      BY <2>1, <2>2, <2>3, LargerSeq
    <3> QED
      BY <2>1, <2>2, <2>3, <3>1, FinishFresh, EnteredAlone
  <2>4. CASE Finish(t) /\ UNCHANGED user
    BY <2>3, <2>4, TrustedSame
  <2>5. CASE Goto(t, "forget") /\ request[t].op \in {"password", "disable"}
             /\ UNCHANGED request
    <3>1. Ending(t)' /\ Fresh(t)'
      BY <1>1, <2>5 DEF Goto, Ending, Fresh
    <3> QED
      BY <2>1, <2>2, <3>1, EnteredAlone
  <2>6. CASE Change(t)
    BY <2>5, <2>6 DEF Change
  <2>7. CASE Setup(t)
    <3>1. CASE row[t].enabled
      BY <2>4, <2>7, <3>1 DEF Setup
    <3>2. CASE ~ row[t].enabled
      <4>1. Trusted = {}
        BY <2>1, <3>2 DEF SameUser, Trusted
      <4> QED
        BY <2>3, <2>7, <4>1 DEF Setup
    <3> QED
      BY <3>1, <3>2
  <2>8. CASE Enable(t)
    <3>1. CASE ~ row[t].enabled
      <4>1. Trusted = {}
        BY <2>1, <3>1 DEF SameUser, Trusted
      <4> QED
        BY <2>3, <2>8, <4>1 DEF Enable
    <3>2. CASE row[t].enabled
      BY <2>4, <2>8, <3>2 DEF Enable
    <3> QED
      BY <3>1, <3>2
  <2>9. CASE Disable(t)
    BY <2>4, <2>5, <2>9 DEF Disable
  <2> QED
    BY <1>9, <2>4, <2>6, <2>7, <2>8, <2>9 DEF Confirm
<1>10. CASE Tick \/ Age \/ UNCHANGED vars
  <2>1. UNCHANGED <<user, pc, request, row>>
    BY <1>10 DEF Tick, Age, vars
  <2>2. Trusted' = Trusted
    BY <2>1, TrustedSame
  <2>3. \A t \in Task : Fresh(t)' /\ (Ending(t) => Ending(t)')
    BY <1>1, <2>1 DEF Fresh, SameUser, Ending
  <2> QED
    BY <1>4, <2>2, <2>3 DEF Entered
<1>11. ~ Restart /\ ~ Reset
  BY DEF Restart, Reset
<1> QED
  BY <1>7, <1>8, <1>9, <1>10, <1>11 DEF Next

LEMMA KeptStep == ASSUME Typed, Listed, Once, Kept, [Next]_vars PROVE Kept'
<1>1. world'.alone = world.alone /\ world'.faults \subseteq world.faults
  BY DEF Next, vars, Arrive, Load, Verify, CheckDevice, CheckCode, Issue,
     TrustDays, Remember, CutDevices, Confirm, Logout, SetTrustDays, Forget, Reply, Tick, Age,
     Restart, Reset, Typed, RestTyped, World
<1> QED
  BY <1>1, EnteredStep DEF Kept, Once

(* api/auth.py:182-185, 329-331, devices.py:106-155: a device that may pass *)
(* without a code has entered one, with the secret and the password of      *)
(* today, for any requests one after another and any number of devices.     *)
THEOREM DevicesHaveEnteredACodeHolds ==
    ASSUME Undisturbed
    PROVE  Spec => []DevicesHaveEnteredACode
<1>1. Init => Typed /\ Listed /\ Once /\ Kept
  <2> SUFFICES ASSUME Init PROVE Typed /\ Listed /\ Once /\ Kept
    OBVIOUS
  <2>1. devices = << >> /\ days = 1 /\ world \in Worlds /\ \A t \in Task : pc[t] = "idle"
    BY DEF Init
  <2>2. Typed
    BY InitInv DEF Inv
  <2>3. Once
    BY DEF Init, Once, OneAtATime, CodesCounted, Coding
  <2>4. Listed
    BY InitListed
  <2>5. Kept
    BY <2>1 DEF Kept, Entered, Fresh, Undisturbed
  <2> QED
    BY <2>2, <2>3, <2>4, <2>5
<1>2. Typed /\ Listed /\ Once /\ Kept /\ [Next]_vars => (Typed /\ Listed /\ Once /\ Kept)'
  BY TypedStep, ListedStep, OnceStep, KeptStep
<1>3. Typed /\ Listed /\ Once /\ Kept => DevicesHaveEnteredACode
  <2> SUFFICES ASSUME Kept, world.alone, Quiet PROVE
          \A i \in DOMAIN devices : /\ user.enabled
                                    /\ devices[i].secret = user.secret
                                    /\ devices[i].password = user.password
    BY DEF DevicesHaveEnteredACode
  <2>1. devices \in Seq(Trusted)
    BY DEF Kept, Entered, Ending, Quiet
  <2>2. \A i \in DOMAIN devices : devices[i] \in Trusted
    BY <2>1
  <2> QED
    BY <2>2 DEF Trusted
<1> QED
  BY <1>1, <1>2, <1>3, PTL DEF Spec
=============================================================================
