# NodeRoost in TLA+

NodeRoost is a control panel for a private network run by headscale. This
directory holds TLA+ modules of its backend (`src/backend/app`), the TLC
configurations that model-check them and the TLAPS proofs about them.

* `tlc -config <run>.cfg <Module>` repeats a run, `tlapm <Module>.tla` a proof.
* `PROJECT.json` names, for every definition that models code, the lines it
  models; for every property the mutation of the code that breaks it; and the
  places in the code that are hard to test.

## The system

One Python process (FastAPI on asyncio) beside one headscale, one database of
its own, agents on the nodes that poll it, and a browser front end. Every
request is a task; tasks interleave wherever the code awaits, and nearly every
read and write of shared state is an await. Settings are JSON blobs, one row
each, so that a change is "read the blob, change it, write the blob".

| Component (`src/backend/app`) | State | Operations | What makes it correct | Here |
|---|---|---|---|---|
| Policy generator: `aclgen`, `exitvia`, `nodekind` | none (pure) | rules, directions, notes, nodes → policy | a personal device is never a destination; every tag used is declared; what a rule means is open and nothing else; a granted exit is visible | `AclGen` |
| Policy application: `policy_apply`, `api/policy` | `_write_lock`, the policy in force | build, push, declare tags, reconcile, PUT rules and its undo | the policy in force is the one the stored state asks for: at once under the lock, eventually in any case | `PolicySync` |
| Routing directions: `routing`, `api/routing` | blob `routing`, approvals in headscale | create, delete, refresh (request and hourly loop), approve | no traffic through a device or a node that is gone; nothing is approved that was not asked for | `PolicySync`, `AclGen`, `Agents` |
| Node card: `api/nodes` | blob `node_meta`, tags and names in headscale | notes, roles, permitted exits, delete, rename, reconnect, routes, forced exit | a gateway wears its tag; nothing names a deleted node; a reconnection loses no note and no rule | `PolicySync`, `Fleet`, `Agents` |
| Settings store: `settings_store` | the blobs, the settings lock | serialized updates, `atomic_update` | a serialized call is atomic; all or nothing | each blob in its module; `AgentStore` |
| Collector: `collector` | metric samples | one cycle: see below | heals whatever differs, never restores what was revoked, does not act on an empty answer | `PolicySync`, `Agents`, `Fleet`, `Names` |
| headscale client: `hs_client`, `hs_util` | – | calls that fail, or are carried out without an answer or late | – | external |
| Agents: `agent`, `api/agent` | blob `node_agent`; files on the node | tokens, reissue, poll, report, update orders, routes | the wish reaches the node; an order stands until it is carried out | `AgentBlob`, `Agents` |
| Enrolment: `enroll`, `api/enroll` | blob `join_scripts`, pre-auth keys | join link, script, status, rename | a link dies with its key or ten minutes after its first use; the key of a live node is kept | `Fleet` |
| Alerts: `alerts` | `NodeStatus`, counters in memory | debounce, alert on transitions | one alert for a cause, none for a blink, none about a muted node, one in the end | `Watch`, `Fleet` |
| Login: `api/auth`, `security`, `totp`, `ratelimit`, `devices`, `deps`, `bootstrap` | users, devices, counters in memory | login, second factor, trusted devices, password, logout, emergency reset | a code is used once; a password change ends every session; guesses are bounded | `Login`, `Sessions` |
| Certificates: `certs`, `ca` | root, rows of certificates | issue, renew, rotate, forget | what is in force is signed by the root in force; every name gets one | `Names` |
| DNS: `dnsrecords`, part of `api/settings` | blob `dns_records`, a file, the config of headscale | edit, sync | the file follows the list; headscale always starts | `Names` |
| Backup: `backup`, `autobackup`, `restore_panel` | archives | save, restore | all or nothing | not modelled |
| Health, logs, metrics, audit, config, `main`, `heartbeat`, `tsmirror`, migrations, front end, site, `ops/`, `deploy/` | – | queries, presentation, scripts | – | not modelled |

The collector is where the parts meet. A cycle takes the list of nodes and then,
with that list, hands back notes (`Fleet`), watches nodes, agents and keys
(`Watch`), writes the file of names and forgets certificates (`Names`), approves
and withdraws routes, prunes keys (`Fleet`) and reconciles the policy
(`PolicySync`). Each module has the steps that touch its state. The routes touch
two: who has read what when the blob of the agents is written is the matter of
`Agents`; that a node's kind follows from its approved routes, and the policy from
the kinds, is the matter of `PolicySync`, which therefore has these steps too.

What is hard here: two requests interleaved between a save and its push; copies
of blobs and node lists that are old when they are used; two locks (of the
policy and of the settings) that do not exclude each other; calls to headscale
that fail halfway or arrive late; a restart that forgets the locks and the
pending push; and derived facts (the kind of a node) that change as a side
effect of something else.

## Modules

| Module | Models | Extends |
|---|---|---|
| `AclGen` | the generator as an operator `PolicyOf` on values | – |
| `PolicySync` | the stored state, the tasks and the policy in force | `AclGen` |
| `PolicyHistory` | the same with a record of the devices that a cycle has found | `PolicySync` |
| `AgentBlob` | the blob of the agents and what each call makes of it | – |
| `AgentStore` | what the settings lock promises (abstract) | `AgentBlob` |
| `Agents` | requests, directions, the collector and the agents around that blob | `AgentBlob`; implements `AgentStore` |
| `Sessions` | what the login promises (abstract) | – |
| `Login` | requests against one account | implements `Sessions` |
| `Names` | names, the files of headscale, the root, certificates, agents that ask | – |
| `Watch` | what one observation leads to | – |
| `Fleet` | machines that come and go, links and keys, the cycle that watches them | `Watch` |
| `AclCases` | what rules, directions and exits mean, for every case of a universe | `AclGen` |
| `MC…` | values of the constants for the runs; `MCLocked`, `MCHealing`, `MCOneAtATime` add the premises of the theorems about their runs | the module of their name; `MCPolicySync` for these three |
| `AclGenProofs`, `AclCasesProofs`, `PolicySyncProofs`, `PolicyAgreementProofs`, `AgentsProofs`, `LoginProofs`, `NamesProofs`, `FleetProofs` | theorems | see Proofs |

**AclGen.** A policy is a record: accept rules `acls`, exit `grants`, declared
tags `owners`. A network written out is a set of addresses, a single address a
singleton; spelling, order and JSON are left out, what an entry reaches
(`Reach`) is not. Each operator has the name it has in the code: `resolve`,
`covers_mesh`, `generate_policy`, `acl_rules`, `exit_via_grants`,
`effective_kind`. `BadNet` stands for literals that a direction may not lead to
(prefixes wider than /16, loopback, link-local). A node's kind depends on its
note, its roles and on whether it has an approved route; a node carries the routes
approved for it: a route of a direction is the set of its addresses, and `ExitNet`
stands for the two nets of an exit.

**PolicySync.** The variables are the nodes and the policy of headscale
(`hsNodes`, `live`, and `late`: requests given up on but still under way), the
three blobs a policy follows from (`rules`, `dirs`, `meta`), of the agents' blob
the routes asked for and those the panel approved itself (`agents`), the policy lock,
and for each task where it is (`pc`), what its push is for (`why`), its request
and the copies it holds (`job`, `seen`, `pol`). A step is the code from one
await on shared state to the next:

* arriving requests (`PutRules` … `SetExitClients`) make the checks the handler
  makes before its first change. What the handler checks and later uses without
  looking again is kept in `job`;
* `Acquire`, `Save`, `Undo`, `RefreshRead`, `RefreshWrite`, `set_node_meta`,
  `drop_gateway`, `set_node_tags`, `set_agent_exit`, `HsDelete`, `ForgetRead`,
  `ForgetCommit`, `set_gateway_clients`, `Untick` and `ApproveTicked`
  (`set_routes`) and `WriteAgent` (`put_agent`) are the changes; `BuildRules`,
  `BuildNodes`, `BuildMeta`, `BuildRouting` the four reads of `build_policy`,
  `Send` the push, `Settle` what each kind of push does next, `Approve` and
  `ApproveDirections` the approval of the routes of directions;
* `CollectNodes`, `ReadWanted`, `ApproveRequested`, `Compare`, `Prune` are the
  collector: by the nodes it read first and the settings it reads then it approves
  what is asked for and announced and withdraws what the panel approved and wants
  no more; then it queues for the lock, builds with the same nodes and pushes if
  the policy differs;
* around the panel: `LateArrives`, `Tamper`, `Join`, `Restart`.

The deletion of a node commits its blobs in one transaction; its reads are not
in it until the first write, which is why `ForgetCommit` may write a blob from
an older copy. A failing call to headscale is a disjunct with a `Fault`: not
carried out, carried out without an answer, or carried out later. A build may be
answered with no nodes at all, and takes it.

Coarser than the code: a read and a write of the agents' blob are one step (what
a writer loses to another is in `Agents`); the calls of a round of approvals, one
for each node, are one step that may be cut short after any of them; the routes
of an exit are asked for by its flag alone. Left out: text fields of notes, the
audit log, forced exit (`Agents` has its part of the agents' settings), the
timestamps of a refresh, and the calls after the last change of a handler, which
only render its answer.

`PolicyHistory` adds to that which nodes a cycle found to be devices when it
started (`found`), and which one that has ended had found (`settled`).

**AgentBlob, AgentStore, Agents.** `AgentBlob` has the entry of an agent and the
effect of every call on the whole blob, each under the name it has in the code
(`put_agent`, `reissue_agent_token`, `mark_agent_applied`, …); the text of a
script is its release. In `Agents` a process (a request, the collector, or an
agent together with the handler it waits for) asks for a call, reads the blob
(`Look`, which takes the settings lock for `serialized` calls and not for the
others) and writes it (`Store`). Around that: `ApproveByHand`, `SaveDirection` …
`Approved` (approvals for directions), `Collect` … `Collected`
(`_auto_approve_requested` with what it read before), and the script on a node:
`Poll`, `Serve`, `Update`, `Apply`, `SaveState`, `Report` and how they fail.
The deletion of a node also takes it from the entries that leave through it
(`use_exit`, one field `via` whatever set it). `AgentStore` says what the lock is for: a serialized call takes effect once, at
one moment, unless a writer that ignores the lock was there (`mixed`).
`Serialized` is that `Agents` implements it.

**Sessions, Login.** A request loads the user's row and works with that copy:
`Load`, `Verify`, `CheckDevice`, `CheckCode`, `Issue`, `Remember` and `CutDevices`
for a sign-in (a device is added and the list cut in two commits, so that the list
is over its limit in between, and after a kill there until the next sign-in cuts it;
the reading of what to cut and its deletion are one step);
`Confirm` with `Change`, `Setup`, `Enable`, `Disable` for what asks for the
password again; `Logout`, `SetTrustDays`, `Forget`, `Reply`. A session is the
version of the row it was opened with; the password it was opened with is kept
beside it for the properties. A code is a secret and a step of the clock.
`Sessions` has only the password and the passwords of the open sessions.

**Names.** The list of names (`records`), the file and config of headscale, the
root (`key`, `cert`, `auto` as the three settings they are), one row of
certificates per name, the disks of the nodes. An agent's run is `Poll`,
`PollNames`, `InstallRoot`, `Drop`, `SendCsr`, `FetchCert`; the handler of its
request has a slot of its own, so that it goes on when the agent has given up:
`Ask`, `Begin`, `ReadCert` … `MakeCert` (`ensure_root`), `Sign`, `Store`. An
administrator edits the list (`ReadNodes`, `WriteNames`, `SetRecords`,
`UnusedRows`, `ForgetRows`: `certs.forget` reads the rows and deletes them later,
for the collector as `CollectUnused`, `CollectForget`), the DNS settings, the root (`RotateKey` … `DropRows`) or deletes a
node. A certificate is the root that signed it, the node whose key it is of, and
a number.

**Watch, Fleet.** `Watch` is pure: what `reconcile_nodes`, `reconcile_agents`,
`_check_key_expiry` and `reconcile_selfcheck` make of one observation. `Fleet`
has the nodes and keys of headscale, notes, what is put aside, rules and agents
by id, join links, and who has been told of what. Requests enroll, look for the
node that came, reconnect, rename, delete, mute; a machine downloads and runs its
script; the collector's cycle is one action per step, with what it read kept in
`cycle`. Machines are told apart from ids (`owner`), because that is what a
reconnection changes.

## Runs

Each module takes its behaviours from a set of *worlds*: a world is a start, the
requests that may come and how many, and the failures there may be. A run goes
through all of its worlds, so that each kind of trouble is explored to the end
without being multiplied by the others.

| Run | Checks | Shows |
|---|---|---|
| `acl` | `Isolation`, `TagsDeclared`, `OpensWhatIsMeant`, `GrantsAreUsable` | the generator, on every fleet, note, rule and direction of the universe, against a definition of what a rule means that does not use the generator's filters |
| `locked` | `QuietAgreement`, `QuietIsolation` | three requests on two tasks, of those that hold the lock from save to push or apply after their change: nothing under way ⇒ the policy in force is the wanted one, and it isolates devices. `MCLocked` evaluates `Disciplined`, the premise of the theorems |
| `refusals` | `QuietAgreement` | the same when headscale refuses some rules and directions: the undo, and the push after it, race with another save |
| `heal_race` | `NothingRevokedReturns`, `TurnedPersonalIsCutOff` | requests (ticked routes and agents' settings among them) and whole cycles of the collector with an old list of nodes: what is in force follows from today's rules, directions and notes over *some* list of nodes; a server that loses its routes and so becomes a device is cut off by the end of the first cycle that finds it so, and stays so. `MCHealing` evaluates `Orderly` and `Steady`, the premises of the theorems |
| `converge` | `TypeOK`, `Convergence` | every operation, one request task beside the collector, two requests without failures or one with two failures: `<>[](live = Wanted)` |
| `one_at_a_time` | `NoDeviceVia`, `GatewayWearsItsTag`, `NoDeadReferences` | four requests and any number of cycles one after another, over every order: the checks that handlers make against each other's blobs suffice. `MCOneAtATime` evaluates `OneAtATime`, the premise of the theorems |
| `agents` | `OnlyAsked`, `OrderStands`, `Serialized`, `EventuallySettled`, `Withdrawn` | what is approved for a node was asked for it, however old the copies are; an order stands until the node runs what was ordered; calls under the lock are atomic; in the end the node announces what the panel wants, it is approved, and what is no longer wanted is withdrawn |
| `login` | `TypeOK`, `SessionsOfThisPassword`, `AttemptsBounded`, `CodeOnce`, `DevicesHaveEnteredACode`, `SessionsKept` | a session that passes was opened with the password of today, whatever sign-ins overlap; guesses are bounded although a request looks at the counter before it counts; a code is good once, for whatever it is entered; a device that needs no code has entered one with today's secret and password |
| `names` | `TypeOK`, `SignedByRootInForce`, `PathAfterFile`, `ZonesCoverNames`, `OneCertificate`, `NamesServed`, `FileFollows` | certificates against rotations, repeated and lost requests, renewals and restarts; edits of the list that fail between their three writes |
| `fleet` | `TypeOK`, `AlertsConfirmed`, `OneAlertPerCause`, `MutedIsSilent`, `NothingLost`, `LinkGrace`, `LiveKeysKept`, `ToldInTheEnd` | a node that blinks wakes nobody and one that stays away is told of once; a muted machine stays silent across a change of its id; a reconnection that fails anywhere loses nothing; links and keys |

Bounds, and why they are enough. The runs of the policy have three nodes (two
servers and a laptop), one role, five addresses, one or two request tasks and the
collector; `Budgets` bounds the requests and the failures of a behaviour. Two
tasks are enough to have any two handlers interleave with the collector; three
requests are enough for a third to arrive into what two have left. A selector or
a direction is treated by the generator independently of the others, so one of
each kind is enough for `acl`. `agents` has two nodes (one without an agent, as
the exit of another), two subnets and two releases: any one request beside the
cycles of collector and agent, two at once (an order and an untick, a saved form
and a deletion), two in a row, one with a failure of any kind, and three that
overlap nothing. `login` has two
tasks, two passwords, a lockout after two failures and a device list of one, so
that the limit is met at once; time matters only as before, in and after the
lockout. `names` has two nodes, two names in two zones (one of them the root may
not sign), two requests of agents and two of administrators at a time. `fleet`
has two machines, two names, three ids (a machine may come back twice), two
keys, two misses before a node is down, and six ticks, which is past the grace,
the life and the retention of a key.

`CHECK_DEADLOCK FALSE` stands where the budget runs out and nothing else is left
to do (in `agents` an agent whose token is unknown has nothing to do); the other
runs check deadlock.

**Fairness.** `converge`: weak fairness of the steps of a task, since the event
loop runs whatever can run; strong fairness of `Acquire`, since `asyncio.Lock`
serves its waiters in turn; weak fairness of the collector's steps, since its
loop never ends and swallows its errors. `agents`: strong fairness of the steps
of each request, of the collector and of each agent, because all of them queue
for the same lock and a timer restarts the agent every minute; and of `Update`,
because a failed update is tried again after an hour, and this is the one place
where it is assumed that a retry succeeds at last. `names`: weak fairness of the
agents' runs, of the handlers, of the collector, and of the end of a pause after
a failure (`Unpause`, an hour). `fleet`: weak fairness of the collector's cycle
and of a request that was begun. Never of requests, failures, restarts, loss or
the clock: they may happen or not, and each at most as often as its world says,
so that "once failures stop" is part of the model.

**Refinement.** `Serialized` (`Agents` ⇒ `AgentStore`: the pending calls are the
jobs of the processes that asked) and `SessionsKept` (`Login` ⇒ `Sessions`: the
sessions are the tokens whose version is the user's) are checked as properties.
The first has no exception but the writers without the lock, which are part of
what `AgentStore` says. The second holds while requests that end sessions do not
overlap. Both are proved as well.

### Where the code and its comments disagree

Two runs end in a counterexample on purpose.

| Run | What happens |
|---|---|
| `v_marker_first` | giving a role to a node that wears the "no role" marker declares the role, then declares the marker in a policy without the role, and hangs both (`api/nodes.py:578-587`): headscale refuses |
| `v_moved_name` | when a name is moved to another node while its certificate is good, the new node's request is answered with the certificate of the old node's key (`certs.py:155-163`), against `certs.py:5-6` |

Not runs of their own, but reachable in the same models, and the reason for what
the worlds leave out:

*Policy.* `POST /routing/refresh` pushes without the policy lock
(`api/routing.py:238`), so an older policy may stay in force until the next
cycle; taking the last role off a node makes it a device and nothing applies the
policy afterwards (`api/nodes.py:587`); a deletion that read the directions while
a refused one was saved writes it back, and every later policy is refused
(`api/routing.py:195`); a push built from an empty list of nodes knows no devices
(`policy_apply.py:79`), while the collector treats the same answer as a failure.
A server whose approved routes are withdrawn, by the collector
(`collector.py:184-187`) or by hand (`api/nodes.py:632`), is a device from then on,
and the policy in force lets others reach it until the next cycle reconciles: that
no device is open at *any* moment is false of the code, and the properties are
`TurnedPersonalIsCutOff` and, where no routes change, `QuietIsolation`.
Nor is every gateway a server: `set_tags`, `set_routes` and the collector may take
the role or the routes that alone make it one. Nor is every permitted exit a
gateway: `set_exit_clients` does not ask (`api/nodes.py:345-363`), while `set_meta`
does (`api/nodes.py:270-290`).
With two requests at once a direction may be saved through a node that has just
become a device or been deleted (`api/routing.py:129-193` checks before the
lock), and a request beside a cycle may have the route of its direction approved
and then stripped by the collector's older list until the cycle after, so
`NoDeviceVia`, `GatewayWearsItsTag` and `NoDeadReferences` are checked one task at
a time (`SoloSpec`), the collector's cycle included; unmarking a gateway without roles hangs the marker undeclared
(`api/nodes.py:322`); a refresh may write back a direction deleted between its
second read and its write (`routing.py:293-304`).

*Agents.* `put_agent` reads and writes without the settings lock: overlapping a
reissue it brings the replaced token back (`api/agent.py:200-229`), and it may
revert what a report or an order wrote. The collector, with the settings it read
before, approves a route again that was just unticked and does not record it as
the panel's, since in its copy it already was (`api/nodes.py:607-615`);
`routing_loop` approves and drops the list to be recorded (`routing.py:335`); a
restart or a refusal between approval and record leaves the same orphan; nodes
without an entry are never withdrawn from. Therefore `Withdrawn` is about worlds
where requests and cycles do not overlap (`alone`), and so is `OrderStands`.

*Login.* Two overlapping changes read the same version of the row and write the
same next one, so that a session of a password replaced meanwhile may stay valid
(hence `one_change`). Two overlapping sign-ins with one code both pass; a sign-in
under way remembers its device after "forget all"; `enable` verifies against the
secret it loaded while `setup` replaces it (hence `alone` in `CodeOnce` and
`DevicesHaveEnteredACode`). The emergency reset switches the second factor off
without forgetting devices (`bootstrap.py:37-42`, against `api/auth.py:329-330`),
and is in a world without devices. Failures that are slow enough lock an account
without an alert (`ratelimit.py:76-78`).

*Names.* Two first issues interleave in `ensure_root` (`ca.py:177-199`) and may
leave a key and a certificate of different roots; so does a restart in the middle
of a rotation: worlds with the first root have one request at a time, worlds with
a rotation no restart. `update_dns` overlapping `update_dns_records` drops a new
zone (hence `one_edit`); `update_dns_records` overlapping a deletion keeps the
record of the deleted node. The collector's forgetting with older names may drop
a fresh row, which is issued again at the next poll.

*Fleet.* A second reconnection before the note was handed back overwrites what
was put aside and loses note and rules (`api/nodes.py:484-492`,
`settings_store.py:206`); a cycle that overlaps the deletion of the old record
hands the note to the *old* id, and the handler then clears it. Worlds admit
these under the names "again" and "across"; `fleet` has none that do. A rename
before the note is claimed leaves it waiting for ever, and since notes are
claimed by name another machine may get them. A flag set or cleared by hand while
the note is put aside is written at the new id; what was cleared comes back with
the note (`settings_store.py:236`), so `wish`, what a machine is to have, keeps the
flags put aside (`aside`), and `NothingLost` does not claim that such a clearing
lasts. A request that sets a flag between the reading of the note and the clearing
of it (`api/nodes.py:487-496`) is lost in the code; the model has one request at a
time, where that cannot happen. A restart between the commit of a status and its
message loses the alert (the price of `OneAlertPerCause` for nodes; for agents,
headscale and keys a restart repeats it instead), a node found offline at its
first observation is never told of, and one that goes down muted and comes back
unmuted is told of as "up" only. A muted node deleted between the list of a cycle
and its reading of the notes is told of if the list found it offline: its note is
gone and the list still has it (hence no deletion in `MutedIsSilentHolds`).

## Proofs

All constants are arbitrary: any sets of nodes, addresses, tasks, rules,
directions, any budget, any worlds. The assumptions are those the modules
declare: `AddrAssumption` (mesh and public addresses are disjoint),
`CasesAssumption` (the types of the cases), `SyncAssumption` (the types of the
inputs; one collector; nodes of headscale have addresses of their own),
`BlobAssumption` and `AgentsAssumption` (the types of the worlds; requests,
collector and nodes are different things; nodes are finitely many), `LoginAssumption`,
`NamesAssumption` (the types of the worlds), `WatchAssumption` (it takes at least
one observation) and `FleetAssumption` (ids and keys are numbers; a key is kept
longer than it lasts; in the worlds names and machines are each one node's).

Where the code has a race, a theorem says what it supposes instead. A premise on
the constants is a definition beside the properties, evaluated by TLC on the run
that checks the property:

| Premise | Says | Why | Evaluated by |
|---|---|---|---|
| `Disciplined` | operations that hold the lock from change to push, or apply the policy after the change (`set_exit_clients` too); no exit marks; exits that have a route approved from the start; nobody joins; nothing refused, nothing failing | the races of the section before | `MCLocked` |
| `Orderly` | the same, with the collector, `set_routes`, `put_agent`, nodes that join and any exits | the same | `MCHealing` |
| `Steady` | `Orderly`, nobody joins, no note of a kind is edited | a cycle reads the notes after its list of nodes | `MCHealing` |
| `OneAtATime` | any operation; nothing failing or refused; nobody joins; what is stored at the start fits. The theorems are about `SoloSpec`: a task, also a cycle of the collector, begins when no other is under way | the checks are made before the lock, and of old lists | `MCOneAtATime` |
| `Careful` | ids never given have no note; nothing overlaps what a reconnection leaves open; where nodes reconnect, other requests only set notes | the races of *Fleet*, and notes are claimed by name: a machine that joins under the name gets them | `MCFleet` |
| `Undisturbed` | where requests do not overlap: no restart, no emergency reset | a restart between a change and the forgetting of the devices leaves them | `MCLogin` |

Three theorems are about behaviours that start in a state of a kind:
`ZonesCoverNamesHolds` (the property holds at the start), `OrderStandsHolds`
(`Owned`: tokens are of one node each) and `SignedByRootInForceHolds` (`Rooted`).

* `AclGenProofs`: `PolicyIsolatesDevices` (no accept rule of `PolicyOf` reaches
  the address of a device), `PolicyDeclaresItsTags`, `PolicyTyped`. The argument
  follows the filter entry by entry: a tag worn by no device, a network that
  holds no device's address, and the addresses of servers in place of `*`, which
  by `DistinctAddrs` are nobody else's.
* `AclCasesProofs`: the four properties of the run `acl` for every universe.
  `OpensWhatIsMeantHolds` compares, for each kind of rule, what the policy opens
  (`Opens`) with what the rule means (`Means` has no filter of the generator in
  it): what a selector covers, what is left of a destination when the entries
  that may touch a device are taken out, and that nothing else is taken out.
  `GrantsAreUsableHolds` needs that the vias left after the same filter are the
  servers among the gateways, and that a visible rule goes with each.
* `PolicySyncProofs`: `TypeCorrect == Spec => []TypeOK`, for the whole
  specification with failures and restarts. `TypeOK` is inductive because it
  says more than types: `Phase` ties where a task is to the request it serves,
  and only then the copy it keeps has a type at all (a copy of the rules, of the
  directions or of a node's tags).
* `PolicyAgreementProofs`: `LockedAgreement` and `LockedIsolation`, that is
  `Spec => []QuietAgreement` and `Spec => []QuietIsolation`, under `Disciplined`:
  only operations that hold the lock from change to push or apply the policy
  after the change, no exit marks, exits whose kind their own routes do not
  change, nothing refused, nothing failing. The inductive invariant is `TypeOK`
  with three parts: `World` (what `Disciplined` says stays so), `Plain` (no task
  is in a place it cannot get to) and `Agreement`. The last is the idea of the
  proof. A change made without the lock (a note, a deletion) leaves its task
  `Pending`: it is on its way to queue for the lock and push. As long as such a
  task exists nothing need agree. If there is none, what the task that builds a
  policy has read is still what is stored (`FreshAt`), since that task holds the
  lock (`HoldsLock`) and nobody else can have changed anything; and if nobody
  builds, the policy in force is the wanted one (`Agreed`). When nothing is under
  way nobody is pending and nobody builds, which leaves agreement.
  `QuietAgreement` alone is not inductive: it says nothing of a task between its
  save and its push. Isolation follows from agreement and
  `PolicyIsolatesDevices`.

  `NothingRevokedHolds`, that is `Spec => []NothingRevokedReturns`, under
  `Orderly`, by the same invariant with one thing weakened: where the collector
  is at work, the policy in force is made of today's rules, directions and notes
  over *some* list of nodes (`Lists`, `Derived`), since the collector's list is
  older than the lock it waits for.

  `TurnedPersonalHolds`, that is `HSpec => []TurnedPersonalIsCutOff`, under
  `Steady`. Kinds come and go with the routes, so the invariant (`Cautious`) is
  about the nodes that a cycle has found to be devices and that have been devices
  ever since, which is what `found` and `settled` record. Nodes leave and their
  routes change, but who stays keeps address, tags and noted kind (`Follows`).
  Whoever has a list of nodes in hand finds in it that all it has to spare are
  devices (`Mirrors`): the collector those in `found` and `settled`, any other task
  those in `settled`. What is built of such a list opens none of them (`Spares`),
  and while a task builds it holds the lock, so that no cycle ends meanwhile and
  nothing is added to what it has to spare. Without `found` the invariant would not
  say why the cycle that ends may be relied on.

  `NoDeviceViaHolds`, `GatewayWearsItsTagHolds` and `NoDeadReferencesHolds`, under
  `OneAtATime` and of `SoloSpec`, from one invariant, `Tidy`. `Fitting` says that
  what is stored fits, save for what the one task under way is about to put right:
  a node it has just deleted (`Gone`), a gateway it has marked but not tagged yet
  (`Marking`), a route it has not approved yet (`Moving`). `InHand` says that what
  the task has checked or read is still so when it writes: the tags a handler
  hangs, the routes it withdraws. With a second task `InHand` breaks.

* `AgentsProofs`: `AgentsTyped`. `AgentsImplementStore`, that is
  `Spec => Serialized`, for any number of requests, nodes, failures and restarts.
  The invariant `Locking`: whoever has read the blob for a serialized call holds
  the lock, nobody else does, at most its call is spoilt by a writer that ignores
  the lock (`mixed`), and unless it is, its copy is what is stored. So the
  write is the call made on the present blob, which is the abstract step; every
  other step is a stutter, a request or its end.
  `OrderStandsHolds`, that is `Spec /\ Owned => OrderStands`. Where nothing
  overlaps (`alone`), one process is under way, its copy is what is stored, and a
  token belongs to one node and its agent only (`Owned`), so that a report is
  about the node it came from.
  `OnlyAskedHolds`, that is `Spec /\ OnlyAsked => []OnlyAsked`, for behaviours that
  overlap in any way. Approvals come from copies of three ages; what is asked for
  only grows, so the invariant `AskedInv` says of *everything* that is stored,
  held in a call or seen in a copy that it names only what was asked for by now.
  Of `OnlyAsked` itself only the start is supposed.

* `LoginProofs`: `TypeCorrect`. `SessionsOfThisPasswordHolds`, that is
  `Spec => []SessionsOfThisPassword`, for any number of tasks, passwords,
  devices and requests, with restarts and the emergency reset, under
  `LoginAssumption`. The property speaks of tokens and the user; the inductive
  invariant `Inv` adds what requests hold: no token and no copy of the row is
  newer than the row, and what has its version has its password (`AsOf`); of the
  requests that end sessions at most one is under way (`Changer`), and when it is
  about to write, its copy is today's (`About`). Without the last two, a change
  made from an old copy would write a version that was there before, and old
  tokens would pass again, which is what happens when two of them overlap.
  `LoginImplementsSessions`, that is `Spec => SessionsKept`: under the mapping a
  step of `Login` is a sign-in, an end of all sessions or a stutter of
  `Sessions`. Tokens are never taken away, so the open sessions shrink only with
  a new version, and by `Inv` no token has that yet; while the version stays, what
  a new token opens is a session of the password the user has.
  `CodeOnceHolds`, that is `world.alone => ~again`, where requests do not overlap:
  every code accepted is of a secret made before and not newer
  than the last one the row counts (`CodesCounted`); a code that passes the check
  is newer. With two requests the copy of the row may be older than the row.
  `AttemptsBoundedHolds`, for any number of overlapping sign-ins: failures are in
  order of time (`InOrder`, whence dropping the old ones is cutting a prefix),
  and the recent ones are fewer than the limit and the requests past the gate
  together (`Attempts`), since a failure is recorded by a request that was let
  past while there were fewer.
  `DevicesHaveEnteredACodeHolds`, under `Undisturbed`: every trusted device is of
  today's secret and password, with the second factor on, unless a request is
  just about to forget them all (`Ending`); the copy of a request is as today's
  row (`Fresh`), also where it remembers a device. That dropping the expired
  devices leaves only devices that were there is shown by counting: of `k` places
  each has a rank of its own, so by the pigeonhole principle every rank is met.

* `NamesProofs`: `TypeCorrect` and `OneCertificateHolds`. The heart of `TypeInv`
  is the lock of a name: of the requests past it at most one is of a given name
  (`LockHeld`), and a row that a request has begun nobody else ends
  (`UnderWay`: it says "issuing", or it was forgotten). So whoever stores a
  certificate replaces none that is good. `Made` (no number is used that was not
  given out) completes the types. `PathAfterFileHolds`: headscale is told of the
  file only after it was written, whatever fails.
  `ZonesCoverNamesHolds`, where edits do not overlap: a list that is about to be
  set has its zones in the config already (`Routed`).
  `SignedByRootInForceHolds`, under `Rooted`: administrators do not overlap, a
  panel without a root makes it for one agent that waits, and a rotation is not
  cut short, which are the two ways to a torn root told of above. The invariant
  `RootInv`: key and certificate of the root fit, or are being replaced, or are
  being made by the one who may (`Pair`, `Making`, `Alone`); a certificate in
  force is of the root in force, or about to be forgotten by the rotation
  (`Doomed`), and so is one that was signed and not stored yet (`Signed`).

* `FleetProofs`: `TypeOKHolds`, with names and machines that stay one node's.
  `AlertsConfirmedHolds`, that is `Spec => []AlertsConfirmed`, for
  any number of machines and of observations. What is told follows from `streak`,
  a count in memory; the property is about `apart`, the observations there really
  were. The invariant `AlertInv` bounds the one by the other (a restart only makes
  the count smaller), and says the same of whoever the cycle is *about* to tell,
  since the status is written one step before the message.
  `LiveKeysKeptHolds`, that is `Spec => []LiveKeysKept`, for any times. Its
  invariant `KeyInv` has `Held` (the key of a node that is there was made and is
  not gone), `Made` (a link leads to a key that was made, also one a request is
  about to write) and `Listing`, the heart of it: while a cycle runs, the key of a
  node is in the list it took, or lasted beyond the moment it began. As a cycle is
  shorter than retention less life (the guard of `Tick`), a key of the second kind
  is too young to be pruned.
  `LinkGraceHolds`: the first download that is noted is the first there was.
  `OneAlertPerCauseHolds`, with any number of restarts: who was told of a node
  that is down is on record in its status (`DownOnce`), of a silent agent in
  memory (`AgentOnce`), of a key in the status or in the flags a cycle is about
  to write (`KeyOnce`), of headscale in memory (`OutageOnce`); a restart forgets
  what is in memory and is counted; and the record of a node is dropped only when
  the node is gone, whose id never comes back (`Known`, `Gone`).
  `NothingLostHolds`, under `Careful`. The note of a machine is where the machine
  is (`Carried`), or waits under its name, whole, with an id its rules still name
  unless they name the new one already (`Stashed`); a machine that is neither here
  nor waited for is to have nothing (`Absent`). Each is broken by a step that
  finds the world other than it read it, so the invariant says what still stands:
  between two steps of a reconnection the node is the one that was found, its note
  the one that was read, and no cycle has a list that is older than the deletion
  (`OnWay`); between two steps of a cycle the nodes on the list are there under
  their names, what is owed to them is theirs, and the rules, then the notes, have
  arrived before what was put aside is thrown away (`OnRound`). That a name leads
  to one machine only is `Named`, the reason for the third part of `Careful`.
  `MutedIsSilentHolds` adds `Muffled`: who was muted when the cycle began is still
  to be so, and by the time the notes are read they have been handed back, so the
  cycle knows it of every node it listed.

Model-checked only: `Convergence`, `EventuallySettled`, `Withdrawn`,
`NamesServed`, `FileFollows`, `ToldInTheEnd` (liveness under fairness is beyond
the prover); `QuietAgreement` with refusals, which the run `refusals` checks and
the theorem excludes; `NothingLost` and `MutedIsSilent` outside the premises of
their theorems (nodes deleted while others go offline, `Leaving`).

## What is left

* Theorems: agreement where headscale refuses; the abstract policy store (one
  atomic save and push) implemented by `PolicySync` under `Disciplined`.
* The roles asked for by two writers of a node's tags (`api/nodes.py:315`).
* A crash between a refused push and its undo (`api/policy.py:166`).

Not modelled, and why: backup and restore (the contents of archives, and the
restart of two programs outside this process); single-value settings, queries,
metrics, audit and logs (no protocol); `heartbeat` (a file that another program
reads) and `tsmirror` (downloads); rendering and parsing (`schemas`, the texts of
`enroll`, `geoip`, `hostinfo`), of which only what they decide is in the types of
requests; the contents of certificates; migrations, the front end, and the shell
of `ops/`.
