# TLA+ models of maskman

maskman is a MASQUE proxy in Rust: an HTTP/3 server that carries UDP flows
(CONNECT-UDP) and whole IP packets (CONNECT-IP) for authenticated principals.
This directory holds its TLA+ modules, the TLC configurations that check them on
small instances and TLAPS proofs for instances of every size.  Paths below are
relative to the repository root; `server/` stands for
`crates/maskman-server/src/`, `platform/` for `crates/maskman-platform/src/`.

`PROJECT.json` lists components, runs, mutants, hazards and theorems, and maps
every definition to the lines it models.

## Running

    tlc -workers 2 -config MCSessions.cfg MCIpSessions.tla
    tlapm IpSessionsProofs.tla

## Inventory

| Component | State it keeps | Operations | Hard behaviour | Correct means |
|---|---|---|---|---|
| Address pools, `server/proxy/address_pool.rs` | one cursor and set of leased addresses per family, each behind a mutex | `lease`, drop of a lease | unbounded scan with the mutex held; bounds at /31, /32, /128 | one owner per address, host addresses only, refusal only when full, the scan returns |
| IP session registry, `server/proxy/ip_registry.rs` | sessions by stream, session by address, sorted route table, one mutex | `insert`, `remove`, `replace_routes`, `try_send`, `dispatch_tun` | handles outlive the lock; an advertisement is validated between two critical sections | agrees with leases; routes exclusive and bounded; no packet to a stranger |
| CONNECT-IP request, `server/request_ip.rs`, `server/proxy/ip.rs`, `server/proxy/ip_scope.rs` | leases, queue, routes, peer assignments, request ids, two token buckets | `handle`, `drive_stream`, `handle_capsule`, `try_send*` | abort at any await; teardown is drop order; two directions with different checks | everything taken is given back, in an order others cannot misuse; what may be asked may be answered |
| Quota, `server/session.rs` | tunnels per principal, window per principal, two mutexes | `acquire`, drop of the permit | charge, consult, roll back over three critical sections; a fixed window | charge = tunnels alive, a bounded rate |
| CONNECT-UDP request, `server/request.rs`, `server/proxy/udp.rs` | socket, forwarder task, registry per connection | `handle`, `try_send` | forwarder aborted with the request; a stream nobody reads | sockets, permits and registrations go with their request |
| Policy, auth, resolver, `server/policy.rs`, `server/auth.rs`, `server/proxy/resolver.rs` | compiled policy, DNS permits | decisions | three authorizations that must agree; time limit of a lookup | the address that was checked is the one connected to |
| Transport, `server/transport.rs`, `server/transport_context.rs` | task set per connection, task set of connections, configuration snapshot | accept, drain, abort, `reload` | nested drains with one timeout, abort only at awaits | every request ends, no task without an owner |
| TUN bridge, `server/tun_bridge.rs` | the device, two directions | `run` | uses a handle after the registry's lock is released; its own failure is unobserved | packets reach only their session |
| Resource journal, `platform/journal.rs`, `server/resources.rs`, `platform/{forwarding,nat,tun,linux}.rs` | a file of pending and active entries, the host's resources | `prepare`, `promote_last`, `cleanup` | crash between any two steps, persist failing before or after the rename | whatever is on the host is in the journal until undone |
| Startup and teardown, `server/lib.rs`, `server/supervisor.rs` | background tasks, worker process | start, stop, restart | failure of one step of several, signals at any time, a kill after five seconds | whatever ends it, the host is cleaned after use or the exit says so |
| Control socket, `server/control.rs`, `server/stats.rs`, `server/metrics.rs` | socket path, clients, configuration in force | `start`, `reload`, `status`, `stop` | file compiled before the lock; path probed, replaced and removed twice | a daemon that is up is reached; configurations go forward |
| Token commands, `crates/maskman/src/command/auth.rs` | the configuration file | `create`, `revoke` | read, change, rename and grant without a lock | a change that is reported is in force; the worker can read its file |
| Update, `crates/maskman-update/src/install.rs` | lock file, staged, current and backup binary | install, rollback | crash between two renames, overlapping updates, failure on the way back | the old binary survives, the result tells what is on the disk |
| Protocol, `crates/maskman-protocol/src` | incremental capsule decoder | decode, encode, range relations | input split anywhere | same capsules for every split |
| Configuration, `crates/maskman-config/src` | none | `validate`, `compile` | two passes over one document that must agree | what compiles is closed: every name it uses is there |
| Services, identities, privileges, build tooling | none that outlives a call | | sequential | mostly out of scope |

**Interaction.** A connection's loop (`drive_connection`) spawns one task per
request.  A CONNECT-IP task asks `QuotaState` for a permit, `AddressPoolSet` for
leases, builds an `IpSession` whose cloned handle it inserts in
`IpSessionRegistry`, and answers 2xx.  The TUN bridge, one task for the whole
server, looks a packet's session up in the registry and puts the packet in the
session's queue; the request's task reads that queue.  The end of the task, or
the abort that follows a drain timeout, undoes all of it by drops.

The processes of one host share files: the daemon's configuration, which token
commands and editors write while a reload reads it; the control socket's path;
the journal; the binary.  A supervisor owns the journal and a worker process,
which runs the server and gets its signals from the supervisor.

The hazards this gives rise to are listed in `PROJECT.json` under `hazards`,
each at the line where it bites.

## Modules

| Module | Models |
|---|---|
| `AddressPool` | bounds, cursor, lease and release of one pool, as operators shared by the next three |
| `AtomicPool` | abstract: a lease takes the next free address in one step |
| `AddressPoolScan`, `AddressPoolProofs` | `AddressPool::lease` with its loop unrolled, and the drop of a lease; implements `AtomicPool` |
| `AddressOwnership` | abstract: an address has one owner, a packet reaches its owner only, and an address changes hands only when its owner has nothing left to read |
| `IpSessions`, `IpSessionsProofs` | CONNECT-IP requests from admission to teardown, quota, pools, registry, connection drain and TUN bridge; implements `AddressOwnership` |
| `ServerLifecycle`, `ServerLifecycleProofs` | one daemon: `serve_inner`, `run_servers`, the tree of listener, connection and request tasks, supervisor and worker, signals |
| `UdpProxy`, `UdpProxyProofs` | CONNECT-UDP requests: admission, authentication, policy, resolver, quota with a clock, the forwarder and its stream |
| `ControlPlane`, `ControlPlaneProofs` | daemons around one control socket and one configuration file, reloads, token commands, an editor |
| `ResourceJournal`, `ResourceJournalProofs` | the changes a start makes on a Linux host, the journal that records them, and the three cleanups; failures, crashes and reboots at any step |
| `UpdateInstall`, `UpdateInstallProofs` | `maskman update` from the end of its download: lock file, renames, service, health check, way back; failures and crashes at any step |
| `Capsules` | the capsule decoder, fed a stream in chunks |
| `Ranges` | networks and ranges, the order and overlap of advertised ranges, the scope's intersection, the policy's three authorizations |
| `Packets` | an IP session's checks in both directions, ICMP errors, `ADDRESS_REQUEST` answers, the token bucket |
| `Config` | the configuration document with its defaults, `validate()` and `compile()` |
| `Inputs`, `InputsProofs` | the last four composed: one input per behaviour, and the properties of the pure parts |
| `MC*` | the instances TLC checks |

### How `IpSessions` corresponds to the code

Request tasks and the TUN bridge run in parallel.  An action is one critical
section of one mutex, or one step outside any mutex that another task can
observe; `pc[r]` says between which two steps the task of request `r` is.

| Phase | Code | Leaves by |
|---|---|---|
| `idle` | not yet accepted | `Accept` |
| `resolving` | authentication, policy, DNS (`request_ip.rs:34-90`) | `Reject`, `AcquireActive` (first lock of `acquire`), `Cancel` |
| `window`, `rollback` | second and third lock of `acquire` | `AcquireWindow`, `Rollback` |
| `lease4`, `lease6` | the two arms of `AddressPoolSet::lease` | `LeaseIpv4`, `LeaseIpv6` |
| `start` | the rest of `start_with_stats` | `Start` |
| `provisioned` | before and in `send_response` | `Respond`, `FailBeforeInsert`, `Cancel` |
| `accepted` | 2xx sent, before `insert` | `Insert` |
| `active` | `drive_stream` | `BeginReplace`, `SendToClient`, `FinishStream`, `Cancel` |
| `replacing` | between the two locks of `replace_routes` | `CommitReplace` |
| `unregister`, `close`, `release4`, `release6`, `unquota` | the drops, in the order Rust runs them: registration, receiver, leases, permit | one action each |

An abort takes effect only where the task is parked, so `Cancel` is enabled in
the three phases that hold an await, and leads to the first drop due there.
The bridge's variable `tun` holds the handle it cloned in `dispatch_tun`; every
action of every task may happen before `TunValidate` and `TunEnqueue` use it.

Abstractions: an address is a number of its family; a packet is its
destination, protocol and, for an ICMP error, the packet it quotes; rate
limits, hop limits and size checks are the choice of `TunDrop`, which may drop
any packet at any stage; a scope is the set of families of its target; policy
and advertised scope are the set `PermittedRanges`; a window is a count and
whether its sixty seconds have passed.  A poisoned mutex is entered like any
other, as the code does.  The order of `sort_routes` is kept.

### How `ResourceJournal` corresponds to the code

One process at a time works on the journal: a server (`by = "server"`), or the
operator's `maskman cleanup`.  `memory` is its `NetworkJournal`, `file` what
`resource-journal.json` holds, `host` the changes in effect.

| Phase | Code | Leaves by |
|---|---|---|
| `stopped` | no process | `Start` (refused unless the file is empty), `OperatorCleanup` |
| `prepare` | before the intent of `Plan[at]` is persisted | `Prepare`, `SkipForwarding`, `Run` |
| `apply` | intent persisted, before the command or system call | `Apply` |
| `promote` | host changed, before the entry is made active | `Promote` |
| `checkpoint` | before `prepare()` persists the journal once more | `Checkpoint` |
| `running` | from the worker's spawn to its exit | `Shutdown` |
| `rollback`, `failed` | `rollback_sysctls`, `cleanup_failed_start` | `Rollback`, `KeepEvidence`, `CleanFailedStart` |
| `load`, `undo` | `cleanup()`, one entry at a time from the last | `Load`, `UndoEntry`, `RefuseForeign`, `RemoveFile` |

Each step has its failure: a persist may fail before or after its rename, `nft`
and netlink may have done their work when they fail, a restore in `Rollback` may
fail unnoticed.  `Crash` ends the process between any two steps, the worker (and
with it the TUN device) may live on until `WorkerExits`, and `Reboot` leaves
nothing but the file, with the links perhaps numbered anew.  A resource counts
as undone when it is gone already: that is what the code expects of netlink,
whose answer for a missing link is outside the repository.  The sysctl's value
before the start is "0" for every resource of the plan; one that is "1" is not
in the plan.

### How `UpdateInstall` corresponds to the code

Any number of processes run `maskman update`; `pc[u]` says which step of
`update()`, `install_verified`, `install_staged`, `rollback` or `restore_binary`
updater `u` is about to take.

| Phase | Code | Leaves by |
|---|---|---|
| `idle`, `locate` | the command, choice and download of the release (`lifecycle.rs:280-325`) | `Begin`, `Locate` (`current_exe()`) |
| `lock` | before `UpdateLock::acquire` | `Acquire`, `Busy` |
| `check` | unpacking, staged `--version` and `config validate` | `Check` |
| `stop`, `inspect`, `aside`, `install`, `sync` | `install.rs:108-165`, one system call each that another step can tell apart | one action each, with its failure |
| `start`, `health` | `install.rs:166-188` | `StartService`, `Healthy`, `Unhealthy` |
| `rollback`, `restart` | `rollback()` before and after the restore | `Rollback`, `Restart` |
| `remove`, `rename`, `resync` | `restore_binary`, called by `rollback()` or, when `rolling[u]` is false, after a failed rename or sync | one action each |
| `restarted` | `restart_after_failure`, whose result is ignored | `RestartAfterFailure` |
| `unstage`, `unlock` | removal of the stage, drop of the lock | `Unstage`, `Unlock` |

A file is named after the updater that staged it.  What `current_exe()` answers
is outside the repository: on Linux it follows a running binary that another
process renames, and marks one that was removed as deleted.  Likewise what the
service manager does: a start runs what is at the binary's path unless the
service runs already, and a call that fails may have done its work.

`manager` is one of two kinds, since `service.rs` commands three service managers.
For "waits" (systemd, OpenRC) a stop returns when the process has ended.  For
"launchd" it is `launchctl kill SIGTERM` (`service.rs:408-410`), which returns at once:
`winding` says that the process (`daemon`) was signalled and lives on, for as long as
it takes (`WindsDown`; the supervisor may give its worker five seconds), and a start,
`kickstart` without `-k` (`service.rs:405-407`), does nothing to it (`missed`, history).
When the supervisor does not end well, `KeepAlive` with `SuccessfulExit` false
(`service.rs:336-345`) has launchd start the service again by itself: `due`, until
the action `KeepAlive` or a start.  A process that ends without a signal of the
updater, and is then restarted by its manager, is not modelled.  `Crash` ends a process before any step; its lock file
stays until the operator deletes it.  Archive limits, signatures and the refusal
of symbolic links are one failure of `Check`.

### How `ServerLifecycle` corresponds to the code

`serve` is where `serve_inner` (`server/lib.rs`) is; `todo` is what is left of
its way out, one of four sequences the code writes out: after a failed metrics
listener, a failed bind, a failed control socket, and after serving.

| Phase of `serve` | Code | Leaves by |
|---|---|---|
| `start`, `prepare` | hardening, TLS material, inherited descriptors; in the direct role the host's changes | `Begin`, `Prepare` |
| `bridge`, `metrics`, `bind`, `control` | the background tasks and the listeners, in the order of the code | `StartBridge`, `StartMetrics`, `Bind`, `StartControl`, the last three with their failure |
| `run`, `register` | spawning the listeners; the calls of `signal()` | `Run`, `Register` |
| `serving` | the `select!` of `run_servers` | `ShutDown`, `ListenerEnded` |
| `draining` | the loop after the shutdown is told to the listeners (`lib.rs:331-355`) | `Drained` |
| `undo` | the way out, one step of `todo` at a time | `Undo`, `Exit` |

A listener, a connection and a request are tasks of a tree (`listener`, `conn`,
`req`).  Each drain waits for its tasks, at its deadline requests their abort
(`aborted`) and, when it is itself dropped, leaves them to end by themselves: an
abort takes effect in a later step.  `sup` is the supervisor's state; it spawns the
worker, passes signals on, kills five seconds after, and gives up a worker that
it cannot watch.  A signal before its handler is registered ends the process.

### How `UdpProxy` corresponds to the code

| Phase | Code | Leaves by |
|---|---|---|
| `accepted` | authentication, capabilities, the target, all under the snapshot of the configuration the request came in under (`request.rs:122-222`) | `Admit` |
| `lookup` | the resolver's permit, its timeout, the choice of an answer | `Resolve`, `Cancel` |
| `charge`, `window`, `refund` | the three locks of `acquire` | one action each |
| `open` | the socket, its `connect`, the forwarder's spawn | `Open` |
| `respond` | `send_response` | `Respond`, `Cancel` |
| `driving`, `writing` | `drive_proxy_stream`, its `select!` and the write inside one of its branches | `ForwarderGone`, `TakeEgress`, `PeerReads`, `PeerEnds`, `Cancel` |

The forwarder (`fwd`) owns the socket and ends by itself, by an error or by the
abort in the drop.  `Reload` swaps the configuration between any two steps, `Tick`
moves the clock the expiry of tokens and the windows read.

### How `ControlPlane` corresponds to the code

A daemon's `pc` follows `serve_inner` as far as the control socket matters.

| Phase | Code | Leaves by |
|---|---|---|
| `down` | before the file is compiled (`lifecycle.rs:26-33`) | `Compile` |
| `metrics` | `metrics::start` | `StartMetrics` |
| `inspect`, `probe`, `replace` | `prepare_socket` (`control.rs`), one system call each | one action each, refusing or going on |
| `bind`, `chmod` | the socket's file and its mode | `Bind`, `Restrict` |
| `up` | `run()` | `Stop`, `LoseControl`, `LoseMetrics` |
| `unlink`, `unlinkAgain`, `leave` | the task's removal of the path, that of `ControlHandle::stop`, `metrics.stop()` | `Unlink`, `Leave` |
| `fail`, `deaf` | `accept()` has failed: the socket is gone and the daemon serves on | `Unlink`, `Stop` |
| `abandon` | the start was refused | `Leave` |

A client's `task` is a reload on the control socket, or a token command:

| `at` | Code | Leaves by |
|---|---|---|
| `idle` | not started | `Load`, `Connect` |
| `loaded`, `ready` | `create` / `revoke` between loading the document and writing it; the grant before | `Grant`, `Write`, `CommandFails` |
| `written` | after `write_atomic`, before the grant (`auth.rs:177-183`) | `Grant`, `CommandFails` |
| `granted` | before the command asks for a reload | `Connect`, `EndClient` |
| `connected`, `compiled` | `dispatch`: before the file is compiled, before the lock | `CompileAgain`, `NoReload`, `Apply` |
| `answer` | the response | `EndClient` |

A document is a place in the order of writes, the set of commands whose change
it has, and a kind: whether it compiles, and what it says of the fields a reload
may not change.  The signal's branch of `run_servers` reloads like a client.  `late`
marks a reload that another has overtaken, `crossed` a command that wrote while
another had loaded; both are history that no guard reads.

### How the pure modules correspond

`Capsules` is the decoder's state machine (`decoder.rs`) with a header of type and
length and varints of the real lengths; a payload is as long as it says.  `Ranges`
has addresses as numbers of a family, a network as a block of them.  Where the
special networks matter, a number is the first 24 bits of an IPv4 address or the
first 30 of an IPv6 address, of all of IPv6; `::` and `::1` are in number 0, and
2001:db8::/32 has a number of its own.  `Advertisement` leaves out the policy filter of
`route_advertisement` (`ip.rs:248-260`), which only takes ranges away.  `Packets` has a
packet's fields as far as a check reads them: lengths, header chain, protocol,
source, destination, hop limit and what an ICMP error is about.  `Config` has one
field per field of `model.rs` that `validate.rs` or `compile.rs` reads, defaults
included; a string is a value with the one property its parser looks at.  The token
bucket's quotient is not cut to 64 bits (`ip.rs:463`), which takes a rate and an idle
time whose product no configuration in use comes near.  The loops
over requests, addresses, calls and bytes are recursive functions of the position
(`Served`, `Extended`, `Admits`, `Number`), which can be reasoned about.

## Runs

| Run | Instance | Shows |
|---|---|---|
| `pool_scan` | blocks of 1, 2, 4 and 8 addresses of both families, any order of leases and drops | `HostAddressesOnlyAndAll`, `ScanReturns`, `ImplementsAtomicPool` |
| `sessions` | 3 requests of one principal with dual-stack pools, limits of 2, a registry of two routes, advertisements that overlap, conflict, or exceed a limit | one owner per lease, no conflict at insert, routes exclusive, unambiguous and bounded |
| `drain` | 2 requests on 2 connections, one address, two packets, fairness | `DrainCompletes`, `ShutdownReturnsEverything`, `QueueOwnership`, refinement of `AddressOwnership` |
| `server` | 2 listeners, 2 connections, a request, 2 failures, both roles, with and without CONNECT-IP | `EveryTaskHasAnOwner` and what it needs (`Inv`), `EndLeavesHostAsFound`, `CleanedAfterUse`, `ServerEnds` |
| `hup` | as `server`, no failure | a reload through the service manager kills the supervisor, below |
| `udp` | 3 requests on 2 connections (one without datagrams), two configurations, one DNS permit, a window of 2 ticks | `QuotaConserved`, `SocketAuthorized`, `RegistryFollowsRequests`, `DecidedOnce`, `WindowsCount` (in `Inv`), `NeverTwiceTheLimit`, `EndedTunnelIsReturned` |
| `control` | 2 daemons, 2 clients, one client's permit, 2 writes, 1 fault, three kinds of file | `Inv`, `ControlPathLeadsHome`, `OnlyOverlapGoesBack`, `ReloadCarriesTheChange` |
| `journal` | two sysctls, nft table, TUN device, two routes; 3 failures, crashes or reboots | `Tracked`, `EvidenceKeptByServer`, `RoutesGoBeforeTun`, `Recovers` |
| `update` | 2 updaters of the same release, each with or without a service, under either kind of manager; 3 failures or crashes | `PreviousSurvives`, `OutcomeTellsTheDisk`, `ServiceRunsTheBinary`, `UpdateEnds`, the inductive invariant |
| `backup` | as `update`, no fault | an update removes the backup of the one before it, below |
| `inputs` | the families of inputs of `MCInputs` | the eight properties of `Inputs` |
| `scope` | the route questions of `inputs` | a route larger than the scope is advertised whole, below |

**What the eight properties of `inputs` say.** `StreamDecodedAsWhole`: however a
stream is cut into chunks, the decoder returns the capsules and the error that
the whole stream has.  `RoutesStayApart`: the neighbour checks accept exactly the
sequences all of whose pairs are in order and apart, and every advertisement made
from accepted routes is one, reaches what the scope reaches and nothing that
is not configured.  `PolicyChecksAgree`: the decisions on an address, a
range and a prefix do not contradict each other, but for the addresses of IPv6 that
only one of the two tables of reserved networks has (`Unnamed`, below).  `WayBackIsOpen`: what a client
may send may be answered, and errors about it arrive.  `ErrorsComeHome`: a refused
packet is answered with a well-formed error for the client alone.
`AnswersComplete`: an `ADDRESS_REQUEST` is answered once, with every address.
`RateHolds`: the token bucket admits no more than burst and rate, and loses at
most a token a call.  `CompiledConfigClosed`: what `validate()` accepts compiles to
maps that name nothing that is not there.

**Bounds.** Two sessions are enough for every pairwise property (exclusive
routes, one owner, conflict at insert); `sessions` has a third so that one request
can be refused by the quota or find a pool empty while two hold leases.  A pool
of one address makes every reuse an immediate one, the case `drain` needs.
`MaxRegistryRoutes`, `MaxSessionRoutes` and `QueueCapacity` are 1 to 3 so that
all limits are met.  In `server` a second listener has no connections, so that
one can end while the other drains, and `MaxConnections` of 1 refuses the second
connection; two failures let a start fail and its undoing too.  In `udp` the
limit of new tunnels is 1, for which "fewer than twice the limit" is "one": with
three requests and three ticks a window ends, begins anew and is met again; the
one DNS permit and the queue of one are both met.  In `control` two daemons are
what one does to the other, two clients what one command or reload does to
another, and two writes are one more than a reload can overtake; `MaxFaults`
counts crashes, failed commands, lost listeners and signals, and at 1 each of
them meets every other step (the proofs have no bound).  The plan of `journal` is
the longest the code has on Linux, with both pools and managed NAT; a third
fault lets a start fail, its cleanup fail and the operator's cleanup fail or
crash.  Two updaters are enough for what one does to the other, and three faults
for a failed installation, a failed restore and a failed removal of the stage.
The inputs of `inputs` are built around the boundaries in the code: the first and
last address of each network, empty and nested ranges, lengths at the MTU, at the
minimum and one beside, chains of extension headers, entries at the limit.
Requests and daemons do not start twice, so behaviours end: deadlock is checked
in `pool_scan` and `journal` only.

**Fairness.** `IpSessions!FairSpec` assumes that the runtime keeps running a task
that is not parked (`WF` of `Run(r)`), that the drain's timer fires (`WF` of
`DrainTimeout`), and that an aborted task is eventually seen parked (`SF` of
`Cancel`): a task with data to read may pass through its awaits without
parking, but tokio's cooperative budget makes it yield, and the abort takes
effect there.  Nothing is assumed of peers, resolver, network or TUN device:
`DrainCompletes` holds because the abort makes up for them.  `ServerLifecycle`
assumes the same of its tasks and timers, and that `select!`, which picks among
ready branches at random, does not leave out a listener's end or a signal for
ever; nothing of peers, handshakes and requests.  `UdpProxy` assumes only that
the loop of a tunnel runs when a branch of it is ready; `EndedTunnelIsReturned`
has the peer that never reads again as its exception.  `pool_scan` assumes only
that a caller in the loop goes on.  `journal` assumes `WF` of `Progress`: a
process that neither fails nor crashes goes on, the service manager starts the
server again, and the operator runs `maskman cleanup` while the start is refused.
Failures are bounded by `MaxFaults`, so `Recovers` says what happens once they
end.  `update` assumes `WF` of an updater's own steps, the health deadline among
them, and nothing of the service: it need not ever become ready, and under launchd
neither must a signalled process end nor launchd start it again.  `ControlPlane`
has safety only, and no fairness.

**Divergences with a run.** `ReloadKeepsService` states what
`.agents/02-architecture.md:234` says of a reload.  `ExecReload` of the systemd unit
and `reload()` of the OpenRC script send SIGHUP to the main process, the
supervisor, which has handlers for TERM and INT only (`supervisor.rs:89-122`) and
is killed.  systemd takes that for a clean exit, so `Restart=on-failure` does not
start it again.  The token commands' fallback (`auth.rs:145-151`) is the same
signal.

`BackupKept` states what `release/runbook.md:101-102` says: the updater "keeps
one backup at `<binary-path>.previous`".  `update()` asks for its own path only
after the download and before the lock (`lifecycle.rs:325-326`).  When another
update ends in between, that path is `<binary-path>.previous`, and so is the path
of its backup; the update removes the file to make room for itself and then
fails to rename it.  The three safety properties of `update` are about updaters
whose path is the installed one (`OnPath`); the others are in the same run, and
what they do must not break those.

`ScopeBoundsAdvertisement` states what a test of `server/proxy/ip_scope.rs` (line
161) says: routes are intersected with the scope.  `network_intersection`
(`ip_scope.rs:101`) returns the route when the scope contains its network address,
also when the route is the larger of the two: for scope 10.0.0.0/24 and route
10.0.0.0/8 the whole /8 is advertised.  What is sent there is refused: the scope
is checked on every packet.

**Exceptions that two properties of passing runs state.**  `PolicyChecksAgree`: the range
check compares with `default_denied_networks()` (`policy.rs:161-192`), the address
check with `classify_v6` (`packet/scope.rs:69-99`), which refuses all of IPv6 but
2000::/3 without 2001::/23, 2001:db8::/32 and 2002::/16.  The list names neither
2001::/23 nor, outside of 2000::/3, more than `::`, `::1`, fc00::/7, fe80::/10 and
ff00::/8.  So a role that allows ::/0 and denies private addresses is granted the
range 4000::/16, and refused each address in it; `scope.rs:135` has a test that 4000::1
is refused, and `.agents/09-protocol-compliance.md:18` speaks of default-deny for all
that is not global.  `Unnamed` is the exact set, and the property still says that what
stands in the way of such an address is only that its role denies private ones.

`ServiceRunsTheBinary`: `release/runbook.md:103-104` says that after a failed health
check the updater restores the backup and restarts the service.  Under launchd that
is so only when the last start found no process.  Otherwise the process which stop had
signalled may still be there: when it ends well nothing starts the binary in place, and
until then, or when launchd had started it again in the middle of the renames, another
binary runs than the one in place.  An update that ends with Ok, having found the
old process healthy because it has the version asked for, is exposed alike.

**Observed, without a run.** `.agents/02-architecture.md:88-91` has the session
mapping established before the 2xx; `request_ip.rs:129-135` sends the 2xx first, and
a packet in between finds no session.  The operator's cleanup passes over pending
entries and removes the file (`journal.rs:357-361`, `416`), which
`server/resources.rs:155-158` means to keep; `Tracked` has them as `abandoned`.  A
route recorded by an interface index that another link has after a reboot is
refused by every later cleanup (`linux.rs:192`), while the refusal to start asks
for a cleanup (`server/resources.rs:70`); `Recovers` has it as its exception.  With
CONNECT-IP disabled, `validate()` accepts pools and routes that `compile()` refuses
(`validate.rs:348-354`, `compile.rs:179-188`).  `parse_duration`'s "ms" is unreachable
(`validate.rs:18`): "500ms" ends in "s" first.  Two token commands at once lose the
earlier one's change, a revocation too (`auth.rs:67-92`, `crossed` in
`ReloadCarriesTheChange`).  A command killed between its rename and its grant
leaves a file that the worker cannot read (`WorkerMayRead`'s exception).  A daemon
killed between `bind()` and the chmod leaves a socket that every later start
refuses (`control.rs:174-175`, `bare` in `RefusedForAReason`).  Two daemons with
different metrics addresses and one state directory take the control path from
each other (`SomeoneElsewhere`).  An `ADDRESS_REQUEST` with 256 entries of one
family ends the session when it has an address of the other (`AnswersComplete`).
The supervisor kills its worker after five seconds, less than the default
`drain_timeout` (`supervisor.rs:104`).  The end of the TUN bridge is unobserved
(`lib.rs:204`): the daemon serves on without it.

**Mutants.** Each property has a mutant, defined next to the operator it stands
for, that breaks it under its own run.

## Proofs

`IpSessionsProofs` proves for all values of the constants of `IpSessions` that
satisfy its four assumptions: requests are finitely many numbers with a
principal, a connection and a scope; each pool has a network of its own family
that is not empty; limits are numbers; advertisements are finite sets of
ranges, packets are well formed.

`TypeCorrect` is the type invariant: among others, cursor and leases of a pool
never leave its usable addresses, for networks of any size.

`InvCorrect` is the inductive invariant `Inv`.  The properties are not inductive
alone.  That an address has one owner needs to know what each phase holds
(`LeaseByPhase`: the release of IPv4 before IPv6, nothing after both).  That the
registry agrees with the leases, and that no insert is refused, needs that a
registered session is in a phase that still owns its leases (`SessionByPhase`).
That routes stay exclusive needs that a session has no routes before it is
registered, and that the table is the union of the sessions' routes.  That a
queue holds no stranger's packet needs what is true of a *stale* handle: the
addresses in it never change, its session never returns to a phase before it
had them (`TunByHandle`), and the queue is empty and closed before the lease
goes (`SessionByPhase`), so `QueueByHandle` about the handle's addresses becomes
`QueueOwnership` about the leases.  `NextCases` divides the steps by what they
move, and there is one lemma per conjunct.

From `Inv` follow `LeaseOwnershipHolds`, `RegistryMatchesLeasesHolds`,
`NoRegistryConflictHolds`, `RoutesExclusiveHolds`, `RouteSelectionHolds` and
`QueueOwnershipHolds`.

`PermitsCountedHolds` counts the quota: a principal's active tunnels are its tasks
between `acquire` and the permit's drop (`ChargedTo`), whichever way they end, so the
saturating subtraction never saturates.  With it and `Inv`, `DrainedIsReturned` is what
`ShutdownReturnsEverything` has of safety: when connections are stopped and no task
is left, everything is returned, and nothing can be taken again.

`RouteTablesHold` counts: an advertisement gives a session as many routes as it
has ranges (`RoutesOfAdvertisement`), and a commit adds them to the routes of the
*others*, which it counts under the lock that it writes under, so that what the
table was when the advertisement was validated does not matter.

`SessionsImplementOwnership` is the refinement of `AddressOwnership`, whose owner of
an address is here the request that has it in its lease.  By `LeaseOwnership` that
request is the only one (`LeaseOwnerIs`).  A lease is a `Take`, a release a
`GiveBack`, whose guard (the owner has nothing left to read) is `SessionByPhase`; a
delivery is a `Deliver` to the owner because an accepted packet's address is leased
by the session of the handle, however stale (`QueueByHandle`, `TunByHandle`); every
other step leaves owners alone and queues no longer.

`AddressPoolProofs` proves what `pool_scan` checks of safety for networks of any
size, assuming that a network is one address or an even number of them, as every
prefix is.  `HostsHold` needs the loop's invariant `Scan`: since the mutex was taken
nothing was leased or given back, and every address from the old cursor to the
present candidate, measured by `Distance`, is leased.  That distance also bounds the
loop, whose code has no bound: `ScanNeverComesRound`, where the step before the first
candidate would come again is excluded because a free address was seen under the
same mutex (`Room`).  Then the candidate the loop
takes is the one that `AtomicPool` takes in one step; `LoopImplementsAtomicPool` maps
the pool to the one the caller found (`entry`) for as long as the loop runs.

`ServerLifecycleProofs` proves the three safety properties of `server` for any
numbers of listeners, connections, requests and failures.  That no task is left
without an owner (`EveryTaskHasAnOwner`) needs that a listener which closes has
joined its connections and that tasks exist only below tasks that have run
(`TreeByPhase`), and that the supervisor has one worker (`WorkerByPhase`).
`EndLeavesHostHolds` needs `HostByPhase`: on each of the four ways out that the code
writes out, "host" is still to do while the host is prepared, and comes after the
bridge.  `CleanedAfterUseHolds` is an action property from the same invariant, and so
is `TasksGoOnward`: the phases of the process, its supervisor and every task have
ranks that no step lowers, stops and aborts are not taken back, and a step that
raises no rank does one thing less of the cleanup, or is a failure or a signal.

`ControlPlaneProofs` proves all that the run `control` checks, for any number of
daemons, commands, kinds of file, writes and faults, assuming that names differ,
that the file compiles at first, and that the limits are numbers.  `TypeCorrect`
comes first.  `IInv` is about the file and the reloads: it needs that a task that
reloads belongs to a daemon that was started and a command that writes to none
(`TasksOfDaemons`), so that a daemon's first reading of the file changes nothing
under a reload, and a daemon's end drops no half-done command; that a command
which crossed with nobody finds its change in what every later one loads
(`ChangesCarried`); and that a reload nobody overtook holds nothing older than
what is in force (`VersionsOrdered`).  `ReloadCarriesHolds` and `OnlyOverlapHolds`
follow.  `SocketInv` is about the path: `PortsHeld` says that a daemon between its
metrics listener and its end has the address, so no two of one address are
inside (`OneInside`), and what one has seen of the path still is so when it acts
(`PathWatched`).  `InvCorrect` and `PathLeadsHome` follow.  Each action has a lemma
that says what it does to a task (`LoadEffect` and so on), and each part of the
invariant one with a step per action.

`UdpProxyProofs` proves `Inv` of `UdpProxy` (`InvCorrect`) for any finite set of
requests, any configurations, windows and length of time, assuming that a request
asks for a name or an address, that a configuration's mode is one of the four, and
that no role has a limit of zero (`LimitsAssumption`), which `validate_policy`
(`validate.rs:335-343`) refuses.
That a principal's count is that of the permits needs that a request past
admission has a principal, and that a socket sends where its principal may needs
that the address was checked before the charge: both are `DecidedOnce`.
`PermitTaken` and `PermitGiven` do the counting, and one lemma, `EndStep`, covers
every way a request can end: a refusal, an error, the drop of its future.

`NeverTwiceHolds` says of every interval of sixty seconds, at every time, that the
tunnels let in during it are fewer than twice the `new_tunnels_per_minute` of a
configuration that knows the principal.  History keeps who was let in and when
(`admitted`, which no guard reads).  `WindowsCount` is the invariant: a window
begins with a tunnel, has counted every tunnel since, and let in no more than some
limit.  An interval thus meets two windows at most, and of the earlier one not its
first tunnel when it holds the first of the later (`RecentFew`).  That is where zero
limits matter: with one, a refusal would begin a window with no tunnel in it.

`EndedTunnelsWind`: when a tunnel's forwarder has ended nothing is queued for the
stream any more, and what its task has left to do (`Left`: two steps for each payload
queued, and the end) only becomes less.

`ResourceJournalProofs` proves for every plan of distinct resources that has the
TUN device before its routes, as `prepare()` of `server/resources.rs` makes them, and
any number of faults the inductive invariant `FileInv` of the journal
(`FileInvCorrect`) and from it `TrackedHolds`, `FileFollowsMemoryHolds` and
`EvidenceIsKept`.  `Tracked` alone is not inductive: that the host changes only under
a recorded intent needs that the process's last entry is the pending one of the step
under way (`StartByPhase`) and that the file is the process's journal
(`FileFollowsMemory`); that the removal of the file loses nothing needs that what is
left to undo is a prefix of the file and covers what is still on the host
(`CleanupByPhase`).  There is one lemma for each part of a life of the process:
startup before and after the change of the host, cleanup, and its end.

`RoutesGoFirst` needs two more parts, proved inductive on top of `FileInv`
(`InvCorrect`): the entries of every journal, in the file, in memory or left to undo,
have routes behind the device, whatever a crash or a failure left of them
(`PlanFollowed`); and device and routes, which end with the worker or a reboot, are
on the host only under entries that are still there (`TransientByPhase`).

`RecoveryComesNearer` measures the way to a server that runs (`ToDo`): the rest of the
plan, before it the entries to undo, before them the end of a failed start.  A step
that does not fail shortens it, from every state that crashes and failures leave, but
where the file has a route and the link's number is another owner's.

`InputsProofs` proves all eight properties of `inputs` for every input there is, not only
those TLC is given, under `QuestionsAssumption`, which says what an input is: networks
are aligned powers of two and nest or share nothing, the ends of a packet's headers
ascend, an MTU is at least 1280, a document's lists are lists.  (Stated, it refused
one IPv6 network of the inputs that was not aligned and stood for no prefix.)  A
session has one address of each family at most, as `AddressPoolSet` leases them
(`address_pool.rs`), rates and amounts are numbers, streams are bytes and
`max_payload_bytes` is within what a UDP datagram may have (`CapsuleLimits`), as
`validate.rs` bounds it.

- `PolicyAgrees`: the reserved networks are intervals of numbers, and two intervals
  that share an address overlap at the first of one of them, so the comparisons of
  whole networks decide as those of addresses do; for `EntirelyNonGlobal`, which looks
  at the two ends of a network only, it matters that networks are aligned.  That
  nothing but `Unnamed` is granted and refused needs the two tables side by side:
  the global addresses are those in neither `DefaultDenied` nor `Unnamed`
  (`ReservedV6Is`).
- `RangesAreChecked`, `RoutesApartHolds`: if two ranges were not apart, take the first
  behind the earlier one that is not; its neighbour is, and the order is transitive
  (`AllPairsApart`).  The advertisement is the set's members by rank (`SortedIs`, by an
  injection between finite sets of one size), so every number reached is in one range.
- `WayBackHolds`, `ErrorsComeHomeHolds`: each check of one direction is matched with
  that of the other (`AnswerIs`), and a quote, which is the shorter of what is there
  and its limit, keeps the headers of what it quotes (`ErrorIs`).
- `ConfigClosedHolds`: maps filled from lists with distinct keys give back each entry
  (`MapHas`, `MapOnlyHas`, `CertificatesAre`), and what `validate()` asks is what the
  closed configuration needs; its routes make a lawful advertisement
  (`AllRoutesLawful`).
- `AnswersCompleteHolds`: `ServedSo`, `ExtendedSo` and `SessionSo` say what the answer
  is after each request, what it is when the other addresses of the session are added
  one by one, and what a session has answered after each capsule.  That an
  identifier is not answered twice needs that the identifiers seen are those answered.
- `RateHoldsAlways`: after each call of a run, what was admitted and what the bucket
  still has add up to at most the burst and what was earned.  The other direction is
  a bound per call: what a call loses to rounding is less than one unit.
- `DecodedAsWhole` needs the inductive invariant `Decoded`: what the decoder holds is a
  function of the bytes behind the last whole capsule (`Decoder(rest)`), and those are
  not a whole capsule themselves (`Pending`).  The property alone says nothing of a
  capsule that is half read.  A step that reads bytes keeps it (`ReadsKeeps`) whatever
  the place of the cut, in a type, a length or a body, and one that forwards
  an event moves it from `events` to `offered`.

The last three are about recursive functions over lists and streams.  The induction
they need is done without an induction theorem: `LeastNumber` (a set of numbers that
is not empty has a least, from the well-foundedness of finite sets) gives `Upward`
(what holds at 0 and passes to the next holds up to n), and `Recursion` builds from it,
for each definition, the function it defines with its equations and its invariant.

`UpdateInstallProofs` proves for any set of updaters and any number of faults the
inductive invariant `Inv` of the installer and from it `PreviousSurvivesHolds`,
`OutcomeHolds` and `ServiceHolds`.  The three need `Exclusive` (the lock file's
owner is the only one past `Acquire` and before the end of `Unlock`), so that
one updater's phase tells what is at both paths (`DiskIn`) and in the service
(`ServiceIn`).  After a stop the service is gone only under a manager that waits
(`Stopped`); from a start that found no process on, the service runs the binary in
place under any (`RunsTheBinary`), which launchd's own steps do not disturb because
the process is neither signalled nor due to be started again (`Serviced`,
`LaunchdStep`).  `InnerStep` gives the effect of each action of the owner and what
each part of the invariant needs of it, `OuterStep` is for the other updaters.
Assumed: files, paths and `None` are different things.

`UpdatesGoOnward` gives the phases an order (`Rank`): every step raises the rank of one
updater, failures and rollbacks included, or is the operator's removal of a lock or
a step of launchd, which move none.

Only model-checked: the seven liveness properties (`ScanReturns`, `DrainCompletes`,
`ShutdownReturnsEverything`, `ServerEnds`, `EndedTunnelIsReturned`, `Recovers`,
`UpdateEnds`).  They need that a step which may be taken is taken, and `ENABLED` is out
of the prover's reach.  What they need of safety is proved, but for `DrainCompletes`:
that what remains to be done becomes less with every step, or that what is reached is
kept.  Where it is a variant, a behaviour that does not get
there must stop on its way, or have failures and signals without end; that it does
neither is what fairness and the bounds of the runs are for.  The three runs that end in a violation
have nothing to prove.

## Not modelled

- QUIC, TLS and HTTP/3, the layout of bytes, the parsing of request paths, TOML
  and command lines: formats without state of their own.
- The client's payloads on their way to a UDP target, and its IP packets on the
  way to the TUN device: both are sent or dropped in one step after the checks,
  which `Packets` has.
- What a service manager does by itself, but for launchd's restart of a service that
  was told to stop.
- macOS's adapters of the journal, and an operator's cleanup beside a running
  server, which no lock prevents.
- The choice, digest and signature of a release, one failure of `Check`.
- Installing services and accounts, passing descriptors, migrating old schemas,
  counters and metrics, the dialogue of `setup`: sequential, no state shared.
- Build scripts and fuzz targets.

## Plan

Done: pools and their refinement, sessions with quota, registry, bridge and
drain, the journal, the installer, the daemon's life, CONNECT-UDP, the control
plane with its token commands, the pure parts; proofs of every safety property and
both refinements that the runs check, and what six of the seven liveness properties
need of safety.

Next:

1. The operator's cleanup beside a running server, and macOS's plan of changes.
2. The choice of a release and the window between verification and staging.
