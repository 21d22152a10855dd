# Verification of ncmanager

ncmanager is a Go web server that keeps the peers of a WireGuard server
(`wg0`), renders `/etc/wireguard/wg0.conf`, runs `wg` and `wg-quick`, and
configures the Keenetic routers of the peers over HTTP (RCI). This directory
holds TLA+ models of it, the TLC runs that check them, and theorems that
TLAPS proves for every value of the constants. `PROJECT.json` maps each
definition to the lines it models and lists hazards, findings and mutants.

## 1. Inventory

Every HTTP request runs in a goroutine of its own, and many start a background
job in another. There is no database: state is a set of small files below the
working directory, rewritten as a whole with `os.Create` and a write, and a few
globals. Only `wg0.conf` is replaced atomically (`writeFileAtomic`).
`Server.mu` guards the write of `config.json` together with three fields of
`Server`; `dnsApplyRunning` guards one kind of job; the router cache has a mutex
of its own; nothing else is guarded. systemd restarts the process; `main()` then
brings files and interface back together.

| Component (source) | State | Operations | What makes it correct |
|---|---|---|---|
| Peer registry (`main.go`) | `data/peers.json` | add, remove, update, posted list in a config save, import and VPN jobs | no shared address; one edit changes what it was asked to; a crash keeps all or nothing |
| wg0 (`main.go`) | `wg0.conf`, the running interface | `generateWgConfig`, `wg showconf`/`syncconf`, `wg-quick` up and down, resync at start | conf and interface hold the registry's peers |
| Server settings (`main.go`, `router.go`) | `data/config.json`, `s.wgPort`, `s.iface`, `s.endpoint`, `s.mu`, `server_private.key` | `saveConfig`, `saveGeneralConfig`, `main()` | memory equals file; the key survives; the lock is released; settings are in force |
| Address allocation (`main.go`) | none | `nextAvailableIP` | lowest free host, or a refusal |
| DNS routes (`dns_routing.go`, `main.go`) | `data/dns-routes.json`, `dnsApplyRunning`, `dns-apply.status` | create, update, delete, import, apply job | one job; the router ends with exactly the routes' groups; flag released |
| Backup (`backup.go`, `crypto.go`) | archives; `encryptionKey` against `data/.key` | create, restore; encrypt, decrypt | a restore installs the archive; passwords stay readable |
| VPN jobs (`main.go`, `router_vpn.go`) | `RouterIfName`, `VPNActive`, `peer-vpn-*.status`, interfaces of the router | apply, remove, import | one interface per peer, nobody else's removed; a tunnel made stays made |
| Components (`main.go`, `router_components.go`) | `components-apply` status and log, firmware of the router | batch installs with a reboot and polling | honest status that always ends |
| Peer DNS (`router_dns.go`, `dns_routing.go`) | upstreams and dns-routes of the router | a series of RCI calls | what was answered is there, and saved |
| Router client (`router.go`) | a session per request | login, call, save, lists | a lost session or a refused call is an error |
| Router cache (`router_info.go`) | `routerCache`, its mutex, `routerCacheTTLSeconds` | check, clear, change of the lifetime | answers that were true within a lifetime; no entry for a removed peer |
| Authentication (`main.go`) | `passwordHash`, `authSecret`, attempts, block; `.auth`, `.secret` | login, validate, change password | hash in memory equals the stored one; tokens survive restarts; no early block |
| AmneziaWG (`main.go`, `backup.go`) | `.conf` files, running interfaces, autostart | import, save, up, down, delete, restore | interface, file and autostart agree; the private key survives |
| Web interface, presets, logs, packaging | - | - | not modelled |

How they interact: `saveConfig` and the start of the process touch settings,
peers and `wg0`; the router jobs read the registry when they begin and write it
back when they end; all jobs share the running configuration of a router, and a
save by one stores the half-done work of another; an installation of components
reboots the router under the other jobs; removal of a peer clears its cache
entry; a restore rewrites the files of every other component under their feet.

What is hard: handlers work on copies that are out of date when they are
written back; truncation before writing, with a crash in between; three-step
edits of the running interface; memory that is set at the start and not when the
file changes; errors of a write that nobody asks for, or that come after the
truncation; background jobs that fail halfway on a router, or succeed there
and are told otherwise. The list with lines is under `hazards` in
`PROJECT.json`.

## 2. Modules

| Module | Role |
|---|---|
| `PeerStore` | registry, subnet, `wg0.conf`, peers of `wg0`, browser copies, crashes, `main()`; the refinement mapping to `PeerRegistry` |
| `PeerRegistry` | abstract: a map from ids to peers changed by one whole edit at a time |
| `MCPeerStore` | instances |
| `ServerConfig`, `MCServerConfig` | settings, key file, lock, `[Interface]` of `wg0` |
| `DnsApply`, `MCDnsApply` | DNS routes and the job that applies them |
| `KeeneticRouter` | a router and the sessions with it; the primitives `Done`, `Failed`, `Ignored`, `Saved` every call is made of; reboots |
| `RouterVpn` | the tunnel jobs and `peers.json` as they see it |
| `Components` | the installation job |
| `PeerDns` | the two handlers of name resolution |
| `RouterJobs`, `MCRouterJobs` | composes the three on one router, with reboots, crashes and a panic |
| `ManagerProcess` | process, clock, `main()` on its way up, death |
| `Auth` | password, secret, tokens, attempts |
| `RouterCache` | the cache and the peers and settings it depends on |
| `Web`, `MCWeb` | composes the two in one process |
| `Amnezia` | one AmneziaWG interface and its handlers |
| `Backup`, `MCBackup` | extends `Amnezia`: archives, restores, password encryption |
| `PeerStoreProofs`, `ServerProofs`, `DnsProofs`, `RouterProofs`, `RouterTunnelProofs`, `WebProofs`, `BackupProofs`, `AwgProofs` | theorems about these; the second of the router extends the first |

An action is one access to shared state: reading a file, truncating it, writing
it, renaming `wg0.conf`, one run of `wg`, `awg-quick` or `systemctl`, one RCI
call, one access to a global. `pc[w]` is the position of request `w` in its
handler; the other per-worker variables are the handler's locals (`list` is
`peersCfg.Peers`, `sub` is `cfg.Subnet`, `shown` the output of `wg showconf`,
`ifn` is `RouterIfName` as read when the job began, `form` the posted AmneziaWG
configuration). A handler that starts a goroutine and answers goes on as one
worker. A `Fault` is a write, a call or a login that fails, or a death of the
process; a failed write may come before the truncation or after it, and each
caller does with the error what the code does, mostly nothing. A crash drops all locals at any moment, with or without a reboot, and
the steps of `main()` follow. History variables are marked so where they are
declared; they only record what a property speaks of.

The correspondence for the router, step by step: `newKeeneticClient` is the
`Begin` of a worker (an empty cookie jar); `keeneticSetupClient` is `LoggedIn`
or `LoginFailed`; `keeneticRciPost` is `Done` with the new running
configuration, `Ignored` (200, with a refusal in a body the callers do not
read), or `Failed` (refused, not delivered, or done and the answer lost; always
without a session); `keeneticSave` is `Saved` or `SaveFailed`.
`importWireGuardConfigToRouter` is `Login`, `ListInterfaces`, `RemoveOld` (one
step per interface with the peer's description), `Import`, `AdoptOrphan`, one
`SetupCall` per entry of `Setup` and `SaveRouter`; its callers end with
`Record`, `PeersTrunc` and `PeersWrite`. `configureRouterComponents` is
`ComponentsList`, `Install`, `Commit`, `Reconnect` and `Verify`, the reboot
between being a step of the router. Of a peer on another router the calls are one
step (`Elsewhere`), since nothing on this router changes; what it records there
is a name like the ones here, which `UpdatePeer` brings along when the domain is
changed.

Where a module leaves something to another: `PeerStore` has the peers and the
subnet and only as much of `s.mu` as keeps two writes of `config.json` apart;
`ServerConfig` has the lock in full, the port, the key and the server name, and
`main()` piece by piece; `Backup` takes `main()` as one step, and of the edits
only `updatePeer`, which touches nothing but `peers.json`; `RouterVpn` has of
the registry what the jobs read and write (name, interface, `VPNActive`, and
whether the domain is that of the router modelled), the addresses being in
`PeerStore`; `RouterCache` has of it the domains.

### Abstractions

* A peer is id (with its key pair), address, name and router interface. Fields
  that are stored and shown only (description, paid, dates) are left out.
  Addresses are integers; a subnet is a base and a size. The code adds octet
  by octet without a carry, which is integer addition because `ParseCIDR` has
  masked the base.
* A read of a file is one step, a write is two: empty (`Torn`) and complete.
  Two writes of one file that overlap end with the one that comes last; mixing
  of bytes is not modelled. `Backup` has one restore at a time.
* `loadPeers` also migrates an old `dnsRoutes` member; skipped. So are requests
  whose fields do not parse and answer 400 before any state is touched.
* An interface that runs without a key (`main()`'s re-keying branch), ufw rules
  and TLS are left out.
* In `ServerConfig` one subnet stands for those that do not parse; a config that
  `saveGeneralConfig` could not read is the empty one, with port 0. `wan` says
  whether the config is complete or main() has to complete and save it.
* In `DnsApply` the tunnel interface of a router is fixed. A route is a slug and
  a number of chunks of 300 items.
* In `RouterVpn` an interface is its description, the key of its peer and which
  of the settings it has; `Slug` is `sanitizeFilename`, under which two names may
  meet. In `PeerDns` an upstream is its address.
* In `Auth` a hash stands for its password and a signature for the secret it was
  made with; the clock has ticks in place of seconds, and a request sees one
  instant per step. Logout keeps no state.
* In `Backup` the files `.auth`, `.secret` and the presets, which are read only
  by the next start, are left out. A password is the sequence of keys it is
  sealed with; the list is represented by one peer's. An AmneziaWG configuration
  is its private key, whether the key is written as `KeyFound` looks for it, and
  the request that wrote the rest; there is one
  interface, since the handlers of different interfaces share nothing.

### What is assumed of the outside

These are marked external in `PROJECT.json` and modelled from how the code uses
them:

* A Keenetic router keeps a running and a startup configuration. A call has its
  effect or none, is answered 200 also when it is refused, may be lost, or done
  with the answer lost. A reboot, planned or not, returns to the startup
  configuration and ends all sessions. An import answers with the interface it
  created or with the one it intersects (that has the key already). An
  installation may leave out components.
* The router's owner has any interfaces, with any descriptions and keys; names are
  not empty after `sanitizeFilename` (`SlugNamed`), which the code ensures. At the
  start no peer of this router has a recorded interface (`Registries`).
* `awg-quick up` fails when the interface runs or the file is torn or has no
  key, `down` when it does not run or the name has no file. A killed `awg-quick`
  counts as a failure. `systemctl enable --now` and `disable --now` start or stop
  the unit if they can; the code does not look at the result, and the unit may
  already have been changed by `awg-quick`, so both outcomes are kept.
* `wg syncconf` sets port, key and peers and leaves the address.

## 3. Runs

| Run | Bounds | Distinct states | Shows |
|---|---|---|---|
| `peers_concurrent` | 2 requests at once, 3 in all, crashes unlimited, a /29 and a /30, 3 peers, no failing write | 3.8 M | `TypeOK`, `AddressesDistinct`, `StartupHeals` |
| `peers_serial` | 1 at a time, 3 in all, 1 failing write | 0.9 M | `QuiescentAgreement`, `RemoveKeepsNeighbours`, `AtomicRegistry` (refinement) |
| `settings` | 2 at once, 2 in all, 2 ports and port 0, a subnet and one that does not parse, 3 keys, 1 failing write | 0.7 M | `TypeOK`, `SavedPortRemembered`, `KeyKept`, `StartupApplies`, `RequestsAnswered` (liveness) |
| `dns` | 1 router, 2 workers, 3 requests, 1 fault | 0.6 M | `TypeOK`, `GroupsExact`, `BoundExact`, `StatusHonest`, `FlagReleased` (liveness) |
| `router` | 2 workers, 3 requests of which the first 2 may overlap, 1 fault, 2 peers, 3 names (two with one slug), 2 interface names and two of the owner's, one of them with a peer's key, 2 components, 2 upstreams, one shared with the owner | 3.9 M | `TypeOK`, `OwnerUntouched`, `TunnelsAgree`, `ImportSticks`, `DnsSticks`, `ComponentsHonest`, `StatusLive` |
| `router_tunnels` | 1 at a time, 3 in all, 1 fault; two peers with one slug from the start, or one peer elsewhere whose recorded name is also the owner's here | 1.9 M | `OwnerUntouched`, `TunnelsAgree` where names and domains meet |
| `web` | 2 workers, 3 requests, 1 fault, a clock of 4 instants, 2 passwords, 3 secrets, block after 2 attempts, 1 peer with 2 domains, 2 lifetimes, 1 change of reachability | 3.5 M | `TypeOK`, `PasswordKept`, `TokensKept`, `BlockEarned`, `AnswerHonest`, `CacheCleared` |
| `backup` | 2 at once, 3 requests, 1 fault (crash or failed write), 2 servers, one AmneziaWG interface | 3.3 M | `TypeOK`, `PasswordsReadable`, `RestoreSticks`, `AwgKeyKept`, `AwgSticks` |

The bounds are the smallest at which each hazard happens. Two requests suffice
for every race of a stale copy, since a third only repeats one of the two roles;
a third request in sequence finds what the two have left (the import after a
tunnel that was made and not recorded, an edit after a restore and a crash, a
backup after an edit), and each job has all its failures within one fault.

* `peers_concurrent` has no failing write, which would take it past what a run of
  minutes can check; the theorems allow any number.
* `peers_*`: the /30 has a single free host, so that a change of subnet runs out
  of addresses, and the /29 lets a renumbering reuse an address.
* `dns`: with two routers the job visits them one after the other and shares
  nothing between them; three requests then take too long, so that the run has
  one.
* `router`: two interface names are enough for each peer to have one and for a
  freed name to be given to the other; two names with one slug make two peers
  claim one description. `MaxBurst` keeps the third request from overlapping
  with the other two. Reboots for components are not counted as faults.
* `router_tunnels` starts where `router` gets only by a rename or an edit of the
  domain, so that three requests remain for what these do to an import and a
  removal.
* `web`: the clock outlasts a token (2 ticks), a block (2), both lifetimes of an
  entry (2 and 3, against 1 for a failed check) and a check (1). The lifetime
  is the longer one at first, so that one save shortens it under an entry; a
  router that changes once is enough for an entry to be out of date. The workers
  are symmetric here, in `router` and in `backup`.
* `backup`: two servers give archives with the own and with a foreign key; eight
  keys are two for each server and those a start makes anew when a file is torn.

Runs that say `CHECK_DEADLOCK FALSE` have bounded requests and faults, and with
both used up the system has nothing left to do.

Fairness: `ServerConfig` and `DnsApply` assume weak fairness of the steps of a
request or job that has begun, since the Go scheduler runs every runnable
goroutine, every external command is under `execWithTimeout`, and the HTTP
client has a timeout. Nothing makes a request
arrive, and nothing makes the body of a request to apply arrive either: the
server has no read timeout, so that `BodyRead` and `ApplyRefused` have no
fairness and `FlagReleased` speaks of the flag once the body is there. The other
handlers decode their bodies before they touch any state. `sync.Mutex` is weakly
fair here because the number of requests is finite. `PeerStore`, `RouterJobs`,
`Web` and `Backup` state safety only: their handlers wait for nothing but the
commands and calls just named, so that an end of each follows from its length;
that a job never *leaves its status file running* is the safety property
`StatusLive`.

### What the properties leave open

Several properties except a case in which the code does not do what one would
wish. The exception is in the property's definition, so that TLC shows it is the
only one, and it is a finding or the note of a hazard:

* `TunnelsAgree` speaks of tunnel requests that came one at a time with all their
  calls and writes done: two jobs for one peer may leave two interfaces or none.
  It also excepts an edit of a peer's name or domain, after which the description
  or the recorded name is an old one, and an import that removed an interface
  which had its peer's slug and was not its tunnel: another peer's, or the
  owner's. The run `router_tunnels` is about these.
* `OwnerUntouched` excepts an interface described like a peer or with the key of
  one, which the import finds by description and by key (`Claimable`); one whose
  name another router has given to a tunnel (`strays`), which `removePeerVpn`
  removes here after the domain was changed; and an upstream whose address is one
  of the server's.
* `StartupApplies` and `StartupHeals` except a stored subnet that does not parse
  and a start that failed to write: main() logs both and goes on. wg0 is then on
  the port and key of the old `wg0.conf`, which `StartupApplies` does show.
* `SavedPortRemembered` says nothing from a save whose `Encode` failed after the
  truncation to the next that goes through; `QuiescentAgreement` nothing from a
  failed write to the next start; `KeyKept` nothing of a key file after a start
  that failed to write it back, and nothing at all once a second key was made.
* `FlagReleased` excepts a job whose request body is awaited; `GroupsExact` routes
  two of which have one slug, so that the later deletes the chunks of the earlier.
* `CacheCleared` excepts a check under way while the peer is removed, a peer
  dropped by a posted list, and a removal that could not be written;
  `PasswordKept` two changes that met or a write that was cut off;
  `TokensKept` a secret that could not be written.
* `StatusLive` excepts a process that died with work under way: no start looks
  at the status files.
* `AwgKeyKept` excepts requests that met or were cut off, and a save of a file in
  which the code finds no key, after which the placeholder key may stay for good;
  `AwgSticks` a restore over an interface that runs, and a request that failed
  halfway.
* `PasswordsReadable` and `RestoreSticks` speak of restores that were not cut
  off; `BoundExact` of jobs before which nothing failed.

### Where the code and its documents differ

Each is a run that TLC ends with a counterexample, or an observation with the
lines; quotations are in `PROJECT.json`.

| Run | What happens |
|---|---|
| `peers_neighbours` | an addition between `wg showconf` and `wg syncconf` of a removal is dropped from `wg0` |
| `settings_port` | after a restart of the process peers' configs name port 51820, whatever is stored |
| `settings_subnet` | a crash before the restart of `wg0` leaves the old address for good |
| `backup_password` | after a foreign restore the next edit seals the passwords with the old key |
| (none) | `main.go:839`: saving the WireGuard form, which posts no server name, erases the stored one |
| (none) | `backup.go:159`: a restore that is cut off leaves the default config beside the peers of before |
| (none) | `backup.go:48`: a backup made while a peer is saved stores an empty list |
| (none) | `router_info.go:167`: a check under way when its peer goes puts an entry in for it |
| (none) | a backup lacks `dns-routes.json` |
| (none) | `router_vpn.go:206`: the orphan a comment promises to adopt never is; adopting one could take the owner's interface |
| (none) | `backup.go:190`: `awg-quick down` is given a file name, so a running interface stays as it was |
| (none) | `main.go:2481`: an import whose `awg-quick up` fails deletes the file, also one that was there before |
| (none) | `backup.go:203`: a restore installs AmneziaWG files an earlier restore unpacked |
| (none) | `dns_routing.go:351`: a client that stalls its body keeps `dnsApplyRunning` |
| (none) | `main.go:3073`: a key written `PrivateKey=` is imported, and lost in the first save |
| (none) | `router_vpn.go:132`: two names with one slug, and the import for one peer removes the tunnel of the other |
| (none) | `main.go:1149`: after a change of the domain the recorded name is removed on the wrong router |
| (none) | `router_dns.go:30`: the owner's upstream with an address of the server's is deleted |

## 4. Proofs

TLAPS checks these for any number of workers, requests and faults, and any sets
of values that satisfy the named assumptions of the modules. TLC checked each
inductive invariant on the run's instance first. Every safety invariant and
action property of the passing runs is one of them.

| Theorem | Statement |
|---|---|
| `PeerStoreProofs!TypeCorrect`, `AddressesNeverClash`, `StartupAlwaysHeals` | `TypeOK`, `AddressesDistinct`, `StartupHeals` |
| `PeerStoreProofs!AgreementAtRest`, `RemovalTouchesNoNeighbour`, `StoreIsARegistry` | `QuiescentAgreement`, `RemoveKeepsNeighbours`, and the refinement `AtomicRegistry`, with requests one at a time |
| `ServerProofs!TypeCorrect`, `PortAlwaysRemembered`, `StartupAlwaysApplies`, `KeyAlwaysKept` | `TypeOK`, `SavedPortRemembered`, `StartupApplies`, `KeyKept` |
| `DnsProofs!TypesKept`, `StatusAlwaysHonest`, `OneJobAtATime` | `TypeOK`, `StatusHonest`; at most one job between taking and releasing the flag |
| `DnsProofs!GroupsAlwaysExact`, `BoundAlwaysExact` | `GroupsExact`, `BoundExact` |
| `RouterProofs!OwnerNeverTouched`, `StatusAlwaysLive` | `OwnerUntouched`, `StatusLive` |
| `RouterTunnelProofs!TypesKept`, `ComponentsAlwaysHonest`, `DnsAlwaysSticks`, `ImportAlwaysSticks` | `TypeOK`, `ComponentsHonest`, `DnsSticks`, `ImportSticks` |
| `RouterTunnelProofs!TunnelsAlwaysAgree` | `TunnelsAgree` |
| `WebProofs!TypesKept`, `PasswordAlwaysKept`, `TokensAlwaysKept`, `BlockAlwaysEarned`, `AnswersAlwaysHonest`, `CacheAlwaysCleared` | `TypeOK`, `PasswordKept`, `TokensKept`, `BlockEarned`, `AnswerHonest`, `CacheCleared` |
| `BackupProofs!TypesKept`, `PasswordsAlwaysReadable`, `RestoreAlwaysSticks` | `TypeOK`, `PasswordsReadable`, `RestoreSticks` |
| `AwgProofs!AwgKeyAlwaysKept`, `AwgAlwaysSticks` | `AwgKeyKept`, `AwgSticks` |

One hypothesis is stated in theorems, because the property is false without it
and the code does not enforce it: `OneWorker` (the last three of
`PeerStoreProofs`). The handlers take no lock, so two requests at once may leave
file and interface apart. The run `peers_neighbours` is the counterexample;
`peers_serial` satisfies the hypothesis. What the other properties except is in
their definitions and listed in section 3.

The assumptions of the modules are about the values the constants stand for. The
bounds are numbers. A truncated file is not a list of peers, an AmneziaWG
configuration or a key (`TornAssumption`, `TornApart`, `SentinelAssumption`,
`AmneziaAssumption`, `BackupAssumption`). The group names the server gives are
finitely many and none is among those of the owner (`NamesAssumption`). The
tokens a browser may have from an earlier process were signed with that
process's secret (`AuthValues`). `VpnInstance`, `Registries`, `SlugNamed`, `RouterNames` and
`CachedPeers` are explained in section 2 and in the modules. TLC evaluates each
on a run.

None of these properties is inductive alone. What each argument adds:

* **`PeerStoreProofs`**. `IInv` is `StoreOK` (types and distinct addresses of the
  file, the browser's copy and `wg0.conf`) with `LocalsOK` (the same for the copy
  of every request, with what its position promises about the other locals).
  Each copy is distinct for itself, so it does not matter which one is written
  last; `NextAvailableIP` is the lemma that keeps a copy distinct when a peer is
  added or moved. `StartupHeals` needs only the order of the steps of `main()`.
  `SInv` is for the single request: what its copy differs in from the file, and
  what `wg0.conf` and the interface differ in from both, at each position of each
  handler and of `main()`; at rest nothing is left of the differences. The
  refinement maps the registry to the list being written while the file is empty,
  so that a request takes effect when it truncates the file. `TruncStores` shows
  that this step is an edit of the registry, the other steps stutter, and a crash
  between truncating and writing is `Lose`.
* **`ServerProofs`**. `TypeInv` is `TypeOK` (with the lock held exactly at the
  three positions inside it) and the types of the locals. `PortInv` adds what a
  save has promised at each position inside the lock, above all that a save of
  the general form holds a configuration whose port is already the one in
  memory. All of it is said only while no write of `config.json` has broken off
  (`saved`). `StartInv` says that `wg0.conf` has the port of `main()`'s copy of the
  config by the time `main()` reaches the interface, unless the subnet does not
  parse or a write of this start failed. `KeyInv` adds the text a request has read
  from `wg showconf`, which it will write back, and the positions of `main()` at
  which the key file may be empty.
* **`DnsProofs`**. `JobInv`: a request is in a job exactly when the flag is taken,
  at most one is, and the status is then not "completed". It follows from the
  compare-and-swap. `TypeInv` adds that every router has the groups of its owner,
  untouched, and besides them only chunks of routes. The plan of calls is a
  concatenation of sequences (`FlattenSeq`, `SetToSeq`) of any length. What is in
  it and in which order is settled without induction over sequences: `Address`
  gives the place of each entry in the concatenation, by the least place for which
  that would fail. `PlanOK` is what follows for the plan of
  `keeneticApplyDnsRoutes`: every chunk found on the router is deleted, a deleted
  one is unbound later, a chunk is bound after it was created, and, when no two
  routes have one slug, no chunk is deleted after it was made. `GroupsInv` then
  says of a job at any call that each chunk the routes ask for is still to be
  created or there with exactly its piece, and that every other chunk is gone or
  still to be deleted. `BoundInv` says the same of the bindings, with `RestInv`:
  as long as nothing failed, a router at rest routes only groups that exist.
* **`RouterProofs`**. `IInv`: both configurations respect the owner, every name a
  worker holds, reads in `peers.json` or is about to remove is one the router
  gave, and the upstreams about to be deleted are the server's. The lemmas
  `SetIfRespects` and its like reduce a call to what it makes, done or ignored
  or lost. `LiveInv` adds that a worker with a tunnel request is at a label of
  `RouterVpn`. The interfaces it keeps are those an import cannot
  take for a peer's (`Claimable`, by description or key) and whose name no other
  router gave (`strays`), and of the upstreams those with an address of their own:
  the rest the code does remove.
* **`RouterTunnelProofs`**. `ControlOK` and `HistoryOK`: which request is at which
  label, and what `alone`, `upset` and `settled` imply about the others.
  `FirmwareOK` and `CompInv`: from the installation to the verification, every
  component the router lacks is among those the job is waiting for, and nothing
  takes a component away.
  `DnsInv`: at each call of an undisturbed request, the part of the promise it has
  made is in the running configuration, and after the save in the startup one too.
  `Stations` gives the shape of an import at each of its positions, and
  `ImportInv` what an undisturbed one has done so far: the name it holds is the
  interface with the peer's key, with the settings of the steps done. `AgreeInv`:
  apart from the peer being worked on, every tunnel of both configurations
  carries the description of its peer and no peer has two, and every recorded
  name is there; of the peer being worked on, what its position says. An import
  then finds under the peer's description the peer's own tunnel or none; one that
  would remove something else (`TakesOther`) sets `upset`, after which the property
  says nothing. That takes two names with one slug or an interface the owner
  described so, and no assumption rules it out.
* **`WebProofs`**. `Shape`: no request runs before `main()` has ended.
  `PasswordInv`: between the change in memory and the one on disk exactly one
  worker changes, and holds the password in force. `TokenInv`: a secret is made
  only when the file has none, and then there are no tokens of another.
  `BlockInv`: every count, stored or about to be, stands for wrong attempts.
  `CacheInv`: a check under way is about a peer that exists or is excepted.
  The type invariant needs a bound on the unlocked counter (`AttemptsInv`: the
  stored count and the logins that have yet to add to it never exceed the requests
  there were). `HonestInv`: an entry, and the result of a check that has yet to
  store it, was true of a domain the peer had, at a time no earlier than its
  stamp less the ticks of a check; expiry and the change of the lifetime keep it.
* **`BackupProofs`**. `PosOK`: one restore at a time, at a position its handler
  has. `KeyInv`: on a server that has seen only its own archives, file, memory
  and every archive have the one key, and every password and every copy of one
  is sealed once with it. `StuckInv`: while a restore is alone, the files before
  its position are those of the archive, and after it the files are the
  archive's until the next edit. `KeyRead`: after the restart the key in memory
  is the archive's. The lemma `Opened` shows that what is
  sealed once with the key in memory is opened by it. `TypeInv` gives every file,
  archive and local its type and bounds how often a password can be sealed
  (`PeersOK`): a second seal is put on it only after the key in memory changed
  under a list, which takes a crash or the one foreign archive (`Grows`).
* **`AwgProofs`**. `AwgInv`: as long as nothing odd has happened, one request
  about the interface is at work and no copy of the configuration (file,
  archive, request, unpacked file) has the placeholder key past the step that
  replaces it. `SticksOK`: the request that no other has met, at each of its
  positions, has left file, interface and autostart in the state from which its
  remaining steps reach the one asked for.

Checked by TLC only: liveness (`RequestsAnswered`, `FlagReleased`), which needs
ENABLED and is out of TLAPS's reach, and that each run's bounds make every action
happen. The counterexamples of section 3 are TLC's as well.

## 5. Not modelled, and why

* Code that is never called: `ensureComponent`, `tryDirectComponentLookup` and
  what only they use (`router_components.go`), `keeneticRenameInterface`.
* The traffic history of AmneziaWG and the statistics of peers: numbers that are
  sampled, shown and not acted on. The installation script and its status: it
  runs a shell script and copies its output to a log.
* Parsing and rendering of configurations, of router answers and of `wg` dumps;
  the digest login; TLS; ufw rules. They are data transformations or I/O, and
  the models keep their outcomes.
* `getPeerRouterInfo` and the other handlers that only read and answer.
* The web interface. Which fields its forms post is used in `ServerConfig` (no
  server name), `PeerStore` (a stale list) and `Amnezia` (no private key).
* Logs, presets, the Makefile and the unit file; systemd's `Restart` is the
  source of the restarts in the models.

## 6. What is left

In the order in which it would add most:

1. Abstract specifications of more components, as `PeerRegistry` is of
   `PeerStore`: a session with a router as a sequence of whole changes, and the
   apply job as one replacement of the groups of a router.
2. Weaker hypotheses for the theorems with `OneWorker`: which pairs of handlers
   may overlap without harm.
3. Two routers in `DnsApply` and `Components`, to see one status file over jobs
   of two peers; with three requests beyond what a run of minutes can check. The
   theorems of `DnsProofs` hold for any number of routers.
