# netfilterd: TLA+ specifications and proofs

netfilterd turns a Raspberry Pi into a filtering hotspot. A Go daemon keeps its
configuration in SQLite, serves a web UI, and turns the tables into an nftables
ruleset, dnsmasq configuration and tc classes. This directory holds the
specifications of the parts of the daemon in which order, failure and
concurrency decide whether what the user was told is what the system enforces.

Contents: [the system](#the-system), [modules](#modules), [what the runs
check](#runs), [fairness](#fairness), [what is proved](#proofs),
[disagreements found](#disagreements), [assumptions and what is left
out](#assumptions-and-what-is-left-out), [not modelled](#not-modelled),
[plan](#plan).

## The system

### How it runs

`net/http` serves every request on a goroutine of its own. The main goroutine
applies everything once (`Services.ApplyAll`) and then starts the server; three
more goroutines refresh the allow lists' addresses (every 6 hours), tail the
kernel log and scan devices (every 30 s). The database pool holds **one**
connection (`database.go:16`), so a statement is atomic, and a handler that runs
two statements can have any other handler's statement between them. A handler
that changes a table then calls a service's `Apply`, which reads the tables,
writes a file and runs a command. Each `Apply` has a mutex per service; the
tables are written without it. Commands run through `Executor.Run` with a 30 s
limit. There is no graceful shutdown: the daemon ends at any step, and systemd
starts it again (`Restart=always`).

### Components

| component | state | operations | hard part | correct when |
|---|---|---|---|---|
| configuration tables (`services/firewall.go`, `policy.go`, `network.go`) | `firewall_rules`, `devices`, `policies`, `policy_allowed_domains`, `device_policies` | one SQL statement per method, cascades by foreign key | any two handlers interleave between statements | no row refers to a policy that is gone |
| firewall (`FirewallService.Apply`) | `/etc/nftables.conf`, kernel ruleset and sets, `netfilter-nftsets.conf`, dnsmasq's directives | read 4 tables and n lists, write, `nft -f`, write, reload | tables change during the reads; any step fails, or a read ends short unnoticed; dnsmasq and clients fill sets meanwhile | what an answered change removed stays removed, and what it added is there unless a read ended short or a file was cut; nothing goes back |
| allow-list resolution (`PolicyService.ResolveDomain`, `StartRefreshLoop`) | `resolved_ips` | lookup, store | lookup answers late, row deleted meanwhile | allowed domain's set is never empty once it was resolved |
| block lists (`services/blocked.go`, `dns.go`) | `blocked_domains`, `dns_blocklist`, `blocklist.conf`, dnsmasq | guard `IsBlocked`, `DNSService.Apply`, import | guard and insert are two statements; a failed or shortened read is swallowed | a block answered with success is sunk while the file is complete; only a later block gets round the guard |
| migrations (`database/migrations.go`) | `schema_version` and all tables | ten transactions | interruption between two, failure, upgrade over users' data | the daemon serves a complete schema, replays nothing, loses no row |
| start-up (`cmd/netfilterd/main.go`, `services.go`) | none | open, migrate, `ApplyAll`, serve | crash anywhere | start-up's Apply repairs what a crash cut short |
| forward chains (`FirewallService.generateConfig`) | the ruleset's chains and sets | one decision per packet | four lists, three modes and one shared default chain decide together | a packet is treated as the table of modes in the repository's README says |
| traffic log (`services/trafficlog.go`) | `query_log`, cursor in `kv_store`, last-save time | tail the journal, insert, save the cursor every 5 s, clear, pages | crash between insert and save; stream ends and restarts; rows go while pages are counted | every entry logged, repeated only by a crash or a failing statement; every row on one page |
| login (`handlers/auth.go`, `services/auth.go`) | buckets per key of a request, sessions, the hash | check, compare, insert, record; log out, change the password | check and record are separate critical sections around bcrypt | a bound on failures per window; a lockout holds and ends; no session by an old password |
| bandwidth (`services/bandwidth.go`) | `bandwidth_limits`, tc's qdiscs, classes and filters | change a limit, apply | tc keeps what was not cleared, and refuses what exists; failing commands are ignored | an address is held to the limits that were set up for it and to nothing else |
| device scan (`services/network.go`) | `devices.ip_address` | leases and ARP, one upsert per device | devices change addresses while limits are applied | the table ends with the true addresses |
| hotspot and settings | `settings`, hostapd and dnsmasq files | write, restart | settings start a DNS Apply too | file says what the settings say |
| executor | none | run with limit | effect may have happened although the call fails | callers tolerate both |
| validation, process configuration, audit, system information, dashboard, rendering, scripts | | | none that another part depends on | |

How they interact: handlers call services synchronously, except `devices.go:61`
and `settings.go:82-85`, which start `Apply` on a goroutine and answer at once.
`FirewallService.Apply`
and `DNSService.Apply` share one resource, dnsmasq: each writes its own file and
each reload reads both. `PolicyService.ResolveDomain` asks dnsmasq, whose answer
has the side effect of filling the kernel's sets. `PolicyService.CreateDomain`
asks `BlockedService.IsBlocked`. `BandwidthService.Apply` takes each device's address
from the table the scanner writes.

The hazards, each at its line, are listed in `PROJECT.json` with the properties
that cover them, or the reason none does.

## Modules

### `ConfigStore`

The five tables, and each service method as an operator from a database to a
database (`CreatePolicyIn`, `DeletePolicyIn`, ...). The one thing the statements
do beyond setting a row is modelled by what SQLite does: UPDATE and DELETE of a
missing row have no effect, an upsert keeps `resolved_ips`, and ON DELETE CASCADE
empties the allow list and the assignments of a deleted policy. Rules, devices,
policies and domains are model values. The addresses of a domain are the domain
itself.

### `FirewallApply`

Composes `ConfigStore` with the handlers, `Apply`, the resolver, dnsmasq, clients
and restarts.

* `Seeded` is the database the first start finds: a fresh install (two policies), or
  what is left when the second one has been deleted. `Init` is the moment
  `ApplyAll` reaches the firewall on a machine where nothing has been loaded yet;
  `serving` holds from the end of that Apply.
* `Commit` and the operators that use it are the handlers. Each ends in `"lock"`
  (synchronous Apply), `"lookup"` (`CreateDomain` resolves **before** Apply) or
  `"idle"` (`CreatePolicy` applies nothing). `AssignDevice`, `CreateDomain` and
  `DeletePolicy` carry their refusals as guards. `UpdateDevice` takes the address as
  the path parameter came: `encoded` says that the client percent-encoded it, and
  then it names no row.
* `LookupAnswered`/`LookupFailed`/`StoreResolved` are `ResolveDomain`; `RefreshAll`
  starts the loop's round. The lookup and the store are two steps, and the row may
  have gone in between.
* `Acquire` to `ReloadDnsmasq` are `Apply`, one action per query, file or command,
  in the code's order: rules, blocked devices, policies, the domains of each
  policy of *that* list (in any order), assignments, conf file, `nft -f`, nftset
  file, reload. `RulesetRejected` is nft refusing the file. `RuleLines` are the rules
  that have a line: the outbound ones (`Outbound`), and the forward ones (`Forward`)
  unless the default policy is open. Inbound rules, and rules whose fields the daemon
  itself does not accept, have none; they are the rules in neither set. A rule whose
  destination is a host name (`NamedRules`) is looked up while the file is
  generated, and left out when the lookup fails: `WriteConf` chooses which (`lost`).
* `ShortRules`, `ShortPolicies`, `ShortDomains` and `ShortAssignments` are reads whose
  rows stop coming before the last: the loops over the rows do not ask `rows.Err()`
  (`firewall.go:43-54`, `policy.go:51-60`, `163-173`, `348-356`), Apply goes on with what
  it has and returns nil. The copies carry which tables were read short (`short`), and
  a directives file that lacks a line is not `whole`. The loop over the blocked devices
  does ask, and has no such step.
* `ReadFails`, `WriteConfFails`, `LoadFails`, `WriteNftsetsFails`, `ReloadFails`
  are the error returns. A command that fails may have had its effect (the
  executor kills it at 30 s); a write that fails may leave a truncated file.
* `ClientQuery` is a client of the hotspot asking dnsmasq; `DNSReload` is the
  other service's reload; `Crash` loses the goroutines and keeps the database,
  the files, the kernel and dnsmasq.

`now`, `written`, `rowWritten`, `stamp` and `settled` are history variables: they
number the commits, remember which commit last touched each table and row, and
which commits have been answered with success. Each copy of the configuration
(snapshot, file, kernel, dnsmasq) carries `start`, the number of the moment its
reads began. No guard reads them, except the bound on `now`.

### `Forwarding`

Extends `FirewallApply` by what the generated chains decide about the first packet
of a connection that a device opens: the drop of blocked devices, the resolvers,
the vmap, the chain of a policy and the default chain, in the order of the lines
(`Accepts`), over any packet (`Packets`: a device, the names that resolve to the
destination, the forward rules that match, of which the first in the order of
priority decides: `FirstAccepts`, `Before`). `Accepting` are the rules whose action
is accept. Beside it stands the promise, over the tables and not the ruleset
(`MustAccept`, `MustDrop`). Packets of connections that are already open are
accepted by the chain's first line; the model says nothing of them.

### `Enforcement`

What applying promises: commits are numbered, each target runs a configuration
that reflects the commits up to some number and only moves forward, and nothing
is reported before every target has it. `FirewallApply!Abstract` is the
refinement mapping (`committed <- now`, `live <-` the `start` of kernel and
dnsmasq, `settled <- settled`).

### `Migrations`

`Migrate`'s loop and the ten migrations, over the tables as far as migrations
touch them. `ReadVersion` and `ReadVersionFails` are `SELECT MAX(version)`, whose
error is ignored and reads as 0; `MigrateNext` is one transaction with the row of
`schema_version` that records it; `MigrationRefused` and `TransactionFails` roll
back and end the daemon; `Upgrade` installs a release that ships more of the
list, between boots; the handlers change rows while a daemon serves. v6 seeds,
v8 deletes URL-encoded addresses, v9 rebuilds `policies` with foreign keys
enforced, v10 seeds again.

### `BlockList`

The two lists, the guard in front of the allow list, `DNSService.Apply` with its
own mutex, dnsmasq, and the allow list with its packet-filter set as far as blocks
meet it. `IsBlocked` is exact for exact rows and includes subdomains for suffix
rows; `Sunk` is what dnsmasq does with an `address=` line, which always includes
subdomains. `EnabledDomainsFails` is the error that is logged and swallowed
(`dns.go:175-178`): the file is written without the hard-blocked names, and the
copy is marked not `complete`. `FirewallService.Apply` is one step here.
`ReadListShort` and `EnabledDomainsFails` also stand for reads whose rows end early
(`rows.Err()` is not asked), and so does `CheckCutShort` for the guard, which then
answers that nothing is blocked. `fills` are the `nftset=` directives dnsmasq has read:
it fills the set only for the names they cover. `MaxFaults` counts failing steps, short
reads and crashes together.

### `TrafficTail`

`tailJournal`: `journalctl --follow` from the saved cursor (`Open`), or over the last
day when there is none or it cannot be read (`GetCursorFails`); one entry handed
over at a time (`Read`: `Insert`, `InsertFails` or `Ignore`; `Garbled` is a line that is
not JSON, passed over without its cursor); then the cursor saved
when the last save is more than five seconds ago (`SaveCursor`, `NotYet`: the clock
is not modelled, both are always possible) and once more when the stream ends.
Entries of the journal are numbered and a cursor is a number. `inserted` counts
the rows an entry has ever got and `present` those in the table; `Clear` empties the
table and leaves the cursor. `Pages`, `PageShown` and `QueryPaginated` are the
arithmetic of the log page, whose count is a query of its own (`counted`): rows may come
or go before the second query, and a count that fails is 0. Its search only changes which
rows are counted.

### `Login`

`AuthHandler.Login` step by step: `Begin` asks the throttle, `Decode` waits for the
body, `ReadUser` reads the hash and compares, `InsertSession` writes the row, and
`recordLoginFailure` or `recordLoginSuccess` tells the throttle. Every failing
query counts as a failure, as in the code. Sessions expire, are validated and
deleted; `ValidateSession` leads to `ChangePassword`, which hashes before it writes.
Time is relative (`Tick`): a bucket knows how long ago its first failure was, just
past the window at most, and how much of its lockout is left. Buckets are in memory
and go with a `Restart`; sessions are in the database and stay. A password is the
number of the change that set it. `matched`, `began` and `early` are history.

### `Bandwidth`

The handlers of `bandwidth_limits` and `BandwidthService.Apply`: one query is a step,
with the tc commands up to the next one (nobody else touches the qdiscs while the
mutex is held). tc is modelled by what it keeps: `AddClass` is refused without a root
qdisc, for a class that exists, for the number of the default class (`DefaultClass`, 999
in the code) and at rate 0 (`Accepts`); of an address's filters the first one added
wins (`AddFilter`). A request names a device by a text (`Macs`): the table has one row
for each text, and `AddrOf` looks the address up under the text in upper case (`Upper`), so
that two texts may limit one device. A failing command ends Apply only when it is one of
the two that set up the root; any other is passed over, and so is a list that ends short
(`ListShort`). `ScanMisses` is a round in which a file cannot be opened. `Clear` deletes
the two qdiscs of the LAN interface and not
the root of ifb0. `Scan` and `upsertDevice` are the scanner; `Renew` is a device that
gets another lease. `Crash` keeps the kernel's qdiscs, also when it comes
between two commands of one step (`Halfway`), and `Reboot` does not. `used` and `kept`
are history: the addresses to which the last Apply has held each limit, and what its two
`qdisc del` have failed to delete.

### `MC*`, `*_proofs`

`MCFirewallApply` (which extends `Forwarding`), `MCMigrations`, `MCBlockList`,
`MCTrafficTail`, `MCLogin` and `MCBandwidth` are the instances for TLC: model values,
symmetry of the request goroutines, initial tables. `FirewallApply_proofs`,
`FirewallQuiet_proofs` and `Forwarding_proofs` (which build on it), `BlockList_proofs`,
`Migrations_proofs`, `TrafficTail_proofs`, `Login_proofs` and `Bandwidth_proofs` hold the
proofs.

## Runs

| run | instance | shows |
|---|---|---|
| `firewall_tables` | the default policy and a rule, as an earlier release may leave them: 2 request goroutines, 3 rules (one to a host name, which nft rejects whenever the name resolves, and two that may match one packet, of which one accepts and one drops), 1 device, a policy yet to be created, all three modes, 1 domain with resolver, clients and refresh loop; 2 changes (start-up's tables count as the first; two requests may commit at once), 1 failure or short read and a crash after it, or a crash | `SettledIsLive`, `SettledIsPopulated`, `SettledIsEnforced`, `QuietIsApplied`, `NeverOlder`, `ImplementsEnforcement` |
| `firewall_live` | a fresh install: 2 request goroutines, 1 device, 2 strict policies, 1 domain with resolver, clients and refresh loop; 2 changes, no failure, 1 crash; with fairness | `TypeOK`, `IntegrityInv`, `SettledIsLive`, `SettledIsEnforced`, `QuietIsApplied`, `EveryRequestEnds`, `Converges` |
| `firewall_flush` | one policy, one domain, one request at a time, 3 changes | **violated**: `DeletedIsFlushed` |
| `firewall_block` | one device, one request at a time, 3 changes | **violated**: `BlockTakesEffect` |
| `migrations_boot` | any two releases, one created policy, two devices, one stored encoded; 2 changes, 1 failure, 2 stops; with fairness | `TypeOK`, `ServesComplete`, `NeverReplayed`, `PoliciesSurvive`, `EventuallyServes` |
| `migrations_wiped` | no user changes at all, 2 stops | **violated**: `RowsSurvive` |
| `blocklist_sink` | a name that can be blocked and its subdomain that can be allowed, 2 request goroutines; 2 changes, 1 failure, short read or crash; with fairness | `TypeOK`, `SettledIsSunk`, `QuietIsApplied`, `NeverOlder`, `OnlyOutrun`, `ImplementsEnforcement`, `SinkConverges` |
| `blocklist_reach` | two names, both can be blocked and allowed; 2 changes | **violated**: `NeverReachable` |
| `traffic_follow` | 3 journal entries, one of them not the firewall's; 2 ends of the stream, 2 failing statements, 2 crashes, the log cleared at any time; with fairness | `TypeOK`, `NothingSkipped`, `RepeatsAreCounted`, `PagesShowEverything`, `EventuallyLogged` |
| `login_throttle` | 3 requests that carry one key, 3 tokens, lockout at the second failure, a window of 1 and a lockout of 2; 1 change of the password, restarts at any time; with fairness | `TypeOK`, `FailuresBounded`, `NoStaleLogin`, `LockoutHolds`, `LockoutEnds` |
| `bandwidth_shape` | 2 devices, 2 addresses, limits of two rates and one that is switched off, 2 request goroutines; 2 changes, 2 leases, 1 failing query or command, short read, crash or reboot; with fairness | `TypeOK`, `SettledIsShaped`, `UnlimitedWithoutLimits`, `AddressesConverge`, `ApplyReturns` |
| `bandwidth_upload` | also a limit for downloads only; 1 lease, no failure | **violated**: `UploadIsShaped` |

The large runs reach between half a million and two million distinct states
each, in one to three minutes.

What the properties say:

* `SettledIsLive`: for each table and row whose last change belongs to an Apply that
  returned nil or came before one that did, kernel and dnsmasq say **nothing but** what
  the tables say, and drop every blocked device. It is the answer to "the handler said
  200; is it enforced, and does it stay so, whatever other requests, failures and
  crashes do afterwards?" for everything a change takes away. For what a change adds the
  answer has two exceptions, which the code makes and the property names. (1) A table
  whose rows stopped coming while Apply read it lacks the missed rows (`short`), and the
  Apply was a success all the same. (2) A directives file that a failed write or a crash
  has cut short lacks lines (`~whole`), and the block lists' reload makes dnsmasq read
  it (`firewall.go:385`, `dns.go:200`): settled directives are gone until the next Apply
  that gets through. A rule to a host name may be missing too: the code leaves it out
  when the lookup fails.
* `SettledIsPopulated`: an allowed and resolved domain whose change is settled has
  its addresses in the kernel's set, through every later `flush ruleset`, unless the
  ruleset comes of a short read of the policies or their domains.
* `SettledIsEnforced`: when every table is settled, the chains in the kernel decide
  about every packet as the repository's README promises: a blocked device and a
  known resolver get nothing; a settled, enabled and resolved row of the policy's
  allow list gets through; the mode decides the rest; a permissive policy falls
  through to the default one and no other does; the global rules count there only, and
  of those that match a packet the first in the order of priority decides. After a read
  that ended short only the first sentence is promised: nothing for a blocked device or
  to a resolver.
  Addresses in the set that the allow list no longer has are left open (they are
  `DeletedIsFlushed`), and so is a rule to a host name.
* `NeverOlder`: no target ever gets a configuration generated from older tables
  than the one it runs. It is what the mutex is for: without it (the mutant
  `AcquireUnlocked`) an Apply that read early loads last.
* `IntegrityInv`: the foreign keys hold in every interleaving.
* `ImplementsEnforcement`: every behaviour is one of `Enforcement`.
* `Converges`: when changes stop and no step fails, kernel and
  dnsmasq end up with the tables. A change is applied by its own handler or by a
  later one; a crash is repaired by start-up's Apply. `CreatePolicy` applies
  nothing, so `Converges` lets a policy be without a chain, and nothing else.
* `QuietIsApplied`: the safety half of `Converges`. Whenever no goroutine is in a request
  or in Apply, kernel and dnsmasq run what the tables say, unless a step has failed or an
  enabled rule is one that nft rejects. Every state in between is excused only by
  somebody who is still to apply: an Apply that was overtaken, one that nft refused for a
  snapshot torn by others' commits, one that died with the daemon. An Apply that gives up
  because another is running (the mutant `AcquireOrSkip`, a `TryLock`) breaks it, although
  that other one may have read the tables before the change.
* `EveryRequestEnds`: once the changes end every goroutine comes back from its Apply,
  for good: no return leaves the mutex locked, and nobody waits for it for ever.
* `ServesComplete`, `NeverReplayed`, `PoliciesSurvive`, `EventuallyServes`: a daemon
  that serves has exactly its release's schema; a recorded migration never
  touches the tables again, even when the version read failed and the loop starts
  at 1 (the primary key of `schema_version` refuses it); no policy is lost; and no
  interruption leaves a database on which Migrate can only fail.
* `SettledIsSunk`: a block or an unblock answered with success is what dnsmasq
  runs, as long as it runs a complete file: none of its reads failed or ended early, and
  its write was not cut short.
* `NeverOlder` (of `BlockList`): dnsmasq never goes back to older lists.
* `QuietIsApplied` (of `BlockList`): whenever nobody is in `DNSService.Apply` or waits for
  it, dnsmasq sinks exactly the names of the two lists, unless a step has failed; also when
  a crash has cut the file short, and the firewall has made dnsmasq read it so.
* `ImplementsEnforcement` (of `BlockList`): every behaviour is one of `Enforcement` with
  dnsmasq as its one target. It is about order and report only; a file that was generated
  without the hard-blocked names also counts as the newer one, and `SettledIsSunk` is
  what tells the two apart.
* `SinkConverges`: when changes end, dnsmasq runs the lists, unless a step has failed.
* `OnlyOutrun`: the guard is got round only by a block that comes after its
  question, or by a read of its own that ended early.
* `NothingSkipped`: whatever the tail has saved as its cursor, every entry up to it
  has had its INSERT, or was too old for a stream that began without a cursor. It
  relates the cursor to the table, through crashes at every step.
* `RepeatsAreCounted`: an entry has at most one row more per crash or failing
  statement. A stream that ends by itself repeats nothing.
* `EventuallyLogged`: every entry in the journal gets its INSERT, unless it is too old
  for a stream that began without a cursor.
* `PagesShowEverything`: every row is on exactly one page, and any page number, also one
  that is too large after the log was cleared, shows a page. None is empty, however many
  rows have come since they were counted; a Clear between the two queries can leave one so.
* `FailuresBounded`: check and record are two critical sections with the comparison
  between them, so five failures per window is not what the code keeps. It keeps
  this: the failures that lock, and one for each other request under way.
* `LockoutHolds`: a lockout ends before its time only by a restart, or by a request
  that was under way when it began. Both other ways would need a bucket that is
  replaced or deleted by somebody who came later: the check refuses them, and a
  lockout is longer than the window.
* `LockoutEnds`: nobody, refused or under way, can keep a lockout alive for ever.
* `NoStaleLogin`: a session's password is at least as new as the one that was valid
  when its login began.
* `SettledIsShaped`: once the last change is answered with success, and no Apply since
  has returned an error or is under way, the downloads of each address are held to the
  first enabled limit that the last Apply has set up for it (`used`), at its rate of now,
  and otherwise to none. The code ignores the errors of most of its commands
  (`bandwidth.go:136-144`) and of a list that ends short, so a success does not say
  that every limit was set up: one that was passed over is not `used`. Nothing else is
  exempted but two cases: the root qdisc could not be deleted (`kept`), and as many
  enabled limits as the default class's number: the class of the 999th
  cannot be added, the refusal is only logged, and that device stays unlimited.
* `UnlimitedWithoutLimits`: with no limit enabled nothing is shaped, although ifb0 keeps
  its classes, in each direction whose `qdisc del` has not failed on the last Apply. When
  it has, Apply answers success and the LAN stays limited (`bandwidth.go:95-96`); the
  property says so (`kept`), and nothing in this project says that it does not happen.
* `AddressesConverge`, `ApplyReturns`: a device that stays ends up in the table with
  its address; every Apply of a committed change comes back.

Each property has a mutant in `PROJECT.json`: an operator named for the bug
("seeded fault" in its comment), which TLC must find.

### Bounds, and why they are enough

`MaxChanges` bounds the commits: no request starts when `now > MaxChanges`, and
`now` starts at 1 (the tables start-up applies), so `MaxChanges = 2` gives two user
commits on top of the seeded tables (three for `firewall_flush` and
`firewall_block`, which have one request at a time). Two commits by two goroutines, with start-up's
and the refresh loop's goroutines, are enough for every pair of Applies to overlap in
every order, for a commit in the middle of another's reads, for a failure or crash of
the first followed by the second's success. In `FirewallApply`, nothing fails once
failures and crashes together have reached `MaxFaults`, and a crash can always come
after a failure: `MaxFaults = 1` and `MaxCrashes = 1` give every single failure or short
read at every step, with a crash anywhere behind it, and one crash at every step; the
theorems need no bound. One case needs a third change: a snapshot that nft refuses
because a policy was
created and assigned between its reads, by commits of two others. The runs leave it to the
theorems of `FirewallQuiet_proofs`, whose case it is (`RejectedIsOwed`). What tells rules
apart is whether nft accepts them, whether they may be left out, what they do and where
they stand in the order: one that nft rejects, and two forward rules that may match the
same packet, of which one accepts and one drops. The instance with failures has one policy to
create, to assign, to fill and to delete, and the one without has two that are there
from the start. In `Migrations`, two stops and one failure give an
interrupted boot, an interrupted repeat and an upgrade. In `TrafficTail` a stream can
hold an entry before, at and after the one that is not the firewall's, and every pair
of ends, failures and crashes can fall on it; the table holds ten rows at most, and
page sizes 1 to 3 divide their number or do not. In `Login`, the second failure locks, so
that three requests under way together can pass the check, lock the key, and
record one failure more, one of them past the window; buckets of two keys share
nothing, and one is enough. `Tokens` bounds sessions and logins under way together.
In `Bandwidth`, a device can move to another address or two have one each, two commits
make a limit change its place among the rows, two rates and a limit switched off let one
be changed, and one fault at every step leaves every part of a tree behind. The instance
writes each device in one way (`AsWritten`); the theorems are for any texts.
`DefaultClass` is 999 there, as in the code, and out of reach of two limits; the
theorems are for any number.

`CHECK_DEADLOCK FALSE` appears where a system whose bounds are used up has nothing
left to do: in `Migrations` (a serving daemon of the last release), in `TrafficTail`
(everything read, no entry left to log) and in `Bandwidth` (no change and no lease to
come, nobody in range to scan). The other models always have client queries, reloads
or ticks to do.

## Fairness

* `WF_vars(ApplyStep(p))`, `WF_vars(Resolve(p))`, `WF_vars(Continue(p))`: a
  goroutine that can run runs (the Go scheduler), a command ends within the
  executor's limit, and a lookup ends (its context has a timeout). Weak fairness
  on `Acquire` is enough because contention is bounded by the number of requests
  and `sync.Mutex` hands the lock to a waiter that starves.
* `WF_vars(Boot)`: `Restart=always` in the service unit.
* `WF_vars(Tail)`: the tail's goroutine runs, `journalctl --follow` hands over what
  is there, and the loop starts it again when it ends.
* `WF_vars(ApplyStep(p))` in `Bandwidth`, `WF_vars(Continue(p))` in `BlockList`: as
  above, for their Applies.
* `WF_vars(Scanner)`: the scanner has its round every 30 s, and finishes it.
* `WF_vars(Tick)`: time passes. A login takes as long as it likes: its body comes at
  the client's pace, so there is no fairness on its steps.
* No fairness on requests, crashes, failures, client queries, reloads by the other
  service, or the refresh loop's rounds: nobody has to make them happen.

## Proofs

Everything below holds for every value of the constants: any numbers of rows,
goroutines, changes, failures and crashes. Each module rests on the named assumptions
of the modules it extends and on nothing else.

| module | assumptions | theorems |
|---|---|---|
| `FirewallApply_proofs` | `ConfigAssumption` (the default policy and the modes there are), `ProcAssumption` (goroutines are distinct, seeded tables respect the foreign keys, bounds are numbers) | `Invariance`, `TypeCorrect`, `ForeignKeysHold`, `SettledChangesAreLive`, `SettledDomainsArePopulated`, `OnlyForward`, `Refinement` |
| `FirewallQuiet_proofs` | the same | `QuietInvariance`, `NothingIsForgotten` |
| `Forwarding_proofs` | the same, `RuleAssumption` (rules have an order) | `PoliciesEnforced` |
| `BlockList_proofs` | `BlockListAssumption` (goroutines are distinct, what can be blocked or allowed are names) | `BlockListInvariance`, `TypeCorrect`, `SettledAreSunk`, `NeverGoesBack`, `Refinement`, `SinkQuietInvariance`, `NoBlockIsForgotten`, `GuardIsOnlyOutrun` |
| `Migrations_proofs` | `MigrationsAssumption` (the seeds are distinct) | `MigrationsInvariance`, `TypeCorrect`, `ServingIsComplete`, `NothingReplayed`, `BootsKeepPolicies` |
| `TrafficTail_proofs` | `TailAssumption` (bounds are numbers) | `TailInvariance`, `TypeCorrect`, `CursorIsBehind`, `RepeatsBounded`, `PagesPartition`, `PagesShowTheLog` |
| `Login_proofs` | `LoginAssumption` (finitely many requests, the first failure does not lock, a lockout is longer than the window) | `Invariance`, `TypeCorrect`, `ThrottleBounds`, `NoStaleSession`, `LockoutsHold` |
| `Bandwidth_proofs` | `BandwidthAssumption` (goroutines are distinct, limits are numbers, a text is that of a device) | `BandwidthInvariance`, `TypeCorrect`, `DownloadsAreShaped`, `NoLimitsNoShaping` |

### The firewall

The argument. None of these properties is inductive: that the kernel agrees with
the tables after a load says nothing unless the file agreed, the file agrees only
if the snapshot did, and the snapshot agrees only about tables that have not
changed since the read. `IInv` is that chain:

* `TypeOK`, `IntegrityInv`;
* `Mutex`: only the holder is inside Apply, so nobody rewrites the files between
  another's write and load;
* `Order`: settled <= dnsmasq <= nftset file <= kernel <= conf file <= now, by
  `start`, and an Apply under way began after the file was generated and after
  its own request's commit. The first two come from the order of the steps in
  Apply; that the holder's reads began after whatever the file holds is what the
  mutex gives, and it is why nothing goes back;
* `SnapshotAgrees(p)`: each table read so far agrees with the database unless it
  was written after `start`, and has nothing the table has not if its read ended short.
  It holds although the reads are not one transaction:
  a torn snapshot is wrong only about what changed meanwhile, whose own Apply
  comes later;
* `HandedOn(p)`: the files carry the `start` of the snapshot they were written from,
  and what is loaded carries that of the file;
* `Copies`: file, kernel, nftset file and dnsmasq each agree with the tables as far
  as they have not changed since the copy's `start`, missing rows apart where a read ended
  short or the file was cut; the kernel's set holds at
  least the elements it was loaded with.

`SettledIsLive` follows since `settled` is below every `start`;
`SettledIsPopulated` from `Copies` and `Order`. There is a lemma for each
group of actions, and `NextInvariant` joins them. The refinement needs one more lemma,
`StepSummary`: every step either commits (and leaves targets alone) or moves each
target to a `start` that is not older and `settled` to at most both.

`NothingIsForgotten` (the safety half of `Converges`) needs a second invariant, since
`IInv` only speaks of what has not changed since a copy's `start`. `QuietInv` speaks of
what has: `Owes(n)` says that a goroutine with an Apply to run, or in one, has committed
something later than `n`, and the invariant, as long as no step has failed, that

* the kernel is right, or `Owes` its `start`, or an enabled rule is one that nft rejects
  (`KernelOwed`);
* nftset file and dnsmasq likewise (`LinesOwed`), or a crash has cut the file short and
  start-up's Apply, whose stamp is not below the file's `start`, has still to write it
  (`CutShort`);
* what a goroutine has read so far is right, or `Owes` the moment its reads began
  (`Reader`).

An Apply that returns owed nothing that it has not loaded: its stamp is at most its
snapshot's `start`, so what is later is owed by another (`OthersOwe`). The hard step is
`RulesetRejected`, where an Apply returns without having changed anything. nft refuses a
ruleset for a rule, which is then enabled still, or changed since and owed; or for a vmap
that names a chain that is not there. `Assignable` is for that one: an assignment is
checked against the policies, so the chain of an assigned policy is missing only in
a snapshot whose assignments were written after its `start`, by somebody who still owes
(`RejectedIsOwed`). In a crash everybody who owed is gone, and start-up owes what is
committed (`CrashKeeps`).

`PoliciesEnforced` needs no invariant of its own. `KernelIsTables` turns `Copies`
into equations (where all four tables are settled, the kernel's lists are the
tables'), and what remains is the reading of the chains, case by case.

### The block lists

The chain of the firewall, with one file: `Order` (settled <= dnsmasq <= file <= now,
by `start`), `Copies` (a complete copy has every name as the tables have it, unless
the name was changed since its `start`) and `Mutex`. `Guarded` is what `OnlyOutrun`
needs: while a name is on its way from the guard to the insert, a rule that matches
it is newer than the guard's answer.

`Refinement` takes dnsmasq's `start` for what the target runs; the one lemma beside the
invariant is `StepSummary`: a step commits, or it replaces dnsmasq's directives by the
file's, which `Order` says are no older. `NoBlockIsForgotten` is by names: those whose
last change is some goroutine's to apply are due (`ListDue`, `HardDue`), and as long as
nothing fails, file, dnsmasq and the variables of an Apply are right about all others
(`Right`). When an Apply returns (`ReloadQuiet`), what it owed is older than its reads, and
so in the file by `Copies`; what is not there is newer, and due from somebody else.

### The migrations

`schema_version` is always a prefix `1..k`, the tables are what `k` migrations and the
users leave (`TablesAt`), a boot is never ahead of `k`, and serves only when `k` is its
release. `RunMigrates` shows for each migration that it leads from one prefix to the
next; a boot that starts too low, after a failed version read, can only be refused by
the primary key.

### The traffic log

`Handed`: every entry up to the stream's position has been dealt with, so the cursor
that is saved may be that position. `Repeats` counts rows on either side of the point
where the next line or the next stream begins: behind it an entry has at most one row
more than crashes and failures so far, beyond it not even that one. `PagesPartition`
is the page arithmetic for any total and any page size; `PagesShowTheLog` adds that the
rows in the table have a number in every reachable state.

### The login

`LockoutInv` relates the time a lockout has left to the age of its bucket: together
they are never below the lockout's length, so while it lasts the window is over before
the lockout is, and the requests that can still record something are exactly those of
`early`; each of them counts at most once. `VersionInv` carries a login's password
number from the read to the insert.

### The limits

That downloads are shaped by the enabled limits once the last Apply has returned says
nothing about the steps before. The invariant follows one Apply:

* `Counts`, `Mutex`, `Listed`, `Addresses`, `Kernel`, `Working`: the ranges; no text has
  two rows; an interface without a root has no class and no filter;
* `Progress`: how far the holder of the mutex has come. After the clearing the interface
  is bare but for what could not be deleted (`Bare`); at row `i`, the tree is the one for
  those of the rows before it that were set up (`ShapedBy`: a class for each, and for each
  address a filter to the first of its rows), and no address has been found for a later
  one (`Found`);
* `Outdated`: an Apply that has read other limits than the first of those enabled now
  (`PrefixOf`: a list may end short) is not the one
  whose success will count: neither is the last change settled nor is it its own;
* `SettledIsApplied`: once it is, the tree is that of the enabled rows that were set up
  (`Applied`).

What one row adds to the tree is `LimitedRow` and `SkippedRow`, what one that failed adds
is `MissedRow`, and what a list that ended short leaves is `PrefixShapes`; that its class is new is
where the rows must be fewer than the default class's number. `EnabledIn` is
Apply's loop that keeps the enabled rows, a recursive function; `EnabledLoop` says that it
has the values its definition promises, and `EnabledAreRows` that what it keeps are rows
of the table, none twice, by induction over the rows. The library's induction theorems
take the induction hypothesis as an operator, which
cannot be instantiated for the provers; the existence of a least counterexample
(`WFMin`, about sets) can, and `LeastNumber`, `NumberInduction` and `RecursionDefines`
derive from it what is needed.

### What is only model-checked

All liveness (`EveryRequestEnds`, `Converges`, `SinkConverges`, `EventuallyServes`,
`EventuallyLogged`, `LockoutEnds`, `AddressesConverge`, `ApplyReturns`), which is beyond
the proof system used. Of `Converges` and `SinkConverges` the part that is safety is
`QuietIsApplied`, and is proved; what is left to the model checker is that everybody gets
to the end of what they are doing. Every safety property and both refinements of the
passing runs are theorems.

## Disagreements

1. **The flush on delete can be undone** (`firewall_flush`, `DeletedIsFlushed`).
   The new ruleset is loaded before dnsmasq is given the new directives; a query
   in between puts the deleted domain's addresses back, for 30 days or until the
   next Apply.
2. **A device block that blocks nothing** (`firewall_block`, `BlockTakesEffect`).
   The pages send the address through `encodeURIComponent`; `devices.go:42` uses the
   path parameter undecoded, where the policy handlers decode it
   (`policies.go:17-18`). No row matches, the answer is 200, and the Apply that
   follows does not drop the device. Changing the alias is lost in the same way.
3. **v9 wipes allow lists and assignments** (`migrations_wiped`, `RowsSurvive`).
   The comment relies on foreign keys being off; `database.Open` turns them on.
   DROP TABLE then deletes the rows and the cascade follows. Reproduced with
   SQLite itself. The seeded connman domain is lost on a fresh install too; the
   test opens the database without the pragma.
4. **A block does not reach the packet filter** (`blocklist_reach`,
   `NeverReachable`). `BlockedHandler.Create` applies DNS only: a domain that was
   allowed and resolved keeps its addresses in the set, and every later
   `FirewallService.Apply` puts them there again.
5. **Upload limits stay** (`bandwidth_upload`, `UploadIsShaped`). `bandwidth.go:94`
   says that it clears the existing qdiscs, and clears those of the LAN interface. When
   Apply runs again with limits enabled, the class on ifb0 exists, its replacement is
   refused and the refusal is not looked at (`bandwidth.go:181`); the older filter wins.
   A changed upload limit keeps its old rate; a removed one stays while another limit
   is on.

Smaller ones met on the way, not stated as properties:

* `firewall.go:250-251` calls the snapshot "one atomic read of the DB state"; it is
  several statements. A policy created and assigned between the first and the last
  makes a vmap that goes to a chain that is not there; nft rejects the whole file, and the
  assigning request's own Apply repairs it.
* `auth.go:19` promises a 401 after five failed attempts per minute; the answer is 429,
  and requests under way together may fail more often (`FailuresBounded`).
* `trafficlog.go:466` says that `Clear` resets the cursors, which it does not touch. When
  the dnsmasq log is missing at start-up, `trafficlog.go:72-83` calls `tailJournal`, which
  never returns: a file that appears later is not read. `insertEntry` stores the time of
  the insert and not the entry's, so entries that are read again count as new.
* `hotspot.go:89` says that defaults must not be written silently; the file is then
  written with the defaults, and a line in the log.
* `docs/V2_ROADMAP.md:74-75` and `policy.go:232-233` say the resolution comes after
  Apply, the handlers do it before.
* The `dns_upstream` setting is never read by `DNSService.Apply`.
* `firewall.go:296-298` has the read of the blocked devices fail rather than lose rows
  silently; no other loop that a file or the kernel is generated from asks `rows.Err()`.
* `bandwidth_limits` is unique by the text of the address, and looked up by its upper case:
  two limits of one device are possible, of which one counts.
* `dns.go:184-186` says itself that an exact block is sunk with its subdomains, while
  `README.md:276` promises an exact match.

## Assumptions, and what is left out

* `systemctl reload dnsmasq` re-reads the files in its configuration directory, as
  the code's comments assume. (Stock dnsmasq re-reads only some files on SIGHUP; what
  the unit's reload does is not in the repository.)
* `nft -f` is one transaction, as its documentation says.
* `net.LookupHost` asks the local dnsmasq, so a lookup fills the sets.
* Two domains share no addresses. With shared ones, `DeletedIsFlushed` would be
  about addresses no other row allows.
* The check of `is_default` and the DELETE in `DeletePolicy` are one step: no
  statement changes `is_default`.
* A failed store of `resolved_ips` is a failed lookup whose query had its effect.
* A conf file whose write failed is not read before it is rewritten; what
  `nftables.service` loads after a power loss is outside the model.
* In `BlockList`, the allow lists of all policies are one list, and a reload by the
  firewall can happen at any time.
* In `Migrations`, an older release ships a prefix of the list of migrations.
* In `TrafficTail`, rows go only by `Clear`, and `journalctl` repeats no entry and leaves
  none out after a cursor. A line of the journal is shorter than the scanner's buffer of
  1 MiB (a record of the kernel's log has a few KiB): on a longer one the loop would end
  with `journalctl` alive, and `cmd.Wait` would not return (`trafficlog.go:143-175`). A
  line that is not JSON is none of the firewall's.
* A rule's other columns, its host name among them, belong to the identity of the rule:
  an update that changes them is, in the model, one rule deleted and another created.
* Names on the block lists are well formed. `ImportDomains` does not look at what it
  imports (`dns.go:125-130`), and what dnsmasq makes of a file with a malformed line is
  outside the model. An import that ends early, at a line the scanner cannot hold, has
  imported a part of the names (`\E names \in SUBSET Blockable`).
* In `Login`, a clock that is set back is not modelled, and the cookie's token is always
  a fresh one. The throttle's key is what the request carries: its address, or the
  X-Real-IP or X-Forwarded-For header that `middleware.RealIP` puts in its place
  (`router.go:27`), cut at its last colon (`auth.go:46-52`), which also cuts an IPv6
  address. The sender chooses it, any request may have any key in the model, and
  `FailuresBounded`, `LockoutHolds` and `LockoutEnds` are about keys and not about persons.
* In `Bandwidth`, tc's commands do what their manual says (add refuses what exists, the
  first filter of equal priority matches first), and rates are numbers that tc accepts.
  `bandwidth_limits` is unique in the text of `device_mac`, and the address is looked up
  under the text in upper case (`bandwidth.go:189`): two rows that differ in case limit
  one device, of which the first counts (`Limiting` takes the rows by text, `Demanded`
  the first of them). A lease belongs to one device at a time.
* In `Forwarding`, the first packet of a connection only: a device that is blocked keeps
  the connections it has open until they end.

## Not modelled

Each with its reason; `PROJECT.json` lists them by component.

* The hostapd file and `HotspotService.Apply` (one query, one write, one restart), the
  validation predicates, process configuration, rendering and scripts: sequential I/O or
  pure functions of strings.
* Audit log, system information and dashboard: appended or read, and nothing reads them
  back.
* The tail of dnsmasq's log file (it keeps no position), the pruning of the log by age,
  the address-to-name cache and the statistics.
* `ToggleEntry` of the block lists and `CleanExpiredSessions`: no caller. `CreateUser` and
  the reset of the administrator run in a process of their own, without the server.
* Flags, TLS and the HTTP server.

## Plan

Done: all modules of the table above with their runs, and the proofs of every safety property.
What could still be added, in the order of its worth:

1. resolved addresses as data, so that stale addresses of a row that is enabled again
   can be told from fresh ones (`policy.go:216`), and domains that share addresses;
2. `TrafficTail` extended by the pruning by age;
3. the hotspot's file against its settings.
