--------------------------- MODULE FirewallApply ---------------------------
(***************************************************************************)
(* From a change of the configuration tables to the packet filter: the     *)
(* HTTP handlers that change a table and call FirewallService.Apply, the   *)
(* procedure Apply itself, the proactive and periodic DNS resolution of    *)
(* the allow lists, and the restart of the daemon.                         *)
(*                                                                         *)
(* Every request runs on a goroutine of its own.  One call of the database *)
(* is one step, and so is every file written and every command run, since  *)
(* other goroutines, dnsmasq and the clients' DNS queries run in between.  *)
(* Apply holds a mutex; the handlers' writes and the resolver's do not     *)
(* take it.                                                                *)
(***************************************************************************)
EXTENDS ConfigStore, FiniteSets

CONSTANTS
    Requests,    \* goroutines serving HTTP requests, one request at a time
    Startup,     \* the main goroutine: ApplyAll, then serve
    Refresher,   \* the goroutine of StartRefreshLoop
    Free,        \* "the mutex is not held"
    NoDomain,    \* "no lookup under way"
    Seeded,      \* the tables the first start finds: those of a fresh install, or
                 \* what an earlier release has left
    Forward,     \* forward rules whose fields pass the daemon's checks
    Outbound,    \* outbound rules whose fields do; any other rule has no line
    NamedRules,  \* rules whose destination is a host name
    BadRules,    \* rules that pass the daemon's checks and that nft rejects
    MaxChanges,  \* bound: no request starts once this many changes are committed
    MaxFaults,   \* bound: nothing fails once this many failures and crashes have been
    MaxCrashes   \* bound: crashes of the daemon

Procs    == Requests \cup {Startup, Refresher}
Appliers == Requests \cup {Startup}

ASSUME ProcAssumption ==
    /\ Startup \notin Requests /\ Refresher \notin Requests /\ Startup # Refresher
    /\ Free \notin Procs
    /\ NoDomain \notin Domains
    /\ Seeded \in Database /\ Integrity(Seeded)
    /\ Forward \subseteq Rules /\ Outbound \subseteq Rules
    /\ NamedRules \subseteq Rules /\ BadRules \subseteq Rules
    /\ MaxChanges \in Nat /\ MaxFaults \in Nat /\ MaxCrashes \in Nat

VARIABLES
    db,          \* the tables
    serving,     \* the HTTP server is up
    pc,          \* where each goroutine stands
    todo, cur,   \* the domains a goroutine still has to resolve, and the one looked up
    lock,        \* FirewallService.mu: the goroutine inside Apply, or Free
    snap,        \* the local variables of Apply: rules, blockedMACs, snap
    unread,      \* policies whose domains Apply has not listed yet
    nftFile,     \* /etc/nftables.conf
    kernel,      \* the ruleset nft has loaded
    sets,        \* members of the kernel's per-policy sets
    nftsetFile,  \* /etc/dnsmasq.d/netfilter-nftsets.conf
    dnsmasq,     \* the nftset directives dnsmasq has read
    \* history, to state the properties with:
    now,         \* changes committed so far
    written,     \* for each table, the number of the last change to it
    rowWritten,  \* for each allow-list row, the number of the last change to it
    stamp,       \* the number of the change a goroutine has still to apply, or 0
    settled,     \* the last change whose own Apply has returned nil
    \* bounds:
    faults, crashes

config  == <<db, now, written, rowWritten>>
local   == <<pc, todo, cur, lock, snap, unread, stamp>>
enforced == <<nftFile, kernel, sets, nftsetFile, dnsmasq>>
bounds  == <<faults, crashes>>
vars    == <<config, serving, local, enforced, settled, bounds>>

-----------------------------------------------------------------------------
(* What Apply reads and what it writes *)

Tables == {"rules", "devices", "policies", "assigns"}

NoSnapshot ==
    [ start    |-> 0,          \* `now' when the first table was read
      rules    |-> [x \in Rules |-> "none"],
      devices  |-> {},
      policies |-> [p \in Policies |-> NoMode],
      domains  |-> [pd \in Pairs |-> "none"],
      resolved |-> {},
      assigns  |-> [m \in Devices |-> NoPolicy],
      short    |-> {} ]     \* tables whose rows stopped coming before the last

\* The rules that have a line in the ruleset: the outbound ones, and the forward ones
\* unless the chain of the default policy, where they stand, accepts everything before
\* it comes to them.
RuleLines(rules, mode) ==
    {x \in Rules : /\ rules[x] = "on"
                   /\ \/ x \in Outbound
                      \/ x \in Forward /\ mode \notin {"open", NoMode}}

EnabledRows(d) == {pd \in Pairs : d.domains[pd] = "on"}

\* (seeded fault: sets start empty and wait for dnsmasq to fill them)
generateConfigUnfilled(s, lost) ==
    [ start    |-> s.start,
      rules    |-> RuleLines(s.rules, s.policies[Default]) \ lost,
      drops    |-> s.devices,
      chains   |-> s.policies,
      elements |-> {},
      vmap     |-> s.assigns,
      short    |-> s.short ]

\* The text of /etc/nftables.conf: the rules' lines, one chain and one set per
\* policy, the set filled from resolved_ips of the enabled rows.  `lost' are the
\* rules left out because the host name they go to did not resolve.
generateConfig(s, lost) ==
    [ start    |-> s.start,
      rules    |-> RuleLines(s.rules, s.policies[Default]) \ lost,
      drops    |-> s.devices,
      chains   |-> s.policies,
      elements |-> EnabledRows(s) \cap s.resolved,
      vmap     |-> s.assigns,
      short    |-> s.short ]

\* (seeded fault: one directive per domain, whatever policies allow it)
NftsetLinesPerDomain(s) ==
    [start |-> s.start, lines |-> {pd[2] : pd \in EnabledRows(s)}, whole |-> TRUE]

\* (seeded fault: disabled rows keep their directive)
NftsetLinesOfAll(s) ==
    [start |-> s.start, lines |-> {pd \in Pairs : s.domains[pd] # "none"}, whole |-> TRUE]

\* whole: every allow-list row there was to read has been read, and its line written
NftsetLines(s) ==
    [ start |-> s.start,
      lines |-> EnabledRows(s),
      whole |-> s.short \cap {"policies", "domains"} = {} ]

\* What a write may leave that failed half way: os.WriteFile truncates first
Cut(f) == {[f EXCEPT !.lines = kept, !.whole = FALSE] : kept \in SUBSET f.lines}

\* nft -f refuses the file as a whole: a goto or a jump into a chain that is not there,
\* or a rule it cannot parse
Dangling(f) ==
    \/ f.chains[Default] = NoMode
    \/ \E m \in Devices : f.vmap[m] # NoPolicy /\ f.chains[f.vmap[m]] = NoMode

Rejected(f) == Dangling(f) \/ f.rules \cap BadRules # {}

\* dnsmasq answers a query for the name and adds the addresses to the sets its
\* nftset directives name; a set that is not in the kernel is skipped
Learnt(name) ==
    sets \cup {pd \in dnsmasq.lines : pd[2] = name /\ kernel.chains[pd[1]] # NoMode}

InApply == {"rules", "devices", "policies", "domains", "assigns",
            "write", "load", "nftsets", "reload"}

-----------------------------------------------------------------------------
Init ==
    /\ db = Seeded
    /\ serving = FALSE
    /\ pc = [p \in Procs |-> IF p = Startup THEN "lock" ELSE "idle"]
    /\ todo = [p \in Procs |-> {}]
    /\ cur = [p \in Procs |-> NoDomain]
    /\ lock = Free
    /\ snap = [p \in Procs |-> NoSnapshot]
    /\ unread = [p \in Procs |-> {}]
    /\ nftFile = generateConfig(NoSnapshot, {})
    /\ kernel = nftFile
    /\ sets = {}
    /\ nftsetFile = NftsetLines(NoSnapshot)
    /\ dnsmasq = nftsetFile
    /\ now = 1
    /\ written = [t \in Tables |-> 1]
    /\ rowWritten = [pd \in Pairs |-> 1]
    /\ stamp = [p \in Procs |-> IF p = Startup THEN 1 ELSE 0]
    /\ settled = 0
    /\ faults = 0
    /\ crashes = 0

-----------------------------------------------------------------------------
(* The handlers.  Each commits its change and goes on to `next': "lock" for *)
(* a synchronous Apply, "lookup" for the resolution that precedes it,       *)
(* "idle" when it answers without one.                                      *)

\* r commits the database `new', which differs in the given tables and rows
Commit(r, new, tables, rows, next) ==
    /\ serving /\ pc[r] = "idle" /\ now <= MaxChanges
    /\ db' = new
    /\ now' = now + 1
    /\ written' = [t \in Tables |-> IF t \in tables THEN now + 1 ELSE written[t]]
    /\ rowWritten' = [pd \in Pairs |-> IF pd \in rows THEN now + 1 ELSE rowWritten[pd]]
    /\ stamp' = [stamp EXCEPT ![r] = IF next = "idle" THEN 0 ELSE now + 1]
    /\ pc' = [pc EXCEPT ![r] = next]
    /\ UNCHANGED <<serving, cur, lock, snap, unread, enforced, settled, bounds>>

CreateRule(r, x, enabled) ==
    /\ db.rules[x] = "none"
    /\ Commit(r, CreateRuleIn(db, x, enabled), {"rules"}, {}, "lock")
    /\ UNCHANGED todo

UpdateRule(r, x, enabled) ==
    /\ Commit(r, UpdateRuleIn(db, x, enabled), {"rules"}, {}, "lock")
    /\ UNCHANGED todo

DeleteRule(r, x) ==
    /\ Commit(r, DeleteRuleIn(db, x), {"rules"}, {}, "lock")
    /\ UNCHANGED todo

\* The handler answers 200 now; Apply runs on in a goroutine and its error
\* goes nowhere.  The address is the path parameter as it came: when the client has
\* encoded it, as the web pages do, it is that of no row.
UpdateDevice(r, m, blocked, encoded) ==
    /\ Commit(r, IF encoded THEN db ELSE UpdateDeviceIn(db, m, blocked), {"devices"}, {}, "lock")
    /\ UNCHANGED todo

\* No Apply: the chain of a new policy is generated by a later one
CreatePolicy(r, p, mode) ==
    /\ p \notin db.retired
    /\ Commit(r, CreatePolicyIn(db, p, mode), {"policies"}, {}, "idle")
    /\ UNCHANGED todo

UpdatePolicy(r, p, mode) ==
    /\ Commit(r, UpdatePolicyIn(db, p, mode), {"policies"}, {}, "lock")
    /\ UNCHANGED todo

DeletePolicy(r, p) ==
    /\ Exists(db, p) /\ p # Default
    /\ Commit(r, DeletePolicyIn(db, p), {"policies", "assigns"}, {p} \X Domains, "lock")
    /\ UNCHANGED todo

\* The foreign key refuses a policy that is gone.  (The block-list guard in
\* front of the insert refuses more; it changes nothing when it does.)
CreateDomain(r, pd) ==
    /\ Exists(db, pd[1])
    /\ Commit(r, CreateDomainIn(db, pd), {}, {pd}, "lookup")
    /\ todo' = [todo EXCEPT ![r] = {pd[2]}]

UpdateDomain(r, pd, enabled) ==
    /\ Commit(r, UpdateDomainIn(db, pd, enabled), {}, {pd}, "lock")
    /\ UNCHANGED todo

DeleteDomain(r, pd) ==
    /\ Commit(r, DeleteDomainIn(db, pd), {}, {pd}, "lock")
    /\ UNCHANGED todo

\* (seeded fault: the handler forgets to apply)
AssignDeviceUnapplied(r, m, p) ==
    /\ Exists(db, p)
    /\ Commit(r, AssignDeviceIn(db, m, p), {"assigns"}, {}, "idle")
    /\ UNCHANGED todo

AssignDevice(r, m, p) ==
    /\ Exists(db, p)
    /\ Commit(r, AssignDeviceIn(db, m, p), {"assigns"}, {}, "lock")
    /\ UNCHANGED todo

UnassignDevice(r, m) ==
    /\ Commit(r, UnassignDeviceIn(db, m), {"assigns"}, {}, "lock")
    /\ UNCHANGED todo

-----------------------------------------------------------------------------
(* ResolveDomain, called by the two create handlers and by RefreshAll *)

RefreshAll ==
    /\ serving /\ pc[Refresher] = "idle"
    /\ EnabledDomains(db) # {}
    /\ todo' = [todo EXCEPT ![Refresher] = EnabledDomains(db)]
    /\ pc' = [pc EXCEPT ![Refresher] = "lookup"]
    /\ UNCHANGED <<config, serving, cur, lock, snap, unread, stamp, enforced, settled, bounds>>

\* p has dealt with the name: on to the next one, or out of ResolveDomain
NextName(p, name) ==
    /\ todo' = [todo EXCEPT ![p] = @ \ {name}]
    /\ cur' = [cur EXCEPT ![p] = NoDomain]
    /\ pc' = [pc EXCEPT ![p] = IF todo[p] \ {name} # {} THEN "lookup"
                               ELSE IF p = Refresher THEN "idle" ELSE "lock"]

LookupAnswered(p, name) ==
    /\ pc[p] = "lookup" /\ name \in todo[p]
    /\ sets' = Learnt(name)
    /\ cur' = [cur EXCEPT ![p] = name]
    /\ pc' = [pc EXCEPT ![p] = "store"]
    /\ UNCHANGED <<config, serving, todo, lock, snap, unread, stamp, nftFile, kernel,
                   nftsetFile, dnsmasq, settled, bounds>>

\* No answer within five seconds: the row is left as it is
LookupFailed(p, name) ==
    /\ pc[p] = "lookup" /\ name \in todo[p]
    /\ NextName(p, name)
    /\ UNCHANGED <<config, serving, lock, snap, unread, stamp, enforced, settled, bounds>>

StoreResolved(p) ==
    LET filled == RowsOf(db, cur[p]) \ db.resolved
    IN  /\ pc[p] = "store"
        /\ db' = StoreResolvedIn(db, cur[p])
        /\ now' = IF filled = {} THEN now ELSE now + 1
        /\ rowWritten' = [pd \in Pairs |-> IF pd \in filled THEN now' ELSE rowWritten[pd]]
        /\ stamp' = IF p = Refresher THEN stamp ELSE [stamp EXCEPT ![p] = now']
        /\ NextName(p, cur[p])
        /\ UNCHANGED <<written, serving, lock, snap, unread, enforced, settled, bounds>>

-----------------------------------------------------------------------------
(* FirewallService.Apply, in the order of its calls *)

\* (seeded fault: a return path without the Unlock)
ReturnLocked(p, ok) ==
    /\ pc' = [pc EXCEPT ![p] = "idle"]
    /\ snap' = [snap EXCEPT ![p] = NoSnapshot]
    /\ unread' = [unread EXCEPT ![p] = {}]
    /\ settled' = IF ok /\ stamp[p] > settled THEN stamp[p] ELSE settled
    /\ stamp' = [stamp EXCEPT ![p] = 0]
    /\ serving' = (serving \/ p = Startup)
    /\ UNCHANGED <<config, todo, cur, lock, crashes>>

\* The call returns: the deferred Unlock, and the answer to the client
Return(p, ok) ==
    /\ lock' = Free
    /\ pc' = [pc EXCEPT ![p] = "idle"]
    /\ snap' = [snap EXCEPT ![p] = NoSnapshot]
    /\ unread' = [unread EXCEPT ![p] = {}]
    /\ settled' = IF ok /\ stamp[p] > settled THEN stamp[p] ELSE settled
    /\ stamp' = [stamp EXCEPT ![p] = 0]
    /\ serving' = (serving \/ p = Startup)    \* ApplyAll only logs the error
    /\ UNCHANGED <<config, todo, cur, crashes>>

Goto(p, label) == pc' = [pc EXCEPT ![p] = label]

\* (seeded fault: no mutex)
AcquireUnlocked(p) ==
    /\ pc[p] = "lock"
    /\ lock' = p
    /\ Goto(p, "rules")
    /\ UNCHANGED <<config, serving, todo, cur, snap, unread, stamp, enforced, settled, bounds>>

\* (seeded fault: TryLock; who finds somebody inside leaves the work to him)
AcquireOrSkip(p) ==
    /\ pc[p] = "lock"
    /\ IF lock = Free THEN lock' = p /\ Goto(p, "rules")
       ELSE Goto(p, "idle") /\ UNCHANGED lock
    /\ UNCHANGED <<config, serving, todo, cur, snap, unread, stamp, enforced, settled, bounds>>

Acquire(p) ==
    /\ pc[p] = "lock" /\ lock = Free
    /\ lock' = p
    /\ Goto(p, "rules")
    /\ UNCHANGED <<config, serving, todo, cur, snap, unread, stamp, enforced, settled, bounds>>

\* A query of Apply; what it reads is in the snapshot then
Reading(p, label, next) ==
    /\ pc[p] = label
    /\ Goto(p, next)
    /\ UNCHANGED <<config, serving, todo, cur, lock, stamp, enforced, settled, crashes>>

\* The loops over the rows do not ask rows.Err, but for that over the blocked devices:
\* when the rows stop coming, the missed ones are taken for rows that are not there.
Without(f, missed, empty) == [k \in DOMAIN f |-> IF k \in missed THEN empty ELSE f[k]]

Short(missed, table) == IF missed = {} THEN {} ELSE {table}

ReadRules(p, missed) ==
    /\ Reading(p, "rules", "devices")
    /\ snap' = [snap EXCEPT ![p] =
                  [@ EXCEPT !.start = now, !.rules = Without(db.rules, missed, "none"),
                            !.short = Short(missed, "rules")]]
    /\ UNCHANGED unread

ReadPolicies(p, missed) ==
    /\ unread' = [unread EXCEPT ![p] = {q \in Policies : Exists(db, q)} \ missed]
    /\ Reading(p, "policies", IF unread'[p] = {} THEN "assigns" ELSE "domains")
    /\ snap' = [snap EXCEPT ![p] =
                  [@ EXCEPT !.policies = Without(db.policies, missed, NoMode),
                            !.short = snap[p].short \cup Short(missed, "policies")]]

\* the snapshot s with the rows of policy q added
WithDomains(s, q, missed) ==
    [s EXCEPT !.domains  = [pd \in Pairs |->
                              IF pd[1] # q THEN @[pd]
                              ELSE IF pd \in missed THEN "none" ELSE db.domains[pd]],
              !.resolved = {pd \in Pairs : IF pd[1] # q THEN pd \in @
                                           ELSE pd \in db.resolved \ missed},
              !.short    = @ \cup Short(missed, "domains")]

\* One query per policy of the list
ReadDomains(p, q, missed) ==
    /\ q \in unread[p]
    /\ Reading(p, "domains", IF unread[p] = {q} THEN "assigns" ELSE "domains")
    /\ snap' = [snap EXCEPT ![p] = WithDomains(@, q, missed)]
    /\ unread' = [unread EXCEPT ![p] = @ \ {q}]

ReadAssignments(p, missed) ==
    /\ Reading(p, "assigns", "write")
    /\ snap' = [snap EXCEPT ![p] =
                  [@ EXCEPT !.assigns = Without(db.assigns, missed, NoPolicy),
                            !.short = snap[p].short \cup Short(missed, "assigns")]]
    /\ UNCHANGED unread

ListRules(p) == ReadRules(p, {}) /\ UNCHANGED faults

ListBlocked(p) ==
    /\ Reading(p, "devices", "policies")
    /\ snap' = [snap EXCEPT ![p].devices = db.devices]
    /\ UNCHANGED <<unread, faults>>

ListPolicies(p) == ReadPolicies(p, {}) /\ UNCHANGED faults

ListDomains(p, q) == ReadDomains(p, q, {}) /\ UNCHANGED faults

ListAssignments(p) == ReadAssignments(p, {}) /\ UNCHANGED faults

Advance(p, label, next) ==
    /\ pc[p] = label
    /\ Goto(p, next)
    /\ UNCHANGED <<config, serving, todo, cur, lock, snap, unread, stamp, settled, bounds>>

WriteConf(p) ==
    /\ Advance(p, "write", "load")
    /\ \E lost \in SUBSET NamedRules : nftFile' = generateConfig(snap[p], lost)
    /\ UNCHANGED <<kernel, sets, nftsetFile, dnsmasq>>

\* `flush ruleset' and the new tables in one transaction: whatever dnsmasq had
\* added to the old sets is gone
Load == kernel' = nftFile /\ sets' = nftFile.elements

LoadRuleset(p) ==
    /\ Advance(p, "load", "nftsets")
    /\ ~Rejected(nftFile)
    /\ Load
    /\ UNCHANGED <<nftFile, nftsetFile, dnsmasq>>

\* (seeded fault: the exit status of nft is not looked at)
RejectionIgnored(p) ==
    /\ Rejected(nftFile)
    /\ Advance(p, "load", "nftsets")
    /\ UNCHANGED enforced

RulesetRejected(p) ==
    /\ pc[p] = "load" /\ Rejected(nftFile)
    /\ Return(p, FALSE)
    /\ UNCHANGED <<enforced, faults>>

WriteNftsets(p) ==
    /\ Advance(p, "nftsets", "reload")
    /\ nftsetFile' = NftsetLines(snap[p])
    /\ UNCHANGED <<nftFile, kernel, sets, dnsmasq>>

ReloadDnsmasq(p) ==
    /\ pc[p] = "reload"
    /\ dnsmasq' = nftsetFile
    /\ Return(p, TRUE)
    /\ UNCHANGED <<nftFile, kernel, sets, nftsetFile, faults>>

(* A step of Apply fails: Apply returns the error and undoes nothing, unless it does *)
(* not notice                                                                        *)
Slip == faults + crashes < MaxFaults /\ faults' = faults + 1

Fault(p, label) == pc[p] = label /\ Slip /\ Return(p, FALSE)

\* Some of the rows of a table, and Apply goes on
ShortRules(p) ==
    /\ Slip
    /\ \E missed \in SUBSET {x \in Rules : db.rules[x] # "none"} :
          missed # {} /\ ReadRules(p, missed)

\* the default policy comes first
ShortPolicies(p) ==
    /\ Slip
    /\ \E missed \in SUBSET {q \in Policies : Exists(db, q)} :
          /\ missed # {}
          /\ Default \in missed => missed = {q \in Policies : Exists(db, q)}
          /\ ReadPolicies(p, missed)

ShortDomains(p, q) ==
    /\ Slip
    /\ \E missed \in SUBSET {pd \in {q} \X Domains : db.domains[pd] # "none"} :
          missed # {} /\ ReadDomains(p, q, missed)

ShortAssignments(p) ==
    /\ Slip
    /\ \E missed \in SUBSET {m \in Devices : db.assigns[m] # NoPolicy} :
          missed # {} /\ ReadAssignments(p, missed)

ReadFails(p) ==
    /\ \E label \in {"rules", "devices", "policies", "domains", "assigns"} : Fault(p, label)
    /\ UNCHANGED enforced

\* what the file then holds nobody reads before the next Apply rewrites it
WriteConfFails(p) == Fault(p, "write") /\ UNCHANGED enforced

\* the command may fail before or, killed at its 30 s timeout, after its effect
LoadFails(p) ==
    /\ Fault(p, "load")
    /\ \/ UNCHANGED <<kernel, sets>>
       \/ ~Rejected(nftFile) /\ Load
    /\ UNCHANGED <<nftFile, nftsetFile, dnsmasq>>

\* (seeded fault: the error is logged and Apply returns nil)
WriteNftsetsFailureLogged(p) ==
    /\ pc[p] = "nftsets" /\ Slip /\ Return(p, TRUE)
    /\ UNCHANGED enforced

WriteNftsetsFails(p) ==
    /\ Fault(p, "nftsets")
    /\ nftsetFile' \in {nftsetFile} \cup Cut(NftsetLines(snap[p]))
    /\ UNCHANGED <<nftFile, kernel, sets, dnsmasq>>

ReloadFails(p) ==
    /\ Fault(p, "reload")
    /\ dnsmasq' \in {dnsmasq, nftsetFile}
    /\ UNCHANGED <<nftFile, kernel, sets, nftsetFile>>

-----------------------------------------------------------------------------
(* Around the daemon *)

\* A client on the hotspot asks dnsmasq for a name
ClientQuery(name) ==
    /\ sets' = Learnt(name)
    /\ UNCHANGED <<config, serving, local, nftFile, kernel, nftsetFile, dnsmasq, settled, bounds>>

\* DNSService.Apply, under a mutex of its own, also reloads dnsmasq
DNSReload ==
    /\ serving
    /\ dnsmasq' = nftsetFile
    /\ UNCHANGED <<config, serving, local, nftFile, kernel, sets, nftsetFile, settled, bounds>>

\* The daemon dies and systemd starts it again.  Database, files, kernel and
\* dnsmasq stay; a file being written may be cut short.
Crash ==
    /\ crashes < MaxCrashes
    /\ crashes' = crashes + 1
    /\ serving' = FALSE
    /\ pc' = [p \in Procs |-> IF p = Startup THEN "lock" ELSE "idle"]
    /\ todo' = [p \in Procs |-> {}]
    /\ cur' = [p \in Procs |-> NoDomain]
    /\ lock' = Free
    /\ snap' = [p \in Procs |-> NoSnapshot]
    /\ unread' = [p \in Procs |-> {}]
    /\ stamp' = [p \in Procs |-> IF p = Startup THEN now ELSE 0]
    /\ \/ UNCHANGED nftsetFile
       \/ \E p \in Appliers : pc[p] = "nftsets" /\ nftsetFile' \in Cut(NftsetLines(snap[p]))
    /\ UNCHANGED <<config, nftFile, kernel, sets, dnsmasq, settled, faults>>

-----------------------------------------------------------------------------
RuleRequest(r) ==
    \E x \in Rules :
        \/ \E enabled \in BOOLEAN : CreateRule(r, x, enabled) \/ UpdateRule(r, x, enabled)
        \/ DeleteRule(r, x)

DeviceRequest(r) ==
    \E m \in Devices :
        \/ \E blocked, encoded \in BOOLEAN : UpdateDevice(r, m, blocked, encoded)
        \/ \E p \in Policies : AssignDevice(r, m, p)
        \/ UnassignDevice(r, m)

PolicyRequest(r) ==
    \E p \in Policies :
        \/ \E mode \in Modes : CreatePolicy(r, p, mode) \/ UpdatePolicy(r, p, mode)
        \/ DeletePolicy(r, p)

DomainRequest(r) ==
    \E pd \in Pairs :
        \/ CreateDomain(r, pd)
        \/ \E enabled \in BOOLEAN : UpdateDomain(r, pd, enabled)
        \/ DeleteDomain(r, pd)

Resolve(p) ==
    \/ \E name \in Domains : LookupAnswered(p, name) \/ LookupFailed(p, name)
    \/ StoreResolved(p)

ApplyStep(p) ==
    \/ Acquire(p)
    \/ ListRules(p) \/ ListBlocked(p) \/ ListPolicies(p)
    \/ \E q \in Policies : ListDomains(p, q)
    \/ ListAssignments(p)
    \/ WriteConf(p) \/ LoadRuleset(p) \/ RulesetRejected(p)
    \/ WriteNftsets(p) \/ ReloadDnsmasq(p)

ApplyFails(p) ==
    \/ ReadFails(p) \/ WriteConfFails(p) \/ LoadFails(p)
    \/ WriteNftsetsFails(p) \/ ReloadFails(p)

Shortened(p) ==
    \/ ShortRules(p) \/ ShortPolicies(p) \/ ShortAssignments(p)
    \/ \E q \in Policies : ShortDomains(p, q)

Next ==
    \/ \E r \in Requests :
          RuleRequest(r) \/ DeviceRequest(r) \/ PolicyRequest(r) \/ DomainRequest(r)
    \/ RefreshAll
    \/ \E p \in Requests \cup {Refresher} : Resolve(p)
    \/ \E p \in Appliers : ApplyStep(p) \/ ApplyFails(p) \/ Shortened(p)
    \/ \E name \in Domains : ClientQuery(name)
    \/ DNSReload
    \/ Crash

Spec == Init /\ [][Next]_vars

-----------------------------------------------------------------------------
(* Properties *)

Shortable == {"rules", "policies", "domains", "assigns"}

Snapshot ==
    [ start : Nat, rules : [Rules -> Row], devices : SUBSET Devices,
      policies : [Policies -> Modes \cup {NoMode}], domains : [Pairs -> Row],
      resolved : SUBSET Pairs, assigns : [Devices -> Policies \cup {NoPolicy}],
      short : SUBSET Shortable ]

Ruleset ==
    [ start : Nat, rules : SUBSET Rules, drops : SUBSET Devices,
      chains : [Policies -> Modes \cup {NoMode}], elements : SUBSET Pairs,
      vmap : [Devices -> Policies \cup {NoPolicy}], short : SUBSET Shortable ]

Nftsets == [start : Nat, lines : SUBSET Pairs, whole : BOOLEAN]

Labels == {"idle", "lookup", "store", "lock"} \cup InApply

\* Types of the tables, the files and the goroutines' variables.
TypeOK ==
    /\ db \in Database
    /\ serving \in BOOLEAN
    /\ pc \in [Procs -> Labels]
    /\ todo \in [Procs -> SUBSET Domains]
    /\ cur \in [Procs -> Domains \cup {NoDomain}]
    /\ lock \in Appliers \cup {Free}
    /\ snap \in [Procs -> Snapshot]
    /\ unread \in [Procs -> SUBSET Policies]
    /\ nftFile \in Ruleset /\ kernel \in Ruleset
    /\ sets \subseteq Pairs
    /\ nftsetFile \in Nftsets /\ dnsmasq \in Nftsets
    /\ now \in Nat /\ settled \in Nat
    /\ written \in [Tables -> Nat]
    /\ rowWritten \in [Pairs -> Nat]
    /\ stamp \in [Procs -> Nat]
    /\ faults \in Nat /\ crashes \in Nat

\* The foreign keys hold whatever the handlers commit, in any order: the
\* cascade of DeletePolicy and the refusals of CreateDomain and AssignDevice
\* leave no row that names a policy that is gone.
IntegrityInv == Integrity(db)

\* What has been read of a table: nothing that is not there, and all of it unless the
\* rows stopped coming
Reads(copy, table, empty, short) ==
    /\ \A k \in DOMAIN table : copy[k] \in {empty, table[k]}
    /\ ~short => copy = table

\* The rules of a ruleset are those that have a line under its default policy; of those
\* that go to a host name, some may be left out
RulesAgree(f) ==
    LET lines == RuleLines(db.rules, f.chains[Default])
    IN  /\ f.rules \subseteq lines
        /\ "rules" \notin f.short => lines \ f.rules \subseteq NamedRules

\* No allow-list row is missing
RowsRead(f) == f.short \cap {"policies", "domains"} = {}

\* A ruleset says what the tables say, where they have not changed since it was
\* generated: nothing that they do not, blocked devices to the last, and everything else
\* unless the read of the table ended short
Agrees(f, upto) ==
    /\ written["rules"] <= upto => RulesAgree(f)
    /\ written["devices"] <= upto => f.drops = db.devices
    /\ written["policies"] <= upto =>
          Reads(f.chains, db.policies, NoMode, "policies" \in f.short)
    /\ written["assigns"] <= upto =>
          Reads(f.vmap, db.assigns, NoPolicy, "assigns" \in f.short)
    /\ \A pd \in Pairs :
          LET filled == db.domains[pd] = "on" /\ pd \in db.resolved
          IN  rowWritten[pd] <= upto =>
                 /\ pd \in f.elements => filled
                 /\ filled /\ RowsRead(f) => pd \in f.elements

\* The same of the directives, which may also have been cut short on their way to the
\* file
LinesAgree(f, upto) ==
    \A pd \in Pairs :
        rowWritten[pd] <= upto =>
           /\ pd \in f.lines => db.domains[pd] = "on"
           /\ db.domains[pd] = "on" /\ f.whole => pd \in f.lines

\* What the packet filter and dnsmasq run says nothing but what the tables say, in every
\* table and row whose last change belongs to an Apply that has returned nil or came
\* before one that did, and blocks every blocked device: no failure, crash or other
\* request's Apply brings back what such a change has removed.  It also has everything
\* the tables say there, with two exceptions that the code makes.  A table whose rows
\* stopped coming while Apply read it lacks those rows in the kernel and in the
\* directives, and Apply returns nil all the same (rows.Err is not asked); and a
\* directives file that a failed write or a crash has cut short, once the other service
\* reloads dnsmasq, takes settled directives away until the next Apply that gets through.
SettledIsLive == Agrees(kernel, settled) /\ LinesAgree(dnsmasq, settled)

\* A domain whose creation was answered with success, and that resolved, has
\* its addresses in the kernel's set, and keeps them through every later flush of
\* the ruleset until its row is changed (handlers/policies.go resolves BEFORE
\* Apply so that the set is never transiently empty): unless the ruleset in the kernel
\* comes of a read of the policies or of their rows that ended short.
SettledIsPopulated ==
    RowsRead(kernel) =>
        \A pd \in Pairs :
            rowWritten[pd] <= settled /\ db.domains[pd] = "on" /\ pd \in db.resolved =>
                pd \in sets

\* Neither the kernel nor dnsmasq is ever given a configuration generated from
\* older tables than the one it runs, however Applies, failures and reloads by
\* other services interleave.
NeverOlder ==
    [][kernel'.start >= kernel.start /\ dnsmasq'.start >= dnsmasq.start]_vars

\* The abstract promise of Enforcement, read in this module's variables
Abstract == INSTANCE Enforcement WITH
    Targets   <- {"kernel", "dnsmasq"},
    committed <- now,
    live      <- [t \in {"kernel", "dnsmasq"} |->
                    IF t = "kernel" THEN kernel.start ELSE dnsmasq.start],
    settled   <- settled

\* Every behaviour of the daemon is one of Enforcement: what it reports as
\* enforced both targets have reached, and neither ever goes back.
ImplementsEnforcement == Abstract!Spec

\* What is enforced is what the tables say.  A policy nobody has applied yet has no
\* chain; any other agrees.
UpToDate ==
    /\ RulesAgree(kernel)
    /\ kernel.drops = db.devices
    /\ kernel.vmap = db.assigns
    /\ \A p \in Policies : kernel.chains[p] \in {NoMode, db.policies[p]}
    /\ kernel.chains[Default] = db.policies[Default]
    /\ dnsmasq.lines = EnabledRows(db)

BadEnabled == \E x \in BadRules : db.rules[x] = "on"

\* No change is forgotten: as long as no read, write or command has failed, whenever
\* nobody is inside Apply or on the way to it and no enabled rule is one that nft
\* rejects, what is enforced is what the tables say, no matter which Apply was
\* overtaken by another, was refused for a snapshot torn by others' commits or for a
\* rule that is gone since, or died with the daemon.
QuietIsApplied ==
    faults = 0 /\ ~BadEnabled /\ (\A p \in Appliers : pc[p] = "idle") => UpToDate

\* Deleting or disabling a domain drops its addresses with the Apply that
\* follows: a row that is not enabled, and whose change is settled, has none in
\* its policy's set.
DeletedIsFlushed ==
    \A pd \in Pairs :
        rowWritten[pd] <= settled /\ db.domains[pd] # "on" => pd \notin sets

\* A request to block or to unblock a device is in the table when its answer, 200,
\* goes out, so that the Apply it starts drops the device ("hard drop, regardless
\* of policy").
BlockTakesEffect ==
    [][\A r \in Requests, m \in Devices, blocked, encoded \in BOOLEAN :
          UpdateDevice(r, m, blocked, encoded) => (m \in db'.devices <=> blocked)]_vars

-----------------------------------------------------------------------------
(* Liveness.  A goroutine that can run runs, a command ends within the       *)
(* executor's timeout, and sync.Mutex hands the lock to whoever waits.       *)
Fairness ==
    /\ \A p \in Requests \cup {Refresher} : WF_vars(Resolve(p))
    /\ \A p \in Appliers : WF_vars(ApplyStep(p))

FairSpec == Spec /\ Fairness

\* Once no more requests come, all have left their handlers: nobody waits for the mutex,
\* for a lookup or for a command for ever.
EveryRequestEnds == <>[](\A r \in Requests : pc[r] = "idle")

\* Once changes stop, and if no read, write or command has failed, what is enforced is
\* what the tables say.
Converges == <>[](faults = 0 => UpToDate)

-----------------------------------------------------------------------------
(* The inductive invariant behind the properties above.                      *)

\* Only the goroutine that holds the mutex is inside Apply.
Mutex == \A p \in Procs : pc[p] \in InApply <=> lock = p

AfterAssigns  == {"write", "load", "nftsets", "reload"}
AfterPolicies == {"domains", "assigns"} \cup AfterAssigns
AfterDevices  == {"policies"} \cup AfterPolicies
AfterRules    == {"devices"} \cup AfterDevices

\* Everything Apply hands on carries the number of the moment its reads began,
\* and each copy is at most as new as the one it was made from.
Order ==
    /\ settled <= dnsmasq.start
    /\ dnsmasq.start <= nftsetFile.start
    /\ nftsetFile.start <= kernel.start
    /\ kernel.start <= nftFile.start
    /\ nftFile.start <= now
    /\ \A p \in Appliers :
          /\ stamp[p] <= now
          /\ pc[p] \in AfterRules => /\ nftFile.start <= snap[p].start
                                     /\ stamp[p] <= snap[p].start
                                     /\ snap[p].start <= now

\* The tables Apply has read so far agree with the database, unless they have
\* changed since it began.
SnapshotAgrees(p) ==
    LET s == snap[p]
    IN  /\ pc[p] \in AfterRules /\ written["rules"] <= s.start =>
              Reads(s.rules, db.rules, "none", "rules" \in s.short)
        /\ pc[p] \in AfterDevices /\ written["devices"] <= s.start => s.devices = db.devices
        /\ pc[p] \in AfterPolicies /\ written["policies"] <= s.start =>
              Reads(s.policies, db.policies, NoMode, "policies" \in s.short)
        /\ pc[p] \in AfterAssigns /\ written["assigns"] <= s.start =>
              Reads(s.assigns, db.assigns, NoPolicy, "assigns" \in s.short)
        /\ pc[p] \notin AfterPolicies =>
              s.domains = NoSnapshot.domains /\ s.resolved = {}
        /\ pc[p] \in AfterPolicies =>
              \A pd \in Pairs :
                 pd[1] \notin unread[p] /\ rowWritten[pd] <= s.start =>
                    /\ s.domains[pd] \in {"none", db.domains[pd]}
                    /\ pd \in s.resolved => pd \in db.resolved
                    /\ RowsRead(s) => /\ s.domains[pd] = db.domains[pd]
                                      /\ pd \in s.resolved <=> pd \in db.resolved
        /\ pc[p] \in {"assigns"} \cup AfterAssigns => unread[p] = {}

\* The files and what has been loaded from them, against the Apply under way.
HandedOn(p) ==
    /\ pc[p] = "load" => nftFile.start = snap[p].start
    /\ pc[p] \in {"nftsets", "reload"} => kernel.start = snap[p].start
    /\ pc[p] = "reload" => nftsetFile = NftsetLines(snap[p])

Copies ==
    /\ Agrees(nftFile, nftFile.start) /\ Agrees(kernel, kernel.start)
    /\ LinesAgree(nftsetFile, nftsetFile.start) /\ LinesAgree(dnsmasq, dnsmasq.start)
    /\ kernel.elements \subseteq sets

IInv ==
    /\ TypeOK /\ IntegrityInv /\ Mutex /\ Order
    /\ \A p \in Appliers : SnapshotAgrees(p) /\ HandedOn(p)
    /\ Copies
=============================================================================
