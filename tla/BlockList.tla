------------------------------ MODULE BlockList ------------------------------
(***************************************************************************)
(* The two block lists of the daemon and the two places that enforce them: *)
(* the guard in front of the allow list, which reads blocked_domains, and  *)
(* dnsmasq, for which DNSService.Apply writes both lists to a file and     *)
(* reloads it.  DNSService has a mutex of its own; the tables are changed  *)
(* without it, and so are the allow list and the packet filter's set.      *)
(*                                                                         *)
(* The allow lists of all policies are one list here, since the guard does *)
(* not look at the policy, and FirewallService.Apply, which FirewallApply  *)
(* models, is one step.                                                    *)
(***************************************************************************)
EXTENDS Naturals, FiniteSets

CONSTANTS
    Names,       \* domain names, lower case; localhost is none of them
    Blockable,   \* bound: the names that requests put on the block lists
    Allowable,   \* bound: the names that requests put on the allow lists
    Subdomains,  \* the pairs <<n, b>> of which n ends in "." followed by b
    Requests,    \* goroutines serving HTTP requests
    Startup,     \* the main goroutine: ApplyAll, then serve
    Refresher,   \* the goroutine of StartRefreshLoop
    Free,        \* "the mutex is not held"
    NoName,      \* "no name under way"
    MaxChanges,  \* bound: no request starts once this many changes are committed
    MaxFaults    \* bound: statements, writes and commands that fail, and crashes

Appliers == Requests \cup {Startup}
Procs    == Appliers \cup {Refresher}

ASSUME BlockListAssumption ==
    /\ Subdomains \subseteq Names \X Names
    /\ Blockable \subseteq Names /\ Allowable \subseteq Names
    /\ Startup \notin Requests /\ Refresher \notin Requests /\ Startup # Refresher
    /\ Free \notin Procs /\ NoName \notin Names
    /\ MaxChanges \in Nat /\ MaxFaults \in Nat

VARIABLES
    blocked,   \* blocked_domains: "none", "off", or the match type of an enabled row
    listed,    \* dns_blocklist: the enabled names
    allowed,   \* policy_allowed_domains: "none", "off" or "on"
    resolved,  \* the names whose row holds addresses other than 0.0.0.0
    file,      \* /etc/dnsmasq.d/blocklist.conf
    dnsmasq,   \* the address= directives dnsmasq has read
    sets,      \* the names whose addresses the packet filter accepts
    fills,     \* the nftset= directives dnsmasq has read: the names it fills the sets for
    serving, pc,
    name,      \* the name a goroutine is allowing or resolving
    asked,     \* `now' when it asked IsBlocked about that name; 0 if that was cut short
    lock,      \* DNSService.mu: the goroutine inside Apply, or Free
    read,      \* the local variables of DNSService.Apply
    \* history and bounds:
    now,       \* changes to the three tables committed so far
    blockedAt, listedAt,  \* the number of the last change to each name
    stamp,     \* the number of the change a goroutine has committed
    settled,   \* the last change whose own Apply has returned nil
    faults, crashes

rules   == <<blocked, listed, blockedAt, listedAt, stamp>>
lists   == <<rules, now>>
allow   == <<allowed, resolved, sets, fills>>
conf    == <<file, dnsmasq>>
work    == <<name, asked>>
control == <<serving, pc, work>>
vars    == <<lists, allow, conf, control, lock, read, settled, faults, crashes>>

-----------------------------------------------------------------------------
(* IsBlocked, and what dnsmasq makes of an address= or nftset= directive: it *)
(* always covers the subdomains too                                          *)

Enforced(n) == blocked[n] \in {"exact", "suffix"}

\* the enabled rule of b, if there is one, matches n
Matches(b, n) ==
    \/ Enforced(b) /\ n = b
    \/ blocked[b] = "suffix" /\ <<n, b>> \in Subdomains

\* (seeded fault: the names are compared, subdomains are not)
IsBlockedExactly(n) == Enforced(n)

IsBlocked(n) == \E b \in Names : Matches(b, n)

Covered(names, n) == \E b \in names : n = b \/ <<n, b>> \in Subdomains

\* sunk: dnsmasq answers 0.0.0.0
Sunk(n) == Covered(dnsmasq.list \cup dnsmasq.hard, n)

NoDirectives == [start |-> 0, list |-> {}, hard |-> {}, complete |-> TRUE]

\* a write that failed half way: os.WriteFile has truncated the file
Cut(f) == [f EXCEPT !.list = {}, !.hard = {}, !.complete = FALSE]

Init ==
    /\ blocked = [n \in Names |-> "none"]
    /\ listed = {}
    /\ allowed = [n \in Names |-> "none"]
    /\ resolved = {}
    /\ file = NoDirectives /\ dnsmasq = NoDirectives
    /\ sets = {} /\ fills = {}
    /\ serving = FALSE
    /\ pc = [p \in Procs |-> IF p = Startup THEN "lock" ELSE "idle"]
    /\ name = [p \in Procs |-> NoName] /\ asked = [p \in Procs |-> 0]
    /\ lock = Free
    /\ read = [p \in Procs |-> NoDirectives]
    /\ now = 1
    /\ blockedAt = [n \in Names |-> 1] /\ listedAt = [n \in Names |-> 1]
    /\ stamp = [p \in Procs |-> IF p = Startup THEN 1 ELSE 0]
    /\ settled = 0
    /\ faults = 0 /\ crashes = 0

Goto(p, label) == pc' = [pc EXCEPT ![p] = label]

-----------------------------------------------------------------------------
(* The handlers of the block lists: a statement, then DNSService.Apply       *)

Starts(r) == serving /\ pc[r] = "idle" /\ now <= MaxChanges

Commit(r, next) ==
    /\ Starts(r)
    /\ now' = now + 1
    /\ stamp' = [stamp EXCEPT ![r] = now + 1]
    /\ Goto(r, next)
    /\ UNCHANGED <<allow, conf, serving, work, lock, read, settled, faults, crashes>>

SetBlocked(n, row) ==
    /\ blocked' = [blocked EXCEPT ![n] = row]
    /\ blockedAt' = [blockedAt EXCEPT ![n] = now + 1]
    /\ UNCHANGED <<listed, listedAt>>

SetListed(names) ==
    /\ listed' = names
    /\ listedAt' = [n \in Names |-> IF (n \in listed) # (n \in names) THEN now + 1
                                    ELSE listedAt[n]]
    /\ UNCHANGED <<blocked, blockedAt>>

\* UNIQUE(domain) refuses a second row
Block(r, n, match) == blocked[n] = "none" /\ Commit(r, "lock") /\ SetBlocked(n, match)

\* row: "off", or the match type of a rule left enabled
UpdateBlock(r, n, row) == blocked[n] # "none" /\ Commit(r, "lock") /\ SetBlocked(n, row)

\* (seeded fault: the handler forgets to apply)
UnblockUnapplied(r, n) == Commit(r, "idle") /\ SetBlocked(n, "none")

Unblock(r, n) == Commit(r, "lock") /\ SetBlocked(n, "none")

CreateEntry(r, n) == n \notin listed /\ Commit(r, "lock") /\ SetListed(listed \cup {n})

DeleteEntry(r, n) == Commit(r, "lock") /\ SetListed(listed \ {n})

\* (seeded fault: the localhost line of a hosts file is not skipped)
ImportHostsFile(r, names) ==
    Commit(r, "lock") /\ SetListed(listed \cup names \cup {"localhost"})

\* INSERT OR IGNORE of many names in one transaction.  The names are not looked at, and
\* are assumed well formed.
ImportDomains(r, names) == Commit(r, "lock") /\ SetListed(listed \cup names)

\* A change of the dns_upstream setting: `go DNS.Apply()', nothing committed here
SettingsApply(r) ==
    /\ Starts(r)
    /\ Goto(r, "lock")
    /\ UNCHANGED <<lists, allow, conf, serving, work, lock, read, settled, faults, crashes>>

-----------------------------------------------------------------------------
(* DNSService.Apply                                                          *)

\* (seeded fault: no mutex)
AcquireUnlocked(p) ==
    /\ pc[p] = "lock"
    /\ lock' = p
    /\ Goto(p, "list")
    /\ UNCHANGED <<lists, allow, conf, serving, work, read, settled, faults, crashes>>

Acquire(p) ==
    /\ pc[p] = "lock" /\ lock = Free
    /\ lock' = p
    /\ Goto(p, "list")
    /\ UNCHANGED <<lists, allow, conf, serving, work, read, settled, faults, crashes>>

ReadList(p) ==
    /\ pc[p] = "list"
    /\ read' = [read EXCEPT ![p] = [NoDirectives EXCEPT !.start = now, !.list = listed]]
    /\ Goto(p, "hard")
    /\ UNCHANGED <<lists, allow, conf, serving, work, lock, settled, faults, crashes>>

\* rows.Err() is not looked at: a read that ends early is taken for the whole list
ReadListShort(p) ==
    /\ pc[p] = "list" /\ faults + crashes < MaxFaults
    /\ faults' = faults + 1
    /\ \E names \in SUBSET listed :
          read' = [read EXCEPT ![p] =
                      [start |-> now, list |-> names, hard |-> {}, complete |-> FALSE]]
    /\ Goto(p, "hard")
    /\ UNCHANGED <<lists, allow, conf, serving, work, lock, settled, crashes>>

EnabledDomains(p) ==
    /\ pc[p] = "hard"
    /\ read' = [read EXCEPT ![p].hard = {n \in Names : Enforced(n)}]
    /\ Goto(p, "write")
    /\ UNCHANGED <<lists, allow, conf, serving, work, lock, settled, faults, crashes>>

\* The error of EnabledDomains is logged and the file is written without the
\* hard-blocked names; a read that ends early is no error, and loses some of them
EnabledDomainsFails(p) ==
    /\ pc[p] = "hard" /\ faults + crashes < MaxFaults
    /\ faults' = faults + 1
    /\ \E names \in SUBSET {n \in Names : Enforced(n)} :
          read' = [read EXCEPT ![p].hard = names, ![p].complete = FALSE]
    /\ Goto(p, "write")
    /\ UNCHANGED <<lists, allow, conf, serving, work, lock, settled, crashes>>

\* (seeded fault: the hard-blocked names are left out)
WriteSoftOnly(p) ==
    /\ pc[p] = "write"
    /\ file' = [read[p] EXCEPT !.hard = {}]
    /\ Goto(p, "reload")
    /\ UNCHANGED <<lists, allow, dnsmasq, serving, work, lock, read, settled, faults, crashes>>

WriteBlocklist(p) ==
    /\ pc[p] = "write"
    /\ file' = read[p]
    /\ Goto(p, "reload")
    /\ UNCHANGED <<lists, allow, dnsmasq, serving, work, lock, read, settled, faults, crashes>>

Return(p, ok) ==
    /\ lock' = Free
    /\ Goto(p, "idle")
    /\ read' = [read EXCEPT ![p] = NoDirectives]
    /\ settled' = IF ok /\ stamp[p] > settled THEN stamp[p] ELSE settled
    /\ serving' = (serving \/ p = Startup)    \* ApplyAll only logs the error
    /\ UNCHANGED <<lists, allow, work, crashes>>

ReloadDnsmasq(p) ==
    /\ pc[p] = "reload"
    /\ dnsmasq' = file
    /\ Return(p, TRUE)
    /\ UNCHANGED <<file, faults>>

\* a step fails: Apply returns the error and undoes nothing
Fault(p, label) ==
    /\ pc[p] = label /\ faults + crashes < MaxFaults
    /\ faults' = faults + 1
    /\ Return(p, FALSE)

ReadListFails(p) == Fault(p, "list") /\ UNCHANGED conf

WriteFails(p) ==
    /\ Fault(p, "write")
    /\ file' \in {file, Cut(read[p])}
    /\ UNCHANGED dnsmasq

\* (seeded fault: the error of the reload is only logged)
ReloadFailureLogged(p) ==
    /\ pc[p] = "reload" /\ faults + crashes < MaxFaults
    /\ faults' = faults + 1
    /\ Return(p, TRUE)
    /\ dnsmasq' \in {dnsmasq, file}
    /\ UNCHANGED file

ReloadFails(p) ==
    /\ Fault(p, "reload")
    /\ dnsmasq' \in {dnsmasq, file}
    /\ UNCHANGED file

-----------------------------------------------------------------------------
(* The allow list.  Creating a row asks IsBlocked first and inserts in a     *)
(* second statement; nothing else asks.                                      *)

CheckBlocked(r, n) ==
    /\ Starts(r)
    /\ ~IsBlocked(n)
    /\ Goto(r, "insert")
    /\ name' = [name EXCEPT ![r] = n] /\ asked' = [asked EXCEPT ![r] = now]
    /\ UNCHANGED <<lists, allow, conf, serving, lock, read, settled, faults, crashes>>

\* A read that ends early answers `not blocked'
CheckCutShort(r, n) ==
    /\ Starts(r) /\ faults + crashes < MaxFaults
    /\ faults' = faults + 1
    /\ Goto(r, "insert")
    /\ name' = [name EXCEPT ![r] = n] /\ asked' = [asked EXCEPT ![r] = 0]
    /\ UNCHANGED <<lists, allow, conf, serving, lock, read, settled, crashes>>

AllowStep(p, next) ==
    /\ Goto(p, next)
    /\ UNCHANGED <<rules, conf, serving, lock, read, settled, faults, crashes>>

InsertAllowed(r) ==
    /\ pc[r] = "insert"
    /\ allowed' = [allowed EXCEPT ![name[r]] = "on"]
    /\ now' = now + 1
    /\ AllowStep(r, "lookup")
    /\ asked' = [asked EXCEPT ![r] = 0]
    /\ UNCHANGED <<resolved, sets, fills, name>>

UpdateAllowed(r, n, row) ==
    /\ Starts(r) /\ allowed[n] # "none"
    /\ allowed' = [allowed EXCEPT ![n] = row]
    /\ now' = now + 1
    /\ AllowStep(r, "firewall")
    /\ UNCHANGED <<resolved, sets, fills, work>>

DeleteAllowed(r, n) ==
    /\ Starts(r) /\ allowed[n] # "none"
    /\ allowed' = [allowed EXCEPT ![n] = "none"]
    /\ now' = now + 1
    /\ resolved' = resolved \ {n}
    /\ AllowStep(r, "firewall")
    /\ UNCHANGED <<sets, fills, work>>

RefreshAll(n) ==
    /\ serving /\ pc[Refresher] = "idle" /\ allowed[n] = "on"
    /\ name' = [name EXCEPT ![Refresher] = n]
    /\ AllowStep(Refresher, "lookup")
    /\ UNCHANGED <<now, allow, asked>>

\* dnsmasq adds what it resolves to the sets its directives name, and answers 0.0.0.0 for
\* what is sunk
Learnt(n) == IF Covered(fills, n) /\ ~Sunk(n) THEN sets \cup {n} ELSE sets

Lookup(p) ==
    /\ pc[p] = "lookup"
    /\ sets' = Learnt(name[p])
    /\ AllowStep(p, IF Sunk(name[p]) THEN "zero" ELSE "store")
    /\ UNCHANGED <<now, allowed, resolved, fills, work>>

StoreResolved(p) ==
    /\ pc[p] \in {"zero", "store"}
    /\ resolved' = IF pc[p] = "store" /\ allowed[name[p]] # "none"
                   THEN resolved \cup {name[p]} ELSE resolved \ {name[p]}
    /\ name' = [name EXCEPT ![p] = NoName]
    /\ AllowStep(p, IF p = Refresher THEN "idle" ELSE "firewall")
    /\ UNCHANGED <<now, allowed, sets, fills, asked>>

LookupFails(p) ==
    /\ pc[p] = "lookup"
    /\ name' = [name EXCEPT ![p] = NoName]
    /\ AllowStep(p, IF p = Refresher THEN "idle" ELSE "firewall")
    /\ UNCHANGED <<now, allow, asked>>

\* FirewallService.Apply: the sets and the nftset directives are made anew from the rows,
\* and dnsmasq is reloaded
Refill ==
    LET on == {n \in Names : allowed[n] = "on"}
    IN  sets' = resolved \cap on /\ fills' = on /\ dnsmasq' = file

FirewallApply(r) ==
    /\ pc[r] = "firewall"
    /\ Refill
    /\ Goto(r, "idle")
    /\ UNCHANGED <<lists, allowed, resolved, file, serving, work, lock, read, settled,
                   faults, crashes>>

-----------------------------------------------------------------------------
ClientQuery(n) ==
    /\ sets' = Learnt(n)
    /\ UNCHANGED <<lists, allowed, resolved, fills, conf, control, lock, read, settled,
                   faults, crashes>>

\* called for rules, devices and policies, and at start-up
FirewallReload ==
    /\ Refill
    /\ UNCHANGED <<lists, allowed, resolved, file, control, lock, read, settled, faults,
                   crashes>>

\* The daemon dies and systemd starts it again
Crash ==
    /\ faults + crashes < MaxFaults
    /\ crashes' = crashes + 1
    /\ serving' = FALSE
    /\ pc' = [p \in Procs |-> IF p = Startup THEN "lock" ELSE "idle"]
    /\ name' = [p \in Procs |-> NoName] /\ asked' = [p \in Procs |-> 0]
    /\ lock' = Free
    /\ read' = [p \in Procs |-> NoDirectives]
    /\ stamp' = [stamp EXCEPT ![Startup] = now]
    /\ \/ UNCHANGED file
       \/ \E p \in Appliers : pc[p] = "write" /\ file' = Cut(read[p])
    /\ UNCHANGED <<blocked, listed, now, blockedAt, listedAt, allow, dnsmasq, settled, faults>>

BlockRequest(r) ==
    \E n \in Blockable :
        \/ \E match \in {"exact", "suffix"} : Block(r, n, match)
        \/ \E row \in {"off", "exact", "suffix"} : UpdateBlock(r, n, row)
        \/ Unblock(r, n)
        \/ CreateEntry(r, n) \/ DeleteEntry(r, n)

AllowRequest(r) ==
    \E n \in Allowable :
        \/ CheckBlocked(r, n) \/ CheckCutShort(r, n)
        \/ \E row \in {"off", "on"} : UpdateAllowed(r, n, row)
        \/ DeleteAllowed(r, n)

Continue(p) ==
    \/ Lookup(p) \/ StoreResolved(p) \/ LookupFails(p)
    \/ p \in Requests /\ (InsertAllowed(p) \/ FirewallApply(p))
    \/ p \in Appliers /\ (\/ Acquire(p) \/ ReadList(p) \/ EnabledDomains(p)
                          \/ WriteBlocklist(p) \/ ReloadDnsmasq(p))

ApplyFails(p) ==
    \/ ReadListFails(p) \/ ReadListShort(p) \/ EnabledDomainsFails(p)
    \/ WriteFails(p) \/ ReloadFails(p)

Next ==
    \/ \E r \in Requests : BlockRequest(r) \/ AllowRequest(r) \/ SettingsApply(r)
    \/ \E r \in Requests, names \in SUBSET Blockable : ImportDomains(r, names)
    \/ \E n \in Names : RefreshAll(n) \/ ClientQuery(n)
    \/ \E p \in Procs : Continue(p)
    \/ \E p \in Appliers : ApplyFails(p)
    \/ FirewallReload
    \/ Crash

Spec == Init /\ [][Next]_vars

\* A goroutine that can run runs, and sync.Mutex hands the lock to who waits
FairSpec == Spec /\ \A p \in Procs : WF_vars(Continue(p))

-----------------------------------------------------------------------------
(* Properties *)

Directives == [start : Nat, list : SUBSET Names, hard : SUBSET Names, complete : BOOLEAN]

\* Types of the lists, the file and the goroutines' variables.
TypeOK ==
    /\ blocked \in [Names -> {"none", "off", "exact", "suffix"}]
    /\ listed \subseteq Names /\ resolved \subseteq Names
    /\ sets \subseteq Names /\ fills \subseteq Names
    /\ allowed \in [Names -> {"none", "off", "on"}]
    /\ file \in Directives /\ dnsmasq \in Directives
    /\ serving \in BOOLEAN
    /\ pc \in [Procs -> {"idle", "insert", "lookup", "zero", "store", "firewall",
                         "lock", "list", "hard", "write", "reload"}]
    /\ name \in [Procs -> Names \cup {NoName}] /\ asked \in [Procs -> Nat]
    /\ lock \in Appliers \cup {Free}
    /\ read \in [Procs -> Directives]
    /\ now \in Nat /\ settled \in Nat
    /\ blockedAt \in [Names -> Nat] /\ listedAt \in [Names -> Nat]
    /\ stamp \in [Procs -> Nat]
    /\ faults \in Nat /\ crashes \in Nat

\* What dnsmasq sinks is what the two lists say, for every name whose last change
\* has been answered with success or came before one that was, as long as dnsmasq
\* runs a file that is complete (none of its reads failed or ended early, its write
\* was not cut short).  No interleaving of Applies, failures, crashes and reloads by the
\* firewall takes a block back.
SettledIsSunk ==
    dnsmasq.complete =>
        \A n \in Names :
            /\ blockedAt[n] <= settled => (n \in dnsmasq.hard <=> Enforced(n))
            /\ listedAt[n] <= settled => (n \in dnsmasq.list <=> n \in listed)

\* The guard in front of the allow list can only be outrun: when a row is created
\* for a name that an enabled rule matches, that rule was changed after the guard
\* was asked, or the guard's own read of the rules ended early, which answers that
\* nothing is blocked.
OnlyOutrun ==
    [][\A r \in Requests, b \in Names :
          pc[r] = "insert" /\ pc'[r] = "lookup" /\ Matches(b, name[r])
              => blockedAt[b] > asked[r]]_vars

\* dnsmasq never goes back to a list generated from older tables.
NeverOlder == [][dnsmasq'.start >= dnsmasq.start]_vars

\* The abstract promise of Enforcement for the one target that reads the block lists:
\* what dnsmasq runs reflects the changes up to the moment Apply began to read them.
\* Whether all its reads have succeeded is what SettledIsSunk tells apart.
Abstract == INSTANCE Enforcement WITH
    Targets   <- {"dnsmasq"},
    committed <- now,
    live      <- [t \in {"dnsmasq"} |-> dnsmasq.start],
    settled   <- settled

\* Every behaviour of the daemon is one of Enforcement: a change of the block lists is
\* reported as enforced only when dnsmasq has read a file generated after it, be it by
\* another goroutine's reload, and dnsmasq only moves forward.
ImplementsEnforcement == Abstract!Spec

UpToDate == dnsmasq.hard = {n \in Names : Enforced(n)} /\ dnsmasq.list = listed

\* Whenever nobody is to apply the lists or doing so, and no statement or command has
\* failed, dnsmasq sinks exactly their names.  Every change so far has been applied by
\* its own handler, by one that read after it, or, when a crash came between, by
\* start-up; no Apply has left an older list behind another's, and no file cut short
\* by the crash, or half-way state reloaded by the firewall, has stayed.
QuietIsApplied ==
    faults = 0 /\ (\A p \in Appliers : pc[p] \notin {"lock", "list", "hard", "write", "reload"})
        => UpToDate

\* Once changes stop, and unless a statement or a command has failed, dnsmasq sinks
\* exactly the names of the two lists, a crash notwithstanding.
SinkConverges == <>[](faults > 0 \/ UpToDate)

\* A domain on the block list "must never be reachable -- even via the
\* allow-list": once the block has been answered with success, the packet filter
\* accepts none of its addresses.
NeverReachable ==
    \A n \in Names : Enforced(n) /\ blockedAt[n] <= settled => n \notin sets
=============================================================================
