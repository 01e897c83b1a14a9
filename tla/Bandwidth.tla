----------------------------- MODULE Bandwidth -----------------------------
(***************************************************************************)
(* Bandwidth limits: the handlers that change bandwidth_limits and call    *)
(* BandwidthService.Apply, what Apply makes of the queueing disciplines of *)
(* the LAN interface and of ifb0, and the scanner that keeps the devices'  *)
(* addresses.                                                              *)
(*                                                                         *)
(* One query is a step, with the commands up to the next one: they touch   *)
(* only the kernel, which nobody else does while Apply holds its mutex.    *)
(* The tables are written without it.  The qdiscs outlive the daemon but   *)
(* not a reboot.                                                           *)
(***************************************************************************)
EXTENDS Naturals, Sequences

CONSTANTS
    Devices,     \* MAC addresses, in upper case as the scanner stores them
    Macs,        \* the texts that requests give for them: device_mac
    Upper,       \* the address in upper case of each text
    Addrs,       \* IP addresses
    NoAddr,      \* "no address" in the devices table
    Settings,    \* the limits a request can give: [down, up, on]
    DefaultClass,\* the class of everything that no limit is for, 999 in the code
    Requests,    \* goroutines serving HTTP requests, one request at a time
    Startup,     \* the main goroutine: ApplyAll, then serve
    Free,        \* "the mutex is not held"
    MaxChanges,  \* bound: no request starts once this many changes are committed
    MaxLeases,   \* bound: changes of a device's address
    MaxFaults    \* bound: queries and commands that fail, and ends of the daemon

Procs == Requests \cup {Startup}

ASSUME BandwidthAssumption ==
    /\ Startup \notin Requests /\ Free \notin Procs
    /\ NoAddr \notin Addrs /\ DefaultClass \in Nat /\ Upper \in [Macs -> Devices]
    /\ Settings \subseteq [down : Nat, up : Nat, on : BOOLEAN]
    /\ MaxChanges \in Nat /\ MaxLeases \in Nat /\ MaxFaults \in Nat

VARIABLES
    limits,    \* bandwidth_limits, in the order of their ids
    addr,      \* devices: ip_address
    serving,   \* the HTTP server is up, and the scanner runs
    pc,        \* where each goroutine stands
    lock,      \* BandwidthService.mu: the goroutine inside Apply, or Free
    active,    \* the enabled limits Apply has read
    row,       \* the one it is at
    lan,       \* the root qdisc of the LAN interface, its classes and filters
    redirect,  \* the LAN interface has the ingress qdisc that feeds ifb0
    ifb,       \* the root qdisc of ifb0, its classes and filters
    lease,     \* the address by which each device is seen: DHCP lease or ARP
    found,     \* the devices the scanner's round still has to store
    \* history, to state the properties with:
    now,       \* changes committed so far
    stamp,     \* the number of the change a goroutine has still to apply, or 1
    settled,   \* the last change whose own Apply has returned nil
    clean,     \* the last Apply has ended, and returned nil
    kept,      \* what the last Apply's two `qdisc del' have failed to delete
    used,      \* the address to which the last Apply has held each limit, downloads and
               \* uploads apart: none for a device without one, and for a limit it has
               \* passed over as one of its rows, queries or commands failed
    \* bounds:
    leases, faults

tables == <<limits, addr>>
apply  == <<pc, lock, active, row>>
kernel == <<lan, redirect, ifb>>
scan   == <<lease, found, leases>>
history == <<now, stamp, settled, clean, kept, used>>
vars   == <<tables, serving, apply, kernel, scan, history, faults>>

-----------------------------------------------------------------------------
(* tc *)

Unlimited == 0

\* A filter sends an address to a class; 0 is "none"
NoTree == [root |-> FALSE, class |-> [s \in {} |-> Unlimited], filter |-> [a \in Addrs |-> 0]]

Root == [NoTree EXCEPT !.root = TRUE]

Has(tree, slot) == slot \in DOMAIN tree.class

\* `class add' is refused without the root, for a class that exists, as the default class
\* does since the root was set up, and at rate 0
Accepts(tree, slot, rate) ==
    tree.root /\ slot # DefaultClass /\ ~Has(tree, slot) /\ rate > 0

AddClass(tree, slot, rate) ==
    IF Accepts(tree, slot, rate)
    THEN [tree EXCEPT !.class = [s \in DOMAIN @ \cup {slot} |->
                                    IF s = slot THEN rate ELSE @[s]]]
    ELSE tree

\* `filter add': appended, so that an older filter of the address goes first
AddFilter(tree, a, slot) ==
    IF tree.root /\ tree.filter[a] = 0 THEN [tree EXCEPT !.filter[a] = slot] ELSE tree

\* What traffic of the address meets; a class that is not there means the default
Rate(tree, a) ==
    IF Has(tree, tree.filter[a]) THEN tree.class[tree.filter[a]] ELSE Unlimited

DownRate(a) == Rate(lan, a)

UpRate(a) == IF redirect THEN Rate(ifb, a) ELSE Unlimited

-----------------------------------------------------------------------------
(* bandwidth_limits *)

At(m) == {i \in DOMAIN limits : limits[i].mac = m}

Limit(m, s) == [mac |-> m, down |-> s.down, up |-> s.up, on |-> s.on]

\* INSERT ... ON CONFLICT(device_mac) DO UPDATE: one row for each text, not each device
CreateLimitIn(m, s) ==
    IF At(m) = {} THEN Append(limits, Limit(m, s))
    ELSE [i \in DOMAIN limits |-> IF i \in At(m) THEN Limit(m, s) ELSE limits[i]]

\* by id: the device stays; no row, no effect
UpdateLimitIn(m, s) ==
    [i \in DOMAIN limits |-> IF i \in At(m) THEN Limit(m, s) ELSE limits[i]]

DeleteLimitIn(m) ==
    IF At(m) = {} THEN limits
    ELSE LET i == CHOOSE i \in At(m) : TRUE
         IN  [j \in 1..Len(limits) - 1 |-> limits[IF j < i THEN j ELSE j + 1]]

NoUse == [side \in {"down", "up"} |-> [m \in Macs |-> NoAddr]]

\* getDeviceIP
AddrOf(l) == addr[Upper[l.mac]]

\* Apply's loop that appends the enabled rows to `active'
EnabledIn(rows) ==
    LET upto[n \in 0..Len(rows)] ==
            IF n = 0 THEN <<>>
            ELSE IF rows[n].on THEN Append(upto[n - 1], rows[n]) ELSE upto[n - 1]
    IN  upto[Len(rows)]

Enabled == EnabledIn(limits)

Init ==
    /\ limits = <<>>
    /\ addr = [m \in Devices |-> NoAddr]
    /\ serving = FALSE
    /\ pc = [p \in Procs |-> IF p = Startup THEN "lock" ELSE "idle"]
    /\ lock = Free /\ active = <<>> /\ row = 1
    /\ lan = NoTree /\ redirect = FALSE /\ ifb = NoTree
    /\ lease = [m \in Devices |-> NoAddr] /\ found = [m \in {} |-> NoAddr]
    /\ now = 1 /\ stamp = [p \in Procs |-> 1] /\ settled = 0
    /\ clean = FALSE /\ kept = {} /\ used = NoUse
    /\ leases = 0 /\ faults = 0

-----------------------------------------------------------------------------
(* The handlers: commit, then Apply *)

Commit(r, new) ==
    /\ serving /\ pc[r] = "idle" /\ now <= MaxChanges
    /\ limits' = new
    /\ now' = now + 1
    /\ stamp' = [stamp EXCEPT ![r] = now + 1]
    /\ pc' = [pc EXCEPT ![r] = "lock"]
    /\ UNCHANGED <<addr, serving, lock, active, row, kernel, scan, settled, clean, kept,
                   used, faults>>

CreateLimit(r, m, s) == Commit(r, CreateLimitIn(m, s))

UpdateLimit(r, m, s) == Commit(r, UpdateLimitIn(m, s))

DeleteLimit(r, m) == Commit(r, DeleteLimitIn(m))

-----------------------------------------------------------------------------
(* BandwidthService.Apply, in the order of its queries and commands *)

\* (seeded fault: no mutex)
AcquireUnlocked(p) ==
    /\ pc[p] = "lock"
    /\ lock' = p
    /\ pc' = [pc EXCEPT ![p] = "clear"]
    /\ kept' = {} /\ used' = NoUse
    /\ UNCHANGED <<tables, serving, active, row, kernel, scan, now, stamp, settled,
                   clean, faults>>

Acquire(p) ==
    /\ pc[p] = "lock" /\ lock = Free
    /\ lock' = p
    /\ pc' = [pc EXCEPT ![p] = "clear"]
    /\ kept' = {} /\ used' = NoUse
    /\ UNCHANGED <<tables, serving, active, row, kernel, scan, now, stamp, settled,
                   clean, faults>>

\* (seeded fault: no deferred Unlock)
ReturnLocked(p, ok) ==
    /\ lock' = lock
    /\ pc' = [pc EXCEPT ![p] = "idle"]
    /\ active' = <<>> /\ row' = 1
    /\ settled' = IF ok /\ stamp[p] > settled THEN stamp[p] ELSE settled
    /\ clean' = ok
    /\ serving' = (serving \/ p = Startup)
    /\ stamp' = [stamp EXCEPT ![p] = 1]
    /\ UNCHANGED <<tables, scan, now>>

\* The deferred Unlock, and the answer; ApplyAll only logs an error
Return(p, ok) ==
    /\ lock' = Free
    /\ pc' = [pc EXCEPT ![p] = "idle"]
    /\ active' = <<>> /\ row' = 1
    /\ settled' = IF ok /\ stamp[p] > settled THEN stamp[p] ELSE settled
    /\ clean' = ok
    /\ serving' = (serving \/ p = Startup)
    /\ stamp' = [stamp EXCEPT ![p] = 1]
    /\ UNCHANGED <<tables, scan, now>>

\* p goes from one label to the next
Step(p, label, next) ==
    /\ pc[p] = label
    /\ pc' = [pc EXCEPT ![p] = next]
    /\ UNCHANGED <<tables, serving, lock, scan, now, stamp, settled, clean>>

\* (seeded fault: the redirect to ifb0 is left)
ClearRootOnly(p) ==
    /\ Step(p, "clear", "list")
    /\ lan' = NoTree
    /\ UNCHANGED <<redirect, ifb, active, row, kept, used, faults>>

Clear(p) ==
    /\ Step(p, "clear", "list")
    /\ lan' = NoTree /\ redirect' = FALSE
    /\ UNCHANGED <<ifb, active, row, kept, used, faults>>

\* The enabled limits, and the root qdisc with its default class
ListLimits(p) ==
    /\ Enabled # <<>> /\ ~lan.root
    /\ Step(p, "list", "row")
    /\ active' = Enabled /\ row' = 1
    /\ lan' = Root
    /\ UNCHANGED <<redirect, ifb, kept, used, faults>>

\* No active limits: return before anything is set up
NothingActive(p) ==
    /\ pc[p] = "list" /\ Enabled = <<>>
    /\ Return(p, TRUE)
    /\ UNCHANGED <<kernel, kept, used, faults>>

\* `qdisc add' fails when the root was not cleared
RootExists(p) ==
    /\ pc[p] = "list" /\ Enabled # <<>> /\ lan.root
    /\ Return(p, FALSE)
    /\ UNCHANGED <<kernel, kept, used, faults>>

\* One round of a loop over the active limits
Round(p, label) ==
    /\ pc[p] = label /\ row <= Len(active)
    /\ row' = row + 1
    /\ UNCHANGED <<tables, serving, pc, lock, active, scan, now, stamp, settled, clean, kept>>

\* (seeded fault: the filter names the class of the row before)
LimitOffByOne(p) ==
    LET l == active[row]
        a == AddrOf(l)
    IN  /\ Round(p, "row")
        /\ lan' = IF a = NoAddr \/ ~Accepts(lan, row, l.down) THEN lan
                  ELSE AddFilter(AddClass(lan, row, l.down), a, IF row > 1 THEN row - 1 ELSE row)
        /\ used' = IF l.down = 0 THEN used ELSE [used EXCEPT !.down[l.mac] = a]
        /\ UNCHANGED <<redirect, ifb, faults>>

\* The device's address, its class and its filter.  When the class is refused that is
\* logged, and the device skipped.
LimitDownload(p) ==
    LET l == active[row]
        a == AddrOf(l)
    IN  /\ Round(p, "row")
        /\ lan' = IF a = NoAddr \/ ~Accepts(lan, row, l.down) THEN lan
                  ELSE AddFilter(AddClass(lan, row, l.down), a, row)
        /\ used' = IF l.down = 0 THEN used ELSE [used EXCEPT !.down[l.mac] = a]
        /\ UNCHANGED <<redirect, ifb, faults>>

\* Out of the first loop: the ingress qdisc with its filter, then ifb0, its root and its
\* default class, which are there already after the first time
SetupIfb(p) ==
    /\ row > Len(active)
    /\ Step(p, "row", "up row")
    /\ redirect' = TRUE
    /\ ifb' = [ifb EXCEPT !.root = TRUE]
    /\ row' = 1
    /\ UNCHANGED <<lan, active, kept, used, faults>>

\* Errors are not looked at: the filter follows a class that was refused
LimitUpload(p) ==
    LET l == active[row]
        a == AddrOf(l)
    IN  /\ Round(p, "up row")
        /\ IF l.up = 0 \/ a = NoAddr THEN UNCHANGED <<ifb, used>>
           ELSE /\ ifb' = AddFilter(AddClass(ifb, row, l.up), a, row)
                /\ used' = [used EXCEPT !.up[l.mac] = a]
        /\ UNCHANGED <<lan, redirect, faults>>

Finish(p) ==
    /\ pc[p] = "up row" /\ row > Len(active)
    /\ Return(p, TRUE)
    /\ UNCHANGED <<kernel, kept, used, faults>>

-----------------------------------------------------------------------------
(* Failures.  The query and the two commands that set up the root end Apply;   *)
(* any other that fails, and a list that ends short, is passed over.  What is  *)
(* killed at the executor's 30 s limit may have had its effect, and what       *)
(* comes before it in the same step has.                                      *)

Fault(p, label) ==
    /\ pc[p] = label /\ faults < MaxFaults
    /\ faults' = faults + 1

ListFails(p) ==
    /\ Fault(p, "list")
    /\ Return(p, FALSE)
    /\ lan' \in {lan} \cup (IF Enabled # <<>> /\ ~lan.root THEN {Root} ELSE {})
    /\ UNCHANGED <<redirect, ifb, kept, used>>

\* rows.Err() is not looked at: a read that ends early is taken for the whole list
ListShort(p) ==
    /\ Fault(p, "list")
    /\ \/ /\ Enabled # <<>>
          /\ Return(p, TRUE)
          /\ UNCHANGED lan
       \/ \E n \in 1..Len(Enabled) - 1 :
             /\ ~lan.root
             /\ Step(p, "list", "row")
             /\ active' = SubSeq(Enabled, 1, n) /\ row' = 1
             /\ lan' = Root
    /\ UNCHANGED <<redirect, ifb, kept, used>>

\* Neither error is looked at
ClearFails(p) ==
    /\ Fault(p, "clear")
    /\ Step(p, "clear", "list")
    /\ lan' \in {lan, NoTree} /\ redirect' \in {redirect, FALSE}
    /\ kept' = (IF lan'.root THEN {"root"} ELSE {}) \cup (IF redirect' THEN {"ingress"} ELSE {})
    /\ UNCHANGED <<ifb, active, row, used>>

\* The address is not found, or the class or the filter is not added
DownloadFails(p) ==
    LET l == active[row]
    IN  /\ Fault(p, "row")
        /\ Round(p, "row")
        /\ lan' \in {lan} \cup (IF AddrOf(l) = NoAddr THEN {} ELSE {AddClass(lan, row, l.down)})
        /\ UNCHANGED <<redirect, ifb, used>>

SetupFails(p) ==
    /\ row > Len(active)
    /\ Fault(p, "row")
    /\ Step(p, "row", "up row")
    /\ \/ redirect' = TRUE /\ UNCHANGED ifb
       \/ ifb' = [ifb EXCEPT !.root = TRUE] /\ UNCHANGED redirect
    /\ row' = 1
    /\ UNCHANGED <<lan, active, kept, used>>

UploadFails(p) ==
    LET l == active[row]
        a == AddrOf(l)
    IN  /\ Fault(p, "up row")
        /\ Round(p, "up row")
        /\ ifb' \in {ifb} \cup (IF l.up = 0 \/ a = NoAddr THEN {}
                                ELSE {AddClass(ifb, row, l.up), AddFilter(ifb, a, row)})
        /\ UNCHANGED <<lan, redirect, used>>

ApplyFails(p) ==
    \/ ListFails(p) \/ ListShort(p) \/ ClearFails(p)
    \/ DownloadFails(p) \/ SetupFails(p) \/ UploadFails(p)

-----------------------------------------------------------------------------
(* The scanner *)

\* A device gets another address, or leaves
Renew(m, a) ==
    /\ leases < MaxLeases
    /\ leases' = leases + 1
    /\ a # lease[m] /\ (a # NoAddr => \A o \in Devices : lease[o] # a)
    /\ lease' = [lease EXCEPT ![m] = a]
    /\ UNCHANGED <<tables, serving, apply, kernel, found, history, faults>>

\* parseDHCPLeases and parseARP
Scan ==
    /\ serving /\ DOMAIN found = {}
    /\ found' = [m \in {d \in Devices : lease[d] # NoAddr} |-> lease[m]]
    /\ UNCHANGED <<tables, serving, apply, kernel, lease, leases, history, faults>>

\* (logged nowhere: a file that cannot be opened leaves out the devices only it names)
ScanMisses ==
    /\ serving /\ DOMAIN found = {} /\ faults < MaxFaults
    /\ faults' = faults + 1
    /\ \E S \in SUBSET {d \in Devices : lease[d] # NoAddr} : found' = [m \in S |-> lease[m]]
    /\ UNCHANGED <<tables, serving, apply, kernel, lease, leases, history>>

Stored(m) == found' = [d \in DOMAIN found \ {m} |-> found[d]]

\* (seeded fault: a device that is known keeps its address)
InsertDevice(m) ==
    /\ m \in DOMAIN found
    /\ addr' = [addr EXCEPT ![m] = IF @ = NoAddr THEN found[m] ELSE @]
    /\ Stored(m)
    /\ UNCHANGED <<limits, serving, apply, kernel, lease, leases, history, faults>>

upsertDevice(m) ==
    /\ m \in DOMAIN found
    /\ addr' = [addr EXCEPT ![m] = found[m]]
    /\ Stored(m)
    /\ UNCHANGED <<limits, serving, apply, kernel, lease, leases, history, faults>>

\* logged; the next round tries again
UpsertFails(m) ==
    /\ m \in DOMAIN found /\ faults < MaxFaults
    /\ faults' = faults + 1
    /\ Stored(m)
    /\ UNCHANGED <<tables, serving, apply, kernel, lease, leases, history>>

-----------------------------------------------------------------------------
\* The daemon starts again
Restart ==
    /\ faults < MaxFaults
    /\ faults' = faults + 1
    /\ serving' = FALSE
    /\ pc' = [p \in Procs |-> IF p = Startup THEN "lock" ELSE "idle"]
    /\ lock' = Free /\ active' = <<>> /\ row' = 1
    /\ found' = [m \in {} |-> NoAddr]
    /\ stamp' = [p \in Procs |-> IF p = Startup THEN now ELSE 1]
    /\ clean' = FALSE
    /\ UNCHANGED <<tables, lease, leases, now, settled, kept, used>>

\* The end comes after the first command of several
Halfway(p) ==
    LET l == active[row]
    IN  \/ pc[p] = "clear" /\ lan' = NoTree /\ UNCHANGED <<redirect, ifb>>
        \/ pc[p] = "list" /\ Enabled # <<>> /\ ~lan.root /\ lan' = Root /\ UNCHANGED <<redirect, ifb>>
        \/ /\ pc[p] = "row" /\ row <= Len(active) /\ AddrOf(l) # NoAddr
           /\ lan' = AddClass(lan, row, l.down) /\ UNCHANGED <<redirect, ifb>>
        \/ pc[p] = "row" /\ row > Len(active) /\ redirect' = TRUE /\ UNCHANGED <<lan, ifb>>
        \/ /\ pc[p] = "up row" /\ row <= Len(active) /\ AddrOf(l) # NoAddr
           /\ ifb' = AddClass(ifb, row, l.up) /\ UNCHANGED <<lan, redirect>>

Crash == Restart /\ (UNCHANGED kernel \/ \E p \in Procs : Halfway(p))

Reboot == Restart /\ lan' = NoTree /\ redirect' = FALSE /\ ifb' = NoTree

ApplyStep(p) ==
    \/ Acquire(p) \/ Clear(p) \/ ListLimits(p) \/ NothingActive(p) \/ RootExists(p)
    \/ LimitDownload(p) \/ SetupIfb(p) \/ LimitUpload(p) \/ Finish(p)

Scanner == Scan \/ \E m \in Devices : upsertDevice(m)

Next ==
    \/ \E r \in Requests, m \in Macs :
          \/ \E s \in Settings : CreateLimit(r, m, s) \/ UpdateLimit(r, m, s)
          \/ DeleteLimit(r, m)
    \/ \E p \in Procs : ApplyStep(p) \/ ApplyFails(p)
    \/ Scanner \/ ScanMisses
    \/ \E m \in Devices : UpsertFails(m) \/ \E a \in Addrs \cup {NoAddr} : Renew(m, a)
    \/ Crash \/ Reboot

Spec == Init /\ [][Next]_vars

\* Goroutines run, commands end, and the scanner has its round every 30 seconds
FairSpec == Spec /\ (\A p \in Procs : WF_vars(ApplyStep(p))) /\ WF_vars(Scanner)

-----------------------------------------------------------------------------
(* Properties *)

Labels == {"idle", "lock", "clear", "list", "row", "up row"}

InApply == {p \in Procs : pc[p] \notin {"idle", "lock"}}

\* The shape of the state; the mutex is held by the one goroutine inside Apply, and an
\* HTB root that is not there has neither classes nor filters.
TypeOK ==
    /\ \A i, j \in DOMAIN limits : limits[i].mac = limits[j].mac => i = j
    /\ addr \in [Devices -> Addrs \cup {NoAddr}]
    /\ lease \in [Devices -> Addrs \cup {NoAddr}]
    /\ DOMAIN found \subseteq Devices
    /\ pc \in [Procs -> Labels]
    /\ InApply = IF lock = Free THEN {} ELSE {lock}
    /\ row \in 1..Len(active) + 1
    /\ \A tree \in {lan, ifb} : ~tree.root => tree = NoTree
    /\ redirect \in BOOLEAN /\ serving \in BOOLEAN /\ clean \in BOOLEAN
    /\ stamp \in [Procs -> 1..now] /\ settled \in 0..now

\* The last change has been answered with success, and so has every Apply since, the
\* start's included: none has returned an error, and none is under way
Settled == settled = now /\ lock = Free /\ clean

\* The rows that limit an address in one direction, by the addresses Apply has held them to
Limiting(a, side) ==
    {i \in DOMAIN Enabled : Enabled[i][side] > 0 /\ used[side][Enabled[i].mac] = a}

Demanded(a, side) ==
    IF Limiting(a, side) = {} THEN Unlimited
    ELSE LET first == CHOOSE i \in Limiting(a, side) :
                         \A j \in Limiting(a, side) : i <= j
         IN  Enabled[first][side]

\* Once the last change is answered with success, the downloads of an address are held to
\* the first enabled limit that Apply has set up for it, at its rate of now, and to nothing
\* else, whatever older limits, deleted limits, other Applies and restarts have left in the
\* kernel: Apply clears the root and numbers classes and filters alike.  The success does
\* not say that every limit was set up: one whose row, address, class or filter failed was
\* passed over, and so is not `used'.  Nor does it say that the root was deleted when no
\* limit was left to set up.  The limit whose number is the default class's cannot be set
\* up: fewer than those.
SettledIsShaped ==
    Settled /\ "root" \notin kept /\ Len(Enabled) < DefaultClass =>
        \A a \in Addrs : DownRate(a) = Demanded(a, "down")

\* The page says that without limits the devices have unlimited bandwidth.  That is so in
\* each direction whose `qdisc del' has not failed on the last Apply, which answers success
\* either way: although ifb0 keeps the classes of the limits that are gone, nothing feeds
\* it any more.
UnlimitedWithoutLimits ==
    Settled /\ Enabled = <<>> =>
        \A a \in Addrs : /\ "root" \notin kept => DownRate(a) = Unlimited
                         /\ "ingress" \notin kept => UpRate(a) = Unlimited

\* What SettledIsShaped says, for uploads.  The code does not do it: ifb0 is never
\* cleared, and a class or filter that exists is not added again.
UploadIsShaped == Settled => \A a \in Addrs : UpRate(a) = Demanded(a, "up")

\* Whatever a failed write loses, the scanner ends with the address of every device that
\* is there: an address is rewritten in each round, not only when the device is new.
AddressesConverge ==
    <>[](\A m \in Devices : lease[m] # NoAddr => addr[m] = lease[m])

\* Once the changes end, every request that has committed one has come back from Apply,
\* through whatever return Apply takes, and so has the start: no path leaves the mutex
\* locked.
ApplyReturns == <>[](\A p \in Procs : pc[p] = "idle")
=============================================================================
