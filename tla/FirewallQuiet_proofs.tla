------------------------ MODULE FirewallQuiet_proofs ------------------------
(***************************************************************************)
(* No change is forgotten: the safety half of Converges, for all sets of    *)
(* requests, policies, domains, devices and rules, any number of changes    *)
(* and crashes.  Beside the invariant of FirewallApply_proofs it takes one   *)
(* about who still has to apply what.                                       *)
(***************************************************************************)
EXTENDS FirewallApply_proofs

\* Somebody has an Apply to run, or is in one, for a change later than n.
Owes(n) == \E p \in Appliers : pc[p] # "idle" /\ stamp[p] > n

\* The tables whose every change is followed by an Apply; a policy may be created
\* without one, and the refresh loop stores addresses without one.
Promised == {"rules", "devices", "assigns"}

ChainsRight(chains) == \A q \in Policies : chains[q] \in {NoMode, db.policies[q]}

\* What p has read so far is all there was, and still what the tables say.
ReadRight(p) ==
    /\ \A t \in Promised : written[t] <= snap[p].start
    /\ snap[p].short = {}
    /\ pc[p] \in AfterPolicies =>
          /\ ChainsRight(snap[p].policies) /\ snap[p].policies[Default] # NoMode
          /\ \A pd \in Pairs :
                pd[1] \notin unread[p] =>
                    (snap[p].domains[pd] = "on" <=> db.domains[pd] = "on")

\* The policies p has read have a chain for every device's assignment, unless the
\* assignments have changed since.
Assignable(p) ==
    pc[p] \in AfterPolicies /\ written["assigns"] <= snap[p].start =>
        \A m \in Devices :
            db.assigns[m] # NoPolicy => snap[p].policies[db.assigns[m]] # NoMode

\* The file about to be loaded is the one p has written.
Generated(p) ==
    pc[p] = "load" => \E lost \in SUBSET NamedRules : nftFile = generateConfig(snap[p], lost)

KernelRight ==
    /\ \A t \in Promised : written[t] <= kernel.start
    /\ kernel.short = {}
    /\ ChainsRight(kernel.chains) /\ kernel.chains[Default] # NoMode

LinesRight(f) == \A pd \in Pairs : pd \in f.lines <=> db.domains[pd] = "on"

\* A file that a crash has cut short, and the Apply that is to write it again.
CutShort(f) == ~f.whole /\ \E p \in Appliers : pc[p] # "idle" /\ stamp[p] >= f.start

Reader(p) ==
    /\ pc[p] \in AfterRules => Owes(snap[p].start) \/ ReadRight(p)
    /\ Assignable(p) /\ Generated(p)

KernelOwed == Owes(kernel.start) \/ BadEnabled \/ KernelRight

LinesOwed(f) == Owes(f.start) \/ BadEnabled \/ LinesRight(f) \/ CutShort(f)

\* Whatever is not as the tables say, somebody is on the way to put right, or nft
\* refuses it for a rule that is still enabled.
Owed ==
    /\ \A p \in Appliers : Reader(p)
    /\ KernelOwed /\ LinesOwed(nftsetFile) /\ LinesOwed(dnsmasq)

Written == \A t \in Tables : written[t] <= now

QuietInv == Written /\ (faults = 0 => Owed)

-----------------------------------------------------------------------------
(* Who owes an Apply *)

\* The numbers the invariant compares are numbers.
LEMMA Numbers ==
    ASSUME TypeOK
    PROVE  /\ now \in Nat /\ faults \in Nat
           /\ kernel.start \in Nat /\ nftFile.start \in Nat
           /\ nftsetFile.start \in Nat /\ dnsmasq.start \in Nat
           /\ \A t \in Tables : written[t] \in Nat
           /\ \A p \in Appliers : p \in Procs /\ stamp[p] \in Nat /\ snap[p].start \in Nat
  BY DEF TypeOK, Ruleset, Nftsets, Snapshot, Procs, Appliers

\* The copies are no newer than the Apply under way, and nothing is newer than now.
LEMMA Older ==
    ASSUME IInv
    PROVE  /\ kernel.start <= now /\ nftsetFile.start <= now /\ dnsmasq.start <= now
           /\ \A p \in Appliers :
                 /\ stamp[p] <= now
                 /\ pc[p] \in AfterRules =>
                       /\ stamp[p] <= snap[p].start /\ snap[p].start <= now
                       /\ kernel.start <= snap[p].start
                       /\ nftsetFile.start <= snap[p].start
                       /\ dnsmasq.start <= snap[p].start
<1>1. TypeOK /\ Order
  BY DEF IInv
<1> QED BY <1>1, Numbers DEF Order

\* Who owes an Apply owes it until it returns.
LEMMA StillOwes ==
    ASSUME TypeOK, TypeOK',
           \A p \in Appliers : pc[p] # "idle" => pc'[p] # "idle" /\ stamp'[p] >= stamp[p]
    PROVE  /\ \A n \in Nat : Owes(n) => Owes(n)'
           /\ \A f \in Nftsets : CutShort(f) => CutShort(f)'
<1>1. \A p \in Appliers : stamp[p] \in Nat /\ stamp'[p] \in Nat
  BY DEF TypeOK, Procs, Appliers
<1>2. ASSUME NEW n \in Nat, Owes(n) PROVE Owes(n)'
  BY <1>1, <1>2 DEF Owes
<1>3. ASSUME NEW f \in Nftsets, CutShort(f) PROVE CutShort(f)'
  <2>1. f.start \in Nat
    BY DEF Nftsets
  <2> QED BY <1>1, <1>3, <2>1 DEF CutShort
<1> QED BY <1>2, <1>3

\* What is owed for changes after p began to read is not p's to do: it stays owed when
\* p returns.
LEMMA OthersOwe ==
    ASSUME IInv, NEW p \in Appliers, pc[p] \in AfterRules,
           pc' = [pc EXCEPT ![p] = "idle"], stamp' = [stamp EXCEPT ![p] = 0],
           NEW n \in Nat, n <= snap[p].start, Owes(snap[p].start)
    PROVE  Owes(n)'
<1>1. PICK q \in Appliers : pc[q] # "idle" /\ stamp[q] > snap[p].start
  BY DEF Owes
<1>2. TypeOK /\ q \in Procs /\ stamp[q] \in Nat /\ stamp[p] \in Nat /\ snap[p].start \in Nat
  BY Numbers DEF IInv
<1>3. q # p
  BY <1>1, <1>2, Older
<1>4. pc'[q] # "idle" /\ stamp'[q] > n
  BY <1>1, <1>2, <1>3 DEF TypeOK
<1> QED BY <1>4 DEF Owes

\* Nobody but the holder of the mutex has read anything.
LEMMA OneReader ==
    ASSUME IInv, NEW p \in Appliers, pc[p] \in InApply, NEW q \in Appliers, q # p
    PROVE  pc[q] \notin InApply
  BY DEF IInv, Mutex, Procs, Appliers

-----------------------------------------------------------------------------
(* Steps outside Apply *)

\* A step that changes no promised table, writes no file, loads no ruleset, and in which
\* nobody returns and nobody reads.  dnsmasq may be reloaded.
LEMMA IdleStep ==
    ASSUME IInv, IInv', QuietInv,
           UNCHANGED <<written, snap, unread, nftFile, kernel, nftsetFile, faults>>,
           now <= now', dnsmasq' \in {dnsmasq, nftsetFile},
           db'.rules = db.rules, db'.policies = db.policies, db'.assigns = db.assigns,
           db'.domains = db.domains,
           \A p \in Appliers :
              /\ pc[p] # "idle" => pc'[p] # "idle" /\ stamp'[p] >= stamp[p]
              /\ pc'[p] = pc[p] \/ pc'[p] \notin AfterRules
    PROVE  QuietInv'
<1>1. TypeOK /\ TypeOK'
  BY DEF IInv
<1>2. /\ \A n \in Nat : Owes(n) => Owes(n)'
      /\ \A f \in Nftsets : CutShort(f) => CutShort(f)'
  BY <1>1, StillOwes
<1>3. Written'
  BY <1>1 DEF TypeOK, QuietInv, Written
<1>4. ASSUME faults = 0 PROVE Owed'
  <2>1. Owed /\ BadEnabled' = BadEnabled
    BY <1>4 DEF QuietInv, BadEnabled
  <2>2. ASSUME NEW p \in Appliers PROVE Reader(p)'
    <3>1. CASE pc'[p] \notin AfterRules
      BY <3>1 DEF Reader, Assignable, Generated, AfterRules, AfterDevices, AfterPolicies,
                  AfterAssigns
    <3>2. CASE pc'[p] = pc[p]
      <4>1. Reader(p) /\ snap[p].start \in Nat
        BY <1>1, <2>1, Numbers DEF Owed
      <4>2. pc[p] \in AfterRules => Owes(snap[p].start)' \/ ReadRight(p)'
        BY <1>2, <3>2, <4>1 DEF Reader, ReadRight, ChainsRight
      <4> QED BY <3>2, <4>1, <4>2 DEF Reader, Assignable, Generated
    <3> QED BY <3>1, <3>2
  <2>3. KernelOwed'
    BY <1>1, <1>2, <2>1, Numbers DEF Owed, KernelOwed, KernelRight, ChainsRight
  <2>4. \A f \in Nftsets : LinesOwed(f) => LinesOwed(f)'
    <3>1. \A f \in Nftsets : f.start \in Nat
      BY DEF Nftsets
    <3> QED BY <1>2, <2>1, <3>1 DEF LinesOwed, LinesRight
  <2>5. nftsetFile \in Nftsets /\ dnsmasq \in Nftsets
    BY <1>1 DEF TypeOK
  <2>6. LinesOwed(nftsetFile)' /\ LinesOwed(dnsmasq)'
    BY <2>1, <2>4, <2>5 DEF Owed, LinesOwed, LinesRight, CutShort
  <2> QED BY <2>2, <2>3, <2>6 DEF Owed
<1> QED BY <1>3, <1>4 DEF QuietInv

\* What a request commits it goes on to apply, unless it creates a policy.
LEMMA HandlerCommits ==
    ASSUME IInv, NEW r \in Requests,
           RuleRequest(r) \/ DeviceRequest(r) \/ PolicyRequest(r) \/ DomainRequest(r)
    PROVE  \/ \E p \in Policies, mode \in Modes : CreatePolicy(r, p, mode)
           \/ \E tables \in SUBSET Tables, rows \in SUBSET Pairs, next \in {"lock", "lookup"} :
                 /\ Sound(db', db, tables, rows)
                 /\ Commit(r, db', tables, rows, next)
<1>1. db \in Database /\ Integrity(db)
  BY DEF IInv, TypeOK, IntegrityInv
<1> DEFINE Applied(new, tables, rows, next) ==
               Sound(new, db, tables, rows) /\ Commit(r, new, tables, rows, next)
<1>2. ASSUME NEW new, NEW tables \in SUBSET Tables, NEW rows \in SUBSET Pairs,
             NEW next \in {"lock", "lookup"}, Applied(new, tables, rows, next)
      PROVE  \E ts \in SUBSET Tables, rs \in SUBSET Pairs, nx \in {"lock", "lookup"} :
                Sound(db', db, ts, rs) /\ Commit(r, db', ts, rs, nx)
  <2>1. db' = new
    BY <1>2 DEF Commit
  <2> QED BY <1>2, <2>1
<1>3. CASE RuleRequest(r)
  <2>1. PICK x \in Rules :
           \/ \E e \in BOOLEAN : CreateRule(r, x, e) \/ UpdateRule(r, x, e)
           \/ DeleteRule(r, x)
    BY <1>3 DEF RuleRequest
  <2>2. PICK new : Applied(new, {"rules"}, {}, "lock")
    BY <1>1, <2>1, RuleStatements DEF CreateRule, UpdateRule, DeleteRule
  <2> QED BY <1>2, <2>2 DEF Tables
<1>4. CASE DeviceRequest(r)
  <2>1. PICK m \in Devices :
           \/ \E b, e \in BOOLEAN : UpdateDevice(r, m, b, e)
           \/ \E p \in Policies : AssignDevice(r, m, p)
           \/ UnassignDevice(r, m)
    BY <1>4 DEF DeviceRequest
  <2>2. ASSUME NEW b \in BOOLEAN, NEW e \in BOOLEAN, UpdateDevice(r, m, b, e)
        PROVE  \E new : Applied(new, {"devices"}, {}, "lock")
    BY <1>1, <2>2, DeviceStatement DEF UpdateDevice
  <2>3. ASSUME \/ \E p \in Policies : AssignDevice(r, m, p)
               \/ UnassignDevice(r, m)
        PROVE  \E new : Applied(new, {"assigns"}, {}, "lock")
    BY <1>1, <2>3, ConfigAssumption, AssignStatements DEF AssignDevice, UnassignDevice
  <2> QED BY <1>2, <2>1, <2>2, <2>3 DEF Tables
<1>5. CASE PolicyRequest(r)
  <2>1. PICK p \in Policies :
           \/ \E mode \in Modes : CreatePolicy(r, p, mode) \/ UpdatePolicy(r, p, mode)
           \/ DeletePolicy(r, p)
    BY <1>5 DEF PolicyRequest
  <2>2. ASSUME NEW mode \in Modes, UpdatePolicy(r, p, mode)
        PROVE  Applied(UpdatePolicyIn(db, p, mode), {"policies"}, {}, "lock")
    BY <1>1, <2>2, PolicyStatements DEF UpdatePolicy
  <2>3. ASSUME DeletePolicy(r, p)
        PROVE  Applied(DeletePolicyIn(db, p), {"policies", "assigns"}, {p} \X Domains, "lock")
    BY <1>1, <2>3, DeletePolicyStatement DEF DeletePolicy
  <2>4. {p} \X Domains \in SUBSET Pairs
    BY DEF Pairs
  <2> HIDE DEF Applied
  <2> QED BY <1>2, <2>1, <2>2, <2>3, <2>4 DEF Tables
<1>6. CASE DomainRequest(r)
  <2>1. PICK pd \in Pairs :
           \/ CreateDomain(r, pd)
           \/ \E e \in BOOLEAN : UpdateDomain(r, pd, e)
           \/ DeleteDomain(r, pd)
    BY <1>6 DEF DomainRequest
  <2>2. ASSUME CreateDomain(r, pd)
        PROVE  Applied(CreateDomainIn(db, pd), {}, {pd}, "lookup")
    BY <1>1, <2>2, DomainStatements DEF CreateDomain
  <2>3. ASSUME NEW e \in BOOLEAN, UpdateDomain(r, pd, e) \/ DeleteDomain(r, pd)
        PROVE  \E new : Applied(new, {}, {pd}, "lock")
    BY <1>1, <2>3, DomainStatements DEF UpdateDomain, DeleteDomain
  <2> HIDE DEF Applied
  <2> QED BY <1>2, <2>1, <2>2, <2>3 DEF Tables
<1> QED BY <1>3, <1>4, <1>5, <1>6

\* A commit that is followed by an Apply.
LEMMA CommitOwes ==
    ASSUME IInv, IInv', QuietInv, NEW r \in Requests, NEW tables \in SUBSET Tables,
           NEW rows \in SUBSET Pairs, NEW next \in {"lock", "lookup"},
           Sound(db', db, tables, rows), Commit(r, db', tables, rows, next)
    PROVE  QuietInv'
<1>1. TypeOK /\ TypeOK' /\ r \in Appliers /\ r \in Procs /\ Appliers \subseteq Procs
  BY DEF IInv, Procs, Appliers
<1>2. /\ now' = now + 1 /\ pc' = [pc EXCEPT ![r] = next] /\ stamp' = [stamp EXCEPT ![r] = now + 1]
      /\ pc[r] = "idle"
      /\ written' = [t \in Tables |-> IF t \in tables THEN now + 1 ELSE written[t]]
      /\ UNCHANGED <<snap, unread, nftFile, kernel, nftsetFile, dnsmasq, faults>>
  BY DEF Commit, enforced, bounds
<1>3. Written'
  BY <1>1, <1>2, Numbers DEF QuietInv, Written
<1>4. \A n \in Nat : n <= now => Owes(n)'
  BY <1>1, <1>2, Numbers DEF Owes, TypeOK
<1>5. ASSUME faults = 0 PROVE Owed'
  <2>1. Owed
    BY <1>5 DEF QuietInv
  <2>2. ASSUME NEW p \in Appliers PROVE Reader(p)'
    <3>1. CASE pc'[p] \notin AfterRules
      BY <3>1 DEF Reader, Assignable, Generated, AfterRules, AfterDevices, AfterPolicies,
                  AfterAssigns
    <3>2. CASE pc'[p] \in AfterRules
      <4>1. pc'[p] = pc[p]
        BY <1>1, <1>2, <3>2 DEF TypeOK, AfterRules, AfterDevices, AfterPolicies, AfterAssigns
      <4>2. Owes(snap[p].start)'
        BY <1>1, <1>2, <1>4, <3>2, <4>1, Older, Numbers
      <4>3. Assignable(p)'
        <5>1. CASE "assigns" \in tables
          <6>1. written'["assigns"] = now + 1
            BY <1>2, <5>1
          <6>2. snap'[p].start <= now /\ now \in Nat /\ snap'[p].start \in Nat
            BY <1>1, <1>2, <3>2, <4>1, Older, Numbers
          <6> QED BY <6>1, <6>2 DEF Assignable
        <5>2. CASE "assigns" \notin tables
          <6>1. db'.assigns = db.assigns /\ written'["assigns"] = written["assigns"]
            BY <1>2, <5>2 DEF Sound, SameBut, Tables
          <6> QED BY <1>2, <2>1, <4>1, <6>1 DEF Owed, Reader, Assignable
        <5> QED BY <5>1, <5>2
      <4>4. Generated(p)'
        BY <1>2, <2>1, <4>1 DEF Owed, Reader, Generated
      <4> QED BY <1>2, <4>2, <4>3, <4>4 DEF Reader
    <3> QED BY <3>1, <3>2
  <2>3. KernelOwed'
    BY <1>1, <1>2, <1>4, Older, Numbers DEF KernelOwed
  <2>4. LinesOwed(nftsetFile)' /\ LinesOwed(dnsmasq)'
    BY <1>1, <1>2, <1>4, Older, Numbers DEF LinesOwed
  <2> QED BY <2>2, <2>3, <2>4 DEF Owed
<1> QED BY <1>2, <1>3, <1>5 DEF QuietInv

\* A policy that is created has no chain anywhere, which is all that is promised.
LEMMA CreateKeeps ==
    ASSUME IInv, IInv', QuietInv, NEW r \in Requests, NEW p \in Policies, NEW mode \in Modes,
           CreatePolicy(r, p, mode)
    PROVE  QuietInv'
<1>1. TypeOK /\ TypeOK' /\ r \in Appliers /\ r \in Procs /\ Appliers \subseteq Procs
  BY DEF IInv, Procs, Appliers
<1>2. /\ now' = now + 1 /\ pc' = [pc EXCEPT ![r] = "idle"] /\ stamp' = [stamp EXCEPT ![r] = 0]
      /\ pc[r] = "idle" /\ db' = CreatePolicyIn(db, p, mode)
      /\ written' = [t \in Tables |-> IF t = "policies" THEN now + 1 ELSE written[t]]
      /\ UNCHANGED <<snap, unread, nftFile, kernel, nftsetFile, dnsmasq, faults>>
  BY DEF CreatePolicy, Commit, enforced, bounds
<1>3. Written'
  BY <1>1, <1>2, Numbers DEF QuietInv, Written
<1>4. pc' = pc /\ \A q \in Appliers : q # r => stamp'[q] = stamp[q]
  BY <1>1, <1>2 DEF TypeOK
<1>5. /\ \A n \in Nat : Owes(n) => Owes(n)'
      /\ \A f \in Nftsets : CutShort(f) => CutShort(f)'
  BY <1>2, <1>4 DEF Owes, CutShort
<1>6. db.policies[p] = NoMode
  BY <1>1 DEF IInv, IntegrityInv, Integrity, Exists, CreatePolicy
<1>7. /\ db'.rules = db.rules /\ db'.assigns = db.assigns /\ db'.domains = db.domains
      /\ db'.policies = [db.policies EXCEPT ![p] = mode]
  BY <1>1, <1>2 DEF TypeOK, Database, CreatePolicyIn
<1>8. \A chains : ChainsRight(chains) => ChainsRight(chains)'
  <2>1. db.policies \in [Policies -> Modes \cup {NoMode}]
    BY <1>1 DEF TypeOK, Database
  <2>2. \A q \in Policies : q # p => db'.policies[q] = db.policies[q]
    BY <1>7, <2>1
  <2> QED BY <1>6, <2>2 DEF ChainsRight
<1>9. \A t \in Promised : written'[t] = written[t] /\ written["assigns"] = written'["assigns"]
  BY <1>2 DEF Promised, Tables
<1>10. ASSUME faults = 0 PROVE Owed'
  <2>1. Owed /\ BadEnabled' = BadEnabled
    BY <1>7, <1>10 DEF QuietInv, BadEnabled
  <2>2. ASSUME NEW q \in Appliers PROVE Reader(q)'
    <3>1. Reader(q) /\ snap[q].start \in Nat
      BY <1>1, <2>1, Numbers DEF Owed
    <3>2. pc[q] \in AfterRules => Owes(snap[q].start)' \/ ReadRight(q)'
      BY <1>2, <1>4, <1>5, <1>7, <1>8, <1>9, <3>1 DEF Reader, ReadRight
    <3> QED BY <1>2, <1>4, <1>7, <1>9, <3>1, <3>2 DEF Reader, Assignable, Generated, Promised
  <2>3. KernelOwed'
    BY <1>1, <1>2, <1>5, <1>8, <1>9, <2>1, Numbers DEF Owed, KernelOwed, KernelRight
  <2>4. ASSUME NEW f \in Nftsets, LinesOwed(f) PROVE LinesOwed(f)'
    BY <1>5, <1>7, <2>1, <2>4 DEF Nftsets, LinesOwed, LinesRight
  <2>5. LinesOwed(nftsetFile)' /\ LinesOwed(dnsmasq)'
    BY <1>1, <1>2, <2>1, <2>4 DEF TypeOK, Owed, LinesOwed, LinesRight, CutShort
  <2> QED BY <2>2, <2>3, <2>5 DEF Owed
<1> QED BY <1>2, <1>3, <1>10 DEF QuietInv

\* The resolver, the clients' queries, reloads by the other service, and taking the mutex.
LEMMA AroundKeeps ==
    ASSUME IInv, IInv', QuietInv,
           \/ RefreshAll
           \/ \E p \in Requests \cup {Refresher} : Resolve(p)
           \/ \E name \in Domains : ClientQuery(name)
           \/ DNSReload
           \/ \E p \in Appliers : Acquire(p)
           \/ UNCHANGED vars
    PROVE  QuietInv'
<1>1. TypeOK /\ TypeOK' /\ Appliers \subseteq Procs
  BY DEF IInv, Procs, Appliers
<1>2. \A p \in Appliers : stamp[p] \in Nat
  BY <1>1, Numbers
<1>3. Refresher \notin Appliers
  BY ProcAssumption DEF Appliers
<1>4. CASE RefreshAll
  <2>1. \A p \in Appliers : pc'[p] = pc[p] /\ stamp'[p] = stamp[p]
    BY <1>1, <1>3, <1>4 DEF RefreshAll, TypeOK
  <2> QED BY <1>1, <1>2, <1>4, <2>1, IdleStep, Numbers
          DEF RefreshAll, config, enforced, bounds
<1>5. ASSUME NEW p \in Requests \cup {Refresher}, Resolve(p) PROVE QuietInv'
  <2>1. /\ pc[p] \in {"lookup", "store"} /\ stamp' \in [Procs -> Nat]
        /\ \/ pc' = [pc EXCEPT ![p] = "store"] /\ db' = db /\ now' = now /\ stamp' = stamp
           \/ NextName(p, cur[p]) /\ StoreResolved(p)
           \/ \E name : NextName(p, name) /\ db' = db /\ now' = now /\ stamp' = stamp
        /\ UNCHANGED <<written, snap, unread, nftFile, kernel, nftsetFile, dnsmasq, faults>>
    BY <1>1, <1>5 DEF TypeOK, Resolve, LookupAnswered, LookupFailed, StoreResolved, config,
                      enforced, bounds
  <2>2. /\ db'.rules = db.rules /\ db'.policies = db.policies /\ db'.assigns = db.assigns
        /\ db'.domains = db.domains /\ now <= now'
    BY <1>1, <2>1, Numbers DEF TypeOK, Database, StoreResolved, StoreResolvedIn
  <2>3. stamp' = stamp \/ stamp' = [stamp EXCEPT ![p] = now']
    BY <2>1 DEF StoreResolved
  <2>4. \A q \in Appliers : stamp'[q] >= stamp[q]
    BY <1>1, <1>2, <2>2, <2>3, Older, Numbers DEF TypeOK
  <2>5. \/ pc' = [pc EXCEPT ![p] = "store"]
        \/ \E name : pc' = [pc EXCEPT ![p] = IF todo[p] \ {name} # {} THEN "lookup"
                                             ELSE IF p = Refresher THEN "idle" ELSE "lock"]
    BY <2>1 DEF NextName
  <2>6. PICK next \in {"lookup", "store", "lock", "idle"} :
           pc' = [pc EXCEPT ![p] = next] /\ (p # Refresher => next # "idle")
    BY <2>5
  <2>7. \A q \in Appliers :
           pc'[q] = pc[q] \/ (pc[q] # "idle" /\ pc'[q] \in {"lookup", "store", "lock"})
    BY <1>1, <1>3, <2>1, <2>6 DEF TypeOK
  <2> QED BY <2>1, <2>2, <2>4, <2>7, IdleStep
          DEF AfterRules, AfterDevices, AfterPolicies, AfterAssigns
<1>6. CASE \E name \in Domains : ClientQuery(name)
  BY <1>1, <1>2, <1>6, IdleStep, Numbers DEF ClientQuery, config, local, bounds
<1>7. CASE DNSReload
  BY <1>1, <1>2, <1>7, IdleStep, Numbers DEF DNSReload, config, local, bounds
<1>8. ASSUME NEW p \in Appliers, Acquire(p) PROVE QuietInv'
  <2>1. pc \in [Procs -> Labels] /\ pc[p] = "lock" /\ pc' = [pc EXCEPT ![p] = "rules"]
    BY <1>1, <1>8 DEF TypeOK, Acquire, Goto
  <2>2. \A q \in Appliers : pc'[q] = pc[q] \/ (pc[q] # "idle" /\ pc'[q] = "rules")
    BY <1>1, <2>1
  <2> QED BY <1>1, <1>2, <1>8, <2>2, IdleStep, Numbers
          DEF Acquire, config, enforced, bounds, AfterRules, AfterDevices, AfterPolicies,
              AfterAssigns
<1>9. CASE UNCHANGED vars
  BY <1>1, <1>2, <1>9, IdleStep, Numbers DEF vars, config, local, enforced, bounds
<1> QED BY <1>4, <1>5, <1>6, <1>7, <1>8, <1>9

-----------------------------------------------------------------------------
(* Steps of Apply *)

\* A step of p inside Apply that goes on: it is enough to look at what p has read and at
\* the copies.
LEMMA StepInside ==
    ASSUME IInv, IInv', QuietInv, NEW p \in Appliers, pc[p] \in InApply,
           UNCHANGED <<config, stamp, faults>>,
           pc' = [pc EXCEPT ![p] = pc'[p]], pc'[p] # "idle",
           faults = 0 => Reader(p)' /\ KernelOwed' /\ LinesOwed(nftsetFile)' /\ LinesOwed(dnsmasq)'
    PROVE  QuietInv'
<1>1. TypeOK /\ Appliers \subseteq Procs
  BY DEF IInv, Procs, Appliers
<1>2. Written'
  BY DEF QuietInv, Written, config
<1>3. ASSUME faults = 0, NEW q \in Appliers, q # p PROVE Reader(q)'
  <2>1. pc'[q] = pc[q] /\ pc[q] \notin InApply
    BY <1>1, <1>3, OneReader DEF TypeOK
  <2> QED BY <2>1, LabelsInApply DEF Reader, Assignable, Generated, AfterRules, AfterDevices,
                                     AfterPolicies, AfterAssigns
<1> QED BY <1>2, <1>3 DEF QuietInv, Owed

\* As long as p goes on, what is owed stays owed, and an unchanged copy is as it was.
LEMMA GoingOn ==
    ASSUME IInv, IInv', NEW p \in Appliers, pc' = [pc EXCEPT ![p] = pc'[p]], pc'[p] # "idle",
           UNCHANGED <<config, stamp>>
    PROVE  /\ \A n \in Nat : Owes(n) => Owes(n)'
           /\ BadEnabled' = BadEnabled
           /\ kernel' = kernel => (KernelOwed => KernelOwed')
           /\ nftsetFile' = nftsetFile => (LinesOwed(nftsetFile) => LinesOwed(nftsetFile)')
           /\ dnsmasq' = dnsmasq => (LinesOwed(dnsmasq) => LinesOwed(dnsmasq)')
<1>1. TypeOK /\ TypeOK' /\ Appliers \subseteq Procs
  BY DEF IInv, Procs, Appliers
<1>2. \A q \in Appliers : stamp[q] \in Nat
  BY <1>1, Numbers
<1>3. \A q \in Appliers : pc[q] # "idle" => pc'[q] # "idle" /\ stamp'[q] >= stamp[q]
  BY <1>1, <1>2 DEF TypeOK
<1>4. /\ \A n \in Nat : Owes(n) => Owes(n)'
      /\ \A f \in Nftsets : CutShort(f) => CutShort(f)'
  BY <1>1, <1>3, StillOwes
<1>5. db' = db /\ written' = written
  BY DEF config
<1>6. BadEnabled' = BadEnabled
  BY <1>5 DEF BadEnabled
<1>7. kernel' = kernel => (KernelOwed => KernelOwed')
  BY <1>1, <1>4, <1>5, <1>6, Numbers DEF KernelOwed, KernelRight, ChainsRight
<1>8. nftsetFile' = nftsetFile => (LinesOwed(nftsetFile) => LinesOwed(nftsetFile)')
  <2>1. nftsetFile \in Nftsets
    BY <1>1 DEF TypeOK
  <2> QED BY <1>1, <1>4, <1>5, <1>6, <2>1, Numbers DEF LinesOwed, LinesRight, CutShort
<1>9. dnsmasq' = dnsmasq => (LinesOwed(dnsmasq) => LinesOwed(dnsmasq)')
  <2>1. dnsmasq \in Nftsets
    BY <1>1 DEF TypeOK
  <2> QED BY <1>1, <1>4, <1>5, <1>6, <2>1, Numbers DEF LinesOwed, LinesRight, CutShort
<1> QED BY <1>4, <1>6, <1>7, <1>8, <1>9

\* A query that misses no row gives the table.
LEMMA AllRows ==
    ASSUME NEW S, NEW T, NEW f \in [S -> T], NEW empty, NEW table
    PROVE  Without(f, {}, empty) = f /\ Short({}, table) = {}
  BY DEF Without, Short

\* The reads.
LEMMA ReadsKeep ==
    ASSUME IInv, IInv', QuietInv, NEW p \in Appliers,
           \/ ListRules(p) \/ ListBlocked(p) \/ ListPolicies(p) \/ ListAssignments(p)
           \/ \E q \in Policies : ListDomains(p, q)
    PROVE  QuietInv'
<1>1. /\ TypeOK /\ TypeOK' /\ Integrity(db) /\ Appliers \subseteq Procs /\ p \in Procs
      /\ pc \in [Procs -> Labels] /\ snap \in [Procs -> Snapshot]
      /\ unread \in [Procs -> SUBSET Policies]
      /\ now \in Nat /\ \A t \in Tables : written[t] \in Nat
      /\ snap[p] \in Snapshot /\ db \in Database
      /\ db.rules \in [Rules -> Row] /\ db.policies \in [Policies -> Modes \cup {NoMode}]
      /\ db.assigns \in [Devices -> Policies \cup {NoPolicy}]
  BY Numbers DEF IInv, IntegrityInv, TypeOK, Database, Procs, Appliers
<1>2. PICK label, next :
         /\ <<label, next>> \in {<<"rules", "devices">>, <<"devices", "policies">>,
                                 <<"policies", "domains">>, <<"policies", "assigns">>,
                                 <<"domains", "domains">>, <<"domains", "assigns">>,
                                 <<"assigns", "write">>}
         /\ Reading(p, label, next) /\ faults' = faults
  BY DEF ListRules, ListBlocked, ListPolicies, ListAssignments, ListDomains,
         ReadRules, ReadPolicies, ReadAssignments, ReadDomains
<1>3. /\ pc[p] = label /\ pc' = [pc EXCEPT ![p] = next] /\ pc'[p] = next
      /\ UNCHANGED <<config, stamp, nftFile, kernel, nftsetFile, dnsmasq, faults>>
  BY <1>1, <1>2 DEF Reading, Goto, enforced, bounds
<1>4. /\ pc[p] \in InApply /\ pc'[p] # "idle" /\ pc'[p] # "load"
      /\ pc' = [pc EXCEPT ![p] = pc'[p]]
  BY <1>1, <1>2, <1>3 DEF InApply
<1>5. db' = db /\ written' = written /\ now' = now
  BY <1>3 DEF config
<1>6. ASSUME faults = 0
      PROVE  /\ KernelOwed' /\ LinesOwed(nftsetFile)' /\ LinesOwed(dnsmasq)'
             /\ \A n \in Nat : Owes(n) => Owes(n)'
             /\ Reader(p)
  <2>1. Owed
    BY <1>6 DEF QuietInv
  <2> QED BY <1>3, <1>4, <2>1, GoingOn DEF Owed
<1>7. ASSUME faults = 0, ListRules(p) PROVE Reader(p)'
  <2> DEFINE s == [snap[p] EXCEPT !.start = now, !.rules = Without(db.rules, {}, "none"),
                                  !.short = Short({}, "rules")]
  <2>1. snap' = [snap EXCEPT ![p] = s] /\ Reading(p, "rules", "devices")
    BY <1>7 DEF ListRules, ReadRules
  <2>2. snap'[p].start = now /\ snap'[p].short = {} /\ pc'[p] = "devices"
    <3>1. s.start = now /\ s.short = {}
      BY <1>1 DEF Snapshot, Short
    <3>2. snap'[p] = s
      BY <1>1, <2>1
    <3>3. pc'[p] = "devices"
      BY <1>1, <2>1 DEF Reading, Goto
    <3> HIDE DEF s
    <3> QED BY <3>1, <3>2, <3>3
  <2>3. \A t \in Promised : written'[t] <= snap'[p].start
    BY <1>5, <2>2 DEF QuietInv, Written, Promised, Tables
  <2> HIDE DEF s
  <2> QED BY <2>2, <2>3 DEF Reader, ReadRight, Assignable, Generated, AfterPolicies, AfterAssigns
<1>8. ASSUME faults = 0, ListBlocked(p) PROVE Reader(p)'
  <2>1. /\ pc[p] = "devices" /\ pc'[p] = "policies"
        /\ snap'[p].start = snap[p].start /\ snap'[p].short = snap[p].short
    BY <1>1, <1>3, <1>8 DEF ListBlocked, Reading, Goto, Snapshot
  <2>2. snap[p].start \in Nat /\ pc[p] \in AfterRules
    BY <1>1, <2>1, Numbers DEF AfterRules
  <2> QED BY <1>5, <1>6, <1>8, <2>1, <2>2
          DEF Reader, ReadRight, Assignable, Generated, AfterPolicies, AfterAssigns
<1>9. ASSUME faults = 0, ListPolicies(p) PROVE Reader(p)'
  <2>1. /\ pc[p] = "policies" /\ pc'[p] \in {"domains", "assigns"}
        /\ snap'[p].start = snap[p].start
        /\ snap'[p].policies = db.policies /\ snap'[p].domains = snap[p].domains
        /\ snap'[p].short = snap[p].short
        /\ unread'[p] = {q \in Policies : Exists(db, q)}
    <3> DEFINE s == [snap[p] EXCEPT !.policies = Without(db.policies, {}, NoMode),
                                    !.short = snap[p].short \cup Short({}, "policies")]
               next9 == IF unread'[p] = {} THEN "assigns" ELSE "domains"
    <3>1. snap' = [snap EXCEPT ![p] = s] /\ Reading(p, "policies", next9)
          /\ unread' = [unread EXCEPT ![p] = {q \in Policies : Exists(db, q)} \ {}]
      BY <1>9 DEF ListPolicies, ReadPolicies
    <3>2. /\ s.start = snap[p].start /\ s.policies = db.policies /\ s.domains = snap[p].domains
          /\ s.short = snap[p].short
      <4>1. Without(db.policies, {}, NoMode) = db.policies /\ Short({}, "policies") = {}
        BY <1>1, AllRows
      <4> QED BY <1>1, <4>1 DEF Snapshot
    <3>3. next9 \in {"domains", "assigns"}
      OBVIOUS
    <3>4. snap'[p] = s
      BY <1>1, <3>1
    <3> HIDE DEF s, next9
    <3> QED BY <1>1, <3>1, <3>2, <3>3, <3>4 DEF Reading, Goto
  <2>2. snap[p].start \in Nat /\ pc[p] \in AfterRules /\ pc[p] \notin AfterPolicies
    BY <1>1, <2>1, Numbers DEF AfterRules, AfterDevices, AfterPolicies, AfterAssigns
  <2>3. Assignable(p)'
    BY <1>1, <1>5, <2>1 DEF Assignable, Integrity, Exists
  <2>4. ChainsRight(snap[p].policies)' /\ snap'[p].policies[Default] # NoMode
    BY <1>1, <1>5, <2>1 DEF ChainsRight, Integrity, Exists
  <2>5. \A pd \in Pairs : pd[1] \notin unread'[p] => snap'[p].domains[pd] = "none" /\ db.domains[pd] = "none"
    <3>1. SnapshotAgrees(p)
      BY DEF IInv
    <3> QED BY <1>1, <2>1, <2>2, <3>1
            DEF SnapshotAgrees, NoSnapshot, Pairs, Integrity, TypeOK, Database, Row
  <2>6. Owes(snap[p].start)' \/ ReadRight(p)'
    BY <1>5, <1>6, <1>9, <2>1, <2>2, <2>4, <2>5 DEF Reader, ReadRight
  <2> QED BY <2>1, <2>3, <2>6 DEF Reader, Generated
<1>10. ASSUME faults = 0, NEW q \in Policies, ListDomains(p, q) PROVE Reader(p)'
  <2>1. /\ pc[p] = "domains" /\ pc'[p] \in {"domains", "assigns"} /\ q \in unread[p]
        /\ snap'[p] = WithDomains(snap[p], q, {}) /\ unread'[p] = unread[p] \ {q}
    BY <1>1, <1>3, <1>10 DEF ListDomains, ReadDomains, Reading, Goto
  <2>2. /\ snap'[p].start = snap[p].start /\ snap'[p].policies = snap[p].policies
        /\ snap'[p].short = snap[p].short
        /\ \A pd \in Pairs : snap'[p].domains[pd] = IF pd[1] = q THEN db.domains[pd]
                                                    ELSE snap[p].domains[pd]
    <3> DEFINE s == WithDomains(snap[p], q, {})
    <3>1. Short({}, "domains") = {}
      BY DEF Short
    <3>2. /\ s.start = snap[p].start /\ s.policies = snap[p].policies
          /\ s.short = snap[p].short \cup Short({}, "domains")
          /\ \A pd \in Pairs : s.domains[pd] = IF pd[1] # q THEN snap[p].domains[pd]
                                               ELSE IF pd \in {} THEN "none" ELSE db.domains[pd]
      BY <1>1, SnapshotDomains
    <3>3. snap'[p] = s
      BY <2>1
    <3> HIDE DEF s
    <3> QED BY <3>1, <3>2, <3>3
  <2>3. snap[p].start \in Nat /\ pc[p] \in AfterRules /\ pc[p] \in AfterPolicies
    BY <1>1, <2>1, Numbers DEF AfterRules, AfterDevices, AfterPolicies, AfterAssigns
  <2>4. Owes(snap[p].start)' \/ ReadRight(p)'
    <3>1. CASE Owes(snap[p].start)
      BY <1>6, <1>10, <2>2, <2>3, <3>1
    <3>2. CASE ReadRight(p)
      BY <1>5, <2>1, <2>2, <2>3, <3>2 DEF ReadRight, ChainsRight
    <3> QED BY <1>6, <1>10, <2>3, <3>1, <3>2 DEF Reader
  <2> QED BY <1>5, <1>6, <1>10, <2>1, <2>2, <2>3, <2>4 DEF Reader, Assignable, Generated
<1>11. ASSUME faults = 0, ListAssignments(p) PROVE Reader(p)'
  <2>1. /\ pc[p] = "assigns" /\ pc'[p] = "write" /\ snap'[p].start = snap[p].start
        /\ snap'[p].policies = snap[p].policies /\ snap'[p].domains = snap[p].domains
        /\ snap'[p].short = snap[p].short /\ unread'[p] = unread[p]
    <3> DEFINE s == [snap[p] EXCEPT !.assigns = Without(db.assigns, {}, NoPolicy),
                                    !.short = snap[p].short \cup Short({}, "assigns")]
    <3>1. snap' = [snap EXCEPT ![p] = s] /\ Reading(p, "assigns", "write") /\ unread' = unread
      BY <1>11 DEF ListAssignments, ReadAssignments
    <3>2. /\ s.start = snap[p].start /\ s.policies = snap[p].policies /\ s.domains = snap[p].domains
          /\ s.short = snap[p].short
      <4>1. Short({}, "assigns") = {}
        BY DEF Short
      <4> QED BY <1>1, <4>1 DEF Snapshot
    <3>3. snap'[p] = s
      BY <1>1, <3>1
    <3> HIDE DEF s
    <3> QED BY <1>1, <3>1, <3>2, <3>3 DEF Reading, Goto
  <2>2. snap[p].start \in Nat /\ pc[p] \in AfterRules /\ pc[p] \in AfterPolicies
    BY <1>1, <2>1, Numbers DEF AfterRules, AfterDevices, AfterPolicies, AfterAssigns
  <2>3. Owes(snap[p].start)' \/ ReadRight(p)'
    BY <1>5, <1>6, <1>11, <2>1, <2>2 DEF Reader, ReadRight, ChainsRight
  <2> QED BY <1>5, <1>6, <1>11, <2>1, <2>2, <2>3 DEF Reader, Assignable, Generated
<1>12. faults = 0 => Reader(p)'
  BY <1>7, <1>8, <1>9, <1>10, <1>11
<1> QED BY <1>3, <1>4, <1>6, <1>12, StepInside

\* Writing the two files and loading the ruleset.
LEMMA WritesKeep ==
    ASSUME IInv, IInv', QuietInv, NEW p \in Appliers,
           WriteConf(p) \/ LoadRuleset(p) \/ WriteNftsets(p)
    PROVE  QuietInv'
<1>1. TypeOK /\ TypeOK' /\ Appliers \subseteq Procs /\ p \in Procs /\ pc \in [Procs -> Labels]
  BY DEF IInv, TypeOK, Procs, Appliers
<1>2. PICK label, next :
         /\ <<label, next>> \in {<<"write", "load">>, <<"load", "nftsets">>, <<"nftsets", "reload">>}
         /\ Advance(p, label, next)
  BY DEF WriteConf, LoadRuleset, WriteNftsets
<1>3. /\ pc[p] = label /\ pc' = [pc EXCEPT ![p] = next] /\ pc'[p] = next
      /\ UNCHANGED <<config, stamp, snap, unread, faults>>
  BY <1>1, <1>2 DEF Advance, Goto, bounds
<1>4. /\ pc[p] \in InApply /\ pc'[p] # "idle" /\ pc' = [pc EXCEPT ![p] = pc'[p]]
      /\ pc[p] \in AfterRules /\ pc[p] \in AfterPolicies /\ pc'[p] \in AfterPolicies
      /\ pc[p] \in AfterAssigns
  BY <1>1, <1>2, <1>3 DEF InApply, AfterRules, AfterDevices, AfterPolicies, AfterAssigns
<1>5. db' = db /\ written' = written /\ now' = now
  BY <1>3 DEF config
<1>6. snap[p].start \in Nat /\ SnapshotAgrees(p) /\ HandedOn(p)
  BY <1>1, Numbers DEF IInv
<1>7. ASSUME faults = 0
      PROVE  /\ \A n \in Nat : Owes(n) => Owes(n)'
             /\ KernelOwed /\ LinesOwed(nftsetFile) /\ LinesOwed(dnsmasq)
             /\ Assignable(p)' /\ (Owes(snap[p].start)' \/ ReadRight(p)')
             /\ Owes(snap[p].start) \/ ReadRight(p)
             /\ Generated(p)
  <2>1. Owed
    BY <1>7 DEF QuietInv
  <2>2. \A n \in Nat : Owes(n) => Owes(n)'
    BY <1>3, <1>4, GoingOn
  <2> QED BY <1>3, <1>4, <1>5, <1>6, <2>1, <2>2
          DEF Owed, Reader, ReadRight, Assignable, ChainsRight
<1>8. CASE WriteConf(p)
  <2>1. \E lost \in SUBSET NamedRules : nftFile' = generateConfig(snap'[p], lost)
    BY <1>3, <1>8 DEF WriteConf
  <2>2. UNCHANGED <<kernel, nftsetFile, dnsmasq>>
    BY <1>8 DEF WriteConf
  <2> QED BY <1>3, <1>4, <1>7, <2>1, <2>2, GoingOn, StepInside DEF Reader, Generated
<1>9. CASE LoadRuleset(p)
  <2>1. /\ pc[p] = "load" /\ pc'[p] = "nftsets" /\ kernel' = nftFile
        /\ UNCHANGED <<nftFile, nftsetFile, dnsmasq>>
    BY <1>1, <1>9 DEF LoadRuleset, Load, Advance, Goto
  <2>2. ASSUME faults = 0 PROVE KernelOwed'
    <3>1. kernel'.start = snap[p].start
      BY <1>6, <2>1 DEF HandedOn
    <3>2. /\ kernel'.chains = snap[p].policies /\ kernel'.short = snap[p].short
          /\ kernel'.chains[Default] # NoMode
      BY <1>7, <1>9, <2>1, <2>2 DEF Generated, generateConfig, LoadRuleset, Rejected, Dangling
    <3>3. CASE Owes(snap[p].start)
      BY <1>6, <1>7, <2>2, <3>1, <3>3 DEF KernelOwed, Owes
    <3>4. CASE ReadRight(p)
      BY <1>4, <1>5, <3>1, <3>2, <3>4 DEF KernelOwed, KernelRight, ReadRight, ChainsRight
    <3> QED BY <1>7, <2>2, <3>3, <3>4
  <2> QED BY <1>3, <1>4, <1>7, <2>1, <2>2, GoingOn, StepInside DEF Reader, Generated
<1>10. CASE WriteNftsets(p)
  <2>1. /\ pc[p] = "nftsets" /\ pc'[p] = "reload" /\ nftsetFile' = NftsetLines(snap[p])
        /\ UNCHANGED <<nftFile, kernel, dnsmasq>>
    BY <1>1, <1>10 DEF WriteNftsets, Advance, Goto
  <2>2. ASSUME faults = 0 PROVE LinesOwed(nftsetFile)'
    <3>1. nftsetFile'.start = snap[p].start /\ nftsetFile'.lines = EnabledRows(snap[p])
      BY <2>1 DEF NftsetLines
    <3>2. CASE Owes(snap[p].start)
      BY <1>6, <1>7, <2>2, <3>1, <3>2 DEF LinesOwed, Owes
    <3>3. CASE ReadRight(p)
      <4>1. unread[p] = {}
        BY <1>4, <1>6 DEF SnapshotAgrees
      <4> QED BY <1>4, <1>5, <3>1, <3>3, <4>1 DEF LinesOwed, LinesRight, ReadRight, EnabledRows
    <3> QED BY <1>7, <2>2, <3>2, <3>3
  <2> QED BY <1>3, <1>4, <1>7, <2>1, <2>2, GoingOn, StepInside DEF Reader, Generated
<1> QED BY <1>8, <1>9, <1>10

\* When Apply returns only the copies are left to look at.
LEMMA ReturnKeeps ==
    ASSUME IInv, IInv', QuietInv, NEW p \in Appliers, pc[p] \in AfterRules, NEW ok \in BOOLEAN,
           Return(p, ok), faults' = faults,
           faults = 0 => KernelOwed' /\ LinesOwed(nftsetFile)' /\ LinesOwed(dnsmasq)'
    PROVE  QuietInv'
<1>1. TypeOK /\ Appliers \subseteq Procs /\ pc \in [Procs -> Labels] /\ "idle" \notin AfterRules
  BY DEF IInv, TypeOK, Procs, Appliers, AfterRules, AfterDevices, AfterPolicies, AfterAssigns
<1>2. Written'
  BY DEF QuietInv, Written, Return, config
<1>3. ASSUME NEW q \in Appliers PROVE Reader(q)'
  <2>1. pc'[q] \notin AfterRules
    BY <1>1, OneReader, LabelsInApply DEF Return
  <2> QED BY <2>1 DEF Reader, Assignable, Generated, AfterRules, AfterDevices, AfterPolicies,
                      AfterAssigns
<1> QED BY <1>2, <1>3 DEF QuietInv, Owed

\* What nft refuses was torn by a change that somebody else has still to apply, or
\* holds a rule that is still enabled.
LEMMA RejectedIsOwed ==
    ASSUME IInv, NEW p \in Appliers, pc[p] = "load", Rejected(nftFile), Reader(p)
    PROVE  Owes(snap[p].start) \/ BadEnabled
<1>1. pc[p] \in AfterRules /\ pc[p] \in AfterDevices /\ pc[p] \in AfterPolicies
      /\ pc[p] \in AfterAssigns
  BY DEF AfterRules, AfterDevices, AfterPolicies, AfterAssigns
<1>2. SUFFICES ASSUME ReadRight(p) PROVE BadEnabled
  BY <1>1 DEF Reader
<1>3. snap[p].rules = db.rules /\ snap[p].assigns = db.assigns
  BY <1>1, <1>2 DEF IInv, SnapshotAgrees, ReadRight, Promised, Reads
<1>4. PICK lost : nftFile = generateConfig(snap[p], lost)
  BY DEF Reader, Generated
<1>5. ~Dangling(nftFile)
  BY <1>1, <1>2, <1>3, <1>4 DEF Reader, Assignable, ReadRight, Promised, Dangling, generateConfig
<1>6. PICK x \in BadRules : x \in nftFile.rules
  BY <1>5 DEF Rejected
<1> QED BY <1>3, <1>4, <1>6 DEF generateConfig, RuleLines, BadEnabled

\* The two ways Apply returns when nothing has failed.
LEMMA ReturnsKeep ==
    ASSUME IInv, IInv', QuietInv, NEW p \in Appliers, RulesetRejected(p) \/ ReloadDnsmasq(p)
    PROVE  QuietInv'
<1>1. /\ pc[p] \in {"load", "reload"} /\ pc[p] \in AfterRules /\ pc[p] \in AfterPolicies
      /\ pc[p] \in AfterAssigns
  BY DEF RulesetRejected, ReloadDnsmasq, AfterRules, AfterDevices, AfterPolicies, AfterAssigns
<1>2. PICK ok \in BOOLEAN : Return(p, ok)
  BY DEF RulesetRejected, ReloadDnsmasq
<1>3. /\ pc' = [pc EXCEPT ![p] = "idle"] /\ stamp' = [stamp EXCEPT ![p] = 0] /\ faults' = faults
      /\ db' = db /\ written' = written /\ kernel' = kernel /\ nftsetFile' = nftsetFile
      /\ BadEnabled' = BadEnabled
  BY <1>2 DEF RulesetRejected, ReloadDnsmasq, Return, config, enforced, BadEnabled
<1>4. /\ TypeOK /\ SnapshotAgrees(p) /\ HandedOn(p) /\ snap[p].start \in Nat
      /\ kernel.start \in Nat /\ nftsetFile.start \in Nat /\ dnsmasq.start \in Nat
      /\ kernel.start <= snap[p].start /\ nftsetFile.start <= snap[p].start
      /\ dnsmasq.start <= snap[p].start
  BY <1>1, Older, Numbers DEF IInv
<1>5. \A n \in Nat : n <= snap[p].start /\ Owes(snap[p].start) => Owes(n)'
  BY <1>1, <1>3, OthersOwe
<1>6. ASSUME faults = 0 PROVE KernelOwed' /\ LinesOwed(nftsetFile)' /\ LinesOwed(dnsmasq)'
  <2>1. Owed /\ Reader(p)
    BY <1>6 DEF QuietInv, Owed
  <2>2. CASE RulesetRejected(p)
    <3>1. (Owes(snap[p].start) \/ BadEnabled) /\ dnsmasq' = dnsmasq
      BY <2>1, <2>2, RejectedIsOwed DEF RulesetRejected, enforced
    <3> QED BY <1>3, <1>4, <1>5, <3>1 DEF KernelOwed, LinesOwed
  <2>3. CASE ReloadDnsmasq(p)
    <3>1. /\ pc[p] = "reload" /\ dnsmasq' = nftsetFile /\ kernel.start = snap[p].start
          /\ nftsetFile = NftsetLines(snap[p]) /\ unread[p] = {}
      BY <1>1, <1>4, <2>3 DEF ReloadDnsmasq, HandedOn, SnapshotAgrees
    <3>2. KernelOwed'
      BY <1>3, <1>4, <1>5, <2>1, <3>1 DEF Owed, KernelOwed, KernelRight, ChainsRight
    <3>3. nftsetFile.start = snap[p].start /\ nftsetFile.lines = EnabledRows(snap[p])
      BY <3>1 DEF NftsetLines
    <3>4. CASE Owes(snap[p].start)
      BY <1>3, <1>4, <1>5, <3>1, <3>2, <3>3, <3>4 DEF LinesOwed
    <3>5. CASE ReadRight(p)
      <4>1. LinesRight(nftsetFile)
        BY <1>1, <3>1, <3>3, <3>5 DEF LinesRight, ReadRight, EnabledRows
      <4> QED BY <1>3, <3>1, <3>2, <4>1 DEF LinesOwed, LinesRight
    <3> QED BY <1>1, <2>1, <3>4, <3>5 DEF Reader
  <2> QED BY <2>2, <2>3
<1> QED BY <1>1, <1>2, <1>3, <1>6, ReturnKeeps

\* When a step has failed nothing more is promised.
LEMMA FailuresKeep ==
    ASSUME IInv, QuietInv, NEW p \in Appliers, ApplyFails(p) \/ Shortened(p)
    PROVE  QuietInv'
<1>1. faults' = faults + 1 /\ faults \in Nat
  BY Numbers DEF IInv, ApplyFails, ReadFails, WriteConfFails, LoadFails, WriteNftsetsFails,
                 ReloadFails, Fault, Shortened, ShortRules, ShortPolicies, ShortDomains,
                 ShortAssignments, Slip
<1>2. CASE ApplyFails(p)
  <2>1. written' = written /\ now' = now
    BY <1>2 DEF ApplyFails, ReadFails, WriteConfFails, LoadFails, WriteNftsetsFails,
                ReloadFails, Fault, Return, config
  <2> QED BY <1>1, <2>1 DEF QuietInv, Written
<1>3. CASE Shortened(p)
  <2>1. Query(p)
    BY <1>3, QueriesOfApply DEF IInv
  <2>2. ASSUME NEW label, NEW next, Reading(p, label, next) PROVE written' = written /\ now' = now
    BY <2>2 DEF Reading, config
  <2>3. written' = written /\ now' = now
    BY <2>1, <2>2, Zenon DEF Query, ReadRules, ListBlocked, ReadPolicies, ReadDomains,
                             ReadAssignments
  <2> QED BY <1>1, <2>3 DEF QuietInv, Written
<1> QED BY <1>2, <1>3

\* A crash takes all goroutines, and start-up's Apply takes over what they owed.
LEMMA CrashKeeps ==
    ASSUME IInv, IInv', QuietInv, Crash
    PROVE  QuietInv'
<1>1. /\ TypeOK /\ Startup \in Appliers /\ Startup \in Procs /\ Appliers \subseteq Procs
      /\ stamp \in [Procs -> Nat] /\ now \in Nat
  BY DEF IInv, TypeOK, Procs, Appliers
<1>2. /\ UNCHANGED <<db, now, written, kernel, dnsmasq, faults>>
      /\ pc' = [p \in Procs |-> IF p = Startup THEN "lock" ELSE "idle"]
      /\ stamp' = [p \in Procs |-> IF p = Startup THEN now ELSE 0]
  BY DEF Crash, config
<1>3. pc'[Startup] # "idle" /\ stamp'[Startup] = now
  BY <1>1, <1>2
<1>4. \A p \in Appliers : stamp[p] \in Nat /\ stamp[p] <= now
  BY <1>1, Older, Numbers
<1>5. \A n \in Nat : Owes(n) => Owes(n)'
  BY <1>1, <1>3, <1>4 DEF Owes
<1>6. \A f \in Nftsets : CutShort(f) => CutShort(f)'
  <2>1. \A f \in Nftsets : f.start \in Nat
    BY DEF Nftsets
  <2> QED BY <1>1, <1>3, <1>4, <2>1 DEF CutShort
<1>7. Written'
  BY <1>2 DEF QuietInv, Written
<1>8. ASSUME faults = 0 PROVE Owed'
  <2>1. Owed /\ BadEnabled' = BadEnabled
    BY <1>2, <1>8 DEF QuietInv, BadEnabled
  <2>2. ASSUME NEW p \in Appliers PROVE Reader(p)'
    <3>1. pc'[p] \in {"lock", "idle"}
      BY <1>1, <1>2
    <3> QED BY <3>1 DEF Reader, Assignable, Generated, AfterRules, AfterDevices, AfterPolicies,
                        AfterAssigns
  <2>3. KernelOwed'
    BY <1>1, <1>2, <1>5, <2>1, Numbers DEF Owed, KernelOwed, KernelRight, ChainsRight
  <2>4. \A f \in Nftsets : LinesOwed(f) => LinesOwed(f)'
    <3>1. \A f \in Nftsets : f.start \in Nat
      BY DEF Nftsets
    <3> QED BY <1>2, <1>5, <1>6, <2>1, <3>1 DEF LinesOwed, LinesRight
  <2>5. nftsetFile \in Nftsets /\ dnsmasq \in Nftsets
    BY <1>1 DEF TypeOK
  <2>6. LinesOwed(dnsmasq)'
    BY <1>2, <2>1, <2>4, <2>5 DEF Owed, LinesOwed, LinesRight, CutShort
  <2>7. CASE nftsetFile' = nftsetFile
    BY <2>1, <2>3, <2>2, <2>4, <2>5, <2>6, <2>7 DEF Owed, LinesOwed, LinesRight, CutShort
  <2>8. ASSUME NEW p \in Appliers, pc[p] = "nftsets", nftsetFile' \in Cut(NftsetLines(snap[p]))
        PROVE  LinesOwed(nftsetFile)'
    <3>1. /\ ~nftsetFile'.whole
          /\ nftsetFile'.start = snap[p].start
      BY <2>8 DEF Cut, NftsetLines
    <3>2. snap[p].start <= now
      BY <2>8, Older DEF AfterRules, AfterDevices, AfterPolicies, AfterAssigns
    <3>3. stamp'[Startup] >= nftsetFile'.start
      BY <1>3, <3>1, <3>2, <1>1, Numbers
    <3> QED BY <1>1, <1>3, <3>1, <3>3 DEF LinesOwed, CutShort
  <2> QED BY <2>2, <2>3, <2>6, <2>7, <2>8 DEF Crash, Owed
<1> QED BY <1>2, <1>7, <1>8 DEF QuietInv

-----------------------------------------------------------------------------
\* The daemon starts with everything to apply.
LEMMA InitQuiet == Init => QuietInv
<1> SUFFICES ASSUME Init PROVE QuietInv
  OBVIOUS
<1>1. Startup \in Appliers /\ Startup \in Procs /\ Appliers \subseteq Procs
  BY DEF Procs, Appliers
<1>2. pc[Startup] # "idle" /\ stamp[Startup] = 1
  BY <1>1 DEF Init
<1>3. Owes(0)
  BY <1>1, <1>2 DEF Owes
<1>4. kernel.start = 0 /\ nftsetFile.start = 0 /\ dnsmasq.start = 0
  BY DEF Init, generateConfig, NftsetLines, NoSnapshot
<1>5. \A p \in Appliers : Reader(p)
  <2> TAKE p \in Appliers
  <2>1. pc[p] \in {"lock", "idle"}
    BY <1>1 DEF Init
  <2> QED BY <2>1 DEF Reader, Assignable, Generated, AfterRules, AfterDevices, AfterPolicies,
                      AfterAssigns
<1>6. Written
  BY DEF Init, Written
<1> QED BY <1>3, <1>4, <1>5, <1>6 DEF QuietInv, Owed, KernelOwed, LinesOwed

\* Every step keeps it.
LEMMA NextQuiet == IInv /\ IInv' /\ QuietInv /\ [Next]_vars => QuietInv'
<1> SUFFICES ASSUME IInv, IInv', QuietInv, [Next]_vars PROVE QuietInv'
  OBVIOUS
<1>1. ASSUME NEW r \in Requests,
             RuleRequest(r) \/ DeviceRequest(r) \/ PolicyRequest(r) \/ DomainRequest(r)
      PROVE  QuietInv'
  <2>1. CASE \E p \in Policies, mode \in Modes : CreatePolicy(r, p, mode)
    BY <2>1, CreateKeeps
  <2>2. CASE \E tables \in SUBSET Tables, rows \in SUBSET Pairs, next \in {"lock", "lookup"} :
                Sound(db', db, tables, rows) /\ Commit(r, db', tables, rows, next)
    BY <2>2, CommitOwes
  <2> QED BY <1>1, <2>1, <2>2, HandlerCommits
<1>2. ASSUME NEW p \in Appliers, ApplyStep(p) PROVE QuietInv'
  <2>1. CASE Acquire(p)
    BY <2>1, AroundKeeps
  <2>2. CASE \/ ListRules(p) \/ ListBlocked(p) \/ ListPolicies(p) \/ ListAssignments(p)
             \/ \E q \in Policies : ListDomains(p, q)
    BY <2>2, ReadsKeep
  <2>3. CASE WriteConf(p) \/ LoadRuleset(p) \/ WriteNftsets(p)
    BY <2>3, WritesKeep
  <2>4. CASE RulesetRejected(p) \/ ReloadDnsmasq(p)
    BY <2>4, ReturnsKeep
  <2> QED BY <1>2, <2>1, <2>2, <2>3, <2>4 DEF ApplyStep
<1>3. ASSUME NEW p \in Appliers, ApplyFails(p) \/ Shortened(p) PROVE QuietInv'
  BY <1>3, FailuresKeep
<1>4. CASE Crash
  BY <1>4, CrashKeeps
<1>5. CASE \/ RefreshAll
           \/ \E p \in Requests \cup {Refresher} : Resolve(p)
           \/ \E name \in Domains : ClientQuery(name)
           \/ DNSReload
           \/ UNCHANGED vars
  BY <1>5, AroundKeeps
<1> QED BY <1>1, <1>2, <1>3, <1>4, <1>5 DEF Next

\* The invariant about who has still to apply what, for all constants.
THEOREM QuietInvariance == Spec => []QuietInv
<1> QED BY InitQuiet, NextQuiet, Invariance, PTL DEF Spec

\* QuietIsApplied for all constants: when nobody is applying, nothing has failed and no
\* rule that nft refuses is enabled, kernel and dnsmasq run what the tables say.
THEOREM NothingIsForgotten == Spec => []QuietIsApplied
<1>1. ASSUME IInv, QuietInv PROVE QuietIsApplied
  <2> SUFFICES ASSUME faults = 0, ~BadEnabled, \A p \in Appliers : pc[p] = "idle" PROVE UpToDate
    BY DEF QuietIsApplied
  <2>1. Owed /\ (\A n : ~Owes(n)) /\ (\A f : ~CutShort(f))
    BY <1>1 DEF QuietInv, Owes, CutShort
  <2>2. KernelRight /\ LinesRight(dnsmasq)
    BY <2>1 DEF Owed, KernelOwed, LinesOwed
  <2>3. RulesAgree(kernel) /\ kernel.drops = db.devices /\ kernel.vmap = db.assigns
    BY <1>1, <2>2 DEF IInv, Copies, Agrees, KernelRight, Promised, Reads
  <2>4. dnsmasq.lines = EnabledRows(db)
    BY <1>1, <2>2 DEF IInv, TypeOK, Nftsets, LinesRight, EnabledRows
  <2> QED BY <2>2, <2>3, <2>4, ConfigAssumption DEF UpToDate, KernelRight, ChainsRight
<1> QED BY <1>1, Invariance, QuietInvariance, PTL
=============================================================================
