----------------------- MODULE FirewallApply_proofs -----------------------
(***************************************************************************)
(* Proofs about FirewallApply, for all sets of requests, policies, domains, *)
(* devices and rules and all bounds.                                        *)
(***************************************************************************)
EXTENDS FirewallApply, TLAPS

-----------------------------------------------------------------------------
(* The statements the service methods run keep the tables well formed and    *)
(* the foreign keys intact, and change only the tables and rows they name.   *)

\* `new' differs from d at most in the tables and the allow-list rows named
SameBut(new, d, tables, rows) ==
    /\ "rules" \notin tables => new.rules = d.rules
    /\ "devices" \notin tables => new.devices = d.devices
    /\ "policies" \notin tables => new.policies = d.policies
    /\ "assigns" \notin tables => new.assigns = d.assigns
    /\ \A pd \in Pairs \ rows : /\ new.domains[pd] = d.domains[pd]
                                /\ pd \in new.resolved <=> pd \in d.resolved

Sound(new, d, tables, rows) ==
    new \in Database /\ Integrity(new) /\ SameBut(new, d, tables, rows)

\* A row that is there is on or off.
LEMMA StateRow == \A e \in BOOLEAN : State(e) \in {"off", "on"}
  BY DEF State

\* A statement on firewall_rules changes that table only.
LEMMA RuleStatements ==
    ASSUME NEW d \in Database, Integrity(d), NEW x \in Rules, NEW e \in BOOLEAN
    PROVE  /\ Sound(CreateRuleIn(d, x, e), d, {"rules"}, {})
           /\ Sound(UpdateRuleIn(d, x, e), d, {"rules"}, {})
           /\ Sound(DeleteRuleIn(d, x), d, {"rules"}, {})
  BY StateRow DEF Sound, SameBut, Database, Integrity, Exists, Row, Pairs,
                  CreateRuleIn, UpdateRuleIn, DeleteRuleIn

\* Blocking or unblocking a device changes the devices table only, or nothing.
LEMMA DeviceStatement ==
    ASSUME NEW d \in Database, Integrity(d), NEW m \in Devices, NEW b \in BOOLEAN
    PROVE  Sound(UpdateDeviceIn(d, m, b), d, {"devices"}, {}) /\ Sound(d, d, {"devices"}, {})
  BY DEF Sound, SameBut, Database, Integrity, Exists, Pairs, UpdateDeviceIn

\* Creating or updating a policy changes the policies table only.
LEMMA PolicyStatements ==
    ASSUME NEW d \in Database, Integrity(d), NEW p \in Policies, NEW mode \in Modes
    PROVE  /\ Sound(CreatePolicyIn(d, p, mode), d, {"policies"}, {})
           /\ Sound(UpdatePolicyIn(d, p, mode), d, {"policies"}, {})
  BY ConfigAssumption
     DEF Sound, SameBut, Database, Integrity, Exists, Pairs, NoMode,
         CreatePolicyIn, UpdatePolicyIn

\* Deleting a policy takes its rows and its assignments along.
LEMMA DeletePolicyStatement ==
    ASSUME NEW d \in Database, Integrity(d), NEW p \in Policies, p # Default
    PROVE  Sound(DeletePolicyIn(d, p), d, {"policies", "assigns"}, {p} \X Domains)
  BY ZenonT(60), ConfigAssumption
     DEF Sound, SameBut, Database, Integrity, Exists, Pairs, NoMode, Row, DeletePolicyIn

\* A statement on one allow-list row changes that row only.
LEMMA DomainStatements ==
    ASSUME NEW d \in Database, Integrity(d), NEW pd \in Pairs, NEW e \in BOOLEAN
    PROVE  /\ Exists(d, pd[1]) => Sound(CreateDomainIn(d, pd), d, {}, {pd})
           /\ Sound(UpdateDomainIn(d, pd, e), d, {}, {pd})
           /\ Sound(DeleteDomainIn(d, pd), d, {}, {pd})
  BY StateRow DEF Sound, SameBut, Database, Integrity, Exists, Row, Pairs,
                  CreateDomainIn, UpdateDomainIn, DeleteDomainIn

\* Recording a resolution changes the rows of that domain that had none.
LEMMA ResolveStatement ==
    ASSUME NEW d \in Database, Integrity(d), NEW name
    PROVE  Sound(StoreResolvedIn(d, name), d, {}, RowsOf(d, name) \ d.resolved)
  BY DEF Sound, SameBut, Database, Integrity, Exists, Row, Pairs, StoreResolvedIn, RowsOf

\* Assigning a device to an existing policy, or to none, changes device_policies only.
LEMMA AssignStatements ==
    ASSUME NEW d \in Database, Integrity(d), NEW m \in Devices, NEW p \in Policies
    PROVE  /\ Exists(d, p) => Sound(AssignDeviceIn(d, m, p), d, {"assigns"}, {})
           /\ Sound(UnassignDeviceIn(d, m), d, {"assigns"}, {})
  BY DEF Sound, SameBut, Database, Integrity, Exists, Pairs, AssignDeviceIn, UnassignDeviceIn

-----------------------------------------------------------------------------
(* Steps outside Apply *)

\* A goroutine that is not inside Apply has nothing to be consistent with.
LEMMA Outside ==
    ASSUME NEW p \in Appliers, SnapshotAgrees(p), pc[p] \notin InApply,
           pc'[p] \notin InApply, snap'[p] = snap[p]
    PROVE  SnapshotAgrees(p)' /\ HandedOn(p)'
  BY DEF SnapshotAgrees, HandedOn, InApply, AfterRules, AfterDevices, AfterPolicies,
         AfterAssigns, NoSnapshot

\* A step that leaves every goroutine inside Apply where it is, loads nothing, and
\* gives every table and row it changes a number that is new, keeps the invariant.
LEMMA OutsideStep ==
    ASSUME IInv, TypeOK', IntegrityInv', now <= now',
           UNCHANGED <<lock, snap, unread, nftFile, kernel, nftsetFile, dnsmasq, settled>>,
           sets \subseteq sets',
           \A p \in Procs : pc'[p] = pc[p] \/ (pc[p] \notin InApply /\ pc'[p] \notin InApply),
           \A p \in Appliers : stamp'[p] = stamp[p] \/ (stamp'[p] <= now' /\ pc'[p] \notin InApply),
           written'["rules"] > now \/ (written'["rules"] = written["rules"] /\ db'.rules = db.rules),
           written'["devices"] > now \/ (written'["devices"] = written["devices"] /\ db'.devices = db.devices),
           written'["policies"] > now \/ (written'["policies"] = written["policies"] /\ db'.policies = db.policies),
           written'["assigns"] > now \/ (written'["assigns"] = written["assigns"] /\ db'.assigns = db.assigns),
           \A pd \in Pairs :
              \/ rowWritten'[pd] > now
              \/ /\ rowWritten'[pd] = rowWritten[pd]
                 /\ db'.domains[pd] = db.domains[pd]
                 /\ pd \in db'.resolved <=> pd \in db.resolved
    PROVE  IInv'
<1> USE DEF IInv
<1>1. Mutex'
  BY DEF Mutex, TypeOK, InApply
<1>2. Order'
  <2>1. \A p \in Appliers : stamp'[p] \in Nat /\ stamp[p] \in Nat /\ snap[p].start \in Nat
    BY DEF TypeOK, Snapshot, Procs, Appliers
  <2>2. AfterRules \subseteq InApply
    BY DEF AfterRules, AfterDevices, AfterPolicies, AfterAssigns, InApply
  <2> QED
    BY <2>1, <2>2 DEF Order, TypeOK, Ruleset, Nftsets, Procs, Appliers
<1>3. ASSUME NEW p \in Appliers
      PROVE  SnapshotAgrees(p)' /\ HandedOn(p)'
  <2>1. CASE pc[p] \notin InApply
    BY <1>3, <2>1, Outside DEF Procs, Appliers
  <2>2. CASE pc[p] \in InApply
    <3>1. pc'[p] = pc[p] /\ snap'[p] = snap[p] /\ unread'[p] = unread[p]
      BY <2>2 DEF Procs, Appliers
    <3>2. pc[p] \in AfterRules => snap[p].start <= now
      BY DEF Order
    <3>3. AfterDevices \subseteq AfterRules /\ AfterPolicies \subseteq AfterRules
          /\ AfterAssigns \subseteq AfterRules
      BY DEF AfterRules, AfterDevices, AfterPolicies, AfterAssigns
    <3>4. snap[p].start \in Nat /\ now \in Nat /\ written' \in [Tables -> Nat]
          /\ rowWritten' \in [Pairs -> Nat]
      BY DEF TypeOK, Snapshot, Procs, Appliers
    <3>5. SnapshotAgrees(p)'
      BY <3>1, <3>2, <3>3, <3>4 DEF SnapshotAgrees, Tables, NoSnapshot, Reads, RowsRead
    <3>6. HandedOn(p)'
      BY <3>1 DEF HandedOn, NftsetLines, EnabledRows
    <3> QED BY <3>5, <3>6
  <2> QED BY <2>1, <2>2
<1>4. Copies'
  <2>1. /\ nftFile.start \in Nat /\ kernel.start \in Nat /\ nftsetFile.start \in Nat
        /\ dnsmasq.start \in Nat /\ now \in Nat /\ written' \in [Tables -> Nat]
        /\ rowWritten' \in [Pairs -> Nat]
    BY DEF TypeOK, Ruleset, Nftsets
  <2>2. nftFile.start <= now /\ kernel.start <= now /\ nftsetFile.start <= now
        /\ dnsmasq.start <= now
    BY <2>1 DEF Order
  <2>3. Agrees(nftFile, nftFile.start)'
    BY <2>1, <2>2 DEF Copies, Agrees, RulesAgree, RuleLines, Reads, RowsRead, Tables
  <2>4. Agrees(kernel, kernel.start)'
    BY <2>1, <2>2 DEF Copies, Agrees, RulesAgree, RuleLines, Reads, RowsRead, Tables
  <2>5. LinesAgree(nftsetFile, nftsetFile.start)'
    BY <2>1, <2>2 DEF Copies, LinesAgree
  <2>6. LinesAgree(dnsmasq, dnsmasq.start)'
    BY <2>1, <2>2 DEF Copies, LinesAgree
  <2> QED BY <2>3, <2>4, <2>5, <2>6 DEF Copies
<1> QED BY <1>1, <1>2, <1>3, <1>4

\* A handler's commit keeps the invariant, whatever statement it runs.
LEMMA CommitStep ==
    ASSUME IInv, NEW r \in Requests, NEW new, NEW tables \in SUBSET Tables,
           NEW rows \in SUBSET Pairs, NEW next \in {"idle", "lock", "lookup"},
           Sound(new, db, tables, rows), Commit(r, new, tables, rows, next),
           todo' \in [Procs -> SUBSET Domains]
    PROVE  IInv'
<1>1. now \in Nat /\ now' = now + 1 /\ written \in [Tables -> Nat]
      /\ rowWritten \in [Pairs -> Nat] /\ stamp \in [Procs -> Nat]
  BY DEF IInv, TypeOK, Commit
<1>2. TypeOK'
  BY <1>1 DEF IInv, TypeOK, Commit, Sound, enforced, bounds, Labels, Procs
<1>3. IntegrityInv'
  BY DEF IntegrityInv, Sound, Commit
<1>4. \A t \in Tables : written'[t] > now \/ (t \notin tables /\ written'[t] = written[t])
  BY <1>1 DEF Commit
<1>5. \A pd \in Pairs : rowWritten'[pd] > now \/ (pd \notin rows /\ rowWritten'[pd] = rowWritten[pd])
  BY <1>1 DEF Commit
<1>6. db' = new /\ SameBut(db', db, tables, rows)
  BY DEF Sound, Commit
<1>7. \A p \in Procs : pc'[p] = pc[p] \/ (pc[p] \notin InApply /\ pc'[p] \notin InApply)
  BY DEF IInv, TypeOK, Commit, InApply
<1>8. \A p \in Appliers : stamp'[p] = stamp[p] \/ (stamp'[p] <= now' /\ pc'[p] \notin InApply)
  BY <1>1 DEF IInv, TypeOK, Commit, InApply, Procs, Appliers
<1>9. /\ written'["rules"] > now \/ (written'["rules"] = written["rules"] /\ db'.rules = db.rules)
      /\ written'["devices"] > now \/ (written'["devices"] = written["devices"] /\ db'.devices = db.devices)
      /\ written'["policies"] > now \/ (written'["policies"] = written["policies"] /\ db'.policies = db.policies)
      /\ written'["assigns"] > now \/ (written'["assigns"] = written["assigns"] /\ db'.assigns = db.assigns)
  BY <1>4, <1>6 DEF SameBut, Tables
<1>10. \A pd \in Pairs :
          \/ rowWritten'[pd] > now
          \/ /\ rowWritten'[pd] = rowWritten[pd]
             /\ db'.domains[pd] = db.domains[pd]
             /\ pd \in db'.resolved <=> pd \in db.resolved
  BY <1>5, <1>6 DEF SameBut
<1>11. /\ UNCHANGED <<lock, snap, unread, nftFile, kernel, nftsetFile, dnsmasq, settled>>
       /\ sets \subseteq sets' /\ now <= now'
  BY <1>1 DEF Commit, enforced
<1> QED BY <1>2, <1>3, <1>7, <1>8, <1>9, <1>10, <1>11, OutsideStep

\* Each of the twelve handlers.
LEMMA HandlerStep ==
    ASSUME IInv, NEW r \in Requests,
           RuleRequest(r) \/ DeviceRequest(r) \/ PolicyRequest(r) \/ DomainRequest(r)
    PROVE  IInv'
<1>1. db \in Database /\ Integrity(db) /\ todo \in [Procs -> SUBSET Domains] /\ r \in Procs
  BY DEF IInv, TypeOK, IntegrityInv, Procs
<1>2. CASE RuleRequest(r)
  <2>1. PICK x \in Rules :
           \/ \E e \in BOOLEAN : CreateRule(r, x, e) \/ UpdateRule(r, x, e)
           \/ DeleteRule(r, x)
    BY <1>2 DEF RuleRequest
  <2>2. ASSUME NEW e \in BOOLEAN, CreateRule(r, x, e) \/ UpdateRule(r, x, e) PROVE IInv'
    <3>1. \/ Commit(r, CreateRuleIn(db, x, e), {"rules"}, {}, "lock")
          \/ Commit(r, UpdateRuleIn(db, x, e), {"rules"}, {}, "lock")
      BY <2>2 DEF CreateRule, UpdateRule
    <3>2. todo' \in [Procs -> SUBSET Domains]
      BY <1>1, <2>2 DEF CreateRule, UpdateRule
    <3> QED BY <1>1, <3>1, <3>2, RuleStatements, CommitStep DEF Tables
  <2>3. ASSUME DeleteRule(r, x) PROVE IInv'
    <3>1. Sound(DeleteRuleIn(db, x), db, {"rules"}, {})
      BY <1>1, RuleStatements
    <3> QED BY <1>1, <2>3, <3>1, CommitStep DEF DeleteRule, Tables
  <2> QED BY <2>1, <2>2, <2>3
<1>3. CASE DeviceRequest(r)
  <2>1. PICK m \in Devices :
           \/ \E b, e \in BOOLEAN : UpdateDevice(r, m, b, e)
           \/ \E p \in Policies : AssignDevice(r, m, p)
           \/ UnassignDevice(r, m)
    BY <1>3 DEF DeviceRequest
  <2>2. ASSUME NEW b \in BOOLEAN, NEW e \in BOOLEAN, UpdateDevice(r, m, b, e) PROVE IInv'
    <3>1. \/ Commit(r, UpdateDeviceIn(db, m, b), {"devices"}, {}, "lock")
          \/ Commit(r, db, {"devices"}, {}, "lock")
      BY <2>2 DEF UpdateDevice
    <3>2. UNCHANGED todo
      BY <2>2 DEF UpdateDevice
    <3> QED BY <1>1, <3>1, <3>2, DeviceStatement, CommitStep DEF Tables
  <2>3. ASSUME NEW p \in Policies, AssignDevice(r, m, p) PROVE IInv'
    BY <1>1, <2>3, AssignStatements, CommitStep DEF AssignDevice, Tables
  <2>4. ASSUME UnassignDevice(r, m) PROVE IInv'
    <3>1. Sound(UnassignDeviceIn(db, m), db, {"assigns"}, {})
      BY <1>1, ConfigAssumption, AssignStatements
    <3> QED BY <1>1, <2>4, <3>1, CommitStep DEF UnassignDevice, Tables
  <2> QED BY <2>1, <2>2, <2>3, <2>4
<1>4. CASE PolicyRequest(r)
  <2>1. PICK p \in Policies :
           \/ \E mode \in Modes : CreatePolicy(r, p, mode) \/ UpdatePolicy(r, p, mode)
           \/ DeletePolicy(r, p)
    BY <1>4 DEF PolicyRequest
  <2>2. ASSUME NEW mode \in Modes, CreatePolicy(r, p, mode) PROVE IInv'
    BY <1>1, <2>2, PolicyStatements, CommitStep DEF CreatePolicy, Tables
  <2>3. ASSUME NEW mode \in Modes, UpdatePolicy(r, p, mode) PROVE IInv'
    BY <1>1, <2>3, PolicyStatements, CommitStep DEF UpdatePolicy, Tables
  <2>4. ASSUME DeletePolicy(r, p) PROVE IInv'
    <3>1. {p} \X Domains \in SUBSET Pairs
      BY DEF Pairs
    <3> QED BY <1>1, <2>4, <3>1, DeletePolicyStatement, CommitStep DEF DeletePolicy, Tables
  <2> QED BY <2>1, <2>2, <2>3, <2>4
<1>5. CASE DomainRequest(r)
  <2>1. PICK pd \in Pairs :
           \/ CreateDomain(r, pd)
           \/ \E e \in BOOLEAN : UpdateDomain(r, pd, e)
           \/ DeleteDomain(r, pd)
    BY <1>5 DEF DomainRequest
  <2>2. ASSUME CreateDomain(r, pd) PROVE IInv'
    <3>1. Sound(CreateDomainIn(db, pd), db, {}, {pd})
      BY <1>1, <2>2, DomainStatements DEF CreateDomain
    <3>2. todo' \in [Procs -> SUBSET Domains]
      BY <1>1, <2>2 DEF CreateDomain, Pairs
    <3> QED BY <2>2, <3>1, <3>2, CommitStep DEF CreateDomain
  <2>3. ASSUME NEW e \in BOOLEAN, UpdateDomain(r, pd, e) PROVE IInv'
    BY <1>1, <2>3, DomainStatements, CommitStep DEF UpdateDomain
  <2>4. ASSUME DeleteDomain(r, pd) PROVE IInv'
    <3>1. Sound(DeleteDomainIn(db, pd), db, {}, {pd})
      BY <1>1, DomainStatements
    <3> QED BY <1>1, <2>4, <3>1, CommitStep DEF DeleteDomain
  <2> QED BY <2>1, <2>2, <2>3, <2>4
<1> QED BY <1>2, <1>3, <1>4, <1>5

\* dnsmasq only adds to the sets, and only rows.
LEMMA LearntSets ==
    ASSUME TypeOK, NEW name
    PROVE  sets \subseteq Learnt(name) /\ Learnt(name) \subseteq Pairs
  BY DEF Learnt, TypeOK, Nftsets

\* The resolver's steps, and the queries of clients.
LEMMA ResolverStep ==
    ASSUME IInv,
           \/ RefreshAll
           \/ \E p \in Requests \cup {Refresher} : Resolve(p)
           \/ \E name \in Domains : ClientQuery(name)
    PROVE  IInv'
<1>1. TypeOK /\ IntegrityInv
  BY DEF IInv
<1>2. \A t \in Tables : written[t] \in Nat
  BY <1>1 DEF TypeOK
<1>3. now \in Nat /\ stamp \in [Procs -> Nat] /\ pc \in [Procs -> Labels]
      /\ rowWritten \in [Pairs -> Nat] /\ Appliers \subseteq Procs
  BY <1>1 DEF TypeOK, Procs, Appliers
<1>4. CASE RefreshAll
  <2>1. TypeOK'
    BY <1>1, <1>4 DEF RefreshAll, TypeOK, config, enforced, bounds, EnabledDomains, Labels, Procs
  <2>2. IntegrityInv'
    BY <1>1, <1>4 DEF RefreshAll, IntegrityInv, config
  <2>3. \A p \in Procs : pc'[p] = pc[p] \/ (pc[p] \notin InApply /\ pc'[p] \notin InApply)
    BY <1>3, <1>4 DEF RefreshAll, InApply
  <2> QED BY <1>3, <1>4, <2>1, <2>2, <2>3, OutsideStep DEF RefreshAll, config, enforced
<1>5. ASSUME NEW p \in Requests \cup {Refresher}, NEW name \in Domains, LookupAnswered(p, name)
      PROVE  IInv'
  <2>1. TypeOK'
    BY <1>1, <1>5, LearntSets
       DEF LookupAnswered, TypeOK, config, bounds, Labels, Procs
  <2>2. IntegrityInv'
    BY <1>1, <1>5 DEF LookupAnswered, IntegrityInv, config
  <2>3. \A q \in Procs : pc'[q] = pc[q] \/ (pc[q] \notin InApply /\ pc'[q] \notin InApply)
    BY <1>3, <1>5 DEF LookupAnswered, InApply
  <2> QED BY <1>1, <1>3, <1>5, <2>1, <2>2, <2>3, LearntSets, OutsideStep
          DEF LookupAnswered, config
<1>6. ASSUME NEW p \in Requests \cup {Refresher}, NEW name \in Domains, LookupFailed(p, name)
      PROVE  IInv'
  <2>1. TypeOK'
    BY <1>1, <1>6 DEF LookupFailed, NextName, TypeOK, config, enforced, bounds, Labels, Procs
  <2>2. IntegrityInv'
    BY <1>1, <1>6 DEF LookupFailed, IntegrityInv, config
  <2>3. \A q \in Procs : pc'[q] = pc[q] \/ (pc[q] \notin InApply /\ pc'[q] \notin InApply)
    BY <1>3, <1>6 DEF LookupFailed, NextName, InApply
  <2> QED BY <1>3, <1>6, <2>1, <2>2, <2>3, OutsideStep DEF LookupFailed, config, enforced
<1>7. ASSUME NEW p \in Requests \cup {Refresher}, StoreResolved(p)
      PROVE  IInv'
  <2> DEFINE filled == RowsOf(db, cur[p]) \ db.resolved
  <2>1. Sound(db', db, {}, filled)
    BY <1>1, <1>7, ResolveStatement DEF StoreResolved, TypeOK, IntegrityInv
  <2>2. now' \in Nat /\ now <= now' /\ (filled # {} => now < now')
    BY <1>3, <1>7 DEF StoreResolved
  <2>3. rowWritten' = [pd \in Pairs |-> IF pd \in filled THEN now' ELSE rowWritten[pd]]
        /\ stamp' \in {stamp, [stamp EXCEPT ![p] = now']}
    BY <1>7 DEF StoreResolved
  <2>4. TypeOK'
    BY <1>1, <1>7, <2>1, <2>2, <2>3
       DEF StoreResolved, NextName, Sound, TypeOK, enforced, bounds, Labels, Procs
  <2>5. IntegrityInv'
    BY <2>1 DEF IntegrityInv, Sound
  <2>6. \A q \in Procs : pc'[q] = pc[q] \/ (pc[q] \notin InApply /\ pc'[q] \notin InApply)
    BY <1>3, <1>7 DEF StoreResolved, NextName, InApply
  <2>7. \A q \in Appliers : stamp'[q] = stamp[q] \/ (stamp'[q] <= now' /\ pc'[q] \notin InApply)
    <3>1. pc'[p] \notin InApply
      BY <1>3, <1>7 DEF StoreResolved, NextName, InApply, Procs
    <3> QED BY <1>3, <2>2, <2>3, <3>1
  <2>8. \A pd \in Pairs :
           \/ rowWritten'[pd] > now
           \/ /\ rowWritten'[pd] = rowWritten[pd]
              /\ db'.domains[pd] = db.domains[pd]
              /\ pd \in db'.resolved <=> pd \in db.resolved
    <3> TAKE pd \in Pairs
    <3>1. CASE pd \in filled
      BY <1>3, <2>2, <2>3, <3>1
    <3>2. CASE pd \notin filled
      BY <2>1, <2>3, <3>2 DEF Sound, SameBut
    <3> QED BY <3>1, <3>2
  <2>9. db'.rules = db.rules /\ db'.devices = db.devices /\ db'.policies = db.policies
        /\ db'.assigns = db.assigns /\ written' = written
    BY <1>7, <2>1 DEF StoreResolved, Sound, SameBut
  <2>10. /\ UNCHANGED <<lock, snap, unread, nftFile, kernel, nftsetFile, dnsmasq, settled>>
         /\ sets \subseteq sets'
    BY <1>7 DEF StoreResolved, enforced
  <2> QED BY <2>2, <2>4, <2>5, <2>6, <2>7, <2>8, <2>9, <2>10, OutsideStep
<1>8. ASSUME NEW name \in Domains, ClientQuery(name)
      PROVE  IInv'
  <2>1. TypeOK'
    BY <1>1, <1>8, LearntSets DEF ClientQuery, TypeOK, config, local, bounds
  <2>2. IntegrityInv'
    BY <1>1, <1>8 DEF ClientQuery, IntegrityInv, config
  <2> QED BY <1>1, <1>3, <1>8, <2>1, <2>2, LearntSets, OutsideStep
          DEF ClientQuery, config, local
<1> QED BY <1>4, <1>5, <1>6, <1>7, <1>8 DEF Resolve

-----------------------------------------------------------------------------
(* Steps of Apply *)

\* While p runs Apply nobody else does: the other goroutines have no part in the
\* invariant, before the step and after it.
LEMMA OthersWait ==
    ASSUME IInv, NEW p \in Appliers, pc[p] \in InApply,
           UNCHANGED <<db, now, written, rowWritten>>,
           pc' = [pc EXCEPT ![p] = pc'[p]],
           \/ lock' = lock /\ pc'[p] \in InApply
           \/ lock' = Free /\ pc'[p] = "idle",
           \A q \in Appliers \ {p} : snap'[q] = snap[q]
    PROVE  /\ Mutex' /\ IntegrityInv' /\ lock = p
           /\ \A q \in Appliers \ {p} :
                 /\ SnapshotAgrees(q)' /\ HandedOn(q)'
                 /\ pc'[q] = pc[q] /\ pc[q] \notin InApply
<1>1. lock = p /\ p \in Procs /\ pc \in [Procs -> Labels] /\ Appliers \subseteq Procs
  BY DEF IInv, Mutex, TypeOK, Procs, Appliers
<1>2. \A q \in Procs \ {p} : pc[q] \notin InApply /\ pc'[q] = pc[q]
  BY <1>1 DEF IInv, Mutex
<1>3. Mutex'
  BY <1>1, <1>2, ProcAssumption DEF Mutex, InApply, Procs
<1>4. IntegrityInv'
  BY DEF IInv, IntegrityInv
<1>5. \A q \in Appliers \ {p} : SnapshotAgrees(q)' /\ HandedOn(q)'
  BY <1>1, <1>2, Outside DEF IInv
<1> QED BY <1>1, <1>2, <1>3, <1>4, <1>5

\* The stretches of Apply, one within the other.
LEMMA LabelsInApply ==
    /\ AfterAssigns \subseteq AfterPolicies /\ AfterPolicies \subseteq AfterDevices
    /\ AfterDevices \subseteq AfterRules /\ AfterRules \subseteq InApply
    /\ InApply = AfterRules \cup {"rules"} /\ InApply \subseteq Labels
    /\ "idle" \notin InApply /\ "lock" \notin InApply
  BY DEF AfterRules, AfterDevices, AfterPolicies, AfterAssigns, InApply, Labels

\* Taking the mutex
LEMMA AcquireStep ==
    ASSUME IInv, NEW p \in Appliers, Acquire(p)
    PROVE  IInv'
<1>1. p \in Procs /\ Appliers \subseteq Procs /\ TypeOK
  BY DEF IInv, Procs, Appliers
<1>2. TypeOK'
  BY <1>1 DEF TypeOK, Acquire, Goto, config, enforced, bounds, Labels, InApply
<1>3. \A q \in Procs : pc[q] \notin InApply
  BY <1>1, ProcAssumption DEF IInv, Mutex, Acquire
<1>4. Mutex'
  BY <1>1, <1>3 DEF Mutex, Acquire, Goto, TypeOK, InApply
<1>5. Order'
  BY <1>1 DEF IInv, Order, Acquire, Goto, config, enforced, TypeOK,
              AfterRules, AfterDevices, AfterPolicies, AfterAssigns
<1>6. ASSUME NEW q \in Appliers PROVE SnapshotAgrees(q)' /\ HandedOn(q)'
  <2>1. CASE q = p
    BY <1>1, <2>1 DEF IInv, SnapshotAgrees, HandedOn, Acquire, Goto, TypeOK, NoSnapshot,
                      AfterRules, AfterDevices, AfterPolicies, AfterAssigns
  <2>2. CASE q # p
    BY <1>1, <1>3, <2>2, Outside DEF IInv, Acquire, Goto, TypeOK
  <2> QED BY <2>1, <2>2
<1>7. Copies' /\ IntegrityInv'
  BY DEF IInv, Copies, Agrees, RulesAgree, RuleLines, Reads, RowsRead, LinesAgree, IntegrityInv, Acquire, config, enforced
<1> QED BY <1>2, <1>4, <1>5, <1>6, <1>7 DEF IInv

\* A query of Apply keeps the invariant if the snapshot it extends does.
LEMMA ReadStep ==
    ASSUME IInv, NEW p \in Appliers, NEW label \in InApply, NEW next \in AfterRules,
           Reading(p, label, next), faults' \in Nat,
           snap' \in [Procs -> Snapshot], unread' \in [Procs -> SUBSET Policies],
           \A q \in Appliers \ {p} : snap'[q] = snap[q],
           SnapshotAgrees(p)',
           \/ label = "rules" /\ snap'[p].start = now
           \/ label \in AfterRules /\ snap'[p].start = snap[p].start,
           next \notin {"load", "nftsets", "reload"}
    PROVE  IInv'
<1>1. p \in Procs /\ Appliers \subseteq Procs /\ TypeOK
  BY DEF IInv, Procs, Appliers
<1>2. pc' = [pc EXCEPT ![p] = next] /\ pc[p] = label /\ pc'[p] = next
  BY <1>1 DEF Reading, Goto, TypeOK
<1>3. UNCHANGED <<db, now, written, rowWritten, lock, stamp, nftFile, kernel, sets,
                  nftsetFile, dnsmasq, settled>>
  BY DEF Reading, config, enforced
<1>4. /\ Mutex' /\ IntegrityInv'
      /\ \A q \in Appliers \ {p} :
            SnapshotAgrees(q)' /\ HandedOn(q)' /\ pc'[q] = pc[q] /\ pc[q] \notin InApply
  BY <1>2, <1>3, LabelsInApply, OthersWait
<1>5. Order'
  BY <1>1, <1>2, <1>3, <1>4, LabelsInApply DEF IInv, Order, TypeOK, Snapshot, Ruleset
<1>6. HandedOn(p)'
  BY <1>2 DEF HandedOn
<1>7. Copies'
  BY <1>3 DEF IInv, Copies, Agrees, RulesAgree, RuleLines, Reads, RowsRead, LinesAgree
<1>8. TypeOK'
  BY <1>1, <1>2, LabelsInApply DEF TypeOK, Reading, config, enforced
<1> QED BY <1>4, <1>5, <1>6, <1>7, <1>8 DEF IInv

\* What a query gives of a table when some of its rows are missed.
LEMMA RowsWithout ==
    ASSUME NEW S, NEW T, NEW f \in [S -> T], NEW missed, NEW empty \in T, NEW table
    PROVE  /\ Without(f, missed, empty) \in [S -> T]
           /\ Reads(Without(f, missed, empty), f, empty, table \in Short(missed, table))
  BY DEF Without, Reads, Short

\* What reading one policy's allow list adds to a snapshot.
LEMMA SnapshotDomains ==
    ASSUME NEW s \in Snapshot, db \in Database, NEW q, NEW missed
    PROVE  LET t == WithDomains(s, q, missed)
           IN  /\ t \in Snapshot
               /\ \A pd \in Pairs : t.domains[pd] = IF pd[1] # q THEN s.domains[pd]
                                                    ELSE IF pd \in missed THEN "none"
                                                    ELSE db.domains[pd]
               /\ \A pd \in Pairs : pd \in t.resolved <=> IF pd[1] # q THEN pd \in s.resolved
                                                          ELSE pd \in db.resolved \ missed
               /\ t.start = s.start /\ t.rules = s.rules
               /\ t.devices = s.devices /\ t.policies = s.policies
               /\ t.short = s.short \cup Short(missed, "domains")
  BY DEF Snapshot, Database, WithDomains, Short, Shortable, Row

\* A query of Apply, whether or not it misses rows.
Query(p) ==
    \/ \E missed \in SUBSET Rules : ReadRules(p, missed)
    \/ ListBlocked(p)
    \/ \E missed \in SUBSET Policies : ReadPolicies(p, missed)
    \/ \E q \in Policies, missed \in SUBSET Pairs : ReadDomains(p, q, missed)
    \/ \E missed \in SUBSET Devices : ReadAssignments(p, missed)

LEMMA QueriesOfApply ==
    ASSUME TypeOK, NEW p \in Appliers,
           \/ /\ \/ ListRules(p) \/ ListBlocked(p) \/ ListPolicies(p) \/ ListAssignments(p)
                 \/ \E q \in Policies : ListDomains(p, q)
           \/ Shortened(p)
    PROVE  Query(p) /\ faults' \in Nat
<1>1. faults \in Nat
  BY DEF TypeOK
<1>2. CASE \/ ListRules(p) \/ ListBlocked(p) \/ ListPolicies(p) \/ ListAssignments(p)
           \/ \E q \in Policies : ListDomains(p, q)
  BY <1>1, <1>2 DEF ListRules, ListBlocked, ListPolicies, ListAssignments, ListDomains, Query
<1>3. CASE Shortened(p)
  <2>1. faults' \in Nat
    BY <1>1, <1>3 DEF Shortened, ShortRules, ShortPolicies, ShortDomains, ShortAssignments, Slip
  <2>2. CASE ShortRules(p)
    BY <2>1, <2>2 DEF ShortRules, Query
  <2>3. CASE ShortPolicies(p)
    BY <2>1, <2>3 DEF ShortPolicies, Query
  <2>4. ASSUME NEW q \in Policies, ShortDomains(p, q) PROVE Query(p)
    <3>1. {q} \X Domains \subseteq Pairs
      BY DEF Pairs
    <3>2. PICK missed \in SUBSET {pd \in {q} \X Domains : db.domains[pd] # "none"} :
             ReadDomains(p, q, missed)
      BY <2>4 DEF ShortDomains
    <3> QED BY <3>1, <3>2 DEF Query
  <2>5. CASE ShortAssignments(p)
    BY <2>1, <2>5 DEF ShortAssignments, Query
  <2> QED BY <1>3, <2>1, <2>2, <2>3, <2>4, <2>5 DEF Shortened
<1> QED BY <1>2, <1>3

\* The five queries of Apply
LEMMA ReadSteps ==
    ASSUME IInv, NEW p \in Appliers,
           \/ /\ \/ ListRules(p) \/ ListBlocked(p) \/ ListPolicies(p) \/ ListAssignments(p)
                 \/ \E q \in Policies : ListDomains(p, q)
           \/ Shortened(p)
    PROVE  IInv'
<1>1. p \in Procs /\ SnapshotAgrees(p) /\ Integrity(db) /\ db \in Database /\ now \in Nat
      /\ snap \in [Procs -> Snapshot] /\ rowWritten \in [Pairs -> Nat]
      /\ pc \in [Procs -> Labels] /\ unread \in [Procs -> SUBSET Policies]
      /\ Appliers \subseteq Procs /\ snap[p] \in Snapshot
  BY DEF IInv, TypeOK, IntegrityInv, Procs, Appliers
<1>2. Query(p) /\ faults' \in Nat
  BY QueriesOfApply DEF IInv
<1>3. /\ db.rules \in [Rules -> Row] /\ "none" \in Row
      /\ db.policies \in [Policies -> Modes \cup {NoMode}] /\ NoMode \in Modes \cup {NoMode}
      /\ db.assigns \in [Devices -> Policies \cup {NoPolicy}]
      /\ NoPolicy \in Policies \cup {NoPolicy}
  BY <1>1 DEF Database, Row
<1>4. \A missed : /\ Short(missed, "rules") \in SUBSET Shortable
                  /\ Short(missed, "policies") \in SUBSET Shortable
                  /\ Short(missed, "assigns") \in SUBSET Shortable
  BY DEF Short, Shortable
<1>5. ASSUME NEW missed \in SUBSET Rules, ReadRules(p, missed) PROVE IInv'
  <2> DEFINE s == [snap[p] EXCEPT !.start = now, !.rules = Without(db.rules, missed, "none"),
                                  !.short = Short(missed, "rules")]
  <2>1. Reading(p, "rules", "devices") /\ snap' = [snap EXCEPT ![p] = s] /\ unread' = unread
    BY <1>5 DEF ReadRules
  <2>2. pc'[p] = "devices" /\ pc[p] = "rules" /\ UNCHANGED <<db, written, rowWritten>>
    BY <1>1, <2>1 DEF Reading, Goto, config
  <2>3. /\ Without(db.rules, missed, "none") \in [Rules -> Row]
        /\ Reads(Without(db.rules, missed, "none"), db.rules, "none",
                 "rules" \in Short(missed, "rules"))
    BY <1>3, RowsWithout
  <2>4. /\ s \in Snapshot /\ s.start = now /\ s.rules = Without(db.rules, missed, "none")
        /\ s.short = Short(missed, "rules")
        /\ s.domains = snap[p].domains /\ s.resolved = snap[p].resolved
    <3> DEFINE w == Without(db.rules, missed, "none")
               more == Short(missed, "rules")
    <3>1. /\ snap[p] \in Snapshot /\ now \in Nat /\ w \in [Rules -> Row]
          /\ more \in SUBSET Shortable
      BY <1>1, <1>4, <2>3
    <3> HIDE DEF w, more
    <3>2. LET t == [snap[p] EXCEPT !.start = now, !.rules = w, !.short = more]
          IN  /\ t \in Snapshot /\ t.start = now /\ t.rules = w /\ t.short = more
              /\ t.domains = snap[p].domains /\ t.resolved = snap[p].resolved
      BY <3>1 DEF Snapshot
    <3> QED BY <3>2 DEF w, more
  <2> HIDE DEF s
  <2>5. snap' \in [Procs -> Snapshot] /\ snap'[p] = s /\ \A q \in Appliers \ {p} : snap'[q] = snap[q]
    BY <1>1, <2>1, <2>4
  <2>6. SnapshotAgrees(p)'
    BY <1>1, <2>1, <2>2, <2>3, <2>4, <2>5
       DEF SnapshotAgrees, AfterRules, AfterDevices, AfterPolicies, AfterAssigns, Reads, NoSnapshot
  <2>7. "rules" \in InApply /\ "devices" \in AfterRules
    BY DEF InApply, AfterRules
  <2> QED BY <1>1, <1>2, <2>1, <2>4, <2>5, <2>6, <2>7, ReadStep
<1>6. CASE ListBlocked(p)
  <2> DEFINE s == [snap[p] EXCEPT !.devices = db.devices]
  <2>1. Reading(p, "devices", "policies") /\ snap' = [snap EXCEPT ![p] = s] /\ unread' = unread
    BY <1>6 DEF ListBlocked
  <2>2. pc'[p] = "policies" /\ pc[p] = "devices" /\ UNCHANGED <<db, written, rowWritten>>
    BY <1>1, <2>1 DEF Reading, Goto, config
  <2>3. /\ s \in Snapshot /\ s.start = snap[p].start /\ s.rules = snap[p].rules
        /\ s.devices = db.devices /\ s.short = snap[p].short
        /\ s.domains = snap[p].domains /\ s.resolved = snap[p].resolved
    BY <1>1 DEF Snapshot, Database
  <2> HIDE DEF s
  <2>4. snap' \in [Procs -> Snapshot] /\ snap'[p] = s /\ \A q \in Appliers \ {p} : snap'[q] = snap[q]
    BY <1>1, <2>1, <2>3
  <2>5. SnapshotAgrees(p)'
    BY <1>1, <2>1, <2>2, <2>3, <2>4
       DEF SnapshotAgrees, AfterRules, AfterDevices, AfterPolicies, AfterAssigns, Reads, NoSnapshot
  <2>6. "devices" \in InApply /\ "devices" \in AfterRules /\ "policies" \in AfterRules
    BY DEF InApply, AfterRules, AfterDevices
  <2> QED BY <1>1, <1>2, <2>1, <2>3, <2>4, <2>5, <2>6, ReadStep
<1>7. ASSUME NEW missed \in SUBSET Policies, ReadPolicies(p, missed) PROVE IInv'
  <2> DEFINE w == Without(db.policies, missed, NoMode)
             more == Short(missed, "policies")
             s == [snap[p] EXCEPT !.policies = w, !.short = snap[p].short \cup more]
             next == IF unread'[p] = {} THEN "assigns" ELSE "domains"
  <2>1. Reading(p, "policies", next) /\ snap' = [snap EXCEPT ![p] = s]
        /\ unread' = [unread EXCEPT ![p] = {q \in Policies : Exists(db, q)} \ missed]
    BY <1>7 DEF ReadPolicies
  <2>2. pc'[p] = next /\ pc[p] = "policies" /\ UNCHANGED <<db, written, rowWritten>>
        /\ unread'[p] = {q \in Policies : Exists(db, q)} \ missed
        /\ unread' \in [Procs -> SUBSET Policies]
    BY <1>1, <2>1 DEF Reading, Goto, config
  <2>3. /\ w \in [Policies -> Modes \cup {NoMode}]
        /\ Reads(w, db.policies, NoMode, "policies" \in more)
    BY <1>3, RowsWithout
  <2>4. /\ s \in Snapshot /\ s.start = snap[p].start /\ s.rules = snap[p].rules
        /\ s.devices = snap[p].devices /\ s.policies = w /\ s.short = snap[p].short \cup more
        /\ s.domains = snap[p].domains /\ s.resolved = snap[p].resolved
    <3>1. snap[p] \in Snapshot /\ more \in SUBSET Shortable
      BY <1>1, <1>4
    <3> HIDE DEF w, more
    <3> QED BY <2>3, <3>1 DEF Snapshot
  <2>5. next \in {"domains", "assigns"} /\ (next = "assigns" => unread'[p] = {})
    OBVIOUS
  <2>6. "policies" \notin more => missed = {}
    BY DEF Short
  <2> HIDE DEF s, w, more, next
  <2>7. snap' \in [Procs -> Snapshot] /\ snap'[p] = s /\ \A q \in Appliers \ {p} : snap'[q] = snap[q]
    BY <1>1, <2>1, <2>4
  <2>8. snap[p].domains = NoSnapshot.domains /\ snap[p].resolved = {}
    BY <1>1, <2>2 DEF SnapshotAgrees, AfterPolicies, AfterAssigns
  <2>9. \A pd \in Pairs : /\ pd[1] \in Policies /\ NoSnapshot.domains[pd] = "none"
                          /\ ~Exists(db, pd[1]) => db.domains[pd] = "none" /\ pd \notin db.resolved
    BY <1>1 DEF Integrity, Pairs, NoSnapshot
  <2>10. SnapshotAgrees(p)'
    <3>1. /\ written["rules"] <= s.start => Reads(s.rules, db.rules, "none", "rules" \in s.short)
          /\ written["devices"] <= s.start => s.devices = db.devices
          /\ written["policies"] <= s.start =>
                Reads(s.policies, db.policies, NoMode, "policies" \in s.short)
      BY <1>1, <2>2, <2>3, <2>4
         DEF SnapshotAgrees, AfterRules, AfterDevices, AfterPolicies, AfterAssigns, Reads
    <3>2. \A pd \in Pairs : pd[1] \notin unread'[p] =>
             /\ s.domains[pd] \in {"none", db.domains[pd]}
             /\ pd \in s.resolved => pd \in db.resolved
             /\ RowsRead(s) => /\ s.domains[pd] = db.domains[pd]
                               /\ pd \in s.resolved <=> pd \in db.resolved
      BY <2>2, <2>4, <2>6, <2>8, <2>9 DEF RowsRead
    <3> QED BY <2>2, <2>5, <2>7, <3>1, <3>2
            DEF SnapshotAgrees, AfterRules, AfterDevices, AfterPolicies, AfterAssigns, Reads,
                RowsRead
  <2>11. "policies" \in InApply /\ "policies" \in AfterRules /\ next \in AfterRules
         /\ next \notin {"load", "nftsets", "reload"}
    BY <2>5 DEF InApply, AfterRules, AfterDevices, AfterPolicies
  <2> QED BY <1>1, <1>2, <2>1, <2>2, <2>4, <2>7, <2>10, <2>11, ReadStep
<1>8. ASSUME NEW q \in Policies, NEW missed \in SUBSET Pairs, ReadDomains(p, q, missed) PROVE IInv'
  <2> DEFINE next == IF unread[p] = {q} THEN "assigns" ELSE "domains"
             s == WithDomains(snap[p], q, missed)
             more == Short(missed, "domains")
  <2>1. Reading(p, "domains", next) /\ snap' = [snap EXCEPT ![p] = s] /\ q \in unread[p]
        /\ unread' = [unread EXCEPT ![p] = unread[p] \ {q}]
    BY <1>8 DEF ReadDomains
  <2>2. pc'[p] = next /\ pc[p] = "domains" /\ UNCHANGED <<db, written, rowWritten>>
        /\ unread'[p] = unread[p] \ {q} /\ unread' \in [Procs -> SUBSET Policies]
    BY <1>1, <2>1 DEF Reading, Goto, config
  <2>3. /\ s \in Snapshot
        /\ \A pd \in Pairs : s.domains[pd] = IF pd[1] # q THEN snap[p].domains[pd]
                                             ELSE IF pd \in missed THEN "none" ELSE db.domains[pd]
        /\ \A pd \in Pairs : pd \in s.resolved <=> IF pd[1] # q THEN pd \in snap[p].resolved
                                                   ELSE pd \in db.resolved \ missed
        /\ s.start = snap[p].start /\ s.rules = snap[p].rules
        /\ s.devices = snap[p].devices /\ s.policies = snap[p].policies
        /\ s.short = snap[p].short \cup more
    BY <1>1, SnapshotDomains
  <2>4. next \in {"domains", "assigns"} /\ (next = "assigns" => unread'[p] = {})
    BY <2>1, <2>2
  <2>5. "domains" \notin more => missed = {}
    BY DEF Short
  <2> HIDE DEF s, next, more
  <2>6. snap' \in [Procs -> Snapshot] /\ snap'[p] = s /\ \A r \in Appliers \ {p} : snap'[r] = snap[r]
    BY <1>1, <2>1, <2>3
  <2>7. SnapshotAgrees(p)'
    <3>1. /\ written["rules"] <= s.start => Reads(s.rules, db.rules, "none", "rules" \in s.short)
          /\ written["devices"] <= s.start => s.devices = db.devices
          /\ written["policies"] <= s.start =>
                Reads(s.policies, db.policies, NoMode, "policies" \in s.short)
      BY <1>1, <2>2, <2>3
         DEF SnapshotAgrees, AfterRules, AfterDevices, AfterPolicies, AfterAssigns, Reads
    <3>2. ASSUME NEW pd \in Pairs, pd[1] \notin unread'[p], rowWritten[pd] <= s.start
          PROVE  /\ s.domains[pd] \in {"none", db.domains[pd]}
                 /\ pd \in s.resolved => pd \in db.resolved
                 /\ RowsRead(s) => /\ s.domains[pd] = db.domains[pd]
                                   /\ pd \in s.resolved <=> pd \in db.resolved
      <4>1. CASE pd[1] = q
        BY <2>3, <2>5, <3>2, <4>1 DEF RowsRead
      <4>2. CASE pd[1] # q
        <5>1. pd[1] \notin unread[p] /\ rowWritten[pd] <= snap[p].start
          BY <2>2, <2>3, <3>2, <4>2
        <5>2. RowsRead(s) => RowsRead(snap[p])
          BY <2>3 DEF RowsRead
        <5>3. /\ snap[p].domains[pd] \in {"none", db.domains[pd]}
              /\ pd \in snap[p].resolved => pd \in db.resolved
              /\ RowsRead(snap[p]) => /\ snap[p].domains[pd] = db.domains[pd]
                                      /\ pd \in snap[p].resolved <=> pd \in db.resolved
          BY <1>1, <2>2, <5>1 DEF SnapshotAgrees, AfterPolicies
        <5> QED BY <2>3, <4>2, <5>2, <5>3
      <4> QED BY <4>1, <4>2
    <3> QED BY <2>2, <2>4, <2>6, <3>1, <3>2
            DEF SnapshotAgrees, AfterRules, AfterDevices, AfterPolicies, AfterAssigns, Reads,
                RowsRead
  <2>8. next \in AfterRules /\ next \notin {"load", "nftsets", "reload"}
        /\ "domains" \in InApply /\ "domains" \in AfterRules
    BY <2>4, LabelsInApply DEF AfterRules, AfterDevices, AfterPolicies
  <2> QED BY <1>2, <2>1, <2>2, <2>3, <2>6, <2>7, <2>8, ReadStep
<1>9. ASSUME NEW missed \in SUBSET Devices, ReadAssignments(p, missed) PROVE IInv'
  <2> DEFINE w == Without(db.assigns, missed, NoPolicy)
             more == Short(missed, "assigns")
             s == [snap[p] EXCEPT !.assigns = w, !.short = snap[p].short \cup more]
  <2>1. Reading(p, "assigns", "write") /\ snap' = [snap EXCEPT ![p] = s] /\ unread' = unread
    BY <1>9 DEF ReadAssignments
  <2>2. pc'[p] = "write" /\ pc[p] = "assigns" /\ UNCHANGED <<db, written, rowWritten>>
    BY <1>1, <2>1 DEF Reading, Goto, config
  <2>3. /\ w \in [Devices -> Policies \cup {NoPolicy}]
        /\ Reads(w, db.assigns, NoPolicy, "assigns" \in more)
    BY <1>3, RowsWithout
  <2>4. /\ s \in Snapshot /\ s.start = snap[p].start /\ s.rules = snap[p].rules
        /\ s.devices = snap[p].devices /\ s.policies = snap[p].policies /\ s.assigns = w
        /\ s.short = snap[p].short \cup more
        /\ s.domains = snap[p].domains /\ s.resolved = snap[p].resolved
    <3>1. snap[p] \in Snapshot /\ more \in SUBSET Shortable
      BY <1>1, <1>4
    <3> HIDE DEF w, more
    <3> QED BY <2>3, <3>1 DEF Snapshot
  <2>5. RowsRead(s) <=> RowsRead(snap[p])
    BY <2>4 DEF RowsRead, Short
  <2> HIDE DEF s, w, more
  <2>6. snap' \in [Procs -> Snapshot] /\ snap'[p] = s /\ \A q \in Appliers \ {p} : snap'[q] = snap[q]
    BY <1>1, <2>1, <2>4
  <2>7. SnapshotAgrees(p)'
    <3>1. /\ written["rules"] <= s.start => Reads(s.rules, db.rules, "none", "rules" \in s.short)
          /\ written["devices"] <= s.start => s.devices = db.devices
          /\ written["policies"] <= s.start =>
                Reads(s.policies, db.policies, NoMode, "policies" \in s.short)
          /\ Reads(s.assigns, db.assigns, NoPolicy, "assigns" \in s.short)
      BY <1>1, <2>2, <2>3, <2>4
         DEF SnapshotAgrees, AfterRules, AfterDevices, AfterPolicies, AfterAssigns, Reads
    <3> QED BY <1>1, <2>1, <2>2, <2>4, <2>5, <2>6, <3>1
            DEF SnapshotAgrees, AfterRules, AfterDevices, AfterPolicies, AfterAssigns, Reads,
                RowsRead
  <2>8. "assigns" \in InApply /\ "assigns" \in AfterRules /\ "write" \in AfterRules
    BY DEF InApply, AfterRules, AfterDevices, AfterPolicies, AfterAssigns
  <2> QED BY <1>1, <1>2, <2>1, <2>4, <2>6, <2>7, <2>8, ReadStep
<1> QED BY <1>2, <1>5, <1>6, <1>7, <1>8, <1>9 DEF Query

\* What Apply has read, once it has read everything
LEMMA Complete ==
    ASSUME TypeOK, NEW p \in Appliers, SnapshotAgrees(p), pc[p] \in AfterAssigns
    PROVE  /\ snap[p] \in Snapshot
           /\ written["rules"] <= snap[p].start =>
                 Reads(snap[p].rules, db.rules, "none", "rules" \in snap[p].short)
           /\ written["devices"] <= snap[p].start => snap[p].devices = db.devices
           /\ written["policies"] <= snap[p].start =>
                 Reads(snap[p].policies, db.policies, NoMode, "policies" \in snap[p].short)
           /\ written["assigns"] <= snap[p].start =>
                 Reads(snap[p].assigns, db.assigns, NoPolicy, "assigns" \in snap[p].short)
           /\ \A pd \in Pairs : rowWritten[pd] <= snap[p].start =>
                 /\ snap[p].domains[pd] \in {"none", db.domains[pd]}
                 /\ pd \in snap[p].resolved => pd \in db.resolved
                 /\ RowsRead(snap[p]) => /\ snap[p].domains[pd] = db.domains[pd]
                                         /\ pd \in snap[p].resolved <=> pd \in db.resolved
<1>1. snap[p] \in Snapshot
  BY DEF TypeOK, Procs, Appliers
<1>2. pc[p] \in AfterRules /\ pc[p] \in AfterDevices /\ pc[p] \in AfterPolicies
      /\ pc[p] \in {"assigns"} \cup AfterAssigns
  BY LabelsInApply
<1> QED BY <1>1, <1>2 DEF SnapshotAgrees

\* The ruleset generated from a complete snapshot agrees with the tables up to the
\* moment its reads began, whatever names did not resolve.
LEMMA GeneratedRuleset ==
    ASSUME TypeOK, NEW p \in Appliers, SnapshotAgrees(p), pc[p] \in AfterAssigns,
           NEW lost \in SUBSET NamedRules
    PROVE  /\ generateConfig(snap[p], lost) \in Ruleset
           /\ generateConfig(snap[p], lost).start = snap[p].start
           /\ Agrees(generateConfig(snap[p], lost), snap[p].start)
<1> DEFINE s == snap[p]
           f == generateConfig(s, lost)
<1>1. /\ s \in Snapshot
      /\ written["rules"] <= s.start => Reads(s.rules, db.rules, "none", "rules" \in s.short)
      /\ written["devices"] <= s.start => s.devices = db.devices
      /\ written["policies"] <= s.start =>
            Reads(s.policies, db.policies, NoMode, "policies" \in s.short)
      /\ written["assigns"] <= s.start =>
            Reads(s.assigns, db.assigns, NoPolicy, "assigns" \in s.short)
      /\ \A pd \in Pairs : rowWritten[pd] <= s.start =>
            /\ s.domains[pd] \in {"none", db.domains[pd]}
            /\ pd \in s.resolved => pd \in db.resolved
            /\ RowsRead(s) => /\ s.domains[pd] = db.domains[pd]
                              /\ pd \in s.resolved <=> pd \in db.resolved
  BY Complete
<1> HIDE DEF s
<1>2. f \in Ruleset /\ f.start = s.start
  BY <1>1 DEF Snapshot, Ruleset, generateConfig, EnabledRows, RuleLines
<1>3. /\ f.rules = RuleLines(s.rules, s.policies[Default]) \ lost
      /\ f.drops = s.devices /\ f.chains = s.policies /\ f.vmap = s.assigns
      /\ f.elements = EnabledRows(s) \cap s.resolved /\ f.short = s.short
  BY DEF generateConfig
<1>4. written["rules"] <= s.start => RulesAgree(f)
  <2>1. RuleLines(s.rules, f.chains[Default]) \ f.rules \subseteq NamedRules
    BY <1>3
  <2>2. \A x \in Rules : "none" # "on" /\ x \in DOMAIN db.rules
    BY DEF TypeOK, Database
  <2> QED BY <1>1, <1>3, <2>1, <2>2 DEF RulesAgree, RuleLines, Reads
<1>5. Agrees(f, s.start)
  <2>1. RowsRead(f) <=> RowsRead(s)
    BY <1>3 DEF RowsRead
  <2> QED BY <1>1, <1>3, <1>4, <2>1 DEF Agrees, EnabledRows
<1> QED BY <1>2, <1>5 DEF s

\* The same for the nftset file.
LEMMA GeneratedLines ==
    ASSUME TypeOK, NEW p \in Appliers, SnapshotAgrees(p), pc[p] \in AfterAssigns
    PROVE  /\ NftsetLines(snap[p]) \in Nftsets
           /\ NftsetLines(snap[p]).start = snap[p].start
           /\ LinesAgree(NftsetLines(snap[p]), snap[p].start)
<1> DEFINE s == snap[p]
<1>1. /\ s \in Snapshot
      /\ \A pd \in Pairs : rowWritten[pd] <= s.start =>
            /\ s.domains[pd] \in {"none", db.domains[pd]}
            /\ RowsRead(s) => s.domains[pd] = db.domains[pd]
  <2>1. s \in Snapshot
    BY Complete
  <2>2. ASSUME NEW pd \in Pairs, rowWritten[pd] <= s.start
        PROVE  /\ s.domains[pd] \in {"none", db.domains[pd]}
               /\ RowsRead(s) => s.domains[pd] = db.domains[pd]
    BY <2>2, Complete, Zenon
  <2> QED BY <2>1, <2>2
<1> HIDE DEF s
<1>2. NftsetLines(s) \in Nftsets /\ NftsetLines(s).start = s.start
  BY <1>1 DEF Snapshot, Nftsets, NftsetLines, EnabledRows
<1>3. LinesAgree(NftsetLines(s), s.start)
  BY <1>1 DEF LinesAgree, NftsetLines, EnabledRows, RowsRead
<1> QED BY <1>2, <1>3 DEF s

\* A file cut short says nothing that the whole one does not.
LEMMA CutFile ==
    ASSUME NEW f \in Nftsets, NEW n, LinesAgree(f, n), NEW g \in Cut(f)
    PROVE  g \in Nftsets /\ g.start = f.start /\ LinesAgree(g, n)
<1>1. PICK kept \in SUBSET f.lines : g = [f EXCEPT !.lines = kept, !.whole = FALSE]
  BY DEF Cut
<1>2. g \in Nftsets /\ g.start = f.start /\ g.lines \subseteq f.lines /\ ~g.whole
  BY <1>1 DEF Nftsets
<1> QED BY <1>2 DEF LinesAgree

\* The four steps that write a file or load it and go on
LEMMA AdvanceSteps ==
    ASSUME IInv, NEW p \in Appliers, WriteConf(p) \/ LoadRuleset(p) \/ WriteNftsets(p)
    PROVE  IInv'
<1>1. TypeOK /\ SnapshotAgrees(p) /\ HandedOn(p) /\ Copies /\ Order
      /\ p \in Procs /\ Appliers \subseteq Procs
  BY DEF IInv, Procs, Appliers
<1>2. pc \in [Procs -> Labels] /\ snap[p].start \in Nat /\ now \in Nat
      /\ nftFile.start \in Nat /\ kernel.start \in Nat /\ nftsetFile.start \in Nat
      /\ dnsmasq.start \in Nat /\ settled \in Nat /\ nftFile.elements \subseteq Pairs
  BY <1>1 DEF TypeOK, Snapshot, Ruleset, Nftsets
<1>3. UNCHANGED <<db, serving, now, written, rowWritten, todo, cur, lock, snap, unread,
                  stamp, dnsmasq, settled, faults, crashes>>
  BY DEF WriteConf, LoadRuleset, WriteNftsets, Advance, config, bounds
<1>4. pc[p] \in AfterAssigns /\ pc'[p] \in AfterAssigns /\ pc' = [pc EXCEPT ![p] = pc'[p]]
      /\ AfterAssigns \subseteq InApply /\ AfterAssigns \subseteq AfterRules
  BY <1>1, <1>2, LabelsInApply
     DEF WriteConf, LoadRuleset, WriteNftsets, Advance, Goto, AfterAssigns
<1>5. /\ Mutex' /\ IntegrityInv'
      /\ \A q \in Appliers \ {p} :
            SnapshotAgrees(q)' /\ HandedOn(q)' /\ pc'[q] = pc[q] /\ pc[q] \notin InApply
  BY <1>3, <1>4, OthersWait
<1>6. SnapshotAgrees(p)'
  BY <1>1, <1>3, <1>4, LabelsInApply DEF SnapshotAgrees, AfterAssigns
<1>7. /\ NftsetLines(snap[p]) \in Nftsets
      /\ NftsetLines(snap[p]).start = snap[p].start
      /\ LinesAgree(NftsetLines(snap[p]), snap[p].start)
  BY <1>1, <1>4, GeneratedLines
<1>8. nftFile.start <= snap[p].start /\ stamp[p] <= snap[p].start /\ snap[p].start <= now
  BY <1>1, <1>4 DEF Order
<1>9. ASSUME NEW q \in Appliers
      PROVE  /\ stamp'[q] <= now'
             /\ pc'[q] \in AfterRules => /\ q = p
                                         /\ stamp'[q] <= snap'[q].start
                                         /\ snap'[q].start <= now'
  BY <1>1, <1>3, <1>4, <1>5, <1>8, LabelsInApply DEF Order
<1>10. CASE WriteConf(p)
  <2>1. pc'[p] = "load" /\ UNCHANGED <<kernel, sets, nftsetFile>>
    BY <1>1, <1>2, <1>10 DEF WriteConf, Advance, Goto
  <2>0. /\ nftFile' \in Ruleset /\ nftFile'.start = snap[p].start
        /\ Agrees(nftFile', snap[p].start)
    <3>1. PICK lost \in SUBSET NamedRules : nftFile' = generateConfig(snap[p], lost)
      BY <1>10 DEF WriteConf
    <3> QED BY <1>1, <1>4, <3>1, GeneratedRuleset
  <2>2. HandedOn(p)'
    BY <1>3, <2>0, <2>1 DEF HandedOn
  <2>3. Order'
    BY <1>1, <1>2, <1>3, <1>8, <1>9, <2>0, <2>1 DEF Order
  <2>4. Agrees(nftFile, nftFile.start)'
    BY <1>3, <2>0 DEF Agrees, RulesAgree, RuleLines, Reads, RowsRead
  <2>5. Copies'
    BY <1>1, <1>3, <2>1, <2>4 DEF Copies, Agrees, RulesAgree, RuleLines, Reads, RowsRead, LinesAgree
  <2>6. TypeOK'
    BY <1>1, <1>3, <1>4, <2>0, <2>1, LabelsInApply DEF TypeOK
  <2> QED BY <1>5, <1>6, <2>2, <2>3, <2>5, <2>6 DEF IInv
<1>11. CASE LoadRuleset(p)
  <2>1. kernel' = nftFile /\ sets' = nftFile.elements /\ pc[p] = "load" /\ pc'[p] = "nftsets"
        /\ UNCHANGED <<nftFile, nftsetFile>>
    BY <1>1, <1>2, <1>11 DEF LoadRuleset, Load, Advance, Goto
  <2>2. kernel'.start = snap[p].start
    BY <1>1, <2>1 DEF HandedOn
  <2>3. HandedOn(p)'
    BY <1>3, <2>1, <2>2 DEF HandedOn
  <2>4. Order'
    BY <1>1, <1>2, <1>3, <1>8, <1>9, <2>1, <2>2 DEF Order
  <2>5. Copies'
    BY <1>1, <1>3, <2>1 DEF Copies, Agrees, RulesAgree, RuleLines, Reads, RowsRead, LinesAgree
  <2>6. TypeOK'
    BY <1>1, <1>2, <1>3, <1>4, <2>1, LabelsInApply DEF TypeOK
  <2> QED BY <1>5, <1>6, <2>3, <2>4, <2>5, <2>6 DEF IInv
<1>12. CASE WriteNftsets(p)
  <2>1. nftsetFile' = NftsetLines(snap[p]) /\ pc[p] = "nftsets" /\ pc'[p] = "reload"
        /\ UNCHANGED <<nftFile, kernel, sets>>
    BY <1>1, <1>2, <1>12 DEF WriteNftsets, Advance, Goto
  <2>2. kernel.start = snap[p].start
    BY <1>1, <2>1 DEF HandedOn
  <2>3. HandedOn(p)'
    BY <1>3, <2>1, <2>2 DEF HandedOn, NftsetLines, EnabledRows
  <2>4. Order'
    BY <1>1, <1>2, <1>3, <1>7, <1>8, <1>9, <2>1, <2>2 DEF Order
  <2>5. LinesAgree(nftsetFile, nftsetFile.start)'
    BY <1>3, <1>7, <2>1 DEF LinesAgree
  <2>6. Copies'
    BY <1>1, <1>3, <2>1, <2>5 DEF Copies, Agrees, RulesAgree, RuleLines, Reads, RowsRead, LinesAgree
  <2>7. TypeOK'
    BY <1>1, <1>3, <1>4, <1>7, <2>1, LabelsInApply DEF TypeOK
  <2> QED BY <1>5, <1>6, <2>3, <2>4, <2>6, <2>7 DEF IInv
<1> QED BY <1>10, <1>11, <1>12

\* Apply returns, with or without an error: the invariant is kept if what it leaves
\* behind in dnsmasq, its file and the kernel is in order, and if it reports nothing
\* that dnsmasq does not run.
LEMMA ReturnStep ==
    ASSUME IInv, NEW p \in Appliers, pc[p] \in InApply, NEW ok \in BOOLEAN, Return(p, ok),
           nftFile' = nftFile, kernel' \in Ruleset, nftsetFile' \in Nftsets,
           dnsmasq' \in Nftsets, sets' \subseteq Pairs, faults' \in Nat,
           Agrees(kernel', kernel'.start), kernel'.elements \subseteq sets',
           LinesAgree(nftsetFile', nftsetFile'.start), LinesAgree(dnsmasq', dnsmasq'.start),
           settled <= dnsmasq'.start, dnsmasq'.start <= nftsetFile'.start,
           nftsetFile'.start <= kernel'.start, kernel'.start <= nftFile.start,
           ok => stamp[p] <= dnsmasq'.start
    PROVE  IInv'
<1>1. TypeOK /\ Copies /\ Order /\ p \in Procs /\ Appliers \subseteq Procs
  BY DEF IInv, Procs, Appliers
<1>2. UNCHANGED <<db, now, written, rowWritten, todo, cur, crashes>>
      /\ stamp' = [stamp EXCEPT ![p] = 0]
      /\ lock' = Free /\ pc' = [pc EXCEPT ![p] = "idle"]
      /\ snap' = [snap EXCEPT ![p] = NoSnapshot] /\ unread' = [unread EXCEPT ![p] = {}]
      /\ serving' = (serving \/ p = Startup)
      /\ settled' = IF ok /\ stamp[p] > settled THEN stamp[p] ELSE settled
  BY DEF Return, config
<1>3. NoSnapshot \in Snapshot
  BY DEF NoSnapshot, Snapshot, Row, Shortable
<1>4. pc'[p] = "idle" /\ snap'[p] = NoSnapshot
  BY <1>1, <1>2 DEF TypeOK
<1>5. /\ Mutex' /\ IntegrityInv'
      /\ \A q \in Appliers \ {p} :
            SnapshotAgrees(q)' /\ HandedOn(q)' /\ pc'[q] = pc[q] /\ pc[q] \notin InApply
  <2>1. \A q \in Appliers \ {p} : snap'[q] = snap[q]
    BY <1>1, <1>2 DEF TypeOK
  <2> QED BY <1>2, <1>4, <2>1, OthersWait
<1>6. SnapshotAgrees(p)' /\ HandedOn(p)'
  BY <1>4, LabelsInApply
     DEF SnapshotAgrees, HandedOn, NoSnapshot,
         InApply, AfterRules, AfterDevices, AfterPolicies, AfterAssigns
<1>7. Order'
  <2>1. /\ settled \in Nat /\ stamp[p] \in Nat /\ dnsmasq'.start \in Nat
        /\ nftsetFile'.start \in Nat /\ kernel'.start \in Nat /\ nftFile.start \in Nat
    BY <1>1 DEF TypeOK, Ruleset, Nftsets
  <2>2. settled' <= dnsmasq'.start
    BY <1>2, <2>1
  <2>3. \A q \in Appliers : pc'[q] \notin AfterRules
    BY <1>4, <1>5, LabelsInApply
  <2>4. \A q \in Appliers : stamp'[q] <= now
    BY <1>1, <1>2 DEF TypeOK, Order
  <2> QED BY <1>1, <1>2, <2>1, <2>2, <2>3, <2>4 DEF Order
<1>8. Copies'
  BY <1>1, <1>2 DEF Copies, Agrees, RulesAgree, RuleLines, Reads, RowsRead, LinesAgree
<1>9. TypeOK'
  <2>1. settled' \in Nat
    BY <1>1, <1>2 DEF TypeOK
  <2>2. snap' \in [Procs -> Snapshot]
    BY <1>1, <1>2, <1>3 DEF TypeOK
  <2>3. serving' \in BOOLEAN /\ stamp' \in [Procs -> Nat]
    BY <1>1, <1>2 DEF TypeOK
  <2> QED BY <1>1, <1>2, <2>1, <2>2, <2>3 DEF TypeOK, Labels
<1> QED BY <1>5, <1>6, <1>7, <1>8, <1>9 DEF IInv

\* The steps at which Apply ends: it is through, nft refuses the ruleset, or one of
\* its queries, writes and commands fails.
LEMMA ReturnSteps ==
    ASSUME IInv, NEW p \in Appliers, RulesetRejected(p) \/ ReloadDnsmasq(p) \/ ApplyFails(p)
    PROVE  IInv'
<1>1. /\ TypeOK /\ HandedOn(p) /\ Copies /\ Order /\ SnapshotAgrees(p)
      /\ p \in Procs /\ Appliers \subseteq Procs
  BY DEF IInv, Procs, Appliers
<1>2. /\ nftFile \in Ruleset /\ kernel \in Ruleset /\ nftsetFile \in Nftsets
      /\ dnsmasq \in Nftsets /\ sets \subseteq Pairs /\ faults \in Nat /\ faults + 1 \in Nat
  BY <1>1 DEF TypeOK
<1>3. /\ Agrees(nftFile, nftFile.start) /\ Agrees(kernel, kernel.start)
      /\ LinesAgree(nftsetFile, nftsetFile.start) /\ LinesAgree(dnsmasq, dnsmasq.start)
      /\ kernel.elements \subseteq sets
  BY <1>1 DEF Copies
<1>4. /\ settled <= dnsmasq.start /\ dnsmasq.start <= nftsetFile.start
      /\ nftsetFile.start <= kernel.start /\ kernel.start <= nftFile.start
      /\ settled \in Nat /\ dnsmasq.start \in Nat /\ nftsetFile.start \in Nat
      /\ kernel.start \in Nat /\ nftFile.start \in Nat /\ stamp[p] \in Nat
  BY <1>1, <1>2 DEF Order, TypeOK, Ruleset, Nftsets
<1>5. CASE RulesetRejected(p)
  <2>1. pc[p] \in InApply /\ Return(p, FALSE)
        /\ UNCHANGED <<nftFile, kernel, sets, nftsetFile, dnsmasq, faults>>
    BY <1>5 DEF RulesetRejected, enforced, InApply
  <2> QED BY <1>2, <1>3, <1>4, <2>1, ReturnStep
<1>6. CASE ReloadDnsmasq(p)
  <2>1. pc[p] = "reload" /\ Return(p, TRUE) /\ dnsmasq' = nftsetFile
        /\ UNCHANGED <<nftFile, kernel, sets, nftsetFile, faults>>
    BY <1>6 DEF ReloadDnsmasq
  <2>2. nftsetFile.start = snap[p].start
    <3>1. snap[p] \in Snapshot
      BY <1>1 DEF TypeOK
    <3> QED BY <1>1, <2>1, <3>1 DEF HandedOn, NftsetLines
  <2>3. stamp[p] <= snap[p].start
    BY <1>1, <2>1, LabelsInApply DEF Order, AfterAssigns
  <2>4. pc[p] \in InApply
    BY <2>1 DEF InApply
  <2>5. settled <= dnsmasq'.start /\ dnsmasq'.start <= nftsetFile'.start
        /\ stamp[p] <= dnsmasq'.start
    BY <1>4, <2>1, <2>2, <2>3
  <2>6. dnsmasq' \in Nftsets /\ LinesAgree(dnsmasq', dnsmasq'.start)
    BY <1>2, <1>3, <2>1
  <2> QED BY <1>2, <1>3, <1>4, <2>1, <2>4, <2>5, <2>6, ReturnStep
<1>7. CASE ReadFails(p)
  <2>1. pc[p] \in InApply /\ Return(p, FALSE) /\ faults' = faults + 1
        /\ UNCHANGED <<nftFile, kernel, sets, nftsetFile, dnsmasq>>
    BY <1>7 DEF ReadFails, Fault, Slip, enforced, InApply
  <2> QED BY <1>2, <1>3, <1>4, <2>1, ReturnStep
<1>8. CASE WriteConfFails(p)
  <2>1. pc[p] \in InApply /\ Return(p, FALSE) /\ faults' = faults + 1
        /\ UNCHANGED <<nftFile, kernel, sets, nftsetFile, dnsmasq>>
    BY <1>8 DEF WriteConfFails, Fault, Slip, enforced, InApply
  <2> QED BY <1>2, <1>3, <1>4, <2>1, ReturnStep
<1>9. CASE LoadFails(p)
  <2>1. pc[p] \in InApply /\ Return(p, FALSE) /\ faults' = faults + 1
        /\ UNCHANGED <<nftFile, nftsetFile, dnsmasq>>
    BY <1>9 DEF LoadFails, Fault, Slip, InApply
  <2>2. CASE UNCHANGED <<kernel, sets>>
    BY <1>2, <1>3, <1>4, <2>1, <2>2, ReturnStep
  <2>3. CASE kernel' = nftFile /\ sets' = nftFile.elements
    <3>1. nftFile.elements \subseteq Pairs /\ nftsetFile.start <= nftFile.start
      BY <1>2, <1>4 DEF Ruleset
    <3>2. /\ kernel' \in Ruleset /\ Agrees(kernel', kernel'.start)
          /\ kernel'.elements \subseteq sets' /\ sets' \subseteq Pairs
          /\ nftsetFile.start <= kernel'.start /\ kernel'.start <= nftFile.start
      BY <1>2, <1>3, <1>4, <2>3, <3>1
    <3> QED BY <1>2, <1>3, <1>4, <2>1, <3>2, ReturnStep
  <2> QED BY <1>9, <2>2, <2>3 DEF LoadFails, Load
<1>10. CASE WriteNftsetsFails(p)
  <2>1. pc[p] = "nftsets" /\ Return(p, FALSE) /\ faults' = faults + 1
        /\ UNCHANGED <<nftFile, kernel, sets, dnsmasq>>
        /\ nftsetFile' \in {nftsetFile} \cup Cut(NftsetLines(snap[p]))
    BY <1>10 DEF WriteNftsetsFails, Fault, Slip
  <2>2. pc[p] \in InApply /\ pc[p] \in AfterAssigns /\ pc[p] \in AfterRules
    BY <2>1 DEF InApply, AfterRules, AfterDevices, AfterPolicies, AfterAssigns
  <2>3. CASE nftsetFile' = nftsetFile
    BY <1>2, <1>3, <1>4, <2>1, <2>2, <2>3, ReturnStep
  <2>4. CASE nftsetFile' \in Cut(NftsetLines(snap[p]))
    <3>1. /\ NftsetLines(snap[p]) \in Nftsets /\ NftsetLines(snap[p]).start = snap[p].start
          /\ LinesAgree(NftsetLines(snap[p]), snap[p].start)
      BY <1>1, <2>2, GeneratedLines
    <3>2. /\ nftsetFile' \in Nftsets /\ nftsetFile'.start = snap[p].start
          /\ LinesAgree(nftsetFile', nftsetFile'.start)
      BY <2>4, <3>1, CutFile
    <3>3. kernel.start = snap[p].start
      BY <1>1, <2>1 DEF HandedOn
    <3>4. dnsmasq.start <= nftsetFile'.start /\ nftsetFile'.start <= kernel.start
      BY <1>4, <3>2, <3>3
    <3> QED BY <1>2, <1>3, <1>4, <2>1, <2>2, <3>2, <3>4, ReturnStep
  <2> QED BY <2>1, <2>3, <2>4
<1>11. CASE ReloadFails(p)
  <2>1. pc[p] \in InApply /\ Return(p, FALSE) /\ faults' = faults + 1
        /\ UNCHANGED <<nftFile, kernel, sets, nftsetFile>>
        /\ dnsmasq' \in {dnsmasq, nftsetFile}
    BY <1>11 DEF ReloadFails, Fault, Slip, InApply
  <2>2. settled <= nftsetFile.start
    BY <1>4
  <2>3. CASE dnsmasq' = dnsmasq
    BY <1>2, <1>3, <1>4, <2>1, <2>3, ReturnStep
  <2>4. CASE dnsmasq' = nftsetFile
    <3>1. dnsmasq' \in Nftsets /\ LinesAgree(dnsmasq', dnsmasq'.start)
          /\ settled <= dnsmasq'.start /\ dnsmasq'.start <= nftsetFile'.start
      BY <1>2, <1>3, <1>4, <2>1, <2>2, <2>4
    <3> QED BY <1>2, <1>3, <1>4, <2>1, <3>1, ReturnStep
  <2> QED BY <2>1, <2>3, <2>4
<1> QED BY <1>5, <1>6, <1>7, <1>8, <1>9, <1>10, <1>11 DEF ApplyFails

-----------------------------------------------------------------------------
(* The rest of the system, and the theorems *)

\* DNSService reloads dnsmasq too.
LEMMA DNSReloadStep == IInv /\ DNSReload => IInv'
<1> SUFFICES ASSUME IInv, DNSReload PROVE IInv'
  OBVIOUS
<1>1. dnsmasq' = nftsetFile
      /\ UNCHANGED <<config, serving, local, nftFile, kernel, sets, nftsetFile, settled, bounds>>
  BY DEF DNSReload
<1>2. TypeOK'
  BY <1>1 DEF IInv, TypeOK, config, local, bounds
<1>3. Mutex' /\ IntegrityInv'
  BY <1>1 DEF IInv, Mutex, IntegrityInv, config, local
<1>4. Order'
  <2>1. settled \in Nat /\ dnsmasq.start \in Nat /\ nftsetFile.start \in Nat
    BY DEF IInv, TypeOK, Nftsets
  <2> QED BY <1>1, <2>1 DEF IInv, Order, config, local
<1>5. ASSUME NEW p \in Appliers PROVE SnapshotAgrees(p)' /\ HandedOn(p)'
  <2>1. SnapshotAgrees(p) /\ HandedOn(p)
    BY DEF IInv
  <2>2. SnapshotAgrees(p)'
    BY <1>1, <2>1 DEF SnapshotAgrees, config, local, NoSnapshot
  <2>3. HandedOn(p)'
    BY <1>1, <2>1 DEF HandedOn, local, generateConfig, NftsetLines, EnabledRows
  <2> QED BY <2>2, <2>3
<1>6. Copies'
  BY <1>1 DEF IInv, Copies, Agrees, RulesAgree, RuleLines, Reads, RowsRead, LinesAgree, config, local
<1> QED BY <1>2, <1>3, <1>4, <1>5, <1>6 DEF IInv

\* The daemon dies and starts again.
LEMMA CrashStep == IInv /\ Crash => IInv'
<1> SUFFICES ASSUME IInv, Crash PROVE IInv'
  OBVIOUS
<1>1. TypeOK /\ Order /\ Copies /\ Appliers \subseteq Procs
  BY DEF IInv, Procs, Appliers
<1>2. /\ UNCHANGED <<db, now, written, rowWritten, nftFile, kernel, sets, dnsmasq, settled, faults>>
      /\ pc' = [p \in Procs |-> IF p = Startup THEN "lock" ELSE "idle"]
      /\ snap' = [p \in Procs |-> NoSnapshot] /\ unread' = [p \in Procs |-> {}]
      /\ stamp' = [p \in Procs |-> IF p = Startup THEN now ELSE 0]
      /\ lock' = Free /\ serving' = FALSE
  BY DEF Crash, config
<1>3. \A p \in Procs : pc'[p] \notin InApply /\ snap'[p] = NoSnapshot
  BY <1>2 DEF InApply
<1>4. /\ nftsetFile' \in Nftsets /\ LinesAgree(nftsetFile', nftsetFile'.start)
      /\ dnsmasq.start <= nftsetFile'.start /\ nftsetFile'.start <= kernel.start
  <2>1. CASE nftsetFile' = nftsetFile
    BY <1>1, <2>1 DEF TypeOK, Copies, Order
  <2>2. ASSUME NEW p \in Appliers, pc[p] = "nftsets", nftsetFile' \in Cut(NftsetLines(snap[p]))
        PROVE  /\ nftsetFile' \in Nftsets /\ LinesAgree(nftsetFile', nftsetFile'.start)
               /\ dnsmasq.start <= nftsetFile'.start /\ nftsetFile'.start <= kernel.start
    <3>1. SnapshotAgrees(p) /\ HandedOn(p) /\ pc[p] \in AfterAssigns
      BY <2>2 DEF IInv, AfterAssigns
    <3>2. /\ NftsetLines(snap[p]) \in Nftsets /\ NftsetLines(snap[p]).start = snap[p].start
          /\ LinesAgree(NftsetLines(snap[p]), snap[p].start)
      BY <1>1, <3>1, GeneratedLines
    <3>3. nftsetFile' \in Nftsets /\ LinesAgree(nftsetFile', nftsetFile'.start)
          /\ nftsetFile'.start = snap[p].start
      BY <2>2, <3>2, CutFile
    <3>4. kernel.start = snap[p].start
      BY <2>2, <3>1 DEF HandedOn
    <3>5. /\ dnsmasq.start \in Nat /\ nftsetFile.start \in Nat /\ kernel.start \in Nat
          /\ dnsmasq.start <= nftsetFile.start /\ nftsetFile.start <= kernel.start
      BY <1>1 DEF TypeOK, Nftsets, Ruleset, Order
    <3> QED BY <3>3, <3>4, <3>5
  <2> QED BY <2>1, <2>2 DEF Crash
<1>5. TypeOK'
  <2>1. NoSnapshot \in Snapshot
    BY DEF NoSnapshot, Snapshot, Row, Shortable
  <2>2. crashes' \in Nat /\ todo' \in [Procs -> SUBSET Domains]
        /\ cur' \in [Procs -> Domains \cup {NoDomain}]
    BY <1>1 DEF Crash, TypeOK
  <2>3. pc' \in [Procs -> Labels] /\ snap' \in [Procs -> Snapshot]
        /\ unread' \in [Procs -> SUBSET Policies] /\ stamp' \in [Procs -> Nat]
    BY <1>1, <1>2, <2>1 DEF TypeOK, Labels
  <2> QED BY <1>1, <1>2, <1>4, <2>2, <2>3 DEF TypeOK
<1>6. Mutex' /\ IntegrityInv'
  BY <1>2, <1>3, ProcAssumption DEF IInv, Mutex, IntegrityInv
<1>7. Order'
  <2>1. \A p \in Appliers : stamp'[p] <= now /\ pc'[p] \notin AfterRules
    BY <1>1, <1>2, <1>3, LabelsInApply DEF TypeOK, Order
  <2> QED BY <1>1, <1>2, <1>4, <2>1 DEF Order
<1>8. \A p \in Appliers : SnapshotAgrees(p)' /\ HandedOn(p)'
  BY <1>1, <1>2, <1>3
     DEF SnapshotAgrees, HandedOn, InApply, AfterRules, AfterDevices, AfterPolicies,
         AfterAssigns, NoSnapshot
<1>9. Copies'
  BY <1>1, <1>2, <1>4 DEF Copies, Agrees, RulesAgree, RuleLines, Reads, RowsRead, LinesAgree
<1> QED BY <1>5, <1>6, <1>7, <1>8, <1>9 DEF IInv

\* The invariant holds when start-up reaches the firewall.
LEMMA InitInvariant == Init => IInv
<1> SUFFICES ASSUME Init PROVE IInv
  OBVIOUS
<1>1. NoSnapshot \in Snapshot /\ NoSnapshot.start = 0
  BY DEF NoSnapshot, Snapshot, Row, Shortable
<1>2. /\ generateConfig(NoSnapshot, {}) \in Ruleset /\ generateConfig(NoSnapshot, {}).start = 0
      /\ generateConfig(NoSnapshot, {}).elements = {}
      /\ NftsetLines(NoSnapshot) \in Nftsets /\ NftsetLines(NoSnapshot).start = 0
  BY DEF NoSnapshot, Ruleset, Nftsets, generateConfig, NftsetLines, EnabledRows, RuleLines
<1>3. /\ nftFile = generateConfig(NoSnapshot, {}) /\ kernel = generateConfig(NoSnapshot, {})
      /\ nftsetFile = NftsetLines(NoSnapshot) /\ dnsmasq = NftsetLines(NoSnapshot)
      /\ now = 1 /\ settled = 0 /\ sets = {} /\ lock = Free
      /\ \A t \in Tables : written[t] = 1
      /\ \A pd \in Pairs : rowWritten[pd] = 1
      /\ \A p \in Procs : pc[p] \in {"lock", "idle"} /\ snap[p] = NoSnapshot /\ stamp[p] \in {0, 1}
  BY DEF Init
<1>4. Appliers \subseteq Procs /\ \A p \in Procs : pc[p] \notin InApply
  BY <1>3 DEF InApply, Procs, Appliers
<1>5. db \in Database /\ Integrity(db)
  BY ProcAssumption DEF Init
<1>6. TypeOK
  <2>1. written \in [Tables -> Nat] /\ rowWritten \in [Pairs -> Nat] /\ stamp \in [Procs -> Nat]
    BY DEF Init
  <2>2. pc \in [Procs -> Labels] /\ todo \in [Procs -> SUBSET Domains]
        /\ cur \in [Procs -> Domains \cup {NoDomain}] /\ snap \in [Procs -> Snapshot]
        /\ unread \in [Procs -> SUBSET Policies]
    BY <1>1 DEF Init, Labels
  <2>3. serving \in BOOLEAN /\ faults \in Nat /\ crashes \in Nat
    BY DEF Init
  <2> QED BY <1>2, <1>3, <1>5, <2>1, <2>2, <2>3 DEF TypeOK
<1>7. Mutex
  BY <1>3, <1>4, ProcAssumption DEF Mutex
<1>8. Order
  <2>1. \A p \in Appliers : p \in Procs /\ pc[p] \notin AfterRules
    BY <1>4, LabelsInApply
  <2>2. \A p \in Appliers : stamp[p] <= now
    BY <1>3, <2>1
  <2> QED BY <1>2, <1>3, <2>1, <2>2 DEF Order
<1>9. \A p \in Appliers : SnapshotAgrees(p) /\ HandedOn(p)
  <2>1. NoSnapshot.resolved = {}
    BY DEF NoSnapshot
  <2>2. \A p \in Appliers : p \in Procs /\ pc[p] \notin AfterRules
    BY <1>4, LabelsInApply
  <2> QED BY <1>3, <2>1, <2>2
          DEF SnapshotAgrees, HandedOn, AfterRules, AfterDevices, AfterPolicies, AfterAssigns
<1>10. Copies
  <2>1. /\ \A t \in Tables : ~(written[t] <= 0)
        /\ \A pd \in Pairs : ~(rowWritten[pd] <= 0)
    BY <1>3
  <2>2. Agrees(nftFile, 0) /\ LinesAgree(nftsetFile, 0)
    BY <2>1 DEF Agrees, RulesAgree, RuleLines, Reads, RowsRead, LinesAgree, Tables
  <2> QED BY <1>2, <1>3, <2>2 DEF Copies
<1> QED BY <1>5, <1>6, <1>7, <1>8, <1>9, <1>10 DEF IInv, IntegrityInv

\* Every step keeps the invariant.
LEMMA NextInvariant == IInv /\ [Next]_vars => IInv'
<1> SUFFICES ASSUME IInv, [Next]_vars PROVE IInv'
  OBVIOUS
<1>1. CASE UNCHANGED vars
  <2>1. UNCHANGED <<db, now, written, rowWritten, serving, pc, todo, cur, lock, snap, unread,
                    stamp, nftFile, kernel, sets, nftsetFile, dnsmasq, settled, faults, crashes>>
    BY <1>1 DEF vars, config, local, enforced, bounds
  <2>2. TypeOK' /\ IntegrityInv' /\ Mutex' /\ Order' /\ Copies'
    BY <2>1 DEF IInv, TypeOK, IntegrityInv, Mutex, Order, Copies, Agrees, RulesAgree, RuleLines, Reads, RowsRead, LinesAgree
  <2>3. \A p \in Appliers : SnapshotAgrees(p)' /\ HandedOn(p)'
    BY <2>1 DEF IInv, SnapshotAgrees, HandedOn, NoSnapshot, generateConfig, NftsetLines, EnabledRows
  <2> QED BY <2>2, <2>3 DEF IInv
<1>2. ASSUME NEW r \in Requests,
             RuleRequest(r) \/ DeviceRequest(r) \/ PolicyRequest(r) \/ DomainRequest(r)
      PROVE  IInv'
  BY <1>2, HandlerStep
<1>3. CASE RefreshAll
  BY <1>3, ResolverStep
<1>4. CASE \E p \in Requests \cup {Refresher} : Resolve(p)
  BY <1>4, ResolverStep
<1>5. CASE \E name \in Domains : ClientQuery(name)
  BY <1>5, ResolverStep
<1>6. ASSUME NEW p \in Appliers, ApplyStep(p) PROVE IInv'
  BY <1>6, AcquireStep, ReadSteps, AdvanceSteps, ReturnSteps DEF ApplyStep
<1>7. ASSUME NEW p \in Appliers, ApplyFails(p) \/ Shortened(p) PROVE IInv'
  BY <1>7, ReadSteps, ReturnSteps
<1>8. CASE DNSReload
  BY <1>8, DNSReloadStep
<1>9. CASE Crash
  BY <1>9, CrashStep
<1> QED BY <1>1, <1>2, <1>3, <1>4, <1>5, <1>6, <1>7, <1>8, <1>9 DEF Next

\* The inductive invariant holds of every behaviour of the daemon.
THEOREM Invariance == Spec => []IInv
  BY InitInvariant, NextInvariant, PTL DEF Spec

\* TypeOK for all constants: the tables, the files and the goroutines' variables
\* stay well typed.
THEOREM TypeCorrect == Spec => []TypeOK
<1>1. IInv => TypeOK
  BY DEF IInv
<1> QED BY <1>1, Invariance, PTL

\* IntegrityInv for all constants: no handler, cascade or resolution leaves a row
\* naming a policy that is gone.
THEOREM ForeignKeysHold == Spec => []IntegrityInv
<1>1. IInv => IntegrityInv
  BY DEF IInv
<1> QED BY <1>1, Invariance, PTL

\* What agrees up to n agrees up to any m <= n.
LEMMA AgreesBelow ==
    ASSUME TypeOK, NEW f, NEW m \in Nat, NEW n \in Nat, m <= n
    PROVE  /\ Agrees(f, n) => Agrees(f, m)
           /\ LinesAgree(f, n) => LinesAgree(f, m)
<1>1. \A t \in Tables : written[t] \in Nat /\ (written[t] <= m => written[t] <= n)
  BY DEF TypeOK
<1>2. \A pd \in Pairs : rowWritten[pd] \in Nat /\ (rowWritten[pd] <= m => rowWritten[pd] <= n)
  BY DEF TypeOK
<1> QED BY <1>1, <1>2 DEF Agrees, RulesAgree, RuleLines, Reads, RowsRead, LinesAgree, Tables

\* What is settled is live: the part of the order the properties use.
LEMMA SettledBelow ==
    IInv => /\ settled \in Nat /\ now \in Nat /\ kernel.start \in Nat /\ dnsmasq.start \in Nat
            /\ settled <= dnsmasq.start /\ dnsmasq.start <= kernel.start
            /\ settled <= kernel.start /\ kernel.start <= now /\ dnsmasq.start <= now
            /\ kernel.start <= nftFile.start /\ dnsmasq.start <= nftsetFile.start
  BY DEF IInv, TypeOK, Order, Ruleset, Nftsets

\* SettledIsLive for all constants.  Wherever the last change is settled, the kernel and
\* dnsmasq say nothing that the tables do not and the blocked devices are dropped, whatever
\* fails or crashes.  They also say all that the tables do, but for what a read that ended
\* short has missed (`short') and what a cut directives file has lost (~whole).
THEOREM SettledChangesAreLive == Spec => []SettledIsLive
<1>1. IInv => SettledIsLive
  BY SettledBelow, AgreesBelow DEF IInv, Copies, SettledIsLive
<1> QED BY <1>1, Invariance, PTL

\* SettledIsPopulated for all constants: the addresses of a domain reported as
\* added are in the kernel's set, unless the read the ruleset comes of missed rows.
THEOREM SettledDomainsArePopulated == Spec => []SettledIsPopulated
<1>1. IInv => SettledIsPopulated
  <2> SUFFICES ASSUME IInv PROVE SettledIsPopulated
    OBVIOUS
  <2>1. Agrees(kernel, settled) /\ kernel.elements \subseteq sets
    BY SettledBelow, AgreesBelow DEF IInv, Copies
  <2> QED BY <2>1 DEF SettledIsPopulated, Agrees
<1> QED BY <1>1, Invariance, PTL

\* What one step may do to the numbers the abstract specification talks about
LEMMA StepSummary ==
    ASSUME IInv, [Next]_vars
    PROVE  \/ now' = now + 1 /\ UNCHANGED <<kernel, dnsmasq, settled>>
           \/ /\ now' = now
              /\ kernel' \in {kernel, nftFile} /\ dnsmasq' \in {dnsmasq, nftsetFile}
              /\ settled <= settled'
<1>1. settled \in Nat /\ now \in Nat /\ stamp \in [Procs -> Nat] /\ Appliers \subseteq Procs
  BY DEF IInv, TypeOK, Procs, Appliers
<1>2. CASE UNCHANGED vars
  BY <1>1, <1>2 DEF vars, config, enforced
<1>3. ASSUME NEW r \in Requests,
             RuleRequest(r) \/ DeviceRequest(r) \/ PolicyRequest(r) \/ DomainRequest(r)
      PROVE  now' = now + 1 /\ UNCHANGED <<kernel, dnsmasq, settled>>
  BY <1>3 DEF RuleRequest, DeviceRequest, PolicyRequest, DomainRequest, CreateRule, UpdateRule,
              DeleteRule, UpdateDevice, CreatePolicy, UpdatePolicy, DeletePolicy, CreateDomain,
              UpdateDomain, DeleteDomain, AssignDevice, UnassignDevice, Commit, enforced
<1>4. CASE RefreshAll
  BY <1>1, <1>4 DEF RefreshAll, config, enforced
<1>5. ASSUME NEW p \in Requests \cup {Refresher}, Resolve(p)
      PROVE  now' \in {now, now + 1} /\ UNCHANGED <<kernel, dnsmasq, settled>>
  BY <1>5 DEF Resolve, LookupAnswered, LookupFailed, StoreResolved, config, enforced
<1>6. ASSUME NEW name \in Domains, ClientQuery(name)
      PROVE  UNCHANGED <<now, kernel, dnsmasq, settled>>
  BY <1>6 DEF ClientQuery, config
<1>7. ASSUME NEW p \in Appliers, ApplyStep(p) \/ ApplyFails(p) \/ Shortened(p)
      PROVE  /\ now' = now
             /\ kernel' \in {kernel, nftFile} /\ dnsmasq' \in {dnsmasq, nftsetFile}
             /\ settled <= settled'
  <2>1. ASSUME NEW ok \in BOOLEAN, Return(p, ok) PROVE now' = now /\ settled <= settled'
    BY <1>1, <2>1 DEF Return, config
  <2>2. CASE Acquire(p)
    BY <1>1, <2>2 DEF Acquire, config, enforced
  <2>6. CASE \/ /\ \/ ListRules(p) \/ ListBlocked(p) \/ ListPolicies(p) \/ ListAssignments(p)
                   \/ \E q \in Policies : ListDomains(p, q)
             \/ Shortened(p)
    <3>1. Query(p)
      BY <2>6, QueriesOfApply DEF IInv
    <3>2. ASSUME NEW label, NEW next, Reading(p, label, next)
          PROVE  UNCHANGED <<now, kernel, dnsmasq, settled>>
      BY <3>2 DEF Reading, config, enforced
    <3>3. UNCHANGED <<now, kernel, dnsmasq, settled>>
      BY <3>1, <3>2, Zenon DEF Query, ReadRules, ListBlocked, ReadPolicies, ReadDomains,
                               ReadAssignments
    <3> QED BY <1>1, <3>3
  <2>3. CASE WriteConf(p) \/ LoadRuleset(p) \/ WriteNftsets(p)
    BY <1>1, <2>3 DEF WriteConf, LoadRuleset, WriteNftsets, Advance, Load, config
  <2>4. CASE RulesetRejected(p) \/ ReloadDnsmasq(p)
    BY <2>1, <2>4 DEF RulesetRejected, ReloadDnsmasq, enforced
  <2>5. CASE ApplyFails(p)
    BY <2>1, <2>5 DEF ApplyFails, ReadFails, WriteConfFails, LoadFails, WriteNftsetsFails,
                      ReloadFails, Fault, Load, enforced
  <2> QED BY <1>7, <2>2, <2>3, <2>4, <2>5, <2>6 DEF ApplyStep
<1>8. CASE DNSReload
  BY <1>1, <1>8 DEF DNSReload, config
<1>9. CASE Crash
  BY <1>1, <1>9 DEF Crash, config
<1> QED BY <1>1, <1>2, <1>3, <1>4, <1>5, <1>6, <1>7, <1>8, <1>9 DEF Next

\* NeverOlder for all constants: the kernel and dnsmasq never go back to a
\* configuration read earlier.
THEOREM OnlyForward == Spec => NeverOlder
<1>1. IInv /\ [Next]_vars =>
         [kernel'.start >= kernel.start /\ dnsmasq'.start >= dnsmasq.start]_vars
  <2> SUFFICES ASSUME IInv, [Next]_vars
               PROVE  kernel'.start >= kernel.start /\ dnsmasq'.start >= dnsmasq.start
    OBVIOUS
  <2>1. kernel' \in {kernel, nftFile} /\ dnsmasq' \in {dnsmasq, nftsetFile}
    BY StepSummary
  <2>2. nftFile.start \in Nat /\ nftsetFile.start \in Nat
    BY DEF IInv, TypeOK, Ruleset, Nftsets
  <2> QED BY <2>1, <2>2, SettledBelow
<1> QED BY <1>1, Invariance, PTL DEF Spec, NeverOlder

\* ImplementsEnforcement for all constants: FirewallApply refines Enforcement.
THEOREM Refinement == Spec => ImplementsEnforcement
<1>1. Init => Abstract!Init
  BY DEF Init, Abstract!Init, generateConfig, NftsetLines, NoSnapshot
<1>2. IInv /\ IInv' /\ [Next]_vars => [Abstract!Next]_(Abstract!avars)
  <2> SUFFICES ASSUME IInv, IInv', [Next]_vars PROVE Abstract!Next
    OBVIOUS
  <2>1. CASE now' = now + 1 /\ UNCHANGED <<kernel, dnsmasq, settled>>
    BY <2>1 DEF Abstract!Next, Abstract!Commit
  <2>2. CASE /\ now' = now
             /\ kernel' \in {kernel, nftFile} /\ dnsmasq' \in {dnsmasq, nftsetFile}
             /\ settled <= settled'
    <3>1. /\ settled' \in Nat /\ kernel'.start \in Nat /\ dnsmasq'.start \in Nat
          /\ settled' <= dnsmasq'.start /\ settled' <= kernel'.start
          /\ kernel'.start <= now /\ dnsmasq'.start <= now
      BY <2>2 DEF IInv, TypeOK, Order, Ruleset, Nftsets
    <3>2. kernel.start <= kernel'.start /\ dnsmasq.start <= dnsmasq'.start
      BY <2>2, SettledBelow
    <3> QED BY <2>2, <3>1, <3>2, SettledBelow DEF Abstract!Next, Abstract!Enforce
  <2> QED BY <2>1, <2>2, StepSummary
<1> QED BY <1>1, <1>2, Invariance, PTL DEF Spec, ImplementsEnforcement, Abstract!Spec
=============================================================================
