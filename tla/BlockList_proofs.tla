--------------------------- MODULE BlockList_proofs ---------------------------
(***************************************************************************)
(* The block lists for any names, rules, goroutines, changes, failures and *)
(* crashes: types, the sinkhole, and the guard in front of the allow list. *)
(***************************************************************************)
EXTENDS BlockList, TLAPS

InApply == {"list", "hard", "write", "reload"}

\* Only the holder of the mutex is inside Apply.
Mutex ==
    /\ \A p \in Appliers : pc[p] \in InApply => lock = p
    /\ pc[Refresher] \notin InApply /\ pc[Refresher] # "lock"
    /\ pc[Startup] # "insert"

\* Every copy of the lists is as old as its `start': what dnsmasq runs was generated no
\* later than what the file holds, and after every change that is settled.
Order ==
    /\ settled <= dnsmasq.start /\ dnsmasq.start <= file.start /\ file.start <= now
    /\ \A p \in Procs : stamp[p] <= now /\ asked[p] <= now
    /\ \A n \in Names : 1 <= blockedAt[n] /\ blockedAt[n] <= now /\ listedAt[n] <= now
    /\ \A p \in Appliers : pc[p] \in {"hard", "write", "reload"} =>
          stamp[p] <= read[p].start /\ file.start <= read[p].start /\ read[p].start <= now

ListAgrees(f) == \A n \in Names : listedAt[n] <= f.start => (n \in f.list <=> n \in listed)

HardAgrees(f) == \A n \in Names : blockedAt[n] <= f.start => (n \in f.hard <=> Enforced(n))

\* A complete copy has every name as the table has it, unless the name has been changed
\* since the copy's `start'.
Agrees(f) == f.complete => ListAgrees(f) /\ HardAgrees(f)

Copies ==
    /\ Agrees(file) /\ Agrees(dnsmasq)
    /\ \A p \in Appliers :
          /\ pc[p] = "hard" /\ read[p].complete => ListAgrees(read[p])
          /\ pc[p] = "write" => Agrees(read[p])
          /\ pc[p] = "reload" => file = read[p]

\* A name that matches a rule while its row is about to be inserted: the rule is newer
\* than the guard's answer.
Guarded ==
    \A r \in Requests, b \in Names :
        pc[r] = "insert" /\ Matches(b, name[r]) => blockedAt[b] > asked[r]

\* A goroutine that works on a name has one.
Named == \A p \in Procs : pc[p] \in {"insert", "lookup", "zero", "store"} => name[p] \in Names

IInv == TypeOK /\ Mutex /\ Named /\ Order /\ Copies /\ Guarded

\* The invariant holds when the daemon starts.
LEMMA InitInvariant == Init => IInv
<1> SUFFICES ASSUME Init PROVE IInv
  OBVIOUS
<1> USE BlockListAssumption DEF Init, Procs, Appliers
<1>1. TypeOK
  BY DEF TypeOK, NoDirectives, Directives
<1>2. Mutex /\ Named /\ Guarded
  BY DEF Mutex, Named, Guarded, InApply
<1>3. Order
  BY DEF Order, NoDirectives
<1>4. Copies
  BY DEF Copies, Agrees, ListAgrees, HardAgrees, NoDirectives, Enforced
<1> QED BY <1>1, <1>2, <1>3, <1>4 DEF IInv

-----------------------------------------------------------------------------
(* The handlers of the block lists *)

\* Agreement survives a change of the lists, since what changes gets a newer number.
LEMMA CommitKeepsAgreement ==
    ASSUME TypeOK,
           \/ \E n \in Names : \E row : SetBlocked(n, row)
           \/ \E names : SetListed(names)
    PROVE  \A f \in Directives : f.start <= now =>
              (ListAgrees(f) => ListAgrees(f)') /\ (HardAgrees(f) => HardAgrees(f)')
<1> SUFFICES ASSUME NEW f \in Directives, f.start <= now
             PROVE  (ListAgrees(f) => ListAgrees(f)') /\ (HardAgrees(f) => HardAgrees(f)')
  OBVIOUS
<1>1. f.start \in Nat /\ now \in Nat
  BY DEF Directives, TypeOK
<1>2. CASE \E n \in Names : \E row : SetBlocked(n, row)
  <2> PICK n \in Names : \E row : SetBlocked(n, row)
    BY <1>2
  <2>1. PICK row : SetBlocked(n, row)
    OBVIOUS
  <2>2. listed' = listed /\ listedAt' = listedAt
    BY <2>1 DEF SetBlocked
  <2>3. \A m \in Names : blockedAt'[m] <= f.start => blocked'[m] = blocked[m] /\ blockedAt'[m] = blockedAt[m]
    BY <1>1, <2>1 DEF SetBlocked, TypeOK
  <2> QED BY <2>2, <2>3 DEF ListAgrees, HardAgrees, Enforced
<1>3. CASE \E names : SetListed(names)
  <2>1. PICK names : SetListed(names)
    BY <1>3
  <2>2. blocked' = blocked /\ blockedAt' = blockedAt
    BY <2>1 DEF SetListed
  <2>3. \A m \in Names : listedAt'[m] <= f.start
           => (m \in listed' <=> m \in listed) /\ listedAt'[m] = listedAt[m]
    BY <1>1, <2>1 DEF SetListed, TypeOK
  <2> QED BY <2>2, <2>3 DEF ListAgrees, HardAgrees, Enforced
<1> QED BY <1>2, <1>3

\* The handlers' changes keep the types and the numbers.
LEMMA CommitTypes ==
    ASSUME TypeOK, Order,
           \/ \E n \in Names, row \in {"none", "off", "exact", "suffix"} : SetBlocked(n, row)
           \/ \E names \in SUBSET Names : SetListed(names)
    PROVE  /\ blocked' \in [Names -> {"none", "off", "exact", "suffix"}]
           /\ listed' \subseteq Names
           /\ blockedAt' \in [Names -> Nat] /\ listedAt' \in [Names -> Nat]
           /\ \A n \in Names : blockedAt'[n] <= now + 1 /\ listedAt'[n] <= now + 1
           /\ \A n \in Names : \/ blockedAt'[n] = now + 1
                               \/ blocked'[n] = blocked[n] /\ blockedAt'[n] = blockedAt[n]
<1>1. CASE \E n \in Names, row \in {"none", "off", "exact", "suffix"} : SetBlocked(n, row)
  <2>1. PICK n \in Names, row \in {"none", "off", "exact", "suffix"} : SetBlocked(n, row)
    BY <1>1
  <2>2. /\ blocked \in [Names -> {"none", "off", "exact", "suffix"}]
        /\ blockedAt \in [Names -> Nat] /\ listedAt \in [Names -> Nat] /\ now \in Nat
        /\ \A m \in Names : blockedAt[m] <= now /\ listedAt[m] <= now
    BY DEF TypeOK, Order
  <2>3. /\ blocked' = [blocked EXCEPT ![n] = row] /\ blockedAt' = [blockedAt EXCEPT ![n] = now + 1]
        /\ listed' = listed /\ listedAt' = listedAt
    BY <2>1 DEF SetBlocked
  <2>4. \A m \in Names : IF m = n THEN blocked'[m] = row /\ blockedAt'[m] = now + 1
                         ELSE blocked'[m] = blocked[m] /\ blockedAt'[m] = blockedAt[m]
    BY <2>2, <2>3
  <2>5. /\ blocked' \in [Names -> {"none", "off", "exact", "suffix"}]
        /\ blockedAt' \in [Names -> Nat]
    BY <2>2, <2>3
  <2>6. \A m \in Names : blockedAt'[m] <= now + 1 /\ listedAt'[m] <= now + 1
    BY <2>2, <2>3, <2>4
  <2>7. listed' \subseteq Names /\ listedAt' \in [Names -> Nat]
    BY <2>2, <2>3 DEF TypeOK
  <2>8. \A m \in Names : \/ blockedAt'[m] = now + 1
                         \/ blocked'[m] = blocked[m] /\ blockedAt'[m] = blockedAt[m]
    <3> SUFFICES ASSUME NEW m \in Names
                 PROVE  \/ blockedAt'[m] = now + 1
                        \/ blocked'[m] = blocked[m] /\ blockedAt'[m] = blockedAt[m]
      OBVIOUS
    <3>1. CASE m = n
      BY <2>4, <3>1
    <3>2. CASE m # n
      BY <2>4, <3>2
    <3> QED BY <3>1, <3>2
  <2> QED BY <2>5, <2>6, <2>7, <2>8
<1>2. CASE \E names \in SUBSET Names : SetListed(names)
  BY <1>2 DEF SetListed, TypeOK, Order
<1> QED BY <1>1, <1>2

\* A request on the block lists: one of the statements, and its number.
LEMMA CommitInvariant ==
    ASSUME IInv, NEW r \in Requests, Commit(r, "lock"),
           \/ \E n \in Names, row \in {"none", "off", "exact", "suffix"} : SetBlocked(n, row)
           \/ \E names \in SUBSET Names : SetListed(names)
    PROVE  IInv'
<1>1. TypeOK /\ Mutex /\ Named /\ Order /\ Copies /\ Guarded
  BY DEF IInv
<1>2. /\ pc[r] = "idle" /\ pc' = [pc EXCEPT ![r] = "lock"] /\ now' = now + 1
      /\ stamp' = [stamp EXCEPT ![r] = now + 1]
      /\ allowed' = allowed /\ resolved' = resolved /\ sets' = sets /\ fills' = fills
      /\ file' = file /\ dnsmasq' = dnsmasq /\ serving' = serving /\ name' = name
      /\ asked' = asked /\ lock' = lock /\ read' = read /\ settled' = settled
      /\ faults' = faults /\ crashes' = crashes
  BY DEF Commit, Starts, Goto, allow, conf, work
<1>3. /\ r \in Appliers /\ r \in Procs /\ r # Refresher /\ r # Startup
      /\ Appliers \subseteq Procs /\ Refresher \in Procs /\ Startup \in Procs
  BY BlockListAssumption DEF Appliers, Procs
<1>4. \A p \in Procs : pc'[p] = IF p = r THEN "lock" ELSE pc[p]
  BY <1>1, <1>2, <1>3 DEF TypeOK
<1>5. TypeOK'
  BY <1>1, <1>2, <1>3, CommitTypes DEF TypeOK
<1>6. Mutex'
  BY <1>1, <1>2, <1>3, <1>4 DEF Mutex, InApply
<1>7. Order'
  <2>1. \A p \in Procs : stamp'[p] <= now'
    BY <1>1, <1>2, <1>3 DEF Order, TypeOK
  <2>2. \A p \in Appliers : pc'[p] \in {"hard", "write", "reload"} =>
          pc[p] = pc'[p] /\ stamp'[p] = stamp[p]
    BY <1>1, <1>2, <1>3, <1>4 DEF TypeOK
  <2>3. read \in [Procs -> Directives] /\ file \in Directives
    BY <1>1 DEF TypeOK
  <2>4. \A p \in Procs : read[p].start \in Nat
    BY <2>3 DEF Directives
  <2>5. file.start \in Nat /\ now \in Nat /\ asked \in [Procs -> Nat]
    BY <1>1, <2>3 DEF Directives, TypeOK
  <2>6. \A n \in Names : 1 <= blockedAt'[n] /\ blockedAt'[n] <= now' /\ listedAt'[n] <= now'
    <3>1. /\ \A n \in Names : blockedAt'[n] <= now + 1 /\ listedAt'[n] <= now + 1
          /\ \A n \in Names : blockedAt'[n] = now + 1 \/ blockedAt'[n] = blockedAt[n]
      BY <1>1, CommitTypes
    <3> QED BY <1>1, <1>2, <2>5, <3>1 DEF Order
  <2>7. /\ settled' <= dnsmasq'.start /\ dnsmasq'.start <= file'.start /\ file'.start <= now'
        /\ \A p \in Procs : asked'[p] <= now'
    BY <1>1, <1>2, <2>5 DEF Order
  <2>8. \A p \in Appliers : pc'[p] \in {"hard", "write", "reload"} =>
          stamp'[p] <= read'[p].start /\ file'.start <= read'[p].start /\ read'[p].start <= now'
    BY <1>1, <1>2, <1>3, <2>2, <2>4, <2>5 DEF Order
  <2> QED BY <2>1, <2>6, <2>7, <2>8 DEF Order
<1>8. Copies'
  <2>1. \A f \in Directives : f.start <= now =>
              (ListAgrees(f) => ListAgrees(f)') /\ (HardAgrees(f) => HardAgrees(f)')
    BY <1>1, CommitKeepsAgreement
  <2>2. file \in Directives /\ dnsmasq \in Directives /\ now \in Nat
        /\ \A p \in Procs : read[p] \in Directives
    BY <1>1 DEF TypeOK
  <2>3. file.start <= now /\ dnsmasq.start <= now
    <3>1. file.start \in Nat /\ dnsmasq.start \in Nat
      BY <2>2 DEF Directives
    <3> QED BY <1>1, <2>2, <3>1 DEF Order
  <2>4. \A f \in Directives : f.start <= now /\ Agrees(f) => Agrees(f)'
    BY <2>1 DEF Agrees
  <2>5. Agrees(file)' /\ Agrees(dnsmasq)'
    <3>1. Agrees(file) /\ Agrees(dnsmasq)
      BY <1>1 DEF Copies
    <3>2. \A f \in Directives : f = file /\ f.start <= now /\ Agrees(f) => Agrees(file)'
      BY <2>4, <1>2 DEF Agrees, ListAgrees, HardAgrees, Enforced
    <3>3. \A f \in Directives : f = dnsmasq /\ f.start <= now /\ Agrees(f) => Agrees(dnsmasq)'
      BY <2>4, <1>2 DEF Agrees, ListAgrees, HardAgrees, Enforced
    <3> QED BY <2>2, <2>3, <3>1, <3>2, <3>3
  <2>6. ASSUME NEW p \in Appliers
        PROVE  /\ pc'[p] = "hard" /\ read'[p].complete => ListAgrees(read[p])'
               /\ pc'[p] = "write" => Agrees(read[p])'
               /\ pc'[p] = "reload" => file' = read'[p]
    <3>1. pc'[p] \in {"hard", "write", "reload"} => pc[p] = pc'[p]
      BY <1>3, <1>4
    <3>2. pc[p] \in {"hard", "write"} => read[p].start <= now
      BY <1>1 DEF Order
    <3>3. pc'[p] = "hard" /\ read'[p].complete => ListAgrees(read[p])'
      <4>1. pc'[p] = "hard" /\ read'[p].complete => ListAgrees(read[p]) /\ read[p].start <= now
        BY <1>1, <1>2, <3>1, <3>2 DEF Copies
      <4>2. \A f \in Directives : f = read[p] /\ f.start <= now /\ ListAgrees(f)
                                     => ListAgrees(read[p])'
        BY <2>1, <1>2 DEF ListAgrees
      <4> QED BY <1>3, <2>2, <4>1, <4>2
    <3>4. pc'[p] = "write" => Agrees(read[p])'
      <4>1. pc'[p] = "write" => Agrees(read[p]) /\ read[p].start <= now
        BY <1>1, <3>1, <3>2 DEF Copies
      <4>2. \A f \in Directives : f = read[p] /\ f.start <= now /\ Agrees(f)
                                     => Agrees(read[p])'
        BY <2>4, <1>2 DEF Agrees, ListAgrees, HardAgrees, Enforced
      <4> QED BY <1>3, <2>2, <4>1, <4>2
    <3> QED BY <1>1, <1>2, <3>1, <3>3, <3>4 DEF Copies
  <2> QED BY <2>5, <2>6 DEF Copies
<1>9. Guarded'
  <2> SUFFICES ASSUME NEW q \in Requests, NEW b \in Names, pc'[q] = "insert", Matches(b, name[q])'
               PROVE  blockedAt'[b] > asked'[q]
    BY DEF Guarded
  <2>1. q \in Procs /\ pc[q] = "insert"
    BY <1>3, <1>4 DEF Procs, Appliers
  <2>2. asked[q] \in Nat /\ now \in Nat /\ asked[q] <= now
    BY <1>1, <2>1 DEF TypeOK, Order
  <2>3. CASE blockedAt'[b] = now + 1
    BY <1>2, <2>2, <2>3
  <2>4. CASE blocked'[b] = blocked[b] /\ blockedAt'[b] = blockedAt[b]
    <3>1. Matches(b, name[q])
      BY <1>2, <2>4 DEF Matches, Enforced
    <3> QED BY <1>1, <1>2, <2>1, <2>4, <3>1 DEF Guarded
  <2> QED BY <1>1, <2>3, <2>4, CommitTypes
<1>10. Named'
  BY <1>1, <1>2, <1>4 DEF Named
<1> QED BY <1>5, <1>6, <1>7, <1>8, <1>9, <1>10 DEF IInv

-----------------------------------------------------------------------------
(* Steps that leave the block lists and their copies alone *)

\* They at most reload dnsmasq, or commit a change of the allow list.
LEMMA QuietKeeps ==
    ASSUME IInv,
           blocked' = blocked, listed' = listed, blockedAt' = blockedAt, listedAt' = listedAt,
           stamp' = stamp, file' = file, read' = read, settled' = settled,
           now' \in {now, now + 1}, dnsmasq' \in {dnsmasq, file},
           \A p \in Appliers : pc'[p] \in {"hard", "write", "reload"} => pc'[p] = pc[p],
           \A p \in Procs : asked'[p] <= now'
    PROVE  Order' /\ Copies'
<1>1. TypeOK /\ Order /\ Copies
  BY DEF IInv
<1>2. Appliers \subseteq Procs
  BY DEF Procs
<1>3. /\ now \in Nat /\ settled \in Nat /\ stamp \in [Procs -> Nat]
      /\ blockedAt \in [Names -> Nat] /\ listedAt \in [Names -> Nat]
      /\ file.start \in Nat /\ dnsmasq.start \in Nat
      /\ \A p \in Procs : read[p].start \in Nat
  BY <1>1 DEF TypeOK, Directives
<1>4. Order'
  <2>1. settled' <= dnsmasq'.start /\ dnsmasq'.start <= file'.start /\ file'.start <= now'
    BY <1>1, <1>3 DEF Order
  <2>2. \A p \in Procs : stamp'[p] <= now'
    BY <1>1, <1>3 DEF Order
  <2>3. \A n \in Names : 1 <= blockedAt'[n] /\ blockedAt'[n] <= now' /\ listedAt'[n] <= now'
    BY <1>1, <1>3 DEF Order
  <2>4. \A p \in Appliers : pc'[p] \in {"hard", "write", "reload"} =>
          stamp'[p] <= read'[p].start /\ file'.start <= read'[p].start /\ read'[p].start <= now'
    BY <1>1, <1>2, <1>3 DEF Order
  <2> QED BY <2>1, <2>2, <2>3, <2>4 DEF Order
<1>5. Copies'
  <2>1. Agrees(file)' /\ Agrees(dnsmasq)'
    BY <1>1 DEF Copies, Agrees, ListAgrees, HardAgrees, Enforced
  <2>2. ASSUME NEW p \in Appliers
        PROVE  /\ pc'[p] = "hard" /\ read'[p].complete => ListAgrees(read[p])'
               /\ pc'[p] = "write" => Agrees(read[p])'
               /\ pc'[p] = "reload" => file' = read'[p]
    BY <1>1 DEF Copies, Agrees, ListAgrees, HardAgrees, Enforced
  <2> QED BY <2>1, <2>2 DEF Copies
<1> QED BY <1>4, <1>5

\* A step of a goroutine on the allow list, or one that reloads dnsmasq.
LEMMA QuietInvariant ==
    ASSUME IInv,
           blocked' = blocked, listed' = listed, blockedAt' = blockedAt, listedAt' = listedAt,
           stamp' = stamp, file' = file, read' = read, settled' = settled, lock' = lock,
           serving' = serving, faults' \in {faults, faults + 1}, crashes' = crashes,
           now' \in {now, now + 1}, dnsmasq' \in {dnsmasq, file},
           allowed' \in [Names -> {"none", "off", "on"}],
           resolved' \subseteq Names, sets' \subseteq Names, fills' \subseteq Names,
           NEW p \in Procs,
           NEW l \in {"idle", "insert", "lookup", "zero", "store", "firewall", "lock"},
           pc' = [pc EXCEPT ![p] = l], pc[p] \notin InApply,
           l = "lock" => p \in Requests,
           NEW n \in Names \cup {NoName}, name' = [name EXCEPT ![p] = n],
           l \in {"insert", "lookup", "zero", "store"} => n \in Names,
           NEW a \in Nat, asked' = [asked EXCEPT ![p] = a], a <= now,
           l = "insert" => p \in Requests /\ (a = 0 \/ \A b \in Names : ~Matches(b, n))
    PROVE  IInv'
<1>1. TypeOK /\ Mutex /\ Named /\ Order /\ Copies /\ Guarded
  BY DEF IInv
<1>2. /\ Appliers \subseteq Procs /\ Requests \subseteq Appliers
      /\ Refresher \in Procs /\ Startup \in Procs
      /\ Refresher \notin Requests /\ Startup \notin Requests
  BY BlockListAssumption DEF Appliers, Procs
<1>3. /\ \A q \in Procs : pc'[q] = IF q = p THEN l ELSE pc[q]
      /\ \A q \in Procs : name'[q] = IF q = p THEN n ELSE name[q]
      /\ \A q \in Procs : asked'[q] = IF q = p THEN a ELSE asked[q]
  BY <1>1 DEF TypeOK
<1>4. TypeOK'
  BY <1>1 DEF TypeOK
<1>5. Mutex'
  BY <1>1, <1>2, <1>3 DEF Mutex, InApply
<1>6. Named'
  BY <1>1, <1>3 DEF Named
<1>7. Order' /\ Copies'
  <2>1. \A q \in Appliers : pc'[q] \in {"hard", "write", "reload"} => pc'[q] = pc[q]
    BY <1>2, <1>3
  <2>2. \A q \in Procs : asked'[q] <= now'
    <3>1. now \in Nat /\ \A q \in Procs : asked[q] \in Nat /\ asked[q] <= now
      BY <1>1 DEF TypeOK, Order
    <3> QED BY <1>3, <3>1
  <2> QED BY <2>1, <2>2, QuietKeeps
<1>8. Guarded'
  <2> SUFFICES ASSUME NEW q \in Requests, NEW b \in Names, pc'[q] = "insert", Matches(b, name[q])'
               PROVE  blockedAt'[b] > asked'[q]
    BY DEF Guarded
  <2>1. blockedAt[b] \in Nat /\ 1 <= blockedAt[b] /\ q \in Procs
    BY <1>1, <1>2 DEF TypeOK, Order
  <2>2. CASE q = p
    <3>1. Matches(b, n) /\ l = "insert" /\ asked'[q] = a
      BY <1>3, <2>1, <2>2 DEF Matches, Enforced
    <3>2. a = 0
      BY <3>1
    <3> QED BY <2>1, <3>1, <3>2
  <2>3. CASE q # p
    BY <1>1, <1>3, <2>1, <2>3 DEF Guarded, Matches, Enforced
  <2> QED BY <2>2, <2>3
<1> QED BY <1>4, <1>5, <1>6, <1>7, <1>8 DEF IInv

\* Every step on the allow list, and the request that only applies.
LEMMA AllowInvariant ==
    ASSUME IInv,
           \/ \E r \in Requests, n \in Names :
                 \/ CheckBlocked(r, n) \/ CheckCutShort(r, n) \/ DeleteAllowed(r, n)
                 \/ \E row \in {"off", "on"} : UpdateAllowed(r, n, row)
           \/ \E r \in Requests : SettingsApply(r) \/ InsertAllowed(r) \/ FirewallApply(r)
           \/ \E n \in Names : RefreshAll(n)
           \/ \E p \in Procs : Lookup(p) \/ StoreResolved(p) \/ LookupFails(p)
    PROVE  IInv'
<1> USE DEF rules, lists, allow, conf, work, control, Starts, Goto, AllowStep
<1>1. TypeOK /\ Mutex /\ Named /\ Order
  BY DEF IInv
<1>2. /\ Appliers \subseteq Procs /\ Requests \subseteq Procs
      /\ Refresher \in Procs /\ Refresher \notin Requests
  BY BlockListAssumption DEF Appliers, Procs
<1>3. /\ now \in Nat /\ 0 \in Nat /\ 0 <= now
      /\ pc \in [Procs -> {"idle", "insert", "lookup", "zero", "store", "firewall",
                            "lock", "list", "hard", "write", "reload"}]
      /\ name \in [Procs -> Names \cup {NoName}] /\ asked \in [Procs -> Nat]
      /\ \A p \in Procs : asked[p] <= now
      /\ allowed \in [Names -> {"none", "off", "on"}]
      /\ resolved \subseteq Names /\ sets \subseteq Names /\ fills \subseteq Names
  BY <1>1 DEF TypeOK, Order
<1>4. name = [name EXCEPT ![Refresher] = name[Refresher]] /\ asked = [asked EXCEPT ![Refresher] = asked[Refresher]]
      /\ \A p \in Procs : name = [name EXCEPT ![p] = name[p]] /\ asked = [asked EXCEPT ![p] = asked[p]]
  BY <1>3
<1>5. ASSUME NEW r \in Requests, NEW n \in Names, CheckBlocked(r, n) PROVE IInv'
  <2>1. \A b \in Names : ~Matches(b, n)
    BY <1>5 DEF CheckBlocked, IsBlocked
  <2>2. pc[r] \notin InApply
    BY <1>5 DEF CheckBlocked, InApply
  <2>3. /\ pc' = [pc EXCEPT ![r] = "insert"] /\ name' = [name EXCEPT ![r] = n]
        /\ asked' = [asked EXCEPT ![r] = now]
        /\ now' \in {now, now + 1} /\ dnsmasq' \in {dnsmasq, file}
        /\ blocked' = blocked /\ listed' = listed /\ blockedAt' = blockedAt
        /\ listedAt' = listedAt /\ stamp' = stamp /\ file' = file /\ read' = read
        /\ settled' = settled /\ lock' = lock /\ serving' = serving
        /\ faults' \in {faults, faults + 1} /\ crashes' = crashes
        /\ allowed' \in [Names -> {"none", "off", "on"}]
        /\ resolved' \subseteq Names /\ sets' \subseteq Names /\ fills' \subseteq Names
    BY <1>2, <1>3, <1>5, <2>1, <2>2 DEF CheckBlocked
  <2>4. n \in Names \cup {NoName} /\ now <= now
        /\ ("insert" = "insert" => r \in Requests /\ (now = 0 \/ \A b \in Names : ~Matches(b, n)))
    BY <1>3, <2>1
  <2> QED BY <1>2, <1>3, <2>2, <2>3, <2>4, QuietInvariant
<1>6. ASSUME NEW r \in Requests, NEW n \in Names, DeleteAllowed(r, n) PROVE IInv'
  <2>1. pc[r] \notin InApply
    BY <1>6 DEF DeleteAllowed, InApply
  <2>3. /\ pc' = [pc EXCEPT ![r] = "firewall"] /\ name' = [name EXCEPT ![r] = name[r]]
        /\ asked' = [asked EXCEPT ![r] = asked[r]]
        /\ now' \in {now, now + 1} /\ dnsmasq' \in {dnsmasq, file}
        /\ blocked' = blocked /\ listed' = listed /\ blockedAt' = blockedAt
        /\ listedAt' = listedAt /\ stamp' = stamp /\ file' = file /\ read' = read
        /\ settled' = settled /\ lock' = lock /\ serving' = serving
        /\ faults' \in {faults, faults + 1} /\ crashes' = crashes
        /\ allowed' \in [Names -> {"none", "off", "on"}]
        /\ resolved' \subseteq Names /\ sets' \subseteq Names /\ fills' \subseteq Names
    BY <1>2, <1>3, <1>4, <1>6, <2>1 DEF DeleteAllowed
  <2> QED BY <1>2, <1>3, <2>1, <2>3, QuietInvariant
<1>7. ASSUME NEW r \in Requests, NEW n \in Names, NEW row \in {"off", "on"},
             UpdateAllowed(r, n, row)
      PROVE  IInv'
  <2>1. pc[r] \notin InApply
    BY <1>7 DEF UpdateAllowed, InApply
  <2>3. /\ pc' = [pc EXCEPT ![r] = "firewall"] /\ name' = [name EXCEPT ![r] = name[r]]
        /\ asked' = [asked EXCEPT ![r] = asked[r]]
        /\ now' \in {now, now + 1} /\ dnsmasq' \in {dnsmasq, file}
        /\ blocked' = blocked /\ listed' = listed /\ blockedAt' = blockedAt
        /\ listedAt' = listedAt /\ stamp' = stamp /\ file' = file /\ read' = read
        /\ settled' = settled /\ lock' = lock /\ serving' = serving
        /\ faults' \in {faults, faults + 1} /\ crashes' = crashes
        /\ allowed' \in [Names -> {"none", "off", "on"}]
        /\ resolved' \subseteq Names /\ sets' \subseteq Names /\ fills' \subseteq Names
    BY <1>2, <1>3, <1>4, <1>7, <2>1 DEF UpdateAllowed
  <2> QED BY <1>2, <1>3, <2>1, <2>3, QuietInvariant
<1>8. ASSUME NEW r \in Requests, SettingsApply(r) PROVE IInv'
  <2>1. pc[r] \notin InApply
    BY <1>8 DEF SettingsApply, InApply
  <2>3. /\ pc' = [pc EXCEPT ![r] = "lock"] /\ name' = [name EXCEPT ![r] = name[r]]
        /\ asked' = [asked EXCEPT ![r] = asked[r]]
        /\ now' \in {now, now + 1} /\ dnsmasq' \in {dnsmasq, file}
        /\ blocked' = blocked /\ listed' = listed /\ blockedAt' = blockedAt
        /\ listedAt' = listedAt /\ stamp' = stamp /\ file' = file /\ read' = read
        /\ settled' = settled /\ lock' = lock /\ serving' = serving
        /\ faults' \in {faults, faults + 1} /\ crashes' = crashes
        /\ allowed' \in [Names -> {"none", "off", "on"}]
        /\ resolved' \subseteq Names /\ sets' \subseteq Names /\ fills' \subseteq Names
    BY <1>2, <1>3, <1>4, <1>8, <2>1 DEF SettingsApply
  <2> QED BY <1>2, <1>3, <2>1, <2>3, QuietInvariant
<1>9. ASSUME NEW r \in Requests, InsertAllowed(r) PROVE IInv'
  <2>1. pc[r] \notin InApply /\ name[r] \in Names
    BY <1>1, <1>2, <1>9 DEF InsertAllowed, InApply, Named
  <2> QED BY <1>2, <1>3, <1>4, <1>9, <2>1, QuietInvariant DEF InsertAllowed
<1>10. ASSUME NEW r \in Requests, FirewallApply(r) PROVE IInv'
  <2>1. pc[r] \notin InApply
    BY <1>10 DEF FirewallApply, InApply
  <2>3. /\ pc' = [pc EXCEPT ![r] = "idle"] /\ name' = [name EXCEPT ![r] = name[r]]
        /\ asked' = [asked EXCEPT ![r] = asked[r]]
        /\ now' \in {now, now + 1} /\ dnsmasq' \in {dnsmasq, file}
        /\ blocked' = blocked /\ listed' = listed /\ blockedAt' = blockedAt
        /\ listedAt' = listedAt /\ stamp' = stamp /\ file' = file /\ read' = read
        /\ settled' = settled /\ lock' = lock /\ serving' = serving
        /\ faults' \in {faults, faults + 1} /\ crashes' = crashes
        /\ allowed' \in [Names -> {"none", "off", "on"}]
        /\ resolved' \subseteq Names /\ sets' \subseteq Names /\ fills' \subseteq Names
    BY <1>2, <1>3, <1>4, <1>10, <2>1 DEF FirewallApply, Refill
  <2> QED BY <1>2, <1>3, <2>1, <2>3, QuietInvariant
<1>11. ASSUME NEW n \in Names, RefreshAll(n) PROVE IInv'
  <2>1. pc[Refresher] \notin InApply
    BY <1>11 DEF RefreshAll, InApply
  <2> QED BY <1>2, <1>3, <1>4, <1>11, <2>1, QuietInvariant DEF RefreshAll
<1>12. ASSUME NEW p \in Procs, Lookup(p) PROVE IInv'
  <2>1. pc[p] \notin InApply /\ name[p] \in Names
    BY <1>1, <1>12 DEF Lookup, InApply, Named
  <2>2. sets' \subseteq Names /\ fills' \subseteq Names
    BY <1>3, <1>12, <2>1 DEF Lookup, Learnt
  <2>3. /\ pc' = [pc EXCEPT ![p] = IF Sunk(name[p]) THEN "zero" ELSE "store"] /\ name' = [name EXCEPT ![p] = name[p]]
        /\ asked' = [asked EXCEPT ![p] = asked[p]]
        /\ now' \in {now, now + 1} /\ dnsmasq' \in {dnsmasq, file}
        /\ blocked' = blocked /\ listed' = listed /\ blockedAt' = blockedAt
        /\ listedAt' = listedAt /\ stamp' = stamp /\ file' = file /\ read' = read
        /\ settled' = settled /\ lock' = lock /\ serving' = serving
        /\ faults' \in {faults, faults + 1} /\ crashes' = crashes
        /\ allowed' \in [Names -> {"none", "off", "on"}]
        /\ resolved' \subseteq Names /\ sets' \subseteq Names /\ fills' \subseteq Names
    BY <1>2, <1>3, <1>4, <1>12, <2>1, <2>2 DEF Lookup
  <2> QED BY <1>2, <1>3, <2>1, <2>3, QuietInvariant
<1>13. ASSUME NEW p \in Procs, StoreResolved(p) PROVE IInv'
  <2>1. pc[p] \notin InApply /\ name[p] \in Names
    BY <1>1, <1>13 DEF StoreResolved, InApply, Named
  <2>2. resolved' \subseteq Names
    BY <1>3, <1>13, <2>1 DEF StoreResolved
  <2> QED BY <1>2, <1>3, <1>4, <1>13, <2>1, <2>2, QuietInvariant DEF StoreResolved
<1>14. ASSUME NEW p \in Procs, LookupFails(p) PROVE IInv'
  <2>1. pc[p] \notin InApply
    BY <1>14 DEF LookupFails, InApply
  <2> QED BY ZenonT(60), <1>2, <1>3, <1>4, <1>14, <2>1, QuietInvariant DEF LookupFails
<1>15. ASSUME NEW r \in Requests, NEW n \in Names, CheckCutShort(r, n) PROVE IInv'
  <2>2. pc[r] \notin InApply
    BY <1>15 DEF CheckCutShort, InApply
  <2>3. /\ pc' = [pc EXCEPT ![r] = "insert"] /\ name' = [name EXCEPT ![r] = n]
        /\ asked' = [asked EXCEPT ![r] = 0]
        /\ now' \in {now, now + 1} /\ dnsmasq' \in {dnsmasq, file}
        /\ blocked' = blocked /\ listed' = listed /\ blockedAt' = blockedAt
        /\ listedAt' = listedAt /\ stamp' = stamp /\ file' = file /\ read' = read
        /\ settled' = settled /\ lock' = lock /\ serving' = serving
        /\ faults' \in {faults, faults + 1} /\ crashes' = crashes
        /\ allowed' \in [Names -> {"none", "off", "on"}]
        /\ resolved' \subseteq Names /\ sets' \subseteq Names /\ fills' \subseteq Names
    BY <1>2, <1>3, <1>15, <2>2 DEF CheckCutShort
  <2>4. n \in Names \cup {NoName} /\ 0 <= now
        /\ ("insert" = "insert" => r \in Requests /\ 0 = 0)
    BY <1>3
  <2> QED BY <1>2, <1>3, <2>2, <2>3, <2>4, QuietInvariant
<1> QED BY <1>5, <1>6, <1>7, <1>8, <1>9, <1>10, <1>11, <1>12, <1>13, <1>14, <1>15

-----------------------------------------------------------------------------
(* DNSService.Apply *)

\* A step of the holder of the mutex, with what it leaves in its variables (d), in the
\* file (f) and in dnsmasq (g): it has to keep only its own part of the invariant.
LEMMA HolderInvariant ==
    ASSUME IInv, NEW p \in Appliers,
           pc[p] \in InApply \/ (pc[p] = "lock" /\ lock = Free),
           blocked' = blocked, listed' = listed, blockedAt' = blockedAt, listedAt' = listedAt,
           stamp' = stamp, now' = now, allowed' = allowed, resolved' = resolved, sets' = sets,
           fills' = fills,
           name' = name, asked' = asked, crashes' = crashes,
           serving' \in BOOLEAN, faults' \in Nat,
           NEW l \in InApply \cup {"idle"}, pc' = [pc EXCEPT ![p] = l],
           lock' = IF l = "idle" THEN Free ELSE p,
           NEW d \in Directives, read' = [read EXCEPT ![p] = d],
           NEW f \in Directives, file' = f, Agrees(f),
           NEW g \in Directives, dnsmasq' = g, Agrees(g),
           settled' \in Nat, settled' <= g.start, g.start <= f.start, f.start <= now,
           l \in {"hard", "write", "reload"} =>
               stamp[p] <= d.start /\ f.start <= d.start /\ d.start <= now,
           l = "hard" /\ d.complete => ListAgrees(d), l = "write" => Agrees(d), l = "reload" => f = d
    PROVE  IInv'
<1>1. TypeOK /\ Mutex /\ Named /\ Order /\ Copies /\ Guarded
  BY DEF IInv
<1>2. /\ Appliers \subseteq Procs /\ Requests \subseteq Appliers
      /\ Refresher \in Procs /\ Startup \in Procs /\ Free \notin Procs
      /\ Refresher \notin Appliers
  BY BlockListAssumption DEF Appliers, Procs
<1>3. /\ \A q \in Procs : pc'[q] = IF q = p THEN l ELSE pc[q]
      /\ \A q \in Procs : read'[q] = IF q = p THEN d ELSE read[q]
  BY <1>1, <1>2 DEF TypeOK
<1>4. \A q \in Appliers : q # p => pc[q] \notin InApply
  BY <1>1, <1>2 DEF Mutex
<1>5. \A q \in Procs : pc'[q] \notin InApply \cup {"idle"} => q # p /\ pc[q] = pc'[q]
  BY <1>3
<1>6. TypeOK'
  BY <1>1, <1>2 DEF TypeOK, InApply
<1>7. Mutex'
  BY <1>1, <1>2, <1>3, <1>4 DEF Mutex, InApply
<1>8. Named'
  BY <1>1, <1>5 DEF Named, InApply
<1>9. Order'
  <2>1. \A q \in Appliers : pc'[q] \in {"hard", "write", "reload"} => q = p /\ pc'[q] = l /\ read'[q] = d
    BY <1>2, <1>3, <1>4 DEF InApply
  <2> QED BY <1>1, <2>1 DEF Order
<1>10. Copies'
  <2>1. Agrees(file)' /\ Agrees(dnsmasq)'
    BY DEF Agrees, ListAgrees, HardAgrees, Enforced
  <2>2. ASSUME NEW q \in Appliers
        PROVE  /\ pc'[q] = "hard" /\ read'[q].complete => ListAgrees(read[q])'
               /\ pc'[q] = "write" => Agrees(read[q])'
               /\ pc'[q] = "reload" => file' = read'[q]
    <3>1. pc'[q] \in {"hard", "write", "reload"} => q = p /\ pc'[q] = l /\ read'[q] = d
      BY <1>2, <1>3, <1>4 DEF InApply
    <3> QED BY <3>1 DEF Agrees, ListAgrees, HardAgrees, Enforced
  <2> QED BY <2>1, <2>2 DEF Copies
<1>11. Guarded'
  BY <1>1, <1>2, <1>5 DEF Guarded, Matches, Enforced, InApply
<1> QED BY <1>6, <1>7, <1>8, <1>9, <1>10, <1>11 DEF IInv

\* What a goroutine inside Apply may rely on.
LEMMA HolderKnows ==
    ASSUME IInv, NEW p \in Appliers
    PROVE  /\ p \in Procs /\ read[p] \in Directives /\ NoDirectives \in Directives
           /\ file \in Directives /\ dnsmasq \in Directives /\ Agrees(file) /\ Agrees(dnsmasq)
           /\ now \in Nat /\ settled \in Nat /\ stamp[p] \in Nat /\ faults \in Nat
           /\ file.start \in Nat /\ dnsmasq.start \in Nat /\ read[p].start \in Nat
           /\ settled <= dnsmasq.start /\ dnsmasq.start <= file.start /\ file.start <= now
           /\ stamp[p] <= now /\ serving \in BOOLEAN
           /\ pc \in [Procs -> {"idle", "insert", "lookup", "zero", "store", "firewall",
                                "lock", "list", "hard", "write", "reload"}]
           /\ read \in [Procs -> Directives] /\ listed \subseteq Names
           /\ pc[p] \in InApply => lock = p
           /\ pc[p] \in {"hard", "write", "reload"} =>
                 stamp[p] <= read[p].start /\ file.start <= read[p].start /\ read[p].start <= now
           /\ pc[p] = "hard" /\ read[p].complete => ListAgrees(read[p])
           /\ pc[p] = "write" => Agrees(read[p])
           /\ pc[p] = "reload" => file = read[p]
<1>1. TypeOK /\ Mutex /\ Order /\ Copies /\ p \in Procs
  BY DEF IInv, Procs
<1>2. NoDirectives \in Directives
  BY DEF NoDirectives, Directives
<1>3. read[p] \in Directives /\ file \in Directives /\ dnsmasq \in Directives
  BY <1>1 DEF TypeOK
<1>4. file.start \in Nat /\ dnsmasq.start \in Nat /\ read[p].start \in Nat
  BY <1>3 DEF Directives
<1>5. /\ Agrees(file) /\ Agrees(dnsmasq)
      /\ pc[p] = "hard" /\ read[p].complete => ListAgrees(read[p])
      /\ pc[p] = "write" => Agrees(read[p])
      /\ pc[p] = "reload" => file = read[p]
  BY <1>1 DEF Copies
<1>6. /\ settled <= dnsmasq.start /\ dnsmasq.start <= file.start /\ file.start <= now
      /\ stamp[p] <= now
      /\ pc[p] \in {"hard", "write", "reload"} =>
            stamp[p] <= read[p].start /\ file.start <= read[p].start /\ read[p].start <= now
  BY <1>1 DEF Order
<1>7. /\ now \in Nat /\ settled \in Nat /\ stamp[p] \in Nat /\ faults \in Nat /\ serving \in BOOLEAN
      /\ pc \in [Procs -> {"idle", "insert", "lookup", "zero", "store", "firewall",
                           "lock", "list", "hard", "write", "reload"}]
      /\ read \in [Procs -> Directives] /\ listed \subseteq Names
  BY <1>1 DEF TypeOK
<1>8. pc[p] \in InApply => lock = p
  BY <1>1 DEF Mutex
<1> QED BY <1>1, <1>2, <1>3, <1>4, <1>5, <1>6, <1>7, <1>8

\* Each step of DNSService.Apply and each of its failures keeps the invariant.
LEMMA ApplyInvariant ==
    ASSUME IInv, NEW p \in Appliers,
           \/ Acquire(p) \/ ReadList(p) \/ ReadListShort(p)
           \/ EnabledDomains(p) \/ EnabledDomainsFails(p)
           \/ WriteBlocklist(p) \/ ReloadDnsmasq(p)
           \/ ReadListFails(p) \/ WriteFails(p) \/ ReloadFails(p)
    PROVE  IInv'
<1> USE DEF rules, lists, allow, conf, work, Goto
<1>1. /\ p \in Procs /\ read[p] \in Directives /\ NoDirectives \in Directives
      /\ file \in Directives /\ dnsmasq \in Directives /\ Agrees(file) /\ Agrees(dnsmasq)
      /\ now \in Nat /\ settled \in Nat /\ stamp[p] \in Nat /\ faults \in Nat
      /\ file.start \in Nat /\ dnsmasq.start \in Nat /\ read[p].start \in Nat
      /\ settled <= dnsmasq.start /\ dnsmasq.start <= file.start /\ file.start <= now
      /\ stamp[p] <= now /\ serving \in BOOLEAN
      /\ read \in [Procs -> Directives] /\ listed \subseteq Names
  BY HolderKnows
<1>2. /\ pc[p] \in {"hard", "write", "reload"} =>
            stamp[p] <= read[p].start /\ file.start <= read[p].start /\ read[p].start <= now
      /\ pc[p] = "hard" /\ read[p].complete => ListAgrees(read[p])
      /\ pc[p] = "write" => Agrees(read[p])
      /\ pc[p] = "reload" => file = read[p]
      /\ pc[p] \in InApply => lock = p
  BY HolderKnows
<1>3. read = [read EXCEPT ![p] = read[p]]
  BY <1>1
<1>4. CASE Acquire(p)
  <2>1. /\ pc[p] = "lock" /\ lock = Free /\ lock' = p /\ pc' = [pc EXCEPT ![p] = "list"]
        /\ blocked' = blocked /\ listed' = listed /\ blockedAt' = blockedAt
        /\ listedAt' = listedAt /\ stamp' = stamp /\ now' = now /\ allowed' = allowed
        /\ resolved' = resolved /\ sets' = sets /\ fills' = fills /\ name' = name /\ asked' = asked
        /\ crashes' = crashes /\ faults' = faults /\ serving' = serving /\ settled' = settled
        /\ file' = file /\ dnsmasq' = dnsmasq /\ read' = [read EXCEPT ![p] = read[p]]
    BY <1>3, <1>4 DEF Acquire
  <2>2. "list" \in InApply \cup {"idle"} /\ "list" \notin {"hard", "write", "reload"}
    BY DEF InApply
  <2> QED BY <1>1, <2>1, <2>2, HolderInvariant
<1>5. CASE ReadList(p) \/ ReadListShort(p)
  <2>1. /\ pc[p] = "list" /\ lock' = lock /\ pc' = [pc EXCEPT ![p] = "hard"]
        /\ blocked' = blocked /\ listed' = listed /\ blockedAt' = blockedAt
        /\ listedAt' = listedAt /\ stamp' = stamp /\ now' = now /\ allowed' = allowed
        /\ resolved' = resolved /\ sets' = sets /\ fills' = fills /\ name' = name /\ asked' = asked
        /\ crashes' = crashes /\ faults' \in Nat /\ serving' = serving /\ settled' = settled
        /\ file' = file /\ dnsmasq' = dnsmasq
    BY <1>1, <1>5 DEF ReadList, ReadListShort
  <2>2. PICK d \in Directives :
          /\ read' = [read EXCEPT ![p] = d] /\ d.start = now
          /\ d.complete => d.list = listed
    <3>1. CASE ReadList(p)
      <4> DEFINE d == [NoDirectives EXCEPT !.start = now, !.list = listed]
      <4>1. d \in Directives /\ d.start = now /\ d.list = listed
        BY <1>1 DEF NoDirectives, Directives
      <4>2. read' = [read EXCEPT ![p] = d]
        BY <3>1 DEF ReadList
      <4> HIDE DEF d
      <4> QED BY <4>1, <4>2
    <3>2. CASE ReadListShort(p)
      <4>1. PICK names \in SUBSET listed :
              read' = [read EXCEPT ![p] =
                          [start |-> now, list |-> names, hard |-> {}, complete |-> FALSE]]
        BY <3>2 DEF ReadListShort
      <4> DEFINE d == [start |-> now, list |-> names, hard |-> {}, complete |-> FALSE]
      <4>2. d \in Directives /\ d.start = now /\ ~d.complete
        BY <1>1 DEF Directives
      <4>3. read' = [read EXCEPT ![p] = d]
        BY <4>1
      <4> HIDE DEF d
      <4> QED BY <4>2, <4>3
    <3> QED BY <1>5, <3>1, <3>2
  <2>3. d.complete => ListAgrees(d)
    BY <2>2 DEF ListAgrees
  <2>4. pc[p] \in InApply /\ lock' = p /\ "hard" \in InApply \cup {"idle"}
        /\ stamp[p] <= d.start /\ file.start <= d.start /\ d.start <= now
    BY <1>1, <1>2, <2>1, <2>2 DEF InApply
  <2> QED BY <1>1, <2>1, <2>2, <2>3, <2>4, HolderInvariant
<1>6. CASE EnabledDomains(p) \/ EnabledDomainsFails(p)
  <2>1. /\ pc[p] = "hard" /\ lock' = lock /\ pc' = [pc EXCEPT ![p] = "write"]
        /\ blocked' = blocked /\ listed' = listed /\ blockedAt' = blockedAt
        /\ listedAt' = listedAt /\ stamp' = stamp /\ now' = now /\ allowed' = allowed
        /\ resolved' = resolved /\ sets' = sets /\ fills' = fills /\ name' = name /\ asked' = asked
        /\ crashes' = crashes /\ faults' \in Nat /\ serving' = serving /\ settled' = settled
        /\ file' = file /\ dnsmasq' = dnsmasq
    BY <1>1, <1>6 DEF EnabledDomains, EnabledDomainsFails
  <2>2. PICK d \in Directives :
          /\ read' = [read EXCEPT ![p] = d] /\ d.start = read[p].start
          /\ d.complete => /\ read[p].complete /\ d.list = read[p].list
                           /\ d.hard = {n \in Names : Enforced(n)}
    <3>1. CASE EnabledDomains(p)
      <4> DEFINE d == [read[p] EXCEPT !.hard = {n \in Names : Enforced(n)}]
      <4>1. /\ d \in Directives /\ d.start = read[p].start /\ d.list = read[p].list
            /\ d.hard = {n \in Names : Enforced(n)} /\ d.complete = read[p].complete
        BY <1>1 DEF Directives
      <4>2. read' = [read EXCEPT ![p] = d]
        BY <1>1, <3>1 DEF EnabledDomains
      <4> HIDE DEF d
      <4> QED BY <4>1, <4>2
    <3>2. CASE EnabledDomainsFails(p)
      <4>1. PICK names \in SUBSET {n \in Names : Enforced(n)} :
              read' = [read EXCEPT ![p].hard = names, ![p].complete = FALSE]
        BY <3>2 DEF EnabledDomainsFails
      <4> DEFINE d == [read[p] EXCEPT !.hard = names, !.complete = FALSE]
      <4>2. d \in Directives /\ d.start = read[p].start /\ ~d.complete
        BY <1>1 DEF Directives
      <4>3. read' = [read EXCEPT ![p] = d]
        BY <1>1, <4>1
      <4> HIDE DEF d
      <4> QED BY <4>2, <4>3
    <3> QED BY <1>6, <3>1, <3>2
  <2>3. Agrees(d)
    BY <1>2, <2>1, <2>2 DEF Agrees, ListAgrees, HardAgrees
  <2>5. pc[p] \in InApply /\ lock' = p /\ "write" \in InApply \cup {"idle"}
        /\ stamp[p] <= d.start /\ file.start <= d.start /\ d.start <= now
    BY <1>2, <2>1, <2>2 DEF InApply
  <2> QED BY <1>1, <2>1, <2>2, <2>3, <2>5, HolderInvariant
<1>7. CASE WriteBlocklist(p)
  <2>1. /\ pc[p] = "write" /\ lock' = lock /\ pc' = [pc EXCEPT ![p] = "reload"]
        /\ blocked' = blocked /\ listed' = listed /\ blockedAt' = blockedAt
        /\ listedAt' = listedAt /\ stamp' = stamp /\ now' = now /\ allowed' = allowed
        /\ resolved' = resolved /\ sets' = sets /\ fills' = fills /\ name' = name /\ asked' = asked
        /\ crashes' = crashes /\ faults' = faults /\ serving' = serving /\ settled' = settled
        /\ file' = read[p] /\ dnsmasq' = dnsmasq /\ read' = [read EXCEPT ![p] = read[p]]
    BY <1>3, <1>7 DEF WriteBlocklist
  <2>2. pc[p] \in InApply /\ lock' = p /\ "reload" \in InApply \cup {"idle"}
        /\ Agrees(read[p]) /\ dnsmasq.start <= read[p].start
        /\ stamp[p] <= read[p].start /\ read[p].start <= read[p].start /\ read[p].start <= now
    BY <1>1, <1>2, <2>1 DEF InApply
  <2> QED BY ZenonT(60), <1>1, <2>1, <2>2, HolderInvariant
<1>8. CASE ReloadDnsmasq(p) \/ ReloadFails(p) \/ ReadListFails(p) \/ WriteFails(p)
  <2>0. \E ok \in BOOLEAN : Return(p, ok) /\ pc[p] \in {"list", "write", "reload"} /\ faults' \in {faults, faults + 1}
    BY <1>8 DEF ReloadDnsmasq, ReloadFails, ReadListFails, WriteFails, Fault
  <2>1. /\ pc[p] \in {"list", "write", "reload"} /\ lock' = Free /\ pc' = [pc EXCEPT ![p] = "idle"]
        /\ blocked' = blocked /\ listed' = listed /\ blockedAt' = blockedAt
        /\ listedAt' = listedAt /\ stamp' = stamp /\ now' = now /\ allowed' = allowed
        /\ resolved' = resolved /\ sets' = sets /\ fills' = fills /\ name' = name /\ asked' = asked
        /\ crashes' = crashes /\ faults' \in Nat /\ serving' \in BOOLEAN
        /\ read' = [read EXCEPT ![p] = NoDirectives]
    BY <1>1, <2>0 DEF Return
  <2>2. pc[p] \in InApply /\ "idle" \in InApply \cup {"idle"}
    BY <2>1 DEF InApply
  <2>3. PICK f \in Directives, g \in Directives :
          /\ file' = f /\ Agrees(f) /\ dnsmasq' = g /\ Agrees(g)
          /\ settled' \in Nat /\ settled' <= g.start /\ g.start <= f.start /\ f.start <= now
    <3>1. CASE ReloadDnsmasq(p)
      <4>1. /\ file' = file /\ dnsmasq' = file /\ pc[p] = "reload"
            /\ settled' = IF TRUE /\ stamp[p] > settled THEN stamp[p] ELSE settled
        BY <3>1 DEF ReloadDnsmasq, Return
      <4>2. settled' \in Nat /\ settled' <= file.start /\ file.start <= file.start
        BY <1>1, <1>2, <4>1
      <4> QED BY <1>1, <4>1, <4>2
    <3>2. CASE ReloadFails(p)
      <4>1. file' = file /\ dnsmasq' \in {dnsmasq, file} /\ settled' = settled
        BY <3>2 DEF ReloadFails, Fault, Return
      <4>2. settled <= file.start /\ file.start <= file.start
        BY <1>1
      <4> QED BY <1>1, <4>1, <4>2
    <3>3. CASE ReadListFails(p)
      <4>1. file' = file /\ dnsmasq' = dnsmasq /\ settled' = settled
        BY <3>3 DEF ReadListFails, Fault, Return
      <4> QED BY <1>1, <4>1
    <3>4. CASE WriteFails(p)
      <4>1. /\ file' \in {file, Cut(read[p])} /\ dnsmasq' = dnsmasq /\ settled' = settled
            /\ pc[p] = "write"
        BY <3>4 DEF WriteFails, Fault, Return
      <4>2. Cut(read[p]) \in Directives /\ ~Cut(read[p]).complete
            /\ Cut(read[p]).start = read[p].start
        BY <1>1 DEF Cut, Directives
      <4>3. Agrees(Cut(read[p]))
        BY <4>2 DEF Agrees
      <4>4. dnsmasq.start <= Cut(read[p]).start /\ Cut(read[p]).start <= now
        BY <1>1, <1>2, <4>1, <4>2
      <4> QED BY <1>1, <4>1, <4>2, <4>3, <4>4
    <3> QED BY <1>8, <3>1, <3>2, <3>3, <3>4
  <2> QED BY ZenonT(60), <1>1, <2>1, <2>2, <2>3, HolderInvariant
<1> QED BY <1>4, <1>5, <1>6, <1>7, <1>8

\* A crash leaves the tables and dnsmasq alone; it may cut short the file that is being
\* written, and start-up is to apply all that is committed.
LEMMA CrashInvariant == ASSUME IInv, Crash PROVE IInv'
<1> USE BlockListAssumption DEF allow
<1>1. TypeOK /\ Mutex /\ Named /\ Order /\ Copies
  BY DEF IInv
<1>2. Appliers \subseteq Procs /\ Startup \in Procs /\ Refresher \in Procs /\ Startup # Refresher
  BY DEF Appliers, Procs
<1>3. /\ blocked' = blocked /\ listed' = listed /\ now' = now /\ blockedAt' = blockedAt
      /\ listedAt' = listedAt /\ allowed' = allowed /\ resolved' = resolved /\ sets' = sets /\ fills' = fills
      /\ dnsmasq' = dnsmasq /\ settled' = settled /\ faults' = faults /\ crashes' = crashes + 1
      /\ serving' = FALSE /\ lock' = Free
      /\ pc' = [p \in Procs |-> IF p = Startup THEN "lock" ELSE "idle"]
      /\ name' = [p \in Procs |-> NoName] /\ asked' = [p \in Procs |-> 0]
      /\ read' = [p \in Procs |-> NoDirectives] /\ stamp' = [stamp EXCEPT ![Startup] = now]
  BY DEF Crash
<1>4. /\ file' \in Directives /\ Agrees(file)'
      /\ file.start <= file'.start /\ file'.start <= now
  <2>1. /\ file \in Directives /\ Agrees(file) /\ file.start \in Nat /\ file.start <= now
    BY <1>1 DEF TypeOK, Copies, Order, Directives
  <2>2. CASE file' = file
    BY <1>3, <2>1, <2>2 DEF Agrees, ListAgrees, HardAgrees, Enforced
  <2>3. ASSUME NEW p \in Appliers, pc[p] = "write", file' = Cut(read[p])
        PROVE  /\ file' \in Directives /\ Agrees(file)'
               /\ file.start <= file'.start /\ file'.start <= now
    <3>1. read[p] \in Directives /\ file.start <= read[p].start /\ read[p].start <= now
      BY <1>1, <1>2, <2>3 DEF TypeOK, Order
    <3>2. Cut(read[p]) \in Directives /\ ~Cut(read[p]).complete /\ Cut(read[p]).start = read[p].start
      BY <3>1 DEF Cut, Directives
    <3> QED BY <2>3, <3>1, <3>2 DEF Agrees
  <2>4. \/ file' = file
        \/ \E p \in Appliers : pc[p] = "write" /\ file' = Cut(read[p])
    BY DEF Crash
  <2> QED BY <2>2, <2>3, <2>4
<1>5. TypeOK'
  <2>1. read' \in [Procs -> Directives]
    <3>1. NoDirectives \in Directives
      BY DEF NoDirectives, Directives
    <3> QED BY <1>3, <3>1
  <2>2. /\ pc' \in [Procs -> {"idle", "insert", "lookup", "zero", "store", "firewall",
                              "lock", "list", "hard", "write", "reload"}]
        /\ name' \in [Procs -> Names \cup {NoName}] /\ asked' \in [Procs -> Nat]
    BY <1>3
  <2>3. stamp' \in [Procs -> Nat]
    <3>1. stamp \in [Procs -> Nat] /\ now \in Nat
      BY <1>1 DEF TypeOK
    <3> QED BY <1>3, <3>1
  <2>4. crashes' \in Nat
    <3>1. crashes \in Nat
      BY <1>1 DEF TypeOK
    <3> QED BY <1>3, <3>1
  <2> QED BY <1>1, <1>3, <1>4, <2>1, <2>2, <2>3, <2>4 DEF TypeOK
<1>6. Mutex' /\ Named' /\ Guarded'
  BY <1>2, <1>3 DEF Mutex, Named, Guarded, InApply, Procs, Appliers
<1>7. Order'
  <2>1. now \in Nat /\ settled \in Nat /\ stamp \in [Procs -> Nat]
        /\ file.start \in Nat /\ file'.start \in Nat /\ dnsmasq.start \in Nat
    BY <1>1, <1>4 DEF TypeOK, Directives
  <2>2. \A p \in Appliers : pc'[p] \notin {"hard", "write", "reload"}
    BY <1>2, <1>3
  <2>3. \A p \in Procs : stamp'[p] <= now' /\ asked'[p] <= now'
    BY <1>1, <1>2, <1>3, <2>1 DEF Order
  <2> QED BY <1>1, <1>3, <1>4, <2>1, <2>2, <2>3 DEF Order
<1>8. Copies'
  <2>1. Agrees(dnsmasq)'
    BY <1>1, <1>3 DEF Copies, Agrees, ListAgrees, HardAgrees, Enforced
  <2>2. \A p \in Appliers : pc'[p] \notin {"hard", "write", "reload"}
    BY <1>2, <1>3
  <2> QED BY <1>4, <2>1, <2>2 DEF Copies
<1> QED BY <1>5, <1>6, <1>7, <1>8 DEF IInv

-----------------------------------------------------------------------------

\* Every step keeps the invariant.
LEMMA NextInvariant == IInv /\ [Next]_vars => IInv'
<1> SUFFICES ASSUME IInv, [Next]_vars PROVE IInv'
  OBVIOUS
<1>1. Blockable \subseteq Names /\ Allowable \subseteq Names /\ Requests \subseteq Procs
  BY BlockListAssumption DEF Procs, Appliers
<1>2. ASSUME NEW r \in Requests, BlockRequest(r) PROVE IInv'
  <2>1. PICK n \in Blockable :
          \/ \E match \in {"exact", "suffix"} : Block(r, n, match)
          \/ \E row \in {"off", "exact", "suffix"} : UpdateBlock(r, n, row)
          \/ Unblock(r, n)
          \/ CreateEntry(r, n) \/ DeleteEntry(r, n)
    BY <1>2 DEF BlockRequest
  <2>2. n \in Names /\ listed \subseteq Names
    BY <1>1 DEF IInv, TypeOK
  <2>3. /\ Commit(r, "lock")
        /\ \/ \E m \in Names, row \in {"none", "off", "exact", "suffix"} : SetBlocked(m, row)
           \/ \E names \in SUBSET Names : SetListed(names)
    <3>1. CASE CreateEntry(r, n)
      <4>1. listed \cup {n} \in SUBSET Names
        BY <2>2
      <4> QED BY <3>1, <4>1 DEF CreateEntry
    <3>2. CASE DeleteEntry(r, n)
      <4>1. listed \ {n} \in SUBSET Names
        BY <2>2
      <4> QED BY <3>2, <4>1 DEF DeleteEntry
    <3> QED BY <2>1, <2>2, <3>1, <3>2 DEF Block, UpdateBlock, Unblock
  <2> QED BY <2>3, CommitInvariant
<1>3. ASSUME NEW r \in Requests, NEW names \in SUBSET Blockable, ImportDomains(r, names)
      PROVE  IInv'
  <2>1. listed \cup names \in SUBSET Names
    BY <1>1 DEF IInv, TypeOK
  <2>2. Commit(r, "lock") /\ SetListed(listed \cup names)
    BY <1>3 DEF ImportDomains
  <2> QED BY <2>1, <2>2, CommitInvariant
<1>4. ASSUME NEW r \in Requests, AllowRequest(r) \/ SettingsApply(r) PROVE IInv'
  BY <1>1, <1>4, AllowInvariant DEF AllowRequest
<1>5. ASSUME NEW n \in Names, RefreshAll(n) PROVE IInv'
  BY <1>5, AllowInvariant
<1>6. ASSUME NEW p \in Procs, Continue(p) PROVE IInv'
  BY <1>6, AllowInvariant, ApplyInvariant DEF Continue
<1>7. ASSUME NEW p \in Appliers, ApplyFails(p) PROVE IInv'
  BY <1>7, ApplyInvariant DEF ApplyFails
<1>8. CASE FirewallReload \/ \E n \in Names : ClientQuery(n)
  <2>1. /\ blocked' = blocked /\ listed' = listed /\ blockedAt' = blockedAt
        /\ listedAt' = listedAt /\ stamp' = stamp /\ now' = now /\ allowed' = allowed
        /\ resolved' = resolved /\ name' = name /\ asked' = asked /\ crashes' = crashes
        /\ serving' = serving /\ pc' = pc /\ lock' = lock /\ read' = read
        /\ settled' = settled /\ faults' = faults /\ file' = file /\ dnsmasq' \in {dnsmasq, file}
    BY <1>8 DEF FirewallReload, Refill, ClientQuery, lists, rules, allow, conf, control, work
  <2>2. TypeOK /\ Mutex /\ Named /\ Order /\ Guarded
    BY DEF IInv
  <2>3. sets' \subseteq Names /\ fills' \subseteq Names
    BY <1>8, <2>2 DEF FirewallReload, Refill, ClientQuery, Learnt, lists, rules, allow, TypeOK
  <2>4. TypeOK'
    BY <2>1, <2>2, <2>3 DEF TypeOK
  <2>5. \A p \in Procs : asked'[p] <= now'
    BY <2>1, <2>2 DEF Order
  <2>6. Order' /\ Copies'
    BY <2>1, <2>5, QuietKeeps
  <2>7. Mutex' /\ Named' /\ Guarded'
    BY <2>1, <2>2 DEF Mutex, Named, Guarded, Matches, Enforced
  <2> QED BY <2>4, <2>6, <2>7 DEF IInv
<1>9. CASE UNCHANGED vars
  BY <1>9 DEF IInv, TypeOK, Mutex, Named, Order, Copies, Agrees, ListAgrees, HardAgrees,
              Enforced, Guarded, Matches, vars, lists, rules, allow, conf, control, work
<1>10. CASE Crash
  BY <1>10, CrashInvariant
<1> QED BY <1>2, <1>3, <1>4, <1>5, <1>6, <1>7, <1>8, <1>9, <1>10 DEF Next

\* The inductive invariant holds in every reachable state of Spec, for all constants.
THEOREM BlockListInvariance == Spec => []IInv
<1> QED BY InitInvariant, NextInvariant, PTL DEF Spec

\* The variables keep their types.
THEOREM TypeCorrect == Spec => []TypeOK
<1>1. IInv => TypeOK
  BY DEF IInv
<1> QED BY <1>1, BlockListInvariance, PTL

\* No interleaving of Applies, failures, crashes and reloads takes back a block, or an
\* unblock, whose Apply has succeeded, as long as the file that dnsmasq has read is
\* complete: no read for it failed or ended early, and its write was not cut short.
THEOREM SettledAreSunk == Spec => []SettledIsSunk
<1>1. IInv => SettledIsSunk
  <2> SUFFICES ASSUME IInv, dnsmasq.complete, NEW n \in Names
               PROVE  /\ blockedAt[n] <= settled => (n \in dnsmasq.hard <=> Enforced(n))
                      /\ listedAt[n] <= settled => (n \in dnsmasq.list <=> n \in listed)
    BY DEF SettledIsSunk
  <2>1. /\ blockedAt[n] \in Nat /\ listedAt[n] \in Nat /\ settled \in Nat
        /\ dnsmasq.start \in Nat /\ settled <= dnsmasq.start
    BY DEF IInv, TypeOK, Directives, Order
  <2>2. ListAgrees(dnsmasq) /\ HardAgrees(dnsmasq)
    BY DEF IInv, Copies, Agrees
  <2> QED BY <2>1, <2>2 DEF ListAgrees, HardAgrees
<1> QED BY <1>1, BlockListInvariance, PTL

\* What one step may do to the numbers that the abstract specification talks about.
LEMMA StepSummary ==
    ASSUME IInv, [Next]_vars
    PROVE  \/ now' = now + 1 /\ dnsmasq' = dnsmasq /\ settled' = settled
           \/ now' = now /\ dnsmasq' \in {dnsmasq, file} /\ settled <= settled'
<1>1. settled \in Nat /\ now \in Nat /\ stamp \in [Procs -> Nat] /\ settled <= settled
  BY DEF IInv, TypeOK
<1>2. CASE UNCHANGED vars
  BY <1>1, <1>2 DEF vars, lists, conf
<1>3. CASE \/ \E r \in Requests : BlockRequest(r)
           \/ \E r \in Requests, names \in SUBSET Blockable : ImportDomains(r, names)
  BY <1>3 DEF BlockRequest, Block, UpdateBlock, Unblock, CreateEntry, DeleteEntry, ImportDomains,
              Commit, conf
<1>4. CASE \/ \E r \in Requests : AllowRequest(r) \/ SettingsApply(r)
           \/ \E n \in Names : RefreshAll(n) \/ ClientQuery(n)
  BY <1>1, <1>4 DEF AllowRequest, CheckBlocked, CheckCutShort, UpdateAllowed, DeleteAllowed, AllowStep,
                    SettingsApply, RefreshAll, ClientQuery, lists, conf
<1>5. ASSUME NEW p \in Procs, Continue(p)
      PROVE  \/ now' = now + 1 /\ dnsmasq' = dnsmasq /\ settled' = settled
             \/ now' = now /\ dnsmasq' \in {dnsmasq, file} /\ settled <= settled'
  <2>1. CASE Lookup(p) \/ StoreResolved(p) \/ LookupFails(p) \/ InsertAllowed(p)
    BY <1>1, <2>1 DEF Lookup, StoreResolved, LookupFails, InsertAllowed, AllowStep, conf
  <2>2. CASE Acquire(p) \/ ReadList(p) \/ EnabledDomains(p) \/ WriteBlocklist(p) \/ FirewallApply(p)
    BY <1>1, <2>2 DEF Acquire, ReadList, EnabledDomains, WriteBlocklist, FirewallApply, Refill, lists, conf
  <2>3. CASE ReloadDnsmasq(p)
    BY <1>1, <2>3 DEF ReloadDnsmasq, Return, lists
  <2> QED BY <1>5, <2>1, <2>2, <2>3 DEF Continue
<1>6. ASSUME NEW p \in Appliers, ApplyFails(p)
      PROVE  now' = now /\ dnsmasq' \in {dnsmasq, file} /\ settled <= settled'
  BY <1>1, <1>6 DEF ApplyFails, ReadListFails, ReadListShort, EnabledDomainsFails, WriteFails, ReloadFails, Fault,
                    Return, lists, conf
<1>7. CASE FirewallReload \/ Crash
  BY <1>1, <1>7 DEF FirewallReload, Refill, Crash, lists
<1> QED BY <1>2, <1>3, <1>4, <1>5, <1>6, <1>7 DEF Next

\* dnsmasq never goes back to a list generated from older tables.
THEOREM NeverGoesBack == Spec => NeverOlder
<1>1. IInv /\ [Next]_vars => [dnsmasq'.start >= dnsmasq.start]_vars
  <2> SUFFICES ASSUME IInv, [Next]_vars PROVE dnsmasq'.start >= dnsmasq.start
    OBVIOUS
  <2>1. /\ dnsmasq.start \in Nat /\ file.start \in Nat /\ dnsmasq.start <= file.start
    BY DEF IInv, TypeOK, Directives, Order
  <2>2. dnsmasq' \in {dnsmasq, file}
    BY StepSummary
  <2> QED BY <2>1, <2>2
<1> QED BY <1>1, BlockListInvariance, PTL DEF Spec, NeverOlder

\* ImplementsEnforcement for all constants: BlockList refines Enforcement with dnsmasq as
\* its one target.
THEOREM Refinement == Spec => ImplementsEnforcement
<1>1. Init => Abstract!Init
  BY DEF Init, Abstract!Init, NoDirectives
<1>2. IInv /\ IInv' /\ [Next]_vars => [Abstract!Next]_(Abstract!avars)
  <2> SUFFICES ASSUME IInv, IInv', [Next]_vars PROVE Abstract!Next
    OBVIOUS
  <2>1. CASE now' = now + 1 /\ dnsmasq' = dnsmasq /\ settled' = settled
    BY <2>1 DEF Abstract!Next, Abstract!Commit
  <2>2. CASE now' = now /\ dnsmasq' \in {dnsmasq, file} /\ settled <= settled'
    <3>1. /\ settled' \in Nat /\ dnsmasq'.start \in Nat
          /\ settled' <= dnsmasq'.start /\ dnsmasq'.start <= now
      <4>1. /\ settled' \in Nat /\ dnsmasq'.start \in Nat /\ file'.start \in Nat /\ now' \in Nat
            /\ settled' <= dnsmasq'.start /\ dnsmasq'.start <= file'.start /\ file'.start <= now'
        BY DEF IInv, TypeOK, Directives, Order
      <4> QED BY <2>2, <4>1
    <3>2. settled \in Nat /\ now \in Nat /\ dnsmasq.start <= dnsmasq'.start
      <4>1. /\ dnsmasq.start \in Nat /\ file.start \in Nat /\ dnsmasq.start <= file.start
            /\ settled \in Nat /\ now \in Nat
        BY DEF IInv, TypeOK, Directives, Order
      <4> QED BY <2>2, <4>1
    <3> QED BY <2>2, <3>1, <3>2 DEF Abstract!Next, Abstract!Enforce
  <2> QED BY <2>1, <2>2, StepSummary
<1> QED BY <1>1, <1>2, BlockListInvariance, PTL DEF Spec, ImplementsEnforcement, Abstract!Spec

\* A row of the allow list that a rule matches when it is created is matched by a rule
\* that is newer than the guard's answer, or the guard's own read ended early.
THEOREM GuardIsOnlyOutrun == Spec => OnlyOutrun
<1>1. IInv /\ [Next]_vars =>
        [\A r \in Requests, b \in Names :
            pc[r] = "insert" /\ pc'[r] = "lookup" /\ Matches(b, name[r])
                => blockedAt[b] > asked[r]]_vars
  BY DEF IInv, Guarded
<1> QED BY <1>1, BlockListInvariance, PTL DEF Spec, OnlyOutrun

-----------------------------------------------------------------------------
(* Nothing is forgotten: the safety half of SinkConverges *)

Busy == {"lock"} \cup InApply

\* The names whose last change a goroutine has still to apply.
ListDue == {n \in Names : \E p \in Appliers : pc[p] \in Busy /\ listedAt[n] <= stamp[p]}

HardDue == {n \in Names : \E p \in Appliers : pc[p] \in Busy /\ blockedAt[n] <= stamp[p]}

\* A copy of a list has every name right that nobody has still to apply.
ListRight(list) == \A n \in Names \ ListDue : n \in list <=> n \in listed

HardRight(hard) == \A n \in Names \ HardDue : n \in hard <=> Enforced(n)

\* While nothing fails, the file, what dnsmasq runs and what has been read of the lists
\* are right about all names that are not due.
Right ==
    /\ ListRight(file.list) /\ HardRight(file.hard)
    /\ ListRight(dnsmasq.list) /\ HardRight(dnsmasq.hard)
    /\ \A p \in Appliers :
          /\ pc[p] \in {"hard", "write", "reload"} => read[p].complete
          /\ pc[p] \in {"hard", "write"} => ListRight(read[p].list)
          /\ pc[p] = "write" => HardRight(read[p].hard)

QuietInv == faults = 0 => Right

\* Start-up is to apply everything when the daemon starts.
LEMMA InitQuiet == Init => QuietInv
<1> SUFFICES ASSUME Init PROVE Right
  BY DEF QuietInv
<1>1. Startup \in Appliers /\ Startup \in Procs /\ Appliers \subseteq Procs
  BY DEF Appliers, Procs
<1>2. pc[Startup] = "lock" /\ stamp[Startup] = 1 /\ \A p \in Appliers : pc[p] \in {"lock", "idle"}
  BY <1>1 DEF Init
<1>3. \A n \in Names : listedAt[n] <= stamp[Startup] /\ blockedAt[n] <= stamp[Startup]
  BY <1>2 DEF Init
<1>4. ListDue = Names /\ HardDue = Names
  BY <1>1, <1>2, <1>3 DEF ListDue, HardDue, Busy
<1> QED BY <1>2, <1>4 DEF Right, ListRight, HardRight

\* A step that changes neither a list nor a stamp, and in which nobody returns: what was
\* due remains so, and each copy is an older one, or the list itself.
LEMMA QuietStep ==
    ASSUME Right,
           blocked' = blocked, listed' = listed, blockedAt' = blockedAt, listedAt' = listedAt,
           stamp' = stamp,
           \A p \in Appliers : pc[p] \in Busy => pc'[p] \in Busy,
           file' = file \/ \E p \in Appliers : pc[p] = "write" /\ file' = read[p],
           dnsmasq' \in {dnsmasq, file},
           \A p \in Appliers :
              /\ pc'[p] \in {"hard", "write", "reload"} => read'[p].complete
              /\ pc'[p] \in {"hard", "write"} =>
                    \/ read'[p].list = listed
                    \/ pc[p] \in {"hard", "write"} /\ read'[p].list = read[p].list
              /\ pc'[p] = "write" =>
                    \/ read'[p].hard = {n \in Names : Enforced(n)}
                    \/ pc[p] = "write" /\ read'[p].hard = read[p].hard
    PROVE  Right'
<1>1. ListDue \subseteq ListDue' /\ HardDue \subseteq HardDue'
  BY DEF ListDue, HardDue
<1>2. \A list : ListRight(list) => \A n \in Names \ ListDue' : n \in list <=> n \in listed'
  BY <1>1 DEF ListRight
<1>3. \A hard : HardRight(hard) => \A n \in Names \ HardDue' : n \in hard <=> Enforced(n)'
  BY <1>1 DEF HardRight, Enforced
<1>4. ListRight(file'.list) /\ HardRight(file'.hard)
  BY DEF Right
<1>5. ListRight(dnsmasq'.list) /\ HardRight(dnsmasq'.hard)
  BY DEF Right
<1>6. ASSUME NEW p \in Appliers
      PROVE  /\ pc'[p] \in {"hard", "write"} => ListRight(read'[p].list)
             /\ pc'[p] = "write" => HardRight(read'[p].hard)
  BY DEF Right, ListRight, HardRight
<1>7. ListRight(file.list)' /\ HardRight(file.hard)'
  BY <1>2, <1>3, <1>4 DEF ListRight, HardRight
<1>8. ListRight(dnsmasq.list)' /\ HardRight(dnsmasq.hard)'
  BY <1>2, <1>3, <1>5 DEF ListRight, HardRight
<1>9. ASSUME NEW p \in Appliers
      PROVE  /\ pc'[p] \in {"hard", "write"} => ListRight(read[p].list)'
             /\ pc'[p] = "write" => HardRight(read[p].hard)'
  BY <1>2, <1>3, <1>6 DEF ListRight, HardRight
<1> QED BY <1>7, <1>8, <1>9 DEF Right

\* A request changes a list: the names it changes become due, by itself.
LEMMA CommitQuiet ==
    ASSUME IInv, Right, NEW r \in Requests, Commit(r, "lock"),
           \/ \E n \in Names, row \in {"none", "off", "exact", "suffix"} : SetBlocked(n, row)
           \/ \E names \in SUBSET Names : SetListed(names)
    PROVE  Right'
<1>1. /\ r \in Appliers /\ r \in Procs /\ Appliers \subseteq Procs
      /\ pc[r] = "idle" /\ pc' = [pc EXCEPT ![r] = "lock"] /\ now' = now + 1
      /\ stamp' = [stamp EXCEPT ![r] = now + 1]
      /\ file' = file /\ dnsmasq' = dnsmasq /\ read' = read
  BY DEF Commit, Starts, Goto, conf, Appliers, Procs
<1>2. /\ now \in Nat /\ stamp \in [Procs -> Nat] /\ listed \subseteq Names
      /\ blockedAt \in [Names -> Nat] /\ listedAt \in [Names -> Nat]
      /\ blocked \in [Names -> {"none", "off", "exact", "suffix"}]
  BY DEF IInv, TypeOK
<1>3. \A p \in Procs : pc'[p] = IF p = r THEN "lock" ELSE pc[p]
  BY <1>1 DEF IInv, TypeOK
<1>4. \A p \in Procs : stamp'[p] = IF p = r THEN now + 1 ELSE stamp[p]
  BY <1>1, <1>2
<1>5. \A n \in Names : \/ listedAt'[n] = now + 1
                       \/ listedAt'[n] = listedAt[n] /\ (n \in listed' <=> n \in listed)
  BY <1>2 DEF SetBlocked, SetListed
<1>6. \A n \in Names : \/ blockedAt'[n] = now + 1
                       \/ blockedAt'[n] = blockedAt[n] /\ blocked'[n] = blocked[n]
  BY CommitTypes DEF IInv
<1>7. ASSUME NEW n \in Names \ ListDue' PROVE n \notin ListDue /\ (n \in listed' <=> n \in listed)
  <2>1. listedAt'[n] # now + 1
    BY <1>1, <1>2, <1>3, <1>4 DEF ListDue, Busy
  <2>2. listedAt'[n] = listedAt[n] /\ (n \in listed' <=> n \in listed)
    BY <1>5, <2>1
  <2>3. n \notin ListDue
    <3> SUFFICES ASSUME NEW p \in Appliers, pc[p] \in Busy, listedAt[n] <= stamp[p] PROVE FALSE
      BY DEF ListDue
    <3>1. p # r
      BY <1>1 DEF Busy, InApply
    <3> QED BY <1>1, <1>3, <1>4, <2>2, <3>1 DEF ListDue
  <2> QED BY <2>2, <2>3
<1>8. ASSUME NEW n \in Names \ HardDue' PROVE n \notin HardDue /\ (Enforced(n)' <=> Enforced(n))
  <2>1. blockedAt'[n] # now + 1
    BY <1>1, <1>2, <1>3, <1>4 DEF HardDue, Busy
  <2>2. blockedAt'[n] = blockedAt[n] /\ blocked'[n] = blocked[n]
    BY <1>6, <2>1
  <2>3. n \notin HardDue
    <3> SUFFICES ASSUME NEW p \in Appliers, pc[p] \in Busy, blockedAt[n] <= stamp[p] PROVE FALSE
      BY DEF HardDue
    <3>1. p # r
      BY <1>1 DEF Busy, InApply
    <3> QED BY <1>1, <1>3, <1>4, <2>2, <3>1 DEF HardDue
  <2> QED BY <2>2, <2>3 DEF Enforced
<1>9. \A list : ListRight(list) => \A n \in Names \ ListDue' : n \in list <=> n \in listed'
  BY <1>7 DEF ListRight
<1>10. \A hard : HardRight(hard) => \A n \in Names \ HardDue' : n \in hard <=> Enforced(n)'
  BY <1>8 DEF HardRight
<1>11. /\ ListRight(file.list)' /\ HardRight(file.hard)'
       /\ ListRight(dnsmasq.list)' /\ HardRight(dnsmasq.hard)'
  BY <1>1, <1>9, <1>10 DEF Right, ListRight, HardRight
<1>12. ASSUME NEW p \in Appliers
       PROVE  /\ pc'[p] \in {"hard", "write", "reload"} => read'[p].complete
              /\ pc'[p] \in {"hard", "write"} => ListRight(read[p].list)'
              /\ pc'[p] = "write" => HardRight(read[p].hard)'
  <2>1. pc'[p] \in {"hard", "write", "reload"} => pc'[p] = pc[p]
    BY <1>1, <1>3
  <2> QED BY <1>1, <1>9, <1>10, <2>1 DEF Right, ListRight, HardRight
<1> QED BY <1>11, <1>12 DEF Right

\* A successful Apply returns: what it owed is in the file it has read and in dnsmasq, and
\* what it does not have was changed after its reads, so somebody else owes it.
LEMMA ReloadQuiet ==
    ASSUME IInv, Right, NEW p \in Appliers, ReloadDnsmasq(p)
    PROVE  Right'
<1>1. /\ pc[p] = "reload" /\ pc' = [pc EXCEPT ![p] = "idle"] /\ file' = file /\ dnsmasq' = file
      /\ blocked' = blocked /\ listed' = listed /\ blockedAt' = blockedAt
      /\ listedAt' = listedAt /\ stamp' = stamp
  BY DEF ReloadDnsmasq, Return, Goto, lists, rules
<1>2. /\ file = read[p] /\ file.complete /\ Agrees(file) /\ stamp[p] <= file.start
      /\ file.start \in Nat /\ stamp[p] \in Nat /\ lock = p /\ Appliers \subseteq Procs
  BY <1>1, HolderKnows DEF Right, InApply, Procs
<1>3. \A q \in Procs : pc'[q] = IF q = p THEN "idle" ELSE pc[q]
  BY <1>1 DEF IInv, TypeOK
<1>4. \A q \in Appliers : pc'[q] \notin {"hard", "write", "reload"}
  BY <1>2, <1>3 DEF IInv, Mutex, InApply
<1>5. blockedAt \in [Names -> Nat] /\ listedAt \in [Names -> Nat] /\ stamp \in [Procs -> Nat]
  BY DEF IInv, TypeOK
<1>6. ASSUME NEW n \in Names \ ListDue' PROVE n \in file.list <=> n \in listed
  <2>1. CASE listedAt[n] <= file.start
    BY <1>2, <2>1 DEF Agrees, ListAgrees
  <2>2. CASE ~(listedAt[n] <= file.start)
    <3>1. ~(listedAt[n] <= stamp[p])
      BY <1>2, <1>5, <2>2
    <3>2. n \notin ListDue
      BY <1>1, <1>2, <1>3, <3>1 DEF ListDue
    <3> QED BY <3>2 DEF Right, ListRight
  <2> QED BY <2>1, <2>2
<1>7. ASSUME NEW n \in Names \ HardDue' PROVE n \in file.hard <=> Enforced(n)
  <2>1. CASE blockedAt[n] <= file.start
    BY <1>2, <2>1 DEF Agrees, HardAgrees
  <2>2. CASE ~(blockedAt[n] <= file.start)
    <3>1. ~(blockedAt[n] <= stamp[p])
      BY <1>2, <1>5, <2>2
    <3>2. n \notin HardDue
      BY <1>1, <1>2, <1>3, <3>1 DEF HardDue
    <3> QED BY <3>2 DEF Right, HardRight
  <2> QED BY <2>1, <2>2
<1>8. /\ ListRight(file.list)' /\ HardRight(file.hard)'
      /\ ListRight(dnsmasq.list)' /\ HardRight(dnsmasq.hard)'
  BY <1>1, <1>6, <1>7 DEF ListRight, HardRight, Enforced
<1> QED BY <1>4, <1>8 DEF Right

\* After a crash start-up is to apply everything there is.
LEMMA CrashQuiet == ASSUME IInv, Crash PROVE Right'
<1>1. Startup \in Appliers /\ Startup \in Procs /\ Appliers \subseteq Procs
  BY DEF Appliers, Procs
<1>2. /\ stamp \in [Procs -> Nat]
      /\ \A n \in Names : listedAt[n] <= now /\ blockedAt[n] <= now
  BY DEF IInv, TypeOK, Order
<1>3. /\ pc' = [p \in Procs |-> IF p = Startup THEN "lock" ELSE "idle"]
      /\ stamp' = [stamp EXCEPT ![Startup] = now]
      /\ listedAt' = listedAt /\ blockedAt' = blockedAt
  BY DEF Crash
<1>4. pc'[Startup] = "lock" /\ stamp'[Startup] = now
      /\ \A p \in Appliers : pc'[p] \notin {"hard", "write", "reload"}
  BY <1>1, <1>2, <1>3
<1>5. ListDue' = Names /\ HardDue' = Names
  BY <1>1, <1>2, <1>3, <1>4 DEF ListDue, HardDue, Busy
<1> QED BY <1>4, <1>5 DEF Right, ListRight, HardRight

\* The steps outside DNSService.Apply, and those inside it that do not return.
LEMMA OthersQuiet ==
    ASSUME IInv, Right,
           \/ \E r \in Requests : AllowRequest(r) \/ SettingsApply(r)
           \/ \E n \in Names : RefreshAll(n) \/ ClientQuery(n)
           \/ \E p \in Procs : Lookup(p) \/ StoreResolved(p) \/ LookupFails(p)
           \/ \E r \in Requests : InsertAllowed(r) \/ FirewallApply(r)
           \/ FirewallReload \/ UNCHANGED vars
    PROVE  Right'
<1>1. pc \in [Procs -> {"idle", "insert", "lookup", "zero", "store", "firewall",
                        "lock", "list", "hard", "write", "reload"}]
  BY DEF IInv, TypeOK
<1>2. /\ blocked' = blocked /\ listed' = listed /\ blockedAt' = blockedAt
      /\ listedAt' = listedAt /\ stamp' = stamp /\ file' = file /\ read' = read
      /\ dnsmasq' \in {dnsmasq, file}
  BY DEF AllowRequest, CheckBlocked, CheckCutShort, UpdateAllowed, DeleteAllowed, SettingsApply,
         RefreshAll, ClientQuery, Lookup, StoreResolved, LookupFails, InsertAllowed, FirewallApply,
         FirewallReload, Refill, AllowStep, vars, lists, rules, conf
<1>3. \/ pc' = pc
      \/ \E q \in Procs, l \in {"idle", "insert", "lookup", "zero", "store", "firewall", "lock"} :
            pc[q] \notin Busy /\ pc' = [pc EXCEPT ![q] = l]
  <2> USE DEF Goto, Starts, Busy, InApply
  <2>1. Requests \subseteq Procs /\ Refresher \in Procs
    BY DEF Procs, Appliers
  <2>2. CASE \E r \in Requests : AllowRequest(r)
    BY <2>1, <2>2 DEF AllowRequest, CheckBlocked, CheckCutShort, UpdateAllowed, DeleteAllowed, AllowStep
  <2>3. CASE \E r \in Requests : SettingsApply(r) \/ InsertAllowed(r) \/ FirewallApply(r)
    BY <2>1, <2>3 DEF SettingsApply, InsertAllowed, FirewallApply, AllowStep
  <2>4. CASE \E p \in Procs : Lookup(p) \/ StoreResolved(p) \/ LookupFails(p)
    BY <2>4 DEF Lookup, StoreResolved, LookupFails, AllowStep
  <2>5. CASE \E n \in Names : RefreshAll(n)
    BY <2>1, <2>5 DEF RefreshAll, AllowStep
  <2>6. CASE FirewallReload \/ UNCHANGED vars \/ \E n \in Names : ClientQuery(n)
    BY <2>6 DEF FirewallReload, ClientQuery, vars, control
  <2> QED BY <2>2, <2>3, <2>4, <2>5, <2>6
<1>4. \A q \in Appliers : /\ pc[q] \in Busy => pc'[q] \in Busy
                          /\ pc'[q] \in {"hard", "write", "reload"} => pc'[q] = pc[q]
  BY <1>1, <1>3 DEF Procs, Busy, InApply
<1> QED BY <1>2, <1>4, QuietStep DEF Right

\* The steps of DNSService.Apply that go on: what is read is right, and complete.
LEMMA ApplyQuiet ==
    ASSUME IInv, Right, NEW p \in Appliers,
           Acquire(p) \/ ReadList(p) \/ EnabledDomains(p) \/ WriteBlocklist(p)
    PROVE  Right'
<1>1. /\ p \in Procs /\ Appliers \subseteq Procs /\ read \in [Procs -> Directives]
      /\ NoDirectives \in Directives /\ NoDirectives.complete
      /\ pc \in [Procs -> {"idle", "insert", "lookup", "zero", "store", "firewall",
                           "lock", "list", "hard", "write", "reload"}]
  BY HolderKnows DEF Procs, NoDirectives
<1>2. PICK l \in InApply, d \in Directives :
        /\ pc[p] \in Busy /\ pc' = [pc EXCEPT ![p] = l] /\ read' = [read EXCEPT ![p] = d]
        /\ l \in {"hard", "write", "reload"} => d.complete
        /\ l \in {"hard", "write"} =>
              d.list = listed \/ (pc[p] \in {"hard", "write"} /\ d.list = read[p].list)
        /\ l = "write" => d.hard = {n \in Names : Enforced(n)}
  <2> USE DEF Goto, Busy, InApply
  <2>1. CASE Acquire(p)
    BY <1>1, <2>1 DEF Acquire
  <2>2. CASE ReadList(p)
    <3> DEFINE d == [NoDirectives EXCEPT !.start = now, !.list = listed]
    <3>1. d \in Directives /\ d.complete /\ d.list = listed
      BY HolderKnows DEF NoDirectives, Directives
    <3>2. pc[p] = "list" /\ pc' = [pc EXCEPT ![p] = "hard"] /\ read' = [read EXCEPT ![p] = d]
      BY <2>2 DEF ReadList
    <3>3. "hard" \in InApply /\ pc[p] \in Busy /\ "hard" # "write"
      BY <3>2
    <3> HIDE DEF d, Busy, InApply
    <3> QED BY <3>1, <3>2, <3>3
  <2>3. CASE EnabledDomains(p)
    <3> DEFINE d == [read[p] EXCEPT !.hard = {n \in Names : Enforced(n)}]
    <3>1. pc[p] = "hard" /\ pc' = [pc EXCEPT ![p] = "write"] /\ read' = [read EXCEPT ![p] = d]
      BY <1>1, <2>3 DEF EnabledDomains
    <3>2. /\ d \in Directives /\ d.list = read[p].list /\ d.hard = {n \in Names : Enforced(n)}
          /\ d.complete = read[p].complete
      BY <1>1 DEF Directives
    <3>3. d.complete
      BY <3>1, <3>2 DEF Right
    <3> HIDE DEF d
    <3> QED BY <3>1, <3>2, <3>3
  <2>4. CASE WriteBlocklist(p)
    <3>1. pc[p] = "write" /\ pc' = [pc EXCEPT ![p] = "reload"] /\ read' = [read EXCEPT ![p] = read[p]]
      BY <1>1, <2>4 DEF WriteBlocklist
    <3>2. read[p] \in Directives /\ read[p].complete
      BY <1>1, <3>1 DEF Right
    <3> QED BY <3>1, <3>2
  <2> QED BY <2>1, <2>2, <2>3, <2>4
<1>3. /\ blocked' = blocked /\ listed' = listed /\ blockedAt' = blockedAt
      /\ listedAt' = listedAt /\ stamp' = stamp /\ dnsmasq' = dnsmasq
      /\ file' = file \/ (pc[p] = "write" /\ file' = read[p])
  <2>1. CASE Acquire(p)
    BY <2>1 DEF Acquire, lists, rules, conf
  <2>2. CASE ReadList(p)
    BY <2>2 DEF ReadList, lists, rules, conf
  <2>3. CASE EnabledDomains(p)
    BY <2>3 DEF EnabledDomains, lists, rules, conf
  <2>4. CASE WriteBlocklist(p)
    BY <2>4 DEF WriteBlocklist, lists, rules
  <2> QED BY <2>1, <2>2, <2>3, <2>4
<1>4. \A q \in Procs : /\ pc'[q] = IF q = p THEN l ELSE pc[q]
                       /\ read'[q] = IF q = p THEN d ELSE read[q]
  BY <1>1, <1>2
<1>5. ASSUME NEW q \in Appliers
      PROVE  /\ pc[q] \in Busy => pc'[q] \in Busy
             /\ pc'[q] \in {"hard", "write", "reload"} => read'[q].complete
             /\ pc'[q] \in {"hard", "write"} =>
                   \/ read'[q].list = listed
                   \/ pc[q] \in {"hard", "write"} /\ read'[q].list = read[q].list
             /\ pc'[q] = "write" =>
                   \/ read'[q].hard = {n \in Names : Enforced(n)}
                   \/ pc[q] = "write" /\ read'[q].hard = read[q].hard
  <2>1. CASE q = p
    BY <1>1, <1>2, <1>4, <2>1 DEF Busy
  <2>2. CASE q # p
    BY <1>1, <1>4, <2>2 DEF Right
  <2> QED BY <2>1, <2>2
<1> QED BY <1>3, <1>5, QuietStep

\* Every step keeps it; a failure ends what it says.
LEMMA NextQuiet == IInv /\ QuietInv /\ [Next]_vars => QuietInv'
<1> SUFFICES ASSUME IInv, QuietInv, [Next]_vars, faults' = 0 PROVE Right'
  BY DEF QuietInv
<1>1. faults \in Nat /\ Blockable \subseteq Names /\ Requests \subseteq Procs
      /\ Allowable \subseteq Names /\ listed \subseteq Names
  BY BlockListAssumption DEF IInv, TypeOK, Procs, Appliers
<1>2. ASSUME NEW p \in Appliers, ApplyFails(p) PROVE FALSE
  <2>1. faults' = faults + 1
    BY <1>2 DEF ApplyFails, ReadListFails, ReadListShort, EnabledDomainsFails, WriteFails, ReloadFails, Fault
  <2> QED BY <1>1, <2>1
<1>3. CASE Crash
  BY <1>3, CrashQuiet
<1>4. ASSUME NEW r \in Requests, BlockRequest(r) PROVE faults = 0 /\ Right'
  <2>1. faults = 0 /\ Right
    BY <1>4 DEF QuietInv, BlockRequest, Block, UpdateBlock, Unblock, CreateEntry, DeleteEntry, Commit
  <2>2. PICK n \in Blockable :
          \/ \E match \in {"exact", "suffix"} : Block(r, n, match)
          \/ \E row \in {"off", "exact", "suffix"} : UpdateBlock(r, n, row)
          \/ Unblock(r, n)
          \/ CreateEntry(r, n) \/ DeleteEntry(r, n)
    BY <1>4 DEF BlockRequest
  <2>3. n \in Names /\ listed \cup {n} \in SUBSET Names /\ listed \ {n} \in SUBSET Names
    BY <1>1
  <2>4. /\ Commit(r, "lock")
        /\ \/ \E m \in Names, row \in {"none", "off", "exact", "suffix"} : SetBlocked(m, row)
           \/ \E names \in SUBSET Names : SetListed(names)
    <3>1. CASE CreateEntry(r, n)
      BY <2>3, <3>1 DEF CreateEntry
    <3>2. CASE DeleteEntry(r, n)
      BY <2>3, <3>2 DEF DeleteEntry
    <3> QED BY <2>2, <2>3, <3>1, <3>2 DEF Block, UpdateBlock, Unblock
  <2> QED BY <2>1, <2>4, CommitQuiet
<1>5. ASSUME NEW r \in Requests, NEW names \in SUBSET Blockable, ImportDomains(r, names)
      PROVE  Right'
  <2>1. listed \cup names \in SUBSET Names
    BY <1>1
  <2>2. faults = 0 /\ Commit(r, "lock") /\ SetListed(listed \cup names)
    BY <1>5 DEF ImportDomains, Commit
  <2> QED BY <2>1, <2>2, CommitQuiet DEF QuietInv
<1>6. CASE \/ \E r \in Requests : AllowRequest(r) \/ SettingsApply(r)
           \/ \E n \in Names : RefreshAll(n) \/ ClientQuery(n)
           \/ FirewallReload \/ UNCHANGED vars
  <2>1. faults' \in {faults, faults + 1}
    BY <1>6 DEF AllowRequest, CheckBlocked, CheckCutShort, UpdateAllowed, DeleteAllowed, SettingsApply,
                RefreshAll, ClientQuery, FirewallReload, AllowStep, vars
  <2>2. faults = 0
    BY <1>1, <2>1
  <2> QED BY <1>6, <2>2, OthersQuiet DEF QuietInv
<1>7. ASSUME NEW p \in Procs, Continue(p) PROVE Right'
  <2>1. CASE Lookup(p) \/ StoreResolved(p) \/ LookupFails(p)
    <3>1. faults' = faults
      BY <2>1 DEF Lookup, StoreResolved, LookupFails, AllowStep
    <3> QED BY <2>1, <3>1, OthersQuiet DEF QuietInv
  <2>2. CASE p \in Requests /\ (InsertAllowed(p) \/ FirewallApply(p))
    <3>1. faults' = faults
      BY <2>2 DEF InsertAllowed, FirewallApply, AllowStep
    <3> QED BY <2>2, <3>1, OthersQuiet DEF QuietInv
  <2>3. CASE p \in Appliers /\ (Acquire(p) \/ ReadList(p) \/ EnabledDomains(p) \/ WriteBlocklist(p))
    <3>1. faults' = faults
      BY <2>3 DEF Acquire, ReadList, EnabledDomains, WriteBlocklist
    <3> QED BY <2>3, <3>1, ApplyQuiet DEF QuietInv
  <2>4. CASE p \in Appliers /\ ReloadDnsmasq(p)
    <3>1. faults' = faults
      BY <2>4 DEF ReloadDnsmasq
    <3> QED BY <2>4, <3>1, ReloadQuiet DEF QuietInv
  <2> QED BY <1>7, <2>1, <2>2, <2>3, <2>4 DEF Continue
<1> QED BY <1>2, <1>3, <1>4, <1>5, <1>6, <1>7 DEF Next

\* While nothing has failed, whatever is not as the lists say somebody has still to apply:
\* in every reachable state, for all constants.
THEOREM SinkQuietInvariance == Spec => []QuietInv
<1> QED BY InitQuiet, NextQuiet, BlockListInvariance, PTL DEF Spec

\* So when nobody is in Apply or on the way to it, dnsmasq runs the lists: no change is
\* forgotten or undone by an Apply that read earlier, nor by a crash, at any step.
THEOREM NoBlockIsForgotten == Spec => []QuietIsApplied
<1>1. QuietInv /\ TypeOK => QuietIsApplied
  <2> SUFFICES ASSUME QuietInv, TypeOK, faults = 0, \A p \in Appliers : pc[p] \notin Busy
               PROVE  UpToDate
    BY DEF QuietIsApplied, Busy, InApply
  <2>1. ListDue = {} /\ HardDue = {}
    BY DEF ListDue, HardDue
  <2>2. \A n \in Names : (n \in dnsmasq.list <=> n \in listed) /\ (n \in dnsmasq.hard <=> Enforced(n))
    BY <2>1 DEF QuietInv, Right, ListRight, HardRight
  <2>3. dnsmasq.list \subseteq Names /\ dnsmasq.hard \subseteq Names /\ listed \subseteq Names
    BY DEF TypeOK, Directives
  <2>4. dnsmasq.list = listed
    BY <2>2, <2>3
  <2>5. dnsmasq.hard = {n \in Names : Enforced(n)}
    BY <2>2, <2>3
  <2> QED BY <2>4, <2>5 DEF UpToDate
<1> QED BY <1>1, SinkQuietInvariance, TypeCorrect, PTL
=============================================================================
