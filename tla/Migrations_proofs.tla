-------------------------- MODULE Migrations_proofs --------------------------
(***************************************************************************)
(* The migrations for any users' tables, any number of requests, failures  *)
(* and interrupted boots, and any sequence of releases.                    *)
(***************************************************************************)
EXTENDS Migrations, TLAPS

\* The objects after the first k migrations.
ObjectsAt(k) ==
    (IF k \in {4, 5} THEN {"allowed_domains"} ELSE {})
        \cup (IF k >= 6 THEN {"policies"} ELSE {})
        \cup (IF k >= 7 THEN {"columns"} ELSE {})

\* No row refers to a policy that is not there.
Referenced ==
    /\ \A r \in allow : Exists(r[1])
    /\ \A m \in Macs : assigns[m] # Nobody => Exists(assigns[m])

\* The tables as the first k migrations, and users, leave them.
TablesAt(k) ==
    /\ objects = ObjectsAt(k)
    /\ k >= 6 => Exists(Default)
    /\ k >= 8 => \A m \in EncodedMacs : assigns[m] = Nobody
    /\ Referenced

\* What is recorded is a prefix of the migrations; a boot starts at its end or before it
\* and, before it, can only be refused.
At(k) ==
    /\ k <= release
    /\ schema = 1 .. k
    /\ TablesAt(k)
    /\ pc = "migrate" => at <= k
    /\ pc = "serving" => k = release

IInv == TypeOK /\ \E k \in 0 .. Last : At(k)

\* The invariant holds on an empty database.
LEMMA InitInvariant == Init => IInv
<1> SUFFICES ASSUME Init PROVE IInv
  OBVIOUS
<1> USE MigrationsAssumption DEF Init
<1>1. TypeOK
  BY DEF TypeOK, Last
<1>2. At(0)
  BY DEF At, TablesAt, ObjectsAt, Referenced, Exists, Last
<1> QED BY <1>1, <1>2 DEF IInv, Last

\* A policy's row stays when seeds are added.
LEMMA SeedKeeps ==
    ASSUME NEW t \in [Names -> Modes \cup {"none"}], NEW p \in Names, NEW mode \in Modes
    PROVE  /\ Seed(t, p, mode) \in [Names -> Modes \cup {"none"}]
           /\ Seed(t, p, mode)[p] # "none"
           /\ \A q \in Names : t[q] # "none" => Seed(t, p, mode)[q] = t[q]
BY DEF Seed, Modes

\* Each migration keeps the types, the policies that are there and the references, and
\* takes the tables from one prefix to the next.
LEMMA RunMigrates ==
    ASSUME TypeOK, NEW k \in 0 .. Last, k < Last, TablesAt(k), Run(k + 1)
    PROVE  /\ objects' \subseteq {"allowed_domains", "policies", "columns"}
           /\ policies' \in [Names -> Modes \cup {"none"}]
           /\ allow' \subseteq Names \X Domains
           /\ assigns' \in [Macs -> Names \cup {Nobody}]
           /\ \A p \in Names : Exists(p) => policies'[p] = policies[p]
           /\ TablesAt(k + 1)'
<1> DEFINE i == k + 1
<1> USE MigrationsAssumption
<1>1. /\ objects \subseteq {"allowed_domains", "policies", "columns"}
      /\ policies \in [Names -> Modes \cup {"none"}]
      /\ allow \subseteq Names \X Domains
      /\ assigns \in [Macs -> Names \cup {Nobody}]
  BY DEF TypeOK
<1>2. /\ objects = ObjectsAt(k) /\ (k >= 6 => Exists(Default)) /\ Referenced
      /\ k >= 8 => \A m \in EncodedMacs : assigns[m] = Nobody
  BY DEF TablesAt
<1>3. i \in 1 .. 10 /\ k = i - 1
  BY DEF Last
<1>4. Default \in Names /\ Tesla \in Names /\ Open \in Names /\ Connman \in Domains /\ Preset \in Domains
      /\ "strict" \in Modes /\ "open" \in Modes
  BY DEF Names, Domains, Modes
<1>5. CASE i = 4
  <2>1. CreateAllowedDomains
    BY <1>5 DEF Run
  <2>2. policies' = policies /\ allow' = allow /\ assigns' = assigns
        /\ objects' = objects \cup {"allowed_domains"}
    BY <2>1 DEF CreateAllowedDomains
  <2>3. k = 3 /\ ObjectsAt(k) = {} /\ ObjectsAt(k + 1) = {"allowed_domains"}
    BY <1>3, <1>5 DEF ObjectsAt
  <2> QED BY <1>1, <1>2, <2>2, <2>3 DEF TablesAt, Referenced, Exists
<1>6. CASE i = 6
  <2>1. PerPolicyTables
    BY <1>6 DEF Run
  <2>2. /\ policies' = Seed(Seed(policies, Default, "strict"), Tesla, "strict")
        /\ allow' = SeedTesla(policies', Connman) /\ assigns' = assigns
        /\ objects' = (objects \ {"allowed_domains"}) \cup {"policies"}
    BY <2>1 DEF PerPolicyTables
  <2>3. k = 5 /\ ObjectsAt(k) = {"allowed_domains"} /\ ObjectsAt(k + 1) = {"policies"}
    BY <1>3, <1>6 DEF ObjectsAt
  <2>4. /\ policies' \in [Names -> Modes \cup {"none"}]
        /\ policies'[Default] # "none" /\ policies'[Tesla] # "none"
        /\ \A q \in Names : policies[q] # "none" => policies'[q] = policies[q]
    <3>1. Seed(policies, Default, "strict") \in [Names -> Modes \cup {"none"}]
          /\ Seed(policies, Default, "strict")[Default] # "none"
          /\ \A q \in Names : policies[q] # "none" => Seed(policies, Default, "strict")[q] = policies[q]
      BY <1>1, <1>4, SeedKeeps
    <3> QED BY <1>4, <2>2, <3>1, SeedKeeps
  <2>5. allow' = allow \cup {<<Tesla, Connman>>}
    BY <2>2, <2>4 DEF SeedTesla
  <2>6. Referenced'
    BY <1>1, <1>2, <2>2, <2>4, <2>5 DEF Referenced, Exists
  <2>7. allow' \subseteq Names \X Domains /\ objects' = ObjectsAt(k + 1)
    BY <1>1, <1>2, <1>4, <2>2, <2>3, <2>5
  <2> QED BY <1>1, <2>2, <2>3, <2>4, <2>6, <2>7 DEF TablesAt, Exists, ObjectsAt
<1>7. CASE i = 7
  <2>1. TrafficColumns
    BY <1>7 DEF Run
  <2>2. policies' = policies /\ allow' = allow /\ assigns' = assigns
        /\ objects' = objects \cup {"columns"}
    BY <2>1 DEF TrafficColumns
  <2>3. k = 6 /\ ObjectsAt(k) = {"policies"} /\ ObjectsAt(k + 1) = {"policies", "columns"}
    BY <1>3, <1>7 DEF ObjectsAt
  <2> QED BY <1>1, <1>2, <2>2, <2>3 DEF TablesAt, Referenced, Exists
<1>8. CASE i = 8
  <2>1. WipeEncodedMacs
    BY <1>8 DEF Run
  <2>2. policies' = policies /\ allow' = allow /\ objects' = objects
        /\ assigns' = [m \in Macs |-> IF m \in EncodedMacs THEN Nobody ELSE assigns[m]]
    BY <2>1 DEF WipeEncodedMacs
  <2>3. k = 7 /\ ObjectsAt(k + 1) = ObjectsAt(k)
    BY <1>3, <1>8 DEF ObjectsAt
  <2> QED BY <1>1, <1>2, <2>2, <2>3 DEF TablesAt, Referenced, Exists
<1>9. CASE i = 9
  <2>1. RebuildPolicies
    BY <1>9 DEF Run
  <2>2. policies' = Seed(policies, Open, "open") /\ allow' = {} /\ objects' = objects
        /\ assigns' = [m \in Macs |-> Nobody]
    BY <2>1 DEF RebuildPolicies
  <2>3. k = 8 /\ ObjectsAt(k + 1) = ObjectsAt(k)
    BY <1>3, <1>9 DEF ObjectsAt
  <2>4. /\ policies' \in [Names -> Modes \cup {"none"}]
        /\ \A q \in Names : policies[q] # "none" => policies'[q] = policies[q]
    BY <1>1, <1>4, <2>2, SeedKeeps
  <2> QED BY <1>1, <1>2, <1>4, <2>2, <2>3, <2>4 DEF TablesAt, Referenced, Exists
<1>10. CASE i = 10
  <2>1. ExpandTesla
    BY <1>10 DEF Run
  <2>2. policies' = policies /\ assigns' = assigns /\ objects' = objects
        /\ allow' = allow \cup (IF policies[Tesla] = "none" THEN {} ELSE {<<Tesla, Preset>>})
    BY <2>1 DEF ExpandTesla, SeedTesla
  <2>3. k = 9 /\ ObjectsAt(k + 1) = ObjectsAt(k)
    BY <1>3, <1>10 DEF ObjectsAt
  <2>4. Referenced' /\ allow' \subseteq Names \X Domains
    BY <1>1, <1>2, <1>4, <2>2 DEF Referenced, Exists
  <2> QED BY <1>1, <1>2, <2>2, <2>3, <2>4 DEF TablesAt, Exists
<1>11. CASE i \in {1, 2, 3, 5}
  <2>1. policies' = policies /\ allow' = allow /\ assigns' = assigns /\ objects' = objects
    BY <1>11 DEF Run, tables
  <2>2. k \in {0, 1, 2, 4} /\ ObjectsAt(k + 1) = ObjectsAt(k)
    BY <1>3, <1>11 DEF ObjectsAt
  <2> QED BY <1>1, <1>2, <2>1, <2>2 DEF TablesAt, Referenced, Exists
<1> QED BY <1>3, <1>5, <1>6, <1>7, <1>8, <1>9, <1>10, <1>11

-----------------------------------------------------------------------------
(* The steps of a boot *)

\* The version that is read is the length of the prefix.
LEMMA MaxOfPrefix == \A k \in Nat : k > 0 => Max(1 .. k) = k
BY DEF Max

\* An iteration that commits takes the tables of one prefix to those of the next.
LEMMA IterationMigrates ==
    ASSUME TypeOK, NEW k \in 0 .. Last, At(k), MigrateNext
    PROVE  /\ at = k /\ k < Last /\ Run(k + 1)
           /\ schema' = 1 .. k + 1 /\ schema' # schema /\ k + 1 \in 0 .. Last
<1>1. /\ pc = "migrate" /\ at < release /\ at + 1 \notin schema /\ Run(at + 1)
      /\ schema' = schema \cup {at + 1}
  BY DEF MigrateNext, Pending, Version
<1>2. schema = 1 .. k /\ at <= k /\ at \in 0 .. Last /\ release \in 1 .. Last
  BY <1>1 DEF At, TypeOK
<1>3. at = k /\ k < Last
  BY <1>1, <1>2 DEF Last
<1> QED BY <1>1, <1>2, <1>3 DEF Last

\* Each step of a boot keeps the invariant, a failing one too.
LEMMA BootInvariant ==
    ASSUME IInv, Boot \/ ReadVersionFails \/ TransactionFails
    PROVE  IInv'
<1>1. TypeOK
  BY DEF IInv
<1>2. PICK k \in 0 .. Last : At(k)
  BY DEF IInv
<1>3. /\ release \in 1 .. Last /\ at \in 0 .. Last /\ k <= release /\ schema = 1 .. k
      /\ TablesAt(k) /\ faults \in 0 .. MaxFaults /\ MaxFaults \in Nat
  BY <1>1, <1>2, MigrationsAssumption DEF TypeOK, At
<1>4. ASSUME NEW v \in 0 .. k, Begin(v), faults' \in 0 .. MaxFaults PROVE IInv'
  <2>1. /\ release' = release /\ schema' = schema /\ changes' = changes /\ stops' = stops
        /\ objects' = objects /\ policies' = policies /\ allow' = allow /\ assigns' = assigns
        /\ pc' = "migrate" /\ at' = v
    BY <1>4 DEF Begin, tables
  <2>2. v \in 0 .. Last
    BY <1>3 DEF Last
  <2>3. TypeOK'
    BY <1>1, <1>4, <2>1, <2>2 DEF TypeOK
  <2>4. At(k)'
    BY <1>3, <2>1 DEF At, TablesAt, Referenced, Exists
  <2> QED BY <2>3, <2>4 DEF IInv
<1>5. CASE ReadVersion
  <2>1. (IF schema = {} THEN 0 ELSE Max(schema)) \in 0 .. k
    <3>1. CASE k = 0
      BY <1>3, <3>1
    <3>2. CASE k > 0
      <4>1. k \in Nat /\ k \in 1 .. k /\ schema = 1 .. k
        BY <1>3, <3>2 DEF Last
      <4>2. Max(1 .. k) = k
        BY <3>2, <4>1, MaxOfPrefix
      <4> QED BY <3>2, <4>1, <4>2
    <3> QED BY <3>1, <3>2
  <2> QED BY <1>3, <1>4, <1>5, <2>1 DEF ReadVersion
<1>6. CASE ReadVersionFails
  <2>1. Begin(0) /\ faults' \in 0 .. MaxFaults /\ 0 \in 0 .. k
    BY <1>3, <1>6 DEF ReadVersionFails
  <2> QED BY <1>4, <2>1
<1>7. CASE MigrateNext
  <2>1. /\ at = k /\ k < Last /\ Run(k + 1) /\ schema' = 1 .. k + 1 /\ k + 1 \in 0 .. Last
    BY <1>1, <1>2, <1>7, IterationMigrates
  <2>2. /\ release' = release /\ pc' = pc /\ changes' = changes /\ faults' = faults
        /\ stops' = stops /\ pc = "migrate" /\ at' = at + 1 /\ at < release
    BY <1>7 DEF MigrateNext, Pending
  <2>3. /\ objects' \subseteq {"allowed_domains", "policies", "columns"}
        /\ policies' \in [Names -> Modes \cup {"none"}]
        /\ allow' \subseteq Names \X Domains
        /\ assigns' \in [Macs -> Names \cup {Nobody}]
        /\ TablesAt(k + 1)'
    BY <1>1, <1>3, <2>1, RunMigrates
  <2>4. TypeOK'
    <3>1. schema' \subseteq 1 .. Last /\ at' \in 0 .. Last
      BY <1>3, <2>1, <2>2 DEF Last
    <3> QED BY <1>1, <2>2, <2>3, <3>1 DEF TypeOK
  <2>5. At(k + 1)'
    BY <1>3, <2>1, <2>2, <2>3 DEF At
  <2> QED BY <2>1, <2>4, <2>5 DEF IInv
<1>8. CASE MigrationRefused \/ TransactionFails
  <2>1. GiveUp /\ faults' \in 0 .. MaxFaults
    BY <1>3, <1>8 DEF MigrationRefused, TransactionFails
  <2>2. /\ release' = release /\ schema' = schema /\ changes' = changes /\ stops' = stops
        /\ objects' = objects /\ policies' = policies /\ allow' = allow /\ assigns' = assigns
        /\ pc' = "down" /\ at' = 0
    BY <2>1 DEF GiveUp, tables
  <2>3. TypeOK'
    BY <1>1, <2>1, <2>2 DEF TypeOK, Last
  <2>4. At(k)'
    BY <1>3, <2>2 DEF At, TablesAt, Referenced, Exists
  <2> QED BY <2>3, <2>4 DEF IInv
<1>9. CASE Serve
  <2>1. /\ release' = release /\ schema' = schema /\ changes' = changes /\ stops' = stops
        /\ objects' = objects /\ policies' = policies /\ allow' = allow /\ assigns' = assigns
        /\ pc = "migrate" /\ pc' = "serving" /\ at' = at /\ faults' = faults /\ at >= release
    BY <1>9 DEF Serve, tables
  <2>2. k = release
    BY <1>2, <1>3, <2>1 DEF At, Last
  <2>3. TypeOK'
    BY <1>1, <2>1 DEF TypeOK
  <2>4. At(k)'
    BY <1>3, <2>1, <2>2 DEF At, TablesAt, Referenced, Exists
  <2> QED BY <2>3, <2>4 DEF IInv
<1> QED BY <1>5, <1>6, <1>7, <1>8, <1>9 DEF Boot

-----------------------------------------------------------------------------
(* Requests, stops and upgrades *)

\* Users' changes leave the schema and the references as they are.
LEMMA RequestInvariant ==
    ASSUME IInv,
           \E p \in Names :
              \/ \E mode \in Modes : CreatePolicy(p, mode)
              \/ DeletePolicy(p)
              \/ \E d \in Domains : CreateDomain(p, d) \/ DeleteDomain(p, d)
              \/ \E m \in Macs : AssignDevice(m, p)
    PROVE  IInv'
<1>1. TypeOK
  BY DEF IInv
<1>2. PICK k \in 0 .. Last : At(k)
  BY DEF IInv
<1>3. PICK p \in Names :
        \/ \E mode \in Modes : CreatePolicy(p, mode)
        \/ DeletePolicy(p)
        \/ \E d \in Domains : CreateDomain(p, d) \/ DeleteDomain(p, d)
        \/ \E m \in Macs : AssignDevice(m, p)
  OBVIOUS
<1>4. Request
  BY <1>3 DEF CreatePolicy, DeletePolicy, CreateDomain, DeleteDomain, AssignDevice
<1>5. /\ pc = "serving" /\ release' = release /\ schema' = schema /\ objects' = objects
      /\ pc' = pc /\ at' = at /\ faults' = faults /\ stops' = stops
      /\ changes' = changes + 1 /\ changes < MaxChanges
  BY <1>4 DEF Request
<1>6. /\ policies \in [Names -> Modes \cup {"none"}] /\ allow \subseteq Names \X Domains
      /\ assigns \in [Macs -> Names \cup {Nobody}] /\ Referenced
      /\ k = release /\ k \in 1 .. Last /\ TablesAt(k) /\ Default \in Names /\ Nobody \notin Names
  BY <1>1, <1>2, <1>5, MigrationsAssumption DEF TypeOK, At, TablesAt, Names
<1>7. /\ policies' \in [Names -> Modes \cup {"none"}] /\ allow' \subseteq Names \X Domains
      /\ assigns' \in [Macs -> Names \cup {Nobody}] /\ Referenced'
      /\ Exists(Default) => Exists(Default)'
      /\ k >= 8 => \A m \in EncodedMacs : assigns[m] = Nobody => assigns'[m] = Nobody
  <2>1. ASSUME NEW mode \in Modes, CreatePolicy(p, mode)
        PROVE  /\ policies' \in [Names -> Modes \cup {"none"}] /\ allow' \subseteq Names \X Domains
               /\ assigns' \in [Macs -> Names \cup {Nobody}] /\ Referenced'
               /\ Exists(Default) => Exists(Default)'
               /\ k >= 8 => \A m \in EncodedMacs : assigns[m] = Nobody => assigns'[m] = Nobody
    <3>1. policies' = [policies EXCEPT ![p] = mode] /\ allow' = allow /\ assigns' = assigns
      BY <2>1 DEF CreatePolicy
    <3>2. mode # "none"
      BY DEF Modes
    <3> QED BY <1>6, <3>1, <3>2 DEF Referenced, Exists
  <2>2. ASSUME DeletePolicy(p)
        PROVE  /\ policies' \in [Names -> Modes \cup {"none"}] /\ allow' \subseteq Names \X Domains
               /\ assigns' \in [Macs -> Names \cup {Nobody}] /\ Referenced'
               /\ Exists(Default) => Exists(Default)'
               /\ k >= 8 => \A m \in EncodedMacs : assigns[m] = Nobody => assigns'[m] = Nobody
    <3>1. /\ policies' = [policies EXCEPT ![p] = "none"] /\ p # Default
          /\ allow' = {r \in allow : r[1] # p}
          /\ assigns' = [m \in Macs |-> IF assigns[m] = p THEN Nobody ELSE assigns[m]]
      BY <2>2 DEF DeletePolicy, Without
    <3>2. \A q \in Names : q # p => policies'[q] = policies[q]
      BY <1>6, <3>1
    <3>3. policies' \in [Names -> Modes \cup {"none"}] /\ assigns' \in [Macs -> Names \cup {Nobody}]
          /\ allow' \subseteq Names \X Domains
      BY <1>6, <3>1
    <3>4. Referenced'
      <4>1. \A r \in allow' : r[1] \in Names /\ r[1] # p /\ Exists(r[1])
        BY <1>6, <3>1 DEF Referenced
      <4>2. \A m \in Macs : assigns'[m] # Nobody =>
              assigns'[m] = assigns[m] /\ assigns[m] \in Names /\ assigns[m] # p /\ Exists(assigns[m])
        BY <1>6, <3>1 DEF Referenced
      <4> QED BY <3>2, <4>1, <4>2 DEF Referenced, Exists
    <3>5. Exists(Default) => Exists(Default)'
      BY <1>6, <3>1, <3>2 DEF Exists
    <3>6. \A m \in EncodedMacs : assigns[m] = Nobody => assigns'[m] = Nobody
      BY <1>6, <3>1, MigrationsAssumption
    <3> QED BY <3>3, <3>4, <3>5, <3>6
  <2>3. ASSUME NEW d \in Domains, CreateDomain(p, d) \/ DeleteDomain(p, d)
        PROVE  /\ policies' \in [Names -> Modes \cup {"none"}] /\ allow' \subseteq Names \X Domains
               /\ assigns' \in [Macs -> Names \cup {Nobody}] /\ Referenced'
               /\ Exists(Default) => Exists(Default)'
               /\ k >= 8 => \A m \in EncodedMacs : assigns[m] = Nobody => assigns'[m] = Nobody
    <3>1. /\ policies' = policies /\ assigns' = assigns
          /\ \/ allow' = allow \cup {<<p, d>>} /\ Exists(p)
             \/ allow' = allow \ {<<p, d>>}
      BY <2>3 DEF CreateDomain, DeleteDomain
    <3> QED BY <1>6, <3>1 DEF Referenced, Exists
  <2>4. ASSUME NEW m \in Macs, AssignDevice(m, p)
        PROVE  /\ policies' \in [Names -> Modes \cup {"none"}] /\ allow' \subseteq Names \X Domains
               /\ assigns' \in [Macs -> Names \cup {Nobody}] /\ Referenced'
               /\ Exists(Default) => Exists(Default)'
               /\ k >= 8 => \A n \in EncodedMacs : assigns[n] = Nobody => assigns'[n] = Nobody
    <3>1. /\ policies' = policies /\ allow' = allow /\ Exists(p)
          /\ assigns' = [assigns EXCEPT ![m] = p] /\ (m \in EncodedMacs => release < 8)
      BY <2>4 DEF AssignDevice
    <3> QED BY <1>6, <3>1 DEF Referenced, Exists, Last
  <2> QED BY <1>3, <2>1, <2>2, <2>3, <2>4
<1>8. TypeOK'
  <2>1. changes' \in 0 .. MaxChanges
    BY <1>1, <1>5, MigrationsAssumption DEF TypeOK
  <2> QED BY <1>1, <1>5, <1>7, <2>1 DEF TypeOK
<1>9. At(k)'
  <2>1. TablesAt(k)'
    BY <1>5, <1>6, <1>7 DEF TablesAt
  <2> QED BY <1>2, <1>5, <1>6, <2>1 DEF At
<1> QED BY <1>8, <1>9 DEF IInv

\* Every step keeps the invariant.
LEMMA NextInvariant == IInv /\ [Next]_vars => IInv'
<1> SUFFICES ASSUME IInv, [Next]_vars PROVE IInv'
  OBVIOUS
<1>1. TypeOK
  BY DEF IInv
<1>2. PICK k \in 0 .. Last : At(k)
  BY DEF IInv
<1>3. CASE Stop
  <2>1. /\ release' = release /\ schema' = schema /\ changes' = changes /\ faults' = faults
        /\ objects' = objects /\ policies' = policies /\ allow' = allow /\ assigns' = assigns
        /\ pc' = "down" /\ at' = 0 /\ stops' = stops + 1 /\ stops < MaxStops
    BY <1>3 DEF Stop, tables
  <2>2. stops' \in 0 .. MaxStops
    BY <1>1, <2>1, MigrationsAssumption DEF TypeOK
  <2>3. TypeOK'
    BY <1>1, <2>1, <2>2 DEF TypeOK, Last
  <2>4. At(k)'
    BY <1>2, <2>1 DEF At, TablesAt, Referenced, Exists
  <2> QED BY <2>3, <2>4 DEF IInv
<1>4. CASE Upgrade
  <2>1. /\ schema' = schema /\ changes' = changes /\ faults' = faults /\ stops' = stops
        /\ objects' = objects /\ policies' = policies /\ allow' = allow /\ assigns' = assigns
        /\ pc' = pc /\ at' = at /\ pc = "down" /\ release' \in release + 1 .. Last
    BY <1>4 DEF Upgrade, tables
  <2>2. release' \in 1 .. Last /\ release' >= k
    BY <1>1, <1>2, <2>1 DEF TypeOK, At, Last
  <2>3. TypeOK'
    BY <1>1, <2>1, <2>2 DEF TypeOK
  <2>4. At(k)'
    BY <1>2, <2>1, <2>2 DEF At, TablesAt, Referenced, Exists
  <2> QED BY <2>3, <2>4 DEF IInv
<1>5. CASE UNCHANGED vars
  BY <1>5 DEF IInv, TypeOK, At, TablesAt, Referenced, Exists, vars, tables
<1> QED BY <1>3, <1>4, <1>5, BootInvariant, RequestInvariant DEF Next

-----------------------------------------------------------------------------

\* The inductive invariant holds in every reachable state of Spec, for all constants.
THEOREM MigrationsInvariance == Spec => []IInv
<1> QED BY InitInvariant, NextInvariant, PTL DEF Spec

\* The tables and the loop keep their types.
THEOREM TypeCorrect == Spec => []TypeOK
<1>1. IInv => TypeOK
  BY DEF IInv
<1> QED BY <1>1, MigrationsInvariance, PTL

\* A daemon that serves has its release's migrations and no other, a Default policy and
\* no dangling row, however boots were interrupted and whatever users did before.
THEOREM ServingIsComplete == Spec => []ServesComplete
<1>1. IInv => ServesComplete
  <2> SUFFICES ASSUME IInv, pc = "serving" PROVE ServesComplete
    BY DEF ServesComplete
  <2>1. PICK k \in 0 .. Last : At(k)
    BY DEF IInv
  <2>2. /\ k = release /\ k \in 1 .. Last /\ schema = 1 .. release /\ objects = ObjectsAt(k)
        /\ (k >= 6 => Exists(Default)) /\ Referenced
        /\ k >= 8 => \A m \in EncodedMacs : assigns[m] = Nobody
    BY <2>1 DEF IInv, TypeOK, At, TablesAt
  <2>3. ("policies" \in ObjectsAt(k) <=> k >= 6) /\ ("allowed_domains" \in ObjectsAt(k) <=> k \in {4, 5})
    BY <2>2 DEF ObjectsAt
  <2> QED BY <2>2, <2>3 DEF ServesComplete, Referenced
<1> QED BY <1>1, MigrationsInvariance, PTL

\* A migration that is recorded never touches the tables again.
THEOREM NothingReplayed == Spec => NeverReplayed
<1>1. IInv /\ [Next]_vars => [pc = "migrate" /\ schema' = schema => UNCHANGED tables]_vars
  <2> SUFFICES ASSUME IInv, Next, pc = "migrate", schema' = schema PROVE UNCHANGED tables
    OBVIOUS
  <2>1. ~MigrateNext
    BY IterationMigrates DEF IInv
  <2> QED BY <2>1 DEF Next, Boot, ReadVersion, Begin, MigrationRefused, GiveUp, Serve,
            ReadVersionFails, TransactionFails, CreatePolicy, DeletePolicy, CreateDomain,
            DeleteDomain, AssignDevice, Request, Stop, Upgrade
<1> QED BY <1>1, MigrationsInvariance, PTL DEF Spec, NeverReplayed

\* No boot loses a policy or changes its mode.
THEOREM BootsKeepPolicies == Spec => PoliciesSurvive
<1>1. IInv /\ [Next]_vars =>
        [pc = "migrate" => \A p \in Names : Exists(p) => policies'[p] = policies[p]]_vars
  <2> SUFFICES ASSUME IInv, Next, pc = "migrate"
               PROVE  \A p \in Names : Exists(p) => policies'[p] = policies[p]
    OBVIOUS
  <2>1. CASE MigrateNext
    <3>1. PICK k \in 0 .. Last : At(k)
      BY DEF IInv
    <3>2. TypeOK /\ TablesAt(k) /\ k < Last /\ Run(k + 1)
      BY <2>1, <3>1, IterationMigrates DEF IInv, At
    <3> QED BY <3>2, RunMigrates
  <2>2. CASE UNCHANGED tables
    BY <2>2 DEF tables
  <2> QED BY <2>1, <2>2 DEF Next, Boot, ReadVersion, Begin, MigrationRefused, GiveUp, Serve,
            ReadVersionFails, TransactionFails, CreatePolicy, DeletePolicy, CreateDomain,
            DeleteDomain, AssignDevice, Request, Stop, Upgrade
<1> QED BY <1>1, MigrationsInvariance, PTL DEF Spec, PoliciesSurvive
=============================================================================
