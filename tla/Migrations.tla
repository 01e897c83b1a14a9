----------------------------- MODULE Migrations -----------------------------
(***************************************************************************)
(* The schema migrations run when the daemon opens its database, and what  *)
(* they do to the rows users have put there.  Each migration and the row   *)
(* of schema_version that records it are one transaction; the process may  *)
(* die between two of them, and a transaction may fail.                    *)
(*                                                                         *)
(* A release of the daemon ships the first `release' migrations; a newer   *)
(* release has more (the list is only ever appended to).  The tables are   *)
(* kept as far as the migrations touch them: the policies, their allow     *)
(* lists and the assignments, and which objects exist.                     *)
(***************************************************************************)
EXTENDS Integers, FiniteSets, FiniteSetsExt

CONSTANTS
    Default, Tesla, Open,  \* the names of the seeded policies
    Created,               \* names users give policies
    Connman, Preset,       \* the domain seeded by v6; those seeded by v10
    Wanted,                \* domains users allow
    Macs, EncodedMacs,     \* devices; those stored URL-encoded ("aa%3abb...")
    Nobody,                \* "no row in device_policies"
    MaxChanges,            \* bound: requests that change a table
    MaxFaults,             \* bound: statements that fail
    MaxStops               \* bound: stops and crashes of the daemon

Names   == {Default, Tesla, Open} \cup Created
Domains == {Connman, Preset} \cup Wanted
Last    == 10              \* len(migrations)

ASSUME MigrationsAssumption ==
    /\ Cardinality({Default, Tesla, Open}) = 3 /\ Connman # Preset
    /\ EncodedMacs \subseteq Macs
    /\ Nobody \notin Names
    /\ MaxChanges \in Nat /\ MaxFaults \in Nat /\ MaxStops \in Nat

VARIABLES
    release,  \* the migrations of the installed daemon: 1 .. release
    schema,   \* the rows of schema_version
    objects,  \* tables and columns that exist, of those a migration depends on
    policies, \* policies: the mode of each name, or "none"
    allow,    \* policy_allowed_domains
    assigns,  \* device_policies
    pc,       \* where the daemon stands: "down", "migrate" or "serving"
    at,       \* the loop variable of Migrate
    changes, faults, stops

tables == <<objects, policies, allow, assigns>>
vars   == <<release, schema, tables, pc, at, changes, faults, stops>>

Modes == {"permissive", "strict", "open"}

Exists(p) == policies[p] # "none"

Init ==
    /\ release \in 1 .. Last
    /\ schema = {}
    /\ objects = {}
    /\ policies = [p \in Names |-> "none"]
    /\ allow = {}
    /\ assigns = [m \in Macs |-> Nobody]
    /\ pc = "down" /\ at = 0
    /\ changes = 0 /\ faults = 0 /\ stops = 0

-----------------------------------------------------------------------------
(* The migrations.  Those left out create tables and indexes IF NOT EXISTS   *)
(* and insert settings and block entries OR IGNORE.                          *)

\* INSERT OR IGNORE: a row of that name stays as it is
Seed(table, p, mode) == [table EXCEPT ![p] = IF @ = "none" THEN mode ELSE @]

\* INSERT OR IGNORE ... SELECT id FROM policies WHERE name = 'Tesla'
SeedTesla(table, d) == allow \cup (IF table[Tesla] = "none" THEN {} ELSE {<<Tesla, d>>})

CreateAllowedDomains ==                                            \* v4
    /\ objects' = objects \cup {"allowed_domains"}
    /\ UNCHANGED <<policies, allow, assigns>>

PerPolicyTables ==                                                 \* v6
    /\ "allowed_domains" \in objects
    /\ objects' = (objects \ {"allowed_domains"}) \cup {"policies"}
    /\ policies' = Seed(Seed(policies, Default, "strict"), Tesla, "strict")
    /\ allow' = SeedTesla(policies', Connman)
    /\ UNCHANGED assigns

TrafficColumns ==                                                  \* v7
    /\ "columns" \notin objects
    /\ objects' = objects \cup {"columns"}
    /\ UNCHANGED <<policies, allow, assigns>>

WipeEncodedMacs ==                                                 \* v8
    /\ assigns' = [m \in Macs |-> IF m \in EncodedMacs THEN Nobody ELSE assigns[m]]
    /\ UNCHANGED <<objects, policies, allow>>

\* (seeded fault: the rows are not copied to the new table)
RebuildWithoutCopy ==
    /\ policies' = [p \in Names |-> IF p = Open THEN "open" ELSE "none"]
    /\ allow' = {}
    /\ assigns' = [m \in Macs |-> Nobody]
    /\ UNCHANGED objects

\* The policies are copied to a new table and the old one is dropped.  Foreign
\* keys are enforced (Open turns them on), so DROP TABLE first deletes the old
\* rows and ON DELETE CASCADE takes what refers to them.
RebuildPolicies ==                                                 \* v9
    /\ policies' = Seed(policies, Open, "open")
    /\ allow' = {}
    /\ assigns' = [m \in Macs |-> Nobody]
    /\ UNCHANGED objects

ExpandTesla ==                                                     \* v10
    /\ allow' = SeedTesla(policies, Preset)
    /\ UNCHANGED <<objects, policies, assigns>>

\* Migration i, when its statements succeed on the tables as they are
Run(i) ==
    CASE i = 4  -> CreateAllowedDomains
      [] i = 6  -> PerPolicyTables
      [] i = 7  -> TrafficColumns
      [] i = 8  -> WipeEncodedMacs
      [] i = 9  -> RebuildPolicies
      [] i = 10 -> ExpandTesla
      [] OTHER  -> UNCHANGED tables

\* What makes a statement of migration i fail
Fails(i) ==
    \/ i = 6 /\ "allowed_domains" \notin objects   \* DROP TABLE without IF EXISTS
    \/ i = 7 /\ "columns" \in objects              \* ADD COLUMN twice

-----------------------------------------------------------------------------
(* Migrate *)

Begin(version) ==
    /\ pc = "down"
    /\ pc' = "migrate"
    /\ at' = version
    /\ UNCHANGED <<release, schema, tables, changes, stops>>

\* SELECT COALESCE(MAX(version), 0); no such table yet reads as 0
ReadVersion == Begin(IF schema = {} THEN 0 ELSE Max(schema)) /\ UNCHANGED faults

\* any error of the query reads as 0 too
ReadVersionFails ==
    /\ faults < MaxFaults
    /\ faults' = faults + 1
    /\ Begin(0)

\* (seeded fault: the loop index is recorded, not the version)
VersionOffByOne(i) == i - 1

Version(i) == i

Pending == pc = "migrate" /\ at < release

\* (seeded fault: INSERT OR IGNORE INTO schema_version)
MigrateIgnoringConflict ==
    /\ Pending
    /\ ~Fails(at + 1)
    /\ Run(at + 1)
    /\ schema' = schema \cup {Version(at + 1)}
    /\ at' = at + 1
    /\ UNCHANGED <<release, pc, changes, faults, stops>>

\* One iteration that commits
MigrateNext ==
    /\ Pending
    /\ ~Fails(at + 1) /\ Version(at + 1) \notin schema
    /\ Run(at + 1)
    /\ schema' = schema \cup {Version(at + 1)}
    /\ at' = at + 1
    /\ UNCHANGED <<release, pc, changes, faults, stops>>

\* Rolled back: Open returns the error, the daemon exits and is started again
GiveUp == pc' = "down" /\ at' = 0 /\ UNCHANGED <<release, schema, tables, changes, stops>>

\* A statement fails on the tables, or the version is recorded already
MigrationRefused ==
    /\ Pending
    /\ Fails(at + 1) \/ Version(at + 1) \in schema
    /\ GiveUp
    /\ UNCHANGED faults

TransactionFails ==
    /\ Pending
    /\ faults < MaxFaults
    /\ faults' = faults + 1
    /\ GiveUp

Serve ==
    /\ pc = "migrate" /\ at >= release
    /\ pc' = "serving"
    /\ UNCHANGED <<release, schema, tables, at, changes, faults, stops>>

-----------------------------------------------------------------------------
(* The handlers of a daemon that has policies, the daemon's end, and a newer *)
(* one in its place                                                          *)

Request ==
    /\ pc = "serving" /\ "policies" \in objects
    /\ changes < MaxChanges
    /\ changes' = changes + 1
    /\ UNCHANGED <<release, schema, objects, pc, at, faults, stops>>

CreatePolicy(p, mode) ==
    /\ Request
    /\ ~Exists(p)
    /\ mode = "open" => 9 \in schema       \* CHECK (mode IN ...)
    /\ policies' = [policies EXCEPT ![p] = mode]
    /\ UNCHANGED <<allow, assigns>>

Without(p) ==
    /\ policies' = [policies EXCEPT ![p] = "none"]
    /\ allow' = {row \in allow : row[1] # p}
    /\ assigns' = [m \in Macs |-> IF assigns[m] = p THEN Nobody ELSE assigns[m]]

\* (seeded fault: is_default is not checked)
DeleteAnyPolicy(p) == Request /\ Exists(p) /\ Without(p)

DeletePolicy(p) == Request /\ Exists(p) /\ p # Default /\ Without(p)

CreateDomain(p, d) ==
    /\ Request
    /\ Exists(p)
    /\ allow' = allow \cup {<<p, d>>}
    /\ UNCHANGED <<policies, assigns>>

DeleteDomain(p, d) ==
    /\ Request
    /\ allow' = allow \ {<<p, d>>}
    /\ UNCHANGED <<policies, assigns>>

\* Releases before v8 stored the path parameter as it came, still encoded
AssignDevice(m, p) ==
    /\ Request
    /\ Exists(p)
    /\ m \in EncodedMacs => release < 8
    /\ assigns' = [assigns EXCEPT ![m] = p]
    /\ UNCHANGED <<policies, allow>>

Stop ==
    /\ pc # "down" /\ stops < MaxStops
    /\ stops' = stops + 1
    /\ pc' = "down" /\ at' = 0
    /\ UNCHANGED <<release, schema, tables, changes, faults>>

Upgrade ==
    /\ pc = "down"
    /\ release' \in release + 1 .. Last
    /\ UNCHANGED <<schema, tables, pc, at, changes, faults, stops>>

Boot == ReadVersion \/ MigrateNext \/ MigrationRefused \/ Serve

Next ==
    \/ Boot
    \/ ReadVersionFails \/ TransactionFails
    \/ \E p \in Names :
          \/ \E mode \in Modes : CreatePolicy(p, mode)
          \/ DeletePolicy(p)
          \/ \E d \in Domains : CreateDomain(p, d) \/ DeleteDomain(p, d)
          \/ \E m \in Macs : AssignDevice(m, p)
    \/ Stop
    \/ Upgrade

Spec == Init /\ [][Next]_vars

\* systemd starts the daemon again whenever it ends, and a started one runs
FairSpec == Spec /\ WF_vars(Boot)

-----------------------------------------------------------------------------
(* Properties *)

\* Types of the tables and of the loop.
TypeOK ==
    /\ release \in 1 .. Last /\ at \in 0 .. Last
    /\ schema \subseteq 1 .. Last
    /\ objects \subseteq {"allowed_domains", "policies", "columns"}
    /\ policies \in [Names -> Modes \cup {"none"}]
    /\ allow \subseteq Names \X Domains
    /\ assigns \in [Macs -> Names \cup {Nobody}]
    /\ pc \in {"down", "migrate", "serving"}
    /\ changes \in 0 .. MaxChanges /\ faults \in 0 .. MaxFaults /\ stops \in 0 .. MaxStops

\* However boots are interrupted, and whatever users did between two releases, a
\* daemon that serves has every migration of its release and no other, a Default
\* policy, no row that refers to a policy that is gone and, from v8 on, no
\* encoded address.
ServesComplete ==
    pc = "serving" =>
        /\ schema = 1 .. release
        /\ ("policies" \in objects) <=> release >= 6
        /\ ("allowed_domains" \in objects) <=> release \in {4, 5}
        /\ release >= 6 => Exists(Default)
        /\ \A row \in allow : Exists(row[1])
        /\ \A m \in Macs : /\ assigns[m] # Nobody => Exists(assigns[m])
                           /\ release >= 8 /\ m \in EncodedMacs => assigns[m] = Nobody

\* A migration that has been recorded never touches the tables again, even when
\* the version could not be read and the loop starts from the first one: what
\* users deleted is not seeded a second time.
NeverReplayed == [][pc = "migrate" /\ schema' = schema => UNCHANGED tables]_vars

\* No boot loses a policy or changes its mode, the rebuild of v9 included.
PoliciesSurvive ==
    [][pc = "migrate" => \A p \in Names : Exists(p) => policies'[p] = policies[p]]_vars

\* Once stops and faults end, the daemon comes up: no interrupted boot leaves the
\* database where Migrate can only fail.
EventuallyServes == <>[](pc = "serving")

\* A boot keeps the allow lists and the assignments of the policies it keeps
\* (encoded addresses aside).
RowsSurvive ==
    [][pc = "migrate" =>
         /\ allow \subseteq allow'
         /\ \A m \in Macs \ EncodedMacs : assigns'[m] = assigns[m]]_vars
=============================================================================
