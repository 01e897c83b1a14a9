---------------------------- MODULE ConfigStore ----------------------------
(***************************************************************************)
(* The configuration tables of netfilterd's SQLite database that the       *)
(* firewall is generated from, and the statement each service method runs  *)
(* on them.  A method is an operator from a database to a database; the    *)
(* connection pool holds one connection, so a statement is atomic.         *)
(*                                                                         *)
(* A rule, a device, a policy and a domain are model values.  A row of     *)
(* firewall_rules or of policy_allowed_domains is "none", "off" or "on".   *)
(* The addresses of a domain are abstracted to the domain itself: two      *)
(* domains share none, and `resolved' says which rows have a non-empty     *)
(* resolved_ips column.                                                    *)
(***************************************************************************)
EXTENDS Naturals

CONSTANTS
    Rules,      \* ids of firewall_rules
    Devices,    \* MAC addresses of the devices table
    Policies,   \* ids of policies; AUTOINCREMENT never gives one out twice
    Domains,    \* normalised domain names
    Modes,      \* the modes a request can give a policy
    Default,    \* the built-in policy (is_default = 1)
    NoPolicy    \* "no row in device_policies"

ASSUME ConfigAssumption ==
    /\ Default \in Policies
    /\ NoPolicy \notin Policies
    /\ "strict" \in Modes /\ Modes \subseteq {"permissive", "strict", "open"}

Row == {"none", "off", "on"}

NoMode == "none"    \* no row in policies

Pairs == Policies \X Domains

Database ==
    [ rules    : [Rules -> Row],
      devices  : SUBSET Devices,                     \* is_blocked = 1
      policies : [Policies -> Modes \cup {NoMode}],
      retired  : SUBSET Policies,                    \* ids already used up
      domains  : [Pairs -> Row],
      resolved : SUBSET Pairs,
      assigns  : [Devices -> Policies \cup {NoPolicy}] ]

Exists(d, p) == d.policies[p] # NoMode

State(enabled) == IF enabled THEN "on" ELSE "off"

-----------------------------------------------------------------------------
(* firewall_rules *)

CreateRuleIn(d, x, enabled) == [d EXCEPT !.rules[x] = State(enabled)]

\* UPDATE and DELETE by id: no row, no effect
UpdateRuleIn(d, x, enabled) ==
    [d EXCEPT !.rules[x] = IF @ = "none" THEN "none" ELSE State(enabled)]

DeleteRuleIn(d, x) == [d EXCEPT !.rules[x] = "none"]

(* devices *)

UpdateDeviceIn(d, m, blocked) ==
    [d EXCEPT !.devices = IF blocked THEN @ \cup {m} ELSE @ \ {m}]

(* policies *)

CreatePolicyIn(d, p, mode) ==
    [d EXCEPT !.policies[p] = mode, !.retired = @ \cup {p}]

UpdatePolicyIn(d, p, mode) ==
    [d EXCEPT !.policies[p] = IF @ = NoMode THEN NoMode ELSE mode]

\* (seeded fault: device_policies.policy_id declared without ON DELETE CASCADE)
DeletePolicyNoCascade(d, p) ==
    [d EXCEPT !.policies[p] = NoMode,
              !.domains  = [pd \in Pairs |-> IF pd[1] = p THEN "none" ELSE @[pd]],
              !.resolved = {pd \in @ : pd[1] # p}]

\* ON DELETE CASCADE empties the allow list and the assignments of p
DeletePolicyIn(d, p) ==
    [d EXCEPT !.policies[p] = NoMode,
              !.domains  = [pd \in Pairs |-> IF pd[1] = p THEN "none" ELSE @[pd]],
              !.resolved = {pd \in @ : pd[1] # p},
              !.assigns  = [m \in Devices |-> IF @[m] = p THEN NoPolicy ELSE @[m]]]

(* policy_allowed_domains *)

\* INSERT ... ON CONFLICT DO UPDATE: an existing row keeps its resolved_ips.
\* Both handlers force enabled = TRUE.
CreateDomainIn(d, pd) == [d EXCEPT !.domains[pd] = "on"]

UpdateDomainIn(d, pd, enabled) ==
    [d EXCEPT !.domains[pd] = IF @ = "none" THEN "none" ELSE State(enabled)]

DeleteDomainIn(d, pd) ==
    [d EXCEPT !.domains[pd] = "none", !.resolved = @ \ {pd}]

\* UPDATE ... WHERE domain = ?: every policy's row of that domain
RowsOf(d, name) == {pd \in Pairs : pd[2] = name /\ d.domains[pd] # "none"}

StoreResolvedIn(d, name) == [d EXCEPT !.resolved = @ \cup RowsOf(d, name)]

EnabledDomains(d) == {n \in Domains : \E p \in Policies : d.domains[<<p, n>>] = "on"}

(* device_policies *)

AssignDeviceIn(d, m, p) == [d EXCEPT !.assigns[m] = p]

UnassignDeviceIn(d, m) == [d EXCEPT !.assigns[m] = NoPolicy]

-----------------------------------------------------------------------------
(* What the foreign keys (PRAGMA foreign_keys = ON) and the guard on the   *)
(* default policy keep true of the tables whatever requests do.            *)
Integrity(d) ==
    /\ Exists(d, Default)
    /\ \A p \in Policies : Exists(d, p) => p \in d.retired
    /\ \A pd \in Pairs : d.domains[pd] # "none" => Exists(d, pd[1])
    /\ \A pd \in d.resolved : d.domains[pd] # "none"
    /\ \A m \in Devices : d.assigns[m] # NoPolicy => Exists(d, d.assigns[m])
=============================================================================
