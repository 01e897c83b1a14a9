----------------------------- MODULE Forwarding -----------------------------
(***************************************************************************)
(* What the chains that FirewallService.generateConfig writes decide about *)
(* the first packet of a connection that a device opens through the        *)
(* hotspot, against what the README promises for the modes of a policy.    *)
(* (Later packets of a connection are accepted by its first line.)         *)
(***************************************************************************)
EXTENDS FirewallApply

CONSTANTS
    Accepting,    \* rules whose action is accept; the others drop
    Before        \* the order in which rules are listed: by priority, then by id

ASSUME RuleAssumption ==
    /\ Accepting \subseteq Rules
    /\ Before \subseteq Rules \X Rules
    /\ \A x, y \in Rules : x # y => (<<x, y>> \in Before <=> <<y, x>> \notin Before)

\* names: the domains whose address the packet goes to;
\* hits: the forward rules that match it;
\* resolver: it goes to one of the known encrypted-DNS resolvers, on its port
Packets ==
    [ dev : Devices, names : SUBSET Domains, resolver : BOOLEAN, hits : SUBSET Forward ]

-----------------------------------------------------------------------------
(* The chains, line by line; f is the ruleset, members are those of its sets *)

SetHit(members, p, pk) == \E name \in pk.names : <<p, name>> \in members

\* The first of the rules that match decides
FirstAccepts(rules, pk) ==
    \E x \in rules \cap pk.hits \cap Accepting :
        \A y \in (rules \cap pk.hits) \ {x} : <<x, y>> \in Before

\* (seeded fault: the accepting rules come first)
DefaultChainUnordered(f, members, pk) ==
    \/ SetHit(members, Default, pk)
    \/ f.chains[Default] = "open"
    \/ f.rules \cap pk.hits \cap Accepting # {}

\* The chain of the default policy accepts: the set, "open", the forward rules, drop
DefaultChain(f, members, pk) ==
    \/ SetHit(members, Default, pk)
    \/ f.chains[Default] = "open"
    \/ FirstAccepts(f.rules, pk)

\* (seeded fault: every device goes by the default policy)
ChainOfDefault(f, members, p, pk) == DefaultChain(f, members, pk)

\* The chain of policy p accepts: a permissive one jumps to the default chain
Chain(f, members, p, pk) ==
    \/ p = Default /\ DefaultChain(f, members, pk)
    \/ /\ p # Default
       /\ \/ SetHit(members, p, pk)
          \/ f.chains[p] = "open"
          \/ f.chains[p] = "permissive" /\ DefaultChain(f, members, pk)

\* The chain `forward' accepts: the blocked devices, the resolvers, the vmap
Accepts(f, members, pk) ==
    /\ pk.dev \notin f.drops
    /\ ~pk.resolver
    /\ Chain(f, members, IF f.vmap[pk.dev] # NoPolicy THEN f.vmap[pk.dev] ELSE Default, pk)

-----------------------------------------------------------------------------
(* The promise, over the tables *)

PolicyOf(m) == IF db.assigns[m] = NoPolicy THEN Default ELSE db.assigns[m]

\* The allow list of p has the destination, its row is settled and has resolved
Listed(p, pk) ==
    \E name \in pk.names :
        /\ rowWritten[<<p, name>>] <= settled
        /\ db.domains[<<p, name>>] = "on" /\ <<p, name>> \in db.resolved

\* The rules of the default policy decide, whatever host names did not resolve
RulesDecide(pk, accept) ==
    \A lost \in SUBSET NamedRules :
        FirstAccepts(RuleLines(db.rules, db.policies[Default]) \ lost, pk) = accept

MustAccept(p, pk) ==
    \/ Listed(p, pk)
    \/ db.policies[p] = "open"
    \/ p = Default /\ RulesDecide(pk, TRUE)

\* Nothing lets it through: no address of the allow list's set, no mode, no rule
MustDrop(p, pk) ==
    /\ ~SetHit(sets, p, pk)
    /\ db.policies[p] # "open"
    /\ p = Default => RulesDecide(pk, FALSE)

Falls(p) == p # Default /\ db.policies[p] = "permissive"

\* Once every change of rules, devices, policies and assignments is settled, the packet
\* filter does what the README's table says with every connection a device opens: a
\* blocked device and an encrypted-DNS resolver get nothing, whatever the policy; the
\* allow list, the mode, the fall-through of a permissive policy and, for the default
\* one, the first matching rule in the order of priority decide the rest; and an allowed
\* name that has resolved gets through.  When a read of Apply ended short, only the bars
\* are promised.
SettledIsEnforced ==
    (\A t \in Tables : written[t] <= settled) =>
        \A pk \in Packets :
            LET p == PolicyOf(pk.dev)
                barred == pk.dev \in db.devices \/ pk.resolver
            IN  /\ barred => ~Accepts(kernel, sets, pk)
                /\ ~barred /\ kernel.short = {} =>
                     /\ \/ MustAccept(p, pk)
                        \/ Falls(p) /\ MustAccept(Default, pk)
                        => Accepts(kernel, sets, pk)
                     /\ /\ MustDrop(p, pk)
                        /\ Falls(p) => MustDrop(Default, pk)
                        => ~Accepts(kernel, sets, pk)
=============================================================================
