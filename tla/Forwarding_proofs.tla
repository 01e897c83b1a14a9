-------------------------- MODULE Forwarding_proofs --------------------------
(***************************************************************************)
(* What the chains decide is what the policies promise, for any rules,     *)
(* devices, policies and domains: from the invariant of FirewallApply the  *)
(* kernel runs the tables, and the rest is the reading of the chains.      *)
(***************************************************************************)
EXTENDS Forwarding, FirewallApply_proofs

\* Wherever all four tables are settled, the ruleset in the kernel drops the blocked
\* devices; if all rows came when it was read, it is the tables'.
LEMMA KernelIsTables ==
    ASSUME IInv, \A t \in Tables : written[t] <= settled
    PROVE  /\ kernel.drops = db.devices
           /\ kernel.short = {} => /\ kernel.chains = db.policies
                                  /\ kernel.vmap = db.assigns
                                  /\ RulesAgree(kernel)
<1>1. Agrees(kernel, settled)
  BY AgreesBelow, SettledBelow DEF IInv, Copies, SettledIsLive
<1> QED BY <1>1 DEF Agrees, Tables, Reads

\* A device's policy is one that is there.
LEMMA PolicyExists ==
    ASSUME IInv, NEW m \in Devices
    PROVE  PolicyOf(m) \in Policies
BY ConfigAssumption DEF PolicyOf, IInv, TypeOK, Database

\* The rules in the kernel are the tables' but for some that go to a host name: what is
\* decided whichever of those are left out, they decide.
LEMMA RulesOfPacket ==
    ASSUME RulesAgree(kernel), kernel.short = {}, kernel.chains = db.policies,
           NEW pk, NEW accept, RulesDecide(pk, accept)
    PROVE  FirstAccepts(kernel.rules, pk) = accept
<1> DEFINE lines == RuleLines(db.rules, db.policies[Default])
           lost == lines \ kernel.rules
<1>1. kernel.rules \subseteq lines /\ lost \in SUBSET NamedRules
  BY DEF RulesAgree
<1> HIDE DEF lines
<1>2. kernel.rules = lines \ lost
  BY <1>1
<1> QED BY <1>1, <1>2 DEF RulesDecide, lines

\* A name of a settled row that is allowed and resolved has its addresses in the set.
LEMMA ListedIsHit ==
    ASSUME IInv, SettledIsPopulated, kernel.short = {},
           NEW pk \in Packets, NEW p \in Policies, Listed(p, pk)
    PROVE  SetHit(sets, p, pk)
<1>1. PICK name \in pk.names :
         /\ rowWritten[<<p, name>>] <= settled
         /\ db.domains[<<p, name>>] = "on" /\ <<p, name>> \in db.resolved
  BY DEF Listed
<1>2. <<p, name>> \in Pairs
  BY DEF Packets, Pairs
<1> QED BY <1>1, <1>2 DEF SettledIsPopulated, RowsRead, SetHit

\* The chain of the default policy, read in the tables.
LEMMA DefaultChainDecides ==
    ASSUME IInv, SettledIsPopulated, NEW pk \in Packets,
           RulesAgree(kernel), kernel.short = {}, kernel.chains = db.policies
    PROVE  /\ MustAccept(Default, pk) => DefaultChain(kernel, sets, pk)
           /\ MustDrop(Default, pk) => ~DefaultChain(kernel, sets, pk)
<1>1. Default \in Policies
  BY ConfigAssumption
<1>2. Listed(Default, pk) => SetHit(sets, Default, pk)
  BY <1>1, ListedIsHit
<1> QED BY <1>2, RulesOfPacket DEF MustAccept, MustDrop, DefaultChain

\* The chain of any policy, read in the tables.
LEMMA ChainDecides ==
    ASSUME IInv, SettledIsPopulated, NEW pk \in Packets, NEW p \in Policies,
           RulesAgree(kernel), kernel.short = {}, kernel.chains = db.policies
    PROVE  /\ MustAccept(p, pk) \/ (Falls(p) /\ MustAccept(Default, pk))
                => Chain(kernel, sets, p, pk)
           /\ MustDrop(p, pk) /\ (Falls(p) => MustDrop(Default, pk))
                => ~Chain(kernel, sets, p, pk)
<1>1. Listed(p, pk) => SetHit(sets, p, pk)
  BY ListedIsHit
<1>2. CASE p = Default
  BY <1>2, DefaultChainDecides DEF Chain, Falls
<1>3. CASE p # Default
  BY <1>1, <1>3, DefaultChainDecides DEF Chain, Falls, MustAccept, MustDrop
<1> QED BY <1>2, <1>3

\* SettledIsEnforced for all constants: with the configuration settled, blocked devices and
\* encrypted-DNS resolvers get nothing, through any number of changes, failures and
\* restarts; and if all rows came when Apply last read the tables, the packet filter
\* treats every new connection as the policies and the rules, in their order, say.
THEOREM PoliciesEnforced == Spec => []SettledIsEnforced
<1>1. IInv /\ SettledIsPopulated => SettledIsEnforced
  <2> SUFFICES ASSUME IInv, SettledIsPopulated,
                      \A t \in Tables : written[t] <= settled,
                      NEW pk \in Packets
               PROVE  LET p == PolicyOf(pk.dev)
                          barred == pk.dev \in db.devices \/ pk.resolver
                      IN  /\ barred => ~Accepts(kernel, sets, pk)
                          /\ ~barred /\ kernel.short = {} =>
                               /\ \/ MustAccept(p, pk)
                                  \/ Falls(p) /\ MustAccept(Default, pk)
                                  => Accepts(kernel, sets, pk)
                               /\ /\ MustDrop(p, pk)
                                  /\ Falls(p) => MustDrop(Default, pk)
                                  => ~Accepts(kernel, sets, pk)
    BY DEF SettledIsEnforced
  <2>1. pk.dev \in Devices /\ PolicyOf(pk.dev) \in Policies /\ pk.resolver \in BOOLEAN
    BY PolicyExists DEF Packets
  <2>2. pk.dev \in db.devices \/ pk.resolver => ~Accepts(kernel, sets, pk)
    BY <2>1, KernelIsTables DEF Accepts
  <2>3. ASSUME kernel.short = {}
        PROVE  /\ kernel.chains = db.policies /\ RulesAgree(kernel)
               /\ Accepts(kernel, sets, pk) <=>
                     /\ pk.dev \notin db.devices /\ ~pk.resolver
                     /\ Chain(kernel, sets, PolicyOf(pk.dev), pk)
    BY <2>3, KernelIsTables DEF Accepts, PolicyOf
  <2> QED BY <2>1, <2>2, <2>3, ChainDecides
<1> QED BY <1>1, Invariance, SettledDomainsArePopulated, PTL
=============================================================================
