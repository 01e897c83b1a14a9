--------------------------- MODULE Bandwidth_proofs ---------------------------
(***************************************************************************)
(* What Apply leaves in the kernel, for any devices, addresses, limits,    *)
(* goroutines, changes, leases, failures and restarts.                     *)
(***************************************************************************)
EXTENDS Bandwidth, WellFoundedInduction, TLAPS

\* A row of bandwidth_limits; no text has two.
Row == [mac : Macs, down : Nat, up : Nat, on : BOOLEAN]

Distinct(rows) == \A i, j \in 1..Len(rows) : rows[i].mac = rows[j].mac => i = j

Counts ==
    /\ now \in Nat /\ settled \in Nat /\ settled <= now /\ clean \in BOOLEAN
    /\ stamp \in [Procs -> Nat] /\ \A p \in Procs : 1 <= stamp[p] /\ stamp[p] <= now
    /\ pc \in [Procs -> Labels]

\* The holder of the mutex is inside Apply, and nobody else.
Mutex ==
    /\ lock \in Procs \cup {Free}
    /\ \A p \in Procs : pc[p] \notin {"idle", "lock"} <=> lock = p

\* A table of limits, or what Apply has read of it.
Listed(rows) == rows \in Seq(Row) /\ Distinct(rows)

\* The devices, the leases and the scanner's round.
Addresses ==
    /\ addr \in [Devices -> Addrs \cup {NoAddr}]
    /\ lease \in [Devices -> Addrs \cup {NoAddr}]
    /\ DOMAIN found \subseteq Devices /\ \A m \in DOMAIN found : found[m] \in Addrs
    /\ serving \in BOOLEAN

\* The rates of the classes that a tree has.
Classes == UNION {[S -> Nat] : S \in SUBSET Nat}

\* The kernel's trees; an HTB root that is not there has neither classes nor filters.
IsTree(tree) ==
    /\ tree \in [root : BOOLEAN, class : Classes, filter : [Addrs -> Nat]]
    /\ ~tree.root => tree = NoTree

Kernel == IsTree(lan) /\ IsTree(ifb) /\ redirect \in BOOLEAN

\* What Apply works on: the enabled rows it has read, and the addresses found for them.
Working ==
    /\ Listed(active) /\ row \in Nat /\ 1 <= row /\ row <= Len(active) + 1
    /\ used \in [{"down", "up"} -> [Macs -> Addrs \cup {NoAddr}]]

\* Nothing shapes the LAN interface, and nothing feeds ifb0, save what could not be deleted.
Bare == ("root" \notin kept => lan = NoTree) /\ ("ingress" \notin kept => redirect = FALSE)

\* The first n rows that limit address a, by the addresses u found for the devices.
Holding(rows, u, n, a) == {s \in 1..n : rows[s].down > 0 /\ u[rows[s].mac] = a}

\* The tree limits downloads by the first n rows: a class for each row whose device an
\* address was found for, and for each address a filter to the first of its rows.
ShapedBy(tree, rows, u, n) ==
    /\ tree.root /\ DOMAIN tree.class \subseteq 1..n
    /\ \A s \in 1..n : rows[s].down > 0 /\ u[rows[s].mac] # NoAddr =>
          s \in DOMAIN tree.class /\ tree.class[s] = rows[s].down
    /\ \A a \in Addrs :
          \/ Holding(rows, u, n, a) = {} /\ tree.filter[a] = 0
          \/ /\ tree.filter[a] \in Holding(rows, u, n, a)
             /\ \A s \in Holding(rows, u, n, a) : tree.filter[a] <= s

\* Addresses have been found for none but the first n rows.
Found(rows, u, n) == \A m \in Macs : u[m] # NoAddr => \E i \in 1..n : rows[i].mac = m

\* How far an Apply has come.
Reached(label) ==
    /\ label = "clear" => used = NoUse
    /\ label = "list" => used = NoUse /\ Bare
    /\ label = "row" =>
          /\ Found(active, used.down, row - 1)
          /\ Len(active) < DefaultClass => ShapedBy(lan, active, used.down, row - 1)
    /\ label = "up row" =>
          /\ Found(active, used.down, Len(active))
          /\ Len(active) < DefaultClass => ShapedBy(lan, active, used.down, Len(active))

Progress == \A p \in Procs : Reached(pc[p])

\* What has been read of the rows: all of them, or as many as a list that ended short.
PrefixOf(part, rows) == Len(part) <= Len(rows) /\ \A i \in 1..Len(part) : part[i] = rows[i]

\* An Apply that has read other limits than the enabled ones of now is outdated: a later
\* change has an Apply of its own to come.
Outdated ==
    \A p \in Procs : pc[p] \in {"row", "up row"} =>
        /\ active # <<>>
        /\ ~PrefixOf(active, Enabled) => settled # now /\ stamp[p] # now

\* The kernel is as the enabled limits have it, or none of them has been read.
Applied ==
    /\ Enabled = <<>> => Bare
    /\ Enabled # <<>> /\ Len(Enabled) < DefaultClass =>
          \/ ShapedBy(lan, Enabled, used.down, Len(Enabled))
          \/ used = NoUse /\ Bare

SettledIsApplied == Settled => Applied

IInv ==
    /\ Counts /\ Mutex /\ Listed(limits) /\ Addresses /\ Kernel /\ Working
    /\ Progress /\ Outdated /\ SettledIsApplied

-----------------------------------------------------------------------------
(* Induction over the numbers, from the well-founded order of Nat *)

\* A set of numbers that is not empty has a least one.
LEMMA LeastNumber ==
    ASSUME NEW T \in SUBSET Nat, T # {}
    PROVE  \E n \in T : \A m \in T : n <= m
<1> DEFINE Less == {p \in Nat \X Nat : p[1] < p[2]}
<1>1. IsWellFoundedOn(Less, Nat)
  BY NatLessThanWellFounded DEF OpToRel
<1>2. PICK n \in T : \A m \in T : <<m, n>> \notin Less
  <2> HIDE DEF Less
  <2> QED BY <1>1, WFMin
<1>3. \A m \in T : ~(m < n)
  BY <1>2
<1> QED BY <1>3

\* What holds of 0 and of the number after each one holds of all.
LEMMA NumberInduction ==
    ASSUME NEW T \in SUBSET Nat, 0 \in T, \A n \in T : n + 1 \in T
    PROVE  T = Nat
<1> SUFFICES ASSUME Nat \ T # {} PROVE FALSE
  OBVIOUS
<1>1. PICK n \in Nat \ T : \A m \in Nat \ T : n <= m
  BY LeastNumber
<1>2. n - 1 \in Nat /\ ~(n <= n - 1)
  BY <1>1
<1>3. n - 1 \in T
  BY <1>1, <1>2
<1> QED BY <1>1, <1>3

\* The first value of f is `first', and each other is made from the one before.
Recursive(f, n, first, step) ==
    f[0] = first /\ \A k \in 1..n : f[k] = step[k][f[k - 1]]

\* A function defined by recursion over 0 .. N exists.
LEMMA RecursionDefines ==
    ASSUME NEW S, NEW N \in Nat, NEW first \in S, NEW step \in [1..N -> [S -> S]]
    PROVE  \E f \in [0..N -> S] : Recursive(f, N, first, step)
<1> DEFINE Upto(n) == \E f \in [0..n -> S] : Recursive(f, n, first, step)
           T == {n \in Nat : n <= N => Upto(n)}
<1>1. 0 \in T
  <2> DEFINE g == [k \in 0..0 |-> first]
  <2>1. g \in [0..0 -> S] /\ g[0] = first
    OBVIOUS
  <2>2. 1..0 = {}
    OBVIOUS
  <2>3. Upto(0)
    <3> HIDE DEF g
    <3> QED BY <2>1, <2>2 DEF Recursive
  <2> QED BY <2>3
<1>2. ASSUME NEW n \in T PROVE n + 1 \in T
  <2> SUFFICES ASSUME n + 1 <= N PROVE Upto(n + 1)
    OBVIOUS
  <2>1. PICK f \in [0..n -> S] : f[0] = first /\ \A k \in 1..n : f[k] = step[k][f[k - 1]]
    BY DEF Recursive
  <2> DEFINE g == [k \in 0..n + 1 |-> IF k = n + 1 THEN step[n + 1][f[n]] ELSE f[k]]
  <2>2. step[n + 1][f[n]] \in S
    OBVIOUS
  <2>3. g \in [0..n + 1 -> S]
    BY <2>2
  <2>4. g[0] = first
    BY <2>1
  <2>5. ASSUME NEW k \in 1..n + 1 PROVE g[k] = step[k][g[k - 1]]
    BY <2>1
  <2>6. Recursive(g, n + 1, first, step)
    <3> HIDE DEF g
    <3> QED BY <2>4, <2>5 DEF Recursive
  <2> HIDE DEF g
  <2> QED BY <2>3, <2>6
<1>3. T = Nat
  <2> HIDE DEF T
  <2>1. T \in SUBSET Nat
    BY DEF T
  <2> QED BY <1>1, <1>2, <2>1, NumberInduction
<1> QED BY <1>3

-----------------------------------------------------------------------------
(* The enabled limits *)

\* The loop that appends the enabled rows: its result is built row by row.
LEMMA EnabledLoop ==
    ASSUME NEW rows \in Seq(Row), NEW N \in Nat, N = Len(rows)
    PROVE  \E upto \in [0..N -> Seq(Row)] :
               /\ EnabledIn(rows) = upto[N]
               /\ upto[0] = <<>>
               /\ \A n \in 1..N : upto[n] = IF rows[n].on THEN Append(upto[n - 1], rows[n])
                                            ELSE upto[n - 1]
<1> DEFINE step == [n \in 1..N |-> [q \in Seq(Row) |->
                       IF rows[n].on THEN Append(q, rows[n]) ELSE q]]
           Loop(f) == f = [n \in 0..N |->
                              IF n = 0 THEN <<>>
                              ELSE IF rows[n].on THEN Append(f[n - 1], rows[n])
                                   ELSE f[n - 1]]
<1>1. <<>> \in Seq(Row) /\ \A n \in 1..N : rows[n] \in Row
  OBVIOUS
<1>2. step \in [1..N -> [Seq(Row) -> Seq(Row)]]
  BY <1>1
<1>3. PICK f \in [0..N -> Seq(Row)] : Recursive(f, N, <<>>, step)
  <2> HIDE DEF step
  <2> QED BY <1>1, <1>2, RecursionDefines
<1>4. f[0] = <<>>
  BY <1>3 DEF Recursive
<1>5. \A n \in 1..N : f[n] = IF rows[n].on THEN Append(f[n - 1], rows[n]) ELSE f[n - 1]
  <2> SUFFICES ASSUME NEW n \in 1..N
               PROVE  f[n] = IF rows[n].on THEN Append(f[n - 1], rows[n]) ELSE f[n - 1]
    OBVIOUS
  <2>1. f[n - 1] \in Seq(Row)
    OBVIOUS
  <2>2. f[n] = step[n][f[n - 1]]
    <3> HIDE DEF step
    <3> QED BY <1>3 DEF Recursive
  <2> QED BY <2>1, <2>2
<1>6. Loop(f)
  <2> DEFINE g == [n \in 0..N |-> IF n = 0 THEN <<>>
                                  ELSE IF rows[n].on THEN Append(f[n - 1], rows[n])
                                       ELSE f[n - 1]]
  <2>1. \A n \in 0..N : f[n] = g[n]
    <3> TAKE n \in 0..N
    <3>1. CASE n = 0
      BY <1>4, <3>1
    <3>2. CASE n # 0
      <4>1. n \in 1..N
        BY <3>2
      <4> QED BY <1>5, <3>2, <4>1
    <3> QED BY <3>1, <3>2
  <2>2. f = [n \in 0..N |-> f[n]] /\ g = [n \in 0..N |-> g[n]]
    OBVIOUS
  <2>3. f = g
    <3> HIDE DEF g
    <3> QED BY <2>1, <2>2
  <2> QED BY <2>3
<1> DEFINE upto == CHOOSE g : Loop(g)
<1>7. Loop(upto)
  <2> HIDE DEF Loop
  <2> QED BY <1>6
<1> HIDE DEF upto
<1>8. upto[0] = <<>>
  BY <1>7
<1>9. \A n \in 1..N : upto[n] = IF rows[n].on THEN Append(upto[n - 1], rows[n])
                                ELSE upto[n - 1]
  <2> SUFFICES ASSUME NEW n \in 1..N
               PROVE  upto[n] = IF rows[n].on THEN Append(upto[n - 1], rows[n]) ELSE upto[n - 1]
    OBVIOUS
  <2>1. n \in 0..N /\ n # 0
    OBVIOUS
  <2> QED BY <1>7, <2>1
<1>10. \A n \in 0..N : upto[n] = f[n]
  <2> DEFINE T == {n \in Nat : n <= N => upto[n] = f[n]}
  <2>1. 0 \in T
    BY <1>4, <1>8
  <2>2. ASSUME NEW n \in T PROVE n + 1 \in T
    <3> SUFFICES ASSUME n + 1 <= N PROVE upto[n + 1] = f[n + 1]
      OBVIOUS
    <3>1. upto[n] = f[n] /\ n + 1 \in 1..N /\ (n + 1) - 1 = n
      OBVIOUS
    <3> QED BY <1>5, <1>9, <3>1
  <2>3. T = Nat
    <3> HIDE DEF T
    <3>1. T \in SUBSET Nat
      BY DEF T
    <3> QED BY <2>1, <2>2, <3>1, NumberInduction
  <2> QED BY <2>3
<1>11. EnabledIn(rows) = upto[N]
  BY DEF EnabledIn, upto
<1>12. EnabledIn(rows) = f[N]
  BY <1>10, <1>11
<1> QED BY <1>4, <1>5, <1>12

\* What the loop keeps are rows of the table, none of them twice.
LEMMA EnabledAreRows ==
    ASSUME NEW rows \in Seq(Row), Distinct(rows)
    PROVE  EnabledIn(rows) \in Seq(Row) /\ Distinct(EnabledIn(rows))
<1> DEFINE N == Len(rows)
<1>1. PICK upto \in [0..N -> Seq(Row)] :
          /\ EnabledIn(rows) = upto[N]
          /\ upto[0] = <<>>
          /\ \A n \in 1..N : upto[n] = IF rows[n].on THEN Append(upto[n - 1], rows[n])
                                       ELSE upto[n - 1]
  <2>1. N \in Nat
    OBVIOUS
  <2> QED BY <2>1, EnabledLoop
<1> DEFINE Kept(n) ==
        /\ \A i \in 1..Len(upto[n]) : \E k \in 1..n : upto[n][i] = rows[k]
        /\ Distinct(upto[n])
    T == {n \in Nat : n <= N => Kept(n)}
<1>2. 0 \in T
  BY <1>1 DEF Distinct
<1>3. ASSUME NEW n \in T PROVE n + 1 \in T
  <2> SUFFICES ASSUME n + 1 <= N PROVE Kept(n + 1)
    OBVIOUS
  <2>1. Kept(n) /\ n \in 0..N /\ n + 1 \in 1..N /\ (n + 1) - 1 = n
    OBVIOUS
  <2>2. upto[n + 1] = IF rows[n + 1].on THEN Append(upto[n], rows[n + 1]) ELSE upto[n]
    BY <1>1, <2>1
  <2>3. CASE ~rows[n + 1].on
    BY <2>1, <2>2, <2>3
  <2>4. CASE rows[n + 1].on
    <3> DEFINE q == upto[n]
    <3>1. q \in Seq(Row) /\ rows[n + 1] \in Row
      BY <2>1
    <3>2. /\ Len(upto[n + 1]) = Len(q) + 1
          /\ \A i \in 1..Len(q) : upto[n + 1][i] = q[i]
          /\ upto[n + 1][Len(q) + 1] = rows[n + 1]
      BY <2>2, <2>4, <3>1
    <3>3. \A i \in 1..Len(q) : \E k \in 1..n : q[i] = rows[k]
      BY <2>1
    <3>4. \A i \in 1..Len(q) : q[i].mac # rows[n + 1].mac
      <4> SUFFICES ASSUME NEW i \in 1..Len(q), q[i].mac = rows[n + 1].mac PROVE FALSE
        OBVIOUS
      <4>1. PICK k \in 1..n : q[i] = rows[k]
        BY <3>3
      <4>2. k = n + 1
        BY <2>1, <4>1 DEF Distinct
      <4> QED BY <4>1, <4>2
    <3>5. \A i \in 1..Len(upto[n + 1]) : \E k \in 1..n + 1 : upto[n + 1][i] = rows[k]
      <4> TAKE i \in 1..Len(upto[n + 1])
      <4>1. CASE i \in 1..Len(q)
        BY <3>2, <3>3, <4>1
      <4>2. CASE i = Len(q) + 1
        BY <3>2, <4>2
      <4> QED BY <3>1, <3>2, <4>1, <4>2
    <3>6. Distinct(upto[n + 1])
      <4> SUFFICES ASSUME NEW i \in 1..Len(q) + 1, NEW j \in 1..Len(q) + 1,
                          upto[n + 1][i].mac = upto[n + 1][j].mac
                   PROVE  i = j
        BY <3>2 DEF Distinct
      <4>1. i \in 1..Len(q) \/ i = Len(q) + 1
        BY <3>1
      <4>2. j \in 1..Len(q) \/ j = Len(q) + 1
        BY <3>1
      <4>3. CASE i \in 1..Len(q) /\ j \in 1..Len(q)
        BY <2>1, <3>2, <4>3 DEF Distinct
      <4>4. CASE i \in 1..Len(q) /\ j = Len(q) + 1
        BY <3>2, <3>4, <4>4
      <4>5. CASE i = Len(q) + 1 /\ j \in 1..Len(q)
        BY <3>2, <3>4, <4>5
      <4> QED BY <4>1, <4>2, <4>3, <4>4, <4>5
    <3> QED BY <3>5, <3>6
  <2> QED BY <2>3, <2>4
<1>4. T = Nat
  <2> HIDE DEF T
  <2>1. T \in SUBSET Nat
    BY DEF T
  <2> QED BY <1>2, <1>3, <2>1, NumberInduction
<1>5. Kept(N) /\ upto[N] \in Seq(Row)
  BY <1>4
<1> QED BY <1>1, <1>5

-----------------------------------------------------------------------------
(* The tables and the kernel keep their types *)

\* A request's statement leaves one row for each device.
LEMMA TablesKept ==
    ASSUME Listed(limits), NEW m \in Macs, NEW s \in Settings
    PROVE  Listed(CreateLimitIn(m, s)) /\ Listed(UpdateLimitIn(m, s))
<1>1. Limit(m, s) \in Row /\ Limit(m, s).mac = m
  BY BandwidthAssumption DEF Limit, Row
<1>2. limits \in Seq(Row) /\ Len(limits) \in Nat /\ DOMAIN limits = 1..Len(limits)
  BY DEF Listed
<1>3. \A i \in 1..Len(limits) : i \in At(m) <=> limits[i].mac = m
  BY <1>2 DEF At
<1>4. Listed(UpdateLimitIn(m, s))
  <2> DEFINE new == UpdateLimitIn(m, s)
  <2>1. new = [i \in 1..Len(limits) |-> IF i \in At(m) THEN Limit(m, s) ELSE limits[i]]
    BY <1>2 DEF UpdateLimitIn
  <2>2. new \in Seq(Row) /\ Len(new) = Len(limits)
    BY <1>1, <1>2, <2>1
  <2>3. \A i \in 1..Len(limits) : new[i].mac = limits[i].mac
    BY <1>1, <1>3, <2>1
  <2> QED BY <2>2, <2>3 DEF Listed, Distinct
<1>5. Listed(CreateLimitIn(m, s))
  <2>1. CASE At(m) # {}
    BY <1>4, <2>1 DEF CreateLimitIn, UpdateLimitIn
  <2>2. CASE At(m) = {}
    <3> DEFINE new == Append(limits, Limit(m, s))
    <3>1. new \in Seq(Row) /\ Len(new) = Len(limits) + 1
      BY <1>1, <1>2
    <3>2. \A i \in 1..Len(limits) : new[i].mac = limits[i].mac /\ limits[i].mac # m
      BY <1>2, <1>3, <2>2
    <3>3. new[Len(limits) + 1].mac = m
      BY <1>1, <1>2
    <3>4. ASSUME NEW i \in 1..Len(new), NEW j \in 1..Len(new), new[i].mac = new[j].mac
          PROVE  i = j
      <4> HIDE DEF new
      <4>1. \A k \in 1..Len(new) : k \in 1..Len(limits) \/ k = Len(limits) + 1
        BY <1>2, <3>1
      <4> QED BY <3>2, <3>3, <3>4, <4>1 DEF Listed, Distinct
    <3> QED BY <2>2, <3>1, <3>4 DEF CreateLimitIn, Listed, Distinct
  <2> QED BY <2>1, <2>2
<1> QED BY <1>4, <1>5

\* So does a deletion.
LEMMA DeletionKept == ASSUME Listed(limits), NEW m \in Macs PROVE Listed(DeleteLimitIn(m))
<1>1. limits \in Seq(Row) /\ Len(limits) \in Nat /\ DOMAIN limits = 1..Len(limits)
  BY DEF Listed
<1>2. CASE At(m) = {}
  BY <1>2 DEF DeleteLimitIn
<1>3. CASE At(m) # {}
  <2>1. PICK i \in At(m) :
           DeleteLimitIn(m) = [j \in 1..Len(limits) - 1 |-> limits[IF j < i THEN j ELSE j + 1]]
    BY <1>3 DEF DeleteLimitIn
  <2>2. i \in 1..Len(limits) /\ Len(limits) - 1 \in Nat
    BY <1>1 DEF At
  <2> DEFINE at(j) == IF j < i THEN j ELSE j + 1
             new == DeleteLimitIn(m)
  <2>3. \A j \in 1..Len(limits) - 1 : at(j) \in 1..Len(limits)
    BY <2>2
  <2>4. new \in Seq(Row) /\ Len(new) = Len(limits) - 1
    BY <1>1, <2>1, <2>2, <2>3
  <2>5. \A j \in 1..Len(limits) - 1 : new[j] = limits[at(j)]
    BY <2>1
  <2>6. \A j, k \in 1..Len(limits) - 1 : at(j) = at(k) => j = k
    BY <2>2
  <2> HIDE DEF new, at
  <2>7. Distinct(new)
    BY <2>3, <2>4, <2>5, <2>6 DEF Listed, Distinct
  <2> QED BY <2>4, <2>7 DEF Listed, new
<1> QED BY <1>2, <1>3

\* The empty tree, and the one with just a root.
LEMMA FirstTrees == IsTree(NoTree) /\ IsTree(Root) /\ Root.root
<1>1. [s \in {} |-> Unlimited] \in Classes
  BY DEF Classes, Unlimited
<1> QED BY <1>1 DEF IsTree, NoTree, Root

\* What the commands make of a tree.
LEMMA TreesKept ==
    ASSUME NEW tree, IsTree(tree), NEW slot \in Nat, NEW rate \in Nat, NEW a \in Addrs
    PROVE  /\ IsTree(AddClass(tree, slot, rate))
           /\ IsTree(AddFilter(tree, a, slot))
           /\ IsTree([tree EXCEPT !.root = TRUE])
<1>1. tree \in [root : BOOLEAN, class : Classes, filter : [Addrs -> Nat]]
  BY DEF IsTree
<1>2. IsTree(AddClass(tree, slot, rate))
  <2>1. CASE ~Accepts(tree, slot, rate)
    BY <2>1 DEF AddClass
  <2>2. CASE Accepts(tree, slot, rate)
    <3> DEFINE old == tree.class
               new == [s \in DOMAIN old \cup {slot} |-> IF s = slot THEN rate ELSE old[s]]
    <3>1. PICK S \in SUBSET Nat : old \in [S -> Nat]
      BY <1>1 DEF Classes
    <3>2. new \in [S \cup {slot} -> Nat] /\ S \cup {slot} \in SUBSET Nat
      BY <3>1
    <3>3. new \in Classes
      <4> HIDE DEF new
      <4> QED BY <3>2 DEF Classes
    <3>4. AddClass(tree, slot, rate) = [tree EXCEPT !.class = new] /\ tree.root
      BY <2>2 DEF AddClass, Accepts
    <3> HIDE DEF new, old
    <3> QED BY <1>1, <3>3, <3>4 DEF IsTree
  <2> QED BY <2>1, <2>2
<1>3. IsTree(AddFilter(tree, a, slot))
  BY <1>1 DEF IsTree, AddFilter
<1>4. IsTree([tree EXCEPT !.root = TRUE])
  BY <1>1 DEF IsTree
<1> QED BY <1>2, <1>3, <1>4

-----------------------------------------------------------------------------
(* The tree of the downloads, row by row *)

\* What the columns of a row hold.
LEMMA RowFields ==
    ASSUME NEW rows \in Seq(Row), NEW i \in 1..Len(rows)
    PROVE  rows[i].mac \in Macs /\ rows[i].down \in Nat /\ rows[i].up \in Nat
<1>1. rows[i] \in Row
  OBVIOUS
<1> QED BY <1>1 DEF Row

\* The root alone shapes by no rows.
LEMMA RootShapes == ASSUME NEW rows, NEW u PROVE ShapedBy(Root, rows, u, 0)
<1>1. 1..0 = {} /\ \A a : Holding(rows, u, 0, a) = {}
  BY DEF Holding
<1>2. Root.root /\ DOMAIN Root.class = {} /\ \A a \in Addrs : Root.filter[a] = 0
  BY DEF Root, NoTree
<1> QED BY <1>1, <1>2 DEF ShapedBy

\* A row of a device without an address, or without a limit for downloads, is skipped.
LEMMA SkippedRow ==
    ASSUME NEW rows \in Seq(Row), NEW u \in [Macs -> Addrs \cup {NoAddr}], NEW tree,
           NEW n \in 1..Len(rows), ShapedBy(tree, rows, u, n - 1),
           rows[n].down = 0 \/ u[rows[n].mac] = NoAddr
    PROVE  ShapedBy(tree, rows, u, n)
<1>1. \A s \in 1..n : rows[s].down > 0 /\ u[rows[s].mac] # NoAddr => s \in 1..n - 1
  OBVIOUS
<1>2. \A a \in Addrs : Holding(rows, u, n, a) = Holding(rows, u, n - 1, a)
  BY <1>1, BandwidthAssumption DEF Holding
<1>3. 1..n - 1 \subseteq 1..n
  OBVIOUS
<1> QED BY <1>1, <1>2, <1>3 DEF ShapedBy

\* A class without a filter is in nobody's way.
LEMMA MissedRow ==
    ASSUME NEW rows \in Seq(Row), NEW u \in [Macs -> Addrs \cup {NoAddr}], NEW tree, IsTree(tree),
           NEW n \in 1..Len(rows), ShapedBy(tree, rows, u, n - 1), u[rows[n].mac] = NoAddr,
           NEW rate \in Nat
    PROVE  ShapedBy(AddClass(tree, n, rate), rows, u, n)
<1>1. CASE ~Accepts(tree, n, rate)
  BY <1>1, SkippedRow DEF AddClass
<1>2. CASE Accepts(tree, n, rate)
  <2> DEFINE old == tree.class
             new == [s \in DOMAIN old \cup {n} |-> IF s = n THEN rate ELSE old[s]]
             with == [tree EXCEPT !.class = new]
  <2>1. AddClass(tree, n, rate) = with
    BY <1>2 DEF AddClass
  <2>2. tree \in [root : BOOLEAN, class : Classes, filter : [Addrs -> Nat]]
    BY DEF IsTree
  <2>3. with.root = tree.root /\ with.class = new /\ with.filter = tree.filter
    <3> HIDE DEF new
    <3> QED BY <2>2
  <2>4. DOMAIN new = DOMAIN old \cup {n} /\ \A s \in DOMAIN old : s # n => new[s] = old[s]
    OBVIOUS
  <2>5. ShapedBy(tree, rows, u, n)
    BY SkippedRow
  <2>6. \A s \in 1..n : s = n => u[rows[s].mac] = NoAddr
    OBVIOUS
  <2> HIDE DEF new, with
  <2>7. n \in 1..n
    OBVIOUS
  <2> QED BY <2>1, <2>3, <2>4, <2>5, <2>6, <2>7 DEF ShapedBy
<1> QED BY <1>1, <1>2

\* A list that ended short shapes as the whole one does: for no other row an address has
\* been found.
LEMMA PrefixShapes ==
    ASSUME NEW part, Listed(part), NEW rows, Listed(rows), PrefixOf(part, rows), NEW tree,
           NEW u \in [Macs -> Addrs \cup {NoAddr}], Found(part, u, Len(part)),
           ShapedBy(tree, part, u, Len(part))
    PROVE  ShapedBy(tree, rows, u, Len(rows))
<1>1. /\ part \in Seq(Row) /\ rows \in Seq(Row) /\ Distinct(rows)
      /\ Len(part) \in Nat /\ Len(rows) \in Nat /\ Len(part) <= Len(rows)
      /\ \A i \in 1..Len(part) : part[i] = rows[i] /\ i \in 1..Len(rows)
  BY DEF Listed, PrefixOf
<1>2. ASSUME NEW s \in 1..Len(rows), u[rows[s].mac] # NoAddr PROVE s \in 1..Len(part)
  <2>1. rows[s].mac \in Macs
    BY <1>1, RowFields
  <2>2. PICK i \in 1..Len(part) : part[i].mac = rows[s].mac
    BY <1>2, <2>1 DEF Found
  <2>3. i = s
    BY <1>1, <2>2 DEF Distinct
  <2> QED BY <2>3
<1>3. \A a \in Addrs : Holding(rows, u, Len(rows), a) = Holding(part, u, Len(part), a)
  BY <1>1, <1>2, BandwidthAssumption DEF Holding
<1> QED BY <1>1, <1>2, <1>3 DEF ShapedBy

\* A row that limits downloads gets its class, and its filter when no row before it has
\* the same address.
LEMMA LimitedRow ==
    ASSUME NEW rows \in Seq(Row), Distinct(rows), NEW n \in 1..Len(rows),
           NEW u \in [Macs -> Addrs \cup {NoAddr}], NEW tree, IsTree(tree),
           ShapedBy(tree, rows, u, n - 1),
           NEW a \in Addrs, rows[n].down > 0, n # DefaultClass,
           NEW v, v = [u EXCEPT ![rows[n].mac] = a]
    PROVE  /\ Accepts(tree, n, rows[n].down)
           /\ ShapedBy(AddFilter(AddClass(tree, n, rows[n].down), a, n), rows, v, n)
<1> DEFINE with == AddClass(tree, n, rows[n].down)
           new == AddFilter(with, a, n)
<1>1. /\ \A s \in 1..n : s \in 1..Len(rows) /\ rows[s].mac \in Macs
      /\ rows[n].down \in Nat /\ a # NoAddr /\ n \in Nat /\ Len(rows) \in Nat
      /\ tree \in [root : BOOLEAN, class : Classes, filter : [Addrs -> Nat]]
  BY RowFields, BandwidthAssumption DEF IsTree
<1>2. v[rows[n].mac] = a /\ \A s \in 1..n - 1 : v[rows[s].mac] = u[rows[s].mac]
  <2> SUFFICES ASSUME NEW s \in 1..n - 1 PROVE v[rows[s].mac] = u[rows[s].mac]
    BY <1>1
  <2>1. s \in 1..n /\ n \in 1..n /\ s # n
    OBVIOUS
  <2>2. rows[s].mac # rows[n].mac /\ rows[s].mac \in Macs
    BY <1>1, <2>1 DEF Distinct
  <2> QED BY <2>2
<1>4. \A b \in Addrs : \A s : s \in Holding(rows, v, n, b) <=>
          s \in Holding(rows, u, n - 1, b) \/ (s = n /\ b = a)
  <2>1. \A s : s \in 1..n <=> s \in 1..n - 1 \/ s = n
    BY <1>1
  <2> TAKE b \in Addrs
  <2> TAKE s
  <2>2. CASE s \in 1..n - 1
    <3>1. s # n /\ s \in 1..n
      BY <2>1, <2>2
    <3>2. v[rows[s].mac] = u[rows[s].mac]
      BY <1>2, <2>2
    <3>3. /\ s \in Holding(rows, v, n, b) <=> rows[s].down > 0 /\ v[rows[s].mac] = b
          /\ s \in Holding(rows, u, n - 1, b) <=> rows[s].down > 0 /\ u[rows[s].mac] = b
      BY <2>2, <3>1 DEF Holding
    <3>4. v[rows[s].mac] = b <=> u[rows[s].mac] = b
      BY <3>2
    <3> QED BY <3>1, <3>3, <3>4
  <2>3. CASE s = n
    <3>1. n \in 1..n /\ n \notin 1..n - 1
      BY <1>1
    <3> QED BY <1>2, <2>3, <3>1 DEF Holding
  <2>4. CASE s \notin 1..n - 1 /\ s # n
    BY <2>1, <2>4 DEF Holding
  <2> QED BY <2>2, <2>3, <2>4
<1>5. /\ tree.root /\ DOMAIN tree.class \subseteq 1..n - 1
      /\ \A s \in 1..n - 1 : rows[s].down > 0 /\ u[rows[s].mac] # NoAddr =>
            s \in DOMAIN tree.class /\ tree.class[s] = rows[s].down
  BY DEF ShapedBy
<1>6. Accepts(tree, n, rows[n].down)
  BY <1>1, <1>5 DEF Accepts, Has
<1>7. /\ with.root /\ with.filter = tree.filter /\ DOMAIN with.class = DOMAIN tree.class \cup {n}
      /\ with.class[n] = rows[n].down
      /\ \A s \in DOMAIN tree.class : s # n => with.class[s] = tree.class[s]
  <2> DEFINE old == tree.class
             more == [s \in DOMAIN old \cup {n} |-> IF s = n THEN rows[n].down ELSE old[s]]
  <2>1. with = [tree EXCEPT !.class = more]
    BY <1>6 DEF AddClass
  <2>2. with.root = tree.root /\ with.class = more /\ with.filter = tree.filter
    <3> HIDE DEF more, with
    <3> QED BY <1>1, <2>1
  <2> HIDE DEF with
  <2> QED BY <1>5, <2>2
<1>11. /\ DOMAIN with.class \subseteq 1..n
       /\ \A s \in 1..n : rows[s].down > 0 /\ v[rows[s].mac] # NoAddr =>
             s \in DOMAIN with.class /\ with.class[s] = rows[s].down
  <2>1. \A s : s \in 1..n <=> s \in 1..n - 1 \/ s = n
    BY <1>1
  <2>2. n \notin 1..n - 1
    BY <1>1
  <2> HIDE DEF with
  <2> QED BY <1>2, <1>5, <1>7, <2>1, <2>2
<1>8. new.root /\ new.class = with.class
      /\ new.filter = IF tree.filter[a] = 0 THEN [tree.filter EXCEPT ![a] = n] ELSE tree.filter
  <2> HIDE DEF with
  <2>1. new = IF with.root /\ with.filter[a] = 0 THEN [with EXCEPT !.filter[a] = n] ELSE with
    BY DEF AddFilter
  <2>2. IsTree(with)
    BY <1>1, TreesKept DEF with, Row
  <2>3. with \in [root : BOOLEAN, class : Classes, filter : [Addrs -> Nat]]
    BY <2>2 DEF IsTree
  <2> QED BY <1>7, <2>1, <2>3
<1>9. ASSUME NEW b \in Addrs
      PROVE  \/ Holding(rows, v, n, b) = {} /\ new.filter[b] = 0
             \/ /\ new.filter[b] \in Holding(rows, v, n, b)
                /\ \A s \in Holding(rows, v, n, b) : new.filter[b] <= s
  <2>1. \/ Holding(rows, u, n - 1, b) = {} /\ tree.filter[b] = 0
        \/ /\ tree.filter[b] \in Holding(rows, u, n - 1, b)
           /\ \A s \in Holding(rows, u, n - 1, b) : tree.filter[b] <= s
    BY DEF ShapedBy
  <2> HIDE DEF new, with
  <2>2. CASE b # a
    <3>1. Holding(rows, v, n, b) = Holding(rows, u, n - 1, b)
      BY <1>4, <2>2 DEF Holding
    <3>2. new.filter[b] = tree.filter[b]
      BY <1>1, <1>8, <2>2
    <3> QED BY <2>1, <3>1, <3>2
  <2>3. CASE b = a
    <3>1. Holding(rows, v, n, a) = Holding(rows, u, n - 1, a) \cup {n}
      BY <1>4
    <3>2. Holding(rows, u, n - 1, a) \subseteq 1..n - 1
      BY DEF Holding
    <3>3. CASE Holding(rows, u, n - 1, a) = {} /\ tree.filter[a] = 0
      <4>1. new.filter[a] = n
        BY <1>1, <1>8, <3>3
      <4>2. Holding(rows, v, n, a) = {n}
        BY <3>1, <3>3
      <4>3. \A s \in {n} : n <= s
        BY <1>1
      <4> QED BY <2>3, <4>1, <4>2, <4>3
    <3>4. CASE /\ tree.filter[a] \in Holding(rows, u, n - 1, a)
               /\ \A s \in Holding(rows, u, n - 1, a) : tree.filter[a] <= s
      <4>1. tree.filter[a] # 0 /\ tree.filter[a] <= n
        BY <1>1, <3>2, <3>4
      <4>2. new.filter[a] = tree.filter[a]
        BY <1>8, <4>1
      <4> QED BY <2>3, <3>1, <3>4, <4>1, <4>2
    <3> QED BY <2>1, <2>3, <3>3, <3>4
  <2> QED BY <2>2, <2>3
<1>10. ShapedBy(new, rows, v, n)
  <2> HIDE DEF new, with
  <2> QED BY <1>7, <1>8, <1>9, <1>11 DEF ShapedBy
<1> QED BY <1>6, <1>10

\* A tree shaped by all the enabled rows holds every address to what they demand.
LEMMA ShapedIsDemanded ==
    ASSUME Listed(Enabled), ShapedBy(lan, Enabled, used.down, Len(Enabled)), NEW a \in Addrs
    PROVE  DownRate(a) = Demanded(a, "down")
<1> DEFINE L == Limiting(a, "down")
<1>1. Enabled \in Seq(Row) /\ Len(Enabled) \in Nat /\ DOMAIN Enabled = 1..Len(Enabled) /\ a # NoAddr
  BY BandwidthAssumption DEF Listed
<1>2. L = Holding(Enabled, used.down, Len(Enabled), a)
  BY <1>1 DEF Limiting, Holding
<1>3. /\ DOMAIN lan.class \subseteq 1..Len(Enabled)
      /\ \A s \in 1..Len(Enabled) : Enabled[s].down > 0 /\ used.down[Enabled[s].mac] # NoAddr =>
            s \in DOMAIN lan.class /\ lan.class[s] = Enabled[s].down
  BY DEF ShapedBy
<1>4. CASE L = {} /\ lan.filter[a] = 0
  BY <1>3, <1>4 DEF DownRate, Rate, Has, Demanded
<1>5. CASE lan.filter[a] \in L /\ \A s \in L : lan.filter[a] <= s
  <2> DEFINE first == CHOOSE i \in L : \A j \in L : i <= j
  <2>1. first \in L /\ \A j \in L : first <= j
    BY <1>5
  <2>2. L \subseteq Nat
    BY <1>2 DEF Holding
  <2>3. first = lan.filter[a]
    <3> HIDE DEF first, L
    <3>1. first <= lan.filter[a] /\ lan.filter[a] <= first
      BY <1>5, <2>1
    <3>2. first \in Nat /\ lan.filter[a] \in Nat
      BY <1>5, <2>1, <2>2
    <3> QED BY <3>1, <3>2
  <2>4. Demanded(a, "down") = Enabled[first].down
    BY <1>5 DEF Demanded
  <2>5. /\ lan.filter[a] \in 1..Len(Enabled) /\ Enabled[lan.filter[a]].down > 0
        /\ used.down[Enabled[lan.filter[a]].mac] # NoAddr
    BY <1>1, <1>2, <1>5 DEF Holding
  <2>6. DownRate(a) = Enabled[lan.filter[a]].down
    BY <1>3, <2>5 DEF DownRate, Rate, Has
  <2> QED BY <2>3, <2>4, <2>6
<1>6. \/ L = {} /\ lan.filter[a] = 0
      \/ lan.filter[a] \in L /\ \A s \in L : lan.filter[a] <= s
  BY <1>2 DEF ShapedBy
<1> QED BY <1>4, <1>5, <1>6

-----------------------------------------------------------------------------
(* The invariant *)

\* The invariant holds when the daemon starts.
LEMMA InitInvariant == Init => IInv
<1> SUFFICES ASSUME Init PROVE IInv
  OBVIOUS
<1>1. Counts
  <2>1. clean \in BOOLEAN /\ pc \in [Procs -> Labels]
    BY DEF Init, Labels
  <2>2. now = 1 /\ settled = 0 /\ stamp = [p \in Procs |-> 1]
    BY DEF Init
  <2> QED BY <2>1, <2>2 DEF Counts
<1>2. Mutex
  BY BandwidthAssumption DEF Init, Mutex
<1>3. Listed(limits)
  BY DEF Init, Listed, Distinct
<1>4. Addresses
  BY DEF Init, Addresses
<1>5. Kernel
  BY FirstTrees DEF Init, Kernel
<1>6. Working
  BY DEF Init, Working, Listed, Distinct, NoUse
<1>7. Progress /\ Outdated /\ SettledIsApplied
  BY DEF Init, Progress, Reached, Outdated, SettledIsApplied, Settled
<1> QED BY <1>1, <1>2, <1>3, <1>4, <1>5, <1>6, <1>7 DEF IInv

\* The number of a new change is none of the older ones.
LEMMA LaterIsOther == \A a, b \in Nat : a <= b => a # b + 1
OBVIOUS

\* A request: nobody inside Apply has its change.
LEMMA CommitInvariant ==
    ASSUME IInv, NEW r \in Requests, NEW new, Listed(new), Commit(r, new)
    PROVE  IInv'
<1>1. Counts /\ Mutex /\ Addresses /\ Kernel /\ Working /\ Progress /\ Outdated
  BY DEF IInv
<1>2. /\ r \in Procs /\ pc[r] = "idle" /\ now' = now + 1 /\ limits' = new
      /\ stamp' = [stamp EXCEPT ![r] = now + 1] /\ pc' = [pc EXCEPT ![r] = "lock"]
      /\ lock' = lock /\ lan' = lan /\ redirect' = redirect /\ ifb' = ifb
      /\ settled' = settled /\ clean' = clean /\ kept' = kept /\ used' = used
      /\ active' = active /\ row' = row
      /\ addr' = addr /\ lease' = lease /\ found' = found /\ serving' = serving
  BY DEF Commit, kernel, scan, Procs
<1>3. \A p \in Procs : /\ pc'[p] = IF p = r THEN "lock" ELSE pc[p]
                       /\ stamp'[p] = IF p = r THEN now + 1 ELSE stamp[p]
  BY <1>1, <1>2 DEF Counts
<1>4. /\ now \in Nat /\ settled \in Nat /\ settled <= now
      /\ clean \in BOOLEAN
      /\ \A p \in Procs : stamp[p] \in Nat /\ 1 <= stamp[p] /\ stamp[p] <= now
  BY <1>1 DEF Counts
<1>5. Counts'
  <2>1. now' \in Nat /\ settled' \in Nat /\ settled' <= now' /\ clean' \in BOOLEAN
    BY <1>2, <1>4
  <2>2. stamp' \in [Procs -> Nat] /\ pc' \in [Procs -> Labels]
    BY <1>1, <1>2, <2>1 DEF Counts, Labels
  <2>3. \A p \in Procs : 1 <= stamp'[p] /\ stamp'[p] <= now'
    BY <1>2, <1>3, <1>4
  <2> QED BY <2>1, <2>2, <2>3 DEF Counts
<1>6. Mutex'
  BY <1>1, <1>2, <1>3 DEF Mutex
<1>7. Listed(limits)' /\ Addresses' /\ Kernel' /\ Working'
  BY <1>1, <1>2 DEF Listed, Distinct, Addresses, Kernel, IsTree, Working
<1>8. Progress'
  <2> SUFFICES ASSUME NEW p \in Procs PROVE Reached(pc[p])'
    BY DEF Progress
  <2>1. CASE p = r
    <3>1. pc'[p] = "lock"
      BY <1>3, <2>1
    <3> QED BY <3>1 DEF Reached
  <2>2. CASE p # r
    <3>1. pc'[p] = pc[p] /\ Reached(pc[p])
      BY <1>1, <1>3, <2>2 DEF Progress
    <3> QED BY <1>2, <3>1 DEF Reached, Found, Bare, NoUse
  <2> QED BY <2>1, <2>2
<1>9. Outdated'
  <2> SUFFICES ASSUME NEW p \in Procs, pc'[p] \in {"row", "up row"}
               PROVE  active' # <<>> /\ settled' # now' /\ stamp'[p] # now'
    BY DEF Outdated
  <2>1. p # r
    BY <1>3
  <2>2. settled # now + 1 /\ stamp[p] # now + 1
    BY <1>4, LaterIsOther
  <2> QED BY <1>1, <1>2, <1>3, <2>1, <2>2 DEF Outdated
<1>10. SettledIsApplied'
  BY <1>2, <1>4 DEF SettledIsApplied, Settled
<1> QED BY <1>5, <1>6, <1>7, <1>8, <1>9, <1>10 DEF IInv

\* A step of the holder that keeps the mutex has only its own part to keep.
LEMMA HolderInvariant ==
    ASSUME IInv, NEW p \in Procs, NEW l \in {"clear", "list", "row", "up row"},
           lock \in {Free, p}, lock' = p, pc' = [pc EXCEPT ![p] = l],
           UNCHANGED <<tables, serving, scan, now, stamp, settled, clean>>,
           Kernel', Working', Reached(l)',
           l \in {"row", "up row"} =>
               /\ active' # <<>>
               /\ ~PrefixOf(active', Enabled) => settled # now /\ stamp[p] # now
    PROVE  IInv'
<1>1. Counts /\ Mutex /\ Listed(limits) /\ Addresses
  BY DEF IInv
<1>2. p # Free
  BY BandwidthAssumption
<1>3. /\ limits' = limits /\ addr' = addr /\ serving' = serving /\ lease' = lease
      /\ found' = found /\ now' = now /\ stamp' = stamp /\ settled' = settled
      /\ clean' = clean
  BY DEF tables, scan
<1>4. \A q \in Procs : pc'[q] = IF q = p THEN l ELSE pc[q]
  BY <1>1 DEF Counts
<1>5. \A q \in Procs : q # p => pc[q] \in {"idle", "lock"}
  BY <1>1, BandwidthAssumption DEF Mutex
<1>6. Counts'
  BY <1>1, <1>3, <1>4 DEF Counts, Labels
<1>7. Mutex'
  BY <1>4, <1>5 DEF Mutex
<1>8. Listed(limits)' /\ Addresses'
  BY <1>1, <1>3 DEF Listed, Distinct, Addresses
<1>9. Progress'
  <2>1. \A q \in Procs : q # p => pc'[q] \in {"idle", "lock"}
    BY <1>4, <1>5
  <2> QED BY <1>4, <2>1 DEF Progress, Reached
<1>10. Outdated'
  BY <1>3, <1>4, <1>5 DEF Outdated, Enabled, PrefixOf
<1>11. SettledIsApplied'
  BY <1>2 DEF SettledIsApplied, Settled
<1> QED BY <1>6, <1>7, <1>8, <1>9, <1>10, <1>11 DEF IInv

\* The holder returns.
LEMMA ReturnInvariant ==
    ASSUME IInv, NEW p \in Procs, NEW ok \in BOOLEAN, Return(p, ok),
           pc[p] \notin {"idle", "lock"}, used' = used, Kernel',
           ok /\ (settled = now \/ stamp[p] = now) => Applied'
    PROVE  IInv'
<1>1. Counts /\ Mutex /\ Listed(limits) /\ Addresses /\ Working
  BY DEF IInv
<1>2. /\ lock' = Free /\ pc' = [pc EXCEPT ![p] = "idle"] /\ now' = now
      /\ stamp' = [stamp EXCEPT ![p] = 1]
      /\ settled' = IF ok /\ stamp[p] > settled THEN stamp[p] ELSE settled
      /\ limits' = limits /\ addr' = addr /\ lease' = lease /\ found' = found
      /\ active' = <<>> /\ row' = 1 /\ serving' = (serving \/ p = Startup) /\ clean' = ok
  BY DEF Return, tables, scan
<1>3. \A q \in Procs : pc'[q] \in {"idle", "lock"}
  BY <1>1, <1>2 DEF Counts, Mutex
<1>4. settled' \in Nat /\ settled' <= now /\ settled' \in {settled, stamp[p]}
  BY <1>1, <1>2 DEF Counts
<1>5. Counts'
  <2>1. now \in Nat /\ 1 <= now
    BY <1>1 DEF Counts
  <2>2. stamp' \in [Procs -> Nat] /\ \A q \in Procs : 1 <= stamp'[q] /\ stamp'[q] <= now
    BY <1>1, <1>2, <2>1 DEF Counts
  <2> QED BY <1>1, <1>2, <1>4, <2>2 DEF Counts, Labels
<1>6. Mutex'
  BY <1>2, <1>3, BandwidthAssumption DEF Mutex
<1>7. Listed(limits)' /\ Addresses'
  BY <1>1, <1>2 DEF Listed, Distinct, Addresses
<1>8. Working'
  BY <1>1, <1>2 DEF Working, Listed, Distinct
<1>9. Progress' /\ Outdated'
  BY <1>3 DEF Progress, Reached, Outdated
<1>10. SettledIsApplied'
  <2>1. now \in Nat /\ settled \in Nat /\ stamp[p] \in Nat
    BY <1>1 DEF Counts
  <2> QED BY <1>2, <1>4, <2>1 DEF SettledIsApplied, Settled
<1> QED BY <1>5, <1>6, <1>7, <1>8, <1>9, <1>10 DEF IInv

\* Before it lists the limits: the mutex is taken and the interface cleared.
LEMMA ClearInvariant ==
    ASSUME IInv, NEW p \in Procs, Acquire(p) \/ Clear(p) \/ ClearFails(p)
    PROVE  IInv'
<1>1. Counts /\ Mutex /\ Kernel /\ Working /\ Progress
  BY DEF IInv
<1>2. CASE Acquire(p)
  <2>1. /\ lock = Free /\ lock' = p /\ pc' = [pc EXCEPT ![p] = "clear"]
        /\ UNCHANGED <<tables, serving, scan, now, stamp, settled, clean>>
        /\ lan' = lan /\ redirect' = redirect /\ ifb' = ifb /\ active' = active /\ row' = row
        /\ used' = NoUse
    BY <1>2 DEF Acquire, kernel
  <2>2. Kernel' /\ Working'
    BY <1>1, <2>1 DEF Kernel, IsTree, Working, Listed, Distinct, NoUse
  <2>3. Reached("clear")'
    BY <2>1 DEF Reached, NoUse
  <2> QED BY <2>1, <2>2, <2>3, HolderInvariant
<1>3. CASE Clear(p) \/ ClearFails(p)
  <2>1. /\ pc[p] = "clear" /\ lock' = lock /\ pc' = [pc EXCEPT ![p] = "list"]
        /\ UNCHANGED <<tables, serving, scan, now, stamp, settled, clean>>
        /\ ifb' = ifb /\ active' = active /\ row' = row /\ used' = used
        /\ lan' \in {lan, NoTree} /\ redirect' \in {redirect, FALSE}
    BY <1>3 DEF Clear, ClearFails, Fault, Step
  <2>2. lock = p
    BY <1>1, <2>1 DEF Mutex
  <2>3. Bare'
    <3>1. CASE Clear(p)
      BY <3>1 DEF Clear, Bare
    <3>2. CASE ClearFails(p)
      <4>1. /\ lan' \in {lan, NoTree} /\ redirect' \in {redirect, FALSE}
            /\ kept' = (IF lan'.root THEN {"root"} ELSE {})
                          \cup (IF redirect' THEN {"ingress"} ELSE {})
        BY <3>2 DEF ClearFails
      <4>2. ~lan'.root => lan' = NoTree
        BY <1>1, <4>1, FirstTrees DEF Kernel, IsTree
      <4>3. redirect' \in BOOLEAN
        BY <1>1, <4>1 DEF Kernel
      <4> QED BY <4>1, <4>2, <4>3 DEF Bare
    <3> QED BY <1>3, <3>1, <3>2
  <2>4. Kernel' /\ Working'
    BY <1>1, <2>1, FirstTrees DEF Kernel, IsTree, NoTree, Working, Listed, Distinct
  <2>5. Reached("list")'
    BY <1>1, <2>1, <2>3 DEF Progress, Reached, NoUse
  <2> QED BY <2>1, <2>2, <2>4, <2>5, HolderInvariant
<1> QED BY <1>2, <1>3

\* The limits are listed, all or not: a root on a cleared interface, or an early return.
LEMMA ListInvariant ==
    ASSUME IInv, NEW p \in Procs,
           ListLimits(p) \/ NothingActive(p) \/ RootExists(p) \/ ListFails(p) \/ ListShort(p)
    PROVE  IInv'
<1>1. Counts /\ Mutex /\ Listed(limits) /\ Kernel /\ Working /\ Progress
  BY DEF IInv
<1>2. /\ pc[p] = "list" /\ lock = p /\ used = NoUse /\ Bare
  <2>1. pc[p] = "list"
    BY DEF ListLimits, NothingActive, RootExists, ListFails, ListShort, Fault, Step
  <2> QED BY <1>1, <2>1 DEF Mutex, Progress, Reached
<1>3. Listed(Enabled)
  BY <1>1, EnabledAreRows DEF Listed, Enabled
<1>4. ASSUME NEW part, Listed(part), part # <<>>, PrefixOf(part, Enabled), Step(p, "list", "row"),
             active' = part, row' = 1, lan' = Root,
             UNCHANGED <<redirect, ifb, kept, used>>
      PROVE  IInv'
  <2>1. /\ lock' = lock /\ pc' = [pc EXCEPT ![p] = "row"]
        /\ UNCHANGED <<tables, serving, scan, now, stamp, settled, clean>>
    BY <1>4 DEF Step
  <2>2. Kernel'
    BY <1>1, <1>4, FirstTrees DEF Kernel, IsTree, Root, NoTree
  <2>3. Working'
    <3>1. 1 \in Nat /\ 1 <= 1 /\ 1 <= Len(part) + 1
      BY <1>4 DEF Listed
    <3> QED BY <1>1, <1>4, <3>1 DEF Working, Listed, Distinct
  <2>4. Reached("row")'
    <3>1. ShapedBy(Root, active', used'.down, 0)
      BY RootShapes
    <3>2. Found(active', used'.down, 0)
      BY <1>2, <1>4 DEF NoUse, Found
    <3> QED BY <1>4, <3>1, <3>2 DEF Reached
  <2> QED BY <1>2, <1>4, <2>1, <2>2, <2>3, <2>4, HolderInvariant
<1>5. ASSUME NEW ok \in BOOLEAN, Return(p, ok), lan' \in {lan, Root},
             ok => lan' = lan,
             UNCHANGED <<redirect, ifb, kept, used>>
      PROVE  IInv'
  <2>1. Enabled' = Enabled
    BY <1>5 DEF Return, tables, Enabled
  <2>2. Kernel'
    BY <1>1, <1>5, FirstTrees DEF Kernel, IsTree, Root, NoTree
  <2>3. ok => Applied'
    BY <1>2, <1>5, <2>1 DEF Applied, Bare, NoTree, NoUse
  <2> QED BY <1>2, <1>5, <2>2, <2>3, ReturnInvariant
<1>6. CASE ListLimits(p)
  <2>1. PrefixOf(Enabled, Enabled)
    BY <1>3 DEF Listed, PrefixOf
  <2> QED BY <1>3, <1>4, <1>6, <2>1 DEF ListLimits
<1>7. CASE NothingActive(p) \/ RootExists(p) \/ ListFails(p)
  BY <1>5, <1>7 DEF NothingActive, RootExists, ListFails, kernel
<1>8. CASE ListShort(p)
  <2>1. CASE Return(p, TRUE) /\ UNCHANGED lan
    BY <1>5, <1>8, <2>1 DEF ListShort
  <2>2. ASSUME NEW n \in 1..Len(Enabled) - 1, Step(p, "list", "row"),
               active' = SubSeq(Enabled, 1, n), row' = 1, lan' = Root
        PROVE  IInv'
    <3> DEFINE part == SubSeq(Enabled, 1, n)
    <3>1. Enabled \in Seq(Row) /\ Len(Enabled) \in Nat /\ n \in Nat /\ 1 <= n /\ n <= Len(Enabled)
      BY <1>3 DEF Listed
    <3>2. part \in Seq(Row) /\ Len(part) = n /\ \A i \in 1..n : part[i] = Enabled[i]
      BY <3>1
    <3> HIDE DEF part
    <3>3. PrefixOf(part, Enabled) /\ part # <<>>
      BY <3>1, <3>2 DEF PrefixOf
    <3>4. Listed(part)
      BY <1>3, <3>1, <3>2 DEF Listed, Distinct
    <3> QED BY <1>4, <1>8, <2>2, <3>3, <3>4 DEF ListShort, part
  <2> QED BY <1>8, <2>1, <2>2 DEF ListShort
<1> QED BY <1>6, <1>7, <1>8

\* One row of the downloads.
LEMMA DownloadInvariant ==
    ASSUME IInv, NEW p \in Procs, LimitDownload(p) \/ DownloadFails(p)
    PROVE  IInv'
<1> DEFINE l == active[row]
           a == AddrOf(l)
<1>1. Counts /\ Mutex /\ Addresses /\ Kernel /\ Working /\ Progress /\ Outdated
  BY DEF IInv
<1>2. /\ pc[p] = "row" /\ row <= Len(active) /\ row' = row + 1
      /\ UNCHANGED <<tables, serving, scan, now, stamp, settled, clean>>
      /\ pc' = pc /\ lock' = lock /\ active' = active /\ redirect' = redirect /\ ifb' = ifb
      /\ limits' = limits
  BY DEF LimitDownload, DownloadFails, Round, tables
<1>3. lock = p /\ pc' = [pc EXCEPT ![p] = "row"]
  BY <1>1, <1>2 DEF Mutex, Counts
<1>4. /\ active \in Seq(Row) /\ Distinct(active) /\ Len(active) \in Nat /\ row \in Nat /\ 1 <= row
      /\ row \in 1..Len(active) /\ l.mac \in Macs /\ l.down \in Nat /\ IsTree(lan)
      /\ a \in Addrs \cup {NoAddr} /\ used \in [{"down", "up"} -> [Macs -> Addrs \cup {NoAddr}]]
  <2>1. active \in Seq(Row) /\ Distinct(active) /\ row \in Nat /\ 1 <= row
    BY <1>1 DEF Working, Listed
  <2>2. Len(active) \in Nat /\ row \in 1..Len(active)
    BY <1>2, <2>1
  <2>3. l.mac \in Macs /\ l.down \in Nat
    BY <2>1, <2>2, RowFields
  <2>4. a \in Addrs \cup {NoAddr}
    BY <1>1, <2>3, BandwidthAssumption DEF Addresses, AddrOf
  <2> HIDE DEF l, a
  <2> QED BY <1>1, <2>1, <2>2, <2>3, <2>4 DEF Kernel, Working
<1>5. active # <<>> /\ (~PrefixOf(active, Enabled) => settled # now /\ stamp[p] # now)
      /\ Enabled' = Enabled
  BY <1>1, <1>2 DEF Outdated, Enabled
<1>6. SUFFICES Kernel' /\ Working' /\ Reached("row")'
  BY <1>2, <1>3, <1>5, HolderInvariant
<1>7. row' \in Nat /\ 1 <= row' /\ row' <= Len(active') + 1 /\ row' - 1 = row
  BY <1>2, <1>4
<1>10. Found(active, used.down, row - 1)
       /\ (Len(active) < DefaultClass => ShapedBy(lan, active, used.down, row - 1))
  BY <1>1, <1>2 DEF Progress, Reached
<1>11. used.down[l.mac] = NoAddr
  <2> SUFFICES ASSUME used.down[l.mac] # NoAddr PROVE FALSE
    OBVIOUS
  <2>1. PICK i \in 1..row - 1 : active[i].mac = l.mac
    BY <1>4, <1>10 DEF Found
  <2>2. i \in 1..Len(active) /\ i # row
    BY <1>4
  <2> QED BY <1>4, <2>1, <2>2 DEF Distinct
<1>12. \A i \in 1..row - 1 : i \in 1..row
  BY <1>4
<1>8. CASE DownloadFails(p)
  <2>1. /\ used' = used
        /\ lan' \in {lan} \cup (IF a = NoAddr THEN {} ELSE {AddClass(lan, row, l.down)})
    BY <1>8 DEF DownloadFails
  <2>2. CASE a = NoAddr
    <3>1. lan' = lan
      BY <2>1, <2>2
    <3>2. Len(active) < DefaultClass => ShapedBy(lan, active, used.down, row)
      BY <1>4, <1>10, <1>11, SkippedRow
    <3>3. Found(active, used.down, row)
      BY <1>10, <1>12 DEF Found
    <3> HIDE DEF l, a
    <3>4. Kernel' /\ Working'
      BY <1>1, <1>2, <1>7, <2>1, <3>1 DEF Kernel, IsTree, Working, Listed, Distinct
    <3> QED BY <1>2, <1>7, <2>1, <3>1, <3>2, <3>3, <3>4 DEF Reached
  <2>3. CASE a # NoAddr
    <3>1. lan' = lan \/ lan' = AddClass(lan, row, l.down)
      BY <2>1, <2>3
    <3>2. IsTree(AddClass(lan, row, l.down))
      BY <1>4, <2>3, TreesKept
    <3>3. Len(active) < DefaultClass =>
             /\ ShapedBy(lan, active, used.down, row)
             /\ ShapedBy(AddClass(lan, row, l.down), active, used.down, row)
      <4> SUFFICES ASSUME Len(active) < DefaultClass
                   PROVE  /\ ShapedBy(lan, active, used.down, row)
                          /\ ShapedBy(AddClass(lan, row, l.down), active, used.down, row)
        OBVIOUS
      <4>1. used.down \in [Macs -> Addrs \cup {NoAddr}]
        BY <1>4
      <4> QED BY <1>4, <1>10, <1>11, <4>1, SkippedRow, MissedRow
    <3>4. Found(active, used.down, row)
      BY <1>10, <1>12 DEF Found
    <3> HIDE DEF l, a
    <3>5. Kernel' /\ Working'
      BY <1>1, <1>2, <1>4, <1>7, <2>1, <3>1, <3>2 DEF Kernel, IsTree, Working, Listed, Distinct
    <3> QED BY <1>2, <1>7, <2>1, <3>1, <3>3, <3>4, <3>5 DEF Reached
  <2> QED BY <2>2, <2>3
<1>9. CASE LimitDownload(p)
  <2>1. /\ lan' = IF a = NoAddr \/ ~Accepts(lan, row, l.down) THEN lan
                  ELSE AddFilter(AddClass(lan, row, l.down), a, row)
        /\ used' = IF l.down = 0 THEN used ELSE [used EXCEPT !.down[l.mac] = a]
    BY <1>9 DEF LimitDownload
  <2>2. IsTree(lan')
    <3>1. CASE a = NoAddr \/ ~Accepts(lan, row, l.down)
      BY <1>4, <2>1, <3>1
    <3>2. CASE ~(a = NoAddr \/ ~Accepts(lan, row, l.down))
      <4>1. IsTree(AddClass(lan, row, l.down)) /\ a \in Addrs
        BY <1>4, <3>2, TreesKept
      <4> QED BY <1>4, <2>1, <3>2, <4>1, TreesKept
    <3> QED BY <3>1, <3>2
  <2>3. /\ used' \in [{"down", "up"} -> [Macs -> Addrs \cup {NoAddr}]]
        /\ used'.down = IF l.down = 0 THEN used.down ELSE [used.down EXCEPT ![l.mac] = a]
    BY <1>4, <2>1
  <2>4. Kernel'
    BY <1>1, <1>2, <2>1, <2>2 DEF Kernel, IsTree
  <2>5. Working'
    BY <1>1, <1>2, <1>7, <2>3 DEF Working, Listed, Distinct
  <2>6. Reached("row")'
    <3>2. used.down \in [Macs -> Addrs \cup {NoAddr}]
          /\ used'.down \in [Macs -> Addrs \cup {NoAddr}]
      BY <1>4, <2>3
    <3>3. Found(active, used'.down, row)
      <4> SUFFICES ASSUME NEW m \in Macs, used'.down[m] # NoAddr
                   PROVE  \E i \in 1..row : active[i].mac = m
        BY DEF Found
      <4>1. CASE m = l.mac
        BY <1>4, <4>1
      <4>2. CASE m # l.mac
        <5>1. used.down[m] # NoAddr
          BY <2>3, <3>2, <4>2
        <5> QED BY <1>10, <1>12, <5>1 DEF Found
      <4> QED BY <4>1, <4>2
    <3> SUFFICES ASSUME Len(active) < DefaultClass
                 PROVE  ShapedBy(lan', active, used'.down, row)
      BY <1>2, <1>7, <3>3 DEF Reached
    <3>1. ShapedBy(lan, active, used.down, row - 1)
      BY <1>10
    <3>4. CASE l.down = 0
      <4>1. ~Accepts(lan, row, l.down)
        BY <3>4 DEF Accepts
      <4>2. lan' = lan /\ used'.down = used.down
        BY <2>1, <2>3, <3>4, <4>1
      <4> QED BY <1>4, <3>1, <3>2, <3>4, <4>2, SkippedRow
    <3>5. CASE l.down # 0 /\ a = NoAddr
      <4>1. lan' = lan /\ used'.down = used.down
        BY <1>4, <1>11, <2>1, <2>3, <3>2, <3>5
      <4> QED BY <1>4, <1>11, <3>1, <3>2, <4>1, SkippedRow
    <3>6. CASE l.down # 0 /\ a # NoAddr
      <4>1. a \in Addrs /\ l.down > 0 /\ row # DefaultClass
            /\ used'.down = [used.down EXCEPT ![l.mac] = a]
        BY <1>4, <2>3, <3>6, BandwidthAssumption
      <4>2. /\ Accepts(lan, row, l.down)
            /\ ShapedBy(AddFilter(AddClass(lan, row, l.down), a, row), active, used'.down, row)
        BY <1>4, <3>1, <3>2, <4>1, LimitedRow
      <4> QED BY <2>1, <3>6, <4>2
    <3> QED BY <3>4, <3>5, <3>6
  <2> QED BY <2>4, <2>5, <2>6
<1> QED BY <1>8, <1>9

\* ifb0 is set up, and one row of the uploads: the tree of the downloads stays.
LEMMA UploadInvariant ==
    ASSUME IInv, NEW p \in Procs,
           SetupIfb(p) \/ SetupFails(p) \/ LimitUpload(p) \/ UploadFails(p)
    PROVE  IInv'
<1>1. Counts /\ Mutex /\ Addresses /\ Kernel /\ Working /\ Progress /\ Outdated
  BY DEF IInv
<1>2. /\ pc[p] \in {"row", "up row"} /\ pc' = [pc EXCEPT ![p] = "up row"]
      /\ UNCHANGED <<tables, serving, scan, now, stamp, settled, clean>>
      /\ lock' = lock /\ active' = active /\ lan' = lan /\ limits' = limits
      /\ row' \in {1, row + 1} /\ (pc[p] = "row" => row > Len(active) /\ row' = 1)
      /\ (pc[p] = "up row" => row <= Len(active))
  <2>1. CASE SetupIfb(p) \/ SetupFails(p)
    BY <2>1 DEF SetupIfb, SetupFails, Step, Fault, tables
  <2>2. CASE LimitUpload(p) \/ UploadFails(p)
    <3>1. pc[p] = "up row" /\ pc' = pc
      BY <2>2 DEF LimitUpload, UploadFails, Round
    <3>2. pc' = [pc EXCEPT ![p] = "up row"]
      BY <1>1, <3>1 DEF Counts
    <3> QED BY <2>2, <3>1, <3>2 DEF LimitUpload, UploadFails, Round, Fault, tables
  <2> QED BY <2>1, <2>2
<1>3. lock = p
  BY <1>1, <1>2 DEF Mutex
<1>4. active # <<>> /\ (~PrefixOf(active, Enabled) => settled # now /\ stamp[p] # now)
      /\ Enabled' = Enabled
  BY <1>1, <1>2 DEF Outdated, Enabled
<1>5. SUFFICES Kernel' /\ Working' /\ Reached("up row")'
  BY <1>2, <1>3, <1>4, HolderInvariant
<1>6. /\ active \in Seq(Row) /\ Distinct(active) /\ Len(active) \in Nat
      /\ row \in Nat /\ 1 <= row /\ row <= Len(active) + 1 /\ IsTree(ifb)
      /\ used \in [{"down", "up"} -> [Macs -> Addrs \cup {NoAddr}]]
  BY <1>1 DEF Working, Listed, Kernel
<1>7. row' \in Nat /\ 1 <= row' /\ row' <= Len(active) + 1
  <2>1. \/ row' = 1
        \/ row' = row + 1 /\ row <= Len(active)
    BY <1>2
  <2> QED BY <1>6, <2>1
<1>8. /\ IsTree(ifb') /\ redirect' \in {redirect, TRUE}
      /\ used'.down = used.down
      /\ used' \in [{"down", "up"} -> [Macs -> Addrs \cup {NoAddr}]]
  <2>1. CASE SetupIfb(p) \/ SetupFails(p)
    <3>1. ifb' \in {ifb, [ifb EXCEPT !.root = TRUE]} /\ redirect' \in {redirect, TRUE} /\ used' = used
      BY <2>1 DEF SetupIfb, SetupFails
    <3>2. IsTree([ifb EXCEPT !.root = TRUE])
      <4>1. ifb \in [root : BOOLEAN, class : Classes, filter : [Addrs -> Nat]]
        BY <1>6 DEF IsTree
      <4> QED BY <4>1 DEF IsTree
    <3> QED BY <1>6, <3>1, <3>2
  <2>2. CASE LimitUpload(p) \/ UploadFails(p)
    <3> DEFINE l == active[row]
               a == AddrOf(l)
               with == AddClass(ifb, row, l.up)
    <3>1. row \in 1..Len(active) /\ redirect' = redirect
      <4>1. Round(p, "up row") /\ redirect' = redirect
        BY <2>2 DEF LimitUpload, UploadFails
      <4>2. row <= Len(active)
        BY <4>1 DEF Round
      <4>3. row \in 1..Len(active)
        BY <1>6, <4>2
      <4> QED BY <4>1, <4>3
    <3>2. l.mac \in Macs /\ l.up \in Nat
      BY <1>6, <3>1, RowFields
    <3>3. a \in Addrs \cup {NoAddr}
      BY <1>1, <3>2, BandwidthAssumption DEF Addresses, AddrOf
    <3>4. CASE l.up = 0 \/ a = NoAddr
      <4>1. ifb' = ifb /\ used' = used
        BY <2>2, <3>4 DEF LimitUpload, UploadFails
      <4> QED BY <1>6, <3>1, <4>1
    <3>5. CASE ~(l.up = 0 \/ a = NoAddr)
      <4>1. IsTree(with) /\ IsTree(AddFilter(ifb, a, row))
        BY <1>6, <3>2, <3>3, <3>5, TreesKept
      <4>2. IsTree(AddFilter(with, a, row))
        <5> HIDE DEF with
        <5> QED BY <1>6, <3>2, <3>3, <3>5, <4>1, TreesKept
      <4>3. ifb' \in {ifb, with, AddFilter(ifb, a, row), AddFilter(with, a, row)}
        BY <2>2, <3>5 DEF LimitUpload, UploadFails
      <4>4. used' \in {used, [used EXCEPT !.up[l.mac] = a]}
        BY <2>2, <3>5 DEF LimitUpload, UploadFails
      <4>5. /\ used'.down = used.down
            /\ used' \in [{"down", "up"} -> [Macs -> Addrs \cup {NoAddr}]]
        <5> HIDE DEF l, a
        <5> QED BY <1>6, <3>2, <3>3, <4>4
      <4> QED BY <1>6, <3>1, <4>1, <4>2, <4>3, <4>5
    <3> QED BY <3>4, <3>5
  <2> QED BY <2>1, <2>2
<1>9. Kernel'
  BY <1>1, <1>2, <1>8 DEF Kernel, IsTree
<1>10. Working'
  BY <1>1, <1>2, <1>7, <1>8 DEF Working, Listed, Distinct
<1>11. Reached("up row")'
  <2> SUFFICES /\ Found(active, used.down, Len(active))
               /\ Len(active) < DefaultClass => ShapedBy(lan, active, used.down, Len(active))
    BY <1>2, <1>8 DEF Reached
  <2>1. CASE pc[p] = "row"
    <3>1. row > Len(active)
      BY <1>2, <2>1
    <3>2. row - 1 = Len(active)
      BY <1>6, <3>1
    <3> QED BY <1>1, <2>1, <3>2 DEF Progress, Reached
  <2>2. CASE pc[p] = "up row"
    BY <1>1, <2>2 DEF Progress, Reached
  <2> QED BY <1>2, <2>1, <2>2
<1> QED BY <1>9, <1>10, <1>11

\* The last row is done: what has been set up is what was listed, and no other unless a
\* later change is to be applied.
LEMMA FinishInvariant == ASSUME IInv, NEW p \in Procs, Finish(p) PROVE IInv'
<1>1. Counts /\ Mutex /\ Listed(limits) /\ Kernel /\ Working /\ Progress /\ Outdated
  BY DEF IInv
<1>2. /\ pc[p] = "up row" /\ Return(p, TRUE) /\ lan' = lan /\ redirect' = redirect
      /\ ifb' = ifb /\ used' = used
  BY DEF Finish, kernel
<1>3. Enabled' = Enabled
  BY <1>2 DEF Return, tables, Enabled
<1>4. Kernel'
  BY <1>1, <1>2 DEF Kernel, IsTree
<1>5. ASSUME settled = now \/ stamp[p] = now PROVE Applied'
  <2>1. active # <<>> /\ PrefixOf(active, Enabled)
    BY <1>1, <1>2, <1>5 DEF Outdated
  <2>2. /\ Found(active, used.down, Len(active))
        /\ Len(active) < DefaultClass => ShapedBy(lan, active, used.down, Len(active))
    BY <1>1, <1>2 DEF Progress, Reached
  <2>3. Listed(Enabled) /\ Listed(active)
    BY <1>1, EnabledAreRows DEF Listed, Enabled, Working
  <2>4. Len(active) \in Nat /\ Len(Enabled) \in Nat /\ Len(active) <= Len(Enabled)
    BY <2>1, <2>3 DEF Listed, PrefixOf
  <2>5. Enabled # <<>>
    <3> SUFFICES ASSUME Enabled = <<>> PROVE FALSE
      OBVIOUS
    <3>1. Len(active) = 0
      BY <2>4
    <3> QED BY <2>1, <2>3, <3>1 DEF Listed
  <2>6. used.down \in [Macs -> Addrs \cup {NoAddr}]
    BY <1>1 DEF Working
  <2>7. Len(Enabled) < DefaultClass => ShapedBy(lan, Enabled, used.down, Len(Enabled))
    <3> SUFFICES ASSUME Len(Enabled) < DefaultClass
                 PROVE  ShapedBy(lan, Enabled, used.down, Len(Enabled))
      OBVIOUS
    <3>1. ShapedBy(lan, active, used.down, Len(active))
      BY <2>2, <2>4, BandwidthAssumption
    <3> QED BY <2>1, <2>2, <2>3, <2>6, <3>1, PrefixShapes
  <2> QED BY <1>2, <1>3, <2>5, <2>7 DEF Applied
<1> QED BY <1>2, <1>4, <1>5, ReturnInvariant

\* What a crash in the middle of a step leaves are trees.
LEMMA HalfwayKept ==
    ASSUME Kernel, Working, Addresses, NEW p \in Procs, Halfway(p)
    PROVE  Kernel'
<1> DEFINE l == active[row]
           a == AddrOf(l)
<1>1. CASE /\ pc[p] \in {"row", "up row"} /\ row <= Len(active) /\ a # NoAddr
           /\ \/ lan' = AddClass(lan, row, l.down) /\ UNCHANGED <<redirect, ifb>>
              \/ ifb' = AddClass(ifb, row, l.up) /\ UNCHANGED <<lan, redirect>>
  <2>1. row \in 1..Len(active) /\ active \in Seq(Row) /\ row \in Nat
    <3>1. row <= Len(active)
      BY <1>1
    <3>2. active \in Seq(Row) /\ row \in Nat /\ 1 <= row
      BY DEF Working, Listed
    <3> QED BY <3>1, <3>2
  <2>2. l.mac \in Macs /\ l.down \in Nat /\ l.up \in Nat
    BY <2>1, RowFields
  <2>3. a \in Addrs
    BY <1>1, <2>2, BandwidthAssumption DEF Addresses, AddrOf
  <2> HIDE DEF l, a
  <2>4. IsTree(AddClass(lan, row, l.down)) /\ IsTree(AddClass(ifb, row, l.up))
    BY <2>1, <2>2, <2>3, TreesKept DEF Kernel
  <2> QED BY <1>1, <2>4 DEF Kernel, IsTree
<1>2. CASE /\ lan' \in {lan, NoTree, Root} /\ redirect' \in {redirect, TRUE} /\ ifb' = ifb
  BY <1>2, FirstTrees DEF Kernel, IsTree, NoTree, Root
<1> QED BY <1>1, <1>2 DEF Halfway

\* A restart frees the mutex and is not a clean Apply.
LEMMA RestartInvariant == ASSUME IInv, Crash \/ Reboot PROVE IInv'
<1>1. Counts /\ Startup \in Procs /\ Listed(limits) /\ Addresses /\ Kernel /\ Working
  BY DEF IInv, Procs
<1>2. /\ pc' = [p \in Procs |-> IF p = Startup THEN "lock" ELSE "idle"]
      /\ now' = now /\ settled' = settled /\ clean' = FALSE /\ serving' = FALSE
      /\ stamp' = [p \in Procs |-> IF p = Startup THEN now ELSE 1] /\ lock' = Free
      /\ active' = <<>> /\ row' = 1 /\ used' = used /\ found' = [m \in {} |-> NoAddr]
      /\ limits' = limits /\ addr' = addr /\ lease' = lease
  BY DEF Crash, Reboot, Restart, tables
<1>3. Counts'
  <2>1. now \in Nat /\ 1 <= now /\ now <= now
    BY <1>1 DEF Counts
  <2>2. stamp' \in [Procs -> Nat] /\ \A p \in Procs : 1 <= stamp'[p] /\ stamp'[p] <= now
    BY <1>1, <1>2, <2>1 DEF Counts
  <2>3. pc' \in [Procs -> Labels]
    BY <1>2 DEF Labels
  <2> QED BY <1>1, <1>2, <2>2, <2>3 DEF Counts
<1>4. Mutex'
  BY <1>2, BandwidthAssumption DEF Mutex
<1>5. Listed(limits)' /\ Addresses' /\ Working'
  <2>1. Listed(limits)'
    BY <1>1, <1>2 DEF Listed, Distinct
  <2>2. Addresses'
    BY <1>1, <1>2 DEF Addresses
  <2>3. <<>> \in Seq(Row) /\ Len(<<>>) = 0
    OBVIOUS
  <2>4. Listed(active)'
    BY <1>2, <2>3 DEF Listed, Distinct
  <2>5. row' \in Nat /\ 1 <= row' /\ row' <= Len(active') + 1
    BY <1>2, <2>3
  <2> QED BY <1>1, <1>2, <2>1, <2>2, <2>4, <2>5 DEF Working
<1>6. Kernel'
  <2>1. CASE UNCHANGED kernel
    BY <1>1, <2>1 DEF kernel, Kernel, IsTree
  <2>2. CASE \E p \in Procs : Halfway(p)
    BY <1>1, <2>2, HalfwayKept
  <2>3. CASE Reboot
    BY <2>3, FirstTrees DEF Reboot, Kernel, IsTree, NoTree
  <2> QED BY <2>1, <2>2, <2>3 DEF Crash
<1>7. Progress' /\ Outdated' /\ SettledIsApplied'
  BY <1>2 DEF Progress, Reached, Outdated, SettledIsApplied, Settled
<1> QED BY <1>3, <1>4, <1>5, <1>6, <1>7 DEF IInv

\* The scanner and the leases change addresses alone.
LEMMA ScanInvariant ==
    ASSUME IInv,
           \/ Scanner \/ ScanMisses
           \/ \E m \in Devices : UpsertFails(m) \/ \E a \in Addrs \cup {NoAddr} : Renew(m, a)
           \/ UNCHANGED vars
    PROVE  IInv'
<1>1. Counts /\ Mutex /\ Listed(limits) /\ Addresses /\ Kernel /\ Working /\ Progress
      /\ Outdated /\ SettledIsApplied
  BY DEF IInv
<1>2. /\ limits' = limits /\ pc' = pc /\ lock' = lock /\ lan' = lan /\ redirect' = redirect
      /\ ifb' = ifb /\ active' = active /\ row' = row /\ used' = used
      /\ now' = now /\ stamp' = stamp /\ settled' = settled /\ clean' = clean /\ kept' = kept
      /\ serving' = serving
  BY DEF Scanner, Scan, ScanMisses, upsertDevice, UpsertFails, Renew, vars, tables, apply, kernel, history
<1>3. Addresses'
  <2>1. CASE Scan \/ ScanMisses
    <3>1. PICK S \in SUBSET {d \in Devices : lease[d] # NoAddr} : found' = [m \in S |-> lease[m]]
      BY <2>1 DEF Scan, ScanMisses
    <3>2. addr' = addr /\ lease' = lease
      BY <2>1 DEF Scan, ScanMisses, tables
    <3> QED BY <1>1, <1>2, <3>1, <3>2 DEF Addresses
  <2>2. CASE \E m \in Devices : upsertDevice(m) \/ UpsertFails(m)
    <3>1. PICK m \in Devices : upsertDevice(m) \/ UpsertFails(m)
      BY <2>2
    <3>2. /\ m \in DOMAIN found /\ found' = [d \in DOMAIN found \ {m} |-> found[d]]
          /\ addr' \in {addr, [addr EXCEPT ![m] = found[m]]} /\ lease' = lease
      BY <3>1 DEF upsertDevice, UpsertFails, Stored, tables
    <3>3. found[m] \in Addrs
      BY <1>1, <3>2 DEF Addresses
    <3> QED BY <1>1, <1>2, <3>2, <3>3 DEF Addresses
  <2>3. CASE \E m \in Devices, a \in Addrs \cup {NoAddr} : Renew(m, a)
    BY <1>1, <2>3 DEF Renew, Addresses, tables
  <2>4. CASE UNCHANGED vars
    BY <1>1, <2>4 DEF vars, tables, scan, Addresses
  <2> QED BY <2>1, <2>2, <2>3, <2>4 DEF Scanner
<1>4. Counts' /\ Mutex' /\ Listed(limits)' /\ Kernel' /\ Working'
  BY <1>1, <1>2 DEF Counts, Mutex, Listed, Distinct, Kernel, IsTree, Working
<1>5. Progress' /\ Outdated'
  BY <1>1, <1>2 DEF Progress, Reached, Found, Bare, Outdated, PrefixOf, Enabled
<1>6. SettledIsApplied'
  BY <1>1, <1>2 DEF SettledIsApplied, Settled, Applied, Bare, Enabled
<1> QED BY <1>3, <1>4, <1>5, <1>6 DEF IInv

\* Every step keeps the invariant.
LEMMA NextInvariant == IInv /\ [Next]_vars => IInv'
<1> SUFFICES ASSUME IInv, [Next]_vars PROVE IInv'
  OBVIOUS
<1>1. ASSUME NEW r \in Requests, NEW m \in Macs,
             \/ \E s \in Settings : CreateLimit(r, m, s) \/ UpdateLimit(r, m, s)
             \/ DeleteLimit(r, m)
      PROVE  IInv'
  <2>1. Listed(limits)
    BY DEF IInv
  <2>2. ASSUME NEW s \in Settings, CreateLimit(r, m, s) \/ UpdateLimit(r, m, s) PROVE IInv'
    BY <2>1, <2>2, TablesKept, CommitInvariant DEF CreateLimit, UpdateLimit
  <2>3. CASE DeleteLimit(r, m)
    BY <2>1, <2>3, DeletionKept, CommitInvariant DEF DeleteLimit
  <2> QED BY <1>1, <2>2, <2>3
<1>2. CASE \/ Scanner \/ ScanMisses
           \/ \E m \in Devices : UpsertFails(m) \/ \E a \in Addrs \cup {NoAddr} : Renew(m, a)
           \/ UNCHANGED vars
  BY <1>2, ScanInvariant
<1>3. ASSUME NEW p \in Procs, ApplyStep(p) \/ ApplyFails(p) PROVE IInv'
  BY <1>3, ClearInvariant, ListInvariant, DownloadInvariant, UploadInvariant, FinishInvariant
     DEF ApplyStep, ApplyFails
<1>4. CASE Crash \/ Reboot
  BY <1>4, RestartInvariant
<1> QED BY <1>1, <1>2, <1>3, <1>4 DEF Next

\* The inductive invariant holds in every reachable state of Spec, for all constants.
THEOREM BandwidthInvariance == Spec => []IInv
<1> QED BY InitInvariant, NextInvariant, PTL DEF Spec

\* One goroutine is inside Apply and holds the mutex, a text has one row, an HTB root
\* that is not there has nothing under it, and the counters are in order.
THEOREM TypeCorrect == Spec => []TypeOK
<1>1. IInv => TypeOK
  <2> SUFFICES ASSUME IInv PROVE TypeOK
    OBVIOUS
  <2>1. \A i, j \in DOMAIN limits : limits[i].mac = limits[j].mac => i = j
    BY DEF IInv, Listed, Distinct
  <2>2. InApply = IF lock = Free THEN {} ELSE {lock}
    <3>1. Mutex /\ Free \notin Procs
      BY BandwidthAssumption DEF IInv
    <3> QED BY <3>1 DEF Mutex, InApply
  <2>3. row \in 1..Len(active) + 1
    BY DEF IInv, Working, Listed
  <2>4. \A tree \in {lan, ifb} : ~tree.root => tree = NoTree
    BY DEF IInv, Kernel, IsTree
  <2>5. stamp \in [Procs -> 1..now] /\ settled \in 0..now /\ pc \in [Procs -> Labels]
    <3>1. Counts
      BY DEF IInv
    <3>2. \A p \in Procs : stamp[p] \in 1..now
      BY <3>1 DEF Counts
    <3> QED BY <3>1, <3>2 DEF Counts
  <2> QED BY <2>1, <2>2, <2>3, <2>4, <2>5 DEF TypeOK, IInv, Counts, Addresses, Kernel
<1> QED BY <1>1, BandwidthInvariance, PTL

\* Once the last change is answered with success, the downloads of each address are held to
\* the first enabled limit that was set up for it and to nothing else, for any devices,
\* texts and limits, in any interleaving, after any failures and restarts.  What the
\* success leaves open is left open here: a limit whose row, address, class or filter
\* failed was not set up, and with no limit set up the old ones stay when the root could
\* not be deleted.
THEOREM DownloadsAreShaped == Spec => []SettledIsShaped
<1>1. IInv => SettledIsShaped
  <2> SUFFICES ASSUME IInv, Settled, "root" \notin kept, Len(Enabled) < DefaultClass,
                      NEW a \in Addrs
               PROVE  DownRate(a) = Demanded(a, "down")
    BY DEF SettledIsShaped
  <2>1. Applied /\ Listed(Enabled)
    BY EnabledAreRows DEF IInv, SettledIsApplied, Listed, Enabled
  <2>2. CASE (Enabled = <<>> \/ used = NoUse) /\ Bare
    <3>1. Limiting(a, "down") = {}
      <4> SUFFICES ASSUME NEW i \in Limiting(a, "down") PROVE FALSE
        OBVIOUS
      <4>1. Enabled # <<>> /\ i \in 1..Len(Enabled) /\ used.down[Enabled[i].mac] = a
        BY <2>1 DEF Limiting, Listed
      <4>2. Enabled[i].mac \in Macs
        BY <2>1, <4>1, RowFields DEF Listed
      <4> QED BY <2>2, <4>1, <4>2, BandwidthAssumption DEF NoUse
    <3>2. lan = NoTree
      BY <2>2 DEF Bare
    <3> QED BY <3>1, <3>2 DEF DownRate, Rate, Has, NoTree, Demanded
  <2>3. CASE ShapedBy(lan, Enabled, used.down, Len(Enabled))
    BY <2>1, <2>3, ShapedIsDemanded
  <2> QED BY <2>1, <2>2, <2>3 DEF Applied
<1> QED BY <1>1, BandwidthInvariance, PTL

\* Once the last change is answered with success and no limit is enabled, no address is
\* limited, whatever is left on ifb0: in each direction whose qdisc the last Apply could
\* delete.
THEOREM NoLimitsNoShaping == Spec => []UnlimitedWithoutLimits
<1>1. IInv => UnlimitedWithoutLimits
  <2> SUFFICES ASSUME IInv, Settled, Enabled = <<>>, NEW a \in Addrs
               PROVE  /\ "root" \notin kept => DownRate(a) = Unlimited
                      /\ "ingress" \notin kept => UpRate(a) = Unlimited
    BY DEF UnlimitedWithoutLimits
  <2>1. Bare
    BY DEF IInv, SettledIsApplied, Applied
  <2> QED BY <2>1 DEF Bare, DownRate, UpRate, Rate, Has, NoTree
<1> QED BY <1>1, BandwidthInvariance, PTL
=============================================================================
