----------------------- MODULE SessionHistory_proofs -----------------------
(***************************************************************************)
(* Theorems about SessionHistory, for any actors, budgets and faults: the  *)
(* stored branch is whole, prompts and summaries tell of it, and no step   *)
(* loses a message or a field but those of the known races.                *)
(***************************************************************************)
EXTENDS SessionHistory, WellFoundedInduction, NaturalsInduction, TLAPS

(***************************************************************************)
(* The inductive invariant                                                 *)
(***************************************************************************)
\* Copies of an entry are equal wherever they are.
Agree(f, g) == \A id \in DOMAIN f \cap DOMAIN g : f[id] = g[id]

\* What an entry says of others: a summary names its parent as the first that
\* is kept.
Fit(id, entry, known) ==
    /\ entry \in Entry /\ entry.parent < id /\ entry.parent \in known
    /\ entry.about \cup entry.kept \subseteq 1 .. id - 1
    /\ entry.kind = "summary" => entry.first = entry.parent

\* A summary and the plans before it tell of all messages below it that its
\* run had read.
Telling(f, unread, entry) ==
    LET below == Branch(Without(f, unread), entry.parent)
    IN  Said(f, below) \subseteq entry.about \cup entry.kept \cup Wanted(f, below)

Sound(f, known, top, unread) ==
    /\ DOMAIN f \subseteq 1 .. top
    /\ \A id \in DOMAIN f :
          /\ Fit(id, f[id], known)
          /\ f[id].kind = "summary" => Telling(f, unread, f[id])

\* Entries that were stored at some time; 0 stands for the root.
Known == {0} \cup erased \cup DOMAIN entries

StoreInv ==
    /\ overtaken \in [tree : SUBSET Actors, header : SUBSET Actors,
                      unread : SUBSET (0 .. MaxEntries)]
    /\ erased \subseteq 0 .. created /\ erased \cap DOMAIN entries = {}
    /\ leaf \in Known
    /\ Sound(entries, Known, created, overtaken.unread)

Stored(a) == tree[a].entries

\* The entry that an actor has created and not yet stored.
Unsaved(a) == IF pc[a] = "hset" THEN {tree[a].leaf} ELSE {}

\* A summary that is not yet stored tells of its branch as far as it was read.
Covered(a) ==
    \A id \in Branch(Stored(a), tree[a].leaf) :
        Stored(a)[id].parent
            \in {0} \cup erased \cup overtaken.unread \cup DOMAIN Stored(a)

TreeInv(a) ==
    /\ tree[a] = [header |-> tree[a].header, entries |-> tree[a].entries,
                  leaf |-> tree[a].leaf]
    /\ tree[a].header \in {NoHeader} \cup SUBSET Fields
    /\ Sound(Stored(a), Known, created, overtaken.unread)
    /\ Agree(Stored(a), entries)
    /\ DOMAIN Stored(a) \subseteq Known \cup Unsaved(a)
    /\ tree[a].leaf \in Known \cup Unsaved(a)
    /\ pc[a] \in {"hset", "set"} => tree[a].leaf \in DOMAIN Stored(a)
    /\ pc[a] = "hset" => /\ tree[a].leaf \notin Known
                         /\ Latest(a) = "summary" => Covered(a)
    /\ pc[a] \in {"idle", "create"} => tree[a] = Empty

\* No two actors have the same entry in hand.
Apart(a, b) == Agree(Stored(a), Stored(b)) /\ Unsaved(a) \cap Unsaved(b) = {}

TreesInv ==
    /\ tree = [a \in Actors |-> tree[a]]
    /\ \A a \in Actors : TreeInv(a)
    /\ \A a \in Actors : \A b \in Actors \ {a} : Apart(a, b)

\* The stored leaf, as far as the actor has seen it.
Seen(a) ==
    CASE pc[a] = "leaf" -> IF tree[a].header = NoHeader THEN 0 ELSE leaf
      [] pc[a] \in {"hset", "set"} -> Stored(a)[tree[a].leaf].parent
      [] OTHER -> tree[a].leaf

SeesLeaf(a) ==
    /\ Branch(entries, Seen(a)) \subseteq DOMAIN Stored(a)
    /\ erased = {} => Seen(a) = leaf
    /\ pc[a] \in {"turn", "results"} => leaf \in {0, tree[a].leaf}

LeafInv == \A a \in Actors \ overtaken.tree : pc[a] # "idle" => SeesLeaf(a)

\* Without a header there is nothing yet, unless it was deleted.
NothingYet ==
    (erased = {} /\ header = NoHeader) =>
        /\ leaf = 0
        /\ \A a \in Actors : pc[a] # "idle" =>
              a = "run" /\ pc[a] \in {"leaf", "create"} /\ tree[a].header = NoHeader

SeesHeader(a) ==
    /\ pc[a] \in {"leaf", "save"} => header \in {NoHeader, tree[a].header}
    /\ pc[a] = "create" => header = NoHeader

HeaderInv ==
    /\ NothingYet
    /\ (/\ erased = {} /\ pc["run"] \in {"leaf", "create"}
        /\ tree["run"].header = NoHeader) => header = NoHeader
    /\ \A a \in Actors \ {"run"} : pc[a] # "idle" => tree[a].header # NoHeader
    /\ \A a \in Actors \ overtaken.header : SeesHeader(a)

HistoryInv == TypeOK /\ StoreInv /\ TreesInv /\ LeafInv /\ HeaderInv


(***************************************************************************)
(* Branches                                                                *)
(***************************************************************************)
LEMMA LeastIn == ASSUME NEW S \in SUBSET Nat, S # {} PROVE \E m \in S : \A k \in S : m <= k
<1> DEFINE R == {p \in Nat \X Nat : p[1] < p[2]}
<1>1. IsWellFoundedOn(R, Nat)
  BY NatLessThanWellFounded DEF OpToRel
<1>2. PICK m \in S : \A k \in S : <<k, m>> \notin R
  <2> HIDE DEF R
  <2> QED
    BY <1>1, WFMin
<1>3. ASSUME NEW k \in S PROVE m <= k
  <2>1. k \in Nat /\ m \in Nat /\ <<k, m>> \notin R
    BY <1>2
  <2>2. ~ (k < m)
    BY <2>1
  <2> QED
    BY <2>1, <2>2
<1> QED
  BY <1>3

\* Parents are older than their children.
Chained(f) ==
    /\ DOMAIN f \subseteq 1 .. MaxEntries
    /\ \A id \in DOMAIN f : f[id].parent \in Nat /\ f[id].parent < id

LEMMA MaxNat == MaxEntries \in Nat
BY SessionAssumption

\* The recursive function behind Branch is well defined.
LEMMA BranchDef ==
  ASSUME NEW f, Chained(f), NEW n \in 0 .. MaxEntries
  PROVE  Branch(f, n) = IF n \in DOMAIN f THEN Branch(f, f[n].parent) \cup {n} ELSE {}
<1> DEFINE At(g, id) == IF id \in DOMAIN f THEN g[f[id].parent] \cup {id} ELSE {}
           Good(g, k) == g = [id \in 0 .. k |-> At(g, id)]
           Bad == {k \in 0 .. MaxEntries : ~ \E g : Good(g, k)}
<1>1. Bad = {}
  <2>1. SUFFICES ASSUME Bad # {} PROVE FALSE
    OBVIOUS
  <2>2. Bad \in SUBSET Nat
    BY MaxNat
  <2>3. PICK m \in Bad : \A k \in Bad : m <= k
    <3> HIDE DEF Bad
    <3> QED
      BY <2>1, <2>2, LeastIn
  <2>4. m \in 0 .. MaxEntries /\ m \in Nat /\ ~ \E g : Good(g, m)
    BY <2>2, <2>3
  <2>5. CASE m = 0
    <3>1. 0 \notin DOMAIN f
      BY MaxNat DEF Chained
    <3> DEFINE g == [id \in 0 .. m |-> {}]
    <3>2. \A id \in 0 .. m : At(g, id) = {}
      BY <2>5, <3>1
    <3>3. Good(g, m)
      BY <3>2
    <3> QED
      BY <2>4, <3>3
  <2>6. CASE m # 0
    <3>1. m - 1 \in 0 .. MaxEntries /\ ~ (m <= m - 1)
      BY <2>4, <2>6, MaxNat
    <3>2. m - 1 \notin Bad
      BY <2>3, <3>1
    <3>3. \E g : Good(g, m - 1)
      <4> HIDE DEF Good
      <4> QED
        BY <3>1, <3>2
    <3>4. PICK g : Good(g, m - 1)
      BY <3>3
    <3> DEFINE h == [id \in 0 .. m |-> IF id = m THEN At(g, m) ELSE g[id]]
    <3>5. ASSUME NEW id \in 0 .. m PROVE h[id] = At(h, id)
      <4>1. CASE id \in DOMAIN f
        <5>1. f[id].parent \in 0 .. m - 1 /\ f[id].parent # m
          BY <2>4, <2>6, <4>1 DEF Chained
        <5>2. h[f[id].parent] = g[f[id].parent]
          BY <2>4, <2>6, <5>1
        <5>3. CASE id = m
          BY <4>1, <5>2, <5>3
        <5>4. CASE id # m
          <6>1. id \in 0 .. m - 1
            BY <2>4, <5>4
          <6>2. g[id] = At(g, id)
            BY <3>4, <6>1
          <6> QED
            BY <4>1, <5>2, <5>4, <6>2
        <5> QED
          BY <5>3, <5>4
      <4>2. CASE id \notin DOMAIN f
        <5>1. CASE id = m
          BY <4>2, <5>1
        <5>2. CASE id # m
          <6>1. id \in 0 .. m - 1
            BY <2>4, <5>2
          <6>2. g[id] = At(g, id)
            BY <3>4, <6>1
          <6> QED
            BY <4>2, <5>2, <6>2
        <5> QED
          BY <5>1, <5>2
      <4> QED
        BY <4>1, <4>2
    <3>6. Good(h, m)
      BY <3>5
    <3> QED
      BY <2>4, <3>6
  <2> QED
    BY <2>5, <2>6
<1>2. \E g : Good(g, MaxEntries)
  <2>1. MaxEntries \in 0 .. MaxEntries
    BY MaxNat
  <2> HIDE DEF Good
  <2> QED
    BY <1>1, <2>1
<1> DEFINE up == CHOOSE g : g = [id \in 0 .. MaxEntries |->
                     IF id \in DOMAIN f THEN g[f[id].parent] \cup {id} ELSE {}]
<1>3. up = [id \in 0 .. MaxEntries |->
              IF id \in DOMAIN f THEN up[f[id].parent] \cup {id} ELSE {}]
  BY <1>2
<1>4. \A k : Branch(f, k) = up[k]
  BY DEF Branch
<1> HIDE DEF up
<1>5. up[n] = IF n \in DOMAIN f THEN up[f[n].parent] \cup {n} ELSE {}
  BY <1>3
<1> QED
  BY <1>4, <1>5

\* A branch leads down from its leaf.
LEMMA BranchBelow ==
  ASSUME NEW f, Chained(f), NEW n \in 0 .. MaxEntries
  PROVE  /\ Branch(f, n) \subseteq DOMAIN f
         /\ \A m \in Branch(f, n) : m \in 1 .. MaxEntries /\ m <= n
<1> DEFINE Good(k) == \A m \in Branch(f, k) : m \in DOMAIN f /\ m <= k
           Bad == {k \in 0 .. MaxEntries : ~ Good(k)}
<1>1. Bad = {}
  <2>1. SUFFICES ASSUME Bad # {} PROVE FALSE
    OBVIOUS
  <2>2. Bad \in SUBSET Nat
    BY MaxNat
  <2>3. PICK k \in Bad : \A j \in Bad : k <= j
    <3> HIDE DEF Bad
    <3> QED
      BY <2>1, <2>2, LeastIn
  <2>4. k \in 0 .. MaxEntries /\ k \in Nat /\ ~ Good(k)
    BY <2>2, <2>3
  <2>5. Branch(f, k) = IF k \in DOMAIN f THEN Branch(f, f[k].parent) \cup {k} ELSE {}
    BY <2>4, BranchDef
  <2>6. k \in DOMAIN f
    BY <2>4, <2>5
  <2>7. f[k].parent \in 0 .. MaxEntries /\ f[k].parent < k /\ f[k].parent \in Nat
    BY <2>4, <2>6, MaxNat DEF Chained
  <2>8. f[k].parent \notin Bad
    BY <2>3, <2>4, <2>7
  <2>9. Good(f[k].parent)
    <3> HIDE DEF Good
    <3> QED
      BY <2>7, <2>8
  <2>10. \A m \in Branch(f, f[k].parent) : m \in Nat /\ m <= k
    BY <2>4, <2>7, <2>9, MaxNat DEF Chained
  <2> QED
    BY <2>4, <2>5, <2>6, <2>9, <2>10
<1>2. Good(n)
  <2> HIDE DEF Good
  <2> QED
    BY <1>1
<1> QED
  BY <1>2 DEF Chained

\* What lies below the leaf of a branch.
LEMMA BranchStep ==
  ASSUME NEW f, Chained(f), NEW n \in 0 .. MaxEntries, NEW m \in Branch(f, n)
  PROVE  /\ n \in DOMAIN f /\ f[n].parent \in 0 .. MaxEntries /\ f[n].parent < n
         /\ Branch(f, n) = Branch(f, f[n].parent) \cup {n}
         /\ m <= n /\ m \in Nat
         /\ m # n => m \in Branch(f, f[n].parent) /\ m <= f[n].parent
<1>1. Branch(f, n) = IF n \in DOMAIN f THEN Branch(f, f[n].parent) \cup {n} ELSE {}
  BY BranchDef
<1>2. n \in DOMAIN f
  BY <1>1
<1>3. f[n].parent \in 0 .. MaxEntries /\ f[n].parent < n
  BY <1>2, MaxNat DEF Chained
<1>4. m <= n /\ m \in Nat
  BY BranchBelow, MaxNat
<1>5. m # n => m \in Branch(f, f[n].parent)
  BY <1>1, <1>2
<1>6. m # n => m <= f[n].parent
  BY <1>3, <1>5, BranchBelow
<1> QED
  BY <1>1, <1>2, <1>3, <1>4, <1>5, <1>6

\* A branch whose entries another copy has is a branch there.
LEMMA SubBranch ==
  ASSUME NEW f, NEW g, Chained(f), Chained(g), Agree(f, g),
         NEW n \in 0 .. MaxEntries, Branch(f, n) \subseteq DOMAIN g
  PROVE  Branch(f, n) \subseteq Branch(g, n)
<1> DEFINE Good(k) == Branch(f, k) \subseteq DOMAIN g => Branch(f, k) \subseteq Branch(g, k)
           Bad == {k \in 0 .. MaxEntries : ~ Good(k)}
<1>1. Bad = {}
  <2>1. SUFFICES ASSUME Bad # {} PROVE FALSE
    OBVIOUS
  <2>2. Bad \in SUBSET Nat
    BY MaxNat
  <2>3. PICK k \in Bad : \A j \in Bad : k <= j
    <3> HIDE DEF Bad
    <3> QED
      BY <2>1, <2>2, LeastIn
  <2>4. k \in 0 .. MaxEntries /\ k \in Nat /\ ~ Good(k)
    BY <2>2, <2>3
  <2>5. PICK m \in Branch(f, k) : TRUE
    BY <2>4
  <2>6. /\ k \in DOMAIN f /\ f[k].parent \in 0 .. MaxEntries /\ f[k].parent < k
        /\ Branch(f, k) = Branch(f, f[k].parent) \cup {k}
    BY <2>4, <2>5, BranchStep
  <2>7. k \in DOMAIN g /\ g[k].parent = f[k].parent
    BY <2>4, <2>6 DEF Agree
  <2>8. Branch(g, k) = Branch(g, f[k].parent) \cup {k}
    BY <2>4, <2>7, BranchDef
  <2>9. f[k].parent \notin Bad
    BY <2>3, <2>4, <2>6
  <2>10. Good(f[k].parent)
    <3> HIDE DEF Good
    <3> QED
      BY <2>6, <2>9
  <2> QED
    BY <2>4, <2>6, <2>8, <2>10
<1>2. Good(n)
  <2> HIDE DEF Good
  <2> QED
    BY <1>1
<1> QED
  BY <1>2

\* A branch that reaches an entry has all that another has above it.
LEMMA Between ==
  ASSUME NEW f, NEW g, Chained(f), Chained(g), Agree(f, g), NEW n \in 0 .. MaxEntries,
         NEW m \in Branch(f, n), NEW t \in Branch(g, n), m < t
  PROVE  t \in Branch(f, n)
<1> DEFINE Good(k) == \A i \in Branch(f, k), j \in Branch(g, k) : i < j => j \in Branch(f, k)
           Bad == {k \in 0 .. MaxEntries : ~ Good(k)}
<1>1. Bad = {}
  <2>1. SUFFICES ASSUME Bad # {} PROVE FALSE
    OBVIOUS
  <2>2. Bad \in SUBSET Nat
    BY MaxNat
  <2>3. PICK k \in Bad : \A j \in Bad : k <= j
    <3> HIDE DEF Bad
    <3> QED
      BY <2>1, <2>2, LeastIn
  <2>4. k \in 0 .. MaxEntries /\ k \in Nat /\ ~ Good(k)
    BY <2>2, <2>3
  <2>5. PICK i \in Branch(f, k), j \in Branch(g, k) : i < j /\ j \notin Branch(f, k)
    BY <2>4
  <2>6. /\ k \in DOMAIN f /\ f[k].parent \in 0 .. MaxEntries /\ f[k].parent < k
        /\ Branch(f, k) = Branch(f, f[k].parent) \cup {k}
        /\ i \in Nat /\ i <= k
        /\ i # k => i \in Branch(f, f[k].parent)
    BY <2>4, <2>5, BranchStep
  <2>7. /\ k \in DOMAIN g /\ j \in Nat /\ j <= k
        /\ j # k => j \in Branch(g, g[k].parent)
    BY <2>4, <2>5, BranchStep
  <2>8. g[k].parent = f[k].parent
    BY <2>6, <2>7 DEF Agree
  <2>9. j # k /\ i # k
    BY <2>4, <2>5, <2>6, <2>7
  <2>10. f[k].parent \notin Bad
    BY <2>3, <2>4, <2>6
  <2>11. Good(f[k].parent)
    <3> HIDE DEF Good
    <3> QED
      BY <2>6, <2>10
  <2> QED
    BY <2>5, <2>6, <2>7, <2>8, <2>9, <2>11
<1>2. Good(n)
  <2> HIDE DEF Good
  <2> QED
    BY <1>1
<1> QED
  BY <1>2

\* The branch below an entry of a branch is all of the rest.
LEMMA Below ==
  ASSUME NEW f, Chained(f), NEW n \in 0 .. MaxEntries, NEW s \in Branch(f, n)
  PROVE  /\ Branch(f, f[s].parent) \subseteq Branch(f, n)
         /\ \A m \in Branch(f, n) : m < s => m \in Branch(f, f[s].parent)
<1> DEFINE Good(k) ==
        \A j \in Branch(f, k) :
            /\ Branch(f, f[j].parent) \subseteq Branch(f, k)
            /\ \A i \in Branch(f, k) : i < j => i \in Branch(f, f[j].parent)
           Bad == {k \in 0 .. MaxEntries : ~ Good(k)}
<1>1. Bad = {}
  <2>1. SUFFICES ASSUME Bad # {} PROVE FALSE
    OBVIOUS
  <2>2. Bad \in SUBSET Nat
    BY MaxNat
  <2>3. PICK k \in Bad : \A j \in Bad : k <= j
    <3> HIDE DEF Bad
    <3> QED
      BY <2>1, <2>2, LeastIn
  <2>4. k \in 0 .. MaxEntries /\ k \in Nat /\ ~ Good(k)
    BY <2>2, <2>3
  <2>5. SUFFICES ASSUME NEW j \in Branch(f, k)
                 PROVE  /\ Branch(f, f[j].parent) \subseteq Branch(f, k)
                        /\ \A i \in Branch(f, k) : i < j => i \in Branch(f, f[j].parent)
    BY <2>4
  <2>6. /\ k \in DOMAIN f /\ f[k].parent \in 0 .. MaxEntries /\ f[k].parent < k
        /\ Branch(f, k) = Branch(f, f[k].parent) \cup {k}
    BY <2>4, BranchStep
  <2>7. \A i \in Branch(f, k) :
           /\ i \in Nat /\ i <= k
           /\ i # k => i \in Branch(f, f[k].parent) /\ i <= f[k].parent
    BY <2>4, BranchStep
  <2>8. f[k].parent \notin Bad
    BY <2>3, <2>4, <2>6
  <2>9. Good(f[k].parent)
    <3> HIDE DEF Good
    <3> QED
      BY <2>6, <2>8
  <2>10. CASE j = k
    BY <2>4, <2>6, <2>7, <2>10
  <2>11. CASE j # k
    <3>1. j \in Branch(f, f[k].parent) /\ j <= f[k].parent /\ j \in Nat
      BY <2>7, <2>11
    <3>2. Branch(f, f[j].parent) \subseteq Branch(f, f[k].parent)
      BY <2>9, <3>1
    <3>3. ASSUME NEW i \in Branch(f, k), i < j PROVE i \in Branch(f, f[j].parent)
      <4>1. i # k
        BY <2>4, <2>6, <2>7, <3>1, <3>3
      <4> QED
        BY <2>7, <2>9, <3>1, <3>3, <4>1
    <3> QED
      BY <2>6, <3>2, <3>3
  <2> QED
    BY <2>10, <2>11
<1>2. Good(n)
  <2> HIDE DEF Good
  <2> QED
    BY <1>1
<1> QED
  BY <1>2

\* What another copy has above an entry that is missing here.
LEMMA Closed ==
  ASSUME NEW f, NEW g, NEW Gone, Chained(f), Chained(g), Agree(f, g),
         Gone \cap DOMAIN g = {}, NEW n \in 0 .. MaxEntries,
         n \in DOMAIN f \cup Gone,
         \A m \in Branch(f, n) : f[m].parent \in DOMAIN f \cup Gone
  PROVE  Branch(g, n) \subseteq Branch(f, n)
<1> DEFINE Hyp(k) == /\ k \in DOMAIN f \cup Gone
                     /\ \A m \in Branch(f, k) : f[m].parent \in DOMAIN f \cup Gone
           Good(k) == Hyp(k) => Branch(g, k) \subseteq Branch(f, k)
           Bad == {k \in 0 .. MaxEntries : ~ Good(k)}
<1>1. Bad = {}
  <2>1. SUFFICES ASSUME Bad # {} PROVE FALSE
    OBVIOUS
  <2>2. Bad \in SUBSET Nat
    BY MaxNat
  <2>3. PICK k \in Bad : \A j \in Bad : k <= j
    <3> HIDE DEF Bad
    <3> QED
      BY <2>1, <2>2, LeastIn
  <2>4. k \in 0 .. MaxEntries /\ k \in Nat /\ ~ Good(k)
    BY <2>2, <2>3
  <2>5. PICK m \in Branch(g, k) : TRUE
    BY <2>4
  <2>6. /\ k \in DOMAIN g /\ g[k].parent \in 0 .. MaxEntries /\ g[k].parent < k
        /\ Branch(g, k) = Branch(g, g[k].parent) \cup {k}
    BY <2>4, <2>5, BranchStep
  <2>7. k \in DOMAIN f /\ f[k].parent = g[k].parent
    BY <2>4, <2>6 DEF Agree
  <2>8. Branch(f, k) = Branch(f, g[k].parent) \cup {k}
    BY <2>4, <2>7, BranchDef
  <2>9. Hyp(g[k].parent)
    BY <2>4, <2>7, <2>8
  <2>10. g[k].parent \notin Bad
    BY <2>3, <2>4, <2>6
  <2>11. Good(g[k].parent)
    <3> HIDE DEF Good
    <3> QED
      BY <2>6, <2>10
  <2> QED
    BY <2>4, <2>6, <2>8, <2>9, <2>11
<1>2. Good(n)
  <2> HIDE DEF Good
  <2> QED
    BY <1>1
<1> QED
  BY <1>2

\* New entries that are nobody's parents leave the other branches as they are.
LEMMA Grown ==
  ASSUME NEW f, NEW g, Chained(f), Chained(g), Agree(f, g), DOMAIN f \subseteq DOMAIN g,
         \A id \in DOMAIN f : f[id].parent \notin DOMAIN g \ DOMAIN f,
         NEW n \in 0 .. MaxEntries, n \notin DOMAIN g \ DOMAIN f
  PROVE  Branch(g, n) = Branch(f, n)
<1> DEFINE Good(k) == k \notin DOMAIN g \ DOMAIN f => Branch(g, k) = Branch(f, k)
           Bad == {k \in 0 .. MaxEntries : ~ Good(k)}
<1>1. Bad = {}
  <2>1. SUFFICES ASSUME Bad # {} PROVE FALSE
    OBVIOUS
  <2>2. Bad \in SUBSET Nat
    BY MaxNat
  <2>3. PICK k \in Bad : \A j \in Bad : k <= j
    <3> HIDE DEF Bad
    <3> QED
      BY <2>1, <2>2, LeastIn
  <2>4. k \in 0 .. MaxEntries /\ k \in Nat /\ ~ Good(k)
    BY <2>2, <2>3
  <2>5. /\ Branch(f, k) = IF k \in DOMAIN f THEN Branch(f, f[k].parent) \cup {k} ELSE {}
        /\ Branch(g, k) = IF k \in DOMAIN g THEN Branch(g, g[k].parent) \cup {k} ELSE {}
    BY <2>4, BranchDef
  <2>6. k \in DOMAIN f /\ k \in DOMAIN g
    BY <2>4, <2>5
  <2>7. g[k].parent = f[k].parent /\ f[k].parent \notin DOMAIN g \ DOMAIN f
    BY <2>6 DEF Agree
  <2>8. f[k].parent \in 0 .. MaxEntries /\ f[k].parent < k
    BY <2>6, MaxNat DEF Chained
  <2>9. f[k].parent \notin Bad
    BY <2>3, <2>4, <2>8
  <2>10. Good(f[k].parent)
    <3> HIDE DEF Good
    <3> QED
      BY <2>8, <2>9
  <2> QED
    BY <2>4, <2>5, <2>6, <2>7, <2>10
<1>2. Good(n)
  <2> HIDE DEF Good
  <2> QED
    BY <1>1
<1> QED
  BY <1>2

LEMMA NewestIn ==
  ASSUME NEW S \in SUBSET (0 .. MaxEntries), S # {}
  PROVE  Newest(S) \in S /\ \A k \in S : k <= Newest(S)
<1> DEFINE U == {u \in Nat : \A k \in S : k <= u}
<1>1. U \in SUBSET Nat /\ U # {}
  <2>1. MaxEntries \in U
    BY MaxNat
  <2> QED
    BY <2>1
<1>2. PICK u \in U : \A k \in U : u <= k
  <2> HIDE DEF U
  <2> QED
    BY <1>1, LeastIn
<1>3. u \in S
  <2>1. SUFFICES ASSUME u \notin S PROVE FALSE
    OBVIOUS
  <2>2. PICK k \in S : TRUE
    OBVIOUS
  <2>3. u \in Nat /\ \A j \in S : j \in Nat /\ j <= u /\ j # u
    BY <1>2, <2>1, MaxNat
  <2>4. u # 0
    BY <2>2, <2>3
  <2>5. u - 1 \in Nat /\ \A j \in S : j <= u - 1
    BY <2>3, <2>4
  <2>6. u - 1 \in U
    BY <2>5
  <2> QED
    BY <1>2, <2>3, <2>6
<1>4. \E s \in S : \A k \in S : k <= s
  BY <1>2, <1>3
<1> QED
  BY <1>4 DEF Newest

\* Branches that break off are part of the whole ones.
LEMMA WithoutPart ==
  ASSUME NEW f, NEW gone, Chained(f), NEW n \in 0 .. MaxEntries
  PROVE  /\ Chained(Without(f, gone)) /\ Agree(Without(f, gone), f)
         /\ DOMAIN Without(f, gone) = DOMAIN f \ gone
         /\ Branch(Without(f, gone), n) \subseteq Branch(f, n)
         /\ Branch(Without(f, gone), n) \cap gone = {}
<1> DEFINE g == Without(f, gone)
<1>1. DOMAIN g = DOMAIN f \ gone /\ \A id \in DOMAIN g : g[id] = f[id]
  BY DEF Without
<1> HIDE DEF g
<1>2. Chained(g) /\ Agree(g, f)
  BY <1>1 DEF Chained, Agree
<1>3. Branch(g, n) \subseteq DOMAIN g
  BY <1>2, BranchBelow
<1>4. Branch(g, n) \subseteq Branch(f, n)
  BY <1>1, <1>2, <1>3, SubBranch
<1>5. /\ Chained(g) /\ Agree(g, f) /\ DOMAIN g = DOMAIN f \ gone
      /\ Branch(g, n) \subseteq Branch(f, n) /\ Branch(g, n) \cap gone = {}
  BY <1>1, <1>2, <1>3, <1>4
<1> QED
  BY <1>5 DEF g

(***************************************************************************)
(* What a context tells                                                    *)
(***************************************************************************)
\* A summary, the plans before it and what follows it tell of all the branch
\* that has been read.
LEMMA Told ==
  ASSUME NEW f, NEW gone, Chained(f), NEW n \in 0 .. MaxEntries,
         \A id \in DOMAIN f : f[id].kind = "summary" =>
             f[id].first = f[id].parent /\ Telling(f, gone, f[id])
  PROVE  LET branch == Branch(Without(f, gone), n)
         IN  Said(f, branch) \subseteq About(f, Context(f, n)) \cup Wanted(f, branch)
<1> DEFINE branch == Branch(Without(f, gone), n)
           all == Branch(f, n)
           latest == Newest(Summaries(f, all))
           start == IF f[latest].first \in all THEN f[latest].first ELSE latest
<1>1. /\ Chained(Without(f, gone)) /\ Agree(Without(f, gone), f)
      /\ DOMAIN Without(f, gone) = DOMAIN f \ gone /\ branch \subseteq all
  BY WithoutPart
<1>2. all \subseteq DOMAIN f /\ \A m \in all : m \in 1 .. MaxEntries /\ m <= n
  BY BranchBelow
<1>3. branch \subseteq DOMAIN Without(f, gone)
  BY <1>1, BranchBelow
<1> SUFFICES ASSUME NEW m \in branch, f[m].kind \in Messages
             PROVE  m \in About(f, Context(f, n)) \cup Wanted(f, branch)
  BY DEF Said
<1>4. m \in all /\ m \in Said(f, all) /\ m \in Nat
  BY <1>1, <1>2 DEF Said
<1>5. CASE Summaries(f, all) = {}
  <2>1. Context(f, n) = Said(f, all)
    BY <1>5 DEF Context
  <2> QED
    BY <1>4, <2>1 DEF About, Said
<1>6. CASE Summaries(f, all) # {}
  <2>1. Context(f, n) = {latest} \cup {id \in Said(f, all) : start <= id}
    BY <1>6 DEF Context
  <2>2. Summaries(f, all) \in SUBSET (0 .. MaxEntries)
    BY <1>2, MaxNat DEF Summaries
  <2>3. latest \in Summaries(f, all)
    BY <1>6, <2>2, NewestIn
  <2>4. latest \in all /\ latest \in DOMAIN f /\ f[latest].kind = "summary" /\ latest \in Nat
    BY <1>2, <2>3 DEF Summaries
  <2>5. f[latest].first = f[latest].parent /\ Telling(f, gone, f[latest])
    BY <2>4
  <2>6. f[latest].parent \in Nat /\ f[latest].parent < latest
    BY <2>4 DEF Chained
  <2> HIDE DEF latest
  <2>7. latest \in Summaries(f, Context(f, n))
    BY <2>1, <2>4 DEF Summaries
  <2>8. start \in Nat /\ start <= latest
    BY <2>4, <2>5, <2>6
  <2>9. CASE start <= m
    <3>1. m \in Context(f, n)
      BY <1>4, <2>1, <2>9
    <3> QED
      BY <3>1 DEF About, Said
  <2>10. CASE ~ (start <= m)
    <3>1. m < latest /\ m # f[latest].first
      BY <1>4, <2>4, <2>8, <2>10
    <3>2. latest \in branch
      BY <1>1, <1>4, <2>4, <3>1, Between
    <3>3. Without(f, gone)[latest] = f[latest]
      BY <1>3, <3>2, <2>4, <1>1 DEF Agree
    <3>4. /\ m \in Branch(Without(f, gone), f[latest].parent)
          /\ Branch(Without(f, gone), f[latest].parent) \subseteq branch
      BY <1>1, <3>1, <3>2, <3>3, Below
    <3>5. m \in f[latest].about \cup f[latest].kept
              \cup Wanted(f, Branch(Without(f, gone), f[latest].parent))
      BY <2>5, <3>4 DEF Telling, Said
    <3>6. CASE m \in f[latest].about
      BY <2>7, <3>6 DEF About
    <3>7. CASE m \in f[latest].kept
      BY <3>1, <3>2, <3>7 DEF Wanted
    <3>8. CASE m \in Wanted(f, Branch(Without(f, gone), f[latest].parent))
      BY <3>4, <3>8 DEF Wanted
    <3> QED
      BY <3>5, <3>6, <3>7, <3>8
  <2> QED
    BY <2>9, <2>10
<1> QED
  BY <1>5, <1>6

LEMMA OlderPart ==
  ASSUME NEW f, NEW items PROVE Older(f, items) \subseteq items
BY DEF Older, Before

\* The plan of a compaction loses nothing of the context.
LEMMA Planned ==
  ASSUME NEW f, NEW items
  PROVE  About(f, items) = About(f, Older(f, items)) \cup About(f, items \ Older(f, items))
<1> DEFINE older == Older(f, items)
<1>1. items = older \cup (items \ older)
  BY OlderPart
<1> HIDE DEF older
<1>2. /\ Said(f, items) = Said(f, older) \cup Said(f, items \ older)
      /\ Summaries(f, items) = Summaries(f, older) \cup Summaries(f, items \ older)
  BY <1>1 DEF Said, Summaries
<1>3. About(f, items) = About(f, older) \cup About(f, items \ older)
  BY <1>2 DEF About
<1> QED
  BY <1>3 DEF older

\* Contexts have entries of their tree.
LEMMA ContextIn ==
  ASSUME NEW f, Chained(f), NEW n \in 0 .. MaxEntries
  PROVE  Context(f, n) \subseteq DOMAIN f
<1>1. Branch(f, n) \subseteq DOMAIN f /\ Branch(f, n) \subseteq 1 .. MaxEntries
  BY BranchBelow
<1>2. Said(f, Branch(f, n)) \subseteq DOMAIN f
  BY <1>1 DEF Said
<1>3. Summaries(f, Branch(f, n)) \subseteq DOMAIN f
  BY <1>1 DEF Summaries
<1>4. Summaries(f, Branch(f, n)) \in SUBSET (0 .. MaxEntries)
  BY <1>1 DEF Summaries
<1>5. CASE Summaries(f, Branch(f, n)) = {}
  BY <1>2, <1>5 DEF Context
<1>6. CASE Summaries(f, Branch(f, n)) # {}
  <2>1. Newest(Summaries(f, Branch(f, n))) \in DOMAIN f
    BY <1>3, <1>4, <1>6, NewestIn
  <2> QED
    BY <1>2, <1>6, <2>1 DEF Context
<1> QED
  BY <1>5, <1>6

(***************************************************************************)
(* Sound trees                                                             *)
(***************************************************************************)
LEMMA SoundChained ==
  ASSUME NEW f, NEW known, NEW unread, NEW top \in 0 .. MaxEntries,
         Sound(f, known, top, unread)
  PROVE  /\ Chained(f)
         /\ \A id \in DOMAIN f :
               /\ f[id] \in Entry /\ f[id].parent \in known
               /\ f[id].parent \in 0 .. MaxEntries /\ f[id].parent < id
               /\ id \in 1 .. top /\ id \in 0 .. MaxEntries
               /\ \A m \in f[id].kept : m \in Nat /\ m < id
<1>1. DOMAIN f \subseteq 1 .. top /\ \A id \in DOMAIN f : Fit(id, f[id], known)
  BY DEF Sound
<1>2. \A id \in DOMAIN f : f[id] \in Entry /\ f[id].parent \in known /\ f[id].parent < id
  BY <1>1 DEF Fit
<1>3. \A id \in DOMAIN f : f[id].parent \in 0 .. MaxEntries
  BY <1>2 DEF Entry
<1>4. DOMAIN f \subseteq 1 .. MaxEntries
  BY <1>1, MaxNat
<1>5. Chained(f)
  BY <1>2, <1>3, <1>4, MaxNat DEF Chained
<1>6. ASSUME NEW id \in DOMAIN f, NEW m \in f[id].kept PROVE m \in Nat /\ m < id
  <2>1. m \in 1 .. id - 1 /\ id \in Nat
    BY <1>1, <1>4, MaxNat DEF Fit
  <2> QED
    BY <2>1
<1> QED
  BY <1>1, <1>2, <1>3, <1>4, <1>5, <1>6

\* What a plan wanted is wanted by an entry above it.
LEMMA WantedAbove ==
  ASSUME NEW f, NEW known, NEW unread, NEW top \in 0 .. MaxEntries,
         Sound(f, known, top, unread), NEW ids \in SUBSET DOMAIN f, NEW m \in Wanted(f, ids)
  PROVE  \E t \in ids : m \in f[t].kept \ {f[t].first} /\ m < t
<1>1. PICK t \in ids : m \in f[t].kept \ {f[t].first}
  BY DEF Wanted
<1>2. m < t
  BY <1>1, SoundChained
<1> QED
  BY <1>1, <1>2

\* More that is unread leaves less to tell of.
LEMMA TellingStays ==
  ASSUME NEW f, NEW known, NEW unread, NEW top \in 0 .. MaxEntries,
         Sound(f, known, top, unread), NEW more, unread \subseteq more,
         NEW entry, entry.parent \in 0 .. MaxEntries, Telling(f, unread, entry)
  PROVE  Telling(f, more, entry)
<1> DEFINE F == Without(f, unread)
           G == Without(f, more)
           p == entry.parent
<1>1. Chained(f)
  BY SoundChained
<1>2. Chained(F) /\ Agree(F, f) /\ DOMAIN F = DOMAIN f \ unread /\ Branch(F, p) \subseteq Branch(f, p)
  BY <1>1, WithoutPart
<1>3. Chained(G) /\ Agree(G, f) /\ DOMAIN G = DOMAIN f \ more
  BY <1>1, WithoutPart
<1>4. Branch(G, p) \subseteq DOMAIN G /\ Branch(F, p) \subseteq DOMAIN F
  BY <1>2, <1>3, BranchBelow
<1>5. Agree(G, F)
  BY <1>2, <1>3 DEF Agree
<1>6. Branch(G, p) \subseteq Branch(F, p)
  BY <1>2, <1>3, <1>4, <1>5, SubBranch
<1> HIDE DEF F, G
<1> SUFFICES ASSUME NEW m \in Said(f, Branch(G, p))
             PROVE  m \in entry.about \cup entry.kept \cup Wanted(f, Branch(G, p))
  BY DEF Telling, G
<1>7. m \in Branch(G, p) /\ m \in Said(f, Branch(F, p))
  BY <1>6 DEF Said
<1>8. m \in entry.about \cup entry.kept \cup Wanted(f, Branch(F, p))
  BY <1>7 DEF Telling, F
<1>9. CASE m \in Wanted(f, Branch(F, p))
  <2>1. Branch(F, p) \in SUBSET DOMAIN f
    BY <1>2, <1>4
  <2>2. PICK t \in Branch(F, p) : m \in f[t].kept \ {f[t].first} /\ m < t
    BY <1>9, <2>1, WantedAbove
  <2>3. t \in Branch(G, p)
    BY <1>2, <1>3, <1>5, <1>7, <2>2, Between
  <2> QED
    BY <2>2, <2>3 DEF Wanted
<1> QED
  BY <1>8, <1>9

LEMMA SoundStays ==
  ASSUME NEW f, NEW known, NEW unread, NEW top \in 0 .. MaxEntries,
         Sound(f, known, top, unread), NEW known2, known \subseteq known2,
         NEW more, unread \subseteq more, NEW top2 \in 0 .. MaxEntries, top <= top2
  PROVE  Sound(f, known2, top2, more)
<1>1. DOMAIN f \subseteq 1 .. top2
  BY MaxNat DEF Sound
<1>2. ASSUME NEW id \in DOMAIN f PROVE Fit(id, f[id], known2)
  BY DEF Sound, Fit
<1>3. ASSUME NEW id \in DOMAIN f, f[id].kind = "summary" PROVE Telling(f, more, f[id])
  <2>1. f[id].parent \in 0 .. MaxEntries
    BY SoundChained
  <2>2. Telling(f, unread, f[id])
    BY <1>3 DEF Sound
  <2> QED
    BY <2>1, <2>2, TellingStays
<1> QED
  BY <1>1, <1>2, <1>3 DEF Sound

\* A new entry that nobody is chained to.
LEMMA SoundGrows ==
  ASSUME NEW f, NEW known, NEW unread, NEW top \in 0 .. MaxEntries,
         Sound(f, known, top, unread),
         NEW x \in 1 .. top, x \notin known,
         NEW g, DOMAIN g = DOMAIN f \cup {x}, \A id \in DOMAIN f : g[id] = f[id],
         x \notin DOMAIN f \/ g[x] = f[x],
         Fit(x, g[x], known), g[x].kind = "summary" => Telling(f, unread, g[x])
  PROVE  Sound(g, known, top, unread)
<1> DEFINE F == Without(f, unread)
           G == Without(g, unread)
<1>1. Chained(f) /\ \A id \in DOMAIN f : f[id].parent \in known /\ f[id].parent \in 0 .. MaxEntries
  BY SoundChained
<1>2. DOMAIN g \subseteq 1 .. top
  BY DEF Sound
<1>3. \A id \in DOMAIN g : Fit(id, g[id], known)
  BY DEF Sound
<1>4. \A id \in DOMAIN g : g[id].parent \in 0 .. MaxEntries /\ g[id].parent < id /\ g[id].parent # x
  BY <1>3 DEF Fit, Entry
<1>5. Chained(g)
  BY <1>2, <1>4, MaxNat DEF Chained
<1>6. /\ Chained(F) /\ DOMAIN F = DOMAIN f \ unread
      /\ \A id \in DOMAIN F : F[id] = f[id]
  <2>1. 0 \in 0 .. MaxEntries
    BY MaxNat
  <2>2. Chained(F) /\ Agree(F, f) /\ DOMAIN F = DOMAIN f \ unread
    BY <1>1, <2>1, WithoutPart
  <2> QED
    BY <2>2 DEF Agree
<1>7. /\ Chained(G) /\ DOMAIN G = DOMAIN g \ unread
      /\ \A id \in DOMAIN G : G[id] = g[id]
  <2>1. 0 \in 0 .. MaxEntries
    BY MaxNat
  <2>2. Chained(G) /\ Agree(G, g) /\ DOMAIN G = DOMAIN g \ unread
    BY <1>5, <2>1, WithoutPart
  <2> QED
    BY <2>2 DEF Agree
<1> HIDE DEF F, G
<1>8. /\ Agree(F, G) /\ DOMAIN F \subseteq DOMAIN G /\ DOMAIN G \ DOMAIN F \subseteq {x}
      /\ \A id \in DOMAIN F : F[id].parent # x
  BY <1>1, <1>6, <1>7 DEF Agree
<1>9. ASSUME NEW n \in 0 .. MaxEntries, n # x PROVE Branch(G, n) = Branch(F, n)
  BY <1>6, <1>7, <1>8, <1>9, Grown
<1>10. ASSUME NEW id \in DOMAIN g, g[id].kind = "summary" PROVE Telling(g, unread, g[id])
  <2> DEFINE below == Branch(F, g[id].parent)
  <2>1. Branch(G, g[id].parent) = below
    BY <1>4, <1>9
  <2>2. Telling(f, unread, g[id])
    BY <1>10 DEF Sound
  <2>3. Said(f, below) \subseteq g[id].about \cup g[id].kept \cup Wanted(f, below)
    BY <2>2 DEF Telling, F
  <2>4. below \subseteq DOMAIN F
    BY <1>4, <1>6, BranchBelow
  <2>5. \A m \in below : m \in DOMAIN f /\ g[m] = f[m]
    BY <1>6, <2>4
  <2> HIDE DEF below
  <2>6. Said(g, below) = Said(f, below)
    BY <2>5 DEF Said
  <2>7. Wanted(g, below) = Wanted(f, below)
    BY <2>5 DEF Wanted
  <2> QED
    BY <2>1, <2>3, <2>6, <2>7 DEF Telling, G
<1> QED
  BY <1>2, <1>3, <1>10 DEF Sound

\* A summary tells as much in the store as in the tree of its writer.
LEMMA Copied ==
  ASSUME NEW f, NEW g, NEW known, NEW unread, NEW gone, NEW top \in 0 .. MaxEntries,
         Sound(f, known, top, unread), Sound(g, known, top, unread), Agree(f, g),
         gone \cap DOMAIN g = {}, NEW x \in DOMAIN f, f[x].kind = "summary",
         \A id \in Branch(f, x) : f[id].parent \in gone \cup unread \cup DOMAIN f
  PROVE  Telling(g, unread, f[x])
<1> DEFINE p == f[x].parent
           F == Without(f, unread)
           G == Without(g, unread)
<1>1. Chained(f) /\ Chained(g) /\ p \in 0 .. MaxEntries /\ x \in 0 .. MaxEntries
  BY SoundChained
<1>2. Branch(f, x) = Branch(f, p) \cup {x}
  BY <1>1, BranchDef
<1> HIDE DEF p
<1>3. /\ Chained(F) /\ Agree(F, f) /\ DOMAIN F = DOMAIN f \ unread
      /\ Branch(F, p) \subseteq Branch(f, p)
  BY <1>1, WithoutPart
<1>4. /\ Chained(G) /\ Agree(G, g) /\ DOMAIN G = DOMAIN g \ unread
      /\ Branch(G, p) \subseteq Branch(g, p)
  BY <1>1, WithoutPart
<1>5. Telling(f, unread, f[x])
  BY DEF Sound
<1>6. Said(f, Branch(F, p)) \subseteq f[x].about \cup f[x].kept \cup Wanted(f, Branch(F, p))
  BY <1>5 DEF Telling, p
<1> HIDE DEF F, G
<1>7. Agree(f, G) /\ Agree(G, F)
  BY <1>3, <1>4 DEF Agree
<1>8. Branch(G, p) \subseteq Branch(f, p)
  <2> DEFINE Gone == gone \cup unread
  <2>1. Gone \cap DOMAIN G = {}
    BY <1>4
  <2>2. p \in DOMAIN f \cup Gone /\ \A m \in Branch(f, p) : f[m].parent \in DOMAIN f \cup Gone
    BY <1>2 DEF p
  <2> HIDE DEF Gone
  <2> QED
    BY <1>1, <1>4, <1>7, <2>1, <2>2, Closed
<1>9. Branch(G, p) \subseteq Branch(F, p)
  <2>1. Branch(G, p) \subseteq DOMAIN G /\ Branch(f, p) \subseteq DOMAIN f
    BY <1>1, <1>4, BranchBelow
  <2>2. Branch(G, p) \subseteq DOMAIN F
    BY <1>3, <1>4, <1>8, <2>1
  <2> QED
    BY <1>1, <1>3, <1>4, <1>7, <2>2, SubBranch
<1>10. Branch(G, p) \subseteq DOMAIN g /\ Branch(F, p) \subseteq DOMAIN f
  <2>1. Branch(G, p) \subseteq DOMAIN G /\ Branch(F, p) \subseteq DOMAIN F
    BY <1>1, <1>3, <1>4, BranchBelow
  <2> QED
    BY <1>3, <1>4, <2>1
<1>11. ASSUME NEW m \in Said(g, Branch(G, p))
       PROVE  m \in f[x].about \cup f[x].kept \cup Wanted(g, Branch(G, p))
  <2>1. m \in Branch(G, p) /\ m \in DOMAIN f /\ m \in DOMAIN g /\ g[m].kind \in Messages
    BY <1>9, <1>10, <1>11 DEF Said
  <2>2. m \in Said(f, Branch(F, p))
    BY <1>9, <2>1 DEF Said, Agree
  <2>3. CASE m \in Wanted(f, Branch(F, p))
    <3>1. PICK t \in Branch(F, p) : m \in f[t].kept \ {f[t].first} /\ m < t
      BY <1>10, <2>3, WantedAbove
    <3>2. t \in Branch(G, p)
      BY <1>1, <1>3, <1>4, <1>7, <2>1, <3>1, Between
    <3>3. g[t] = f[t]
      BY <1>10, <3>1, <3>2 DEF Agree
    <3> QED
      BY <3>1, <3>2, <3>3 DEF Wanted
  <2> QED
    BY <1>6, <2>2, <2>3
<1> QED
  BY <1>11 DEF Telling, G, p

\* The summary of a compaction tells of the branch it was planned on.
LEMMA CompactionTells ==
  ASSUME NEW f, NEW known, NEW unread, NEW top \in 0 .. MaxEntries,
         Sound(f, known, top, unread), NEW n \in 0 .. MaxEntries,
         NEW entry, entry.parent = n,
         entry.about = About(f, Older(f, Context(f, n))),
         entry.kept = About(f, Context(f, n) \ Older(f, Context(f, n)))
  PROVE  Telling(f, unread, entry) /\ entry.about \cup entry.kept \subseteq 1 .. top
<1>1. Chained(f)
  BY SoundChained
<1>2. entry.about \cup entry.kept = About(f, Context(f, n))
  BY Planned
<1>3. \A id \in DOMAIN f : f[id].kind = "summary" =>
          f[id].first = f[id].parent /\ Telling(f, unread, f[id])
  BY DEF Sound, Fit
<1>4. LET branch == Branch(Without(f, unread), n)
      IN  Said(f, branch) \subseteq About(f, Context(f, n)) \cup Wanted(f, branch)
  BY <1>1, <1>3, Told
<1>5. Telling(f, unread, entry)
  BY <1>2, <1>4 DEF Telling
<1>6. Context(f, n) \subseteq DOMAIN f /\ DOMAIN f \subseteq 1 .. top
  BY <1>1, ContextIn DEF Sound
<1>7. ASSUME NEW id \in DOMAIN f PROVE f[id].about \subseteq 1 .. top
  <2>1. f[id].about \subseteq 1 .. id - 1 /\ id \in 1 .. top
    BY <1>6 DEF Sound, Fit
  <2> QED
    BY <2>1, MaxNat
<1>8. About(f, Context(f, n)) \subseteq 1 .. top
  <2>1. Said(f, Context(f, n)) \subseteq 1 .. top /\ Summaries(f, Context(f, n)) \subseteq DOMAIN f
    BY <1>6 DEF Said, Summaries
  <2> QED
    BY <1>7, <2>1 DEF About
<1> QED
  BY <1>2, <1>5, <1>8

(***************************************************************************)
(* Steps and the trees                                                     *)
(***************************************************************************)
LEMMA KnownIds ==
  ASSUME TypeOK, StoreInv
  PROVE  /\ created \in 0 .. MaxEntries
         /\ Known \subseteq 0 .. created /\ Known \subseteq 0 .. MaxEntries
<1>1. created \in 0 .. MaxEntries
  BY DEF TypeOK
<1>2. DOMAIN entries \subseteq 1 .. created /\ erased \subseteq 0 .. created
  BY DEF StoreInv, Sound
<1>3. \A id \in Known : id \in 0 .. created
  BY <1>1, <1>2, MaxNat DEF Known
<1>4. \A id \in 0 .. created : id \in 0 .. MaxEntries
  BY <1>1, MaxNat
<1> QED
  BY <1>1, <1>3, <1>4

LEMMA NoEntries ==
  /\ DOMAIN <<>> = {}
  /\ \A known, top, unread : Sound(<<>>, known, top, unread)
  /\ \A f : Agree(<<>>, f) /\ Agree(f, <<>>)
<1>1. DOMAIN <<>> = {}
  OBVIOUS
<1> QED
  BY <1>1 DEF Sound, Agree

\* Steps that leave the stored entries alone, or only add to them.
Adds ==
    /\ created' \in 0 .. MaxEntries /\ created <= created'
    /\ Known \subseteq Known' /\ erased \subseteq erased'
    /\ overtaken.unread \subseteq overtaken'.unread

LEMMA TreeStays ==
  ASSUME NEW b \in Actors, TypeOK, TreeInv(b), Adds,
         tree'[b] = tree[b], pc'[b] = pc[b], Agree(Stored(b), entries'),
         pc[b] = "hset" => tree[b].leaf \notin Known'
  PROVE  TreeInv(b)'
<1>1. Stored(b)' = Stored(b) /\ Unsaved(b)' = Unsaved(b) /\ Latest(b)' = Latest(b)
  BY DEF Stored, Unsaved, Latest
<1>2. Sound(Stored(b), Known, created, overtaken.unread)
  BY DEF TreeInv
<1>3. Sound(Stored(b), Known', created', overtaken'.unread)
  <2>1. created \in 0 .. MaxEntries
    BY DEF TypeOK
  <2> QED
    BY <1>2, <2>1, SoundStays DEF Adds
<1>4. /\ tree'[b] = [header |-> tree'[b].header, entries |-> tree'[b].entries,
                     leaf |-> tree'[b].leaf]
      /\ tree'[b].header \in {NoHeader} \cup SUBSET Fields
      /\ pc'[b] \in {"idle", "create"} => tree'[b] = Empty
  BY DEF TreeInv
<1>5. /\ DOMAIN Stored(b) \subseteq Known' \cup Unsaved(b)
      /\ tree[b].leaf \in Known' \cup Unsaved(b)
      /\ pc[b] \in {"hset", "set"} => tree[b].leaf \in DOMAIN Stored(b)
  BY DEF TreeInv, Adds
<1>6. ASSUME pc[b] = "hset", Latest(b) = "summary" PROVE Covered(b)'
  <2>1. Covered(b)
    BY <1>6 DEF TreeInv
  <2> QED
    BY <1>1, <2>1 DEF Covered, Adds
<1> QED
  BY <1>1, <1>3, <1>4, <1>5, <1>6 DEF TreeInv

LEMMA TreesStep ==
  ASSUME TypeOK, TreesInv, Adds, NEW a \in Actors, NEW t, NEW p,
         tree' = [tree EXCEPT ![a] = t], pc' = [pc EXCEPT ![a] = p],
         \A b \in Actors \ {a} :
             /\ Agree(Stored(b), entries')
             /\ pc[b] = "hset" => tree[b].leaf \notin Known'
             /\ Apart(a, b)',
         TreeInv(a)'
  PROVE  TreesInv'
<1>1. tree = [b \in Actors |-> tree[b]] /\ pc \in [Actors -> Places]
  BY DEF TypeOK, TreesInv
<1>2. \A b \in Actors \ {a} : tree'[b] = tree[b] /\ pc'[b] = pc[b]
  BY <1>1
<1>3. tree' = [b \in Actors |-> tree'[b]]
  BY <1>1
<1>4. ASSUME NEW b \in Actors PROVE TreeInv(b)'
  <2>1. CASE b = a
    BY <2>1
  <2>2. CASE b # a
    <3>1. TreeInv(b)
      BY DEF TreesInv
    <3>2. tree'[b] = tree[b] /\ pc'[b] = pc[b]
      BY <1>2, <2>2
    <3>3. Agree(Stored(b), entries') /\ (pc[b] = "hset" => tree[b].leaf \notin Known')
      BY <2>2
    <3> QED
      BY <3>1, <3>2, <3>3, TreeStays
  <2> QED
    BY <2>1, <2>2
<1>5. ASSUME NEW b \in Actors, NEW c \in Actors \ {b} PROVE Apart(b, c)'
  <2>1. CASE b = a
    BY <2>1
  <2>2. CASE c = a
    <3>1. Apart(c, b)'
      BY <2>2
    <3> QED
      BY <3>1 DEF Apart, Agree
  <2>3. CASE b # a /\ c # a
    <3>1. Apart(b, c)
      BY DEF TreesInv
    <3>2. tree'[b] = tree[b] /\ pc'[b] = pc[b] /\ tree'[c] = tree[c] /\ pc'[c] = pc[c]
      BY <1>2, <2>3
    <3> QED
      BY <3>1, <3>2 DEF Apart, Stored, Unsaved
  <2> QED
    BY <2>1, <2>2, <2>3
<1> QED
  BY <1>3, <1>4, <1>5 DEF TreesInv

\* Steps that leave the stored entries alone.
Keeps ==
    /\ entries' = entries /\ erased' = erased
    /\ created' \in 0 .. MaxEntries /\ created <= created'
    /\ overtaken.unread \subseteq overtaken'.unread

LEMMA KeepsAdds ==
  ASSUME TypeOK, Keeps
  PROVE  Adds /\ Known' = Known
<1>1. Known' = Known
  BY DEF Known, Keeps
<1> QED
  BY <1>1 DEF Adds, Keeps

\* Most of them create no entry either.
LEMMA SameKeeps ==
  ASSUME TypeOK, entries' = entries, erased' = erased, created' = created,
         overtaken'.unread = overtaken.unread
  PROVE  Keeps
BY MaxNat DEF Keeps, TypeOK

LEMMA KeepsTrees ==
  ASSUME TypeOK, TreesInv, Keeps, NEW a \in Actors, NEW t, NEW p,
         tree' = [tree EXCEPT ![a] = t], pc' = [pc EXCEPT ![a] = p],
         \A b \in Actors \ {a} : Apart(a, b)',
         TreeInv(a)'
  PROVE  TreesInv'
<1>1. Adds /\ Known' = Known /\ entries' = entries
  BY KeepsAdds DEF Keeps
<1>2. ASSUME NEW b \in Actors \ {a}
      PROVE  Agree(Stored(b), entries') /\ (pc[b] = "hset" => tree[b].leaf \notin Known')
  <2>1. TreeInv(b)
    BY DEF TreesInv
  <2> QED
    BY <1>1, <2>1 DEF TreeInv
<1> QED
  BY <1>1, <1>2, TreesStep

\* An actor that is done.
LEMMA LeaveTrees ==
  ASSUME TypeOK, TreesInv, StoreInv, Adds, NEW a \in Actors, Leave(a), entries' = entries,
         Known' = Known
  PROVE  TreesInv'
<1>1. tree' = [tree EXCEPT ![a] = Empty] /\ pc' = [pc EXCEPT ![a] = "idle"]
  BY DEF Leave, Goto
<1>2. tree'[a] = Empty /\ pc'[a] = "idle"
  BY <1>1 DEF TypeOK, TreesInv
<1>3. /\ tree'[a].header = NoHeader /\ tree'[a].entries = <<>> /\ tree'[a].leaf = 0
      /\ tree'[a] = [header |-> tree'[a].header, entries |-> tree'[a].entries,
                     leaf |-> tree'[a].leaf]
  BY <1>2 DEF Empty
<1>4. Stored(a)' = <<>> /\ Unsaved(a)' = {}
  BY <1>2, <1>3 DEF Stored, Unsaved
<1>5. TreeInv(a)'
  <2>1. /\ Sound(Stored(a)', Known', created', overtaken'.unread)
        /\ Agree(Stored(a)', entries') /\ DOMAIN Stored(a)' = {}
    BY <1>4, NoEntries
  <2>2. 0 \in Known'
    BY DEF Known
  <2> QED
    BY <1>2, <1>3, <2>1, <2>2 DEF TreeInv
<1>6. ASSUME NEW b \in Actors \ {a}
      PROVE  /\ Agree(Stored(b), entries') /\ (pc[b] = "hset" => tree[b].leaf \notin Known')
             /\ Apart(a, b)'
  <2>1. TreeInv(b)
    BY DEF TreesInv
  <2>2. Apart(a, b)'
    BY <1>4, NoEntries DEF Apart
  <2> QED
    BY <2>1, <2>2 DEF TreeInv
<1> QED
  BY <1>1, <1>5, <1>6, TreesStep

(***************************************************************************)
(* Steps and the rest of the invariant                                     *)
(***************************************************************************)
\* Somebody's or nobody's.
LockOK == lock \in Actors \cup {Nobody}

LEMMA MoveTypes ==
  ASSUME TypeOK, NEW a \in Actors, NEW p \in Places, pc' = [pc EXCEPT ![a] = p],
         lock' \in {Nobody, a, lock}
  PROVE  pc' \in [Actors -> Places] /\ LockOK'
BY DEF TypeOK, LockOK

LEMMA KeepsTypes ==
  ASSUME TypeOK, Keeps, header' \in {NoHeader} \cup SUBSET Fields, leaf' \in 0 .. MaxEntries,
         pc' \in [Actors -> Places], LockOK',
         started' \in [runs : 0 .. MaxRuns, commands : 0 .. MaxCommands],
         faults' \in 0 .. MaxFaults
  PROVE  TypeOK'
<1>1. entries' = entries /\ created' \in 0 .. MaxEntries
  BY DEF Keeps
<1>2. DOMAIN entries' \subseteq Ids /\ \A id \in DOMAIN entries' : entries'[id] \in Entry
  BY <1>1 DEF TypeOK
<1>3. header' \in {NoHeader} \cup {s : s \in SUBSET Fields}
  OBVIOUS
<1> QED
  BY <1>1, <1>2, <1>3 DEF TypeOK, LockOK

LEMMA KeepsStore ==
  ASSUME TypeOK, StoreInv, Keeps, leaf' \in Known,
         overtaken' \in [tree : SUBSET Actors, header : SUBSET Actors,
                         unread : SUBSET (0 .. MaxEntries)]
  PROVE  StoreInv'
<1>1. entries' = entries /\ erased' = erased /\ Known' = Known
  BY DEF Keeps, Known
<1>2. Sound(entries, Known, created', overtaken'.unread)
  BY SoundStays DEF StoreInv, Keeps, TypeOK
<1>3. erased \subseteq 0 .. created'
  BY MaxNat DEF StoreInv, Keeps, TypeOK
<1> QED
  BY <1>1, <1>2, <1>3 DEF StoreInv

LEMMA KeepsLeaf ==
  ASSUME TypeOK, TreesInv, LeafInv, Keeps, leaf' = leaf, NEW a \in Actors, NEW t, NEW p,
         tree' = [tree EXCEPT ![a] = t], pc' = [pc EXCEPT ![a] = p],
         overtaken.tree \ {a} \subseteq overtaken'.tree,
         a \in overtaken'.tree \/ p = "idle" \/ SeesLeaf(a)'
  PROVE  LeafInv'
<1>1. entries' = entries /\ erased' = erased
  BY DEF Keeps
<1>2. pc'[a] = p /\ \A b \in Actors \ {a} : tree'[b] = tree[b] /\ pc'[b] = pc[b]
  BY DEF TypeOK, TreesInv
<1>3. SUFFICES ASSUME NEW b \in Actors \ overtaken'.tree, pc'[b] # "idle"
               PROVE  SeesLeaf(b)'
  BY DEF LeafInv
<1>4. CASE b = a
  BY <1>2, <1>3, <1>4
<1>5. CASE b # a
  <2>1. SeesLeaf(b)
    BY <1>2, <1>3, <1>5 DEF LeafInv
  <2>2. tree'[b] = tree[b] /\ pc'[b] = pc[b]
    BY <1>2, <1>5
  <2>3. Seen(b)' = Seen(b) /\ Stored(b)' = Stored(b)
    BY <2>2 DEF Seen, Stored
  <2> QED
    BY <1>1, <2>1, <2>2, <2>3 DEF SeesLeaf
<1> QED
  BY <1>4, <1>5

LEMMA HeaderMove ==
  ASSUME TypeOK, TreesInv, HeaderInv, header' = header, erased' = erased,
         NEW a \in Actors, NEW t, NEW p,
         tree' = [tree EXCEPT ![a] = t], pc' = [pc EXCEPT ![a] = p],
         pc[a] \notin {"idle", "leaf", "create"}, p \notin {"leaf", "create", "save"},
         p # "idle" => t.header = tree[a].header,
         overtaken.header \ {a} \subseteq overtaken'.header
  PROVE  HeaderInv'
<1>1. /\ pc'[a] = p /\ tree'[a] = t
      /\ \A b \in Actors \ {a} : tree'[b] = tree[b] /\ pc'[b] = pc[b]
  BY DEF TypeOK, TreesInv
<1>2. NothingYet'
  <2>1. NothingYet
    BY DEF HeaderInv
  <2> QED
    BY <2>1 DEF NothingYet
<1>3. (/\ erased' = {} /\ pc'["run"] \in {"leaf", "create"}
       /\ tree'["run"].header = NoHeader) => header' = NoHeader
  <2>1. CASE a = "run"
    BY <1>1, <2>1
  <2>2. CASE a # "run"
    <3>1. tree'["run"] = tree["run"] /\ pc'["run"] = pc["run"]
      BY <1>1, <2>2, SessionAssumption
    <3> QED
      BY <3>1 DEF HeaderInv
  <2> QED
    BY <2>1, <2>2
<1>4. ASSUME NEW b \in Actors \ {"run"}, pc'[b] # "idle" PROVE tree'[b].header # NoHeader
  BY <1>1, <1>4 DEF HeaderInv
<1>5. ASSUME NEW b \in Actors \ overtaken'.header PROVE SeesHeader(b)'
  <2>1. CASE b = a
    BY <1>1, <2>1 DEF SeesHeader
  <2>2. CASE b # a
    <3>1. SeesHeader(b)
      BY <2>2 DEF HeaderInv
    <3> QED
      BY <1>1, <2>2, <3>1 DEF SeesHeader
  <2> QED
    BY <2>1, <2>2
<1> QED
  BY <1>2, <1>3, <1>4, <1>5 DEF HeaderInv

\* Who is done takes nothing but its own with it.
LEMMA DoneStep ==
  ASSUME StoreInv, NEW a \in Actors, Done(a)
  PROVE  /\ Leave(a)
         /\ overtaken' \in [tree : SUBSET Actors, header : SUBSET Actors,
                            unread : SUBSET (0 .. MaxEntries)]
         /\ overtaken'.unread = overtaken.unread
         /\ overtaken'.tree = overtaken.tree \ {a}
         /\ overtaken'.header = overtaken.header \ {a}
BY DEF StoreInv, Done

LEMMA DoneInv ==
  ASSUME HistoryInv, NEW a \in Actors, Done(a), pc[a] \notin {"idle", "leaf", "create"},
         UNCHANGED <<header, entries, leaf, started, erased>>,
         created' \in 0 .. MaxEntries, created <= created',
         lock' \in {Nobody, lock}, faults' \in 0 .. MaxFaults
  PROVE  HistoryInv'
<1> USE DEF HistoryInv
<1>1. /\ overtaken' \in [tree : SUBSET Actors, header : SUBSET Actors,
                         unread : SUBSET (0 .. MaxEntries)]
      /\ overtaken'.unread = overtaken.unread
      /\ overtaken'.tree = overtaken.tree \ {a} /\ overtaken'.header = overtaken.header \ {a}
      /\ Leave(a)
  BY DoneStep
<1>2. tree' = [tree EXCEPT ![a] = Empty] /\ pc' = [pc EXCEPT ![a] = "idle"]
  BY <1>1 DEF Leave, Goto
<1>3. Keeps
  BY <1>1 DEF Keeps
<1>4. pc' \in [Actors -> Places] /\ LockOK'
  <2>1. "idle" \in Places
    BY DEF Places
  <2> QED
    BY <1>2, <2>1, MoveTypes
<1>5. TypeOK'
  <2>1. /\ header' \in {NoHeader} \cup SUBSET Fields /\ leaf' \in 0 .. MaxEntries
        /\ started' \in [runs : 0 .. MaxRuns, commands : 0 .. MaxCommands]
    BY DEF TypeOK
  <2> QED
    BY <1>3, <1>4, <2>1, KeepsTypes
<1>6. StoreInv'
  BY <1>1, <1>3, KeepsStore DEF StoreInv
<1>7. TreesInv'
  BY <1>1, <1>3, KeepsAdds, LeaveTrees
<1>8. LeafInv'
  BY <1>1, <1>2, <1>3, KeepsLeaf
<1>9. HeaderInv'
  BY <1>1, <1>2, HeaderMove
<1> QED
  BY <1>5, <1>6, <1>7, <1>8, <1>9

(***************************************************************************)
(* Loading and the header                                                  *)
(***************************************************************************)
LEMMA LoadInv ==
  ASSUME HistoryInv, NEW a \in Actors, Load(a)
  PROVE  HistoryInv'
<1> USE DEF HistoryInv
<1> DEFINE t == [header |-> header, entries |-> entries, leaf |-> 0]
<1>1. /\ pc[a] = "idle" /\ MayStart(a)
      /\ tree' = [tree EXCEPT ![a] = t] /\ pc' = [pc EXCEPT ![a] = "leaf"]
      /\ header' = header /\ entries' = entries /\ leaf' = leaf /\ lock' = lock
      /\ created' = created /\ faults' = faults /\ erased' = erased /\ overtaken' = overtaken
  BY DEF Load, Goto, redis
<1>2. Keeps
  BY <1>1, SameKeeps
<1>3. /\ tree'[a] = t /\ pc'[a] = "leaf"
      /\ \A b \in Actors \ {a} : tree'[b] = tree[b] /\ pc'[b] = pc[b]
  BY <1>1 DEF TypeOK, TreesInv
<1>4. /\ tree'[a].header = header /\ tree'[a].entries = entries /\ tree'[a].leaf = 0
      /\ tree'[a] = [header |-> tree'[a].header, entries |-> tree'[a].entries,
                     leaf |-> tree'[a].leaf]
  BY <1>3
<1> HIDE DEF t
<1>5. TypeOK'
  <2>1. pc' \in [Actors -> Places] /\ LockOK'
    <3>1. "leaf" \in Places
      BY DEF Places
    <3> QED
      BY <1>1, <3>1, MoveTypes
  <2>2. started' \in [runs : 0 .. MaxRuns, commands : 0 .. MaxCommands]
    <3>1. started \in [runs : 0 .. MaxRuns, commands : 0 .. MaxCommands]
      BY DEF TypeOK
    <3>2. MaxRuns \in Nat /\ MaxCommands \in Nat
      BY SessionAssumption
    <3>3. CASE a = "run"
      <4>1. started.runs < MaxRuns /\ started' = [started EXCEPT !.runs = @ + 1]
        BY <1>1, <3>3 DEF MayStart, Load
      <4> QED
        BY <3>1, <3>2, <4>1
    <3>4. CASE a # "run"
      <4>1. /\ started.commands < MaxCommands
            /\ started' = [started EXCEPT !.commands = @ + 1]
        BY <1>1, <3>4 DEF MayStart, Load
      <4> QED
        BY <3>1, <3>2, <4>1
    <3> QED
      BY <3>3, <3>4
  <2>3. header' \in {NoHeader} \cup SUBSET Fields /\ leaf' \in 0 .. MaxEntries
        /\ faults' \in 0 .. MaxFaults
    BY <1>1 DEF TypeOK
  <2> QED
    BY <1>2, <2>1, <2>2, <2>3, KeepsTypes
<1>6. StoreInv'
  BY <1>1, <1>2, KeepsStore DEF StoreInv
<1>7. TreesInv'
  <2>1. Stored(a)' = entries /\ Unsaved(a)' = {} /\ Known' = Known
    BY <1>1, <1>3, <1>4 DEF Stored, Unsaved, Known
  <2>2. TreeInv(a)'
    <3>1. Sound(entries, Known, created, overtaken.unread) /\ Agree(entries, entries)
      BY DEF StoreInv, Agree
    <3>2. header \in {NoHeader} \cup SUBSET Fields /\ 0 \in Known /\ DOMAIN entries \subseteq Known
      BY DEF TypeOK, Known
    <3> QED
      BY <1>1, <1>3, <1>4, <2>1, <3>1, <3>2 DEF TreeInv
  <2>3. ASSUME NEW b \in Actors \ {a} PROVE Apart(a, b)'
    <3>1. Agree(Stored(b), entries)
      BY DEF TreesInv, TreeInv
    <3>2. Stored(b)' = Stored(b)
      BY <1>3 DEF Stored
    <3> QED
      BY <2>1, <3>1, <3>2 DEF Apart, Agree
  <2> QED
    BY <1>1, <1>2, <2>2, <2>3, KeepsTrees
<1>8. LeafInv'
  <2>1. Seen(a)' = IF header = NoHeader THEN 0 ELSE leaf
    BY <1>1, <1>3, <1>4 DEF Seen
  <2>2. erased = {} => Seen(a)' = leaf
    BY <2>1 DEF HeaderInv, NothingYet
  <2>3. Seen(a)' \in 0 .. MaxEntries
    BY <2>1, MaxNat DEF TypeOK
  <2>4. Chained(entries)
    BY SoundChained DEF StoreInv, TypeOK
  <2>5. Branch(entries, Seen(a)') \subseteq DOMAIN entries
    BY <2>3, <2>4, BranchBelow
  <2>6. Branch(entries', Seen(a)') \subseteq DOMAIN Stored(a)'
    BY <1>1, <1>4, <2>5 DEF Stored
  <2>7. SeesLeaf(a)'
    BY <1>1, <1>3, <2>2, <2>6 DEF SeesLeaf
  <2> QED
    BY <1>1, <1>2, <2>7, KeepsLeaf
<1>9. HeaderInv'
  <2>1. NothingYet'
    <3>1. NothingYet
      BY DEF HeaderInv
    <3>2. a # "run" => header # NoHeader
      BY <1>1 DEF MayStart
    <3> QED
      BY <1>1, <1>3, <1>4, <3>1, <3>2 DEF NothingYet
  <2>2. (/\ erased' = {} /\ pc'["run"] \in {"leaf", "create"}
         /\ tree'["run"].header = NoHeader) => header' = NoHeader
    <3>1. CASE a = "run"
      BY <1>1, <1>4, <3>1
    <3>2. CASE a # "run"
      <4>1. tree'["run"] = tree["run"] /\ pc'["run"] = pc["run"]
        BY <1>3, <3>2, SessionAssumption
      <4> QED
        BY <1>1, <4>1 DEF HeaderInv
    <3> QED
      BY <3>1, <3>2
  <2>3. ASSUME NEW b \in Actors \ {"run"}, pc'[b] # "idle" PROVE tree'[b].header # NoHeader
    <3>1. CASE b = a
      BY <1>1, <1>4, <2>3, <3>1 DEF MayStart
    <3>2. CASE b # a
      BY <1>3, <2>3, <3>2 DEF HeaderInv
    <3> QED
      BY <3>1, <3>2
  <2>4. ASSUME NEW b \in Actors \ overtaken'.header PROVE SeesHeader(b)'
    <3>1. CASE b = a
      BY <1>1, <1>3, <1>4, <3>1 DEF SeesHeader
    <3>2. CASE b # a
      <4>1. SeesHeader(b)
        BY <1>1 DEF HeaderInv
      <4> QED
        BY <1>1, <1>3, <3>2, <4>1 DEF SeesHeader
    <3> QED
      BY <3>1, <3>2
  <2> QED
    BY <2>1, <2>2, <2>3, <2>4 DEF HeaderInv
<1> QED
  BY <1>5, <1>6, <1>7, <1>8, <1>9

LEMMA LoadLeafInv ==
  ASSUME HistoryInv, NEW a \in Actors, LoadLeaf(a)
  PROVE  HistoryInv'
<1> USE DEF HistoryInv
<1>1. /\ pc[a] = "leaf"
      /\ header' = header /\ entries' = entries /\ leaf' = leaf /\ lock' = lock
      /\ created' = created /\ started' = started /\ faults' = faults /\ erased' = erased
  BY DEF LoadLeaf, redis
<1>2. TreeInv(a)
  BY DEF TreesInv
\* Without a header only a run gets here.
<1>3. CASE tree[a].header = NoHeader
  <2>1. a = "run"
    BY <1>1, <1>3 DEF HeaderInv
  <2>2. /\ pc' = [pc EXCEPT ![a] = "create"] /\ tree' = [tree EXCEPT ![a] = Empty]
        /\ overtaken' = overtaken
    BY <1>3, <2>1 DEF LoadLeaf, Goto
  <2>3. /\ tree'[a] = Empty /\ pc'[a] = "create"
        /\ \A b \in Actors \ {a} : tree'[b] = tree[b] /\ pc'[b] = pc[b]
    BY <2>2 DEF TypeOK, TreesInv
  <2>4. /\ tree'[a].header = NoHeader /\ tree'[a].entries = <<>> /\ tree'[a].leaf = 0
        /\ tree'[a] = [header |-> tree'[a].header, entries |-> tree'[a].entries,
                       leaf |-> tree'[a].leaf]
    BY <2>3 DEF Empty
  <2>5. Keeps
    BY <1>1, <2>2, SameKeeps
  <2>6. TypeOK'
    <3>1. pc' \in [Actors -> Places] /\ LockOK'
      <4>1. "create" \in Places
        BY DEF Places
      <4> QED
        BY <1>1, <2>2, <4>1, MoveTypes
    <3>2. /\ header' \in {NoHeader} \cup SUBSET Fields /\ leaf' \in 0 .. MaxEntries
          /\ started' \in [runs : 0 .. MaxRuns, commands : 0 .. MaxCommands]
          /\ faults' \in 0 .. MaxFaults
      BY <1>1 DEF TypeOK
    <3> QED
      BY <2>5, <3>1, <3>2, KeepsTypes
  <2>7. StoreInv'
    BY <1>1, <2>2, <2>5, KeepsStore DEF StoreInv
  <2>8. TreesInv'
    <3>1. Stored(a)' = <<>> /\ Unsaved(a)' = {} /\ Known' = Known
      BY <1>1, <2>3, <2>4 DEF Stored, Unsaved, Known
    <3>2. TreeInv(a)'
      <4>1. /\ Sound(Stored(a)', Known', created', overtaken'.unread)
            /\ Agree(Stored(a)', entries') /\ DOMAIN Stored(a)' = {}
        BY <3>1, NoEntries
      <4>2. 0 \in Known'
        BY DEF Known
      <4> QED
        BY <2>3, <2>4, <4>1, <4>2 DEF TreeInv
    <3>3. \A b \in Actors \ {a} : Apart(a, b)'
      BY <3>1, NoEntries DEF Apart
    <3> QED
      BY <2>2, <2>5, <3>2, <3>3, KeepsTrees
  <2>9. LeafInv'
    <3>1. Seen(a)' = 0 /\ Seen(a) = 0
      BY <1>1, <1>3, <2>3, <2>4 DEF Seen
    <3>2. Branch(entries, 0) = {}
      <4>1. Chained(entries) /\ 0 \in 0 .. MaxEntries
        BY SoundChained, MaxNat DEF StoreInv, TypeOK
      <4>2. 0 \notin DOMAIN entries
        BY <4>1, MaxNat DEF Chained
      <4> QED
        BY <4>1, <4>2, BranchDef
    <3>3. a \notin overtaken.tree => SeesLeaf(a)
      BY <1>1 DEF LeafInv
    <3>4. a \notin overtaken.tree => SeesLeaf(a)'
      BY <1>1, <2>3, <3>1, <3>2, <3>3 DEF SeesLeaf
    <3> QED
      BY <1>1, <2>2, <2>5, <3>4, KeepsLeaf
  <2>10. HeaderInv'
    <3>1. NothingYet'
      <4>1. NothingYet
        BY DEF HeaderInv
      <4> QED
        BY <1>1, <2>1, <2>3, <2>4, <4>1 DEF NothingYet
    <3>2. (/\ erased' = {} /\ pc'["run"] \in {"leaf", "create"}
           /\ tree'["run"].header = NoHeader) => header' = NoHeader
      BY <1>1, <1>3, <2>1 DEF HeaderInv
    <3>3. ASSUME NEW b \in Actors \ {"run"}, pc'[b] # "idle"
          PROVE  tree'[b].header # NoHeader
      BY <2>1, <2>3, <3>3 DEF HeaderInv
    <3>4. ASSUME NEW b \in Actors \ overtaken'.header PROVE SeesHeader(b)'
      <4>1. SeesHeader(b)
        BY <2>2 DEF HeaderInv
      <4>2. CASE b = a
        BY <1>1, <1>3, <2>3, <4>1, <4>2 DEF SeesHeader
      <4>3. CASE b # a
        BY <1>1, <2>3, <4>1, <4>3 DEF SeesHeader
      <4> QED
        BY <4>2, <4>3
    <3> QED
      BY <3>1, <3>2, <3>3, <3>4 DEF HeaderInv
  <2> QED
    BY <2>6, <2>7, <2>8, <2>9, <2>10
<1>4. CASE tree[a].header # NoHeader
  <2> DEFINE p == CASE a = "run" -> "user" [] a = "compact" -> "turn" [] OTHER -> "save"
             t == [tree[a] EXCEPT !.leaf = leaf]
  <2>1. pc' = [pc EXCEPT ![a] = p] /\ overtaken' = overtaken /\ tree' = [tree EXCEPT ![a].leaf = leaf]
    BY <1>4 DEF LoadLeaf, Goto
  <2>2. tree' = [tree EXCEPT ![a] = t]
    BY <2>1
  <2>3. p \in {"user", "turn", "save"} /\ p \in Places
    BY DEF Places
  <2>4. /\ t.header = tree[a].header /\ t.entries = tree[a].entries /\ t.leaf = leaf
        /\ t = [header |-> t.header, entries |-> t.entries, leaf |-> t.leaf]
    BY <1>2 DEF TreeInv
  <2> HIDE DEF p, t
  <2>5. /\ tree'[a] = t /\ pc'[a] = p
        /\ \A b \in Actors \ {a} : tree'[b] = tree[b] /\ pc'[b] = pc[b]
    BY <2>1, <2>2 DEF TypeOK, TreesInv
  <2>6. Keeps
    BY <1>1, <2>1, SameKeeps
  <2>7. TypeOK'
    <3>1. pc' \in [Actors -> Places] /\ LockOK'
      BY <1>1, <2>1, <2>3, MoveTypes
    <3>2. /\ header' \in {NoHeader} \cup SUBSET Fields /\ leaf' \in 0 .. MaxEntries
          /\ started' \in [runs : 0 .. MaxRuns, commands : 0 .. MaxCommands]
          /\ faults' \in 0 .. MaxFaults
      BY <1>1 DEF TypeOK
    <3> QED
      BY <2>6, <3>1, <3>2, KeepsTypes
  <2>8. StoreInv'
    BY <1>1, <2>1, <2>6, KeepsStore DEF StoreInv
  <2>9. TreesInv'
    <3>1. Stored(a)' = Stored(a) /\ Unsaved(a)' = {} /\ Unsaved(a) = {} /\ Known' = Known
      BY <1>1, <2>3, <2>4, <2>5 DEF Stored, Unsaved, Known
    <3>2. TreeInv(a)'
      <4>1. leaf \in Known
        BY DEF StoreInv
      <4>2. /\ Sound(Stored(a)', Known', created', overtaken'.unread)
            /\ Agree(Stored(a)', entries') /\ DOMAIN Stored(a)' \subseteq Known'
        BY <1>1, <1>2, <2>1, <3>1 DEF TreeInv
      <4>3. tree'[a].header \in {NoHeader} \cup SUBSET Fields
        BY <1>2, <2>4, <2>5 DEF TreeInv
      <4>4. /\ tree'[a] = [header |-> tree'[a].header, entries |-> tree'[a].entries,
                           leaf |-> tree'[a].leaf]
            /\ tree'[a].leaf \in Known' /\ pc'[a] \notin {"hset", "set", "idle", "create"}
        BY <2>3, <2>4, <2>5, <3>1, <4>1
      <4> QED
        BY <4>2, <4>3, <4>4 DEF TreeInv
    <3>3. ASSUME NEW b \in Actors \ {a} PROVE Apart(a, b)'
      <4>1. Apart(a, b)
        BY DEF TreesInv
      <4>2. Stored(b)' = Stored(b)
        BY <2>5 DEF Stored
      <4> QED
        BY <3>1, <4>1, <4>2 DEF Apart
    <3> QED
      BY <2>1, <2>2, <2>6, <3>2, <3>3, KeepsTrees
  <2>10. LeafInv'
    <3>1. Seen(a)' = leaf /\ Seen(a) = leaf /\ Stored(a)' = Stored(a)
      BY <1>1, <1>4, <2>3, <2>4, <2>5 DEF Seen, Stored
    <3>2. a \notin overtaken.tree => SeesLeaf(a)
      BY <1>1 DEF LeafInv
    <3>3. tree'[a].leaf = leaf
      BY <2>4, <2>5
    <3>4. a \notin overtaken.tree => SeesLeaf(a)'
      BY <1>1, <3>1, <3>2, <3>3 DEF SeesLeaf
    <3> QED
      BY <1>1, <2>1, <2>2, <2>6, <3>4, KeepsLeaf
  <2>11. HeaderInv'
    <3>1. NothingYet'
      <4>1. NothingYet
        BY DEF HeaderInv
      <4> QED
        BY <1>1, <1>4, <4>1 DEF NothingYet
    <3>2. (/\ erased' = {} /\ pc'["run"] \in {"leaf", "create"}
           /\ tree'["run"].header = NoHeader) => header' = NoHeader
      <4>1. CASE a = "run"
        BY <2>3, <2>5, <4>1
      <4>2. CASE a # "run"
        <5>1. tree'["run"] = tree["run"] /\ pc'["run"] = pc["run"]
          BY <2>5, <4>2, SessionAssumption
        <5> QED
          BY <1>1, <5>1 DEF HeaderInv
      <4> QED
        BY <4>1, <4>2
    <3>3. ASSUME NEW b \in Actors \ {"run"}, pc'[b] # "idle"
          PROVE  tree'[b].header # NoHeader
      <4>1. CASE b = a
        BY <1>4, <2>4, <2>5, <4>1
      <4>2. CASE b # a
        BY <2>5, <3>3, <4>2 DEF HeaderInv
      <4> QED
        BY <4>1, <4>2
    <3>4. ASSUME NEW b \in Actors \ overtaken'.header PROVE SeesHeader(b)'
      <4>1. SeesHeader(b)
        BY <2>1 DEF HeaderInv
      <4>2. CASE b = a
        BY <1>1, <2>3, <2>4, <2>5, <4>1, <4>2 DEF SeesHeader
      <4>3. CASE b # a
        BY <1>1, <2>5, <4>1, <4>3 DEF SeesHeader
      <4> QED
        BY <4>2, <4>3
    <3> QED
      BY <3>1, <3>2, <3>3, <3>4 DEF HeaderInv
  <2> QED
    BY <2>7, <2>8, <2>9, <2>10, <2>11
<1> QED
  BY <1>3, <1>4

LEMMA OvertakeStep ==
  ASSUME StoreInv, NEW a \in Actors, NEW part \in {"tree", "header"}, Overtake(part, a)
  PROVE  /\ overtaken' \in [tree : SUBSET Actors, header : SUBSET Actors,
                            unread : SUBSET (0 .. MaxEntries)]
         /\ overtaken'.unread = overtaken.unread
         /\ overtaken'.tree = IF part = "tree" THEN overtaken.tree \cup Others(a)
                              ELSE overtaken.tree
         /\ overtaken'.header = IF part = "header" THEN overtaken.header \cup Others(a)
                                ELSE overtaken.header
<1>1. Others(a) \subseteq Actors
  BY DEF Others
<1>2. overtaken' = [overtaken EXCEPT ![part] = @ \cup Others(a)]
  BY DEF Overtake
<1>3. overtaken \in [tree : SUBSET Actors, header : SUBSET Actors,
                     unread : SUBSET (0 .. MaxEntries)]
  BY DEF StoreInv
<1> HIDE DEF Others
<1>4. CASE part = "tree"
  BY <1>1, <1>2, <1>3, <1>4
<1>5. CASE part = "header"
  BY <1>1, <1>2, <1>3, <1>5
<1> QED
  BY <1>4, <1>5

LEMMA SavedStep ==
  ASSUME StoreInv, NEW a \in Actors, Saved(a)
  PROVE  /\ overtaken' \in [tree : SUBSET Actors, header : SUBSET Actors,
                            unread : SUBSET (0 .. MaxEntries)]
         /\ overtaken'.unread = overtaken.unread
         /\ overtaken'.tree = overtaken.tree \ {a} /\ overtaken'.header = Others(a)
<1>1. Others(a) \subseteq Actors
  BY DEF Others
<1> HIDE DEF Others
<1> QED
  BY <1>1 DEF StoreInv, Saved

\* An actor that goes on with the tree it has.
LEMMA PlaceTrees ==
  ASSUME TypeOK, TreesInv, Keeps, tree' = tree, NEW a \in Actors, NEW p,
         pc' = [pc EXCEPT ![a] = p], pc[a] # "hset",
         p \notin {"hset", "set", "idle", "create"}
  PROVE  TreesInv' /\ tree' = [tree EXCEPT ![a] = tree[a]]
<1>1. tree' = [tree EXCEPT ![a] = tree[a]]
  BY DEF TreesInv
<1>2. /\ pc'[a] = p /\ tree'[a] = tree[a]
      /\ \A b \in Actors \ {a} : tree'[b] = tree[b] /\ pc'[b] = pc[b]
  BY DEF TypeOK
<1>3. entries' = entries /\ Known' = Known /\ Adds
  BY KeepsAdds DEF Keeps
<1>4. Stored(a)' = Stored(a) /\ Unsaved(a)' = {} /\ Unsaved(a) = {}
  BY <1>2 DEF Stored, Unsaved
<1>5. TreeInv(a)'
  <2>1. TreeInv(a)
    BY DEF TreesInv
  <2>2. Sound(Stored(a)', Known', created', overtaken'.unread)
    BY <1>3, <1>4, <2>1, SoundStays DEF TreeInv, Adds, TypeOK
  <2>3. Agree(Stored(a)', entries') /\ DOMAIN Stored(a)' \subseteq Known'
    BY <1>3, <1>4, <2>1 DEF TreeInv
  <2>4. /\ tree'[a].header \in {NoHeader} \cup SUBSET Fields
        /\ tree'[a] = [header |-> tree'[a].header, entries |-> tree'[a].entries,
                       leaf |-> tree'[a].leaf]
        /\ tree'[a].leaf \in Known'
    BY <1>2, <1>3, <1>4, <2>1 DEF TreeInv
  <2> QED
    BY <1>2, <2>2, <2>3, <2>4 DEF TreeInv
<1>6. ASSUME NEW b \in Actors \ {a} PROVE Apart(a, b)'
  <2>1. Apart(a, b)
    BY DEF TreesInv
  <2>2. Stored(b)' = Stored(b)
    BY <1>2 DEF Stored
  <2> QED
    BY <1>4, <2>1, <2>2 DEF Apart
<1> QED
  BY <1>1, <1>5, <1>6, KeepsTrees

LEMMA PlaceLeaf ==
  ASSUME HistoryInv, Keeps, tree' = tree, leaf' = leaf, NEW a \in Actors, NEW p,
         pc' = [pc EXCEPT ![a] = p], overtaken.tree \subseteq overtaken'.tree,
         pc[a] \notin {"idle", "leaf", "hset", "set"},
         p \notin {"leaf", "hset", "set", "turn", "results"}
  PROVE  LeafInv'
<1> USE DEF HistoryInv
<1>1. tree' = [tree EXCEPT ![a] = tree[a]] /\ pc'[a] = p /\ tree'[a] = tree[a]
  BY DEF TreesInv, TypeOK
<1>2. Seen(a)' = Seen(a) /\ Stored(a)' = Stored(a) /\ entries' = entries /\ erased' = erased
  BY <1>1 DEF Seen, Stored, Keeps
<1>3. a \notin overtaken.tree => SeesLeaf(a)
  BY DEF LeafInv
<1>4. a \notin overtaken.tree => SeesLeaf(a)'
  BY <1>1, <1>2, <1>3 DEF SeesLeaf
<1> QED
  BY <1>1, <1>4, KeepsLeaf

LEMMA CreateHeaderInv ==
  ASSUME HistoryInv, CreateHeader
  PROVE  HistoryInv'
<1> USE DEF HistoryInv
<1>1. /\ pc["run"] = "create" /\ header' = {} /\ Overtake("header", "run")
      /\ pc' = [pc EXCEPT !["run"] = "user"] /\ tree' = tree
      /\ entries' = entries /\ leaf' = leaf /\ lock' = lock /\ erased' = erased
      /\ created' = created /\ started' = started /\ faults' = faults
  BY DEF CreateHeader, Goto
<1>2. "run" \in Actors /\ {} # NoHeader
  BY SessionAssumption
<1>3. /\ overtaken' \in [tree : SUBSET Actors, header : SUBSET Actors,
                         unread : SUBSET (0 .. MaxEntries)]
      /\ overtaken'.unread = overtaken.unread /\ overtaken'.tree = overtaken.tree
      /\ overtaken'.header = overtaken.header \cup Others("run")
  BY <1>1, <1>2, OvertakeStep
<1>4. Keeps
  BY <1>1, <1>3, SameKeeps
<1>5. TypeOK'
  <2>1. pc' \in [Actors -> Places] /\ LockOK'
    <3>1. "user" \in Places
      BY DEF Places
    <3> QED
      BY <1>1, <1>2, <3>1, MoveTypes
  <2>2. /\ header' \in {NoHeader} \cup SUBSET Fields /\ leaf' \in 0 .. MaxEntries
        /\ started' \in [runs : 0 .. MaxRuns, commands : 0 .. MaxCommands]
        /\ faults' \in 0 .. MaxFaults
    BY <1>1 DEF TypeOK
  <2> QED
    BY <1>4, <2>1, <2>2, KeepsTypes
<1>6. StoreInv'
  BY <1>1, <1>3, <1>4, KeepsStore DEF StoreInv
<1>7. TreesInv'
  BY <1>1, <1>2, <1>4, PlaceTrees
<1>8. LeafInv'
  BY <1>1, <1>2, <1>3, <1>4, PlaceLeaf
<1>9. HeaderInv'
  <2>1. pc'["run"] = "user" /\ \A b \in Actors \ {"run"} : pc'[b] = pc[b]
    BY <1>1, <1>2 DEF TypeOK
  <2>2. NothingYet'
    BY <1>1, <1>2 DEF NothingYet
  <2>3. ASSUME NEW b \in Actors \ overtaken'.header PROVE SeesHeader(b)'
    <3>1. CASE b = "run"
      BY <2>1, <3>1 DEF SeesHeader
    <3>2. CASE b # "run"
      <4>1. pc[b] = "idle"
        BY <1>3, <3>2 DEF Others
      <4> QED
        BY <2>1, <3>2, <4>1 DEF SeesHeader
    <3> QED
      BY <3>1, <3>2
  <2> QED
    BY <1>1, <2>1, <2>2, <2>3 DEF HeaderInv
<1> QED
  BY <1>5, <1>6, <1>7, <1>8, <1>9

\* A loaded header with a field more; there was one to load.
LEMMA SaveHeaderStep ==
  ASSUME HistoryInv, NEW a, NEW field \in Fields, SaveHeader(a, field)
  PROVE  /\ a \in Actors /\ pc[a] = "save"
         /\ header' = tree[a].header \cup {field}
         /\ entries' = entries /\ leaf' = leaf /\ lock' = lock /\ created' = created
         /\ started' = started /\ faults' = faults /\ erased' = erased
         /\ a # "run" => header' \in SUBSET Fields /\ header' # NoHeader
<1> USE DEF HistoryInv
<1>1. /\ a \in Actors /\ pc[a] = "save" /\ header' = tree[a].header \cup {field}
      /\ entries' = entries /\ leaf' = leaf /\ lock' = lock /\ created' = created
      /\ started' = started /\ faults' = faults /\ erased' = erased
  BY DEF SaveHeader
<1>2. ASSUME a # "run" PROVE header' \in SUBSET Fields /\ header' # NoHeader
  <2>1. tree[a].header # NoHeader
    BY <1>1, <1>2 DEF HeaderInv
  <2>2. tree[a].header \in {NoHeader} \cup SUBSET Fields
    BY <1>1 DEF TreesInv, TreeInv
  <2>3. tree[a].header \in SUBSET Fields
    BY <2>1, <2>2
  <2>4. header' \in SUBSET Fields
    BY <1>1, <2>3
  <2> QED
    BY <2>4, SessionAssumption
<1> QED
  BY <1>1, <1>2

\* The others' headers are overtaken now.
LEMMA SavedHeader ==
  ASSUME HistoryInv, NEW a \in Actors, NEW t, NEW p, a # "run", pc[a] = "save",
         header' # NoHeader, erased' = erased, Others(a) \subseteq overtaken'.header,
         tree' = [tree EXCEPT ![a] = t], pc' = [pc EXCEPT ![a] = p],
         p \notin {"leaf", "create", "save"}, p # "idle" => t.header = tree[a].header
  PROVE  HeaderInv'
<1> USE DEF HistoryInv
<1>1. /\ pc'[a] = p /\ tree'[a] = t
      /\ \A b \in Actors \ {a} : tree'[b] = tree[b] /\ pc'[b] = pc[b]
  BY DEF TypeOK, TreesInv
<1>2. NothingYet'
  BY DEF NothingYet
\* A run that found no header is alone.
<1>3. (/\ erased' = {} /\ pc'["run"] \in {"leaf", "create"}
       /\ tree'["run"].header = NoHeader) => header' = NoHeader
  <2>1. tree'["run"] = tree["run"] /\ pc'["run"] = pc["run"]
    BY <1>1, SessionAssumption
  <2>2. SUFFICES ASSUME erased = {}, pc["run"] \in {"leaf", "create"},
                        tree["run"].header = NoHeader
                 PROVE  FALSE
    BY <2>1
  <2>3. header = NoHeader
    BY <2>2 DEF HeaderInv
  <2> QED
    BY <2>2, <2>3 DEF HeaderInv, NothingYet
<1>4. ASSUME NEW b \in Actors \ {"run"}, pc'[b] # "idle" PROVE tree'[b].header # NoHeader
  BY <1>1, <1>4 DEF HeaderInv
<1>5. ASSUME NEW b \in Actors \ overtaken'.header PROVE SeesHeader(b)'
  <2>1. CASE b = a
    BY <1>1, <2>1 DEF SeesHeader
  <2>2. CASE b # a
    <3>1. pc[b] = "idle"
      BY <2>2 DEF Others
    <3> QED
      BY <1>1, <2>2, <3>1 DEF SeesHeader
  <2> QED
    BY <2>1, <2>2
<1> QED
  BY <1>2, <1>3, <1>4, <1>5 DEF HeaderInv

LEMMA SavedInv ==
  ASSUME HistoryInv, NEW a \in Actors \ {"run"}, NEW field \in Fields,
         SaveHeader(a, field), Saved(a)
  PROVE  HistoryInv'
<1> USE DEF HistoryInv
<1>1. /\ pc[a] = "save" /\ header' \in SUBSET Fields /\ header' # NoHeader
      /\ entries' = entries /\ leaf' = leaf /\ lock' = lock /\ created' = created
      /\ started' = started /\ faults' = faults /\ erased' = erased
  BY SaveHeaderStep
<1>2. /\ overtaken' \in [tree : SUBSET Actors, header : SUBSET Actors,
                         unread : SUBSET (0 .. MaxEntries)]
      /\ overtaken'.unread = overtaken.unread
      /\ overtaken'.tree = overtaken.tree \ {a} /\ overtaken'.header = Others(a)
  BY SavedStep
<1>3. Leave(a) /\ tree' = [tree EXCEPT ![a] = Empty] /\ pc' = [pc EXCEPT ![a] = "idle"]
  BY DEF Saved, Leave, Goto
<1>4. Keeps
  BY <1>1, <1>2, SameKeeps
<1>5. TypeOK'
  <2>1. pc' \in [Actors -> Places] /\ LockOK'
    <3>1. "idle" \in Places
      BY DEF Places
    <3> QED
      BY <1>1, <1>3, <3>1, MoveTypes
  <2>2. /\ header' \in {NoHeader} \cup SUBSET Fields /\ leaf' \in 0 .. MaxEntries
        /\ started' \in [runs : 0 .. MaxRuns, commands : 0 .. MaxCommands]
        /\ faults' \in 0 .. MaxFaults
    BY <1>1 DEF TypeOK
  <2> QED
    BY <1>4, <2>1, <2>2, KeepsTypes
<1>6. StoreInv'
  BY <1>1, <1>2, <1>4, KeepsStore DEF StoreInv
<1>7. TreesInv'
  BY <1>1, <1>3, <1>4, KeepsAdds, LeaveTrees
<1>8. LeafInv'
  BY <1>1, <1>2, <1>3, <1>4, KeepsLeaf
<1>9. HeaderInv'
  BY <1>1, <1>2, <1>3, SavedHeader
<1> QED
  BY <1>5, <1>6, <1>7, <1>8, <1>9

LEMMA OverrideModelInv ==
  ASSUME HistoryInv, OverrideModel
  PROVE  HistoryInv'
<1> USE DEF HistoryInv
<1>1. "model" \in Actors /\ "model" # "run" /\ "model" \in Fields
  BY DEF OverrideModel, SaveHeader, Fields
<1>2. /\ pc["model"] = "save"
      /\ header' \in SUBSET Fields /\ header' # NoHeader
      /\ entries' = entries /\ leaf' = leaf /\ lock' = lock /\ created' = created
      /\ started' = started /\ faults' = faults /\ erased' = erased
  BY <1>1, SaveHeaderStep DEF OverrideModel
<1>3. /\ pc' = [pc EXCEPT !["model"] = "entry"] /\ tree' = tree
      /\ Overtake("header", "model")
  BY DEF OverrideModel, Goto
<1>4. /\ overtaken' \in [tree : SUBSET Actors, header : SUBSET Actors,
                         unread : SUBSET (0 .. MaxEntries)]
      /\ overtaken'.unread = overtaken.unread /\ overtaken'.tree = overtaken.tree
      /\ overtaken'.header = overtaken.header \cup Others("model")
  BY <1>1, <1>3, OvertakeStep
<1>5. Keeps
  BY <1>2, <1>4, SameKeeps
<1>6. TypeOK'
  <2>1. pc' \in [Actors -> Places] /\ LockOK'
    <3>1. "entry" \in Places
      BY DEF Places
    <3> QED
      BY <1>1, <1>2, <1>3, <3>1, MoveTypes
  <2>2. /\ header' \in {NoHeader} \cup SUBSET Fields /\ leaf' \in 0 .. MaxEntries
        /\ started' \in [runs : 0 .. MaxRuns, commands : 0 .. MaxCommands]
        /\ faults' \in 0 .. MaxFaults
    BY <1>2 DEF TypeOK
  <2> QED
    BY <1>5, <2>1, <2>2, KeepsTypes
<1>7. StoreInv'
  BY <1>2, <1>4, <1>5, KeepsStore DEF StoreInv
<1>8. TreesInv' /\ tree' = [tree EXCEPT !["model"] = tree["model"]]
  BY <1>1, <1>2, <1>3, <1>5, PlaceTrees
<1>9. LeafInv'
  BY <1>1, <1>2, <1>3, <1>4, <1>5, PlaceLeaf
<1>10. HeaderInv'
  BY <1>1, <1>2, <1>3, <1>4, <1>8, SavedHeader
<1> QED
  BY <1>6, <1>7, <1>8, <1>9, <1>10

(***************************************************************************)
(* Appending                                                               *)
(***************************************************************************)
\* The tree with the new entry.
LEMMA ExtendedTree ==
  ASSUME TypeOK, NEW a \in Actors, TreeInv(a), NEW entry
  PROVE  /\ Extended(a, entry).header = tree[a].header
         /\ Extended(a, entry).leaf = created + 1
         /\ DOMAIN Extended(a, entry).entries = DOMAIN Stored(a) \cup {created + 1}
         /\ Extended(a, entry).entries[created + 1] = entry
         /\ \A id \in DOMAIN Stored(a) :
               id # created + 1 /\ Extended(a, entry).entries[id] = Stored(a)[id]
         /\ Extended(a, entry) = [header |-> Extended(a, entry).header,
                                  entries |-> Extended(a, entry).entries,
                                  leaf |-> Extended(a, entry).leaf]
<1> DEFINE x == created + 1
           g == [id \in DOMAIN Stored(a) \cup {x} |-> IF id = x THEN entry ELSE Stored(a)[id]]
<1>1. tree[a] = [header |-> tree[a].header, entries |-> tree[a].entries,
                 leaf |-> tree[a].leaf]
  BY DEF TreeInv
<1>2. Extended(a, entry) = [tree[a] EXCEPT !.leaf = x, !.entries = g]
  BY DEF Extended, Stored
<1>3. /\ DOMAIN g = DOMAIN Stored(a) \cup {x} /\ g[x] = entry
      /\ \A id \in DOMAIN Stored(a) : id # x => g[id] = Stored(a)[id]
  OBVIOUS
<1>4. \A id \in DOMAIN Stored(a) : id # x
  <2>1. DOMAIN Stored(a) \subseteq 1 .. created /\ created \in Nat
    BY MaxNat DEF TreeInv, Sound, TypeOK
  <2> QED
    BY <2>1
<1> HIDE DEF g
<1>5. Extended(a, entry) = [header |-> tree[a].header, entries |-> g, leaf |-> x]
  BY <1>1, <1>2
<1> QED
  BY <1>3, <1>4, <1>5

LEMMA AppendInv ==
  ASSUME HistoryInv, NEW a \in Actors, NEW entry, AppendEntry(a, entry),
         pc[a] \in {"user", "entry", "turn", "results"},
         entry.parent = tree[a].leaf, Fit(created + 1, entry, Known),
         entry.kind = "summary" =>
             /\ Telling(Stored(a), overtaken.unread, entry)
             /\ tree[a].leaf \in DOMAIN Stored(a)
  PROVE  HistoryInv'
<1> USE DEF HistoryInv
<1>1. /\ created' = created + 1 /\ created' \in 0 .. MaxEntries /\ created <= created'
      /\ created \in Nat /\ created' \in 1 .. created'
      /\ header' = header /\ entries' = entries /\ leaf' = leaf
      /\ started' = started /\ faults' = faults /\ erased' = erased
  BY MaxNat DEF AppendEntry, TypeOK
<1>2. CASE lock # Nobody
  <2>1. Done(a) /\ lock' = lock
    BY <1>2 DEF AppendEntry
  <2>2. faults' \in 0 .. MaxFaults
    BY <1>1 DEF TypeOK
  <2> QED
    BY <1>1, <2>1, <2>2, DoneInv
<1>3. CASE lock = Nobody
  <2> DEFINE t == Extended(a, entry)
             x == created + 1
             unread == IF entry.kind = "summary" THEN overtaken.unread \cup Unread(a)
                       ELSE overtaken.unread
  <2>1. /\ lock' = a /\ tree' = [tree EXCEPT ![a] = t] /\ pc' = [pc EXCEPT ![a] = "hset"]
        /\ overtaken' = [overtaken EXCEPT !.unread = unread]
    BY <1>3 DEF AppendEntry, Goto
  <2>2. TreeInv(a) /\ StoreInv
    BY DEF TreesInv
  <2>3. /\ t.header = tree[a].header /\ t.leaf = x
        /\ DOMAIN t.entries = DOMAIN Stored(a) \cup {x} /\ t.entries[x] = entry
        /\ \A id \in DOMAIN Stored(a) : id # x /\ t.entries[id] = Stored(a)[id]
        /\ t = [header |-> t.header, entries |-> t.entries, leaf |-> t.leaf]
    BY <2>2, ExtendedTree
  <2>4. /\ tree'[a] = t /\ pc'[a] = "hset"
        /\ \A b \in Actors \ {a} : tree'[b] = tree[b] /\ pc'[b] = pc[b]
    BY <2>1 DEF TypeOK, TreesInv
  <2>5. Known \subseteq 0 .. created /\ Known \subseteq 0 .. MaxEntries /\ x \notin Known
    BY <1>1, <2>2, KnownIds
  <2>6. /\ Sound(Stored(a), Known, created, overtaken.unread)
        /\ created \in 0 .. MaxEntries
    BY <2>2 DEF TreeInv, TypeOK
  <2>7. /\ Chained(Stored(a))
        /\ \A id \in DOMAIN Stored(a) :
              Stored(a)[id].parent \in Known /\ Stored(a)[id].parent \in 0 .. MaxEntries
    BY <2>6, SoundChained
  <2>8. /\ tree[a].leaf \in Known /\ tree[a].leaf \in 0 .. MaxEntries
    BY <2>2, <2>5 DEF TreeInv, Unsaved
  <2>9. Branch(Stored(a), tree[a].leaf) \subseteq DOMAIN Stored(a)
    BY <2>7, <2>8, BranchBelow
  <2>10. Unread(a) \subseteq 0 .. MaxEntries
    BY <2>7, <2>9 DEF Unread, Stored
  <2>11. /\ overtaken' \in [tree : SUBSET Actors, header : SUBSET Actors,
                            unread : SUBSET (0 .. MaxEntries)]
         /\ overtaken'.unread = unread
         /\ overtaken'.tree = overtaken.tree /\ overtaken'.header = overtaken.header
    <3>1. overtaken \in [tree : SUBSET Actors, header : SUBSET Actors,
                         unread : SUBSET (0 .. MaxEntries)]
      BY <2>2 DEF StoreInv
    <3>2. unread \in SUBSET (0 .. MaxEntries)
      BY <2>10, <3>1
    <3> HIDE DEF unread
    <3> QED
      BY <2>1, <3>1, <3>2
  <2>12. overtaken.unread \subseteq unread
    OBVIOUS
  <2>13. Keeps
    BY <1>1, <2>11, <2>12 DEF Keeps
  <2>14. Known' = Known
    BY <1>1 DEF Known
  <2> HIDE DEF t, unread
  <2>15. TypeOK'
    <3>1. pc' \in [Actors -> Places] /\ LockOK'
      <4>1. "hset" \in Places
        BY DEF Places
      <4> QED
        BY <2>1, <4>1, MoveTypes
    <3>2. /\ header' \in {NoHeader} \cup SUBSET Fields /\ leaf' \in 0 .. MaxEntries
          /\ started' \in [runs : 0 .. MaxRuns, commands : 0 .. MaxCommands]
          /\ faults' \in 0 .. MaxFaults
      BY <1>1 DEF TypeOK
    <3> QED
      BY <2>13, <3>1, <3>2, KeepsTypes
  <2>16. StoreInv'
    BY <1>1, <2>2, <2>11, <2>13, KeepsStore DEF StoreInv
  <2>17. Stored(a)' = t.entries /\ Unsaved(a)' = {x} /\ Latest(a)' = entry.kind
    BY <2>3, <2>4 DEF Stored, Unsaved, Latest
  <2>18. TreesInv'
    <3>1. Sound(Stored(a), Known, created', unread)
      BY <1>1, <2>6, <2>12, SoundStays
    <3>2. Sound(t.entries, Known, created', unread)
      <4>1. entry.kind = "summary" => Telling(Stored(a), unread, entry)
        BY <2>6, <2>8, <2>12, TellingStays
      <4>2. x \in 1 .. created' /\ x \notin DOMAIN Stored(a) /\ Fit(x, t.entries[x], Known)
        BY <1>1, <2>3
      <4> QED
        BY <1>1, <2>3, <2>5, <3>1, <4>1, <4>2, SoundGrows
    <3>3. ASSUME entry.kind = "summary" PROVE Covered(a)'
      <4>1. Chained(t.entries)
        BY <1>1, <3>2, SoundChained
      <4>2. x \in 0 .. MaxEntries /\ x \in DOMAIN t.entries
        BY <1>1, <2>3
      <4>3. Branch(t.entries, x) = Branch(t.entries, entry.parent) \cup {x}
        BY <2>3, <4>1, <4>2, BranchDef
      <4>4. Branch(t.entries, tree[a].leaf) = Branch(Stored(a), tree[a].leaf)
        <5>1. Agree(Stored(a), t.entries)
          BY <2>3 DEF Agree
        <5>2. DOMAIN t.entries \ DOMAIN Stored(a) \subseteq {x}
          BY <2>3
        <5>3. tree[a].leaf # x /\ \A id \in DOMAIN Stored(a) : Stored(a)[id].parent # x
          BY <2>5, <2>7, <2>8
        <5>4. DOMAIN Stored(a) \subseteq DOMAIN t.entries
          BY <2>3
        <5> QED
          BY <2>7, <2>8, <4>1, <5>1, <5>2, <5>3, <5>4, Grown
      <4>5. ASSUME NEW id \in Branch(t.entries, x)
            PROVE  t.entries[id].parent \in {0} \cup erased \cup unread \cup DOMAIN t.entries
        <5>1. CASE id = x
          BY <2>3, <3>3, <5>1
        <5>2. CASE id # x
          <6>1. id \in Branch(Stored(a), tree[a].leaf)
            BY <4>3, <4>4, <4>5, <5>2
          <6>2. t.entries[id] = Stored(a)[id]
            BY <2>3, <2>9, <6>1
          <6>3. Stored(a)[id].parent \in Unread(a) \cup {0} \cup DOMAIN Stored(a)
            BY <6>1 DEF Unread, Stored
          <6> QED
            BY <2>3, <3>3, <6>2, <6>3 DEF unread
        <5> QED
          BY <5>1, <5>2
      <4> QED
        BY <1>1, <2>3, <2>4, <2>11, <2>17, <4>5 DEF Covered
    <3>4. TreeInv(a)'
      <4>1. tree'[a].header \in {NoHeader} \cup SUBSET Fields
        BY <2>2, <2>3, <2>4 DEF TreeInv
      <4>2. Agree(Stored(a)', entries')
        <5>1. Agree(Stored(a), entries) /\ x \notin DOMAIN entries
          BY <2>2, <2>5 DEF TreeInv, Known
        <5> QED
          BY <1>1, <2>3, <2>17, <5>1 DEF Agree
      <4>3. DOMAIN Stored(a)' \subseteq Known' \cup Unsaved(a)'
        <5>1. DOMAIN Stored(a) \subseteq Known
          BY <2>2 DEF TreeInv, Unsaved
        <5> QED
          BY <2>3, <2>14, <2>17, <5>1
      <4>4. /\ tree'[a] = [header |-> tree'[a].header, entries |-> tree'[a].entries,
                           leaf |-> tree'[a].leaf]
            /\ tree'[a].leaf \in Unsaved(a)' /\ tree'[a].leaf \in DOMAIN Stored(a)'
            /\ tree'[a].leaf \notin Known'
        BY <2>3, <2>4, <2>5, <2>14, <2>17
      <4>5. Sound(Stored(a)', Known', created', overtaken'.unread)
        BY <2>11, <2>14, <2>17, <3>2
      <4> QED
        BY <2>4, <2>17, <3>3, <4>1, <4>2, <4>3, <4>4, <4>5 DEF TreeInv
    <3>5. ASSUME NEW b \in Actors \ {a} PROVE Apart(a, b)'
      <4>1. Apart(a, b) /\ TreeInv(b)
        BY DEF TreesInv
      <4>2. Stored(b)' = Stored(b) /\ Unsaved(b)' = Unsaved(b)
        BY <2>4 DEF Stored, Unsaved
      <4>3. x \notin DOMAIN Stored(b)
        BY <1>1, <4>1 DEF TreeInv, Sound
      <4>4. x \notin Unsaved(b)
        BY <4>1, <4>3 DEF TreeInv, Unsaved
      <4>5. Agree(t.entries, Stored(b))
        BY <2>3, <4>1, <4>3 DEF Apart, Agree
      <4> QED
        BY <2>17, <4>2, <4>4, <4>5 DEF Apart
    <3> QED
      BY <2>1, <2>13, <3>4, <3>5, KeepsTrees
  <2>19. LeafInv'
    <3>1. Seen(a)' = tree[a].leaf /\ Seen(a) = tree[a].leaf
      BY <2>3, <2>4, <2>17 DEF Seen
    <3>2. a \notin overtaken.tree => SeesLeaf(a)
      BY DEF LeafInv
    <3>3. a \notin overtaken.tree => SeesLeaf(a)'
      BY <1>1, <2>3, <2>4, <2>17, <3>1, <3>2 DEF SeesLeaf
    <3> QED
      BY <1>1, <2>1, <2>11, <2>13, <3>3, KeepsLeaf
  <2>20. HeaderInv'
    BY <1>1, <2>1, <2>3, <2>11, HeaderMove
  <2> QED
    BY <2>15, <2>16, <2>18, <2>19, <2>20
<1> QED
  BY <1>2, <1>3

\* A message is chained to the leaf its actor has.
LEMMA MessageInv ==
  ASSUME HistoryInv, NEW a \in Actors, NEW kind \in Messages \cup {"model"}, Message(a, kind),
         pc[a] \in {"user", "entry", "turn", "results"}
  PROVE  HistoryInv'
<1> DEFINE entry == [kind |-> kind, parent |-> tree[a].leaf, first |-> 0,
                     about |-> {}, kept |-> {}]
<1>1. AppendEntry(a, entry)
  BY DEF Message
<1>2. TypeOK /\ StoreInv /\ TreeInv(a) /\ created \in Nat /\ MaxEntries \in Nat
  BY MaxNat DEF HistoryInv, TreesInv, TypeOK
<1>3. tree[a].leaf \in Known /\ tree[a].leaf \in 0 .. created /\ tree[a].leaf \in 0 .. MaxEntries
  BY <1>2, KnownIds DEF TreeInv, Unsaved
<1>4. entry \in Entry
  BY <1>2, <1>3 DEF Entry
<1>5. entry.kind # "summary" /\ entry.parent = tree[a].leaf /\ entry.about \cup entry.kept = {}
  BY DEF Messages
<1>6. entry.parent < created + 1
  BY <1>2, <1>3, <1>5
<1>7. Fit(created + 1, entry, Known)
  BY <1>3, <1>4, <1>5, <1>6 DEF Fit
<1> HIDE DEF entry
<1> QED
  BY <1>1, <1>5, <1>7, AppendInv

\* A compaction is planned on a branch that is not empty.
LEMMA CompactInv ==
  ASSUME HistoryInv, NEW a \in Actors, TooLong(a), AppendEntry(a, Compaction(a))
  PROVE  HistoryInv'
<1> DEFINE n == tree[a].leaf
           f == Stored(a)
           items == Context(f, n)
           older == Older(f, items)
<1>1. PICK entry : entry = Compaction(a)
  OBVIOUS
<1>2. /\ entry = [kind |-> "summary", parent |-> n, first |-> n,
                  about |-> About(f, older), kept |-> About(f, items \ older)]
      /\ pc[a] = "turn" /\ ShouldCompact(f, items)
  BY <1>1 DEF Compaction, Prompt, TooLong, Stored
<1>3. TypeOK /\ StoreInv /\ TreeInv(a) /\ created \in Nat /\ MaxEntries \in Nat
  BY MaxNat DEF HistoryInv, TreesInv, TypeOK
<1>4. n \in Known /\ n \in 0 .. created /\ n \in 0 .. MaxEntries
  BY <1>2, <1>3, KnownIds DEF TreeInv, Unsaved
<1>5. Sound(f, Known, created, overtaken.unread) /\ created \in 0 .. MaxEntries
  BY <1>3 DEF TreeInv, TypeOK
<1> HIDE DEF n, f
<1>6. /\ entry.kind = "summary" /\ entry.parent = n /\ entry.first = n
      /\ entry.about = About(f, older) /\ entry.kept = About(f, items \ older)
  BY <1>2
<1>7. Telling(f, overtaken.unread, entry) /\ entry.about \cup entry.kept \subseteq 1 .. created
  BY <1>4, <1>5, <1>6, CompactionTells
<1>8. n \in DOMAIN f
  <2>1. SUFFICES ASSUME n \notin DOMAIN f PROVE FALSE
    OBVIOUS
  <2>2. Chained(f)
    BY <1>5, SoundChained
  <2>3. Branch(f, n) = {}
    BY <1>4, <2>1, <2>2, BranchDef
  <2>4. Context(f, n) = {}
    BY <2>3 DEF Context, Summaries, Said
  <2>5. older = {}
    BY <2>4, OlderPart
  <2> QED
    BY <1>2, <2>5 DEF ShouldCompact
<1>9. Fit(created + 1, entry, Known)
  <2>1. entry.about \subseteq Ids /\ entry.kept \subseteq Ids
    BY <1>3, <1>5, <1>7 DEF Ids
  <2>2. entry \in Entry
    BY <1>2, <1>4, <1>6, <2>1 DEF Entry
  <2>3. entry.parent < created + 1 /\ 1 .. (created + 1) - 1 = 1 .. created
    BY <1>3, <1>4, <1>6
  <2> QED
    BY <1>4, <1>6, <1>7, <2>2, <2>3 DEF Fit
<1> QED
  BY <1>1, <1>2, <1>6, <1>7, <1>8, <1>9, AppendInv DEF n, f

(***************************************************************************)
(* Storing                                                                 *)
(***************************************************************************)
LEMMA SeenKnown ==
  ASSUME HistoryInv, NEW a \in Actors
  PROVE  Seen(a) \in Known
<1>1. TreeInv(a) /\ leaf \in Known /\ 0 \in Known
  BY DEF HistoryInv, TreesInv, StoreInv, Known
<1>2. CASE pc[a] = "leaf"
  BY <1>1, <1>2 DEF Seen
<1>3. CASE pc[a] \in {"hset", "set"}
  <2>1. tree[a].leaf \in DOMAIN Stored(a)
    BY <1>1, <1>3 DEF TreeInv
  <2>2. Stored(a)[tree[a].leaf].parent \in Known
    BY <1>1, <2>1 DEF TreeInv, Sound, Fit
  <2> QED
    BY <1>3, <2>2 DEF Seen
<1>4. CASE pc[a] \notin {"leaf", "hset", "set"}
  <2>1. Seen(a) = tree[a].leaf
    BY <1>4 DEF Seen
  <2>2. tree[a].leaf \in Known
    BY <1>1, <1>4 DEF TreeInv, Unsaved
  <2> QED
    BY <2>1, <2>2
<1> QED
  BY <1>2, <1>3, <1>4

\* The store with the entry that an actor has in hand.
LEMMA HSetStep ==
  ASSUME HistoryInv, NEW a \in Actors, HSet(a)
  PROVE  LET id == tree[a].leaf
         IN  /\ pc[a] = "hset" /\ id \notin Known /\ id \in DOMAIN Stored(a)
             /\ DOMAIN entries' = DOMAIN entries \cup {id} /\ entries'[id] = Stored(a)[id]
             /\ \A i \in DOMAIN entries : i # id /\ entries'[i] = entries[i]
             /\ Known' = Known \cup {id} /\ erased' = erased
             /\ Agree(entries, entries') /\ id \in 1 .. created
<1> DEFINE id == tree[a].leaf
<1>1. /\ pc[a] = "hset" /\ erased' = erased
      /\ entries' = [i \in DOMAIN entries \cup {id} |->
                        IF i = id THEN tree[a].entries[id] ELSE entries[i]]
  BY DEF HSet
<1>2. TreeInv(a)
  BY DEF HistoryInv, TreesInv
<1>3. id \notin Known /\ id \in DOMAIN Stored(a) /\ id \in 1 .. created
  BY <1>1, <1>2 DEF TreeInv, Sound
<1>4. \A i \in DOMAIN entries : i # id
  BY <1>3 DEF Known
<1>5. /\ DOMAIN entries' = DOMAIN entries \cup {id} /\ entries'[id] = Stored(a)[id]
      /\ \A i \in DOMAIN entries : entries'[i] = entries[i]
  BY <1>1, <1>4 DEF Stored
<1>6. Known' = Known \cup {id}
  BY <1>1, <1>5 DEF Known
<1>7. Agree(entries, entries')
  BY <1>5 DEF Agree
<1> QED
  BY <1>1, <1>3, <1>4, <1>5, <1>6, <1>7

LEMMA HSetInv ==
  ASSUME HistoryInv, NEW a \in Actors, HSet(a)
  PROVE  HistoryInv'
<1> USE DEF HistoryInv
<1> DEFINE id == tree[a].leaf
<1>1. /\ pc[a] = "hset" /\ id \notin Known /\ id \in DOMAIN Stored(a)
      /\ DOMAIN entries' = DOMAIN entries \cup {id} /\ entries'[id] = Stored(a)[id]
      /\ \A i \in DOMAIN entries : i # id /\ entries'[i] = entries[i]
      /\ Known' = Known \cup {id} /\ erased' = erased
      /\ Agree(entries, entries') /\ id \in 1 .. created
  BY HSetStep
<1>2. /\ pc' = [pc EXCEPT ![a] = "set"] /\ tree' = tree /\ header' = header /\ leaf' = leaf
      /\ lock' = lock /\ created' = created /\ started' = started /\ faults' = faults
      /\ overtaken' = overtaken
  BY DEF HSet, Goto
<1>3. TreeInv(a) /\ StoreInv /\ created \in 0 .. MaxEntries
  BY DEF TreesInv, TypeOK
<1>4. /\ Sound(entries, Known, created, overtaken.unread)
      /\ Sound(Stored(a), Known, created, overtaken.unread)
      /\ Agree(Stored(a), entries)
  BY <1>3 DEF StoreInv, TreeInv
<1>5. Adds
  BY <1>1, <1>2, <1>3, MaxNat DEF Adds
<1>6. /\ tree' = [tree EXCEPT ![a] = tree[a]] /\ pc'[a] = "set"
      /\ \A b \in Actors \ {a} : tree'[b] = tree[b] /\ pc'[b] = pc[b]
  BY <1>2 DEF TypeOK, TreesInv
<1>7. TypeOK'
  <2>1. pc' \in [Actors -> Places] /\ LockOK'
    <3>1. "set" \in Places
      BY DEF Places
    <3> QED
      BY <1>2, <3>1, MoveTypes
  <2>2. Stored(a)[id] \in Entry /\ id \in Ids
    BY <1>1, <1>3, <1>4, MaxNat DEF Sound, Fit, Ids
  <2>3. DOMAIN entries' \subseteq Ids
    BY <1>1, <2>2 DEF TypeOK
  <2>4. \A i \in DOMAIN entries' : entries'[i] \in Entry
    BY <1>1, <2>2 DEF TypeOK
  <2> QED
    BY <1>2, <2>1, <2>3, <2>4 DEF TypeOK, LockOK
<1>8. Sound(entries', Known', created', overtaken'.unread)
  <2>1. Stored(a)[id].kind = "summary" => Telling(entries, overtaken.unread, Stored(a)[id])
    <3>1. SUFFICES ASSUME Stored(a)[id].kind = "summary"
                   PROVE  Telling(entries, overtaken.unread, Stored(a)[id])
      OBVIOUS
    <3>2. Covered(a)
      BY <1>1, <1>3, <3>1 DEF TreeInv, Latest, Stored
    <3> DEFINE gone == {0} \cup erased
    <3>3. gone \cap DOMAIN entries = {}
      <4>1. 0 \notin DOMAIN entries
        BY <1>3, <1>4 DEF Sound
      <4> QED
        BY <1>3, <4>1 DEF StoreInv
    <3>4. \A i \in Branch(Stored(a), id) :
              Stored(a)[i].parent \in gone \cup overtaken.unread \cup DOMAIN Stored(a)
      BY <3>2 DEF Covered
    <3> HIDE DEF gone, id
    <3> QED
      BY <1>1, <1>3, <1>4, <3>1, <3>3, <3>4, Copied
  <2>2. Fit(id, entries'[id], Known)
    BY <1>1, <1>4 DEF Sound
  <2>3. Sound(entries', Known, created, overtaken.unread)
    <3> HIDE DEF id
    <3> QED
      BY <1>1, <1>3, <1>4, <2>1, <2>2, SoundGrows
  <2> QED
    BY <1>2, <1>3, <1>5, <2>3, SoundStays DEF Adds
<1>9. StoreInv'
  <2>1. erased \cap DOMAIN entries' = {}
    BY <1>1, <1>3 DEF StoreInv, Known
  <2> QED
    BY <1>1, <1>2, <1>3, <1>8, <2>1 DEF StoreInv
<1>10. TreesInv'
  <2>1. Stored(a)' = Stored(a) /\ Unsaved(a)' = {} /\ Unsaved(a) = {id}
    BY <1>1, <1>2, <1>6 DEF Stored, Unsaved
  <2>2. TreeInv(a)'
    <3>1. Sound(Stored(a), Known', created', overtaken'.unread)
      BY <1>3, <1>4, <1>5, SoundStays DEF Adds
    <3>2. Agree(Stored(a), entries')
      BY <1>1, <1>4 DEF Agree
    <3>3. /\ DOMAIN Stored(a) \subseteq Known' /\ tree[a].leaf \in Known'
          /\ tree[a].leaf \in DOMAIN Stored(a)
      BY <1>1, <1>3, <2>1 DEF TreeInv
    <3>4. /\ tree[a] = [header |-> tree[a].header, entries |-> tree[a].entries,
                       leaf |-> tree[a].leaf]
          /\ tree[a].header \in {NoHeader} \cup SUBSET Fields
      BY <1>3 DEF TreeInv
    <3> QED
      BY <1>2, <1>6, <2>1, <3>1, <3>2, <3>3, <3>4 DEF TreeInv
  <2>3. ASSUME NEW b \in Actors \ {a}
        PROVE  /\ Agree(Stored(b), entries')
               /\ pc[b] = "hset" => tree[b].leaf \notin Known'
               /\ Apart(a, b)'
    <3>1. Apart(a, b) /\ TreeInv(b)
      BY DEF TreesInv
    <3>2. Agree(Stored(b), entries')
      <4>1. Agree(Stored(b), entries) /\ Agree(Stored(a), Stored(b))
        BY <3>1 DEF TreeInv, Apart
      <4> QED
        BY <1>1, <4>1 DEF Agree
    <3>3. pc[b] = "hset" => tree[b].leaf \notin Known'
      <4>1. pc[b] = "hset" => tree[b].leaf \notin Known /\ tree[b].leaf # id
        BY <2>1, <3>1 DEF TreeInv, Apart, Unsaved
      <4> QED
        BY <1>1, <4>1
    <3>4. Stored(b)' = Stored(b)
      BY <1>6 DEF Stored
    <3>5. Apart(a, b)'
      BY <2>1, <3>1, <3>4 DEF Apart
    <3> QED
      BY <3>2, <3>3, <3>5
  <2> QED
    BY <1>2, <1>5, <1>6, <2>2, <2>3, TreesStep
<1>11. LeafInv'
  <2>1. SUFFICES ASSUME NEW b \in Actors \ overtaken'.tree, pc'[b] # "idle"
                 PROVE  SeesLeaf(b)'
    BY DEF LeafInv
  <2>2. Seen(b)' = Seen(b) /\ Stored(b)' = Stored(b)
    BY <1>1, <1>2, <1>6 DEF Seen, Stored
  <2>3. SeesLeaf(b)
    BY <1>1, <1>2, <1>6, <2>1 DEF LeafInv
  <2>4. Branch(entries', Seen(b)) = Branch(entries, Seen(b))
    <3>1. Seen(b) \in Known /\ Seen(b) \in 0 .. MaxEntries
      BY SeenKnown, KnownIds
    <3>2. /\ Chained(entries)
          /\ \A i \in DOMAIN entries : entries[i].parent \in Known
      BY <1>3, <1>4, SoundChained
    <3>3. Chained(entries')
      BY <1>2, <1>3, <1>8, SoundChained
    <3>4. DOMAIN entries \subseteq DOMAIN entries' /\ DOMAIN entries' \ DOMAIN entries \subseteq {id}
      BY <1>1
    <3>5. Seen(b) # id /\ \A i \in DOMAIN entries : entries[i].parent # id
      BY <1>1, <3>1, <3>2
    <3> HIDE DEF id
    <3> QED
      BY <1>1, <3>1, <3>2, <3>3, <3>4, <3>5, Grown
  <2>5. pc'[b] \in {"turn", "results"} => pc[b] \in {"turn", "results"}
    BY <1>6
  <2> QED
    BY <1>1, <1>2, <2>2, <2>3, <2>4, <2>5 DEF SeesLeaf
<1>12. HeaderInv'
  BY <1>1, <1>2, <1>6, HeaderMove
<1> QED
  BY <1>7, <1>9, <1>10, <1>11, <1>12

\* Everyone else at work sees an older leaf.
LEMMA SetLeafInv ==
  ASSUME HistoryInv, NEW a \in Actors, NEW ok \in BOOLEAN, SetLeaf(a, ok),
         ok \/ faults < MaxFaults
  PROVE  HistoryInv'
<1> USE DEF HistoryInv
<1>1. /\ pc[a] = "set" /\ leaf' = tree[a].leaf /\ header' = header /\ entries' = entries
      /\ created' = created /\ started' = started /\ erased' = erased
      /\ lock' \in {Nobody, lock}
      /\ faults' = IF ok THEN faults ELSE faults + 1
  BY DEF SetLeaf, Unlock
<1>2. TreeInv(a) /\ StoreInv
  BY DEF TreesInv
<1>3. leaf' \in Known /\ leaf' \in 0 .. MaxEntries
  BY <1>1, <1>2, KnownIds DEF TreeInv, Unsaved
<1>4. /\ header' \in {NoHeader} \cup SUBSET Fields /\ faults' \in 0 .. MaxFaults
      /\ started' \in [runs : 0 .. MaxRuns, commands : 0 .. MaxCommands]
  <2>1. MaxFaults \in Nat /\ faults \in 0 .. MaxFaults
    BY SessionAssumption DEF TypeOK
  <2>2. faults' \in 0 .. MaxFaults
    BY <1>1, <2>1
  <2> QED
    BY <1>1, <2>2 DEF TypeOK
<1>5. CASE ok /\ a = "run" /\ Latest(a) \notin {"answer", "partial"}
  <2> DEFINE p == IF Latest(a) = "call" THEN "results" ELSE "turn"
  <2>1. pc' = [pc EXCEPT ![a] = p] /\ tree' = tree /\ Overtake("tree", a)
    BY <1>5 DEF SetLeaf, Goto
  <2>2. p \in {"results", "turn"} /\ p \in Places
    BY DEF Places
  <2> HIDE DEF p
  <2>3. /\ overtaken' \in [tree : SUBSET Actors, header : SUBSET Actors,
                           unread : SUBSET (0 .. MaxEntries)]
        /\ overtaken'.unread = overtaken.unread
        /\ overtaken'.tree = overtaken.tree \cup Others(a)
        /\ overtaken'.header = overtaken.header
    BY <1>2, <2>1, OvertakeStep
  <2>4. Keeps
    BY <1>1, <2>3, SameKeeps
  <2>5. TypeOK'
    <3>1. pc' \in [Actors -> Places] /\ LockOK'
      BY <1>1, <2>1, <2>2, MoveTypes
    <3> QED
      BY <1>3, <1>4, <2>4, <3>1, KeepsTypes
  <2>6. StoreInv'
    BY <1>2, <1>3, <2>3, <2>4, KeepsStore
  <2>7. TreesInv' /\ tree' = [tree EXCEPT ![a] = tree[a]]
    BY <1>1, <2>1, <2>2, <2>4, PlaceTrees
  <2>8. /\ pc'[a] = p /\ tree'[a] = tree[a]
        /\ \A b \in Actors \ {a} : pc'[b] = pc[b]
    BY <2>1 DEF TypeOK
  <2>9. LeafInv'
    <3>1. SUFFICES ASSUME NEW b \in Actors \ overtaken'.tree, pc'[b] # "idle"
                   PROVE  SeesLeaf(b)'
      BY DEF LeafInv
    <3>2. b = a
      BY <2>3, <2>8, <3>1 DEF Others
    <3>3. SeesLeaf(a)
      BY <1>1, <2>3, <3>1, <3>2 DEF LeafInv
    <3>4. Seen(a) = Stored(a)[tree[a].leaf].parent /\ Seen(a)' = tree[a].leaf
      BY <1>1, <2>2, <2>8 DEF Seen
    <3>5. Stored(a)' = Stored(a) /\ tree[a].leaf \in DOMAIN Stored(a)
      BY <1>1, <1>2, <2>8 DEF Stored, TreeInv
    <3>6. Branch(entries, tree[a].leaf) \subseteq DOMAIN Stored(a)
      <4>1. Chained(entries) /\ tree[a].leaf \in 0 .. MaxEntries
        BY <1>1, <1>2, <1>3, SoundChained DEF StoreInv, TypeOK
      <4>2. CASE tree[a].leaf \in DOMAIN entries
        <5>1. entries[tree[a].leaf].parent = Seen(a)
          BY <1>2, <3>4, <3>5, <4>2 DEF TreeInv, Agree
        <5>2. Branch(entries, tree[a].leaf) = Branch(entries, Seen(a)) \cup {tree[a].leaf}
          BY <4>1, <4>2, <5>1, BranchDef
        <5> QED
          BY <3>3, <3>5, <5>2 DEF SeesLeaf
      <4>3. CASE tree[a].leaf \notin DOMAIN entries
        BY <4>1, <4>3, BranchDef
      <4> QED
        BY <4>2, <4>3
    <3> QED
      BY <1>1, <2>8, <3>2, <3>4, <3>5, <3>6 DEF SeesLeaf
  <2>10. HeaderInv'
    BY <1>1, <2>1, <2>2, <2>3, <2>7, HeaderMove
  <2> QED
    BY <2>5, <2>6, <2>7, <2>9, <2>10
<1>6. CASE ~ (ok /\ a = "run" /\ Latest(a) \notin {"answer", "partial"})
  <2>1. /\ Leave(a) /\ tree' = [tree EXCEPT ![a] = Empty] /\ pc' = [pc EXCEPT ![a] = "idle"]
        /\ overtaken' = [overtaken EXCEPT !.tree = Others(a), !.header = @ \ {a}]
    BY <1>6 DEF SetLeaf, Leave, Goto
  <2>2. /\ overtaken' \in [tree : SUBSET Actors, header : SUBSET Actors,
                           unread : SUBSET (0 .. MaxEntries)]
        /\ overtaken'.unread = overtaken.unread
        /\ overtaken'.tree = Others(a) /\ overtaken'.header = overtaken.header \ {a}
    <3>1. Others(a) \subseteq Actors
      BY DEF Others
    <3> HIDE DEF Others
    <3> QED
      BY <1>2, <2>1, <3>1 DEF StoreInv
  <2>3. Keeps
    BY <1>1, <2>2, SameKeeps
  <2>4. TypeOK'
    <3>1. pc' \in [Actors -> Places] /\ LockOK'
      <4>1. "idle" \in Places
        BY DEF Places
      <4> QED
        BY <1>1, <2>1, <4>1, MoveTypes
    <3> QED
      BY <1>3, <1>4, <2>3, <3>1, KeepsTypes
  <2>5. StoreInv'
    BY <1>2, <1>3, <2>2, <2>3, KeepsStore
  <2>6. TreesInv'
    BY <1>1, <1>2, <2>1, <2>3, KeepsAdds, LeaveTrees
  <2>7. LeafInv'
    <3>1. pc'[a] = "idle" /\ \A b \in Actors \ {a} : pc'[b] = pc[b]
      BY <2>1 DEF TypeOK
    <3> QED
      BY <2>2, <3>1 DEF LeafInv, Others
  <2>8. HeaderInv'
    BY <1>1, <2>1, <2>2, HeaderMove
  <2> QED
    BY <2>4, <2>5, <2>6, <2>7, <2>8
<1> QED
  BY <1>5, <1>6

LEMMA WriteInv ==
  ASSUME HistoryInv, NEW a \in Actors, Write(a)
  PROVE  HistoryInv'
<1>1. CASE HSet(a)
  BY <1>1, HSetInv
<1>2. CASE SetLeaf(a, TRUE)
  BY <1>2, SetLeafInv
<1>3. CASE faults < MaxFaults /\ SetLeaf(a, FALSE)
  BY <1>3, SetLeafInv
<1>4. CASE faults < MaxFaults /\ Fail(a)
  <2>1. /\ Done(a) /\ pc[a] \notin {"idle", "leaf", "create"}
        /\ UNCHANGED <<header, entries, leaf, started, erased>> /\ created' = created
        /\ lock' \in {Nobody, lock}
    BY <1>4 DEF Fail, Unlock
  <2>2. /\ faults' \in 0 .. MaxFaults
        /\ created' \in 0 .. MaxEntries /\ created <= created'
    <3>1. faults \in 0 .. MaxFaults /\ created \in 0 .. MaxEntries
      BY DEF HistoryInv, TypeOK
    <3>2. faults' = faults + 1 /\ MaxFaults \in Nat /\ MaxEntries \in Nat
      BY <1>4, SessionAssumption DEF Fail
    <3> QED
      BY <1>4, <2>1, <3>1, <3>2
  <2> QED
    BY <2>1, <2>2, DoneInv
<1> QED
  BY <1>1, <1>2, <1>3, <1>4 DEF Write

(***************************************************************************)
(* The other steps                                                         *)
(***************************************************************************)
LEMMA QuietInv ==
  ASSUME HistoryInv, TypeOK',
         UNCHANGED <<header, entries, leaf, pc, tree, created, erased, overtaken>>
  PROVE  HistoryInv'
<1> USE DEF HistoryInv
<1>1. Known' = Known
  BY DEF Known
<1>2. StoreInv'
  BY <1>1 DEF StoreInv
<1>3. TreesInv'
  BY <1>1 DEF TreesInv, TreeInv, Apart, Covered, Stored, Unsaved, Latest
<1>4. LeafInv'
  BY DEF LeafInv, SeesLeaf, Seen, Stored
<1>5. HeaderInv'
  BY DEF HeaderInv, NothingYet, SeesHeader
<1> QED
  BY <1>2, <1>3, <1>4, <1>5

LEMMA LockExpiresInv ==
  ASSUME HistoryInv, LockExpires
  PROVE  HistoryInv'
<1>1. /\ lock' = Nobody
      /\ faults' = faults \/ (faults < MaxFaults /\ faults' = faults + 1)
      /\ UNCHANGED <<header, entries, leaf, pc, tree, created, started, erased, overtaken>>
  BY DEF LockExpires
<1>2. TypeOK /\ MaxFaults \in Nat
  BY SessionAssumption DEF HistoryInv
<1>3. faults' \in 0 .. MaxFaults
  BY <1>1, <1>2 DEF TypeOK
<1>4. TypeOK'
  BY <1>1, <1>2, <1>3 DEF TypeOK
<1> QED
  BY <1>1, <1>4, QuietInv

\* Leaving without having written anything.
LEMMA QuitInv ==
  ASSUME HistoryInv, NEW a \in Actors, Done(a), pc[a] \in {"turn", "results"},
         UNCHANGED <<redis, created, started, faults, erased>>
  PROVE  HistoryInv'
<1>1. TypeOK
  BY DEF HistoryInv
<1>2. /\ UNCHANGED <<header, entries, leaf, started, erased>>
      /\ lock' \in {Nobody, lock}
  BY <1>1 DEF redis
<1>3. faults' \in 0 .. MaxFaults /\ created' \in 0 .. MaxEntries /\ created <= created'
  BY <1>1, MaxNat DEF TypeOK
<1> QED
  BY <1>2, <1>3, DoneInv

LEMMA DeleteInv ==
  ASSUME HistoryInv, Delete
  PROVE  HistoryInv'
<1> USE DEF HistoryInv
<1>1. /\ header' = NoHeader /\ entries' = <<>> /\ leaf' = 0 /\ header # NoHeader
      /\ erased' = erased \cup DOMAIN entries \cup {0} /\ started.commands < MaxCommands
      /\ started' = [started EXCEPT !.commands = @ + 1]
      /\ lock' = lock /\ pc' = pc /\ tree' = tree /\ created' = created /\ faults' = faults
      /\ overtaken' = overtaken
  BY DEF Delete
<1>2. DOMAIN entries' = {} /\ Known' = Known /\ created \in 0 .. MaxEntries
  BY <1>1, NoEntries DEF Known, TypeOK
<1>3. Adds
  BY <1>1, <1>2, MaxNat DEF Adds
<1>4. TypeOK'
  <2>1. started' \in [runs : 0 .. MaxRuns, commands : 0 .. MaxCommands]
    <3>1. /\ started \in [runs : 0 .. MaxRuns, commands : 0 .. MaxCommands]
          /\ MaxCommands \in Nat
      BY SessionAssumption DEF TypeOK
    <3> QED
      BY <1>1, <3>1
  <2>2. leaf' \in 0 .. MaxEntries
    BY <1>1, MaxNat
  <2> QED
    BY <1>1, <1>2, <2>1, <2>2 DEF TypeOK
<1>5. StoreInv'
  <2>1. erased' \subseteq 0 .. created'
    BY <1>1, <1>2, MaxNat DEF StoreInv, Sound
  <2>2. Sound(entries', Known', created', overtaken'.unread) /\ leaf' \in Known'
    BY <1>1, NoEntries DEF Known
  <2> QED
    BY <1>1, <1>2, <2>1, <2>2 DEF StoreInv
<1>6. TreesInv'
  <2>1. ASSUME NEW b \in Actors PROVE TreeInv(b)'
    <3>1. TreeInv(b) /\ tree'[b] = tree[b] /\ pc'[b] = pc[b]
      BY <1>1 DEF TreesInv
    <3>2. Agree(Stored(b), entries') /\ (pc[b] = "hset" => tree[b].leaf \notin Known')
      BY <1>1, <1>2, <3>1, NoEntries DEF TreeInv
    <3> QED
      BY <1>3, <3>1, <3>2, TreeStays
  <2>2. ASSUME NEW b \in Actors, NEW c \in Actors \ {b} PROVE Apart(b, c)'
    <3>1. Apart(b, c)
      BY DEF TreesInv
    <3> QED
      BY <1>1, <3>1 DEF Apart, Stored, Unsaved
  <2> QED
    BY <1>1, <2>1, <2>2 DEF TreesInv
<1>7. LeafInv'
  <2>1. SUFFICES ASSUME NEW b \in Actors, pc'[b] # "idle" PROVE SeesLeaf(b)'
    BY DEF LeafInv
  <2>2. Seen(b)' \in 0 .. MaxEntries
    <3>1. Seen(b) \in 0 .. MaxEntries /\ 0 \in 0 .. MaxEntries
      BY SeenKnown, KnownIds, MaxNat
    <3>2. Seen(b)' = 0 \/ Seen(b)' = Seen(b)
      BY <1>1 DEF Seen, Stored
    <3> QED
      BY <3>1, <3>2
  <2>3. Chained(entries')
    BY <1>2 DEF Chained
  <2>4. Branch(entries', Seen(b)') = {}
    BY <1>2, <2>2, <2>3, BranchDef
  <2> QED
    BY <1>1, <2>4 DEF SeesLeaf
<1>8. HeaderInv'
  BY <1>1 DEF HeaderInv, NothingYet, SeesHeader
<1> QED
  BY <1>4, <1>5, <1>6, <1>7, <1>8

(***************************************************************************)
(* The invariant                                                           *)
(***************************************************************************)
LEMMA InitInv == Init => HistoryInv
<1>1. SUFFICES ASSUME Init PROVE HistoryInv
  OBVIOUS
<1>2. /\ header = NoHeader /\ entries = <<>> /\ leaf = 0 /\ lock = Nobody
      /\ pc = [a \in Actors |-> "idle"] /\ tree = [a \in Actors |-> Empty]
      /\ created = 0 /\ started = [runs |-> 0, commands |-> 0] /\ faults = 0
      /\ erased = {} /\ overtaken = [tree |-> {}, header |-> {}, unread |-> {}]
  BY <1>1 DEF Init
<1>3. DOMAIN entries = {} /\ Known = {0}
  BY <1>2, NoEntries DEF Known
<1>4. /\ MaxEntries \in Nat /\ MaxRuns \in Nat /\ MaxCommands \in Nat /\ MaxFaults \in Nat
      /\ "run" \in Actors
  BY SessionAssumption
<1>5. TypeOK
  <2>1. "idle" \in Places
    BY DEF Places
  <2>2. /\ leaf \in 0 .. MaxEntries /\ created \in 0 .. MaxEntries /\ faults \in 0 .. MaxFaults
        /\ started \in [runs : 0 .. MaxRuns, commands : 0 .. MaxCommands]
    BY <1>2, <1>4
  <2> QED
    BY <1>2, <1>3, <2>1, <2>2 DEF TypeOK
<1>6. StoreInv
  <2>1. overtaken \in [tree : SUBSET Actors, header : SUBSET Actors,
                       unread : SUBSET (0 .. MaxEntries)]
    BY <1>2
  <2>2. Sound(entries, Known, created, overtaken.unread)
    BY <1>2, NoEntries
  <2> QED
    BY <1>2, <1>3, <2>1, <2>2 DEF StoreInv
<1>7. TreesInv
  <2>1. ASSUME NEW a \in Actors
        PROVE  tree[a] = Empty /\ pc[a] = "idle" /\ Stored(a) = <<>> /\ Unsaved(a) = {}
    BY <1>2 DEF Stored, Unsaved, Empty
  <2>2. ASSUME NEW a \in Actors PROVE TreeInv(a)
    <3>1. /\ Sound(Stored(a), Known, created, overtaken.unread)
          /\ Agree(Stored(a), entries) /\ DOMAIN Stored(a) = {}
      BY <1>2, <2>1, NoEntries
    <3> QED
      BY <1>3, <2>1, <3>1 DEF TreeInv, Empty
  <2>3. ASSUME NEW a \in Actors, NEW b \in Actors PROVE Apart(a, b)
    BY <2>1, NoEntries DEF Apart
  <2> QED
    BY <1>2, <2>2, <2>3 DEF TreesInv
<1>8. LeafInv
  BY <1>2 DEF LeafInv
<1>9. HeaderInv
  BY <1>2, <1>4 DEF HeaderInv, NothingYet, SeesHeader
<1> QED
  BY <1>5, <1>6, <1>7, <1>8, <1>9 DEF HistoryInv

LEMMA NextInv ==
  ASSUME HistoryInv, [Next]_vars
  PROVE  HistoryInv'
<1>1. "run" \in Actors
  BY SessionAssumption
<1>2. CASE CreateHeader
  BY <1>2, CreateHeaderInv
<1>3. CASE PatchSession
  <2>1. "title" \in Actors \ {"run"} /\ "title" \in Fields
    BY <1>3 DEF PatchSession, SaveHeader, Fields
  <2> QED
    BY <1>3, <2>1, SavedInv DEF PatchSession
<1>4. CASE UpdateLastInteraction
  <2>1. "touch" \in Actors \ {"run"} /\ "touched" \in Fields
    BY <1>4 DEF UpdateLastInteraction, SaveHeader, Fields
  <2> QED
    BY <1>4, <2>1, SavedInv DEF UpdateLastInteraction
<1>5. CASE OverrideModel
  BY <1>5, OverrideModelInv
<1>6. CASE UserMessage
  BY <1>1, <1>6, MessageInv DEF UserMessage, Messages
<1>7. CASE ToolResult
  BY <1>1, <1>7, MessageInv DEF ToolResult, Messages
<1>8. CASE ModelChange
  BY <1>8, MessageInv DEF ModelChange
<1>9. CASE Answer
  <2>1. PICK kind \in {"call", "answer"} : Message("run", kind)
    BY <1>9 DEF Answer
  <2>2. pc["run"] = "turn" /\ kind \in Messages
    BY <1>9, <2>1 DEF Answer, Asking, Messages
  <2> QED
    BY <1>1, <2>1, <2>2, MessageInv
<1>10. CASE PersistPartial
  BY <1>1, <1>10, MessageInv DEF PersistPartial, Asking, Messages
<1>11. CASE TryCompaction
  BY <1>1, <1>11, CompactInv DEF TryCompaction
<1>12. CASE CompactCommand
  <2>1. CASE TooLong("compact") /\ AppendEntry("compact", Compaction("compact"))
    BY <1>12, <2>1, CompactInv DEF CompactCommand
  <2>2. CASE Done("compact") /\ UNCHANGED <<redis, created, started, faults, erased>>
    BY <1>12, <2>2, QuitInv DEF CompactCommand
  <2> QED
    BY <1>12, <2>1, <2>2 DEF CompactCommand
<1>13. CASE StopRun
  BY <1>1, <1>13, QuitInv DEF StopRun
<1>14. CASE LockExpires
  BY <1>14, LockExpiresInv
<1>15. CASE Delete
  BY <1>15, DeleteInv
<1>16. ASSUME NEW a \in Actors, Load(a) PROVE HistoryInv'
  BY <1>16, LoadInv
<1>17. ASSUME NEW a \in Actors, LoadLeaf(a) PROVE HistoryInv'
  BY <1>17, LoadLeafInv
<1>18. ASSUME NEW a \in Actors, Write(a) PROVE HistoryInv'
  BY <1>18, WriteInv
<1>19. CASE UNCHANGED vars
  <2>1. UNCHANGED <<header, entries, leaf, lock, pc, tree, created, started, faults, erased,
                    overtaken>>
    BY <1>19 DEF vars, redis
  <2>2. TypeOK'
    BY <2>1 DEF HistoryInv, TypeOK
  <2> QED
    BY <2>1, <2>2, QuietInv
<1> QED
  BY <1>2, <1>3, <1>4, <1>5, <1>6, <1>7, <1>8, <1>9, <1>10, <1>11, <1>12, <1>13, <1>14, <1>15,
     <1>16, <1>17, <1>18, <1>19 DEF Next

\* What the store, the trees and the headers have in common at every moment
\* (RedisSessionStore, SessionTree).
THEOREM Invariance == Spec => []HistoryInv
<1>1. Init => HistoryInv
  BY InitInv
<1>2. HistoryInv /\ [Next]_vars => HistoryInv'
  BY NextInv
<1> QED
  BY <1>1, <1>2, PTL DEF Spec

(***************************************************************************)
(* The properties                                                          *)
(***************************************************************************)
LEMMA InvBranch == HistoryInv => BranchWhole
<1> SUFFICES ASSUME HistoryInv PROVE BranchWhole
  OBVIOUS
<1>1. /\ Sound(entries, Known, created, overtaken.unread) /\ created \in 0 .. MaxEntries
      /\ leaf \in Known /\ leaf \in 0 .. MaxEntries
  BY DEF HistoryInv, StoreInv, TypeOK
<1>2. Chained(entries) /\ \A id \in DOMAIN entries : entries[id].parent \in Known
  BY <1>1, SoundChained
<1>3. Branch(entries, leaf) \subseteq DOMAIN entries
  BY <1>1, <1>2, BranchBelow
<1> QED
  BY <1>1, <1>2, <1>3 DEF BranchWhole, Known

LEMMA InvPrompt == HistoryInv => PromptTellsHistory
<1> DEFINE gone == overtaken.unread
           n == tree["run"].leaf
           f == Stored("run")
           F == Without(f, gone)
           W == Without(entries, gone)
<1> SUFFICES ASSUME HistoryInv, Asking, "run" \notin overtaken.tree
             PROVE  Said(entries, Branch(W, leaf))
                      \subseteq About(f, Context(f, n)) \cup Wanted(entries, Branch(W, leaf))
  BY DEF PromptTellsHistory, Prompt, Stored
<1>1. "run" \in Actors /\ pc["run"] = "turn"
  BY SessionAssumption DEF Asking
<1>2. /\ Sound(entries, Known, created, gone) /\ created \in 0 .. MaxEntries
      /\ leaf \in 0 .. MaxEntries
  BY DEF HistoryInv, StoreInv, TypeOK
<1>3. TreeInv("run") /\ Sound(f, Known, created, gone) /\ Agree(f, entries)
  BY <1>1 DEF HistoryInv, TreesInv, TreeInv
<1>4. /\ SeesLeaf("run") /\ Seen("run") = n /\ leaf \in {0, n}
  BY <1>1 DEF HistoryInv, LeafInv, SeesLeaf, Seen
<1>5. Chained(entries) /\ Chained(f)
  BY <1>2, <1>3, SoundChained
<1>6. /\ Chained(W) /\ Agree(W, entries) /\ DOMAIN W = DOMAIN entries \ gone
      /\ Branch(W, leaf) \subseteq Branch(entries, leaf) /\ Branch(W, leaf) \cap gone = {}
  BY <1>2, <1>5, WithoutPart
<1> HIDE DEF F, W, n, f, gone
<1>7. CASE leaf = 0
  <2>1. 0 \notin DOMAIN W
    BY <1>6, MaxNat DEF Chained
  <2>2. Branch(W, leaf) = {}
    BY <1>2, <1>6, <1>7, <2>1, BranchDef
  <2> QED
    BY <2>2 DEF Said
<1>8. CASE leaf # 0
  <2>1. n = leaf /\ n \in 0 .. MaxEntries
    BY <1>2, <1>4, <1>8
  <2>2. /\ Chained(F) /\ Agree(F, f) /\ DOMAIN F = DOMAIN f \ gone
    BY <1>5, <2>1, WithoutPart DEF F
  <2>3. Agree(W, F)
    BY <1>3, <1>6, <2>2 DEF Agree
  <2>4. Branch(entries, n) \subseteq DOMAIN f
    BY <1>4 DEF SeesLeaf, f
  <2>5. Branch(W, n) \subseteq DOMAIN F /\ Branch(W, n) \subseteq DOMAIN W
    <3>1. Branch(W, n) \subseteq DOMAIN W
      BY <1>6, <2>1, BranchBelow
    <3> QED
      BY <1>6, <2>1, <2>2, <2>4, <3>1
  <2>6. Branch(W, n) \subseteq Branch(F, n)
    BY <1>6, <2>1, <2>2, <2>3, <2>5, SubBranch
  <2>7. Branch(F, n) \subseteq DOMAIN f
    BY <2>1, <2>2, BranchBelow
  <2>8. Said(f, Branch(F, n)) \subseteq About(f, Context(f, n)) \cup Wanted(f, Branch(F, n))
    <3>1. \A id \in DOMAIN f : f[id].kind = "summary" =>
              f[id].first = f[id].parent /\ Telling(f, gone, f[id])
      BY <1>3 DEF Sound, Fit
    <3> QED
      BY <1>5, <2>1, <3>1, Told DEF F
  <2>9. ASSUME NEW m \in Said(entries, Branch(W, n))
        PROVE  m \in About(f, Context(f, n)) \cup Wanted(entries, Branch(W, n))
    <3>1. m \in Branch(W, n) /\ m \in DOMAIN entries /\ m \in DOMAIN f /\ f[m] = entries[m]
      BY <1>3, <1>6, <2>2, <2>5, <2>9 DEF Said, Agree
    <3>2. m \in Said(f, Branch(F, n))
      BY <2>6, <2>9, <3>1 DEF Said
    <3>3. CASE m \in Wanted(f, Branch(F, n))
      <4>1. PICK t \in Branch(F, n) : m \in f[t].kept \ {f[t].first} /\ m < t
        BY <1>2, <1>3, <2>7, <3>3, WantedAbove
      <4>2. t \in Branch(W, n)
        BY <1>6, <2>1, <2>2, <2>3, <3>1, <4>1, Between
      <4>3. f[t] = entries[t]
        BY <1>3, <1>6, <2>5, <2>7, <4>1, <4>2 DEF Agree
      <4> QED
        BY <4>1, <4>2, <4>3 DEF Wanted
    <3> QED
      BY <2>8, <3>2, <3>3
  <2> QED
    BY <2>1, <2>9
<1> QED
  BY <1>7, <1>8

\* Whatever breaks off an append, and whoever else writes, the stored branch is
\* whole, and the prompts of the runs that have seen it tell of its messages
\* (RedisSessionStore, build_session_context).
THEOREM WholeHistory == Spec => []HistoryIsWhole
<1>1. HistoryInv => HistoryIsWhole
  BY InvBranch, InvPrompt DEF HistoryIsWhole, HistoryInv
<1> QED
  BY <1>1, Invariance, PTL

\* An entry that is stored or made the leaf by someone who has seen the leaf
\* leaves the branch whole.
LEMMA WriteKeeps ==
  ASSUME HistoryInv, NEW a \in Actors, Write(a)
  PROVE  KeepsMessages
<1>1. /\ Chained(entries) /\ created \in 0 .. MaxEntries
      /\ Sound(entries, Known, created, overtaken.unread)
      /\ leaf \in 0 .. MaxEntries
  BY SoundChained DEF HistoryInv, StoreInv, TypeOK
<1>2. CASE HSet(a)
  <2>1. leaf' = leaf /\ Agree(entries, entries') /\ DOMAIN entries \subseteq DOMAIN entries'
    BY <1>2, HSetStep DEF HSet
  <2>2. HistoryInv'
    BY <1>2, HSetInv
  <2>3. Chained(entries')
    BY <2>2, SoundChained DEF HistoryInv, StoreInv, TypeOK
  <2>4. Branch(entries, leaf) \subseteq DOMAIN entries
    BY <1>1, BranchBelow
  <2>5. Branch(entries, leaf) \subseteq Branch(entries', leaf)
    BY <1>1, <2>1, <2>3, <2>4, SubBranch
  <2> QED
    BY <2>1, <2>5 DEF KeepsMessages
<1>3. ASSUME NEW ok \in BOOLEAN, SetLeaf(a, ok) PROVE KeepsMessages
  <2> DEFINE id == tree[a].leaf
  <2>1. pc[a] = "set" /\ leaf' = id /\ entries' = entries /\ erased' = erased
    BY <1>3 DEF SetLeaf
  <2>2. CASE a \in overtaken.tree
    <3>1. SetLeaf(a, TRUE) \/ SetLeaf(a, FALSE)
      <4>1. ok = TRUE \/ ok = FALSE
        OBVIOUS
      <4> QED
        BY <1>3, <4>1
    <3> QED
      BY <2>2, <3>1 DEF KeepsMessages
  <2>3. CASE erased # {}
    BY <2>1, <2>3 DEF KeepsMessages
  <2>4. CASE a \notin overtaken.tree /\ erased = {}
    <3>1. SeesLeaf(a) /\ Seen(a) = Stored(a)[id].parent
      BY <2>1, <2>4 DEF HistoryInv, LeafInv, Seen
    <3>2. Stored(a)[id].parent = leaf
      BY <2>4, <3>1 DEF SeesLeaf
    <3>3. TreeInv(a)
      BY DEF HistoryInv, TreesInv
    <3>4. id \in DOMAIN Stored(a) /\ id \in Known /\ id # 0
      BY <1>1, <2>1, <3>3 DEF TreeInv, Unsaved, Sound
    <3>5. id \in DOMAIN entries /\ id \in 0 .. MaxEntries
      BY <1>1, <2>4, <3>4, MaxNat DEF Known, Chained
    <3>6. entries[id].parent = leaf
      BY <3>2, <3>3, <3>4, <3>5 DEF TreeInv, Agree
    <3>7. Branch(entries, id) = Branch(entries, leaf) \cup {id}
      BY <1>1, <3>5, <3>6, BranchDef
    <3> QED
      BY <2>1, <3>7 DEF KeepsMessages
  <2> QED
    BY <2>2, <2>3, <2>4
<1>4. CASE Fail(a)
  BY <1>4 DEF Fail, KeepsMessages
<1> QED
  BY <1>2, <1>3, <1>4 DEF Write

\* A header is replaced by one that was loaded from it, or after another was.
LEMMA SaveKeeps ==
  ASSUME HistoryInv, NEW a \in Actors, NEW field, SaveHeader(a, field), WritesHeader(a)
  PROVE  KeepsMessages /\ KeepsFields
<1>1. /\ pc[a] = "save" /\ header' = tree[a].header \cup {field}
      /\ entries' = entries /\ leaf' = leaf
  BY DEF SaveHeader
<1>2. a \notin overtaken.header => header \in {NoHeader, tree[a].header}
  BY <1>1 DEF HistoryInv, HeaderInv, SeesHeader
<1> QED
  BY <1>1, <1>2 DEF KeepsMessages, KeepsFields

LEMMA AppendKeeps ==
  ASSUME NEW a, NEW entry, AppendEntry(a, entry)
  PROVE  KeepsMessages /\ KeepsFields
BY DEF AppendEntry, KeepsMessages, KeepsFields

LEMMA StepKeeps ==
  ASSUME HistoryInv, Next
  PROVE  KeepsMessages /\ KeepsFields
<1>1. CASE CreateHeader
  <2>1. /\ "run" \in Actors /\ pc["run"] = "create" /\ entries' = entries /\ leaf' = leaf
        /\ WritesHeader("run")
    BY <1>1, SessionAssumption DEF CreateHeader, WritesHeader
  <2>2. "run" \notin overtaken.header => header = NoHeader
    BY <2>1 DEF HistoryInv, HeaderInv, SeesHeader
  <2> QED
    BY <2>1, <2>2 DEF KeepsMessages, KeepsFields
<1>2. CASE PatchSession
  BY <1>2, SaveKeeps DEF PatchSession, WritesHeader, SaveHeader
<1>3. CASE UpdateLastInteraction
  BY <1>3, SaveKeeps DEF UpdateLastInteraction, WritesHeader, SaveHeader
<1>4. CASE OverrideModel
  BY <1>4, SaveKeeps DEF OverrideModel, WritesHeader, SaveHeader
<1>5. CASE UserMessage \/ ToolResult \/ ModelChange
  BY <1>5, AppendKeeps DEF UserMessage, ToolResult, ModelChange, Message
<1>6. CASE Answer \/ PersistPartial
  BY <1>6, AppendKeeps DEF Answer, PersistPartial, Message
<1>7. CASE TryCompaction
  BY <1>7, AppendKeeps DEF TryCompaction
<1>8. CASE CompactCommand
  <2>1. CASE AppendEntry("compact", Compaction("compact"))
    BY <2>1, AppendKeeps
  <2>2. CASE UNCHANGED <<redis, created, started, faults, erased>>
    BY <2>2 DEF redis, KeepsMessages, KeepsFields
  <2> QED
    BY <1>8, <2>1, <2>2 DEF CompactCommand
<1>9. CASE StopRun
  BY <1>9 DEF StopRun, redis, KeepsMessages, KeepsFields
<1>10. CASE LockExpires
  BY <1>10 DEF LockExpires, KeepsMessages, KeepsFields
<1>11. CASE Delete
  <2>1. erased' # {}
    BY <1>11 DEF Delete
  <2> QED
    BY <1>11, <2>1 DEF KeepsMessages, KeepsFields
<1>12. ASSUME NEW a \in Actors, Load(a) PROVE KeepsMessages /\ KeepsFields
  BY <1>12 DEF Load, redis, KeepsMessages, KeepsFields
<1>13. ASSUME NEW a \in Actors, LoadLeaf(a) PROVE KeepsMessages /\ KeepsFields
  BY <1>13 DEF LoadLeaf, redis, KeepsMessages, KeepsFields
<1>14. ASSUME NEW a \in Actors, Write(a) PROVE KeepsMessages /\ KeepsFields
  <2>1. header' = header
    BY <1>14 DEF Write, HSet, SetLeaf, Fail
  <2> QED
    BY <1>14, <2>1, WriteKeeps DEF KeepsFields
<1> QED
  BY <1>1, <1>2, <1>3, <1>4, <1>5, <1>6, <1>7, <1>8, <1>9, <1>10, <1>11, <1>12, <1>13, <1>14
     DEF Next

\* A message leaves the stored branch, and a field the header, only in the
\* known races and when the session is deleted (append_entry, save_header).
THEOREM KeptHistory == Spec => HistoryIsKept
<1>1. HistoryInv /\ [Next]_vars => [KeepsMessages /\ KeepsFields]_vars
  BY StepKeeps
<1> QED
  BY <1>1, Invariance, PTL DEF Spec, HistoryIsKept

=============================================================================
