-------------------------- MODULE BlockTreeProofs --------------------------
(***************************************************************************)
(* What follows from the assumptions on the tree of blocks: a branch has   *)
(* one block at each height up to that of its last, and the branch of each *)
(* of its blocks is the part of it up to that block.                       *)
(***************************************************************************)
EXTENDS BlockTree, WellFoundedInduction, TLAPS

\* The parent of a block is a block below it; the genesis block is alone at its height.
LEMMA ParentBelow ==
    ASSUME NEW b \in Blocks \ {Genesis}
    PROVE  /\ Parent[b] \in Blocks /\ Height[Parent[b]] = Height[b] - 1
           /\ Height[b] \in Nat \ {0} /\ Height[Parent[b]] \in Nat
           /\ Branch[b] = Branch[Parent[b]] \cup {b}
<1>1. Parent[b] \in Blocks /\ Height[b] = Height[Parent[b]] + 1 /\ Height \in [Blocks -> Nat]
      /\ Branch[b] = Branch[Parent[b]] \cup {b}
  BY TreeAssumption
<1> QED
  BY <1>1

\* A set of blocks has one that is lowest: the least counterexample of the
\* proofs below.
LEMMA Lowest ==
    ASSUME NEW S \in SUBSET Blocks, S # {}
    PROVE  \E b \in S : \A a \in S : Height[b] <= Height[a]
<1> DEFINE T == {Height[b] : b \in S}
<1>1. T \subseteq Nat /\ T # {}
  BY TreeAssumption
<1>2. PICK n \in T : \A m \in T : ~ (<<m, n>> \in OpToRel(<, Nat))
  BY <1>1, WFMin, NatLessThanWellFounded
<1>3. \A m \in T : ~ (m < n)
  BY <1>1, <1>2 DEF OpToRel
<1>4. PICK b \in S : n = Height[b]
  BY <1>1
<1>5. \A a \in S : ~ (Height[a] < Height[b]) /\ Height[a] \in Nat
  BY <1>3, <1>4, TreeAssumption
<1> QED
  BY <1>4, <1>5

\* What a branch is: its blocks are below its last one, which alone has its
\* height, and it holds the branch of each of them.
LEMMA BranchBelow ==
    ASSUME NEW b \in Blocks
    PROVE  /\ b \in Branch[b] /\ Branch[b] \subseteq Blocks
           /\ \A a \in Branch[b] : Height[a] <= Height[b] /\ Branch[a] \subseteq Branch[b]
           /\ \A a \in Branch[b] : Height[a] = Height[b] => a = b
<1> DEFINE Good(x) ==
              /\ x \in Branch[x] /\ Branch[x] \subseteq Blocks
              /\ \A a \in Branch[x] : Height[a] <= Height[x] /\ Branch[a] \subseteq Branch[x]
              /\ \A a \in Branch[x] : Height[a] = Height[x] => a = x
           Bad == {x \in Blocks : ~ Good(x)}
<1>1. SUFFICES ASSUME Bad # {} PROVE FALSE
  OBVIOUS
<1>2. PICK x \in Bad : \A a \in Bad : Height[x] <= Height[a]
  BY <1>1, Lowest
<1>3. CASE x = Genesis
  BY <1>3, TreeAssumption
<1>4. CASE x # Genesis
  <2> DEFINE p == Parent[x]
  <2>1. /\ p \in Blocks /\ Height[p] \in Nat /\ Height[x] \in Nat
        /\ Height[p] = Height[x] - 1 /\ Branch[x] = Branch[p] \cup {x}
    BY <1>4, ParentBelow
  <2> HIDE DEF p
  <2>2. Good(p)
    BY <1>2, <2>1
  <2>3. \A a \in Branch[p] : Height[a] <= Height[p] /\ Branch[a] \subseteq Branch[p]
        /\ Height[a] \in Nat
    BY <2>2, TreeAssumption
  <2>4. \A a \in Branch[p] : Height[a] < Height[x]
    BY <2>1, <2>3
  <2> QED
    BY <2>1, <2>2, <2>3, <2>4
<1> QED
  BY <1>3, <1>4

\* A block is not on the branch of its parent.
LEMMA ParentBranch ==
    ASSUME NEW b \in Blocks \ {Genesis}
    PROVE  b \notin Branch[Parent[b]] /\ \A a \in Branch[Parent[b]] : Height[a] < Height[b]
<1>1. /\ Parent[b] \in Blocks /\ Height[Parent[b]] = Height[b] - 1
      /\ Height[b] \in Nat
  BY ParentBelow
<1>2. \A a \in Branch[Parent[b]] : Height[a] <= Height[Parent[b]] /\ Height[a] \in Nat
  BY <1>1, BranchBelow, TreeAssumption
<1> QED
  BY <1>1, <1>2

\* A block of a branch is on the branch of every block of it that is not lower.
LEMMA BranchOrdered ==
    ASSUME NEW b \in Blocks, NEW a \in Branch[b], NEW x \in Branch[b], Height[a] <= Height[x]
    PROVE  a \in Branch[x]
<1> DEFINE Bad == {y \in Blocks : \E u, v \in Branch[y] : Height[u] <= Height[v] /\ u \notin Branch[v]}
<1>1. SUFFICES ASSUME Bad # {} PROVE FALSE
  OBVIOUS
<1>2. PICK y \in Bad : \A z \in Bad : Height[y] <= Height[z]
  BY <1>1, Lowest
<1>3. PICK u \in Branch[y], v \in Branch[y] : Height[u] <= Height[v] /\ u \notin Branch[v]
  BY <1>2
<1>4. CASE y = Genesis
  BY <1>3, <1>4, TreeAssumption
<1>5. CASE y # Genesis
  <2> DEFINE p == Parent[y]
  <2>1. /\ p \in Blocks /\ Height[p] \in Nat /\ Height[y] \in Nat
        /\ Height[p] = Height[y] - 1 /\ Branch[y] = Branch[p] \cup {y}
    BY <1>5, ParentBelow
  <2> HIDE DEF p
  <2>2. p \notin Bad
    BY <1>2, <2>1
  <2>3. v # y
    BY <1>3, <1>2, BranchBelow
  <2>4. v \in Branch[p] /\ u = y
    BY <1>3, <2>1, <2>2, <2>3
  <2>5. Height[v] <= Height[p] /\ Height[v] \in Nat
    BY <2>1, <2>4, BranchBelow, TreeAssumption
  <2> QED
    BY <1>3, <2>1, <2>4, <2>5
<1> QED
  BY <1>4, <1>5

\* Two blocks of a branch at one height are the same.
LEMMA BranchHeights ==
    ASSUME NEW b \in Blocks, NEW a \in Branch[b], NEW x \in Branch[b], Height[a] = Height[x]
    PROVE  a = x
<1>1. a \in Blocks /\ x \in Blocks /\ Height[a] \in Nat
  BY BranchBelow, TreeAssumption
<1>2. a \in Branch[x]
  BY <1>1, BranchOrdered
<1> QED
  BY <1>1, <1>2, BranchBelow

\* A branch has a block at every height up to that of its last.
LEMMA BranchFull ==
    ASSUME NEW b \in Blocks, NEW h \in Nat, h <= Height[b]
    PROVE  \E a \in Branch[b] : Height[a] = h
<1> DEFINE Bad == {y \in Blocks : h <= Height[y] /\ ~ \E a \in Branch[y] : Height[a] = h}
<1>1. SUFFICES ASSUME Bad # {} PROVE FALSE
  OBVIOUS
<1>2. PICK y \in Bad : \A z \in Bad : Height[y] <= Height[z]
  BY <1>1, Lowest
<1>3. y \in Branch[y] /\ Height[y] # h /\ Height[y] \in Nat
  BY <1>2, BranchBelow, TreeAssumption
<1>4. y # Genesis
  BY <1>2, <1>3, TreeAssumption
<1> DEFINE p == Parent[y]
<1>5. /\ p \in Blocks /\ Height[p] \in Nat
      /\ Height[p] = Height[y] - 1 /\ Branch[y] = Branch[p] \cup {y}
  BY <1>4, ParentBelow
<1> HIDE DEF p
<1>6. h <= Height[p]
  BY <1>2, <1>3, <1>5
<1>7. p \notin Bad
  BY <1>2, <1>3, <1>5
<1> QED
  BY <1>2, <1>5, <1>6, <1>7

\* From every height the end of a group is less than a group away.
LEMMA GroupEnd ==
    ASSUME NEW n \in Nat
    PROVE  \E m \in Nat : n <= m /\ m < n + GroupSize /\ m % GroupSize = GroupSize - 1
<1> DEFINE g == GroupSize
           r == n % g
           q == n \div g
           m == n - r + g - 1
<1>1. g \in Nat /\ g > 0
  BY GroupAssumption
<1> HIDE DEF g
<1>2. r \in 0 .. g - 1 /\ q \in Int /\ n = g * q + r
  BY <1>1
<1>3. m \in Nat /\ n <= m /\ m < n + g
  BY <1>1, <1>2
<1>4. m = g * q + (g - 1)
  BY <1>1, <1>2
<1> HIDE DEF m, r, q
<1>5. m % g = g - 1
  <2> DEFINE s == m % g
             p == m \div g
  <2>1. s \in 0 .. g - 1 /\ p \in Int /\ m = g * p + s
    BY <1>1, <1>3
  <2> HIDE DEF s, p
  <2>2. q \in Int /\ g * (q - p) = s - (g - 1)
    BY <1>1, <1>2, <1>4, <2>1
  <2>3. s - (g - 1) <= 0 /\ s - (g - 1) > 0 - g
    BY <1>1, <2>1
  <2>4. CASE q - p >= 1
    BY <1>1, <2>1, <2>2, <2>3, <2>4
  <2>5. CASE q - p <= 0 - 1
    BY <1>1, <2>1, <2>2, <2>3, <2>5
  <2>6. CASE q = p
    BY <1>1, <2>1, <2>2, <2>6 DEF s
  <2> QED
    BY <2>1, <2>2, <2>4, <2>5, <2>6
<1> QED
  BY <1>3, <1>5 DEF g
=============================================================================
