------------------------------ MODULE IxmlProofs ------------------------------
(***************************************************************************)
(* Theorems about Ixml for any number of nodes: the pointers are always    *)
(* those of a forest, and every call does to it what DomTree says.         *)
(***************************************************************************)
EXTENDS Ixml, SequenceLemmas, FiniteSetTheorems

-----------------------------------------------------------------------------
(* Loops and recursions *)

\* What holds at the start of a loop and after every turn holds throughout.
LEMMA Induction ==
    ASSUME NEW N \in Nat, NEW T, 0 \in T, \A i \in 1..N : i - 1 \in T => i \in T
    PROVE  \A i \in 0..N : i \in T
  <1> DEFINE B == {i \in 0..N : i \notin T}
  <1>1. SUFFICES ASSUME B # {} PROVE FALSE
    OBVIOUS
  <1>2. B \subseteq Nat
    OBVIOUS
  <1>3. PICK m : m \in B /\ \A y \in B : m <= y
    BY <1>1, <1>2, LeastExists
  <1>4. m \in 1..N /\ m - 1 \in 0..N /\ ~(m <= m - 1)
    BY <1>3
  <1>5. m - 1 \in T
    BY <1>3, <1>4
  <1> QED BY <1>3, <1>4, <1>5

\* What holds for an element when it holds for all of lower rank holds for all.
LEMMA RankInduction ==
    ASSUME NEW S, NEW rank \in [S -> Nat], NEW T,
           \A x \in S : (\A y \in S : rank[y] < rank[x] => y \in T) => x \in T
    PROVE  \A x \in S : x \in T
  <1> DEFINE B == {rank[x] : x \in {z \in S : z \notin T}}
  <1>1. SUFFICES ASSUME B # {} PROVE FALSE
    OBVIOUS
  <1>2. B \subseteq Nat
    OBVIOUS
  <1>3. PICK m : m \in B /\ \A y \in B : m <= y
    BY <1>1, <1>2, LeastExists
  <1>4. PICK x \in S : x \notin T /\ m = rank[x]
    BY <1>3
  <1>5. ASSUME NEW y \in S, rank[y] < rank[x] PROVE y \in T
    <2>1. y \notin T => rank[y] \in B
      OBVIOUS
    <2>2. rank[y] \in Nat /\ rank[x] \in Nat /\ ~(rank[x] <= rank[y])
      BY <1>5
    <2> QED BY <1>3, <1>4, <2>1, <2>2
  <1> QED BY <1>4, <1>5

\* A loop of N turns.
HasWalk(N, W, a, step) ==
    \E f \in [0..N -> W] : f[0] = a /\ \A i \in 1..N : f[i] = step[f[i - 1]]

\* A loop of N turns can be run.
LEMMA Walk ==
    ASSUME NEW N \in Nat, NEW W, NEW a \in W, NEW step \in [W -> W]
    PROVE  HasWalk(N, W, a, step)
  <1> DEFINE Upto(n) == \E f \in [0..n -> W] : f[0] = a /\ \A i \in 1..n : f[i] = step[f[i - 1]]
             T == {n \in 0..N : Upto(n)}
  <1>1. 0 \in T
    <2>1. [i \in 0..0 |-> a] \in [0..0 -> W]
      OBVIOUS
    <2>2. [i \in 0..0 |-> a][0] = a /\ \A i \in 1..0 : FALSE
      OBVIOUS
    <2>3. Upto(0)
      BY <2>1, <2>2
    <2> QED BY <2>3
  <1>2. ASSUME NEW n \in 1..N, n - 1 \in T PROVE n \in T
    <2>1. PICK f \in [0..(n - 1) -> W] : f[0] = a /\ \A i \in 1..(n - 1) : f[i] = step[f[i - 1]]
      BY <1>2
    <2> DEFINE g == [i \in 0..n |-> IF i = n THEN step[f[n - 1]] ELSE f[i]]
    <2>2. f[n - 1] \in W
      BY <2>1
    <2>3. g \in [0..n -> W]
      BY <2>1, <2>2
    <2>4. g[0] = a
      BY <2>1
    <2>5. \A i \in 1..n : g[i] = step[g[i - 1]]
      BY <2>1
    <2> HIDE DEF g
    <2>6. Upto(n)
      BY <2>3, <2>4, <2>5
    <2> QED BY <2>6
  <1> HIDE DEF T
  <1>3. \A i \in 0..N : i \in T
    BY <1>1, <1>2, Induction
  <1>4. N \in T
    BY <1>3
  <1> QED BY <1>4 DEF T, HasWalk

\* Two loops that start alike and take the same turns end alike.
LEMMA SameWalk ==
    ASSUME NEW N \in Nat, NEW f, NEW g, f[0] = g[0],
           \A i \in 1..N : f[i - 1] = g[i - 1] => f[i] = g[i]
    PROVE  \A i \in 0..N : f[i] = g[i]
  <1> DEFINE T == {i \in 0..N : f[i] = g[i]}
  <1>1. 0 \in T
    OBVIOUS
  <1>2. \A i \in 1..N : i - 1 \in T => i \in T
    OBVIOUS
  <1> HIDE DEF T
  <1>3. \A i \in 0..N : i \in T
    BY <1>1, <1>2, Induction
  <1> QED BY <1>3 DEF T

\* A recursive function that goes on from x to next[x] until it stops, where it
\* returns val, exists.
HasChain(S, V, stop, next, val) ==
    \E f \in [S -> V] : \A x \in S : /\ x \in stop => f[x] = val[x]
                                     /\ x \notin stop => f[x] = f[next[x]]

\* There is one, because the end of a chain is found from each of its elements.
LEMMA Chain ==
    ASSUME NEW S, NEW stop \in SUBSET S, NEW next \in [S -> S], NEW V, NEW val \in [S -> V]
    PROVE  HasChain(S, V, stop, next, val)
  <1> DEFINE Closed(T) == \A z \in T : z \notin stop => next[z] \in T
             Reach(x) == {y \in S : \A T \in SUBSET S : x \in T /\ Closed(T) => y \in T}
             End(x) == {y \in stop : y \in Reach(x)}
             Pick(T) == IF T = {} THEN CHOOSE y \in S : TRUE ELSE CHOOSE y \in S : y \in T
             f == [x \in S |-> val[Pick(End(x))]]
  <1>1. ASSUME NEW x \in stop PROVE End(x) = {x}
    <2>1. {x} \in SUBSET S /\ Closed({x})
      OBVIOUS
    <2>2. x \in Reach(x)
      OBVIOUS
    <2> QED BY <2>1, <2>2
  <1>2. ASSUME NEW x \in S, x \notin stop PROVE End(x) = End(next[x])
    <2>1. ASSUME NEW y \in Reach(next[x]) PROVE y \in Reach(x)
      <3>1. ASSUME NEW T \in SUBSET S, x \in T, Closed(T) PROVE y \in T
        BY <1>2, <2>1, <3>1
      <3> QED BY <3>1
    <2>2. ASSUME NEW y \in stop, y \in Reach(x) PROVE y \in Reach(next[x])
      <3>1. ASSUME NEW T \in SUBSET S, next[x] \in T, Closed(T) PROVE y \in T
        <4>1. T \union {x} \in SUBSET S /\ Closed(T \union {x})
          BY <3>1
        <4>2. y \in T \union {x}
          BY <2>2, <4>1
        <4> QED BY <1>2, <2>2, <4>2
      <3> QED BY <3>1
    <2> QED BY <2>1, <2>2
  <1>3. ASSUME NEW x \in S PROVE End(x) \subseteq S
    OBVIOUS
  <1> HIDE DEF End
  <1>4. ASSUME NEW x \in S PROVE Pick(End(x)) \in S
    BY <1>3
  <1>5. ASSUME NEW x \in stop PROVE Pick(End(x)) = x
    BY <1>1
  <1> HIDE DEF Pick
  <1>6. f \in [S -> V]
    BY <1>4
  <1>7. \A x \in S : x \in stop => f[x] = val[x]
    BY <1>5
  <1>8. \A x \in S : x \notin stop => f[x] = f[next[x]]
    BY <1>2
  <1> HIDE DEF f
  <1> QED BY <1>6, <1>7, <1>8 DEF HasChain

-----------------------------------------------------------------------------
(* Where pointers lead *)

Pointer == Node \union {NULL}
Tree == [parentNode: [Node -> Pointer], firstChild: [Node -> Pointer],
         nextSibling: [Node -> Pointer], prevSibling: [Node -> Pointer]]

\* The nodes are finitely many and NULL is none of them.
LEMMA Nodes == NULL \notin Node /\ IsFiniteSet(Node) /\ Cardinality(Node) \in Nat
  <1>1. NULL \notin Node /\ IsFiniteSet(Node)
    BY IxmlAssumption DEF Node
  <1> QED BY <1>1, FS_CardinalityType

\* Along the siblings and down the first children there is an end: a level falls
\* from a node to its first child and is that of its siblings, among which the
\* distance to the last one falls.
Falls(g, level, rest) ==
    /\ level \in [Node -> Nat] /\ rest \in [Node -> Nat]
    /\ \A m \in Node : g.firstChild[m] # NULL => level[g.firstChild[m]] < level[m]
    /\ \A m \in Node : g.nextSibling[m] # NULL =>
          level[g.nextSibling[m]] = level[m] /\ rest[g.nextSibling[m]] < rest[m]

\* U is not left along the siblings and down the first children.
KeptIn(g, U) ==
    \A m \in U : /\ g.firstChild[m] # NULL => g.firstChild[m] \in U
                 /\ g.nextSibling[m] # NULL => g.nextSibling[m] \in U

\* The last sibling has none after it.
LEMMA LastSiblingEnds ==
    ASSUME NEW g \in Tree, NEW level, NEW rest, Falls(g, level, rest),
           NEW U \in SUBSET Node, \A m \in U : g.nextSibling[m] # NULL => g.nextSibling[m] \in U,
           NEW n \in U
    PROVE  /\ LastSibling(g, n) \in U /\ g.nextSibling[LastSibling(g, n)] = NULL
           /\ level[LastSibling(g, n)] = level[n]
  <1> DEFINE ns == g.nextSibling
             Def(f) == [m \in Node |-> IF ns[m] = NULL THEN m ELSE f[ns[m]]]
             last == CHOOSE f : f = Def(f)
  <1>1. ns \in [Node -> Pointer] /\ NULL \notin Node
    BY Nodes DEF Tree
  <1>2. /\ rest \in [Node -> Nat] /\ level \in [Node -> Nat]
        /\ \A m \in Node : ns[m] # NULL => rest[ns[m]] < rest[m] /\ level[ns[m]] = level[m]
    BY DEF Falls
  <1>3. LastSibling(g, n) = last[n]
    BY DEF LastSibling
  <1> HIDE DEF ns
  <1>4. \E f : f = Def(f)
    <2> DEFINE stop == {m \in Node : ns[m] = NULL}
               next == [m \in Node |-> IF ns[m] = NULL THEN m ELSE ns[m]]
               val == [m \in Node |-> m]
    <2>1. stop \in SUBSET Node /\ next \in [Node -> Node] /\ val \in [Node -> Node]
      BY <1>1 DEF Pointer
    <2>2. PICK f \in [Node -> Node] :
             \A m \in Node : /\ m \in stop => f[m] = val[m]
                             /\ m \notin stop => f[m] = f[next[m]]
      <3> HIDE DEF stop, next, val
      <3>1. HasChain(Node, Node, stop, next, val)
        BY <2>1, Chain, Zenon
      <3> QED BY <3>1 DEF HasChain
    <2>3. ASSUME NEW m \in Node PROVE f[m] = IF ns[m] = NULL THEN m ELSE f[ns[m]]
      <3>1. CASE ns[m] = NULL
        BY <2>2, <3>1
      <3>2. CASE ns[m] # NULL
        <4>1. m \notin stop /\ next[m] = ns[m]
          BY <3>2
        <4> QED BY <2>2, <3>2, <4>1
      <3> QED BY <3>1, <3>2
    <2>4. f = Def(f)
      BY <2>2, <2>3
    <2> QED BY <2>4
  <1>5. last = Def(last)
    <2> HIDE DEF Def
    <2> QED BY <1>4
  <1> HIDE DEF last
  <1>6. \A m \in Node : last[m] = IF ns[m] = NULL THEN m ELSE last[ns[m]]
    BY <1>5
  <1> DEFINE T == {m \in Node : m \in U => last[m] \in U /\ ns[last[m]] = NULL
                                           /\ level[last[m]] = level[m]}
  <1>7. ASSUME NEW m \in Node, \A y \in Node : rest[y] < rest[m] => y \in T PROVE m \in T
    <2>1. CASE ns[m] = NULL
      BY <1>6, <2>1
    <2>2. CASE ns[m] # NULL
      <3>1. ns[m] \in Node /\ rest[ns[m]] < rest[m] /\ level[ns[m]] = level[m]
        BY <1>1, <1>2, <2>2 DEF Pointer
      <3>2. ns[m] \in T /\ last[m] = last[ns[m]]
        BY <1>6, <1>7, <2>2, <3>1
      <3>3. m \in U => ns[m] \in U
        BY <2>2 DEF ns
      <3> QED BY <3>1, <3>2, <3>3
    <2> QED BY <2>1, <2>2
  <1> HIDE DEF T
  <1>8. \A m \in Node : m \in T
    BY <1>2, <1>7, RankInduction
  <1> QED BY <1>3, <1>8 DEF T, ns

\* The way down of ixmlNode_free() ends at a node without children and without a
\* sibling after it.
LEMMA DeepestEnds ==
    ASSUME NEW g \in Tree, NEW level, NEW rest, Falls(g, level, rest),
           NEW U \in SUBSET Node, KeptIn(g, U), NEW n \in U
    PROVE  /\ Deepest(g, n) \in U
           /\ g.nextSibling[Deepest(g, n)] = NULL /\ g.firstChild[Deepest(g, n)] = NULL
  <1> DEFINE fc == g.firstChild
             LeafDef(f) == [m \in Node |-> IF fc[m] = NULL THEN m ELSE f[fc[m]]]
             leaf == CHOOSE f : f = LeafDef(f)
             Def(f) == [m \in Node |->
                           IF fc[LastSibling(g, leaf[m])] = NULL THEN LastSibling(g, leaf[m])
                           ELSE f[fc[LastSibling(g, leaf[m])]]]
             deep == CHOOSE f : f = Def(f)
  <1>1. fc \in [Node -> Pointer] /\ NULL \notin Node
    BY Nodes DEF Tree
  <1>2. /\ level \in [Node -> Nat]
        /\ \A m \in Node : fc[m] # NULL => level[fc[m]] < level[m]
    BY DEF Falls
  <1>3. Deepest(g, n) = deep[n]
    BY DEF Deepest
  <1>4. \A m \in U : fc[m] # NULL => fc[m] \in U
    BY DEF KeptIn
  <1>5. ASSUME NEW V \in SUBSET Node, NEW m \in V,
               \A x \in V : g.nextSibling[x] # NULL => g.nextSibling[x] \in V
        PROVE  /\ LastSibling(g, m) \in V /\ g.nextSibling[LastSibling(g, m)] = NULL
               /\ level[LastSibling(g, m)] = level[m]
    BY <1>5, LastSiblingEnds
  <1>6. /\ \A x \in Node : g.nextSibling[x] # NULL => g.nextSibling[x] \in Node
        /\ \A x \in U : g.nextSibling[x] # NULL => g.nextSibling[x] \in U
    BY DEF KeptIn, Tree, Pointer
  <1> HIDE DEF fc
  <1>7. \E f : f = LeafDef(f)
    <2> DEFINE stop == {m \in Node : fc[m] = NULL}
               next == [m \in Node |-> IF fc[m] = NULL THEN m ELSE fc[m]]
               val == [m \in Node |-> m]
    <2>1. stop \in SUBSET Node /\ next \in [Node -> Node] /\ val \in [Node -> Node]
      BY <1>1 DEF Pointer
    <2>2. PICK f \in [Node -> Node] :
             \A m \in Node : /\ m \in stop => f[m] = val[m]
                             /\ m \notin stop => f[m] = f[next[m]]
      <3> HIDE DEF stop, next, val
      <3>1. HasChain(Node, Node, stop, next, val)
        BY <2>1, Chain, Zenon
      <3> QED BY <3>1 DEF HasChain
    <2>3. ASSUME NEW m \in Node PROVE f[m] = IF fc[m] = NULL THEN m ELSE f[fc[m]]
      <3>1. CASE fc[m] = NULL
        BY <2>2, <3>1
      <3>2. CASE fc[m] # NULL
        <4>1. m \notin stop /\ next[m] = fc[m]
          BY <3>2
        <4> QED BY <2>2, <3>2, <4>1
      <3> QED BY <3>1, <3>2
    <2>4. f = LeafDef(f)
      BY <2>2, <2>3
    <2> QED BY <2>4
  <1>8. leaf = LeafDef(leaf)
    <2> HIDE DEF LeafDef
    <2> QED BY <1>7
  <1> HIDE DEF leaf
  <1>9. \A m \in Node : leaf[m] = IF fc[m] = NULL THEN m ELSE leaf[fc[m]]
    BY <1>8
  <1>10. \A m \in Node : /\ leaf[m] \in Node /\ level[leaf[m]] <= level[m]
                         /\ m \in U => leaf[m] \in U
    <2> DEFINE T == {m \in Node : /\ leaf[m] \in Node /\ level[leaf[m]] <= level[m]
                                  /\ m \in U => leaf[m] \in U}
    <2>1. ASSUME NEW m \in Node, \A y \in Node : level[y] < level[m] => y \in T PROVE m \in T
      <3>1. CASE fc[m] = NULL
        BY <1>2, <1>9, <3>1
      <3>2. CASE fc[m] # NULL
        <4>1. fc[m] \in Node /\ level[fc[m]] < level[m]
          BY <1>1, <1>2, <3>2 DEF Pointer
        <4>2. fc[m] \in T /\ leaf[m] = leaf[fc[m]]
          BY <1>9, <2>1, <3>2, <4>1
        <4>3. level[leaf[m]] \in Nat /\ level[fc[m]] \in Nat /\ level[m] \in Nat
          BY <1>2, <4>1, <4>2
        <4> QED BY <1>4, <3>2, <4>1, <4>2, <4>3
      <3> QED BY <3>1, <3>2
    <2> HIDE DEF T
    <2>2. \A m \in Node : m \in T
      BY <1>2, <2>1, RankInduction
    <2> QED BY <2>2 DEF T
  <1> DEFINE s == [m \in Node |-> LastSibling(g, leaf[m])]
  <1>11. ASSUME NEW m \in Node
         PROVE  /\ s[m] \in Node /\ level[s[m]] <= level[m] /\ g.nextSibling[s[m]] = NULL
                /\ m \in U => s[m] \in U
    <2>1. leaf[m] \in Node /\ level[leaf[m]] <= level[m]
      BY <1>10
    <2>2. /\ LastSibling(g, leaf[m]) \in Node /\ g.nextSibling[LastSibling(g, leaf[m])] = NULL
          /\ level[LastSibling(g, leaf[m])] = level[leaf[m]]
      BY <1>5, <1>6, <2>1
    <2>3. m \in U => LastSibling(g, leaf[m]) \in U
      BY <1>5, <1>6, <1>10
    <2> QED BY <2>1, <2>2, <2>3
  <1>12. \A f : Def(f) = [m \in Node |-> IF fc[s[m]] = NULL THEN s[m] ELSE f[fc[s[m]]]]
    OBVIOUS
  <1> HIDE DEF s, Def
  <1>13. \E f : f = Def(f)
    <2> DEFINE stop == {m \in Node : fc[s[m]] = NULL}
               next == [m \in Node |-> IF fc[s[m]] = NULL THEN m ELSE fc[s[m]]]
    <2>1. stop \in SUBSET Node /\ next \in [Node -> Node] /\ s \in [Node -> Node]
      BY <1>1, <1>11 DEF Pointer, s
    <2>2. PICK f \in [Node -> Node] :
             \A m \in Node : /\ m \in stop => f[m] = s[m]
                             /\ m \notin stop => f[m] = f[next[m]]
      <3> HIDE DEF stop, next
      <3>1. HasChain(Node, Node, stop, next, s)
        BY <2>1, Chain, Zenon
      <3> QED BY <3>1 DEF HasChain
    <2>3. ASSUME NEW m \in Node PROVE f[m] = IF fc[s[m]] = NULL THEN s[m] ELSE f[fc[s[m]]]
      <3>1. CASE fc[s[m]] = NULL
        BY <2>2, <3>1
      <3>2. CASE fc[s[m]] # NULL
        <4>1. m \notin stop /\ next[m] = fc[s[m]]
          BY <3>2
        <4> QED BY <2>2, <3>2, <4>1
      <3> QED BY <3>1, <3>2
    <2>4. f = Def(f)
      BY <1>12, <2>2, <2>3
    <2> QED BY <2>4
  <1>14. deep = Def(deep)
    BY <1>13
  <1> HIDE DEF deep
  <1>15. \A m \in Node : deep[m] = IF fc[s[m]] = NULL THEN s[m] ELSE deep[fc[s[m]]]
    BY <1>12, <1>14
  <1> DEFINE T == {m \in Node : m \in U => deep[m] \in U /\ g.nextSibling[deep[m]] = NULL
                                           /\ fc[deep[m]] = NULL}
  <1>16. ASSUME NEW m \in Node, \A y \in Node : level[y] < level[m] => y \in T PROVE m \in T
    <2>1. CASE fc[s[m]] = NULL
      BY <1>11, <1>15, <2>1
    <2>2. CASE fc[s[m]] # NULL
      <3>1. fc[s[m]] \in Node /\ level[fc[s[m]]] < level[s[m]] /\ level[s[m]] <= level[m]
        BY <1>1, <1>2, <1>11, <2>2 DEF Pointer
      <3>2. level[fc[s[m]]] < level[m]
        BY <1>2, <1>11, <3>1
      <3>3. fc[s[m]] \in T /\ deep[m] = deep[fc[s[m]]]
        BY <1>15, <1>16, <2>2, <3>1, <3>2
      <3>4. m \in U => fc[s[m]] \in U
        BY <1>4, <1>11, <2>2
      <3> QED BY <3>3, <3>4
    <2> QED BY <2>1, <2>2
  <1> HIDE DEF T
  <1>17. \A m \in Node : m \in T
    BY <1>2, <1>16, RankInduction
  <1> QED BY <1>3, <1>17 DEF T, fc

-----------------------------------------------------------------------------
(* Pointers and lists of children *)

Kids == [Node -> Seq(Node)]

\* The pointers of the children of p are those of the list s.
Row(g, p, s) ==
    /\ g.firstChild[p] = IF Len(s) = 0 THEN NULL ELSE s[1]
    /\ \A i \in 1..Len(s) :
          /\ g.parentNode[s[i]] = p
          /\ g.prevSibling[s[i]] = IF i = 1 THEN NULL ELSE s[i - 1]
          /\ g.nextSibling[s[i]] = IF i = Len(s) THEN NULL ELSE s[i + 1]
    /\ \A i, j \in 1..Len(s) : s[i] = s[j] => i = j
    /\ \A c \in Node : g.parentNode[c] = p => \E i \in 1..Len(s) : s[i] = c

\* The pointers g are those of the lists k.
Shape(g, k) ==
    /\ g \in Tree /\ k \in Kids
    /\ \A p \in Node : Row(g, p, k[p])
    /\ \A c \in Node : g.parentNode[c] = NULL => g.nextSibling[c] = NULL /\ g.prevSibling[c] = NULL

\* A height falls from each node to its children: no node is under itself.
Under(k, height) ==
    /\ height \in [Node -> Nat]
    /\ \A p \in Node : \A i \in 1..Len(k[p]) : height[k[p][i]] < height[p]
Acyclic(k) == \E height : Under(k, height)

\* n and what is under it.
Closed(k, S) == \A x \in S : \A i \in 1..Len(k[x]) : k[x][i] \in S
Sub(k, n) == {m \in Node : \A S \in SUBSET Node : n \in S /\ Closed(k, S) => m \in S}

\* A list of children has a length and holds nodes.
LEMMA KidsTypes ==
    ASSUME NEW k \in Kids, NEW p \in Node
    PROVE  /\ k[p] \in Seq(Node) /\ Len(k[p]) \in Nat /\ DOMAIN k[p] = 1..Len(k[p])
           /\ \A i \in 1..Len(k[p]) : k[p][i] \in Node
  <1>1. k[p] \in Seq(Node)
    BY DEF Kids
  <1> QED BY <1>1

\* The pointers have their types, and a node has its place among its siblings.
LEMMA ShapeTypes ==
    ASSUME NEW g, NEW k, Shape(g, k), NEW c \in Node
    PROVE  /\ g.parentNode[c] \in Pointer /\ g.firstChild[c] \in Pointer
           /\ g.nextSibling[c] \in Pointer /\ g.prevSibling[c] \in Pointer
           /\ g.parentNode[c] # NULL =>
                /\ g.parentNode[c] \in Node
                /\ \E i \in 1..Len(k[g.parentNode[c]]) : k[g.parentNode[c]][i] = c
  <1>1. g \in Tree
    BY DEF Shape
  <1>2. /\ g.parentNode[c] \in Pointer /\ g.firstChild[c] \in Pointer
        /\ g.nextSibling[c] \in Pointer /\ g.prevSibling[c] \in Pointer
    BY <1>1 DEF Tree
  <1>3. ASSUME NEW p \in Node, g.parentNode[c] = p PROVE \E i \in 1..Len(k[p]) : k[p][i] = c
    BY <1>3 DEF Shape, Row
  <1> QED BY <1>2, <1>3 DEF Pointer

\* Sub(k, n) is the least set with n that has the children of its members.
LEMMA SubLeast ==
    ASSUME NEW k \in Kids, NEW n \in Node
    PROVE  /\ Sub(k, n) \in SUBSET Node /\ n \in Sub(k, n) /\ Closed(k, Sub(k, n))
           /\ \A S \in SUBSET Node : n \in S /\ Closed(k, S) => Sub(k, n) \subseteq S
  <1>1. Sub(k, n) \in SUBSET Node /\ n \in Sub(k, n)
    BY DEF Sub
  <1>2. ASSUME NEW S \in SUBSET Node, n \in S, Closed(k, S) PROVE Sub(k, n) \subseteq S
    BY <1>2 DEF Sub
  <1>3. ASSUME NEW x \in Sub(k, n), NEW i \in 1..Len(k[x]) PROVE k[x][i] \in Sub(k, n)
    <2>1. x \in Node /\ k[x][i] \in Node
      BY <1>1, <1>3, KidsTypes
    <2>2. ASSUME NEW S \in SUBSET Node, n \in S, Closed(k, S) PROVE k[x][i] \in S
      <3>1. x \in S
        BY <1>2, <2>2
      <3> QED BY <2>2, <3>1 DEF Closed
    <2> QED BY <2>1, <2>2 DEF Sub
  <1> QED BY <1>1, <1>2, <1>3 DEF Closed

\* The parent of what is under n is n or under n.
LEMMA SubParent ==
    ASSUME NEW g, NEW k, Shape(g, k), NEW n \in Node, NEW x \in Sub(k, n), x # n
    PROVE  g.parentNode[x] \in Sub(k, n)
  <1> DEFINE T == {y \in Sub(k, n) : y = n \/ g.parentNode[y] \in Sub(k, n)}
  <1>1. k \in Kids
    BY DEF Shape
  <1>2. Sub(k, n) \in SUBSET Node /\ n \in Sub(k, n) /\ Closed(k, Sub(k, n))
    BY <1>1, SubLeast
  <1>3. T \in SUBSET Node /\ n \in T
    BY <1>2
  <1>4. ASSUME NEW y \in T, NEW i \in 1..Len(k[y]) PROVE k[y][i] \in T
    <2>1. y \in Node /\ k[y][i] \in Sub(k, n)
      BY <1>2, <1>4 DEF Closed
    <2>2. g.parentNode[k[y][i]] = y
      BY <2>1 DEF Shape, Row
    <2> QED BY <2>1, <2>2
  <1>5. Closed(k, T)
    <2> HIDE DEF T
    <2> QED BY <1>4 DEF Closed
  <1>6. Sub(k, n) \subseteq T
    <2> HIDE DEF T
    <2> QED BY <1>1, <1>3, <1>5, SubLeast
  <1> QED BY <1>6

\* What is under a node under n is under n.
LEMMA SubTransitive ==
    ASSUME NEW k \in Kids, NEW n \in Node, NEW x \in Sub(k, n)
    PROVE  Sub(k, x) \subseteq Sub(k, n)
  <1>1. Sub(k, n) \in SUBSET Node /\ Closed(k, Sub(k, n))
    BY SubLeast
  <1> QED BY <1>1, SubLeast

\* What is under n is lower than n.
LEMMA SubBelow ==
    ASSUME NEW k \in Kids, NEW height, Under(k, height), NEW n \in Node, NEW x \in Sub(k, n), x # n
    PROVE  height[x] < height[n]
  <1> DEFINE T == {y \in Node : y = n \/ height[y] < height[n]}
  <1>1. T \in SUBSET Node /\ n \in T
    OBVIOUS
  <1>2. ASSUME NEW y \in T, NEW i \in 1..Len(k[y]) PROVE k[y][i] \in T
    <2>1. y \in Node /\ k[y][i] \in Node
      BY <1>2, KidsTypes
    <2>2. /\ height[k[y][i]] < height[y] /\ height[y] \in Nat /\ height[n] \in Nat
          /\ height[k[y][i]] \in Nat
      BY <2>1 DEF Under
    <2> QED BY <2>1, <2>2
  <1>3. Closed(k, T)
    <2> HIDE DEF T
    <2> QED BY <1>2 DEF Closed
  <1>4. Sub(k, n) \subseteq T
    <2> HIDE DEF T
    <2> QED BY <1>1, <1>3, SubLeast
  <1> QED BY <1>4

\* What is under n depends on the lists of these nodes only.
LEMMA SubSame ==
    ASSUME NEW k \in Kids, NEW l \in Kids, NEW n \in Node, \A x \in Sub(k, n) : l[x] = k[x]
    PROVE  Sub(l, n) = Sub(k, n)
  <1>1. /\ Sub(k, n) \in SUBSET Node /\ n \in Sub(k, n) /\ Closed(k, Sub(k, n))
        /\ \A S \in SUBSET Node : n \in S /\ Closed(k, S) => Sub(k, n) \subseteq S
    BY SubLeast
  <1>2. /\ Sub(l, n) \in SUBSET Node /\ n \in Sub(l, n) /\ Closed(l, Sub(l, n))
        /\ \A S \in SUBSET Node : n \in S /\ Closed(l, S) => Sub(l, n) \subseteq S
    BY SubLeast
  <1>3. Closed(l, Sub(k, n))
    BY <1>1 DEF Closed
  <1>4. Sub(l, n) \subseteq Sub(k, n)
    BY <1>1, <1>2, <1>3
  <1>5. Closed(k, Sub(l, n))
    BY <1>2, <1>4 DEF Closed
  <1>6. Sub(k, n) \subseteq Sub(l, n)
    BY <1>1, <1>2, <1>5
  <1> QED BY <1>4, <1>6

\* A search from A along the edges E.
Found(f, A, E) ==
    /\ f \in [0..Cardinality(Node) -> SUBSET Node] /\ f[0] = A
    /\ \A i \in 1..Cardinality(Node) : f[i] = f[i - 1] \union UNION {E[m] : m \in f[i - 1]}

\* Such a search can be run.
LEMMA Search ==
    ASSUME NEW A \in SUBSET Node, NEW E \in [Node -> SUBSET Node]
    PROVE  \E f : Found(f, A, E)
  <1> DEFINE N == Cardinality(Node)
             W == SUBSET Node
             step == [X \in W |-> X \union UNION {E[m] : m \in X}]
  <1>1. N \in Nat
    BY Nodes
  <1>2. step \in [W -> W]
    OBVIOUS
  <1>3. A \in W
    OBVIOUS
  <1>4. HasWalk(N, W, A, step)
    <2> HIDE DEF N, W, step
    <2> QED BY <1>1, <1>2, <1>3, Walk, Zenon
  <1>5. PICK f \in [0..N -> W] : f[0] = A /\ \A i \in 1..N : f[i] = step[f[i - 1]]
    <2> HIDE DEF step, N, W
    <2> QED BY <1>4 DEF HasWalk
  <1>6. \A i \in 1..N : f[i - 1] \in W
    BY <1>1, <1>5
  <1>7. \A i \in 1..N : f[i] = f[i - 1] \union UNION {E[m] : m \in f[i - 1]}
    BY <1>5, <1>6
  <1> QED BY <1>5, <1>7 DEF Found

\* What it finds in as many turns as there are nodes: the least set that contains
\* its start and all that edges lead to.
LEMMA FoundLeast ==
    ASSUME NEW A \in SUBSET Node, NEW E \in [Node -> SUBSET Node], NEW f, Found(f, A, E)
    PROVE  LET V == f[Cardinality(Node)]
           IN  /\ V \in SUBSET Node /\ A \subseteq V /\ \A m \in V : E[m] \subseteq V
               /\ \A T \in SUBSET Node : A \subseteq T /\ (\A m \in T : E[m] \subseteq T) => V \subseteq T
  <1> DEFINE N == Cardinality(Node)
  <1>0. N \in Nat /\ IsFiniteSet(Node)
    BY Nodes
  <1>8. /\ f \in [0..N -> SUBSET Node] /\ f[0] = A
        /\ \A i \in 1..N : f[i] = f[i - 1] \union UNION {E[m] : m \in f[i - 1]}
    BY DEF Found
  <1> HIDE DEF N
  <1>1. \A i \in 0..N : f[i] \in SUBSET Node
    BY <1>8
  <1>2. \A i \in 1..N : /\ f[i - 1] \subseteq f[i]
                        /\ \A m \in f[i - 1] : E[m] \subseteq f[i]
                        /\ \A x \in f[i] : x \in f[i - 1] \/ \E m \in f[i - 1] : x \in E[m]
    BY <1>8
  <1>3. ASSUME NEW T \in SUBSET Node, A \subseteq T, \A m \in T : E[m] \subseteq T
        PROVE  \A i \in 0..N : f[i] \subseteq T
    <2> DEFINE I == {i \in 0..N : f[i] \subseteq T}
    <2>1. 0 \in I
      BY <1>0, <1>8, <1>3
    <2>2. \A i \in 1..N : i - 1 \in I => i \in I
      BY <1>2, <1>3
    <2> HIDE DEF I
    <2>3. \A i \in 0..N : i \in I
      BY <1>0, <2>1, <2>2, Induction
    <2> QED BY <2>3 DEF I
  <1>4. \A i \in 0..N : A \subseteq f[i]
    <2> DEFINE I == {i \in 0..N : A \subseteq f[i]}
    <2>1. 0 \in I
      BY <1>0, <1>8
    <2>2. \A i \in 1..N : i - 1 \in I => i \in I
      BY <1>2
    <2> HIDE DEF I
    <2>3. \A i \in 0..N : i \in I
      BY <1>0, <2>1, <2>2, Induction
    <2> QED BY <2>3 DEF I
  <1>5. ASSUME NEW i \in 0..N PROVE f[i] \subseteq f[N]
    <2> DEFINE I == {j \in 0..N : j >= i => f[i] \subseteq f[j]}
    <2>1. 0 \in I
      BY <1>0
    <2>2. ASSUME NEW j \in 1..N, j - 1 \in I PROVE j \in I
      <3>1. CASE j = i
        BY <3>1
      <3>2. CASE j # i
        BY <1>2, <2>2, <3>2
      <3> QED BY <3>1, <3>2
    <2> HIDE DEF I
    <2>3. \A j \in 0..N : j \in I
      BY <1>0, <2>1, <2>2, Induction
    <2>4. N \in I
      BY <1>0, <2>3
    <2> QED BY <1>0, <2>4 DEF I
  <1>6. ASSUME NEW m \in f[N], NEW x \in E[m], x \notin f[N] PROVE FALSE
    <2>1. ASSUME NEW i \in 0..N PROVE \E k \in f[i] : \E y \in E[k] : y \notin f[i]
      <3>1. SUFFICES ASSUME \A k \in f[i] : E[k] \subseteq f[i] PROVE FALSE
        OBVIOUS
      <3>2. f[i] \in SUBSET Node /\ A \subseteq f[i]
        BY <1>1, <1>4
      <3>3. f[N] \subseteq f[i]
        BY <1>0, <1>3, <3>1, <3>2
      <3>4. f[N] = f[i]
        BY <1>5, <3>3
      <3> QED BY <1>6, <3>1, <3>4
    <2> DEFINE I == {i \in 0..N : Cardinality(f[i]) >= i}
    <2>2. \A i \in 0..N : IsFiniteSet(f[i]) /\ Cardinality(f[i]) \in Nat
      BY <1>0, <1>1, FS_Subset, FS_CardinalityType
    <2>3. 0 \in I
      BY <1>0, <2>2
    <2>4. ASSUME NEW i \in 1..N, i - 1 \in I PROVE i \in I
      <3>1. i - 1 \in 0..N /\ i \in 0..N
        BY <1>0
      <3>2. PICK k \in f[i - 1] : \E y \in E[k] : y \notin f[i - 1]
        BY <2>1, <3>1
      <3>3. PICK y \in E[k] : y \notin f[i - 1]
        BY <3>2
      <3>4. y \in f[i] /\ f[i - 1] \subseteq f[i]
        BY <1>2, <3>3
      <3>5. Cardinality(f[i - 1]) <= Cardinality(f[i]) /\ f[i - 1] # f[i]
        BY <2>2, <3>1, <3>3, <3>4, FS_Subset
      <3>6. Cardinality(f[i - 1]) # Cardinality(f[i])
        BY <2>2, <3>1, <3>4, <3>5, FS_Subset
      <3>7. Cardinality(f[i - 1]) \in Nat /\ Cardinality(f[i]) \in Nat
        BY <2>2, <3>1
      <3>8. Cardinality(f[i - 1]) >= i - 1
        BY <2>4
      <3> QED BY <1>0, <3>1, <3>5, <3>6, <3>7, <3>8
    <2>5. N \in I
      <3> HIDE DEF I
      <3>1. \A i \in 0..N : i \in I
        BY <1>0, <2>3, <2>4, Induction
      <3> QED BY <1>0, <3>1
    <2>6. Cardinality(f[N]) >= N /\ N \in 0..N
      BY <1>0, <2>5
    <2>7. f[N] \subseteq Node /\ x \in Node
      BY <1>1, <1>6, <2>6
    <2>8. Cardinality(f[N]) <= N /\ (Cardinality(f[N]) = N => f[N] = Node)
      BY <1>0, <2>7, FS_Subset DEF N
    <2> QED BY <1>0, <1>6, <2>2, <2>6, <2>7, <2>8
  <1>7. N \in 0..N
    BY <1>0
  <1> QED BY <1>1, <1>3, <1>4, <1>6, <1>7 DEF N

\* What ixmlNode_isAncestor() visits: all that firstChild and nextSibling lead to.
LEMMA VisitedLeast ==
    ASSUME NEW g \in Tree, NEW n \in Node
    PROVE  /\ Visited(g, n) \in SUBSET Node /\ n \in Visited(g, n) /\ KeptIn(g, Visited(g, n))
           /\ \A U \in SUBSET Node : n \in U /\ KeptIn(g, U) => Visited(g, n) \subseteq U
  <1> DEFINE N == Cardinality(Node)
             E == [m \in Node |-> {g.firstChild[m], g.nextSibling[m]} \ {NULL}]
             Def(f) == [i \in 0..N |->
                           IF i = 0 THEN {n} \ {NULL}
                           ELSE f[i - 1] \union
                                UNION {{g.firstChild[m], g.nextSibling[m]} \ {NULL} : m \in f[i - 1]}]
             v == CHOOSE f : f = Def(f)
  <1>1. N \in Nat /\ NULL \notin Node
    BY Nodes
  <1>2. E \in [Node -> SUBSET Node] /\ {n} \in SUBSET Node
    BY DEF Tree, Pointer
  <1>3. Visited(g, n) = v[N]
    BY DEF Visited
  <1>4. PICK f : Found(f, {n}, E)
    <2> HIDE DEF E
    <2> QED BY <1>2, Search
  <1>5. \A i \in 1..N : f[i - 1] \in SUBSET Node
    BY <1>1, <1>4 DEF Found
  <1>6. \A i \in 1..N : UNION {E[m] : m \in f[i - 1]} =
                        UNION {{g.firstChild[m], g.nextSibling[m]} \ {NULL} : m \in f[i - 1]}
    BY <1>5
  <1>7. f = Def(f)
    <2>1. ASSUME NEW i \in 0..N PROVE f[i] = Def(f)[i]
      <3>1. CASE i = 0
        BY <1>1, <1>4, <3>1 DEF Found
      <3>2. CASE i # 0
        <4>1. i \in 1..N
          BY <1>1, <3>2
        <4>2. f[i] = f[i - 1] \union UNION {E[m] : m \in f[i - 1]}
          BY <1>4, <4>1 DEF Found
        <4>3. UNION {E[m] : m \in f[i - 1]} = UNION {{g.firstChild[m], g.nextSibling[m]} \ {NULL} : m \in f[i - 1]}
          BY <1>6, <4>1
        <4>4. f[i] = f[i - 1] \union UNION {{g.firstChild[m], g.nextSibling[m]} \ {NULL} : m \in f[i - 1]}
          BY <4>2, <4>3, Zenon
        <4>5. Def(f)[i] = f[i - 1] \union UNION {{g.firstChild[m], g.nextSibling[m]} \ {NULL} : m \in f[i - 1]}
          BY <3>2
        <4> QED BY <4>4, <4>5, Zenon
      <3> QED BY <3>1, <3>2
    <2>2. f = [i \in 0..N |-> f[i]]
      BY <1>4 DEF Found
    <2> QED BY <2>1, <2>2
  <1>8. v = Def(v)
    <2> HIDE DEF Def
    <2> QED BY <1>7
  <1> HIDE DEF v
  <1>9. v[0] = f[0] /\ \A i \in 1..N : v[i - 1] = f[i - 1] => v[i] = f[i]
    <2>1. v[0] = Def(v)[0] /\ f[0] = Def(f)[0]
      BY <1>7, <1>8, Zenon
    <2>2. v[0] = f[0]
      BY <1>1, <2>1
    <2>3. ASSUME NEW i \in 1..N, v[i - 1] = f[i - 1] PROVE v[i] = f[i]
      <3>1. v[i] = Def(v)[i] /\ f[i] = Def(f)[i]
        BY <1>7, <1>8, Zenon
      <3>2. i \in 0..N /\ i # 0
        BY <1>1
      <3>3. Def(v)[i] = Def(f)[i]
        BY <2>3, <3>2
      <3> QED BY <3>1, <3>3
    <2> QED BY <2>2, <2>3
  <1>10. v[N] = f[N]
    <2>1. \A i \in 0..N : v[i] = f[i]
      <3> HIDE DEF N
      <3> QED BY <1>1, <1>9, SameWalk
    <2> QED BY <1>1, <2>1
  <1>11. /\ v[N] \in SUBSET Node /\ {n} \subseteq v[N] /\ \A m \in v[N] : E[m] \subseteq v[N]
         /\ \A T \in SUBSET Node : {n} \subseteq T /\ (\A m \in T : E[m] \subseteq T) => v[N] \subseteq T
    <2> HIDE DEF E
    <2> QED BY <1>2, <1>4, <1>10, FoundLeast
  <1>12. ASSUME NEW U \in SUBSET Node
         PROVE  KeptIn(g, U) <=> \A m \in U : E[m] \subseteq U
    BY DEF KeptIn
  <1> HIDE DEF E, v, N
  <1>13. KeptIn(g, v[N])
    BY <1>11, <1>12
  <1>14. \A U \in SUBSET Node : n \in U /\ KeptIn(g, U) => v[N] \subseteq U
    BY <1>11, <1>12
  <1> QED BY <1>3, <1>11, <1>13, <1>14

\* The nodes under n in the abstract tree.
LEMMA SubtreeIsSub ==
    ASSUME list \in Kids, NEW n \in Node
    PROVE  Dom!Subtree(n) = Sub(list, n)
  <1> DEFINE N == Cardinality(Node)
             E == [m \in Node |-> ToSet(list[m])]
             Def(f) == [i \in 0..N |->
                           IF i = 0 THEN {n}
                           ELSE f[i - 1] \union UNION {ToSet(list[m]) : m \in f[i - 1]}]
             v == CHOOSE f : f = Def(f)
  <1>1. N \in Nat
    BY Nodes
  <1>2. E \in [Node -> SUBSET Node] /\ {n} \in SUBSET Node
    BY KidsTypes DEF ToSet
  <1>3. Dom!Subtree(n) = v[N]
    BY DEF Dom!Subtree, Dom!Node, Node, Dom!Cardinality, Cardinality, Dom!ToSet, ToSet
  <1>4. PICK f : Found(f, {n}, E)
    <2> HIDE DEF E
    <2> QED BY <1>2, Search
  <1>5. \A i \in 1..N : f[i - 1] \in SUBSET Node
    BY <1>1, <1>4 DEF Found
  <1>6. \A i \in 1..N : UNION {E[m] : m \in f[i - 1]} = UNION {ToSet(list[m]) : m \in f[i - 1]}
    BY <1>5
  <1>7. f = Def(f)
    <2>1. ASSUME NEW i \in 0..N PROVE f[i] = Def(f)[i]
      <3>1. CASE i = 0
        BY <1>1, <1>4, <3>1 DEF Found
      <3>2. CASE i # 0
        <4>1. i \in 1..N
          BY <1>1, <3>2
        <4>2. f[i] = f[i - 1] \union UNION {E[m] : m \in f[i - 1]}
          BY <1>4, <4>1 DEF Found
        <4>3. UNION {E[m] : m \in f[i - 1]} = UNION {ToSet(list[m]) : m \in f[i - 1]}
          BY <1>6, <4>1
        <4>4. f[i] = f[i - 1] \union UNION {ToSet(list[m]) : m \in f[i - 1]}
          BY <4>2, <4>3, Zenon
        <4>5. Def(f)[i] = f[i - 1] \union UNION {ToSet(list[m]) : m \in f[i - 1]}
          BY <3>2
        <4> QED BY <4>4, <4>5, Zenon
      <3> QED BY <3>1, <3>2
    <2>2. f = [i \in 0..N |-> f[i]]
      BY <1>4 DEF Found
    <2> QED BY <2>1, <2>2
  <1>8. v = Def(v)
    <2> HIDE DEF Def
    <2> QED BY <1>7
  <1> HIDE DEF v
  <1>9. v[0] = f[0] /\ \A i \in 1..N : v[i - 1] = f[i - 1] => v[i] = f[i]
    <2>1. v[0] = Def(v)[0] /\ f[0] = Def(f)[0]
      BY <1>7, <1>8, Zenon
    <2>2. v[0] = f[0]
      BY <1>1, <2>1
    <2>3. ASSUME NEW i \in 1..N, v[i - 1] = f[i - 1] PROVE v[i] = f[i]
      <3>1. v[i] = Def(v)[i] /\ f[i] = Def(f)[i]
        BY <1>7, <1>8, Zenon
      <3>2. i \in 0..N /\ i # 0
        BY <1>1
      <3>3. Def(v)[i] = Def(f)[i]
        BY <2>3, <3>2
      <3> QED BY <3>1, <3>3
    <2> QED BY <2>2, <2>3
  <1>10. v[N] = f[N]
    <2>1. \A i \in 0..N : v[i] = f[i]
      <3> HIDE DEF N
      <3> QED BY <1>1, <1>9, SameWalk
    <2> QED BY <1>1, <2>1
  <1>11. /\ v[N] \in SUBSET Node /\ {n} \subseteq v[N] /\ \A m \in v[N] : E[m] \subseteq v[N]
         /\ \A T \in SUBSET Node : {n} \subseteq T /\ (\A m \in T : E[m] \subseteq T) => v[N] \subseteq T
    <2> HIDE DEF E
    <2> QED BY <1>2, <1>4, <1>10, FoundLeast
  <1>12. ASSUME NEW U \in SUBSET Node
         PROVE  Closed(list, U) <=> \A m \in U : E[m] \subseteq U
    BY KidsTypes DEF Closed, ToSet
  <1>13. /\ Sub(list, n) \in SUBSET Node /\ n \in Sub(list, n) /\ Closed(list, Sub(list, n))
         /\ \A S \in SUBSET Node : n \in S /\ Closed(list, S) => Sub(list, n) \subseteq S
    BY SubLeast
  <1>14. Sub(list, n) \subseteq v[N]
    BY <1>11, <1>12, <1>13
  <1>15. v[N] \subseteq Sub(list, n)
    BY <1>11, <1>12, <1>13
  <1> QED BY <1>3, <1>14, <1>15


\* A node has one place in the lists, and its pointers tell which.
LEMMA Placed ==
    ASSUME NEW g, NEW k, Shape(g, k), NEW p \in Node, NEW i \in 1..Len(k[p])
    PROVE  /\ k[p][i] \in Node /\ g.parentNode[k[p][i]] = p
           /\ g.prevSibling[k[p][i]] = IF i = 1 THEN NULL ELSE k[p][i - 1]
           /\ g.nextSibling[k[p][i]] = IF i = Len(k[p]) THEN NULL ELSE k[p][i + 1]
           /\ \A q \in Node : \A j \in 1..Len(k[q]) : k[q][j] = k[p][i] => q = p /\ j = i
  <1>1. k \in Kids
    BY DEF Shape
  <1>2. k[p][i] \in Node
    BY <1>1, KidsTypes
  <1>3. \A q \in Node : Row(g, q, k[q])
    BY DEF Shape
  <1>4. /\ g.parentNode[k[p][i]] = p
        /\ g.prevSibling[k[p][i]] = IF i = 1 THEN NULL ELSE k[p][i - 1]
        /\ g.nextSibling[k[p][i]] = IF i = Len(k[p]) THEN NULL ELSE k[p][i + 1]
    BY <1>3 DEF Row
  <1>5. ASSUME NEW q \in Node, NEW j \in 1..Len(k[q]), k[q][j] = k[p][i] PROVE q = p /\ j = i
    <2>1. g.parentNode[k[q][j]] = q
      BY <1>3 DEF Row
    <2>2. q = p
      BY <1>4, <1>5, <2>1
    <2> QED BY <1>3, <1>5, <2>2 DEF Row
  <1> QED BY <1>2, <1>4, <1>5

\* Where pointers lead to children and siblings, and where some of them have been
\* cleared, there is an end.
Ends(g) == \E level, rest : Falls(g, level, rest)

\* The walks that follow such pointers end.
LEMMA ShapeEnds ==
    ASSUME NEW g, NEW k, Shape(g, k), Acyclic(k), NEW f \in Tree,
           \A m \in Node : /\ f.firstChild[m] \in {NULL, g.firstChild[m]}
                           /\ f.nextSibling[m] \in {NULL, g.nextSibling[m]}
    PROVE  Ends(f)
  <1>1. PICK h : Under(k, h)
    BY DEF Acyclic
  <1>2. /\ h \in [Node -> Nat] /\ k \in Kids /\ g \in Tree
        /\ \A p \in Node : \A i \in 1..Len(k[p]) : h[k[p][i]] < h[p]
    BY <1>1 DEF Under, Shape
  <1> DEFINE level == [m \in Node |-> IF g.parentNode[m] = NULL THEN h[m] + 1 ELSE h[g.parentNode[m]]]
             place == [m \in Node |-> CHOOSE i \in 1..Len(k[g.parentNode[m]]) : k[g.parentNode[m]][i] = m]
             rest == [m \in Node |-> IF g.parentNode[m] = NULL THEN 0
                                     ELSE Len(k[g.parentNode[m]]) - place[m]]
  <1>3. ASSUME NEW m \in Node, g.parentNode[m] # NULL
        PROVE  /\ g.parentNode[m] \in Node /\ Len(k[g.parentNode[m]]) \in Nat
               /\ place[m] \in 1..Len(k[g.parentNode[m]]) /\ k[g.parentNode[m]][place[m]] = m
    <2>1. /\ g.parentNode[m] \in Node
          /\ \E i \in 1..Len(k[g.parentNode[m]]) : k[g.parentNode[m]][i] = m
      BY <1>3, ShapeTypes
    <2>2. Len(k[g.parentNode[m]]) \in Nat
      BY <1>2, <2>1, KidsTypes
    <2> QED BY <2>1, <2>2
  <1> HIDE DEF place
  <1>4. level \in [Node -> Nat]
    BY <1>2, <1>3
  <1>5. rest \in [Node -> Nat]
    <2>1. ASSUME NEW m \in Node PROVE rest[m] \in Nat
      <3>1. CASE g.parentNode[m] = NULL
        BY <3>1
      <3>2. CASE g.parentNode[m] # NULL
        BY <1>3, <3>2
      <3> QED BY <3>1, <3>2
    <2> HIDE DEF place
    <2> QED BY <2>1
  <1>6. ASSUME NEW m \in Node, f.firstChild[m] # NULL PROVE level[f.firstChild[m]] < level[m]
    <2>1. f.firstChild[m] = g.firstChild[m] /\ g.firstChild[m] # NULL
      BY <1>6
    <2>2. Len(k[m]) \in Nat /\ Len(k[m]) # 0 /\ g.firstChild[m] = k[m][1]
      <3>1. Row(g, m, k[m])
        BY DEF Shape
      <3>2. Len(k[m]) \in Nat
        BY <1>2, KidsTypes
      <3> QED BY <2>1, <3>1, <3>2 DEF Row
    <2>3. 1 \in 1..Len(k[m])
      BY <2>2
    <2>4. k[m][1] \in Node /\ g.parentNode[k[m][1]] = m
      BY <2>3, Placed
    <2>5. level[k[m][1]] = h[m]
      BY <2>4, Nodes
    <2>6. CASE g.parentNode[m] = NULL
      <3>1. level[m] = h[m] + 1 /\ h[m] \in Nat
        BY <1>2, <2>6
      <3> QED BY <2>1, <2>2, <2>5, <3>1
    <2>7. CASE g.parentNode[m] # NULL
      <3>1. g.parentNode[m] \in Node /\ h[m] < h[g.parentNode[m]]
        BY <1>2, <1>3, <2>7
      <3>2. level[m] = h[g.parentNode[m]]
        BY <2>7
      <3> QED BY <2>1, <2>2, <2>5, <3>1, <3>2
    <2> QED BY <2>6, <2>7
  <1>7. ASSUME NEW m \in Node, f.nextSibling[m] # NULL
        PROVE  level[f.nextSibling[m]] = level[m] /\ rest[f.nextSibling[m]] < rest[m]
    <2> DEFINE p == g.parentNode[m]
               i == place[m]
    <2>1. f.nextSibling[m] = g.nextSibling[m] /\ g.nextSibling[m] # NULL
      BY <1>7
    <2>2. g.parentNode[m] # NULL
      BY <2>1 DEF Shape
    <2>3. p \in Node /\ p # NULL /\ Len(k[p]) \in Nat /\ i \in 1..Len(k[p]) /\ k[p][i] = m
      BY <1>3, <2>2
    <2> HIDE DEF p, i
    <2>4. g.nextSibling[m] = IF i = Len(k[p]) THEN NULL ELSE k[p][i + 1]
      BY <2>3, Placed
    <2>5. i + 1 \in 1..Len(k[p]) /\ g.nextSibling[m] = k[p][i + 1]
      BY <2>1, <2>3, <2>4
    <2>6. /\ k[p][i + 1] \in Node /\ g.parentNode[k[p][i + 1]] = p
          /\ \A j \in 1..Len(k[p]) : k[p][j] = k[p][i + 1] => j = i + 1
      BY <2>3, <2>5, Placed
    <2>7. place[k[p][i + 1]] \in 1..Len(k[p]) /\ k[p][place[k[p][i + 1]]] = k[p][i + 1]
      BY <1>3, <2>3, <2>6
    <2>8. place[k[p][i + 1]] = i + 1
      BY <2>6, <2>7
    <2>9. rest[k[p][i + 1]] = Len(k[p]) - (i + 1) /\ level[k[p][i + 1]] = h[p]
      BY <2>3, <2>6, <2>8
    <2>10. rest[m] = Len(k[p]) - i /\ level[m] = h[p]
      BY <2>2 DEF p, i
    <2> QED BY <2>1, <2>3, <2>5, <2>9, <2>10
  <1> HIDE DEF level, rest
  <1>8. Falls(f, level, rest)
    BY <1>4, <1>5, <1>6, <1>7 DEF Falls
  <1> QED BY <1>8 DEF Ends

\* A list of children is no longer than there are nodes.
LEMMA ListFits ==
    ASSUME NEW g, NEW k, Shape(g, k), NEW p \in Node
    PROVE  Len(k[p]) <= Cardinality(Node)
  <1>1. k[p] \in Seq(Node) /\ Len(k[p]) \in Nat /\ DOMAIN k[p] = 1..Len(k[p])
    <2>1. k \in Kids
      BY DEF Shape
    <2> QED BY <2>1, KidsTypes
  <1>2. k[p] \in [1..Len(k[p]) -> Node]
    BY <1>1
  <1>3. \A i, j \in 1..Len(k[p]) : k[p][i] = k[p][j] => i = j
    BY Placed
  <1>4. IsFiniteSet(1..Len(k[p])) /\ Cardinality(1..Len(k[p])) = Len(k[p])
    BY <1>1, FS_Interval
  <1>5. ~(Cardinality(Node) < Len(k[p]))
    BY <1>2, <1>3, <1>4, Nodes, FS_PigeonHole
  <1> QED BY <1>1, <1>5, Nodes

\* A reader that follows firstChild and nextSibling finds these lists.
LEMMA ChildListIs ==
    ASSUME NEW g, NEW k, Shape(g, k), NEW n \in Node
    PROVE  ChildList(g, n) = k[n]
  <1> DEFINE N == Cardinality(Node)
             s == k[n]
             Def(a) == [i \in 1..N |-> IF i = 1 THEN g.firstChild[n]
                                       ELSE IF a[i - 1] = NULL THEN NULL ELSE g.nextSibling[a[i - 1]]]
             at == CHOOSE a : a = Def(a)
             b == [i \in 1..N |-> IF i <= Len(s) THEN s[i] ELSE NULL]
  <1>1. /\ N \in Nat /\ NULL \notin Node /\ Len(s) \in Nat /\ Len(s) <= N /\ s \in Seq(Node)
        /\ \A i \in 1..Len(s) : s[i] \in Node
    <2>1. k \in Kids
      BY DEF Shape
    <2> QED BY <2>1, KidsTypes, Nodes, ListFits
  <1>2. ChildList(g, n) = [i \in 1..Cardinality({i \in DOMAIN at : at[i] # NULL}) |-> at[i]]
    BY DEF ChildList
  <1>3. g.firstChild[n] = IF Len(s) = 0 THEN NULL ELSE s[1]
    BY DEF Shape, Row
  <1>4. \A i \in 1..Len(s) : g.nextSibling[s[i]] = IF i = Len(s) THEN NULL ELSE s[i + 1]
    BY Placed
  <1> HIDE DEF N, s
  <1>5. \A i \in 1..N : b[i] = IF i = 1 THEN g.firstChild[n]
                               ELSE IF b[i - 1] = NULL THEN NULL ELSE g.nextSibling[b[i - 1]]
    <2> SUFFICES ASSUME NEW i \in 1..N
                 PROVE  b[i] = IF i = 1 THEN g.firstChild[n]
                               ELSE IF b[i - 1] = NULL THEN NULL ELSE g.nextSibling[b[i - 1]]
      OBVIOUS
    <2>1. CASE i = 1
      BY <1>1, <1>3, <2>1
    <2>2. CASE i # 1 /\ i - 1 <= Len(s)
      <3>1. i - 1 \in 1..Len(s) /\ i - 1 \in 1..N
        BY <1>1, <2>2
      <3>2. b[i - 1] = s[i - 1] /\ s[i - 1] # NULL
        BY <1>1, <2>2, <3>1
      <3>3. g.nextSibling[s[i - 1]] = IF i - 1 = Len(s) THEN NULL ELSE s[i]
        BY <1>4, <3>1
      <3>4. b[i] = IF i - 1 = Len(s) THEN NULL ELSE s[i]
        BY <1>1, <3>1
      <3> HIDE DEF b
      <3> QED BY <2>2, <3>2, <3>3, <3>4
    <2>3. CASE i # 1 /\ ~(i - 1 <= Len(s))
      <3>1. b[i - 1] = NULL /\ b[i] = NULL
        BY <1>1, <2>3
      <3> HIDE DEF b
      <3> QED BY <2>3, <3>1
    <2> QED BY <2>1, <2>2, <2>3
  <1>6. b = Def(b)
    <2>1. \A i \in 1..N : b[i] = Def(b)[i]
      <3> HIDE DEF b
      <3> QED BY <1>5
    <2>2. b = [i \in 1..N |-> b[i]] /\ Def(b) = [i \in 1..N |-> Def(b)[i]]
      OBVIOUS
    <2> HIDE DEF b, Def
    <2> QED BY <2>1, <2>2
  <1>7. at = Def(at)
    <2> HIDE DEF Def, b
    <2> QED BY <1>6
  <1> HIDE DEF at
  <1>8. \A i \in 1..N : at[i] = IF i = 1 THEN g.firstChild[n]
                                ELSE IF at[i - 1] = NULL THEN NULL ELSE g.nextSibling[at[i - 1]]
    BY <1>7
  <1>9. DOMAIN at = 1..N
    BY <1>7
  <1> HIDE DEF b
  <1>10. \A i \in 1..N : at[i] = b[i]
    <2> DEFINE T == {i \in 0..N : i = 0 \/ at[i] = b[i]}
    <2>1. 0 \in T
      BY <1>1
    <2>2. ASSUME NEW i \in 1..N, i - 1 \in T PROVE i \in T
      <3>1. CASE i = 1
        BY <1>5, <1>8, <3>1
      <3>2. CASE i # 1
        <4>1. at[i - 1] = b[i - 1]
          BY <2>2, <3>2
        <4> QED BY <1>5, <1>8, <3>2, <4>1
      <3> QED BY <3>1, <3>2
    <2> HIDE DEF T
    <2>3. \A i \in 0..N : i \in T
      BY <1>1, <2>1, <2>2, Induction
    <2> QED BY <1>1, <2>3 DEF T
  <1>11. {i \in DOMAIN at : at[i] # NULL} = 1..Len(s)
    <2>1. \A i \in 1..N : at[i] # NULL <=> i <= Len(s)
      BY <1>1, <1>10 DEF b
    <2> QED BY <1>1, <1>9, <2>1
  <1>12. Cardinality(1..Len(s)) = Len(s)
    <2>1. 1 \in Int /\ Len(s) \in Int /\ (1 > Len(s) => Len(s) = 0)
      BY <1>1
    <2>2. Cardinality(1..Len(s)) = IF 1 > Len(s) THEN 0 ELSE Len(s) - 1 + 1
      BY <2>1, FS_Interval, Zenon
    <2> QED BY <1>1, <2>1, <2>2
  <1>13. ChildList(g, n) = [i \in 1..Len(s) |-> s[i]]
    <2>1. \A i \in 1..Len(s) : at[i] = s[i]
      BY <1>1, <1>10 DEF b
    <2> QED BY <1>2, <1>11, <1>12, <2>1
  <1> QED BY <1>1, <1>13 DEF s

-----------------------------------------------------------------------------
(* The moves of pointers *)

\* A list in which c occurs once, at n, is left without that place; another list
\* is left as it is.
LEMMA RemovedFirst ==
    ASSUME NEW S, NEW s \in Seq(S), NEW c
    PROVE  /\ (\A i \in 1..Len(s) : s[i] # c) => RemoveFirst(s, c) = s
           /\ \A n \in 1..Len(s) :
                 (\A i \in 1..Len(s) : s[i] = c <=> i = n) => RemoveFirst(s, c) = RemoveAt(s, n)
  <1>1. ASSUME \A i \in 1..Len(s) : s[i] # c PROVE RemoveFirst(s, c) = s
    BY <1>1 DEF RemoveFirst
  <1>2. ASSUME NEW n \in 1..Len(s), \A i \in 1..Len(s) : s[i] = c <=> i = n
        PROVE  RemoveFirst(s, c) = RemoveAt(s, n)
    <2> DEFINE I == {i \in 1..Len(s) : s[i] = c}
    <2>1. I = {n}
      BY <1>2
    <2>2. I \subseteq Nat /\ I # {}
      BY <2>1
    <2>3. Min(I) \in I
      <3> HIDE DEF I
      <3> QED BY <2>2, LeastExists
    <2>4. Min(I) = n
      BY <2>1, <2>3
    <2>5. \E i \in 1..Len(s) : s[i] = c
      BY <1>2
    <2>6. RemoveFirst(s, c) = RemoveAt(s, Min(I))
      BY <2>2, <2>5 DEF RemoveFirst, SelectInSeq
    <2> QED BY <2>4, <2>6
  <1> QED BY <1>1, <1>2

\* An assignment as a function of the node.
LEMMA SetValue ==
    ASSUME NEW f \in [Node -> Pointer], NEW n \in Pointer, NEW to \in Pointer
    PROVE  Set(f, n, to) = [m \in Node |-> IF m = n THEN to ELSE f[m]]
  <1> QED BY Nodes DEF Set, Pointer

\* The lists after c has been removed.
Without(k, c) == [n \in Node |-> RemoveFirst(k[n], c)]

\* Only the list of the parent of c changes.
LEMMA WithoutKids ==
    ASSUME NEW g, NEW k, Shape(g, k), NEW c \in Node
    PROVE  /\ g.parentNode[c] = NULL => Without(k, c) = k
           /\ \A p \in Node : \A n \in 1..Len(k[p]) :
                 k[p][n] = c => Without(k, c) = [k EXCEPT ![p] = RemoveAt(k[p], n)]
  <1>1. k \in Kids /\ k = [n \in Node |-> k[n]]
    BY DEF Shape, Kids
  <1>2. ASSUME NEW q \in Node, \A i \in 1..Len(k[q]) : k[q][i] # c
        PROVE  RemoveFirst(k[q], c) = k[q]
    <2>1. k[q] \in Seq(Node)
      BY <1>1, KidsTypes
    <2> QED BY <1>2, <2>1, RemovedFirst
  <1>3. ASSUME g.parentNode[c] = NULL PROVE Without(k, c) = k
    <2>1. \A q \in Node : \A i \in 1..Len(k[q]) : k[q][i] # c
      BY <1>3, Placed, Nodes
    <2>2. \A q \in Node : RemoveFirst(k[q], c) = k[q]
      BY <1>2, <2>1
    <2> QED BY <1>1, <2>2 DEF Without
  <1>4. ASSUME NEW p \in Node, NEW n \in 1..Len(k[p]), k[p][n] = c
        PROVE  Without(k, c) = [k EXCEPT ![p] = RemoveAt(k[p], n)]
    <2>1. \A q \in Node : \A j \in 1..Len(k[q]) : k[q][j] = c => q = p /\ j = n
      BY <1>4, Placed
    <2>2. RemoveFirst(k[p], c) = RemoveAt(k[p], n)
      <3>1. k[p] \in Seq(Node)
        BY <1>1, KidsTypes
      <3>2. \A i \in 1..Len(k[p]) : k[p][i] = c <=> i = n
        BY <1>4, <2>1
      <3> QED BY <3>1, <3>2, RemovedFirst
    <2>3. \A q \in Node : q # p => RemoveFirst(k[q], c) = k[q]
      BY <1>2, <2>1
    <2> DEFINE l == [k EXCEPT ![p] = RemoveAt(k[p], n)]
    <2>4. \A q \in Node : RemoveFirst(k[q], c) = l[q]
      BY <1>1, <2>2, <2>3
    <2>5. l = [q \in Node |-> l[q]]
      BY <1>1
    <2> HIDE DEF l
    <2>6. Without(k, c) = l
      BY <2>4, <2>5 DEF Without
    <2> QED BY <2>6 DEF l
  <1> QED BY <1>3, <1>4

\* Unlink() takes a child out of the list of its parent.
LEMMA UnlinkedAt ==
    ASSUME NEW g, NEW k, Shape(g, k), NEW p \in Node, NEW n \in 1..Len(k[p])
    PROVE  Shape(Unlink(g, p, k[p][n]), [k EXCEPT ![p] = RemoveAt(k[p], n)])
  <1> DEFINE c == k[p][n]
             u == Unlink(g, p, c)
             s == k[p]
             r == RemoveAt(k[p], n)
             l == [k EXCEPT ![p] = r]
             prev == g.prevSibling[c]
             next == g.nextSibling[c]
  <1>1. /\ g \in Tree /\ k \in Kids /\ NULL \notin Node
        /\ \A q \in Node : Row(g, q, k[q])
        /\ \A m \in Node : g.parentNode[m] = NULL => g.nextSibling[m] = NULL /\ g.prevSibling[m] = NULL
    BY Nodes DEF Shape
  <1>2. /\ s \in Seq(Node) /\ Len(s) \in Nat /\ n \in 1..Len(s) /\ n \in Nat /\ c = s[n]
        /\ \A i \in 1..Len(s) : s[i] \in Node
    BY <1>1, KidsTypes
  <1>3. /\ r \in Seq(Node) /\ Len(r) = Len(s) - 1
        /\ \A i \in 1..(Len(s) - 1) : r[i] = IF i < n THEN s[i] ELSE s[i + 1]
    BY <1>2, Removed
  <1>4. /\ \A i \in 1..Len(s) : /\ g.parentNode[s[i]] = p
                                /\ g.prevSibling[s[i]] = IF i = 1 THEN NULL ELSE s[i - 1]
                                /\ g.nextSibling[s[i]] = IF i = Len(s) THEN NULL ELSE s[i + 1]
        /\ \A i, j \in 1..Len(s) : s[i] = s[j] => i = j
        /\ g.firstChild[p] = IF Len(s) = 0 THEN NULL ELSE s[1]
        /\ \A m \in Node : g.parentNode[m] = p => \E i \in 1..Len(s) : s[i] = m
    BY <1>1 DEF Row
  <1>5. /\ c \in Node /\ g.parentNode[c] = p /\ prev \in Pointer /\ next \in Pointer
        /\ prev = IF n = 1 THEN NULL ELSE s[n - 1]
        /\ next = IF n = Len(s) THEN NULL ELSE s[n + 1]
    BY <1>1, <1>2, <1>4 DEF Tree
  <1>6. /\ u \in Tree
        /\ \A m \in Node : /\ u.parentNode[m] = IF m = c THEN NULL ELSE g.parentNode[m]
                           /\ u.firstChild[m] = IF m = p /\ g.firstChild[p] = c THEN next
                                                ELSE g.firstChild[m]
                           /\ u.nextSibling[m] = IF m = c THEN NULL ELSE IF m = prev THEN next
                                                 ELSE g.nextSibling[m]
                           /\ u.prevSibling[m] = IF m = c THEN NULL ELSE IF m = next THEN prev
                                                 ELSE g.prevSibling[m]
    <2> HIDE DEF c, prev, next
    <2>1. /\ g.parentNode \in [Node -> Pointer] /\ g.firstChild \in [Node -> Pointer]
          /\ g.nextSibling \in [Node -> Pointer] /\ g.prevSibling \in [Node -> Pointer]
          /\ NULL \in Pointer /\ c \in Pointer /\ p \in Pointer /\ c \in Node
          /\ prev \in Pointer /\ next \in Pointer
      BY <1>1, <1>5 DEF Tree, Pointer
    <2>2. /\ u.parentNode = Set(g.parentNode, c, NULL)
          /\ u.firstChild = IF g.firstChild[p] = c THEN Set(g.firstChild, p, next) ELSE g.firstChild
          /\ u.nextSibling = Set(Set(g.nextSibling, prev, next), c, NULL)
          /\ u.prevSibling = Set(Set(g.prevSibling, next, prev), c, NULL)
          /\ u = [parentNode |-> u.parentNode, firstChild |-> u.firstChild,
                  nextSibling |-> u.nextSibling, prevSibling |-> u.prevSibling]
      BY DEF Unlink, prev, next
    <2> HIDE DEF u
    <2>3. u.parentNode = [m \in Node |-> IF m = c THEN NULL ELSE g.parentNode[m]]
      BY <2>1, <2>2, SetValue, ZenonT(40)
    <2>4. u.firstChild = [m \in Node |-> IF m = p /\ g.firstChild[p] = c THEN next ELSE g.firstChild[m]]
      <3>1. Set(g.firstChild, p, next) = [m \in Node |-> IF m = p THEN next ELSE g.firstChild[m]]
        BY <2>1, SetValue, ZenonT(40)
      <3>2. g.firstChild = [m \in Node |-> g.firstChild[m]]
        BY <2>1
      <3> QED BY <2>2, <3>1, <3>2
    <2>5. u.nextSibling = [m \in Node |-> IF m = c THEN NULL ELSE IF m = prev THEN next
                                         ELSE g.nextSibling[m]]
      <3> DEFINE f == [m \in Node |-> IF m = prev THEN next ELSE g.nextSibling[m]]
      <3>1. Set(g.nextSibling, prev, next) = f
        BY <2>1, SetValue, ZenonT(40)
      <3>2. f \in [Node -> Pointer]
        BY <1>5, <2>1
      <3>3. \A m \in Node : f[m] = IF m = prev THEN next ELSE g.nextSibling[m]
        OBVIOUS
      <3> HIDE DEF f
      <3>4. u.nextSibling = [m \in Node |-> IF m = c THEN NULL ELSE f[m]]
        BY <2>1, <2>2, <3>1, <3>2, SetValue
      <3> QED BY <3>3, <3>4
    <2>6. u.prevSibling = [m \in Node |-> IF m = c THEN NULL ELSE IF m = next THEN prev
                                         ELSE g.prevSibling[m]]
      <3> DEFINE f == [m \in Node |-> IF m = next THEN prev ELSE g.prevSibling[m]]
      <3>1. Set(g.prevSibling, next, prev) = f
        BY <2>1, SetValue
      <3>2. f \in [Node -> Pointer]
        BY <1>5, <2>1
      <3>3. \A m \in Node : f[m] = IF m = next THEN prev ELSE g.prevSibling[m]
        OBVIOUS
      <3> HIDE DEF f
      <3>4. u.prevSibling = [m \in Node |-> IF m = c THEN NULL ELSE f[m]]
        BY <2>1, <2>2, <3>1, <3>2, SetValue
      <3> QED BY <3>3, <3>4
    <2>7. /\ u.parentNode \in [Node -> Pointer] /\ u.firstChild \in [Node -> Pointer]
          /\ u.nextSibling \in [Node -> Pointer] /\ u.prevSibling \in [Node -> Pointer]
      BY <1>5, <2>1, <2>3, <2>4, <2>5, <2>6
    <2>9. u \in Tree
      BY <2>2, <2>7 DEF Tree
    <2> QED BY <2>3, <2>4, <2>5, <2>6, <2>9
  <1> HIDE DEF u, r, s, c, prev, next
  <1>7. prev # NULL => g.parentNode[prev] = p
    BY <1>2, <1>4, <1>5
  <1>8. next # NULL => g.parentNode[next] = p
    BY <1>2, <1>4, <1>5
  <1>9. Row(u, p, r)
    <2>1. u.firstChild[p] = IF Len(r) = 0 THEN NULL ELSE r[1]
      <3>1. CASE n = 1
        <4>1. g.firstChild[p] = c /\ u.firstChild[p] = next
          BY <1>2, <1>4, <1>6, <3>1
        <4> QED BY <1>2, <1>3, <1>5, <3>1, <4>1
      <3>2. CASE n # 1
        <4>1. g.firstChild[p] = s[1] /\ s[1] # c
          <5>1. 1 \in 1..Len(s) /\ Len(s) # 0
            BY <1>2
          <5> QED BY <1>2, <1>4, <3>2, <5>1
        <4>2. u.firstChild[p] = s[1]
          BY <1>6, <4>1
        <4>3. 1 \in 1..(Len(s) - 1) /\ 1 < n
          BY <1>2, <3>2
        <4>4. r[1] = s[1] /\ Len(r) # 0
          BY <1>3, <4>3
        <4> QED BY <4>2, <4>4
      <3> QED BY <3>1, <3>2
    <2>2. ASSUME NEW i \in 1..Len(r)
          PROVE  /\ u.parentNode[r[i]] = p
                 /\ u.prevSibling[r[i]] = IF i = 1 THEN NULL ELSE r[i - 1]
                 /\ u.nextSibling[r[i]] = IF i = Len(r) THEN NULL ELSE r[i + 1]
      <3> DEFINE j == IF i < n THEN i ELSE i + 1
      <3>1. j \in 1..Len(s) /\ j # n /\ r[i] = s[j] /\ i \in 1..(Len(s) - 1)
        BY <1>2, <1>3
      <3>2. /\ s[j] \in Node /\ s[j] # c /\ g.parentNode[s[j]] = p
            /\ g.prevSibling[s[j]] = IF j = 1 THEN NULL ELSE s[j - 1]
            /\ g.nextSibling[s[j]] = IF j = Len(s) THEN NULL ELSE s[j + 1]
        BY <1>2, <1>4, <3>1
      <3>3. s[j] = prev <=> n # 1 /\ j = n - 1
        <4>1. n # 1 => n - 1 \in 1..Len(s) /\ prev = s[n - 1]
          BY <1>2, <1>5
        <4> QED BY <1>1, <1>4, <1>5, <3>1, <3>2, <4>1
      <3>4. s[j] = next <=> n # Len(s) /\ j = n + 1
        <4>1. n # Len(s) => n + 1 \in 1..Len(s) /\ next = s[n + 1]
          BY <1>2, <1>5
        <4> QED BY <1>1, <1>4, <1>5, <3>1, <3>2, <4>1
      <3>5. /\ u.prevSibling[s[j]] = IF s[j] = next THEN prev ELSE g.prevSibling[s[j]]
            /\ u.nextSibling[s[j]] = IF s[j] = prev THEN next ELSE g.nextSibling[s[j]]
            /\ u.parentNode[s[j]] = p
        BY <1>6, <3>2
      <3>6. u.prevSibling[s[j]] = IF i = 1 THEN NULL ELSE r[i - 1]
        <4>1. i # 1 => r[i - 1] = IF i - 1 < n THEN s[i - 1] ELSE s[i]
          BY <1>3, <3>1
        <4>2. CASE i = n
          <5>1. j = n + 1 /\ n # Len(s)
            BY <1>2, <3>1, <4>2
          <5>2. u.prevSibling[s[j]] = prev
            BY <3>4, <3>5, <5>1
          <5> QED BY <1>2, <1>5, <4>1, <4>2, <5>2
        <4>3. CASE i # n
          <5>1. u.prevSibling[s[j]] = IF j = 1 THEN NULL ELSE s[j - 1]
            BY <1>2, <3>1, <3>2, <3>4, <3>5, <4>3
          <5>2. (j = 1 <=> i = 1) /\ (i # 1 => j - 1 = IF i - 1 < n THEN i - 1 ELSE i)
            BY <1>2, <3>1, <4>3
          <5> QED BY <4>1, <5>1, <5>2
        <4> QED BY <4>2, <4>3
      <3>7. u.nextSibling[s[j]] = IF i = Len(r) THEN NULL ELSE r[i + 1]
        <4>1. i # Len(r) => r[i + 1] = IF i + 1 < n THEN s[i + 1] ELSE s[i + 2]
          <5>1. i # Len(r) => i + 1 \in 1..(Len(s) - 1) /\ (i + 1) + 1 = i + 2
            BY <1>2, <1>3, <3>1
          <5> QED BY <1>3, <5>1
        <4>2. CASE i = n - 1
          <5>1. j = n - 1 /\ n # 1
            BY <1>2, <3>1, <4>2
          <5>2. u.nextSibling[s[j]] = next
            BY <3>3, <3>5, <5>1
          <5>3. (n = Len(s) <=> i = Len(r)) /\ i + 2 = n + 1 /\ ~(i + 1 < n)
            BY <1>2, <1>3, <3>1, <4>2
          <5> QED BY <1>5, <4>1, <5>2, <5>3
        <4>3. CASE i # n - 1
          <5>1. u.nextSibling[s[j]] = IF j = Len(s) THEN NULL ELSE s[j + 1]
            BY <1>2, <3>1, <3>2, <3>3, <3>5, <4>3
          <5>2. /\ j = Len(s) <=> i = Len(r)
                /\ i # Len(r) => j + 1 = IF i + 1 < n THEN i + 1 ELSE i + 2
            BY <1>2, <1>3, <3>1, <4>3
          <5> QED BY <4>1, <5>1, <5>2
        <4> QED BY <4>2, <4>3
      <3> QED BY <3>1, <3>5, <3>6, <3>7
    <2>3. ASSUME NEW i \in 1..Len(r), NEW j \in 1..Len(r), r[i] = r[j] PROVE i = j
      <3> DEFINE a == IF i < n THEN i ELSE i + 1
                 b == IF j < n THEN j ELSE j + 1
      <3>1. a \in 1..Len(s) /\ b \in 1..Len(s) /\ r[i] = s[a] /\ r[j] = s[b]
        BY <1>2, <1>3
      <3> HIDE DEF a, b
      <3>2. \A x, y \in 1..Len(s) : s[x] = s[y] => x = y
        BY <1>4
      <3>3. s[a] = s[b]
        BY <2>3, <3>1
      <3>4. a = b
        BY <3>1, <3>2, <3>3
      <3> USE DEF a, b
      <3> QED BY <1>2, <1>3, <3>4
    <2>4. ASSUME NEW m \in Node, u.parentNode[m] = p PROVE \E i \in 1..Len(r) : r[i] = m
      <3>1. m # c /\ g.parentNode[m] = p
        BY <1>1, <1>6, <2>4
      <3>2. PICK i \in 1..Len(s) : s[i] = m
        BY <1>4, <3>1
      <3>3. i # n
        BY <1>2, <3>1, <3>2
      <3>4. CASE i < n
        <4>1. i \in 1..(Len(s) - 1)
          BY <1>2, <3>4
        <4> QED BY <1>3, <3>2, <3>4, <4>1
      <3>5. CASE i > n
        <4>1. i - 1 \in 1..(Len(s) - 1) /\ ~(i - 1 < n) /\ (i - 1) + 1 = i
          BY <1>2, <3>5
        <4> QED BY <1>3, <3>2, <4>1
      <3> QED BY <1>2, <3>3, <3>4, <3>5
    <2> QED BY <2>1, <2>2, <2>3, <2>4 DEF Row
  <1>10. ASSUME NEW q \in Node, q # p PROVE Row(u, q, k[q])
    <2>1. u.firstChild[q] = g.firstChild[q]
      BY <1>6, <1>10
    <2>2. \A m \in Node : g.parentNode[m] = q =>
             /\ u.parentNode[m] = g.parentNode[m] /\ u.prevSibling[m] = g.prevSibling[m]
             /\ u.nextSibling[m] = g.nextSibling[m]
      BY <1>5, <1>6, <1>7, <1>8, <1>10, <1>1
    <2>3. \A m \in Node : u.parentNode[m] = q => g.parentNode[m] = q
      BY <1>1, <1>6
    <2>4. \A i \in 1..Len(k[q]) : k[q][i] \in Node
      BY <1>1, KidsTypes
    <2>5. ASSUME NEW i \in 1..Len(k[q])
          PROVE  /\ u.parentNode[k[q][i]] = q
                 /\ u.prevSibling[k[q][i]] = IF i = 1 THEN NULL ELSE k[q][i - 1]
                 /\ u.nextSibling[k[q][i]] = IF i = Len(k[q]) THEN NULL ELSE k[q][i + 1]
      <3>1. k[q][i] \in Node
        BY <2>4
      <3>2. g.parentNode[k[q][i]] = q
        BY <1>1 DEF Row
      <3>3. /\ g.prevSibling[k[q][i]] = IF i = 1 THEN NULL ELSE k[q][i - 1]
            /\ g.nextSibling[k[q][i]] = IF i = Len(k[q]) THEN NULL ELSE k[q][i + 1]
        BY <1>1 DEF Row
      <3> QED BY <2>2, <3>1, <3>2, <3>3
    <2>6. /\ u.firstChild[q] = IF Len(k[q]) = 0 THEN NULL ELSE k[q][1]
          /\ \A i, j \in 1..Len(k[q]) : k[q][i] = k[q][j] => i = j
      BY <1>1, <2>1 DEF Row
    <2>7. \A m \in Node : u.parentNode[m] = q => \E i \in 1..Len(k[q]) : k[q][i] = m
      BY <1>1, <2>3 DEF Row
    <2> QED BY <2>5, <2>6, <2>7 DEF Row
  <1>11. \A m \in Node : u.parentNode[m] = NULL => u.nextSibling[m] = NULL /\ u.prevSibling[m] = NULL
    <2> SUFFICES ASSUME NEW m \in Node, u.parentNode[m] = NULL, m # c
                 PROVE  u.nextSibling[m] = NULL /\ u.prevSibling[m] = NULL
      BY <1>6
    <2>1. g.parentNode[m] = NULL
      BY <1>6
    <2>2. m # prev /\ m # next
      BY <1>1, <1>7, <1>8, <2>1
    <2> QED BY <1>1, <1>6, <2>1, <2>2
  <1>12. l \in Kids /\ l[p] = r /\ \A q \in Node : q # p => l[q] = k[q]
    BY <1>1, <1>3 DEF Kids
  <1> HIDE DEF l
  <1>13. \A q \in Node : Row(u, q, l[q])
    BY <1>9, <1>10, <1>12
  <1>14. Shape(u, l)
    BY <1>6, <1>11, <1>12, <1>13 DEF Shape
  <1> QED BY <1>14 DEF u, l, r, c

\* The pointers that put c, which has no parent, at the place n under p.
Linked(g, k, p, n, c, u) ==
    LET prev == IF n = 1 THEN NULL ELSE k[p][n - 1]
        next == IF n = Len(k[p]) + 1 THEN NULL ELSE k[p][n]
    IN  /\ u \in Tree
        /\ \A m \in Node : /\ u.parentNode[m] = IF m = c THEN p ELSE g.parentNode[m]
                           /\ u.firstChild[m] = IF m = p /\ n = 1 THEN c ELSE g.firstChild[m]
                           /\ u.nextSibling[m] = IF m = c THEN next ELSE IF m = prev THEN c
                                                 ELSE g.nextSibling[m]
                           /\ u.prevSibling[m] = IF m = c THEN prev ELSE IF m = next THEN c
                                                 ELSE g.prevSibling[m]

\* These are the pointers of the lists with c inserted there.
LEMMA LinkedAt ==
    ASSUME NEW g, NEW k, Shape(g, k), NEW p \in Node, NEW n \in 1..(Len(k[p]) + 1),
           NEW c \in Node, g.parentNode[c] = NULL, NEW u, Linked(g, k, p, n, c, u)
    PROVE  Shape(u, [k EXCEPT ![p] = InsertAt(k[p], n, c)])
  <1> DEFINE s == k[p]
             r == InsertAt(k[p], n, c)
             l == [k EXCEPT ![p] = r]
             prev == IF n = 1 THEN NULL ELSE s[n - 1]
             next == IF n = Len(s) + 1 THEN NULL ELSE s[n]
  <1>1. /\ g \in Tree /\ k \in Kids /\ NULL \notin Node
        /\ \A q \in Node : Row(g, q, k[q])
        /\ \A m \in Node : g.parentNode[m] = NULL => g.nextSibling[m] = NULL /\ g.prevSibling[m] = NULL
    BY Nodes DEF Shape
  <1>2. /\ s \in Seq(Node) /\ Len(s) \in Nat /\ n \in 1..(Len(s) + 1) /\ n \in Nat
        /\ \A i \in 1..Len(s) : s[i] \in Node
    BY <1>1, KidsTypes
  <1>3. /\ r \in Seq(Node) /\ Len(r) = Len(s) + 1
        /\ \A i \in 1..(Len(s) + 1) : r[i] = IF i < n THEN s[i] ELSE IF i = n THEN c ELSE s[i - 1]
    BY <1>2, Inserted, SMTT(30)
  <1>4. /\ \A i \in 1..Len(s) : /\ g.parentNode[s[i]] = p
                                /\ g.prevSibling[s[i]] = IF i = 1 THEN NULL ELSE s[i - 1]
                                /\ g.nextSibling[s[i]] = IF i = Len(s) THEN NULL ELSE s[i + 1]
        /\ \A i, j \in 1..Len(s) : s[i] = s[j] => i = j
        /\ g.firstChild[p] = IF Len(s) = 0 THEN NULL ELSE s[1]
        /\ \A m \in Node : g.parentNode[m] = p => \E i \in 1..Len(s) : s[i] = m
    BY <1>1 DEF Row
  <1>5. /\ u \in Tree
        /\ \A m \in Node : /\ u.parentNode[m] = IF m = c THEN p ELSE g.parentNode[m]
                           /\ u.firstChild[m] = IF m = p /\ n = 1 THEN c ELSE g.firstChild[m]
                           /\ u.nextSibling[m] = IF m = c THEN next ELSE IF m = prev THEN c
                                                 ELSE g.nextSibling[m]
                           /\ u.prevSibling[m] = IF m = c THEN prev ELSE IF m = next THEN c
                                                 ELSE g.prevSibling[m]
    BY DEF Linked
  <1> HIDE DEF r, s
  <1>6. n # 1 => n - 1 \in 1..Len(s) /\ prev = s[n - 1] /\ prev \in Node /\ g.parentNode[prev] = p
    BY <1>2, <1>4
  <1>7. n # Len(s) + 1 => n \in 1..Len(s) /\ next = s[n] /\ next \in Node /\ g.parentNode[next] = p
    BY <1>2, <1>4
  <1>8. (n = 1 => prev = NULL) /\ (n = Len(s) + 1 => next = NULL)
    OBVIOUS
  <1> HIDE DEF prev, next
  <1>9. \A i \in 1..Len(s) : s[i] # c
    BY <1>1, <1>4
  <1>10. Row(u, p, r)
    <2>1. u.firstChild[p] = IF Len(r) = 0 THEN NULL ELSE r[1]
      <3>1. 1 \in 1..(Len(s) + 1) /\ Len(r) # 0
        BY <1>2, <1>3
      <3>2. r[1] = IF 1 < n THEN s[1] ELSE c
        BY <1>2, <1>3, <3>1
      <3>3. CASE n = 1
        BY <1>5, <3>1, <3>2, <3>3
      <3>4. CASE n # 1
        <4>1. Len(s) # 0 /\ 1 < n
          BY <1>2, <3>4
        <4> QED BY <1>4, <1>5, <3>1, <3>2, <3>4, <4>1
      <3> QED BY <3>3, <3>4
    <2>2. ASSUME NEW i \in 1..Len(r)
          PROVE  /\ u.parentNode[r[i]] = p
                 /\ u.prevSibling[r[i]] = IF i = 1 THEN NULL ELSE r[i - 1]
                 /\ u.nextSibling[r[i]] = IF i = Len(r) THEN NULL ELSE r[i + 1]
      <3>1. i \in 1..(Len(s) + 1) /\ i \in Nat
        BY <1>2, <1>3
      <3>2. i # 1 => r[i - 1] = IF i - 1 < n THEN s[i - 1] ELSE IF i - 1 = n THEN c ELSE s[i - 2]
        <4>1. i # 1 => i - 1 \in 1..(Len(s) + 1) /\ (i - 1) - 1 = i - 2
          BY <1>2, <3>1
        <4> QED BY <1>3, <4>1
      <3>3. i # Len(r) => r[i + 1] = IF i + 1 < n THEN s[i + 1] ELSE IF i + 1 = n THEN c ELSE s[i]
        <4>1. i # Len(r) => i + 1 \in 1..(Len(s) + 1) /\ (i + 1) - 1 = i
          BY <1>2, <1>3, <3>1
        <4> QED BY <1>3, <4>1
      <3>4. CASE i = n
        <4>1. r[i] = c
          BY <1>2, <1>3, <3>1, <3>4
        <4>2. u.parentNode[c] = p /\ u.prevSibling[c] = prev /\ u.nextSibling[c] = next
          BY <1>5
        <4>3. prev = IF i = 1 THEN NULL ELSE r[i - 1]
          BY <1>2, <1>6, <1>8, <3>2, <3>4
        <4>4. next = IF i = Len(r) THEN NULL ELSE r[i + 1]
          BY <1>2, <1>3, <1>7, <1>8, <3>3, <3>4
        <4> QED BY <4>1, <4>2, <4>3, <4>4
      <3>5. CASE i # n
        <4> DEFINE j == IF i < n THEN i ELSE i - 1
        <4>1. j \in 1..Len(s) /\ r[i] = s[j] /\ j \in Nat
          BY <1>2, <1>3, <3>1, <3>5
        <4>2. /\ s[j] \in Node /\ s[j] # c /\ g.parentNode[s[j]] = p
              /\ g.prevSibling[s[j]] = IF j = 1 THEN NULL ELSE s[j - 1]
              /\ g.nextSibling[s[j]] = IF j = Len(s) THEN NULL ELSE s[j + 1]
          <5> HIDE DEF j
          <5> QED BY <1>2, <1>4, <1>9, <4>1
        <4>3. s[j] = prev <=> n # 1 /\ j = n - 1
          <5> HIDE DEF j
          <5>1. \A x, y \in 1..Len(s) : s[x] = s[y] => x = y
            BY <1>4
          <5> QED BY <1>1, <1>6, <1>8, <4>1, <4>2, <5>1
        <4>4. s[j] = next <=> n # Len(s) + 1 /\ j = n
          <5> HIDE DEF j
          <5>1. \A x, y \in 1..Len(s) : s[x] = s[y] => x = y
            BY <1>4
          <5> QED BY <1>1, <1>7, <1>8, <4>1, <4>2, <5>1
        <4>5. /\ u.parentNode[s[j]] = p
              /\ u.prevSibling[s[j]] = IF s[j] = next THEN c ELSE g.prevSibling[s[j]]
              /\ u.nextSibling[s[j]] = IF s[j] = prev THEN c ELSE g.nextSibling[s[j]]
          BY <1>5, <4>2
        <4>6. u.prevSibling[s[j]] = IF i = 1 THEN NULL ELSE r[i - 1]
          <5>1. CASE i = n + 1
            <6>1. j = n /\ n # Len(s) + 1 /\ i # 1 /\ i - 1 = n
              BY <1>2, <3>1, <5>1
            <6>2. u.prevSibling[s[j]] = c
              BY <4>4, <4>5, <6>1
            <6> QED BY <1>2, <3>2, <6>1, <6>2
          <5>2. CASE i # n + 1
            <6>1. u.prevSibling[s[j]] = IF j = 1 THEN NULL ELSE s[j - 1]
              BY <1>2, <3>1, <3>5, <4>2, <4>4, <4>5, <5>2
            <6>2. CASE i < n
              <7>1. j = i /\ (i # 1 => i - 1 < n)
                BY <1>2, <3>1, <6>2
              <7> QED BY <3>2, <6>1, <7>1
            <6>3. CASE ~(i < n)
              <7>1. j = i - 1 /\ i # 1 /\ j # 1 /\ ~(i - 1 < n) /\ i - 1 # n /\ j - 1 = i - 2
                BY <1>2, <3>1, <3>5, <5>2, <6>3
              <7> QED BY <3>2, <6>1, <7>1
            <6> QED BY <6>2, <6>3
          <5> QED BY <5>1, <5>2
        <4>7. u.nextSibling[s[j]] = IF i = Len(r) THEN NULL ELSE r[i + 1]
          <5>1. CASE i = n - 1
            <6>1. j = n - 1 /\ n # 1 /\ i # Len(r) /\ i + 1 = n
              BY <1>2, <1>3, <3>1, <5>1
            <6>2. u.nextSibling[s[j]] = c
              BY <4>3, <4>5, <6>1
            <6> QED BY <1>2, <3>3, <6>1, <6>2
          <5>2. CASE i # n - 1
            <6>1. u.nextSibling[s[j]] = IF j = Len(s) THEN NULL ELSE s[j + 1]
              BY <1>2, <3>1, <3>5, <4>2, <4>3, <4>5, <5>2
            <6>2. CASE i < n
              <7>1. j = i /\ i # Len(r) /\ i # Len(s) /\ i + 1 < n
                BY <1>2, <1>3, <3>1, <5>2, <6>2
              <7> QED BY <3>3, <6>1, <7>1
            <6>3. CASE ~(i < n)
              <7>1. /\ j = i - 1 /\ (j = Len(s) <=> i = Len(r)) /\ j + 1 = i
                    /\ ~(i + 1 < n) /\ i + 1 # n
                BY <1>2, <1>3, <3>1, <3>5, <6>3
              <7> QED BY <3>3, <6>1, <7>1
            <6> QED BY <6>2, <6>3
          <5> QED BY <5>1, <5>2
        <4> QED BY <4>1, <4>5, <4>6, <4>7
      <3> QED BY <3>4, <3>5
    <2>3. ASSUME NEW i \in 1..Len(r), NEW j \in 1..Len(r), r[i] = r[j] PROVE i = j
      <3> DEFINE a == IF i < n THEN i ELSE i - 1
                 b == IF j < n THEN j ELSE j - 1
      <3>1. /\ i # n => a \in 1..Len(s) /\ r[i] = s[a]
            /\ j # n => b \in 1..Len(s) /\ r[j] = s[b]
        BY <1>2, <1>3
      <3>2. (i = n => r[i] = c) /\ (j = n => r[j] = c)
        BY <1>2, <1>3
      <3>3. \A x, y \in 1..Len(s) : s[x] = s[y] => x = y
        BY <1>4
      <3> HIDE DEF a, b
      <3>4. CASE i # n /\ j # n
        <4>1. a = b
          BY <2>3, <3>1, <3>3, <3>4
        <4> QED BY <1>2, <1>3, <3>4, <4>1 DEF a, b
      <3>5. CASE i = n \/ j = n
        BY <1>9, <2>3, <3>1, <3>2, <3>5
      <3> QED BY <3>4, <3>5
    <2>4. ASSUME NEW m \in Node, u.parentNode[m] = p PROVE \E i \in 1..Len(r) : r[i] = m
      <3>1. CASE m = c
        <4>1. n \in 1..Len(r) /\ r[n] = c
          BY <1>2, <1>3
        <4> QED BY <3>1, <4>1
      <3>2. CASE m # c
        <4>1. g.parentNode[m] = p
          BY <1>5, <2>4, <3>2
        <4>2. PICK i \in 1..Len(s) : s[i] = m
          BY <1>4, <4>1
        <4>3. CASE i < n
          <5>1. i \in 1..(Len(s) + 1)
            BY <1>2
          <5> QED BY <1>3, <4>2, <4>3, <5>1
        <4>4. CASE ~(i < n)
          <5>1. i + 1 \in 1..(Len(s) + 1) /\ ~(i + 1 < n) /\ i + 1 # n /\ (i + 1) - 1 = i
            BY <1>2, <4>4
          <5> QED BY <1>3, <4>2, <5>1
        <4> QED BY <4>3, <4>4
      <3> QED BY <3>1, <3>2
    <2> QED BY <2>1, <2>2, <2>3, <2>4 DEF Row
  <1>11. \A m \in Node : g.parentNode[m] # p => m # prev /\ m # next
    BY <1>1, <1>6, <1>7, <1>8
  <1>12. ASSUME NEW q \in Node, q # p PROVE Row(u, q, k[q])
    <2>1. u.firstChild[q] = g.firstChild[q]
      BY <1>5, <1>12
    <2>2. \A m \in Node : g.parentNode[m] = q =>
             /\ u.parentNode[m] = g.parentNode[m] /\ u.prevSibling[m] = g.prevSibling[m]
             /\ u.nextSibling[m] = g.nextSibling[m]
      BY <1>1, <1>5, <1>11, <1>12
    <2>3. \A m \in Node : u.parentNode[m] = q => g.parentNode[m] = q
      BY <1>5, <1>12
    <2>4. \A i \in 1..Len(k[q]) : k[q][i] \in Node
      BY <1>1, KidsTypes
    <2>5. ASSUME NEW i \in 1..Len(k[q])
          PROVE  /\ u.parentNode[k[q][i]] = q
                 /\ u.prevSibling[k[q][i]] = IF i = 1 THEN NULL ELSE k[q][i - 1]
                 /\ u.nextSibling[k[q][i]] = IF i = Len(k[q]) THEN NULL ELSE k[q][i + 1]
      <3>1. k[q][i] \in Node
        BY <2>4
      <3>2. g.parentNode[k[q][i]] = q
        BY <1>1 DEF Row
      <3>3. /\ g.prevSibling[k[q][i]] = IF i = 1 THEN NULL ELSE k[q][i - 1]
            /\ g.nextSibling[k[q][i]] = IF i = Len(k[q]) THEN NULL ELSE k[q][i + 1]
        BY <1>1 DEF Row
      <3> QED BY <2>2, <3>1, <3>2, <3>3
    <2>6. /\ u.firstChild[q] = IF Len(k[q]) = 0 THEN NULL ELSE k[q][1]
          /\ \A i, j \in 1..Len(k[q]) : k[q][i] = k[q][j] => i = j
      BY <1>1, <2>1 DEF Row
    <2>7. \A m \in Node : u.parentNode[m] = q => \E i \in 1..Len(k[q]) : k[q][i] = m
      BY <1>1, <2>3 DEF Row
    <2> QED BY <2>5, <2>6, <2>7 DEF Row
  <1>13. \A m \in Node : u.parentNode[m] = NULL => u.nextSibling[m] = NULL /\ u.prevSibling[m] = NULL
    BY <1>1, <1>5, <1>11
  <1>14. l \in Kids /\ l[p] = r /\ \A q \in Node : q # p => l[q] = k[q]
    BY <1>1, <1>3 DEF Kids
  <1> HIDE DEF l
  <1>15. \A q \in Node : Row(u, q, l[q])
    BY <1>10, <1>12, <1>14
  <1>16. Shape(u, l)
    BY <1>5, <1>13, <1>14, <1>15 DEF Shape
  <1> QED BY <1>16 DEF l, r, s

\* ixmlNode_insertBefore() puts c in the place of ref and moves on what follows.
LEMMA LinkedBefore ==
    ASSUME NEW g, NEW k, Shape(g, k), NEW p \in Node, NEW n \in 1..Len(k[p]),
           NEW c \in Node, g.parentNode[c] = NULL
    PROVE  Shape(LinkBefore(g, p, c, k[p][n]), [k EXCEPT ![p] = InsertAt(k[p], n, c)])
  <1> DEFINE ref == k[p][n]
             u == LinkBefore(g, p, c, ref)
             prev == g.prevSibling[ref]
             ps == [m \in Node |-> IF m = ref THEN c ELSE IF m = c THEN prev ELSE g.prevSibling[m]]
  <1>1. g \in Tree /\ k \in Kids /\ NULL \notin Node /\ Len(k[p]) \in Nat
    <2>1. k \in Kids
      BY DEF Shape
    <2> QED BY <2>1, Nodes, KidsTypes DEF Shape
  <1>2. /\ ref \in Node /\ g.parentNode[ref] = p /\ ref # c /\ ref # NULL
        /\ prev = IF n = 1 THEN NULL ELSE k[p][n - 1]
    BY <1>1, Placed
  <1>3. prev \in Pointer /\ prev # c
    <2>1. CASE n = 1
      BY <1>1, <1>2, <2>1 DEF Pointer
    <2>2. CASE n # 1
      <3>1. n - 1 \in 1..Len(k[p])
        BY <1>1, <2>2
      <3>2. k[p][n - 1] \in Node /\ g.parentNode[k[p][n - 1]] = p
        <4> DEFINE i == n - 1
        <4> HIDE DEF i
        <4>1. i \in 1..Len(k[p])
          BY <3>1 DEF i
        <4>2. k[p][i] \in Node /\ g.parentNode[k[p][i]] = p
          BY <4>1, Placed
        <4> QED BY <4>2 DEF i
      <3> QED BY <1>1, <1>2, <2>2, <3>2 DEF Pointer
    <2> QED BY <2>1, <2>2
  <1>4. g.nextSibling[c] = NULL /\ g.prevSibling[c] = NULL
    BY DEF Shape
  <1>5. n # 1 => prev # NULL
    <2>1. n # 1 => n - 1 \in 1..Len(k[p])
      BY <1>1
    <2> QED BY <1>1, <1>2, <2>1, KidsTypes
  <1> HIDE DEF ref, prev
  <1>6. /\ g.parentNode \in [Node -> Pointer] /\ g.firstChild \in [Node -> Pointer]
        /\ g.nextSibling \in [Node -> Pointer] /\ g.prevSibling \in [Node -> Pointer]
        /\ NULL \in Pointer /\ c \in Pointer /\ p \in Pointer /\ ref \in Pointer
        /\ prev \in Pointer
    BY <1>1, <1>2, <1>3 DEF Tree, Pointer
  <1>7. Set(IF prev = NULL THEN g.prevSibling ELSE Set(g.prevSibling, c, prev), ref, c) = ps
    <2>1. Set(g.prevSibling, c, prev) = [m \in Node |-> IF m = c THEN prev ELSE g.prevSibling[m]]
      BY <1>6, Nodes DEF Set, Pointer
    <2> DEFINE f == [m \in Node |-> IF m = c THEN prev ELSE g.prevSibling[m]]
    <2>2. g.prevSibling = [m \in Node |-> g.prevSibling[m]]
      BY <1>6
    <2>3. (IF prev = NULL THEN g.prevSibling ELSE Set(g.prevSibling, c, prev)) = f
      BY <1>4, <2>1, <2>2
    <2>4. f \in [Node -> Pointer] /\ \A m \in Node : f[m] = IF m = c THEN prev ELSE g.prevSibling[m]
      BY <1>6
    <2> HIDE DEF f
    <2>5. Set(f, ref, c) = [m \in Node |-> IF m = ref THEN c ELSE f[m]]
      <3>1. f \in [Node -> Pointer] /\ ref \in Node /\ ref # NULL
        BY <1>2, <2>4
      <3> QED BY <3>1 DEF Set
    <2> QED BY <2>3, <2>4, <2>5
  <1>8. ps[c] = prev
    BY <1>2
  <1>9. u = [parentNode |-> Set(g.parentNode, c, p),
             firstChild |-> IF ps[c] = NULL THEN Set(g.firstChild, p, c) ELSE g.firstChild,
             nextSibling |-> Set(Set(g.nextSibling, c, ref), prev, c),
             prevSibling |-> ps]
    BY <1>7, Zenon DEF LinkBefore, prev
  <1>10. Set(g.parentNode, c, p) = [m \in Node |-> IF m = c THEN p ELSE g.parentNode[m]]
    BY <1>6, Nodes DEF Set, Pointer
  <1>11. (IF ps[c] = NULL THEN Set(g.firstChild, p, c) ELSE g.firstChild) =
             [m \in Node |-> IF m = p /\ n = 1 THEN c ELSE g.firstChild[m]]
    <2>1. Set(g.firstChild, p, c) = [m \in Node |-> IF m = p THEN c ELSE g.firstChild[m]]
      BY <1>6, Nodes DEF Set, Pointer
    <2>2. g.firstChild = [m \in Node |-> g.firstChild[m]]
      BY <1>6
    <2>3. ps[c] = NULL <=> n = 1
      BY <1>2, <1>5, <1>8
    <2> HIDE DEF ps
    <2> QED BY <2>1, <2>2, <2>3
  <1>12. Set(Set(g.nextSibling, c, ref), prev, c) =
            [m \in Node |-> IF m = c THEN ref ELSE IF m = prev THEN c ELSE g.nextSibling[m]]
    <2> DEFINE f == [m \in Node |-> IF m = c THEN ref ELSE g.nextSibling[m]]
    <2>1. Set(g.nextSibling, c, ref) = f
      BY <1>6, Nodes DEF Set, Pointer
    <2>2. f \in [Node -> Pointer] /\ \A m \in Node : f[m] = IF m = c THEN ref ELSE g.nextSibling[m]
      BY <1>6
    <2> HIDE DEF f
    <2>3. Set(f, prev, c) = [m \in Node |-> IF m = prev THEN c ELSE f[m]]
      <3>1. f \in [Node -> Pointer] /\ NULL \notin Node
        BY <1>1, <2>2
      <3>2. CASE prev = NULL
        <4>1. f = [m \in Node |-> f[m]]
          BY <3>1
        <4> QED BY <3>1, <3>2, <4>1 DEF Set
      <3>3. CASE prev # NULL
        BY <3>1, <3>3 DEF Set
      <3> QED BY <3>2, <3>3
    <2> QED BY <1>3, <2>1, <2>2, <2>3
  <1> HIDE DEF u
  <1>13. u \in Tree
    <2>1. /\ [m \in Node |-> IF m = c THEN p ELSE g.parentNode[m]] \in [Node -> Pointer]
          /\ [m \in Node |-> IF m = p /\ n = 1 THEN c ELSE g.firstChild[m]] \in [Node -> Pointer]
          /\ [m \in Node |-> IF m = c THEN ref ELSE IF m = prev THEN c ELSE g.nextSibling[m]] \in [Node -> Pointer]
          /\ ps \in [Node -> Pointer]
      BY <1>6
    <2> QED BY <1>9, <1>10, <1>11, <1>12, <2>1 DEF Tree
  <1>14. ASSUME NEW m \in Node
         PROVE  /\ u.parentNode[m] = IF m = c THEN p ELSE g.parentNode[m]
                /\ u.firstChild[m] = IF m = p /\ n = 1 THEN c ELSE g.firstChild[m]
                /\ u.nextSibling[m] = IF m = c THEN ref ELSE IF m = prev THEN c
                                      ELSE g.nextSibling[m]
                /\ u.prevSibling[m] = IF m = c THEN prev ELSE IF m = ref THEN c
                                      ELSE g.prevSibling[m]
    BY <1>2, <1>9, <1>10, <1>11, <1>12
  <1>15. n # Len(k[p]) + 1
    BY <1>1
  <1>16. Linked(g, k, p, n, c, u)
    BY <1>2, <1>13, <1>14, <1>15 DEF Linked, ref
  <1>17. n \in 1..(Len(k[p]) + 1)
    BY <1>1
  <1> QED BY <1>16, <1>17, LinkedAt DEF u, ref

\* The end of the siblings of a child is the last of its list.
LEMMA LastIsLast ==
    ASSUME NEW g, NEW k, Shape(g, k), Acyclic(k), NEW p \in Node, Len(k[p]) # 0
    PROVE  LastSibling(g, k[p][1]) = k[p][Len(k[p])]
  <1> DEFINE U == {k[p][i] : i \in 1..Len(k[p])}
             last == LastSibling(g, k[p][1])
  <1>1. /\ g \in Tree /\ k \in Kids /\ NULL \notin Node /\ Len(k[p]) \in Nat
        /\ \A i \in 1..Len(k[p]) : k[p][i] \in Node
    <2>1. k \in Kids
      BY DEF Shape
    <2> QED BY <2>1, Nodes, KidsTypes DEF Shape
  <1>2. U \in SUBSET Node /\ k[p][1] \in U
    BY <1>1
  <1>3. ASSUME NEW m \in U, g.nextSibling[m] # NULL PROVE g.nextSibling[m] \in U
    <2>1. PICK i \in 1..Len(k[p]) : m = k[p][i]
      OBVIOUS
    <2>2. g.nextSibling[m] = IF i = Len(k[p]) THEN NULL ELSE k[p][i + 1]
      BY <2>1, Placed
    <2> QED BY <1>1, <1>3, <2>2
  <1>4. Ends(g)
    BY <1>1, ShapeEnds
  <1>5. PICK level, rest : Falls(g, level, rest)
    BY <1>4 DEF Ends
  <1> HIDE DEF U, last
  <1>6. last \in U /\ g.nextSibling[last] = NULL
    BY <1>1, <1>2, <1>3, <1>5, LastSiblingEnds DEF last
  <1>7. PICK i \in 1..Len(k[p]) : last = k[p][i]
    BY <1>6 DEF U
  <1>8. g.nextSibling[last] = IF i = Len(k[p]) THEN NULL ELSE k[p][i + 1]
    BY <1>7, Placed
  <1>9. i = Len(k[p])
    BY <1>1, <1>6, <1>8
  <1> QED BY <1>7, <1>9 DEF last

\* To append is to insert after the last.
LEMMA Appended ==
    ASSUME NEW s \in Seq(Node), NEW c \in Node
    PROVE  InsertAt(s, Len(s) + 1, c) = Append(s, c)
  <1> DEFINE r == InsertAt(s, Len(s) + 1, c)
  <1>1. Len(s) \in Nat /\ Len(s) + 1 \in 1..(Len(s) + 1)
    OBVIOUS
  <1>2. /\ r \in Seq(Node) /\ Len(r) = Len(s) + 1
        /\ \A i \in 1..(Len(s) + 1) :
              r[i] = IF i < Len(s) + 1 THEN s[i] ELSE IF i = Len(s) + 1 THEN c ELSE s[i - 1]
    BY <1>1, Inserted
  <1> HIDE DEF r
  <1>3. /\ Append(s, c) \in Seq(Node) /\ Len(Append(s, c)) = Len(s) + 1
        /\ \A i \in 1..(Len(s) + 1) : Append(s, c)[i] = IF i = Len(s) + 1 THEN c ELSE s[i]
    OBVIOUS
  <1>4. \A i \in 1..(Len(s) + 1) : r[i] = Append(s, c)[i]
    BY <1>1, <1>2, <1>3
  <1>5. r = Append(s, c)
    BY <1>2, <1>3, <1>4, SeqEqual
  <1> QED BY <1>5 DEF r

\* ixmlNode_appendChild() puts c after the others.
LEMMA LinkedLast ==
    ASSUME NEW g, NEW k, Shape(g, k), Acyclic(k), NEW p \in Node,
           NEW c \in Node, g.parentNode[c] = NULL
    PROVE  Shape(LinkLast(g, p, c), [k EXCEPT ![p] = Append(k[p], c)])
  <1> DEFINE s == k[p]
             n == Len(s) + 1
             prev == IF g.firstChild[p] = NULL THEN NULL ELSE LastSibling(g, g.firstChild[p])
             u == LinkLast(g, p, c)
  <1>1. /\ g \in Tree /\ k \in Kids /\ NULL \notin Node /\ Len(s) \in Nat /\ s \in Seq(Node)
        /\ \A i \in 1..Len(s) : s[i] \in Node
    <2>1. k \in Kids
      BY DEF Shape
    <2> QED BY <2>1, Nodes, KidsTypes DEF Shape
  <1>2. /\ g.firstChild[p] = IF Len(s) = 0 THEN NULL ELSE s[1]
        /\ g.nextSibling[c] = NULL /\ g.prevSibling[c] = NULL
    BY DEF Shape, Row
  <1>3. prev = IF n = 1 THEN NULL ELSE s[n - 1]
    <2>1. CASE Len(s) = 0
      BY <1>2, <2>1
    <2>2. CASE Len(s) # 0
      <3>1. g.firstChild[p] = s[1] /\ s[1] # NULL
        BY <1>1, <1>2, <2>2
      <3>2. LastSibling(g, s[1]) = s[Len(s)]
        BY <2>2, LastIsLast
      <3>3. n # 1 /\ n - 1 = Len(s)
        BY <1>1, <2>2
      <3> QED BY <3>1, <3>2, <3>3
    <2> QED BY <2>1, <2>2
  <1>4. (prev = NULL <=> n = 1) /\ prev \in Pointer /\ prev # c
    <2>1. n # 1 => n - 1 \in 1..Len(s)
      BY <1>1
    <2>2. n # 1 => s[n - 1] \in Node /\ g.parentNode[s[n - 1]] = p
      BY <2>1, Placed
    <2> HIDE DEF prev, n
    <2> QED BY <1>1, <1>3, <2>2 DEF Pointer
  <1>5. /\ g.parentNode \in [Node -> Pointer] /\ g.firstChild \in [Node -> Pointer]
        /\ g.nextSibling \in [Node -> Pointer] /\ g.prevSibling \in [Node -> Pointer]
        /\ NULL \in Pointer /\ c \in Pointer /\ p \in Pointer
    BY <1>1 DEF Tree, Pointer
  <1>6. u = [g EXCEPT !.parentNode = Set(g.parentNode, c, p),
                      !.firstChild = IF prev = NULL THEN Set(g.firstChild, p, c) ELSE g.firstChild,
                      !.nextSibling = Set(g.nextSibling, prev, c),
                      !.prevSibling = IF prev = NULL THEN g.prevSibling ELSE Set(g.prevSibling, c, prev)]
    BY DEF LinkLast
  <1> HIDE DEF u, prev
  <1>7. /\ u = [parentNode |-> u.parentNode, firstChild |-> u.firstChild,
                nextSibling |-> u.nextSibling, prevSibling |-> u.prevSibling]
        /\ u.parentNode = Set(g.parentNode, c, p)
        /\ u.firstChild = IF prev = NULL THEN Set(g.firstChild, p, c) ELSE g.firstChild
        /\ u.nextSibling = Set(g.nextSibling, prev, c)
        /\ u.prevSibling = IF prev = NULL THEN g.prevSibling ELSE Set(g.prevSibling, c, prev)
    BY <1>1, <1>6 DEF Tree
  <1>8. Set(g.parentNode, c, p) = [m \in Node |-> IF m = c THEN p ELSE g.parentNode[m]]
    BY <1>5, Nodes DEF Set, Pointer
  <1>9. u.firstChild = [m \in Node |-> IF m = p /\ n = 1 THEN c ELSE g.firstChild[m]]
    <2>1. Set(g.firstChild, p, c) = [m \in Node |-> IF m = p THEN c ELSE g.firstChild[m]]
      BY <1>5, Nodes DEF Set, Pointer
    <2>2. g.firstChild = [m \in Node |-> g.firstChild[m]]
      BY <1>5
    <2> HIDE DEF n
    <2> QED BY <1>4, <1>7, <2>1, <2>2
  <1>10. u.nextSibling = [m \in Node |-> IF m = prev THEN c ELSE g.nextSibling[m]]
    <2>1. prev \in Pointer
      BY <1>4
    <2> QED BY <1>5, <1>7, <2>1, Nodes DEF Set, Pointer
  <1>11. u.prevSibling = [m \in Node |-> IF m = c THEN prev ELSE g.prevSibling[m]]
    <2>1. prev \in Pointer
      BY <1>4
    <2>2. Set(g.prevSibling, c, prev) = [m \in Node |-> IF m = c THEN prev ELSE g.prevSibling[m]]
      BY <1>5, <2>1, Nodes DEF Set, Pointer
    <2>3. g.prevSibling = [m \in Node |-> g.prevSibling[m]]
      BY <1>5
    <2> QED BY <1>2, <1>7, <2>2, <2>3
  <1>12. u \in Tree
    <2>1. /\ u.parentNode \in [Node -> Pointer] /\ u.firstChild \in [Node -> Pointer]
          /\ u.nextSibling \in [Node -> Pointer] /\ u.prevSibling \in [Node -> Pointer]
      BY <1>4, <1>5, <1>7, <1>8, <1>9, <1>10, <1>11
    <2> QED BY <1>7, <2>1 DEF Tree
  <1>13. ASSUME NEW m \in Node
         PROVE  /\ u.parentNode[m] = IF m = c THEN p ELSE g.parentNode[m]
                /\ u.firstChild[m] = IF m = p /\ n = 1 THEN c ELSE g.firstChild[m]
                /\ u.nextSibling[m] = IF m = c THEN NULL ELSE IF m = prev THEN c
                                      ELSE g.nextSibling[m]
                /\ u.prevSibling[m] = IF m = c THEN prev ELSE IF m = NULL THEN c
                                      ELSE g.prevSibling[m]
    <2>1. m # NULL
      BY <1>1
    <2> HIDE DEF n
    <2> QED BY <1>2, <1>4, <1>7, <1>8, <1>9, <1>10, <1>11, <2>1
  <1>14. Linked(g, k, p, n, c, u)
    BY <1>3, <1>12, <1>13 DEF Linked
  <1>15. n \in 1..(Len(k[p]) + 1)
    BY <1>1
  <1>16. Shape(u, [k EXCEPT ![p] = InsertAt(k[p], n, c)])
    BY <1>14, <1>15, LinkedAt
  <1>17. InsertAt(k[p], n, c) = Append(k[p], c)
    BY <1>1, Appended
  <1> QED BY <1>16, <1>17 DEF u

-----------------------------------------------------------------------------
(* No node comes under itself *)

\* Lists with no other children than those of k.
PartOf(l, k) == \A q \in Node : \A i \in 1..Len(l[q]) : \E j \in 1..Len(k[q]) : l[q][i] = k[q][j]

\* Fewer children make no cycle.
LEMMA PartAcyclic ==
    ASSUME NEW k, NEW l, Acyclic(k), PartOf(l, k)
    PROVE  Acyclic(l)
  <1>1. PICK h : Under(k, h)
    BY DEF Acyclic
  <1>2. Under(l, h)
    BY <1>1 DEF Under, PartOf
  <1> QED BY <1>2 DEF Acyclic

\* Fewer children put nothing new under a node.
LEMMA PartSub ==
    ASSUME NEW k \in Kids, NEW l \in Kids, PartOf(l, k), NEW n \in Node
    PROVE  Sub(l, n) \subseteq Sub(k, n)
  <1>1. Sub(k, n) \in SUBSET Node /\ n \in Sub(k, n) /\ Closed(k, Sub(k, n))
    BY SubLeast
  <1>2. Closed(l, Sub(k, n))
    <2> DEFINE s == Sub(k, n)
    <2>1. s \in SUBSET Node /\ Closed(k, s)
      BY <1>1
    <2> HIDE DEF s
    <2>2. Closed(l, s)
      BY <2>1 DEF Closed, PartOf
    <2> QED BY <2>2 DEF s
  <1> QED BY <1>1, <1>2, SubLeast

\* c comes under p, which is not under c.
LEMMA InsertedAcyclic ==
    ASSUME NEW k \in Kids, Acyclic(k), NEW p \in Node, NEW c \in Node, p \notin Sub(k, c),
           NEW l \in Kids,
           \A q \in Node : \A i \in 1..Len(l[q]) :
              (q = p /\ l[q][i] = c) \/ \E j \in 1..Len(k[q]) : l[q][i] = k[q][j]
    PROVE  Acyclic(l)
  <1>1. PICK h : Under(k, h)
    BY DEF Acyclic
  <1>2. /\ h \in [Node -> Nat]
        /\ \A q \in Node : \A i \in 1..Len(k[q]) : h[k[q][i]] < h[q]
    BY <1>1 DEF Under
  <1> DEFINE high == [m \in Node |-> IF p \in Sub(k, m) THEN h[m] + h[c] + 1 ELSE h[m]]
  <1>3. high \in [Node -> Nat]
    BY <1>2
  <1>4. ASSUME NEW q \in Node, NEW i \in 1..Len(l[q]) PROVE high[l[q][i]] < high[q]
    <2>1. CASE q = p /\ l[q][i] = c
      <3>1. high[c] = h[c] /\ p \in Sub(k, p)
        BY SubLeast
      <3>2. high[p] = h[p] + h[c] + 1 /\ h[p] \in Nat /\ h[c] \in Nat
        BY <1>2, <3>1
      <3> QED BY <2>1, <3>1, <3>2
    <2>2. CASE \E j \in 1..Len(k[q]) : l[q][i] = k[q][j]
      <3>1. PICK j \in 1..Len(k[q]) : l[q][i] = k[q][j]
        BY <2>2
      <3>2. k[q][j] \in Node /\ h[k[q][j]] < h[q]
        BY <1>2, KidsTypes
      <3>3. h[k[q][j]] \in Nat /\ h[q] \in Nat /\ h[c] \in Nat
        BY <1>2, <3>2
      <3>4. k[q][j] \in Sub(k, q)
        BY SubLeast DEF Closed
      <3>5. p \in Sub(k, k[q][j]) => p \in Sub(k, q)
        BY <3>4, SubTransitive
      <3> QED BY <3>1, <3>2, <3>3, <3>5
    <2> QED BY <2>1, <2>2
  <1> HIDE DEF high
  <1>5. Under(l, high)
    BY <1>3, <1>4 DEF Under
  <1> QED BY <1>5 DEF Acyclic

-----------------------------------------------------------------------------
(* The walk of ixmlNode_free() *)

\* The children of x are in a set that firstChild leads into and nextSibling not out of.
LEMMA ChildrenKept ==
    ASSUME NEW g, NEW k, Shape(g, k), NEW U \in SUBSET Node, NEW x \in Node,
           g.firstChild[x] # NULL => g.firstChild[x] \in U,
           \A m \in U : g.nextSibling[m] # NULL => g.nextSibling[m] \in U
    PROVE  \A i \in 1..Len(k[x]) : k[x][i] \in U
  <1>1. k \in Kids /\ g \in Tree /\ NULL \notin Node
    BY Nodes DEF Shape
  <1>2. x \in Node /\ Len(k[x]) \in Nat
    BY <1>1, KidsTypes
  <1> DEFINE T == {i \in 0..Len(k[x]) : i = 0 \/ k[x][i] \in U}
  <1>3. 0 \in T
    BY <1>2
  <1>4. ASSUME NEW i \in 1..Len(k[x]), i - 1 \in T PROVE i \in T
    <2>0. k[x][i] \in Node
      BY <1>1, <1>2, KidsTypes
    <2>1. CASE i = 1
      <3>1. g.firstChild[x] = k[x][1]
        BY <1>2, <2>1 DEF Shape, Row
      <3> QED BY <1>1, <2>0, <2>1, <3>1
    <2>2. CASE i # 1
      <3> DEFINE j == i - 1
      <3>1. j \in 1..Len(k[x]) /\ j # Len(k[x]) /\ j + 1 = i /\ k[x][j] \in U
        BY <1>2, <1>4, <2>2
      <3> HIDE DEF j
      <3>2. g.nextSibling[k[x][j]] = IF j = Len(k[x]) THEN NULL ELSE k[x][j + 1]
        BY <1>2, <3>1, Placed
      <3>3. g.nextSibling[k[x][j]] = k[x][i]
        BY <3>1, <3>2
      <3> QED BY <1>1, <2>0, <3>1, <3>3
    <2> QED BY <2>1, <2>2
  <1> HIDE DEF T
  <1>5. \A i \in 0..Len(k[x]) : i \in T
    BY <1>2, <1>3, <1>4, Induction
  <1> QED BY <1>2, <1>5 DEF T

\* What is kept along the pointers has all children of its members.
LEMMA KeptClosed ==
    ASSUME NEW g, NEW k, Shape(g, k), NEW U \in SUBSET Node, KeptIn(g, U)
    PROVE  Closed(k, U)
  <1>1. ASSUME NEW x \in U PROVE \A i \in 1..Len(k[x]) : k[x][i] \in U
    BY <1>1, ChildrenKept DEF KeptIn
  <1> QED BY <1>1 DEF Closed

\* For a node without a sibling after it, what pointers lead to is what is under it.
LEMMA SubKept ==
    ASSUME NEW g, NEW k, Shape(g, k), NEW n \in Node, g.nextSibling[n] = NULL
    PROVE  /\ KeptIn(g, Sub(k, n))
           /\ \A U \in SUBSET Node : n \in U /\ KeptIn(g, U) => Sub(k, n) \subseteq U
  <1>1. k \in Kids /\ g \in Tree /\ NULL \notin Node
    BY Nodes DEF Shape
  <1>2. Sub(k, n) \in SUBSET Node /\ n \in Sub(k, n) /\ Closed(k, Sub(k, n))
    BY <1>1, SubLeast
  <1>3. ASSUME NEW x \in Sub(k, n), g.firstChild[x] # NULL PROVE g.firstChild[x] \in Sub(k, n)
    <2>1. x \in Node /\ Len(k[x]) \in Nat
      BY <1>1, <1>2, KidsTypes
    <2>2. g.firstChild[x] = IF Len(k[x]) = 0 THEN NULL ELSE k[x][1]
      BY <2>1 DEF Shape, Row
    <2>3. 1 \in 1..Len(k[x]) /\ g.firstChild[x] = k[x][1]
      BY <1>3, <2>1, <2>2
    <2> QED BY <1>2, <2>3 DEF Closed
  <1>4. ASSUME NEW x \in Sub(k, n), g.nextSibling[x] # NULL PROVE g.nextSibling[x] \in Sub(k, n)
    <2> DEFINE p == g.parentNode[x]
    <2>1. x \in Node /\ x # n
      BY <1>2, <1>4
    <2>2. p \in Sub(k, n)
      BY <2>1, SubParent
    <2>3. p \in Node /\ p # NULL
      BY <1>1, <1>2, <2>2
    <2>4. PICK i \in 1..Len(k[p]) : k[p][i] = x
      BY <2>1, <2>3, ShapeTypes
    <2>5. g.nextSibling[x] = IF i = Len(k[p]) THEN NULL ELSE k[p][i + 1]
      BY <2>3, <2>4, Placed
    <2>6. Len(k[p]) \in Nat
      BY <1>1, <2>3, KidsTypes
    <2>7. i + 1 \in 1..Len(k[p]) /\ g.nextSibling[x] = k[p][i + 1]
      BY <1>4, <2>5, <2>6
    <2> QED BY <1>2, <2>2, <2>7 DEF Closed
  <1>5. ASSUME NEW U \in SUBSET Node, KeptIn(g, U) PROVE Closed(k, U)
    BY <1>5, KeptClosed
  <1>6. ASSUME NEW U \in SUBSET Node, n \in U, KeptIn(g, U) PROVE Sub(k, n) \subseteq U
    BY <1>1, <1>5, <1>6, SubLeast
  <1> QED BY <1>3, <1>4, <1>6 DEF KeptIn

\* The four pointers tell the same.
LEMMA PointersAgree ==
    ASSUME NEW g, NEW k, Shape(g, k), NEW m \in Node
    PROVE  /\ g.firstChild[m] # NULL =>
                /\ g.firstChild[m] \in Node
                /\ g.parentNode[g.firstChild[m]] = m /\ g.prevSibling[g.firstChild[m]] = NULL
           /\ g.nextSibling[m] # NULL =>
                /\ g.nextSibling[m] \in Node /\ g.nextSibling[m] # m
                /\ g.prevSibling[g.nextSibling[m]] = m
                /\ g.parentNode[g.nextSibling[m]] = g.parentNode[m]
           /\ g.prevSibling[m] # NULL =>
                /\ g.prevSibling[m] \in Node /\ g.prevSibling[m] # m
                /\ g.nextSibling[g.prevSibling[m]] = m
                /\ g.parentNode[g.prevSibling[m]] = g.parentNode[m]
           /\ g.parentNode[m] # NULL =>
                /\ g.parentNode[m] \in Node
                /\ g.prevSibling[m] = NULL => g.firstChild[g.parentNode[m]] = m
  <1>1. k \in Kids /\ NULL \notin Node
    BY Nodes DEF Shape
  <1>2. ASSUME g.firstChild[m] # NULL
        PROVE  /\ g.firstChild[m] \in Node
               /\ g.parentNode[g.firstChild[m]] = m /\ g.prevSibling[g.firstChild[m]] = NULL
    <2>1. Len(k[m]) \in Nat /\ g.firstChild[m] = IF Len(k[m]) = 0 THEN NULL ELSE k[m][1]
      BY <1>1, KidsTypes DEF Shape, Row
    <2>2. 1 \in 1..Len(k[m]) /\ g.firstChild[m] = k[m][1]
      BY <1>2, <2>1
    <2> QED BY <2>2, Placed
  <1>3. ASSUME g.parentNode[m] # NULL
        PROVE  /\ g.parentNode[m] \in Node
               /\ g.prevSibling[m] = NULL => g.firstChild[g.parentNode[m]] = m
               /\ g.nextSibling[m] # NULL =>
                    /\ g.nextSibling[m] \in Node /\ g.nextSibling[m] # m
                    /\ g.prevSibling[g.nextSibling[m]] = m
                    /\ g.parentNode[g.nextSibling[m]] = g.parentNode[m]
               /\ g.prevSibling[m] # NULL =>
                    /\ g.prevSibling[m] \in Node /\ g.prevSibling[m] # m
                    /\ g.nextSibling[g.prevSibling[m]] = m
                    /\ g.parentNode[g.prevSibling[m]] = g.parentNode[m]
    <2> DEFINE p == g.parentNode[m]
    <2>1. p \in Node /\ \E i \in 1..Len(k[p]) : k[p][i] = m
      BY <1>3, ShapeTypes
    <2>2. PICK i \in 1..Len(k[p]) : k[p][i] = m
      BY <2>1
    <2>3. Len(k[p]) \in Nat /\ i \in Nat
      BY <1>1, <2>1, KidsTypes
    <2> HIDE DEF p
    <2>4. /\ g.prevSibling[m] = IF i = 1 THEN NULL ELSE k[p][i - 1]
          /\ g.nextSibling[m] = IF i = Len(k[p]) THEN NULL ELSE k[p][i + 1]
          /\ g.parentNode[m] = p
      BY <2>1, <2>2, Placed
    <2>5. ASSUME g.prevSibling[m] = NULL PROVE g.firstChild[p] = m
      <3>1. i = 1
        <4> DEFINE j == i - 1
        <4>1. i # 1 => j \in 1..Len(k[p]) /\ g.prevSibling[m] = k[p][j]
          BY <2>3, <2>4
        <4> HIDE DEF j
        <4>2. i # 1 => k[p][j] \in Node
          BY <2>1, <4>1, Placed
        <4> QED BY <1>1, <2>5, <4>1, <4>2
      <3>2. g.firstChild[p] = IF Len(k[p]) = 0 THEN NULL ELSE k[p][1]
        BY <2>1 DEF Shape, Row
      <3> QED BY <2>2, <2>3, <3>1, <3>2
    <2>6. ASSUME g.nextSibling[m] # NULL
          PROVE  /\ g.nextSibling[m] \in Node /\ g.nextSibling[m] # m
                 /\ g.prevSibling[g.nextSibling[m]] = m /\ g.parentNode[g.nextSibling[m]] = p
      <3> DEFINE j == i + 1
      <3>1. j \in 1..Len(k[p]) /\ g.nextSibling[m] = k[p][j] /\ j # 1 /\ j - 1 = i /\ j # i
        BY <2>3, <2>4, <2>6
      <3> HIDE DEF j
      <3>2. /\ k[p][j] \in Node /\ g.parentNode[k[p][j]] = p
            /\ g.prevSibling[k[p][j]] = IF j = 1 THEN NULL ELSE k[p][j - 1]
            /\ \A x \in 1..Len(k[p]) : k[p][x] = k[p][j] => x = j
        BY <2>1, <3>1, Placed
      <3> QED BY <2>2, <3>1, <3>2
    <2>7. ASSUME g.prevSibling[m] # NULL
          PROVE  /\ g.prevSibling[m] \in Node /\ g.prevSibling[m] # m
                 /\ g.nextSibling[g.prevSibling[m]] = m /\ g.parentNode[g.prevSibling[m]] = p
      <3> DEFINE j == i - 1
      <3>1. /\ j \in 1..Len(k[p]) /\ g.prevSibling[m] = k[p][j] /\ j # Len(k[p]) /\ j + 1 = i
            /\ j # i
        BY <2>3, <2>4, <2>7
      <3> HIDE DEF j
      <3>2. /\ k[p][j] \in Node /\ g.parentNode[k[p][j]] = p
            /\ g.nextSibling[k[p][j]] = IF j = Len(k[p]) THEN NULL ELSE k[p][j + 1]
            /\ \A x \in 1..Len(k[p]) : k[p][x] = k[p][j] => x = j
        BY <2>1, <3>1, Placed
      <3> QED BY <2>2, <3>1, <3>2
    <2> QED BY <2>1, <2>4, <2>5, <2>6, <2>7
  <1>4. g.parentNode[m] = NULL => g.nextSibling[m] = NULL /\ g.prevSibling[m] = NULL
    BY DEF Shape
  <1> QED BY <1>2, <1>3, <1>4

\* No node is its own parent.
LEMMA NotOwnParent ==
    ASSUME NEW g, NEW k, Shape(g, k), Acyclic(k), NEW m \in Node, g.parentNode[m] = m
    PROVE  FALSE
  <1>1. PICK h : Under(k, h)
    BY DEF Acyclic
  <1>2. PICK i \in 1..Len(k[m]) : k[m][i] = m
    BY ShapeTypes, Nodes
  <1>3. h[m] < h[m] /\ h[m] \in Nat
    BY <1>1, <1>2 DEF Under
  <1> QED BY <1>3

\* The states of the loop that frees n: the nodes freed are under n, with all they
\* lead to; the pointers that have been cleared are those that led to them.
Walks(g, k, n) ==
    {w \in [g: Tree, from: Pointer, freed: SUBSET Sub(k, n)] :
        /\ w.g.parentNode = g.parentNode /\ w.g.prevSibling = g.prevSibling
        /\ KeptIn(g, w.freed)
        /\ \A m \in Node : w.g.firstChild[m] # g.firstChild[m] =>
              w.g.firstChild[m] = NULL /\ m \in Sub(k, n) /\ g.firstChild[m] \in w.freed
        /\ \A m \in Node : w.g.nextSibling[m] # g.nextSibling[m] =>
              w.g.nextSibling[m] = NULL /\ m \in Sub(k, n) /\ g.nextSibling[m] \in w.freed
        /\ n \notin w.freed =>
              /\ w.from \in Sub(k, n) \ w.freed
              /\ \A m \in Node : /\ w.g.firstChild[m] \notin w.freed
                                 /\ w.g.nextSibling[m] \notin w.freed}

\* One turn of the loop.
Turn(n, w) ==
    LET curr == Deepest(w.g, w.from)
    IN  IF n \in w.freed THEN w
        ELSE [g |-> IF curr = n THEN w.g ELSE CutOff(w.g, curr),
              from |-> IF w.g.prevSibling[curr] # NULL
                       THEN w.g.prevSibling[curr] ELSE w.g.parentNode[curr],
              freed |-> w.freed \union {curr}]

\* A turn frees one node under n more and keeps all this.
LEMMA TurnKeeps ==
    ASSUME NEW g, NEW k, Shape(g, k), Acyclic(k), NEW n \in Node, g.parentNode[n] = NULL,
           NEW w \in Walks(g, k, n), n \notin w.freed
    PROVE  /\ Turn(n, w) \in Walks(g, k, n)
           /\ \E curr \in Node \ w.freed : Turn(n, w).freed = w.freed \union {curr}
  <1> DEFINE S == Sub(k, n)
             curr == Deepest(w.g, w.from)
             v == Turn(n, w)
             q == g.prevSibling[curr]
             p == g.parentNode[curr]
  <1>1. g \in Tree /\ k \in Kids /\ NULL \notin Node
    BY Nodes DEF Shape
  <1>2. g.nextSibling[n] = NULL /\ g.prevSibling[n] = NULL
    BY DEF Shape
  <1>3. S \in SUBSET Node /\ n \in S /\ Closed(k, S) /\ KeptIn(g, S)
    BY <1>1, <1>2, SubLeast, SubKept
  <1>4. \A x \in S : x # n => g.parentNode[x] \in S
    BY SubParent
  <1>5. \A x \in Node : g.parentNode[x] \in S => x \in S
    <2> SUFFICES ASSUME NEW x \in Node, g.parentNode[x] \in S PROVE x \in S
      OBVIOUS
    <2>1. g.parentNode[x] # NULL
      BY <1>1, <1>3
    <2> QED BY <1>3, <2>1, ShapeTypes DEF Closed
  <1> HIDE DEF S
  <1>6. /\ w.g \in Tree /\ w.freed \in SUBSET S
        /\ w.g.parentNode = g.parentNode /\ w.g.prevSibling = g.prevSibling
        /\ KeptIn(g, w.freed)
        /\ w.from \in S \ w.freed
        /\ w = [g |-> w.g, from |-> w.from, freed |-> w.freed]
    BY DEF Walks, S
  <1>7. ASSUME NEW m \in Node
        PROVE  /\ w.g.firstChild[m] # g.firstChild[m] =>
                    w.g.firstChild[m] = NULL /\ m \in S /\ g.firstChild[m] \in w.freed
               /\ w.g.nextSibling[m] # g.nextSibling[m] =>
                    w.g.nextSibling[m] = NULL /\ m \in S /\ g.nextSibling[m] \in w.freed
               /\ w.g.firstChild[m] \notin w.freed /\ w.g.nextSibling[m] \notin w.freed
    BY DEF Walks, S
  <1>8. Ends(w.g)
    <2>1. \A m \in Node : /\ w.g.firstChild[m] \in {NULL, g.firstChild[m]}
                          /\ w.g.nextSibling[m] \in {NULL, g.nextSibling[m]}
      BY <1>7
    <2> QED BY <1>6, <2>1, ShapeEnds
  <1>9. KeptIn(w.g, S \ w.freed)
    BY <1>3, <1>7 DEF KeptIn
  <1>10. curr \in S \ w.freed /\ w.g.nextSibling[curr] = NULL /\ w.g.firstChild[curr] = NULL
    <2>1. PICK level, rest : Falls(w.g, level, rest)
      BY <1>8 DEF Ends
    <2>2. S \ w.freed \in SUBSET Node
      BY <1>3
    <2> HIDE DEF curr
    <2> QED BY <1>6, <1>9, <2>1, <2>2, DeepestEnds DEF curr
  <1> HIDE DEF curr
  <1>11. v = [g |-> IF curr = n THEN w.g ELSE CutOff(w.g, curr),
              from |-> IF q # NULL THEN q ELSE p,
              freed |-> w.freed \union {curr}]
    BY <1>6 DEF Turn, curr
  <1> HIDE DEF v
  <1>12. curr \in Node
    BY <1>3, <1>10
  <1>13. KeptIn(g, v.freed) /\ v.freed = w.freed \union {curr} /\ v.freed \in SUBSET S
    BY <1>6, <1>7, <1>10, <1>11, <1>12 DEF KeptIn
  <1>14. q \in Pointer /\ p \in Pointer
    BY <1>12, ShapeTypes
  <1>15. CASE curr = n
    <2>1. v.g = w.g /\ v.from \in Pointer /\ n \in v.freed
      BY <1>11, <1>14, <1>15
    <2>2. v \in [g: Tree, from: Pointer, freed: SUBSET S]
      BY <1>6, <1>11, <1>13, <2>1
    <2>3. \A m \in Node : /\ v.g.firstChild[m] # g.firstChild[m] =>
                               v.g.firstChild[m] = NULL /\ m \in S /\ g.firstChild[m] \in v.freed
                          /\ v.g.nextSibling[m] # g.nextSibling[m] =>
                               v.g.nextSibling[m] = NULL /\ m \in S /\ g.nextSibling[m] \in v.freed
      BY <1>7, <1>13, <2>1
    <2>4. v \in Walks(g, k, n)
      BY <1>6, <1>13, <2>1, <2>2, <2>3 DEF Walks, S
    <2> QED BY <1>10, <1>12, <1>13, <2>4 DEF v
  <1>16. CASE curr # n
    <2>1. p \in S /\ p \in Node /\ p # NULL /\ p # curr
      BY <1>1, <1>3, <1>4, <1>10, <1>12, <1>16, NotOwnParent
    <2>2. /\ g.firstChild[p] # curr => q # NULL
          /\ q # NULL => /\ q \in Node /\ q # curr /\ g.nextSibling[q] = curr
                         /\ g.parentNode[q] = p
      BY <1>12, <2>1, PointersAgree
    <2>3. \A m \in Node : /\ g.firstChild[m] = curr => q = NULL /\ m = p
                          /\ g.nextSibling[m] = curr => q = m
      BY <1>1, <1>12, PointersAgree
    <2>4. n \notin v.freed
      BY <1>13, <1>16
    <2>5. CASE q # NULL
      <3>1. q \in Node /\ q \in S /\ q # curr /\ g.nextSibling[q] = curr
        BY <1>5, <2>1, <2>2, <2>5
      <3>2. q \notin w.freed
        BY <1>6, <1>10, <1>12, <3>1, <1>1 DEF KeptIn
      <3>3. v.g = [w.g EXCEPT !.nextSibling = Set(w.g.nextSibling, q, NULL)]
        BY <1>6, <1>11, <1>16, <2>5 DEF CutOff
      <3>4. Set(w.g.nextSibling, q, NULL) = [w.g.nextSibling EXCEPT ![q] = NULL]
        BY <2>5 DEF Set
      <3>5. /\ v.g \in Tree /\ v.g.parentNode = g.parentNode /\ v.g.prevSibling = g.prevSibling
            /\ v.g.firstChild = w.g.firstChild
            /\ \A m \in Node : v.g.nextSibling[m] = IF m = q THEN NULL ELSE w.g.nextSibling[m]
        BY <1>6, <3>3, <3>4 DEF Tree, Pointer
      <3>6. v.from = q
        BY <1>11, <2>5
      <3>7. v \in [g: Tree, from: Pointer, freed: SUBSET S]
        BY <1>11, <1>13, <1>14, <3>5, <3>6
      <3>8. \A m \in Node : v.g.firstChild[m] # g.firstChild[m] =>
                 v.g.firstChild[m] = NULL /\ m \in S /\ g.firstChild[m] \in v.freed
        BY <1>7, <1>13, <3>5
      <3>9. \A m \in Node : v.g.nextSibling[m] # g.nextSibling[m] =>
                 v.g.nextSibling[m] = NULL /\ m \in S /\ g.nextSibling[m] \in v.freed
        BY <1>7, <1>13, <3>1, <3>5
      <3>10. \A m \in Node : v.g.firstChild[m] \notin v.freed
        BY <1>1, <1>7, <1>12, <1>13, <2>3, <2>5, <3>5
      <3>11. \A m \in Node : v.g.nextSibling[m] \notin v.freed
        <4> SUFFICES ASSUME NEW m \in Node, v.g.nextSibling[m] \in v.freed PROVE FALSE
          OBVIOUS
        <4>1. m # q /\ v.g.nextSibling[m] = w.g.nextSibling[m]
          BY <1>1, <1>3, <1>13, <3>5
        <4>2. w.g.nextSibling[m] = curr
          BY <1>7, <1>13, <4>1
        <4>3. g.nextSibling[m] = curr
          BY <1>1, <1>7, <1>12, <4>2
        <4> QED BY <2>3, <4>1, <4>3
      <3>12. v.from \in S \ v.freed
        BY <1>13, <3>1, <3>2, <3>6
      <3>13. v \in Walks(g, k, n)
        BY <1>13, <3>5, <3>7, <3>8, <3>9, <3>10, <3>11, <3>12 DEF Walks, S
      <3> QED BY <1>10, <1>12, <1>13, <3>13 DEF v
    <2>6. CASE q = NULL
      <3>1. g.firstChild[p] = curr
        BY <2>2, <2>6
      <3>2. p \notin w.freed
        BY <1>1, <1>6, <1>10, <1>12, <2>1, <3>1 DEF KeptIn
      <3>3. v.g = [w.g EXCEPT !.firstChild = Set(w.g.firstChild, p, NULL)]
        BY <1>6, <1>11, <1>16, <2>6 DEF CutOff
      <3>4. Set(w.g.firstChild, p, NULL) = [w.g.firstChild EXCEPT ![p] = NULL]
        BY <2>1 DEF Set
      <3>5. /\ v.g \in Tree /\ v.g.parentNode = g.parentNode /\ v.g.prevSibling = g.prevSibling
            /\ v.g.nextSibling = w.g.nextSibling
            /\ \A m \in Node : v.g.firstChild[m] = IF m = p THEN NULL ELSE w.g.firstChild[m]
        BY <1>6, <3>3, <3>4 DEF Tree, Pointer
      <3>6. v.from = p
        BY <1>11, <2>6
      <3>7. v \in [g: Tree, from: Pointer, freed: SUBSET S]
        BY <1>11, <1>13, <1>14, <3>5, <3>6
      <3>8. \A m \in Node : v.g.firstChild[m] # g.firstChild[m] =>
                 v.g.firstChild[m] = NULL /\ m \in S /\ g.firstChild[m] \in v.freed
        BY <1>7, <1>13, <2>1, <3>1, <3>5
      <3>9. \A m \in Node : v.g.nextSibling[m] # g.nextSibling[m] =>
                 v.g.nextSibling[m] = NULL /\ m \in S /\ g.nextSibling[m] \in v.freed
        BY <1>7, <1>13, <3>5
      <3>10. \A m \in Node : v.g.nextSibling[m] \notin v.freed
        BY <1>1, <1>7, <1>12, <1>13, <2>3, <2>6, <3>5
      <3>11. \A m \in Node : v.g.firstChild[m] \notin v.freed
        <4> SUFFICES ASSUME NEW m \in Node, v.g.firstChild[m] \in v.freed PROVE FALSE
          OBVIOUS
        <4>1. m # p /\ v.g.firstChild[m] = w.g.firstChild[m]
          BY <1>1, <1>3, <1>13, <3>5
        <4>2. w.g.firstChild[m] = curr
          BY <1>7, <1>13, <4>1
        <4>3. g.firstChild[m] = curr
          BY <1>1, <1>7, <1>12, <4>2
        <4> QED BY <2>3, <4>1, <4>3
      <3>12. v.from \in S \ v.freed
        BY <1>13, <2>1, <3>2, <3>6
      <3>13. v \in Walks(g, k, n)
        BY <1>13, <3>5, <3>7, <3>8, <3>9, <3>10, <3>11, <3>12 DEF Walks, S
      <3> QED BY <1>10, <1>12, <1>13, <3>13 DEF v
    <2> QED BY <2>5, <2>6
  <1> QED BY <1>15, <1>16

\* ixmlNode_free() frees n and all that is under it.
LEMMA WalkEnds ==
    ASSUME NEW g, NEW k, Shape(g, k), Acyclic(k), NEW n \in Node, g.parentNode[n] = NULL
    PROVE  FreeWalk(g, n) \in Walks(g, k, n) /\ FreeWalk(g, n).freed = Sub(k, n)
  <1> DEFINE N == Cardinality(Node)
             W == Walks(g, k, n)
             start == [g |-> g, from |-> IF g.firstChild[n] = NULL THEN n ELSE g.firstChild[n],
                       freed |-> {}]
             step == [w \in W |-> Turn(n, w)]
             Def(f) == [i \in 0..N |-> IF i = 0 THEN start ELSE Turn(n, f[i - 1])]
             turn == CHOOSE f : f = Def(f)
  <1>1. /\ g \in Tree /\ k \in Kids /\ NULL \notin Node /\ N \in Nat /\ IsFiniteSet(Node)
        /\ g.nextSibling[n] = NULL
    BY Nodes DEF Shape
  <1>2. Sub(k, n) \in SUBSET Node /\ n \in Sub(k, n) /\ KeptIn(g, Sub(k, n))
    BY <1>1, SubLeast, SubKept
  <1>3. start \in W
    <2>1. start.from \in Sub(k, n) /\ start.from \in Pointer /\ start.freed \in SUBSET Sub(k, n)
      BY <1>2 DEF KeptIn, Pointer
    <2>2. start.g = g /\ start.freed = {}
      OBVIOUS
    <2>3. start \in [g: Tree, from: Pointer, freed: SUBSET Sub(k, n)]
      BY <1>1, <2>1
    <2> HIDE DEF start
    <2>4. KeptIn(g, start.freed)
      BY <2>2 DEF KeptIn
    <2> QED BY <2>1, <2>2, <2>3, <2>4 DEF Walks
  <1>4. step \in [W -> W]
    <2>1. ASSUME NEW w \in W PROVE Turn(n, w) \in W
      <3>1. CASE n \in w.freed
        BY <3>1 DEF Turn
      <3>2. CASE n \notin w.freed
        BY <3>2, TurnKeeps
      <3> QED BY <3>1, <3>2
    <2> HIDE DEF W
    <2> QED BY <2>1
  <1>5. FreeWalk(g, n) = turn[N]
    BY DEF FreeWalk, Turn
  <1>6. HasWalk(N, W, start, step)
    <2> HIDE DEF N, W, start, step
    <2> QED BY <1>1, <1>3, <1>4, Walk, Zenon
  <1> HIDE DEF start, W
  <1>7. PICK f \in [0..N -> W] : f[0] = start /\ \A i \in 1..N : f[i] = step[f[i - 1]]
    <2> HIDE DEF N, step
    <2> QED BY <1>6 DEF HasWalk
  <1>8. \A i \in 1..N : f[i - 1] \in W /\ f[i] = Turn(n, f[i - 1])
    <2> SUFFICES ASSUME NEW i \in 1..N PROVE f[i - 1] \in W /\ f[i] = Turn(n, f[i - 1])
      OBVIOUS
    <2>1. i - 1 \in 0..N
      BY <1>1
    <2>2. f[i - 1] \in W
      BY <1>7, <2>1
    <2>3. step[f[i - 1]] = Turn(n, f[i - 1])
      BY <2>2
    <2> QED BY <1>7, <2>2, <2>3
  <1>9. f = Def(f)
    <2>1. ASSUME NEW i \in 0..N PROVE f[i] = Def(f)[i]
      <3>1. CASE i = 0
        BY <1>1, <1>7, <3>1
      <3>2. CASE i # 0
        <4>1. i \in 1..N
          BY <1>1, <3>2
        <4>2. f[i] = Turn(n, f[i - 1])
          BY <1>8, <4>1
        <4>3. Def(f)[i] = Turn(n, f[i - 1])
          BY <3>2
        <4> QED BY <4>2, <4>3, Zenon
      <3> QED BY <3>1, <3>2
    <2>2. f = [i \in 0..N |-> f[i]]
      BY <1>7
    <2> QED BY <2>1, <2>2
  <1>10. turn = Def(turn)
    <2> HIDE DEF Def
    <2> QED BY <1>9
  <1> HIDE DEF turn
  <1>11. turn[0] = f[0] /\ \A i \in 1..N : turn[i - 1] = f[i - 1] => turn[i] = f[i]
    <2>1. turn[0] = Def(turn)[0] /\ f[0] = Def(f)[0]
      BY <1>9, <1>10, Zenon
    <2>2. turn[0] = f[0]
      BY <1>1, <2>1
    <2>3. ASSUME NEW i \in 1..N, turn[i - 1] = f[i - 1] PROVE turn[i] = f[i]
      <3>1. turn[i] = Def(turn)[i] /\ f[i] = Def(f)[i]
        BY <1>9, <1>10, Zenon
      <3>2. i \in 0..N /\ i # 0
        BY <1>1
      <3>3. Def(turn)[i] = Def(f)[i]
        BY <2>3, <3>2
      <3> QED BY <3>1, <3>3
    <2> QED BY <2>2, <2>3
  <1>12. turn[N] = f[N]
    <2>1. \A i \in 0..N : turn[i] = f[i]
      <3> DEFINE T == {i \in 0..N : turn[i] = f[i]}
      <3>1. 0 \in T
        BY <1>1, <1>11
      <3>2. \A i \in 1..N : i - 1 \in T => i \in T
        BY <1>1, <1>11
      <3> HIDE DEF T, N
      <3>3. \A i \in 0..N : i \in T
        BY <1>1, <3>1, <3>2, Induction
      <3> QED BY <3>3 DEF T
    <2> QED BY <1>1, <2>1
  <1> HIDE DEF N, step, Def
  <1>13. \A i \in 0..N : f[i] \in W /\ f[i].freed \in SUBSET Sub(k, n)
    BY <1>7 DEF W, Walks
  <1>14. \A i \in 0..N : IsFiniteSet(f[i].freed) /\ Cardinality(f[i].freed) \in Nat
    <2> SUFFICES ASSUME NEW i \in 0..N
                 PROVE  IsFiniteSet(f[i].freed) /\ Cardinality(f[i].freed) \in Nat
      OBVIOUS
    <2>1. f[i].freed \in SUBSET Node
      BY <1>2, <1>13
    <2>2. IsFiniteSet(f[i].freed)
      BY <1>1, <2>1, FS_Subset
    <2> QED BY <2>2, FS_CardinalityType
  <1>15. n \in f[N].freed
    <2> DEFINE T == {i \in 0..N : n \in f[i].freed \/ Cardinality(f[i].freed) >= i}
    <2>1. 0 \in T
      <3>1. 0 \in 0..N /\ Cardinality(f[0].freed) \in Nat
        BY <1>1, <1>14
      <3> QED BY <3>1
    <2>2. ASSUME NEW i \in 1..N, i - 1 \in T PROVE i \in T
      <3> DEFINE w == f[i - 1]
      <3>1. i - 1 \in 0..N /\ i \in 0..N
        BY <1>1
      <3>2. w \in W /\ f[i] = Turn(n, w)
        BY <1>8
      <3>3. CASE n \in w.freed
        BY <2>2, <3>1, <3>2, <3>3 DEF Turn
      <3>4. CASE n \notin w.freed
        <4>1. IsFiniteSet(w.freed) /\ Cardinality(w.freed) \in Nat
          BY <1>14, <3>1
        <4>2. Cardinality(w.freed) >= i - 1
          BY <2>2, <3>4
        <4> HIDE DEF w
        <4>3. PICK curr \in Node \ w.freed : Turn(n, w).freed = w.freed \union {curr}
          BY <3>2, <3>4, TurnKeeps DEF W
        <4>4. Cardinality(w.freed \union {curr}) = Cardinality(w.freed) + 1
          BY <4>1, <4>3, FS_AddElement
        <4>5. Cardinality(f[i].freed) >= i
          BY <1>1, <3>2, <4>1, <4>2, <4>3, <4>4
        <4> QED BY <3>1, <4>5
      <3> QED BY <3>3, <3>4
    <2> HIDE DEF T
    <2>3. \A i \in 0..N : i \in T
      BY <1>1, <2>1, <2>2, Induction
    <2>4. SUFFICES ASSUME n \notin f[N].freed PROVE FALSE
      OBVIOUS
    <2>5. N \in 0..N /\ Cardinality(f[N].freed) >= N
      BY <1>1, <2>3, <2>4 DEF T
    <2>6. f[N].freed \in SUBSET Node
      BY <1>2, <1>13, <2>5
    <2>7. Cardinality(f[N].freed) <= N /\ (N = Cardinality(f[N].freed) => Node = f[N].freed)
      BY <1>1, <2>6, FS_Subset DEF N
    <2> QED BY <1>1, <1>14, <2>4, <2>5, <2>7
  <1>16. N \in 0..N
    BY <1>1
  <1>17. f[N] \in W /\ KeptIn(g, f[N].freed) /\ f[N].freed \in SUBSET Sub(k, n)
    BY <1>13, <1>16 DEF W, Walks
  <1>18. Sub(k, n) \subseteq f[N].freed
    <2>1. f[N].freed \in SUBSET Node
      BY <1>2, <1>17
    <2> QED BY <1>1, <1>15, <1>17, <2>1, SubKept
  <1> QED BY <1>5, <1>12, <1>17, <1>18 DEF W

\* The lists after the nodes of gone have been freed.
Emptied(k, gone) == [m \in Node |-> IF m \in gone THEN <<>> ELSE k[m]]

\* What remains are the trees of the other nodes.
LEMMA FreedShape ==
    ASSUME NEW g, NEW k, Shape(g, k), Acyclic(k), NEW n \in Node, g.parentNode[n] = NULL,
           NEW u \in Tree,
           \A f \in {"parentNode", "firstChild", "nextSibling", "prevSibling"} : \A m \in Node :
              u[f][m] = IF m \in Sub(k, n) THEN NULL ELSE FreeWalk(g, n).g[f][m]
    PROVE  Shape(u, Emptied(k, Sub(k, n))) /\ Acyclic(Emptied(k, Sub(k, n)))
  <1> DEFINE S == Sub(k, n)
             l == Emptied(k, S)
             w == FreeWalk(g, n)
  <1>1. /\ g \in Tree /\ k \in Kids /\ NULL \notin Node
        /\ \A p \in Node : Row(g, p, k[p])
        /\ \A m \in Node : g.parentNode[m] = NULL => g.nextSibling[m] = NULL /\ g.prevSibling[m] = NULL
    BY Nodes DEF Shape
  <1>2. S \in SUBSET Node /\ n \in S /\ Closed(k, S)
    BY <1>1, SubLeast
  <1>3. /\ w.g.parentNode = g.parentNode /\ w.g.prevSibling = g.prevSibling
        /\ \A m \in Node \ S : /\ w.g.firstChild[m] = g.firstChild[m]
                               /\ w.g.nextSibling[m] = g.nextSibling[m]
    BY WalkEnds DEF Walks
  <1> HIDE DEF w
  <1>4. /\ \A m \in S : /\ u.parentNode[m] = NULL /\ u.firstChild[m] = NULL
                        /\ u.nextSibling[m] = NULL /\ u.prevSibling[m] = NULL
        /\ \A m \in Node \ S : /\ u.parentNode[m] = g.parentNode[m]
                               /\ u.firstChild[m] = g.firstChild[m]
                               /\ u.nextSibling[m] = g.nextSibling[m]
                               /\ u.prevSibling[m] = g.prevSibling[m]
    BY <1>2, <1>3 DEF w
  <1>5. \A x \in S : g.parentNode[x] \in S \union {NULL}
    BY SubParent
  <1>6. \A x \in Node : g.parentNode[x] \in S => x \in S
    <2> SUFFICES ASSUME NEW x \in Node, g.parentNode[x] \in S PROVE x \in S
      OBVIOUS
    <2>1. g.parentNode[x] # NULL
      BY <1>1, <1>2
    <2> QED BY <1>2, <2>1, ShapeTypes DEF Closed
  <1>7. \A m \in Node : l[m] = IF m \in S THEN <<>> ELSE k[m]
    BY DEF Emptied
  <1>8. l \in Kids
    <2>1. \A m \in Node : (IF m \in S THEN <<>> ELSE k[m]) \in Seq(Node)
      BY <1>1 DEF Kids
    <2> QED BY <2>1 DEF Kids, Emptied
  <1> HIDE DEF S, l
  <1>9. ASSUME NEW p \in S PROVE Row(u, p, l[p])
    <2>1. l[p] = <<>> /\ Len(l[p]) = 0 /\ u.firstChild[p] = NULL
      BY <1>2, <1>4, <1>7
    <2>2. \A c \in Node : u.parentNode[c] # p
      BY <1>1, <1>2, <1>4, <1>6
    <2> QED BY <2>1, <2>2 DEF Row
  <1>10. ASSUME NEW p \in Node \ S PROVE Row(u, p, l[p])
    <2>1. l[p] = k[p] /\ u.firstChild[p] = g.firstChild[p]
      BY <1>4, <1>7
    <2>2. Row(g, p, k[p])
      BY <1>1
    <2>3. \A i \in 1..Len(k[p]) : k[p][i] \in Node \ S
      <3> SUFFICES ASSUME NEW i \in 1..Len(k[p]) PROVE k[p][i] \in Node \ S
        OBVIOUS
      <3>1. k[p][i] \in Node /\ g.parentNode[k[p][i]] = p
        BY Placed
      <3> QED BY <1>1, <1>5, <3>1
    <2>4. \A c \in Node : u.parentNode[c] = p => g.parentNode[c] = p
      BY <1>1, <1>4
    <2>5. ASSUME NEW i \in 1..Len(k[p])
          PROVE  /\ u.parentNode[k[p][i]] = p
                 /\ u.prevSibling[k[p][i]] = IF i = 1 THEN NULL ELSE k[p][i - 1]
                 /\ u.nextSibling[k[p][i]] = IF i = Len(k[p]) THEN NULL ELSE k[p][i + 1]
      <3>1. /\ g.parentNode[k[p][i]] = p
            /\ g.prevSibling[k[p][i]] = IF i = 1 THEN NULL ELSE k[p][i - 1]
            /\ g.nextSibling[k[p][i]] = IF i = Len(k[p]) THEN NULL ELSE k[p][i + 1]
        BY <2>2 DEF Row
      <3> QED BY <1>4, <2>3, <3>1
    <2>6. /\ u.firstChild[p] = IF Len(k[p]) = 0 THEN NULL ELSE k[p][1]
          /\ \A i, j \in 1..Len(k[p]) : k[p][i] = k[p][j] => i = j
      BY <2>1, <2>2 DEF Row
    <2>7. \A m \in Node : u.parentNode[m] = p => \E i \in 1..Len(k[p]) : k[p][i] = m
      BY <2>2, <2>4 DEF Row
    <2>8. Row(u, p, k[p])
      BY <2>5, <2>6, <2>7 DEF Row
    <2> QED BY <2>1, <2>8
  <1>11. \A m \in Node : u.parentNode[m] = NULL => u.nextSibling[m] = NULL /\ u.prevSibling[m] = NULL
    BY <1>1, <1>4
  <1>12. Shape(u, l)
    BY <1>8, <1>9, <1>10, <1>11 DEF Shape
  <1>13. PartOf(l, k)
    <2> SUFFICES ASSUME NEW q \in Node, NEW i \in 1..Len(l[q])
                 PROVE  \E j \in 1..Len(k[q]) : l[q][i] = k[q][j]
      BY DEF PartOf
    <2>1. CASE q \in S
      BY <1>7, <2>1
    <2>2. CASE q \notin S
      BY <1>7, <2>2
    <2> QED BY <2>1, <2>2
  <1>14. Acyclic(l)
    BY <1>13, PartAcyclic
  <1> QED BY <1>12, <1>14 DEF l, S

-----------------------------------------------------------------------------
(* The inductive invariant *)

\* Who has children and who is one exists, and the types fit.
Fit(k, nodes) ==
    \A p \in Node : \A i \in 1..Len(k[p]) :
       p \in nodes /\ k[p][i] \in nodes /\ Dom!MayHave(p, k[p][i])

IInv ==
    /\ live \in SUBSET Node
    /\ ownerDocument \in [Node -> Pointer]
    /\ Shape(tree, list)
    /\ Acyclic(list)
    /\ Fit(list, live)

\* A node that does not exist has no children and no parent.
LEMMA NotLive ==
    ASSUME IInv, NEW m \in Node, m \notin live
    PROVE  /\ list[m] = <<>>
           /\ tree.parentNode[m] = NULL /\ tree.firstChild[m] = NULL
           /\ tree.nextSibling[m] = NULL /\ tree.prevSibling[m] = NULL
  <1>1. Shape(tree, list) /\ list \in Kids
    BY DEF IInv, Shape
  <1>2. list[m] \in Seq(Node) /\ Len(list[m]) \in Nat
    BY <1>1, KidsTypes
  <1>3. Len(list[m]) = 0
    <2>1. Len(list[m]) # 0 => 1 \in 1..Len(list[m])
      BY <1>2
    <2> QED BY <2>1 DEF IInv, Fit
  <1>4. list[m] = <<>>
    BY <1>2, <1>3
  <1>5. tree.firstChild[m] = NULL
    BY <1>1, <1>3 DEF Shape, Row
  <1>6. tree.parentNode[m] = NULL
    <2>1. SUFFICES ASSUME tree.parentNode[m] # NULL PROVE FALSE
      OBVIOUS
    <2>2. /\ tree.parentNode[m] \in Node
          /\ \E i \in 1..Len(list[tree.parentNode[m]]) : list[tree.parentNode[m]][i] = m
      BY <1>1, <2>1, ShapeTypes
    <2> QED BY <2>2 DEF IInv, Fit
  <1>7. tree.nextSibling[m] = NULL /\ tree.prevSibling[m] = NULL
    BY <1>1, <1>6 DEF Shape
  <1> QED BY <1>4, <1>5, <1>6, <1>7

\* The invariant says what LinksAgree does.
LEMMA InvLinks ==
    ASSUME IInv
    PROVE  LinksAgree
  <1>1. /\ Shape(tree, list) /\ list \in Kids /\ tree \in Tree /\ live \in SUBSET Node
        /\ NULL \notin Node
    BY Nodes DEF IInv, Shape
  <1>2. ASSUME NEW m \in Node, tree.parentNode[m] # NULL
        PROVE  m \in live /\ tree.parentNode[m] \in live
    <2>1. /\ tree.parentNode[m] \in Node
          /\ \E i \in 1..Len(list[tree.parentNode[m]]) : list[tree.parentNode[m]][i] = m
      BY <1>1, <1>2, ShapeTypes
    <2> QED BY <2>1 DEF IInv, Fit
  <1>3. ASSUME NEW n \in live
        PROVE  /\ tree.parentNode[n] \in live \union {NULL}
               /\ tree.firstChild[n] \in live \union {NULL}
               /\ tree.nextSibling[n] \in live \union {NULL}
               /\ tree.prevSibling[n] \in live \union {NULL}
    <2>0. n \in Node
      BY <1>1
    <2>1. /\ tree.firstChild[n] # NULL =>
                tree.firstChild[n] \in Node /\ tree.parentNode[tree.firstChild[n]] = n
          /\ tree.nextSibling[n] # NULL =>
                /\ tree.nextSibling[n] \in Node
                /\ tree.parentNode[tree.nextSibling[n]] = tree.parentNode[n]
          /\ tree.prevSibling[n] # NULL =>
                /\ tree.prevSibling[n] \in Node
                /\ tree.parentNode[tree.prevSibling[n]] = tree.parentNode[n]
      BY <1>1, <2>0, PointersAgree
    <2>2. tree.parentNode[n] = NULL => tree.nextSibling[n] = NULL /\ tree.prevSibling[n] = NULL
      BY <1>1, <2>0 DEF Shape
    <2>3. tree.firstChild[n] # NULL => tree.firstChild[n] \in live
      BY <1>1, <1>2, <2>0, <2>1
    <2> QED BY <1>2, <2>0, <2>1, <2>2, <2>3
  <1>4. DOMAIN tree = {"parentNode", "firstChild", "nextSibling", "prevSibling"}
    BY <1>1 DEF Tree
  <1>5. \A f \in DOMAIN tree : \A n \in live : tree[f][n] \in live \union {NULL}
    BY <1>3, <1>4
  <1>6. ASSUME NEW p \in live, NEW c \in live
        PROVE  Contains(list[p], c) <=> tree.parentNode[c] = p
    <2>1. Row(tree, p, list[p]) /\ c \in Node
      BY <1>1 DEF Shape
    <2> QED BY <2>1 DEF Row, Contains
  <1>7. ASSUME NEW p \in live, NEW i \in DOMAIN list[p]
        PROVE  tree.prevSibling[list[p][i]] = IF i = 1 THEN NULL ELSE list[p][i - 1]
    <2>1. p \in Node /\ i \in 1..Len(list[p])
      BY <1>1, KidsTypes
    <2> QED BY <1>1, <2>1, Placed
  <1> QED BY <1>5, <1>6, <1>7 DEF LinksAgree

\* A reader finds the lists of which the pointers are.
LEMMA ListFollows ==
    ASSUME list' = [n \in Node |-> ChildList(tree', n)], NEW k, Shape(tree', k)
    PROVE  list' = k
  <1>1. k = [n \in Node |-> k[n]]
    BY DEF Shape, Kids
  <1>2. \A n \in Node : ChildList(tree', n) = k[n]
    BY ChildListIs
  <1> QED BY <1>1, <1>2

\* The parent of a node is not under it.
LEMMA OwnDescendant ==
    ASSUME NEW g, NEW k, Shape(g, k), Acyclic(k), NEW p \in Node, g.parentNode[p] \in Sub(k, p)
    PROVE  FALSE
  <1>1. PICK h : Under(k, h)
    BY DEF Acyclic
  <1>2. k \in Kids /\ Sub(k, p) \in SUBSET Node
    <2>1. k \in Kids
      BY DEF Shape
    <2> QED BY <2>1, SubLeast
  <1>3. g.parentNode[p] \in Node /\ g.parentNode[p] # NULL
    BY <1>2, Nodes
  <1>4. PICK i \in 1..Len(k[g.parentNode[p]]) : k[g.parentNode[p]][i] = p
    BY <1>3, ShapeTypes
  <1>5. h[p] < h[g.parentNode[p]] /\ h[p] \in Nat /\ h[g.parentNode[p]] \in Nat
    BY <1>1, <1>3, <1>4 DEF Under
  <1>6. g.parentNode[p] # p => h[g.parentNode[p]] < h[p]
    BY <1>1, <1>2, SubBelow
  <1>7. g.parentNode[p] # p
    BY <1>5
  <1> QED BY <1>5, <1>6, <1>7

\* What is under p has its parent there, and no pointer leads from it to p.
LEMMA BelowKept ==
    ASSUME NEW g, NEW k, Shape(g, k), Acyclic(k), NEW p \in Node
    PROVE  LET U == {m \in Sub(k, p) : m # p}
           IN  /\ U \in SUBSET Node /\ KeptIn(g, U)
               /\ \A m \in Node : g.parentNode[m] \in Sub(k, p) => m \in U
  <1> DEFINE U == {m \in Sub(k, p) : m # p}
  <1>1. k \in Kids /\ NULL \notin Node
    BY Nodes DEF Shape
  <1>2. Sub(k, p) \in SUBSET Node /\ p \in Sub(k, p) /\ Closed(k, Sub(k, p))
    BY <1>1, SubLeast
  <1>3. \A m \in Node : g.parentNode[m] \in Sub(k, p) => m \in U
    <2> SUFFICES ASSUME NEW m \in Node, g.parentNode[m] \in Sub(k, p) PROVE m \in U
      OBVIOUS
    <2>1. /\ g.parentNode[m] \in Node
          /\ \E i \in 1..Len(k[g.parentNode[m]]) : k[g.parentNode[m]][i] = m
      BY <1>1, <1>2, ShapeTypes
    <2>2. m \in Sub(k, p)
      BY <1>2, <2>1 DEF Closed
    <2>3. m # p
      BY <1>1, <2>1, OwnDescendant
    <2> QED BY <2>2, <2>3
  <1>4. \A m \in U : g.parentNode[m] \in Sub(k, p)
    BY SubParent
  <1> HIDE DEF U
  <1>5. U \in SUBSET Node
    BY <1>2 DEF U
  <1>6. KeptIn(g, U)
    <2> SUFFICES ASSUME NEW m \in U
                 PROVE  /\ g.firstChild[m] # NULL => g.firstChild[m] \in U
                        /\ g.nextSibling[m] # NULL => g.nextSibling[m] \in U
      BY DEF KeptIn
    <2>1. m \in Node /\ m \in Sub(k, p)
      BY <1>5 DEF U
    <2> QED BY <1>1, <1>3, <1>4, <2>1, PointersAgree
  <1> QED BY <1>3, <1>5, <1>6 DEF U

\* What the checks find out.
LEMMA CheckedRight ==
    ASSUME IInv, NEW p \in live, NEW c \in live, p # c, CarefulInsert(p, c)
    PROVE  /\ ixmlNode_isAncestor(tree, c, p) <=> p \in Sub(list, c)
           /\ ixmlNode_allowChildren(p, c) <=> Dom!MayHave(p, c)
  <1> DEFINE par == tree.parentNode[p]
             V == Visited(tree, c)
             k == list
             S == Sub(k, c)
  <1>1. /\ Shape(tree, k) /\ k \in Kids /\ tree \in Tree /\ p \in Node /\ c \in Node /\ NULL \notin Node
        /\ tree.parentNode[c] \in {NULL, p} /\ Acyclic(k)
    BY Nodes DEF IInv, Shape, CarefulInsert
  <1>2. /\ V \in SUBSET Node /\ c \in V /\ KeptIn(tree, V)
        /\ \A U \in SUBSET Node : c \in U /\ KeptIn(tree, U) => V \subseteq U
    BY <1>1, VisitedLeast
  <1> HIDE DEF V, k
  <1>3. S \in SUBSET Node /\ c \in S /\ Closed(k, S)
    BY <1>1, SubLeast DEF k
  <1>4. ASSUME p \in S PROVE par \in V
    <2>1. S \subseteq V
      <3>1. Closed(k, V)
        BY <1>1, <1>2, KeptClosed
      <3> QED BY <1>1, <1>2, <3>1, SubLeast DEF k
    <2>2. par \in S
      BY <1>1, <1>4, SubParent DEF k
    <2> QED BY <2>1, <2>2
  <1>5. ASSUME par \in V PROVE p \in S
    <2>1. par # NULL /\ par \in Node
      BY <1>1, <1>2, <1>5
    <2>2. \E i \in 1..Len(k[par]) : k[par][i] = p
      BY <1>1, <2>1, ShapeTypes
    <2>3. CASE tree.parentNode[c] = NULL
      <3>1. tree.nextSibling[c] = NULL
        BY <1>1, <2>3 DEF Shape
      <3>2. KeptIn(tree, S)
        BY <1>1, <3>1, SubKept DEF k
      <3>3. par \in S
        BY <1>2, <1>3, <1>5, <3>2
      <3> QED BY <1>3, <2>2, <3>3 DEF Closed
    <2>4. CASE tree.parentNode[c] = p
      <3> DEFINE U == {m \in Sub(k, p) : m # p}
      <3>1. p \in Sub(k, p)
        BY <1>1, SubLeast
      <3>2. /\ U \in SUBSET Node /\ KeptIn(tree, U)
            /\ \A m \in Node : tree.parentNode[m] \in Sub(k, p) => m \in U
        BY <1>1, BelowKept DEF k
      <3> HIDE DEF U
      <3>3. c \in U
        BY <1>1, <2>4, <3>1, <3>2
      <3>4. par \in U
        BY <1>2, <1>5, <3>2, <3>3
      <3>5. tree.parentNode[p] \in Sub(k, p)
        BY <3>4 DEF U
      <3>6. p \in U
        BY <1>1, <3>2, <3>5
      <3> QED BY <3>6 DEF U
    <2> QED BY <1>1, <2>3, <2>4
  <1>6. ixmlNode_isAncestor(tree, c, p) <=> p \in S
    BY <1>4, <1>5 DEF ixmlNode_isAncestor, V
  <1>7. ixmlNode_allowChildren(p, c) <=> Dom!MayHave(p, c)
    BY <1>1, IxmlAssumption DEF ixmlNode_allowChildren, Dom!MayHave, Node
  <1> QED BY <1>6, <1>7 DEF k

\* The lists without c have no new children, and only that of its parent differs.
LEMMA WithoutPart ==
    ASSUME NEW g, NEW k, Shape(g, k), NEW c \in Node
    PROVE  /\ PartOf(Without(k, c), k) /\ Without(k, c) \in Kids
           /\ \A q \in Node : g.parentNode[c] # q => Without(k, c)[q] = k[q]
  <1>1. k \in Kids /\ NULL \notin Node
    BY Nodes DEF Shape
  <1>2. CASE g.parentNode[c] = NULL
    <2>1. Without(k, c) = k
      BY <1>2, WithoutKids
    <2> QED BY <1>1, <2>1 DEF PartOf
  <1>3. CASE g.parentNode[c] # NULL
    <2> DEFINE p == g.parentNode[c]
    <2>1. p \in Node /\ \E i \in 1..Len(k[p]) : k[p][i] = c
      BY <1>3, ShapeTypes
    <2>2. PICK n \in 1..Len(k[p]) : k[p][n] = c
      BY <2>1
    <2> HIDE DEF p
    <2>3. Without(k, c) = [k EXCEPT ![p] = RemoveAt(k[p], n)]
      BY <2>1, <2>2, WithoutKids
    <2>4. k[p] \in Seq(Node) /\ Len(k[p]) \in Nat
      BY <1>1, <2>1, KidsTypes
    <2>5. /\ RemoveAt(k[p], n) \in Seq(Node) /\ Len(RemoveAt(k[p], n)) = Len(k[p]) - 1
          /\ \A i \in 1..(Len(k[p]) - 1) :
                RemoveAt(k[p], n)[i] = IF i < n THEN k[p][i] ELSE k[p][i + 1]
      BY <2>4, Removed
    <2> DEFINE l == Without(k, c)
    <2>6. /\ l \in Kids /\ l[p] = RemoveAt(k[p], n)
          /\ \A q \in Node : q # p => l[q] = k[q]
      BY <1>1, <2>1, <2>3, <2>5 DEF Kids
    <2> HIDE DEF l
    <2>7. ASSUME NEW q \in Node, NEW i \in 1..Len(l[q])
          PROVE  \E j \in 1..Len(k[q]) : l[q][i] = k[q][j]
      <3>1. CASE q = p
        <4> DEFINE j == IF i < n THEN i ELSE i + 1
        <4>1. i \in 1..(Len(k[p]) - 1) /\ l[q][i] = IF i < n THEN k[p][i] ELSE k[p][i + 1]
          BY <2>5, <2>6, <3>1
        <4>2. j \in 1..Len(k[p]) /\ l[q][i] = k[p][j]
          BY <2>4, <4>1
        <4> QED BY <3>1, <4>2
      <3>2. CASE q # p
        BY <2>6, <3>2
      <3> QED BY <3>1, <3>2
    <2>8. PartOf(l, k)
      BY <2>7 DEF PartOf
    <2> QED BY <2>6, <2>8 DEF l, p
  <1> QED BY <1>2, <1>3

\* c is taken out of the list of its parent, when that is p.
LEMMA Detaches ==
    ASSUME IInv, NEW p \in Node, NEW c \in Node, CarefulInsert(p, c),
           NEW d, d = Detached(tree, p, c)
    PROVE  /\ Shape(d, Without(list, c)) /\ d.parentNode[c] = NULL
           /\ \A m \in Node : m # c => d.parentNode[m] = tree.parentNode[m]
           /\ Acyclic(Without(list, c)) /\ Fit(Without(list, c), live)
           /\ PartOf(Without(list, c), list) /\ Without(list, c) \in Kids
           /\ \A q \in Node : q # p => Without(list, c)[q] = list[q]
  <1> DEFINE l == Without(list, c)
  <1>1. Shape(tree, list) /\ Acyclic(list) /\ Fit(list, live) /\ tree \in Tree /\ NULL \notin Node
    BY Nodes DEF IInv, Shape
  <1>2. /\ PartOf(l, list) /\ l \in Kids
        /\ \A q \in Node : tree.parentNode[c] # q => l[q] = list[q]
    BY <1>1, WithoutPart
  <1>3. Acyclic(l) /\ Fit(l, live)
    <2> HIDE DEF l
    <2>1. Fit(l, live)
      BY <1>1, <1>2 DEF Fit, PartOf
    <2> QED BY <1>1, <1>2, <2>1, PartAcyclic
  <1>4. tree.parentNode[c] \in {NULL, p}
    BY DEF CarefulInsert
  <1>5. CASE tree.parentNode[c] = NULL
    <2>1. d = tree
      BY <1>1, <1>5 DEF Detached, ixmlNode_isParent
    <2>2. l = list
      BY <1>1, <1>5, WithoutKids
    <2> QED BY <1>1, <1>2, <1>3, <1>5, <2>1, <2>2
  <1>6. CASE tree.parentNode[c] = p
    <2>1. d = Unlink(tree, p, c)
      BY <1>1, <1>6 DEF Detached, ixmlNode_isParent
    <2>2. PICK n \in 1..Len(list[p]) : list[p][n] = c
      BY <1>1, <1>6, ShapeTypes
    <2>3. l = [list EXCEPT ![p] = RemoveAt(list[p], n)]
      BY <1>1, <2>2, WithoutKids
    <2>4. Shape(Unlink(tree, p, list[p][n]), [list EXCEPT ![p] = RemoveAt(list[p], n)])
      BY <1>1, UnlinkedAt
    <2>5. Shape(d, l)
      BY <2>1, <2>2, <2>3, <2>4
    <2>6. d.parentNode = [tree.parentNode EXCEPT ![c] = NULL]
      BY <1>1, <2>1 DEF Unlink, Set
    <2>7. d.parentNode[c] = NULL /\ \A m \in Node : m # c => d.parentNode[m] = tree.parentNode[m]
      BY <1>1, <2>6 DEF Tree
    <2> QED BY <1>2, <1>3, <1>6, <2>5, <2>7
  <1> QED BY <1>4, <1>5, <1>6

\* What is left when a call succeeds.
LEMMA Returned ==
    ASSUME IInv, list' = [m \in Node |-> ChildList(tree', m)],
           NEW g, NEW k, Shape(g, k), Acyclic(k), Fit(k, live),
           NEW owner \in [Node -> Pointer], NEW n \in Pointer, n # NULL => g.parentNode[n] = NULL,
           NEW gone, gone = IF n = NULL THEN {} ELSE Sub(k, n),
           Returns(g, owner, n)
    PROVE  /\ IInv'
           /\ ret' = IXML_SUCCESS /\ live' = live \ gone /\ list' = Emptied(k, gone)
           /\ ownerDocument' = [m \in Node |-> IF m \in gone THEN NULL ELSE owner[m]]
  <1> DEFINE l == Emptied(k, gone)
  <1>1. /\ g \in Tree /\ k \in Kids /\ NULL \notin Node /\ live \in SUBSET Node
    BY Nodes DEF IInv, Shape
  <1>2. n # NULL => n \in Node /\ FreeWalk(g, n) \in Walks(g, k, n) /\ FreeWalk(g, n).freed = gone
    BY WalkEnds DEF Pointer
  <1>3. /\ ret' = IXML_SUCCESS /\ live' = live \ gone
        /\ ownerDocument' = [m \in Node |-> IF m \in gone THEN NULL ELSE owner[m]]
    BY <1>2 DEF Returns
  <1>4. Shape(tree', l) /\ Acyclic(l)
    <2>1. CASE n = NULL
      <3>1. tree' = [parentNode |-> [m \in Node |-> g.parentNode[m]],
                     firstChild |-> [m \in Node |-> g.firstChild[m]],
                     nextSibling |-> [m \in Node |-> g.nextSibling[m]],
                     prevSibling |-> [m \in Node |-> g.prevSibling[m]]]
        BY <2>1 DEF Returns
      <3>2. tree' = g
        BY <1>1, <3>1 DEF Tree
      <3>3. l = k
        BY <1>1, <2>1 DEF Emptied, Kids
      <3> QED BY <3>2, <3>3
    <2>2. CASE n # NULL
      <3> DEFINE w == FreeWalk(g, n).g
                 C(f) == [m \in Node |-> IF m \in gone THEN NULL ELSE f[m]]
      <3>1. tree' = [parentNode |-> C(w.parentNode), firstChild |-> C(w.firstChild),
                     nextSibling |-> C(w.nextSibling), prevSibling |-> C(w.prevSibling)]
        BY <1>2, <2>2 DEF Returns
      <3>2. w \in Tree
        BY <1>2, <2>2 DEF Walks
      <3>3. gone = Sub(k, n) /\ n \in Node /\ g.parentNode[n] = NULL
        BY <1>2, <2>2
      <3> HIDE DEF w
      <3>4. C(w.parentNode) \in [Node -> Pointer] /\ C(w.firstChild) \in [Node -> Pointer]
            /\ C(w.nextSibling) \in [Node -> Pointer] /\ C(w.prevSibling) \in [Node -> Pointer]
        BY <3>2 DEF Tree, Pointer
      <3>5. tree' \in Tree
        <4> HIDE DEF C
        <4> QED BY <3>1, <3>4 DEF Tree
      <3>6. \A f \in {"parentNode", "firstChild", "nextSibling", "prevSibling"} : \A m \in Node :
               tree'[f][m] = IF m \in gone THEN NULL ELSE w[f][m]
        BY <3>1
      <3>7. \A f \in {"parentNode", "firstChild", "nextSibling", "prevSibling"} : \A m \in Node :
               tree'[f][m] = IF m \in Sub(k, n) THEN NULL ELSE FreeWalk(g, n).g[f][m]
        BY <3>3, <3>6, Zenon DEF w
      <3>8. Shape(tree', Emptied(k, Sub(k, n))) /\ Acyclic(Emptied(k, Sub(k, n)))
        <4> HIDE DEF l
        <4> QED BY <3>3, <3>5, <3>7, FreedShape
      <3> QED BY <3>3, <3>8
    <2> QED BY <2>1, <2>2
  <1>5. list' = l
    BY <1>4, ListFollows
  <1>6. Fit(l, live')
    <2> SUFFICES ASSUME NEW p \in Node, NEW i \in 1..Len(l[p])
                 PROVE  p \in live' /\ l[p][i] \in live' /\ Dom!MayHave(p, l[p][i])
      BY DEF Fit
    <2>1. p \notin gone /\ l[p] = k[p]
      <3>1. l[p] = IF p \in gone THEN <<>> ELSE k[p]
        BY DEF Emptied
      <3>2. p \in gone => Len(l[p]) = 0
        BY <3>1
      <3> QED BY <3>1, <3>2
    <2>2. i \in 1..Len(k[p])
      BY <2>1
    <2> HIDE DEF l
    <2>3. p \in live /\ k[p][i] \in live /\ Dom!MayHave(p, k[p][i])
      BY <2>2 DEF Fit
    <2>4. k[p][i] \notin gone
      <3>1. CASE n = NULL
        BY <3>1
      <3>2. CASE n # NULL
        <4>1. g.parentNode[k[p][i]] = p
          BY <2>2, Placed
        <4>2. k[p][i] # n
          BY <1>1, <3>2, <4>1
        <4>3. n \in Node /\ gone = Sub(k, n)
          BY <1>2, <3>2
        <4> QED BY <2>1, <4>1, <4>2, <4>3, SubParent
      <3> QED BY <3>1, <3>2
    <2> QED BY <1>3, <2>1, <2>3, <2>4
  <1> HIDE DEF l
  <1>7. ownerDocument' \in [Node -> Pointer] /\ live' \in SUBSET Node
    BY <1>1, <1>3 DEF Pointer
  <1>8. IInv'
    BY <1>4, <1>5, <1>6, <1>7 DEF IInv
  <1> QED BY <1>3, <1>5, <1>8 DEF l

-----------------------------------------------------------------------------
(* The abstract tree's operators *)

\* Both modules have the same nodes.
LEMMA DomNode == Dom!Node = Node
  <1> QED BY DEF Dom!Node, Node

\* The abstract lists without c are those of Without(), which is about any lists.
LEMMA DomWithout ==
    ASSUME NEW c
    PROVE  Dom!Without(c) = Without(list, c)
  <1>1. \A s : Dom!RemoveFirst(s, c) = RemoveFirst(s, c)
    BY DEF Dom!RemoveFirst, RemoveFirst, Dom!RemoveAt, RemoveAt, Dom!SelectInSeq, SelectInSeq,
           Dom!Min, Min
  <1> QED BY <1>1, DomNode DEF Dom!Without, Without

\* A node is among the children of its parentNode.
LEMMA DomContains ==
    ASSUME NEW g, NEW k, Shape(g, k), NEW p \in Node, NEW c \in Node
    PROVE  Dom!Contains(k[p], c) <=> g.parentNode[c] = p
  <1>1. Row(g, p, k[p])
    BY DEF Shape
  <1> QED BY <1>1 DEF Dom!Contains, Row

\* NULL is nobody's child.
LEMMA NoNullChild ==
    ASSUME NEW g, NEW k, Shape(g, k), NEW p \in Node
    PROVE  ~Dom!Contains(k[p], NULL)
  <1>1. k \in Kids /\ NULL \notin Node
    BY Nodes DEF Shape
  <1>2. \A i \in 1..Len(k[p]) : k[p][i] \in Node
    BY <1>1, KidsTypes
  <1> QED BY <1>1, <1>2 DEF Dom!Contains

\* The abstract call that frees the nodes of gone.
LEMMA DomBecomes ==
    ASSUME NEW rest, NEW owner, NEW gone, live' = live \ gone, list' = Emptied(rest, gone),
           ownerDocument' = [m \in Node |-> IF m \in gone THEN NULL ELSE owner[m]]
    PROVE  Dom!Becomes(rest, owner, gone)
  <1> QED BY DomNode DEF Dom!Becomes, Emptied

\* What is left when a call succeeds that frees nothing.
LEMMA ReturnedAll ==
    ASSUME IInv, list' = [m \in Node |-> ChildList(tree', m)],
           NEW g, NEW k, Shape(g, k), Acyclic(k), Fit(k, live),
           NEW owner \in [Node -> Pointer], Returns(g, owner, NULL)
    PROVE  IInv' /\ ret' = IXML_SUCCESS /\ Dom!Becomes(k, owner, {})
  <1> DEFINE n == NULL
             gone == {}
  <1>1. /\ n \in Pointer /\ (n # NULL => g.parentNode[n] = NULL)
        /\ gone = (IF n = NULL THEN {} ELSE Sub(k, n)) /\ Returns(g, owner, n)
    BY DEF Pointer
  <1> HIDE DEF n, gone
  <1>2. /\ IInv' /\ ret' = IXML_SUCCESS /\ live' = live \ gone /\ list' = Emptied(k, gone)
        /\ ownerDocument' = [m \in Node |-> IF m \in gone THEN NULL ELSE owner[m]]
    BY <1>1, Returned, SMTT(30)
  <1>3. Dom!Becomes(k, owner, gone)
    BY <1>2, DomBecomes
  <1> QED BY <1>2, <1>3 DEF gone

\* What the two first checks refuse is what does not fit.
LEMMA DomUnfit ==
    ASSUME IInv, NEW p \in live, NEW c \in live, p # c, CarefulInsert(p, c)
    PROVE  Dom!Unfit(p, c) <=> ixmlNode_isAncestor(tree, c, p) \/ ~ixmlNode_allowChildren(p, c)
  <1>1. list \in Kids /\ c \in Node
    BY DEF IInv, Shape
  <1>2. Dom!Subtree(c) = Sub(list, c)
    BY <1>1, SubtreeIsSub
  <1> QED BY <1>2, CheckedRight DEF Dom!Unfit

\* A call that is refused changes nothing.
LEMMA RefusedStep ==
    ASSUME IInv, list' = [n \in Node |-> ChildList(tree', n)], NEW e, Refused(e)
    PROVE  IInv' /\ Dom!Refused(e)
  <1>1. /\ ret' = e /\ live' = live /\ tree' = tree /\ ownerDocument' = ownerDocument
    BY DEF Refused
  <1>2. Shape(tree', list)
    BY <1>1 DEF IInv
  <1>3. list' = list
    BY <1>2, ListFollows
  <1> QED BY <1>1, <1>3 DEF IInv, Dom!Refused

-----------------------------------------------------------------------------
(* The calls *)

\* ixmlDocument_createElement() and the like: a node without pointers.
LEMMA CreateStep ==
    ASSUME IInv, list' = [m \in Node |-> ChildList(tree', m)], NEW n \in Node, NEW d \in Node,
           Create(n, d)
    PROVE  IInv' /\ Dom!Create(n, d)
  <1>1. /\ n \notin live /\ live' = live \union {n} /\ tree' = tree /\ ret' = IXML_SUCCESS
        /\ ownerDocument' = [ownerDocument EXCEPT ![n] = d]
    BY DEF Create
  <1>2. Shape(tree', list)
    BY <1>1 DEF IInv
  <1>3. list' = list
    BY <1>2, ListFollows
  <1>4. Fit(list, live')
    BY <1>1 DEF IInv, Fit
  <1>5. ownerDocument' \in [Node -> Pointer] /\ live' \in SUBSET Node
    BY <1>1 DEF IInv, Pointer
  <1>6. IInv'
    BY <1>2, <1>3, <1>4, <1>5 DEF IInv
  <1>7. Dom!Create(n, d)
    BY <1>1, <1>3 DEF Dom!Create, Dom!Succeeds, Dom!SUCCESS, IXML_SUCCESS
  <1> QED BY <1>6, <1>7

\* ixmlNode_free() frees the subtree and nothing else.
LEMMA FreeStep ==
    ASSUME IInv, list' = [m \in Node |-> ChildList(tree', m)], NEW n \in live, ixmlNode_free(n)
    PROVE  IInv' /\ Dom!Free(n)
  <1>1. /\ Shape(tree, list) /\ Acyclic(list) /\ Fit(list, live) /\ list \in Kids
        /\ ownerDocument \in [Node -> Pointer] /\ n \in Node /\ n \in Pointer /\ NULL \notin Node
        /\ live \in SUBSET Node
    BY Nodes DEF IInv, Shape, Pointer
  <1>2. tree.parentNode[n] = NULL /\ Returns(tree, ownerDocument, n)
    BY DEF ixmlNode_free
  <1> DEFINE gone == Sub(list, n)
  <1>3. gone = IF n = NULL THEN {} ELSE Sub(list, n)
    BY <1>1
  <1> HIDE DEF gone
  <1>4. /\ IInv' /\ ret' = IXML_SUCCESS /\ live' = live \ gone /\ list' = Emptied(list, gone)
        /\ ownerDocument' = [m \in Node |-> IF m \in gone THEN NULL ELSE ownerDocument[m]]
    BY <1>1, <1>2, <1>3, Returned
  <1>5. Dom!Becomes(list, ownerDocument, Dom!Subtree(n))
    <2>1. Dom!Subtree(n) = gone
      BY <1>1, SubtreeIsSub DEF gone
    <2> QED BY <1>4, <2>1, DomBecomes
  <1>6. \A p \in live : ~Dom!Contains(list[p], n)
    BY <1>1, <1>2, DomContains
  <1> QED BY <1>4, <1>5, <1>6 DEF Dom!Free, Dom!Succeeds, Dom!SUCCESS, IXML_SUCCESS

\* What is under a child of p does not change when only the list of p does.
LEMMA SubOfChild ==
    ASSUME NEW g, NEW k, Shape(g, k), Acyclic(k), NEW p \in Node, NEW c \in Node,
           g.parentNode[c] = p, NEW l \in Kids, \A q \in Node : q # p => l[q] = k[q]
    PROVE  Sub(l, c) = Sub(k, c)
  <1>1. k \in Kids /\ Sub(k, c) \in SUBSET Node
    <2>1. k \in Kids
      BY DEF Shape
    <2> QED BY <2>1, SubLeast
  <1>2. p \notin Sub(k, c)
    BY OwnDescendant
  <1> QED BY <1>1, <1>2, SubSame

\* ixmlNode_removeChild() takes out a child and keeps or frees its subtree.
LEMMA RemoveStep ==
    ASSUME IInv, list' = [m \in Node |-> ChildList(tree', m)], NEW p \in live, NEW c \in live,
           NEW keep \in BOOLEAN, ixmlNode_removeChild(p, c, keep)
    PROVE  IInv' /\ Dom!RemoveChild(p, c, keep)
  <1>1. /\ Shape(tree, list) /\ Acyclic(list) /\ Fit(list, live) /\ list \in Kids
        /\ ownerDocument \in [Node -> Pointer] /\ c \in Node /\ p \in Node
        /\ NULL \notin Node /\ tree \in Tree
    BY Nodes DEF IInv, Shape
  <1>2. Dom!Contains(list[p], c) <=> tree.parentNode[c] = p
    BY <1>1, DomContains
  <1>3. CASE ~ixmlNode_isParent(tree, p, c)
    <2>1. Refused(IXML_NOT_FOUND_ERR)
      BY <1>3 DEF ixmlNode_removeChild
    <2>2. IInv' /\ Dom!Refused(IXML_NOT_FOUND_ERR)
      BY <2>1, RefusedStep
    <2>3. tree.parentNode[c] # p
      BY <1>1, <1>3 DEF ixmlNode_isParent
    <2> QED BY <1>2, <2>2, <2>3 DEF Dom!RemoveChild, Dom!NOT_FOUND, IXML_NOT_FOUND_ERR
  <1>4. CASE ixmlNode_isParent(tree, p, c)
    <2> DEFINE u == Unlink(tree, p, c)
               k == Without(list, c)
               n == IF keep THEN NULL ELSE c
               gone == IF n = NULL THEN {} ELSE Sub(k, n)
    <2>1. Returns(u, ownerDocument, n) /\ tree.parentNode[c] = p
      BY <1>4 DEF ixmlNode_removeChild, ixmlNode_isParent
    <2>2. u = Detached(tree, p, c) /\ CarefulInsert(p, c)
      BY <1>4, <2>1 DEF Detached, CarefulInsert
    <2>3. /\ Shape(u, k) /\ u.parentNode[c] = NULL /\ Acyclic(k) /\ Fit(k, live) /\ k \in Kids
          /\ \A q \in Node : q # p => k[q] = list[q]
      <3> HIDE DEF u, k
      <3> QED BY <1>1, <2>2, Detaches DEF u, k
    <2>4. n \in Pointer /\ (n # NULL => u.parentNode[n] = NULL)
      BY <1>1, <2>3 DEF Pointer
    <2>5. Sub(k, c) = Sub(list, c)
      <3> HIDE DEF k
      <3> QED BY <1>1, <2>1, <2>3, SubOfChild
    <2>6. gone = IF keep THEN {} ELSE Dom!Subtree(c)
      <3>1. Dom!Subtree(c) = Sub(list, c)
        BY <1>1, SubtreeIsSub
      <3> QED BY <1>1, <2>5, <3>1
    <2>0. gone = IF n = NULL THEN {} ELSE Sub(k, n)
      OBVIOUS
    <2> HIDE DEF u, k, n, gone
    <2>7. /\ IInv' /\ ret' = IXML_SUCCESS /\ live' = live \ gone /\ list' = Emptied(k, gone)
          /\ ownerDocument' = [m \in Node |-> IF m \in gone THEN NULL ELSE ownerDocument[m]]
      BY <1>1, <2>0, <2>1, <2>3, <2>4, Returned
    <2>8. Dom!Becomes(Dom!Without(c), ownerDocument, gone)
      <3>1. Dom!Without(c) = k
        BY DomWithout DEF k
      <3> QED BY <2>7, <3>1, DomBecomes
    <2> QED BY <1>2, <2>1, <2>6, <2>7, <2>8
         DEF Dom!RemoveChild, Dom!Succeeds, Dom!SUCCESS, IXML_SUCCESS
  <1> QED BY <1>3, <1>4

\* The list of p after c has come before its n-th node.
LEMMA InsertedKid ==
    ASSUME NEW k \in Kids, NEW p \in Node, NEW n \in 1..(Len(k[p]) + 1), NEW c \in Node
    PROVE  /\ InsertAt(k[p], n, c) \in Seq(Node)
           /\ Len(InsertAt(k[p], n, c)) = Len(k[p]) + 1
           /\ \A i \in 1..(Len(k[p]) + 1) : InsertAt(k[p], n, c)[i] =
                 IF i < n THEN k[p][i] ELSE IF i = n THEN c ELSE k[p][i - 1]
  <1> DEFINE s == k[p]
  <1>1. s \in Seq(Node) /\ n \in 1..(Len(s) + 1)
    BY KidsTypes
  <1> HIDE DEF s
  <1>2. /\ InsertAt(s, n, c) \in Seq(Node)
        /\ Len(InsertAt(s, n, c)) = Len(s) + 1
        /\ \A i \in 1..(Len(s) + 1) : InsertAt(s, n, c)[i] =
              IF i < n THEN s[i] ELSE IF i = n THEN c ELSE s[i - 1]
    BY <1>1, Inserted
  <1> QED BY <1>2 DEF s

\* c comes among the children of p.
LEMMA InsertFits ==
    ASSUME NEW k \in Kids, Acyclic(k), NEW nodes, Fit(k, nodes),
           NEW p \in Node, NEW c \in Node, p \in nodes, c \in nodes, p \notin Sub(k, c),
           Dom!MayHave(p, c), NEW n \in 1..(Len(k[p]) + 1)
    PROVE  LET l == [k EXCEPT ![p] = InsertAt(k[p], n, c)]
           IN  l \in Kids /\ Acyclic(l) /\ Fit(l, nodes)
  <1> DEFINE r == InsertAt(k[p], n, c)
             l == [k EXCEPT ![p] = r]
  <1>1. k[p] \in Seq(Node) /\ Len(k[p]) \in Nat
    BY KidsTypes
  <1>2. /\ r \in Seq(Node) /\ Len(r) = Len(k[p]) + 1
        /\ \A i \in 1..(Len(k[p]) + 1) :
              r[i] = IF i < n THEN k[p][i] ELSE IF i = n THEN c ELSE k[p][i - 1]
    BY InsertedKid
  <1> HIDE DEF r
  <1>3. l \in Kids /\ l[p] = r /\ \A q \in Node : q # p => l[q] = k[q]
    BY <1>2 DEF Kids
  <1> HIDE DEF l
  <1>4. ASSUME NEW q \in Node, NEW i \in 1..Len(l[q])
        PROVE  (q = p /\ l[q][i] = c) \/ \E j \in 1..Len(k[q]) : l[q][i] = k[q][j]
    <2>1. CASE q = p
      <3>1. i \in 1..(Len(k[p]) + 1)
        BY <1>2, <1>3, <2>1
      <3>2. CASE i < n
        <4>1. i \in 1..Len(k[p]) /\ l[q][i] = k[p][i]
          BY <1>1, <1>2, <1>3, <2>1, <3>1, <3>2
        <4> QED BY <2>1, <4>1
      <3>3. CASE i = n
        BY <1>2, <1>3, <2>1, <3>1, <3>3
      <3>4. CASE i > n
        <4>1. i - 1 \in 1..Len(k[p]) /\ l[q][i] = k[p][i - 1]
          BY <1>1, <1>2, <1>3, <2>1, <3>1, <3>4
        <4> QED BY <2>1, <4>1
      <3> QED BY <1>1, <3>1, <3>2, <3>3, <3>4
    <2>2. CASE q # p
      BY <1>3, <2>2
    <2> QED BY <2>1, <2>2
  <1>5. Acyclic(l)
    BY <1>3, <1>4, InsertedAcyclic, ZenonT(40)
  <1>6. Fit(l, nodes)
    BY <1>4 DEF Fit
  <1> QED BY <1>3, <1>5, <1>6 DEF l, r

\* The old child goes out of the place after the new one.
LEMMA ReplacedIs ==
    ASSUME NEW s \in Seq(Node), NEW n \in 1..Len(s), NEW c \in Node,
           \A i \in 1..Len(s) : s[i] = s[n] => i = n
    PROVE  RemoveAt(InsertAt(s, n, c), n + 1) = ReplaceAll(s, s[n], c)
  <1> DEFINE r == InsertAt(s, n, c)
             t == RemoveAt(r, n + 1)
             u == ReplaceAll(s, s[n], c)
  <1>0. Len(s) \in Nat /\ n \in Nat /\ n \in 1..(Len(s) + 1)
    OBVIOUS
  <1>1. /\ r \in Seq(Node) /\ Len(r) = Len(s) + 1
        /\ \A i \in 1..(Len(s) + 1) : r[i] = IF i < n THEN s[i] ELSE IF i = n THEN c ELSE s[i - 1]
    BY <1>0, Inserted
  <1> HIDE DEF r
  <1>2. n + 1 \in 1..Len(r)
    BY <1>0, <1>1
  <1>3. /\ t \in Seq(Node) /\ Len(t) = Len(r) - 1
        /\ \A i \in 1..(Len(r) - 1) : t[i] = IF i < n + 1 THEN r[i] ELSE r[i + 1]
    BY <1>1, <1>2, Removed
  <1>4. u = [i \in 1..Len(s) |-> IF s[i] = s[n] THEN c ELSE s[i]]
    BY DEF ReplaceAll
  <1>5. u \in Seq(Node) /\ Len(u) = Len(s) /\ \A i \in 1..Len(s) : u[i] = IF i = n THEN c ELSE s[i]
    <2>1. \A i \in 1..Len(s) : (IF s[i] = s[n] THEN c ELSE s[i]) \in Node
      OBVIOUS
    <2>2. [i \in 1..Len(s) |-> IF s[i] = s[n] THEN c ELSE s[i]] \in [1..Len(s) -> Node]
      BY <2>1
    <2> HIDE DEF u
    <2>3. u \in [1..Len(s) -> Node]
      BY <1>4, <2>2
    <2>4. u \in Seq(Node) /\ Len(u) = Len(s)
      BY <1>0, <2>3
    <2>5. \A i \in 1..Len(s) : u[i] = IF i = n THEN c ELSE s[i]
      BY <1>4
    <2> QED BY <2>4, <2>5
  <1> HIDE DEF t, u
  <1>6. ASSUME NEW i \in 1..Len(s) PROVE t[i] = u[i]
    <2>1. i \in 1..(Len(r) - 1) /\ i \in 1..(Len(s) + 1) /\ i + 1 \in 1..(Len(s) + 1)
      BY <1>0, <1>1
    <2>2. CASE i < n + 1
      <3>1. t[i] = r[i]
        BY <1>3, <2>1, <2>2
      <3> QED BY <1>0, <1>1, <1>5, <2>1, <2>2, <3>1
    <2>3. CASE ~(i < n + 1)
      <3>1. t[i] = r[i + 1] /\ ~(i + 1 < n) /\ i + 1 # n /\ (i + 1) - 1 = i /\ i # n
        BY <1>0, <1>3, <2>1, <2>3
      <3> QED BY <1>0, <1>1, <1>5, <2>1, <3>1
    <2> QED BY <2>2, <2>3
  <1>7. Len(t) = Len(s)
    BY <1>0, <1>1, <1>3
  <1>8. t = u
    BY <1>3, <1>5, <1>6, <1>7, SeqEqual
  <1> QED BY <1>8 DEF t, u, r

\* ixmlNode_appendChild() puts c last, or refuses it.
LEMMA AppendStep ==
    ASSUME IInv, list' = [m \in Node |-> ChildList(tree', m)], NEW p \in live, NEW c \in live,
           p # c, CarefulInsert(p, c), ixmlNode_appendChild(p, c)
    PROVE  IInv' /\ Dom!AppendChild(p, c)
  <1>1. /\ Shape(tree, list) /\ Acyclic(list) /\ Fit(list, live) /\ list \in Kids
        /\ ownerDocument \in [Node -> Pointer] /\ c \in Node /\ p \in Node
        /\ NULL \notin Node /\ tree \in Tree
    BY Nodes DEF IInv, Shape
  <1>2. Dom!Unfit(p, c) <=> ixmlNode_isAncestor(tree, c, p) \/ ~ixmlNode_allowChildren(p, c)
    BY <1>1, DomUnfit
  <1>3. CASE ownerDocument[c] # NULL /\ ownerDocument[p] # ownerDocument[c]
    <2>1. Refused(IXML_WRONG_DOCUMENT_ERR)
      BY <1>3 DEF ixmlNode_appendChild
    <2>2. IInv' /\ Dom!Refused(IXML_WRONG_DOCUMENT_ERR)
      BY <2>1, RefusedStep
    <2> QED BY <1>3, <2>2 DEF Dom!AppendChild, Dom!WRONG_DOCUMENT, IXML_WRONG_DOCUMENT_ERR,
                              Dom!Foreign, Dom!Orphan
  <1>4. CASE /\ ~(ownerDocument[c] # NULL /\ ownerDocument[p] # ownerDocument[c])
             /\ ixmlNode_isAncestor(tree, c, p) \/ ~ixmlNode_allowChildren(p, c)
    <2>1. Refused(IXML_HIERARCHY_REQUEST_ERR)
      BY <1>4 DEF ixmlNode_appendChild
    <2>2. IInv' /\ Dom!Refused(IXML_HIERARCHY_REQUEST_ERR)
      BY <2>1, RefusedStep
    <2> QED BY <1>2, <1>4, <2>2 DEF Dom!AppendChild, Dom!HIERARCHY, IXML_HIERARCHY_REQUEST_ERR
  <1>5. CASE /\ ~(ownerDocument[c] # NULL /\ ownerDocument[p] # ownerDocument[c])
             /\ ~(ixmlNode_isAncestor(tree, c, p) \/ ~ixmlNode_allowChildren(p, c))
    <2> DEFINE d == Detached(tree, p, c)
               k == Without(list, c)
               u == LinkLast(d, p, c)
               l == [k EXCEPT ![p] = Append(k[p], c)]
               owner == [ownerDocument EXCEPT ![c] = ownerDocument[p]]
    <2>1. Returns(u, owner, NULL)
      BY <1>5 DEF ixmlNode_appendChild
    <2> HIDE DEF d, k, u, l, owner
    <2>2. /\ Shape(d, k) /\ d.parentNode[c] = NULL /\ Acyclic(k) /\ Fit(k, live) /\ k \in Kids
          /\ PartOf(k, list)
      BY <1>1, Detaches DEF d, k
    <2>3. p \notin Sub(list, c) /\ Dom!MayHave(p, c)
      BY <1>1, <1>5, CheckedRight
    <2>4. p \notin Sub(k, c)
      BY <1>1, <2>2, <2>3, PartSub
    <2>5. Shape(u, l)
      BY <1>1, <2>2, LinkedLast DEF u, l
    <2>6. Acyclic(l) /\ Fit(l, live)
      <3>1. k[p] \in Seq(Node) /\ Len(k[p]) + 1 \in 1..(Len(k[p]) + 1)
        BY <1>1, <2>2, KidsTypes
      <3>2. InsertAt(k[p], Len(k[p]) + 1, c) = Append(k[p], c)
        BY <1>1, <3>1, Appended
      <3> DEFINE j == [k EXCEPT ![p] = InsertAt(k[p], Len(k[p]) + 1, c)]
      <3>3. Acyclic(j) /\ Fit(j, live)
        BY <1>1, <2>2, <2>3, <2>4, <3>1, InsertFits
      <3> QED BY <3>2, <3>3 DEF l
    <2>7. owner \in [Node -> Pointer]
      BY <1>1 DEF owner, Pointer
    <2>8. IInv' /\ ret' = IXML_SUCCESS /\ Dom!Becomes(l, owner, {})
      BY <2>1, <2>5, <2>6, <2>7, ReturnedAll
    <2>9. Dom!Becomes([Dom!Without(c) EXCEPT ![p] = Append(@, c)], Dom!Adopted(p, c), {})
      <3>1. Dom!Without(c) = k
        BY DomWithout DEF k
      <3> QED BY <2>8, <3>1 DEF l, owner, Dom!Adopted
    <2>10. (Dom!Foreign(p, c) => Dom!Orphan(c)) /\ ~Dom!Unfit(p, c)
      BY <1>2, <1>5 DEF Dom!Foreign, Dom!Orphan
    <2> QED BY <2>8, <2>9, <2>10 DEF Dom!AppendChild, Dom!Succeeds, Dom!SUCCESS, IXML_SUCCESS
  <1> QED BY <1>3, <1>4, <1>5

\* What a check refuses is refused for an error that applies.
LEMMA InsertRefusedStep ==
    ASSUME IInv, list' = [m \in Node |-> ChildList(tree', m)], NEW p \in live, NEW c \in live,
           NEW ref \in live \union {NULL}, p # c, CarefulInsert(p, c),
           InsertError(p, c, ref) # IXML_SUCCESS, Refused(InsertError(p, c, ref))
    PROVE  IInv' /\ Dom!InsertRefused(p, c, ref)
  <1> DEFINE e == InsertError(p, c, ref)
  <1>1. /\ Shape(tree, list) /\ p \in Node /\ NULL \notin Node
        /\ ref # NULL => ref \in Node
    BY Nodes DEF IInv
  <1>2. IInv' /\ Dom!Refused(e)
    BY RefusedStep
  <1>3. Dom!Unfit(p, c) <=> ixmlNode_isAncestor(tree, c, p) \/ ~ixmlNode_allowChildren(p, c)
    BY DomUnfit
  <1>4. Dom!Contains(list[p], ref) <=> ixmlNode_isParent(tree, p, ref)
    <2>1. CASE ref = NULL
      <3>1. ~Dom!Contains(list[p], NULL)
        BY <1>1, NoNullChild
      <3> QED BY <2>1, <3>1 DEF ixmlNode_isParent
    <2>2. CASE ref # NULL
      BY <1>1, <2>2, DomContains DEF ixmlNode_isParent
    <2> QED BY <2>1, <2>2
  <1>5. \/ e = Dom!HIERARCHY /\ Dom!Unfit(p, c)
        \/ e = Dom!WRONG_DOCUMENT /\ Dom!Foreign(p, c)
        \/ e = Dom!NOT_FOUND /\ ~Dom!Contains(list[p], ref)
    BY <1>3, <1>4 DEF InsertError, Dom!HIERARCHY, IXML_HIERARCHY_REQUEST_ERR, Dom!WRONG_DOCUMENT,
                      IXML_WRONG_DOCUMENT_ERR, Dom!NOT_FOUND, IXML_NOT_FOUND_ERR, Dom!Foreign
  <1> HIDE DEF e
  <1> QED BY <1>2, <1>5 DEF Dom!InsertRefused

\* What passes the checks is taken.
LEMMA InsertChecked ==
    ASSUME IInv, NEW p \in live, NEW c \in live, NEW ref \in live, p # c, CarefulInsert(p, c),
           c # ref, InsertError(p, c, ref) = IXML_SUCCESS
    PROVE  /\ p \notin Sub(list, c) /\ Dom!MayHave(p, c)
           /\ tree.parentNode[ref] = p /\ ownerDocument[p] = ownerDocument[c]
           /\ ret' = IXML_SUCCESS => Dom!InsertTaken(p, c, ref)
  <1>1. Shape(tree, list) /\ p \in Node /\ ref \in Node /\ ownerDocument \in [Node -> Pointer]
    BY DEF IInv
  <1>2. /\ ixmlNode_allowChildren(p, c) /\ ~ixmlNode_isAncestor(tree, c, p)
        /\ ownerDocument[p] = ownerDocument[c] /\ ixmlNode_isParent(tree, p, ref)
    BY DEF InsertError, IXML_HIERARCHY_REQUEST_ERR, IXML_WRONG_DOCUMENT_ERR, IXML_NOT_FOUND_ERR,
           IXML_SUCCESS
  <1>3. p \notin Sub(list, c) /\ Dom!MayHave(p, c)
    BY <1>2, CheckedRight
  <1>4. tree.parentNode[ref] = p
    BY <1>2 DEF ixmlNode_isParent
  <1>5. ~Dom!Unfit(p, c)
    BY <1>2, DomUnfit
  <1>6. Dom!Contains(list[p], ref)
    BY <1>1, <1>4, DomContains
  <1>7. ret' = IXML_SUCCESS => Dom!InsertTaken(p, c, ref)
    BY <1>2, <1>5, <1>6 DEF Dom!InsertTaken, Dom!Succeeds, Dom!SUCCESS, IXML_SUCCESS, Dom!Foreign
  <1> QED BY <1>2, <1>3, <1>4, <1>7

\* c is put before ref, wherever it was among the children of p.
LEMMA PutIn ==
    ASSUME IInv, NEW p \in live, NEW c \in live, NEW ref \in live, p # c, CarefulInsert(p, c),
           c # ref, InsertError(p, c, ref) = IXML_SUCCESS,
           NEW k, k = Without(list, c)
    PROVE  /\ k \in Kids
           /\ \E n \in 1..Len(k[p]) :
                /\ k[p][n] = ref /\ \A i \in 1..Len(k[p]) : k[p][i] = ref => i = n
                /\ Shape(LinkBefore(Detached(tree, p, c), p, c, ref),
                         [k EXCEPT ![p] = InsertAt(k[p], n, c)])
                /\ Acyclic([k EXCEPT ![p] = InsertAt(k[p], n, c)])
                /\ Fit([k EXCEPT ![p] = InsertAt(k[p], n, c)], live)
  <1> DEFINE d == Detached(tree, p, c)
  <1>1. /\ Shape(tree, list) /\ Acyclic(list) /\ list \in Kids /\ c \in Node /\ p \in Node
        /\ ref \in Node /\ NULL \notin Node
    BY Nodes DEF IInv, Shape
  <1>2. d = Detached(tree, p, c)
    OBVIOUS
  <1> HIDE DEF d
  <1>3. /\ Shape(d, k) /\ d.parentNode[c] = NULL
        /\ \A m \in Node : m # c => d.parentNode[m] = tree.parentNode[m]
        /\ Acyclic(k) /\ Fit(k, live) /\ PartOf(k, list) /\ k \in Kids
    BY <1>1, <1>2, Detaches
  <1>4. p \notin Sub(list, c) /\ Dom!MayHave(p, c) /\ tree.parentNode[ref] = p
    BY InsertChecked
  <1>5. p \notin Sub(k, c)
    BY <1>1, <1>3, <1>4, PartSub
  <1>6. d.parentNode[ref] = p
    BY <1>1, <1>3, <1>4
  <1>7. PICK n \in 1..Len(k[p]) : k[p][n] = ref
    BY <1>1, <1>3, <1>6, ShapeTypes
  <1>8. \A i \in 1..Len(k[p]) : k[p][i] = ref => i = n
    BY <1>1, <1>3, <1>7, Placed
  <1>9. Shape(LinkBefore(d, p, c, k[p][n]), [k EXCEPT ![p] = InsertAt(k[p], n, c)])
    BY <1>1, <1>3, LinkedBefore
  <1>10. n \in 1..(Len(k[p]) + 1)
    BY <1>1, <1>3, KidsTypes
  <1>11. /\ Acyclic([k EXCEPT ![p] = InsertAt(k[p], n, c)])
         /\ Fit([k EXCEPT ![p] = InsertAt(k[p], n, c)], live)
    BY <1>1, <1>3, <1>4, <1>5, <1>10, InsertFits
  <1> QED BY <1>2, <1>3, <1>7, <1>8, <1>9, <1>11

\* ixmlNode_insertBefore() puts c before ref, or refuses it.
LEMMA InsertStep ==
    ASSUME IInv, list' = [m \in Node |-> ChildList(tree', m)], NEW p \in live, NEW c \in live,
           NEW ref \in live \union {NULL}, p # c, CarefulInsert(p, c), c # ref,
           ixmlNode_insertBefore(p, c, ref)
    PROVE  IInv' /\ Dom!InsertBefore(p, c, ref)
  <1>1. InsertError(p, c, ref) = IXML_SUCCESS => ref \in live
    BY DEF InsertError, ixmlNode_isParent, IXML_HIERARCHY_REQUEST_ERR, IXML_WRONG_DOCUMENT_ERR,
           IXML_NOT_FOUND_ERR, IXML_SUCCESS
  <1>2. CASE InsertError(p, c, ref) # IXML_SUCCESS
    <2>1. Refused(InsertError(p, c, ref))
      BY <1>2 DEF ixmlNode_insertBefore
    <2>2. IInv' /\ Dom!InsertRefused(p, c, ref)
      BY <1>2, <2>1, InsertRefusedStep
    <2> QED BY <2>2 DEF Dom!InsertBefore
  <1>3. CASE InsertError(p, c, ref) = IXML_SUCCESS
    <2> DEFINE k == Without(list, c)
               u == LinkBefore(Detached(tree, p, c), p, c, ref)
               l(n) == [k EXCEPT ![p] = InsertAt(k[p], n, c)]
    <2>1. Returns(u, ownerDocument, NULL)
      BY <1>3 DEF ixmlNode_insertBefore
    <2>2. ownerDocument \in [Node -> Pointer] /\ NULL \in Pointer /\ p \in Node
      BY DEF IInv, Pointer
    <2>3. k = Without(list, c)
      OBVIOUS
    <2> HIDE DEF k, u
    <2>4. /\ k \in Kids
          /\ \E n \in 1..Len(k[p]) :
               /\ k[p][n] = ref /\ \A i \in 1..Len(k[p]) : k[p][i] = ref => i = n
               /\ Shape(u, l(n)) /\ Acyclic(l(n)) /\ Fit(l(n), live)
      BY <1>1, <1>3, <2>3, PutIn DEF u
    <2>5. PICK n \in 1..Len(k[p]) :
             /\ k[p][n] = ref /\ \A i \in 1..Len(k[p]) : k[p][i] = ref => i = n
             /\ Shape(u, l(n)) /\ Acyclic(l(n)) /\ Fit(l(n), live)
      BY <2>4
    <2> DEFINE r == l(n)
    <2>6. Shape(u, r) /\ Acyclic(r) /\ Fit(r, live)
      BY <2>5
    <2>7. r = [k EXCEPT ![p] = InsertAt(k[p], n, c)]
      OBVIOUS
    <2> HIDE DEF r, l
    <2>9. IInv' /\ ret' = IXML_SUCCESS /\ Dom!Becomes(r, ownerDocument, {})
      BY <2>1, <2>2, <2>6, ReturnedAll
    <2>11. Dom!PutBefore(k[p], c, ref) = InsertAt(k[p], n, c)
      <3>1. DOMAIN k[p] = 1..Len(k[p])
        BY <2>2, <2>4, KidsTypes
      <3>2. (CHOOSE i \in DOMAIN k[p] : k[p][i] = ref) = n
        BY <2>5, <3>1
      <3> QED BY <3>2 DEF Dom!PutBefore, Dom!InsertAt, InsertAt
    <2>12. [Dom!Without(c) EXCEPT ![p] = Dom!PutBefore(@, c, ref)] = r
      <3>1. Dom!Without(c) = k
        BY <2>3, DomWithout
      <3> QED BY <2>7, <2>11, <3>1
    <2>13. Dom!InsertTaken(p, c, ref)
      BY <1>1, <1>3, <2>9, InsertChecked
    <2> QED BY <2>9, <2>12, <2>13 DEF Dom!InsertBefore
  <1> QED BY <1>2, <1>3

\* The new child takes the place of the old one.
LEMMA Replaces ==
    ASSUME IInv, NEW p \in live, NEW c \in live, NEW old \in live, p # c, CarefulInsert(p, c),
           c # old, InsertError(p, c, old) = IXML_SUCCESS
    PROVE  LET k == Without(list, c)
               l == [k EXCEPT ![p] = ReplaceAll(k[p], old, c)]
               u == Unlink(LinkBefore(Detached(tree, p, c), p, c, old), p, old)
           IN  /\ Shape(u, l) /\ u.parentNode[old] = NULL /\ Acyclic(l) /\ Fit(l, live)
               /\ Sub(l, old) = Sub(list, old)
  <1> DEFINE k == Without(list, c)
             l == [k EXCEPT ![p] = ReplaceAll(k[p], old, c)]
             u == Unlink(LinkBefore(Detached(tree, p, c), p, c, old), p, old)
  <1>0. k = Without(list, c) /\ l = [k EXCEPT ![p] = ReplaceAll(k[p], old, c)]
    OBVIOUS
  <1> DEFINE g == LinkBefore(Detached(tree, p, c), p, c, old)
             s == k[p]
             r(n) == [k EXCEPT ![p] = InsertAt(k[p], n, c)]
  <1>1. /\ Shape(tree, list) /\ Acyclic(list) /\ list \in Kids /\ c \in Node /\ p \in Node
        /\ old \in Node /\ NULL \notin Node
    BY Nodes DEF IInv, Shape
  <1>2. u = Unlink(g, p, old)
    OBVIOUS
  <1> HIDE DEF g, u, l, k
  <1>3. /\ k \in Kids
        /\ \E n \in 1..Len(k[p]) :
             /\ k[p][n] = old /\ \A i \in 1..Len(k[p]) : k[p][i] = old => i = n
             /\ Shape(g, r(n)) /\ Acyclic(r(n)) /\ Fit(r(n), live)
    BY <1>0, PutIn DEF g
  <1>4. PICK n \in 1..Len(k[p]) :
             /\ k[p][n] = old /\ \A i \in 1..Len(k[p]) : k[p][i] = old => i = n
             /\ Shape(g, r(n)) /\ Acyclic(r(n)) /\ Fit(r(n), live)
    BY <1>3
  <1>5. s = k[p]
    OBVIOUS
  <1>6. s \in Seq(Node) /\ Len(s) \in Nat /\ n \in 1..Len(s) /\ n \in 1..(Len(s) + 1)
    BY <1>1, <1>3, KidsTypes
  <1> DEFINE t == InsertAt(s, n, c)
             m == [k EXCEPT ![p] = t]
  <1>7. Shape(g, m) /\ Acyclic(m) /\ Fit(m, live)
    BY <1>4
  <1> HIDE DEF r, s
  <1>8. /\ t \in Seq(Node) /\ Len(t) = Len(s) + 1
        /\ \A i \in 1..(Len(s) + 1) : t[i] = IF i < n THEN s[i] ELSE IF i = n THEN c ELSE s[i - 1]
    BY <1>1, <1>6, Inserted
  <1>9. t[n + 1] = old /\ n + 1 \in 1..Len(t)
    <2>1. n + 1 \in 1..(Len(s) + 1) /\ ~(n + 1 < n) /\ n + 1 # n /\ (n + 1) - 1 = n
      BY <1>6
    <2>2. t[n + 1] = s[n]
      BY <1>8, <2>1
    <2> QED BY <1>4, <1>5, <1>8, <2>1, <2>2
  <1>10. RemoveAt(t, n + 1) = ReplaceAll(s, s[n], c)
    <2>1. \A i \in 1..Len(s) : s[i] = s[n] => i = n
      BY <1>4, <1>5
    <2> QED BY <1>1, <1>6, <2>1, ReplacedIs
  <1> HIDE DEF t
  <1>11. /\ m \in Kids /\ m[p] = t /\ \A q \in Node : q # p => m[q] = k[q]
    BY <1>1, <1>3, <1>8 DEF Kids
  <1>12. l = [m EXCEPT ![p] = RemoveAt(m[p], n + 1)]
    <2>1. l = [k EXCEPT ![p] = RemoveAt(t, n + 1)]
      BY <1>0, <1>4, <1>5, <1>10
    <2> QED BY <1>1, <1>3, <1>11, <2>1 DEF Kids
  <1> DEFINE j == n + 1
  <1>13. j = n + 1 /\ j \in 1..Len(m[p]) /\ m[p][j] = old
    BY <1>9, <1>11
  <1> HIDE DEF m, j
  <1>14. Shape(Unlink(g, p, m[p][j]), [m EXCEPT ![p] = RemoveAt(m[p], j)])
    BY <1>1, <1>7, <1>13, UnlinkedAt
  <1>15. Shape(u, l)
    BY <1>2, <1>12, <1>13, <1>14
  <1>16. l = Without(m, old)
    BY <1>1, <1>7, <1>12, <1>13, WithoutKids
  <1>17. PartOf(l, m) /\ l \in Kids
    <2>1. PartOf(Without(m, old), m) /\ Without(m, old) \in Kids
      BY <1>1, <1>7, WithoutPart
    <2> QED BY <1>16, <2>1
  <1>18. Acyclic(l) /\ Fit(l, live)
    <2>1. Acyclic(l)
      BY <1>7, <1>17, PartAcyclic
    <2>2. Fit(l, live)
      BY <1>7, <1>17 DEF Fit, PartOf
    <2> QED BY <2>1, <2>2
  <1>19. u.parentNode[old] = NULL
    <2>1. g \in Tree
      BY <1>7 DEF Shape
    <2>2. u.parentNode = [g.parentNode EXCEPT ![old] = NULL]
      BY <1>1, <1>2 DEF Unlink, Set
    <2> QED BY <1>1, <2>1, <2>2 DEF Tree
  <1>20. Sub(l, old) = Sub(list, old)
    <2>1. tree.parentNode[old] = p
      BY InsertChecked
    <2>2. \A q \in Node : q # p => k[q] = list[q]
      <3>1. \A q \in Node : q # p => Without(list, c)[q] = list[q]
        BY <1>1, Detaches
      <3> QED BY <1>0, <3>1
    <2>3. \A q \in Node : q # p => l[q] = list[q]
      BY <1>0, <1>3, <2>2 DEF Kids
    <2>4. ASSUME NEW z \in Kids, \A q \in Node : q # p => z[q] = list[q]
          PROVE  Sub(z, old) = Sub(list, old)
      BY <1>1, <2>1, <2>4, SubOfChild
    <2> QED BY <1>17, <2>3, <2>4
  <1> QED BY <1>15, <1>18, <1>19, <1>20 DEF k, l, u

\* ixmlNode_replaceChild() puts c in the place of old, which it keeps or frees.
LEMMA ReplaceStep ==
    ASSUME IInv, list' = [m \in Node |-> ChildList(tree', m)], NEW p \in live, NEW c \in live,
           NEW old \in live, NEW keep \in BOOLEAN, p # c, CarefulInsert(p, c), c # old,
           ixmlNode_replaceChild(p, c, old, keep)
    PROVE  IInv' /\ Dom!ReplaceChild(p, c, old, keep)
  <1>2. CASE InsertError(p, c, old) # IXML_SUCCESS
    <2>1. Refused(InsertError(p, c, old))
      BY <1>2 DEF ixmlNode_replaceChild
    <2>2. IInv' /\ Dom!InsertRefused(p, c, old)
      BY <1>2, <2>1, InsertRefusedStep
    <2> QED BY <2>2 DEF Dom!ReplaceChild
  <1>3. CASE InsertError(p, c, old) = IXML_SUCCESS
    <2> DEFINE k == Without(list, c)
               l == [k EXCEPT ![p] = ReplaceAll(k[p], old, c)]
               u == Unlink(LinkBefore(Detached(tree, p, c), p, c, old), p, old)
               n == IF keep THEN NULL ELSE old
               gone == IF n = NULL THEN {} ELSE Sub(l, n)
    <2>1. Returns(u, ownerDocument, n)
      BY <1>3 DEF ixmlNode_replaceChild
    <2>2. /\ ownerDocument \in [Node -> Pointer] /\ n \in Pointer /\ p \in Node /\ old \in Node
          /\ list \in Kids /\ NULL \notin Node
      BY Nodes DEF IInv, Pointer, Shape
    <2>3. /\ k = Without(list, c) /\ l = [k EXCEPT ![p] = ReplaceAll(k[p], old, c)]
          /\ u = Unlink(LinkBefore(Detached(tree, p, c), p, c, old), p, old)
      OBVIOUS
    <2>4. /\ gone = (IF n = NULL THEN {} ELSE Sub(l, n)) /\ n \in {NULL, old}
          /\ (n = NULL <=> keep)
      BY <2>2
    <2>5. /\ Shape(u, l) /\ u.parentNode[old] = NULL /\ Acyclic(l) /\ Fit(l, live)
          /\ Sub(l, old) = Sub(list, old)
      BY <1>3, Replaces
    <2> HIDE DEF k, l, u, n, gone
    <2>6. n # NULL => u.parentNode[n] = NULL
      BY <2>4, <2>5
    <2>7. /\ IInv' /\ ret' = IXML_SUCCESS /\ live' = live \ gone /\ list' = Emptied(l, gone)
          /\ ownerDocument' = [m \in Node |-> IF m \in gone THEN NULL ELSE ownerDocument[m]]
      BY <2>1, <2>2, <2>4, <2>5, <2>6, Returned, SMTT(30)
    <2>8. Dom!Becomes(l, ownerDocument, gone)
      BY <2>7, DomBecomes
    <2>9. gone = IF keep THEN {} ELSE Dom!Subtree(old)
      <3>1. Dom!Subtree(old) = Sub(list, old)
        BY <2>2, SubtreeIsSub
      <3> QED BY <2>4, <2>5, <3>1
    <2>10. [Dom!Without(c) EXCEPT ![p] = Dom!ReplaceAll(@, old, c)] = l
      <3>1. Dom!Without(c) = k
        BY <2>3, DomWithout
      <3>2. Dom!ReplaceAll(k[p], old, c) = ReplaceAll(k[p], old, c)
        BY DEF Dom!ReplaceAll, ReplaceAll
      <3> QED BY <2>3, <3>1, <3>2
    <2>11. Dom!InsertTaken(p, c, old)
      BY <1>3, <2>7, InsertChecked
    <2> QED BY <2>7, <2>8, <2>9, <2>10, <2>11 DEF Dom!ReplaceChild
  <1> QED BY <1>2, <1>3

\* What cloneNodeTreeRecursive() comes to: along the pointers of elements all, and
\* nothing that the pointers do not lead to.
LEMMA CopiedLeast ==
    ASSUME tree \in Tree, NEW n \in Node
    PROVE  \E W \in SUBSET Node :
              /\ Copied(n) = {n} \union W
              /\ tree.firstChild[n] # NULL => tree.firstChild[n] \in W
              /\ \A m \in W : m \in Element =>
                    /\ tree.firstChild[m] # NULL => tree.firstChild[m] \in W
                    /\ tree.nextSibling[m] # NULL => tree.nextSibling[m] \in W
              /\ \A T \in SUBSET Node :
                    (tree.firstChild[n] # NULL => tree.firstChild[n] \in T) /\ KeptIn(tree, T)
                       => W \subseteq T
  <1> DEFINE N == Cardinality(Node)
             L(m) == {tree.firstChild[m], tree.nextSibling[m]} \ {NULL}
             E == [m \in Node |-> IF m \in Element THEN L(m) ELSE {}]
             A == {tree.firstChild[n]} \ {NULL}
             Def(f) == [i \in 0..N |->
                           IF i = 0 THEN A
                           ELSE f[i - 1] \union UNION {L(m) : m \in f[i - 1] \intersect Element}]
             v == CHOOSE f : f = Def(f)
  <1>1. N \in Nat /\ NULL \notin Node
    BY Nodes
  <1>2. E \in [Node -> SUBSET Node] /\ A \in SUBSET Node
    BY DEF Tree, Pointer
  <1>3. Copied(n) = {n} \union v[N]
    BY DEF Copied
  <1>4. PICK f : Found(f, A, E)
    <2> HIDE DEF E, A
    <2> QED BY <1>2, Search
  <1>5. \A i \in 1..N : f[i - 1] \in SUBSET Node
    BY <1>1, <1>4 DEF Found
  <1> HIDE DEF A, L
  <1>6. ASSUME NEW S \in SUBSET Node
        PROVE  UNION {E[m] : m \in S} = UNION {L(m) : m \in S \intersect Element}
    <2>1. \A m \in S : E[m] = IF m \in Element THEN L(m) ELSE {}
      OBVIOUS
    <2> HIDE DEF E
    <2> QED BY <2>1
  <1>7. f = Def(f)
    <2>1. ASSUME NEW i \in 0..N PROVE f[i] = Def(f)[i]
      <3>1. CASE i = 0
        BY <1>1, <1>4, <3>1 DEF Found
      <3>2. CASE i # 0
        <4>1. i \in 1..N
          BY <1>1, <3>2
        <4>2. f[i] = f[i - 1] \union UNION {E[m] : m \in f[i - 1]}
          BY <1>4, <4>1 DEF Found
        <4>3. UNION {E[m] : m \in f[i - 1]} = UNION {L(m) : m \in f[i - 1] \intersect Element}
          BY <1>5, <1>6, <4>1
        <4>4. f[i] = f[i - 1] \union UNION {L(m) : m \in f[i - 1] \intersect Element}
          BY <4>2, <4>3, Zenon
        <4>5. Def(f)[i] = f[i - 1] \union UNION {L(m) : m \in f[i - 1] \intersect Element}
          BY <3>2
        <4> QED BY <4>4, <4>5, Zenon
      <3> QED BY <3>1, <3>2
    <2>2. f = [i \in 0..N |-> f[i]]
      BY <1>4 DEF Found
    <2> QED BY <2>1, <2>2
  <1>8. v = Def(v)
    <2> HIDE DEF Def
    <2> QED BY <1>7
  <1> HIDE DEF v
  <1>9. v[0] = f[0] /\ \A i \in 1..N : v[i - 1] = f[i - 1] => v[i] = f[i]
    <2>1. v[0] = Def(v)[0] /\ f[0] = Def(f)[0]
      BY <1>7, <1>8, Zenon
    <2>2. v[0] = f[0]
      BY <1>1, <2>1
    <2>3. ASSUME NEW i \in 1..N, v[i - 1] = f[i - 1] PROVE v[i] = f[i]
      <3>1. v[i] = Def(v)[i] /\ f[i] = Def(f)[i]
        BY <1>7, <1>8, Zenon
      <3>2. i \in 0..N /\ i # 0
        BY <1>1
      <3>3. Def(v)[i] = Def(f)[i]
        BY <2>3, <3>2
      <3> QED BY <3>1, <3>3
    <2> QED BY <2>2, <2>3
  <1>10. v[N] = f[N]
    <2>1. \A i \in 0..N : v[i] = f[i]
      <3> HIDE DEF N
      <3> QED BY <1>1, <1>9, SameWalk
    <2> QED BY <1>1, <2>1
  <1>11. /\ v[N] \in SUBSET Node /\ A \subseteq v[N] /\ \A m \in v[N] : E[m] \subseteq v[N]
         /\ \A T \in SUBSET Node : A \subseteq T /\ (\A m \in T : E[m] \subseteq T) => v[N] \subseteq T
    <2> HIDE DEF E
    <2> QED BY <1>2, <1>4, <1>10, FoundLeast
  <1>12. ASSUME NEW U \in SUBSET Node
         PROVE  /\ (tree.firstChild[n] # NULL => tree.firstChild[n] \in U) <=> A \subseteq U
                /\ KeptIn(tree, U) => \A m \in U : E[m] \subseteq U
                /\ \A m \in U : E[m] \subseteq U /\ m \in Element =>
                      /\ tree.firstChild[m] # NULL => tree.firstChild[m] \in U
                      /\ tree.nextSibling[m] # NULL => tree.nextSibling[m] \in U
    BY DEF KeptIn, A, L
  <1> HIDE DEF E, v, N
  <1> DEFINE W == v[N]
  <1>13. W \in SUBSET Node /\ Copied(n) = {n} \union W
    BY <1>3, <1>11
  <1>14. tree.firstChild[n] # NULL => tree.firstChild[n] \in W
    BY <1>11, <1>12
  <1>15. \A m \in W : m \in Element =>
            /\ tree.firstChild[m] # NULL => tree.firstChild[m] \in W
            /\ tree.nextSibling[m] # NULL => tree.nextSibling[m] \in W
    BY <1>11, <1>12
  <1>16. \A T \in SUBSET Node :
            (tree.firstChild[n] # NULL => tree.firstChild[n] \in T) /\ KeptIn(tree, T)
               => W \subseteq T
    BY <1>11, <1>12
  <1> QED BY <1>13, <1>14, <1>15, <1>16

\* In trees where no text has a sibling after it, these are n and all nodes under it.
LEMMA CopiedIs ==
    ASSUME IInv, NEW n \in Node, CarefulClone(n)
    PROVE  Copied(n) = Sub(list, n)
  <1> DEFINE U == {m \in Sub(list, n) : m # n}
             P == {m \in Node : tree.parentNode[m] # NULL}
             first == tree.firstChild[n]
  <1>1. /\ Shape(tree, list) /\ Acyclic(list) /\ list \in Kids /\ tree \in Tree /\ NULL \notin Node
    BY Nodes DEF IInv, Shape
  <1>2. PICK W \in SUBSET Node :
           /\ Copied(n) = {n} \union W
           /\ first # NULL => first \in W
           /\ \A m \in W : m \in Element =>
                 /\ tree.firstChild[m] # NULL => tree.firstChild[m] \in W
                 /\ tree.nextSibling[m] # NULL => tree.nextSibling[m] \in W
           /\ \A T \in SUBSET Node : (first # NULL => first \in T) /\ KeptIn(tree, T) => W \subseteq T
    BY <1>1, CopiedLeast
  <1>3. Sub(list, n) \in SUBSET Node /\ n \in Sub(list, n)
        /\ \A S \in SUBSET Node : n \in S /\ Closed(list, S) => Sub(list, n) \subseteq S
    BY <1>1, SubLeast
  <1>4. first # NULL => first \in Node /\ tree.parentNode[first] = n
    BY <1>1, PointersAgree
  <1> HIDE DEF first
  <1>5. {n} \union W \subseteq Sub(list, n)
    <2>1. /\ U \in SUBSET Node /\ KeptIn(tree, U)
          /\ \A m \in Node : tree.parentNode[m] \in Sub(list, n) => m \in U
      BY <1>1, BelowKept
    <2> QED BY <1>2, <1>3, <1>4, <2>1
  <1>6. W \subseteq P
    <2>1. KeptIn(tree, P)
      BY <1>1, PointersAgree DEF KeptIn
    <2>2. first # NULL => first \in P
      BY <1>1, <1>4
    <2> QED BY <1>2, <2>1, <2>2
  <1>7. ASSUME NEW m \in W, m \notin Element
        PROVE  tree.firstChild[m] = NULL /\ tree.nextSibling[m] = NULL
    <2>1. m \in Node /\ tree.parentNode[m] # NULL
      BY <1>6
    <2>2. /\ tree.parentNode[m] \in Node
          /\ \E i \in 1..Len(list[tree.parentNode[m]]) : list[tree.parentNode[m]][i] = m
      BY <1>1, <2>1, ShapeTypes
    <2>3. Dom!MayHave(tree.parentNode[m], m)
      BY <2>2 DEF IInv, Fit
    <2>4. m \in Text /\ m \notin Document
      BY <1>7, <2>1, <2>3, IxmlAssumption DEF Dom!MayHave, Node
    <2>5. tree.firstChild[m] = NULL
      <3>1. SUFFICES ASSUME tree.firstChild[m] # NULL PROVE FALSE
        OBVIOUS
      <3>2. list[m] \in Seq(Node) /\ Len(list[m]) \in Nat
        BY <1>1, <2>1, KidsTypes
      <3>3. 1 \in 1..Len(list[m])
        BY <1>1, <2>1, <3>1, <3>2 DEF Shape, Row
      <3>4. Dom!MayHave(m, list[m][1])
        BY <2>1, <3>3 DEF IInv, Fit
      <3> QED BY <1>7, <2>4, <3>4 DEF Dom!MayHave
    <2>6. m \in Visited(tree, first)
      <3>1. first # NULL
        <4>1. KeptIn(tree, {})
          BY DEF KeptIn
        <4> QED BY <1>2, <4>1
      <3>2. /\ Visited(tree, first) \in SUBSET Node /\ first \in Visited(tree, first)
            /\ KeptIn(tree, Visited(tree, first))
        BY <1>1, <1>4, <3>1, VisitedLeast
      <3> QED BY <1>2, <3>2
    <2> QED BY <2>4, <2>5, <2>6 DEF CarefulClone, first
  <1>8. KeptIn(tree, W)
    BY <1>2, <1>7 DEF KeptIn
  <1>9. Sub(list, n) \subseteq {n} \union W
    <2>1. \A i \in 1..Len(list[n]) : list[n][i] \in W
      BY <1>1, <1>2, <1>8, ChildrenKept DEF KeptIn, first
    <2>2. Closed(list, W)
      BY <1>1, <1>8, KeptClosed
    <2>3. Closed(list, {n} \union W)
      BY <2>1, <2>2 DEF Closed
    <2> QED BY <1>3, <2>3
  <1> QED BY <1>2, <1>5, <1>9

-----------------------------------------------------------------------------
(* Clones *)

\* The clone of m, when it has one.
CloneOf(copy, m) == IF m \in DOMAIN copy THEN copy[m] ELSE NULL

\* Each of the nodes of C has a clone of its type in memory that is free.
Clones(C, copy) ==
    /\ copy \in [C -> Node \ live]
    /\ \A a, b \in C : copy[a] = copy[b] => a = b
    /\ \A m \in C : \A type \in {Document, Element, Text} : m \in type <=> copy[m] \in type

\* The pointers after C has been cloned, from n on.
ClonedTo(n, C, copy, u) ==
    /\ u \in Tree
    /\ \A k \in Node \ Range(copy) :
          /\ u.parentNode[k] = tree.parentNode[k] /\ u.firstChild[k] = tree.firstChild[k]
          /\ u.nextSibling[k] = tree.nextSibling[k] /\ u.prevSibling[k] = tree.prevSibling[k]
    /\ \A m \in C :
          /\ u.firstChild[copy[m]] = CloneOf(copy, tree.firstChild[m])
          /\ m = n => /\ u.parentNode[copy[m]] = NULL
                      /\ u.nextSibling[copy[m]] = NULL /\ u.prevSibling[copy[m]] = NULL
          /\ m # n => /\ u.parentNode[copy[m]] = CloneOf(copy, tree.parentNode[m])
                      /\ u.nextSibling[copy[m]] = CloneOf(copy, tree.nextSibling[m])
                      /\ u.prevSibling[copy[m]] = CloneOf(copy, tree.prevSibling[m])

\* The lists of the clones are those of the nodes of C, with clones for nodes.
ClonedLists(C, copy, l) ==
    /\ l \in Kids
    /\ \A k \in Node \ Range(copy) : l[k] = list[k]
    /\ \A m \in C : /\ Len(l[copy[m]]) = Len(list[m])
                    /\ \A i \in 1..Len(list[m]) : l[copy[m]][i] = copy[list[m][i]]

\* Clones are nodes that did not exist, and each is of one node.
LEMMA ClonesAre ==
    ASSUME NEW C, NEW copy, Clones(C, copy)
    PROVE  /\ Range(copy) \in SUBSET Node /\ Range(copy) \intersect live = {}
           /\ \A m \in C : /\ copy[m] \in Range(copy) /\ CloneOf(copy, m) = copy[m]
                           /\ (CHOOSE x \in C : copy[x] = copy[m]) = m
           /\ \A k \in Range(copy) : \E m \in C : k = copy[m]
           /\ \A m : m \notin C => CloneOf(copy, m) = NULL
  <1>1. copy \in [C -> Node \ live] /\ DOMAIN copy = C
    BY DEF Clones
  <1>2. \A m \in C : (CHOOSE x \in C : copy[x] = copy[m]) = m
    BY DEF Clones
  <1> QED BY <1>1, <1>2 DEF Range, CloneOf

\* What is under a node that exists exists.
LEMMA SubLive ==
    ASSUME IInv, NEW n \in live
    PROVE  Sub(list, n) \subseteq live
  <1>1. list \in Kids /\ live \in SUBSET Node /\ Closed(list, live)
    BY DEF IInv, Shape, Fit, Closed
  <1> QED BY <1>1, SubLeast

\* The clones of a tree are a tree.
LEMMA ClonedShape ==
    ASSUME IInv, NEW n \in live, NEW C, C = Sub(list, n), NEW copy, Clones(C, copy),
           NEW u, ClonedTo(n, C, copy, u), NEW l, ClonedLists(C, copy, l)
    PROVE  Shape(u, l)
  <1> DEFINE R == Range(copy)
  <1>1. /\ Shape(tree, list) /\ Acyclic(list) /\ Fit(list, live) /\ list \in Kids /\ tree \in Tree
        /\ NULL \notin Node /\ live \in SUBSET Node
    BY Nodes DEF IInv, Shape
  <1>2. C \subseteq live /\ n \in C /\ Closed(list, C)
    <2>1. n \in Node
      BY <1>1
    <2> QED BY <1>1, <2>1, SubLive, SubLeast
  <1>3. /\ R \in SUBSET Node /\ R \intersect live = {}
        /\ \A m \in C : copy[m] \in R /\ CloneOf(copy, m) = copy[m]
        /\ \A k \in R : \E m \in C : k = copy[m]
        /\ \A m : m \notin C => CloneOf(copy, m) = NULL
        /\ \A a, b \in C : copy[a] = copy[b] => a = b
    <2>1. \A a, b \in C : copy[a] = copy[b] => a = b
      BY DEF Clones
    <2> QED BY <2>1, ClonesAre
  <1> HIDE DEF R
  <1>4. /\ u \in Tree
        /\ \A k \in Node \ R :
              /\ u.parentNode[k] = tree.parentNode[k] /\ u.firstChild[k] = tree.firstChild[k]
              /\ u.nextSibling[k] = tree.nextSibling[k] /\ u.prevSibling[k] = tree.prevSibling[k]
        /\ \A m \in C : u.firstChild[copy[m]] = CloneOf(copy, tree.firstChild[m])
        /\ /\ u.parentNode[copy[n]] = NULL
           /\ u.nextSibling[copy[n]] = NULL /\ u.prevSibling[copy[n]] = NULL
        /\ \A m \in C : m # n =>
              /\ u.parentNode[copy[m]] = CloneOf(copy, tree.parentNode[m])
              /\ u.nextSibling[copy[m]] = CloneOf(copy, tree.nextSibling[m])
              /\ u.prevSibling[copy[m]] = CloneOf(copy, tree.prevSibling[m])
    BY <1>2 DEF ClonedTo, R
  <1>5. /\ l \in Kids /\ \A k \in Node \ R : l[k] = list[k]
        /\ \A m \in C : /\ Len(l[copy[m]]) = Len(list[m])
                        /\ \A i \in 1..Len(list[m]) : l[copy[m]][i] = copy[list[m][i]]
    BY DEF ClonedLists, R
  <1>6. ASSUME NEW m \in Node, tree.parentNode[m] # NULL
        PROVE  m \in live /\ tree.parentNode[m] \in live
    <2>1. /\ tree.parentNode[m] \in Node
          /\ \E i \in 1..Len(list[tree.parentNode[m]]) : list[tree.parentNode[m]][i] = m
      BY <1>1, <1>6, ShapeTypes
    <2> QED BY <1>1, <2>1 DEF Fit
  <1>7. ASSUME NEW m \in C, m # n PROVE tree.parentNode[m] \in C
    BY <1>1, <1>2, <1>7, SubParent
  <1>8. ASSUME NEW p \in Node, p \notin R PROVE Row(u, p, l[p])
    <2>1. Row(tree, p, list[p]) /\ l[p] = list[p]
      BY <1>1, <1>5, <1>8 DEF Shape
    <2>2. \A i \in 1..Len(list[p]) : list[p][i] \in Node \ R
      BY <1>1, <1>3, <1>8 DEF Fit
    <2>3. ASSUME NEW c \in Node, u.parentNode[c] = p PROVE tree.parentNode[c] = p
      <3>1. CASE c \in R
        <4>1. PICK m \in C : c = copy[m]
          BY <1>3, <3>1
        <4>2. m # n
          BY <1>1, <1>4, <2>3, <4>1
        <4>3. p = CloneOf(copy, tree.parentNode[m]) /\ tree.parentNode[m] \in C
          BY <1>4, <1>7, <2>3, <4>1, <4>2
        <4> QED BY <1>3, <1>8, <4>3
      <3>2. CASE c \notin R
        BY <1>4, <2>3, <3>2
      <3> QED BY <3>1, <3>2
    <2>4. u.firstChild[p] = tree.firstChild[p]
      BY <1>4, <1>8
    <2> QED BY <1>4, <2>1, <2>2, <2>3, <2>4 DEF Row
  <1>9. ASSUME NEW m \in C PROVE Row(u, copy[m], l[copy[m]])
    <2> DEFINE p == copy[m]
               s == list[m]
               t == l[p]
    <2>1. Row(tree, m, s) /\ m \in Node /\ Len(s) \in Nat /\ p \in R /\ p \in Node
      BY <1>1, <1>2, <1>3, KidsTypes DEF Shape
    <2>2. Len(t) = Len(s) /\ \A i \in 1..Len(s) : t[i] = copy[s[i]]
      BY <1>5
    <2>3. \A i \in 1..Len(s) : s[i] \in C /\ s[i] # n /\ tree.parentNode[s[i]] = m
      <3>1. \A i \in 1..Len(s) : s[i] \in C /\ tree.parentNode[s[i]] = m
        BY <1>2, <2>1 DEF Closed, Row
      <3>2. tree.parentNode[n] # m
        BY <1>1, <1>2, OwnDescendant
      <3> QED BY <3>1, <3>2
    <2> HIDE DEF p, s, t
    <2>4. u.firstChild[p] = IF Len(t) = 0 THEN NULL ELSE t[1]
      <3>1. u.firstChild[p] = CloneOf(copy, tree.firstChild[m])
        BY <1>4 DEF p
      <3>2. CASE Len(s) = 0
        <4>1. tree.firstChild[m] = NULL /\ NULL \notin C
          BY <1>1, <1>2, <2>1, <3>2 DEF Row
        <4> QED BY <1>3, <2>2, <3>1, <3>2, <4>1
      <3>3. CASE Len(s) # 0
        <4>1. tree.firstChild[m] = s[1] /\ 1 \in 1..Len(s)
          BY <2>1, <3>3 DEF Row
        <4> QED BY <1>3, <2>2, <2>3, <3>1, <3>3, <4>1
      <3> QED BY <3>2, <3>3
    <2>5. ASSUME NEW i \in 1..Len(s)
          PROVE  /\ u.parentNode[t[i]] = p
                 /\ u.prevSibling[t[i]] = IF i = 1 THEN NULL ELSE t[i - 1]
                 /\ u.nextSibling[t[i]] = IF i = Len(s) THEN NULL ELSE t[i + 1]
      <3>1. t[i] = copy[s[i]] /\ s[i] \in C /\ s[i] # n /\ tree.parentNode[s[i]] = m
        BY <2>2, <2>3
      <3>2. /\ u.parentNode[t[i]] = CloneOf(copy, m)
            /\ u.nextSibling[t[i]] = CloneOf(copy, tree.nextSibling[s[i]])
            /\ u.prevSibling[t[i]] = CloneOf(copy, tree.prevSibling[s[i]])
        BY <1>4, <3>1
      <3>3. /\ tree.prevSibling[s[i]] = IF i = 1 THEN NULL ELSE s[i - 1]
            /\ tree.nextSibling[s[i]] = IF i = Len(s) THEN NULL ELSE s[i + 1]
        BY <2>1 DEF Row
      <3>4. NULL \notin C
        BY <1>1, <1>2
      <3>5. u.prevSibling[t[i]] = IF i = 1 THEN NULL ELSE t[i - 1]
        <4>1. CASE i = 1
          BY <1>3, <3>2, <3>3, <3>4, <4>1
        <4>2. CASE i # 1
          <5> DEFINE j == i - 1
          <5>1. j \in 1..Len(s) /\ tree.prevSibling[s[i]] = s[j]
            BY <2>1, <3>3, <4>2
          <5> HIDE DEF j
          <5>2. u.prevSibling[t[i]] = t[j]
            BY <1>3, <2>2, <2>3, <3>2, <5>1
          <5> QED BY <4>2, <5>2 DEF j
        <4> QED BY <4>1, <4>2
      <3>6. u.nextSibling[t[i]] = IF i = Len(s) THEN NULL ELSE t[i + 1]
        <4>1. CASE i = Len(s)
          BY <1>3, <3>2, <3>3, <3>4, <4>1
        <4>2. CASE i # Len(s)
          <5> DEFINE j == i + 1
          <5>1. j \in 1..Len(s) /\ tree.nextSibling[s[i]] = s[j]
            BY <2>1, <3>3, <4>2
          <5> HIDE DEF j
          <5>2. u.nextSibling[t[i]] = t[j]
            BY <1>3, <2>2, <2>3, <3>2, <5>1
          <5> QED BY <4>2, <5>2 DEF j
        <4> QED BY <4>1, <4>2
      <3>7. u.parentNode[t[i]] = p
        BY <1>3, <3>2 DEF p
      <3> QED BY <3>5, <3>6, <3>7
    <2>6. \A i, j \in 1..Len(s) : t[i] = t[j] => i = j
      <3> SUFFICES ASSUME NEW i \in 1..Len(s), NEW j \in 1..Len(s), t[i] = t[j] PROVE i = j
        OBVIOUS
      <3>1. copy[s[i]] = copy[s[j]] /\ s[i] \in C /\ s[j] \in C
        BY <2>2, <2>3
      <3>2. s[i] = s[j]
        BY <1>3, <3>1
      <3> QED BY <2>1, <3>2 DEF Row
    <2>7. ASSUME NEW c \in Node, u.parentNode[c] = p PROVE \E i \in 1..Len(s) : t[i] = c
      <3>1. c \in R
        <4>1. SUFFICES ASSUME c \notin R PROVE FALSE
          OBVIOUS
        <4>2. tree.parentNode[c] = p
          BY <1>4, <2>7, <4>1
        <4>3. p \in live
          BY <1>1, <1>6, <2>1, <4>2
        <4> QED BY <1>3, <2>1, <4>3
      <3>2. PICK x \in C : c = copy[x]
        BY <1>3, <3>1
      <3>3. x # n
        BY <1>1, <1>4, <2>1, <2>7, <3>2
      <3>4. tree.parentNode[x] \in C /\ p = CloneOf(copy, tree.parentNode[x])
        BY <1>4, <1>7, <2>7, <3>2, <3>3
      <3>5. tree.parentNode[x] = m
        BY <1>3, <3>4 DEF p
      <3>6. PICK i \in 1..Len(s) : s[i] = x
        BY <1>1, <1>2, <2>1, <3>5 DEF Row
      <3> QED BY <2>2, <3>2, <3>6
    <2>8. Row(u, p, t)
      BY <2>2, <2>4, <2>5, <2>6, <2>7 DEF Row
    <2> QED BY <2>8 DEF p, t
  <1>10. \A p \in Node : Row(u, p, l[p])
    BY <1>3, <1>8, <1>9
  <1>11. ASSUME NEW c \in Node, u.parentNode[c] = NULL
         PROVE  u.nextSibling[c] = NULL /\ u.prevSibling[c] = NULL
    <2>1. CASE c \in R
      <3>1. PICK m \in C : c = copy[m]
        BY <1>3, <2>1
      <3>2. m = n
        <4>1. SUFFICES ASSUME m # n PROVE FALSE
          OBVIOUS
        <4>2. tree.parentNode[m] \in C /\ u.parentNode[c] = CloneOf(copy, tree.parentNode[m])
          BY <1>4, <1>7, <3>1, <4>1
        <4> QED BY <1>1, <1>3, <1>11, <4>2
      <3> QED BY <1>4, <3>1, <3>2
    <2>2. CASE c \notin R
      BY <1>1, <1>4, <1>11, <2>2 DEF Shape
    <2> QED BY <2>1, <2>2
  <1> QED BY <1>4, <1>5, <1>10, <1>11 DEF Shape

\* No clone is under itself, and the clones fit as the nodes do.
LEMMA ClonedFit ==
    ASSUME IInv, NEW n \in live, NEW C, C = Sub(list, n), NEW copy, Clones(C, copy),
           NEW l, ClonedLists(C, copy, l)
    PROVE  Acyclic(l) /\ Fit(l, live \union Range(copy))
  <1> DEFINE R == Range(copy)
             orig(k) == CHOOSE m \in C : copy[m] = k
  <1>1. Acyclic(list) /\ Fit(list, live) /\ list \in Kids /\ live \in SUBSET Node
    BY DEF IInv, Shape
  <1>2. C \subseteq live /\ Closed(list, C)
    <2>1. n \in Node
      BY <1>1
    <2> QED BY <1>1, <2>1, SubLive, SubLeast
  <1>3. /\ R \in SUBSET Node /\ R \intersect live = {}
        /\ \A m \in C : copy[m] \in R /\ orig(copy[m]) = m
        /\ \A k \in R : \E m \in C : k = copy[m]
    BY ClonesAre
  <1> HIDE DEF R, orig
  <1>4. /\ l \in Kids /\ \A k \in Node \ R : l[k] = list[k]
        /\ \A m \in C : /\ Len(l[copy[m]]) = Len(list[m])
                        /\ \A i \in 1..Len(list[m]) : l[copy[m]][i] = copy[list[m][i]]
    BY DEF ClonedLists, R
  <1>5. \A m \in C : \A i \in 1..Len(list[m]) : list[m][i] \in C
    BY <1>2 DEF Closed
  <1>6. \A p \in Node : \A i \in 1..Len(list[p]) : list[p][i] \in Node \ R
    BY <1>1, <1>3 DEF Fit
  <1>7. Acyclic(l)
    <2>1. PICK h : Under(list, h)
      BY <1>1 DEF Acyclic
    <2> DEFINE j == [k \in Node |-> IF k \in R THEN h[orig(k)] ELSE h[k]]
    <2>2. j \in [Node -> Nat]
      <3>1. \A k \in R : orig(k) \in Node
        BY <1>1, <1>2, <1>3
      <3> QED BY <2>1, <3>1 DEF Under
    <2>3. \A m \in C : j[copy[m]] = h[m]
      BY <1>3
    <2>4. \A k \in Node \ R : j[k] = h[k]
      OBVIOUS
    <2> HIDE DEF j
    <2>5. ASSUME NEW p \in Node, NEW i \in 1..Len(l[p]) PROVE j[l[p][i]] < j[p]
      <3>1. CASE p \in R
        <4>1. PICK m \in C : p = copy[m]
          BY <1>3, <3>1
        <4>2. i \in 1..Len(list[m]) /\ l[p][i] = copy[list[m][i]] /\ list[m][i] \in C /\ m \in Node
          BY <1>1, <1>2, <1>4, <1>5, <4>1
        <4>3. h[list[m][i]] < h[m]
          BY <2>1, <4>2 DEF Under
        <4> QED BY <2>3, <4>1, <4>2, <4>3
      <3>2. CASE p \notin R
        <4>1. l[p] = list[p]
          BY <1>4, <3>2
        <4>2. h[list[p][i]] < h[p]
          BY <2>1, <4>1 DEF Under
        <4> QED BY <1>6, <2>4, <3>2, <4>1, <4>2
      <3> QED BY <3>1, <3>2
    <2> QED BY <2>2, <2>5 DEF Acyclic, Under
  <1>8. ASSUME NEW p \in Node, NEW i \in 1..Len(l[p])
        PROVE  p \in live \union R /\ l[p][i] \in live \union R /\ Dom!MayHave(p, l[p][i])
    <2>1. CASE p \in R
      <3>1. PICK m \in C : p = copy[m]
        BY <1>3, <2>1
      <3>2. i \in 1..Len(list[m]) /\ l[p][i] = copy[list[m][i]] /\ list[m][i] \in C /\ m \in Node
        BY <1>1, <1>2, <1>4, <1>5, <3>1
      <3>3. Dom!MayHave(m, list[m][i])
        BY <1>1, <3>2 DEF Fit
      <3>4. /\ \A x \in C : /\ x \in Document <=> copy[x] \in Document
                            /\ x \in Element <=> copy[x] \in Element
        BY DEF Clones
      <3>5. Dom!MayHave(copy[m], copy[list[m][i]])
        BY <3>2, <3>3, <3>4 DEF Dom!MayHave
      <3> QED BY <1>3, <3>1, <3>2, <3>5
    <2>2. CASE p \notin R
      <3>1. l[p] = list[p]
        BY <1>4, <2>2
      <3> QED BY <1>1, <3>1 DEF Fit
    <2> QED BY <2>1, <2>2
  <1>9. Fit(l, live \union R)
    BY <1>8 DEF Fit
  <1> QED BY <1>7, <1>9 DEF R

\* The nodes that the call clones.
Cloned(n, deep) == IF deep THEN Copied(n) ELSE {n}

\* The call gives its clones these pointers.
LEMMA ClonePointers ==
    ASSUME IInv, NEW n \in live, NEW deep \in BOOLEAN, NEW C, C = Cloned(n, deep),
           C \in SUBSET Node, n \in C, ixmlNode_cloneNode(n, deep)
    PROVE  \E copy :
              /\ Clones(C, copy) /\ IsInjective(copy) /\ ClonedTo(n, C, copy, tree')
              /\ live' = live \union Range(copy) /\ ret' = IXML_SUCCESS
              /\ ownerDocument' =
                    [k \in Node |-> IF k \in Range(copy) THEN NULL ELSE ownerDocument[k]]
  <1> DEFINE Type(m) == CASE m \in Document -> Document [] m \in Element -> Element
                          [] m \in Text -> Text
             Orig(D, copy, k) == CHOOSE m \in D : copy[m] = k
             To(D, copy, m) == IF m \in D THEN copy[m] ELSE NULL
             Clo(D, copy, f) == [k \in Node |->
                                IF k \notin Range(copy) THEN f[k]
                                ELSE LET m == Orig(D, copy, k)
                                     IN  IF m = n THEN NULL ELSE To(D, copy, f[m])]
             Takes(D, copy) ==
                /\ IsInjective(copy)
                /\ \A m \in D : copy[m] \in Type(m)
                /\ live' = live \union Range(copy)
                /\ tree' = [parentNode |-> Clo(D, copy, tree.parentNode),
                            firstChild |-> [Clo(D, copy, tree.firstChild) EXCEPT
                                               ![copy[n]] = To(D, copy, tree.firstChild[n])],
                            nextSibling |-> Clo(D, copy, tree.nextSibling),
                            prevSibling |-> Clo(D, copy, tree.prevSibling)]
                /\ ownerDocument' = [k \in Node |-> IF k \in Range(copy) THEN NULL ELSE ownerDocument[k]]
                /\ ret' = IXML_SUCCESS
             D == Cloned(n, deep)
  <1>0. \E copy \in [D -> Node \ live] : Takes(D, copy)
    BY DEF ixmlNode_cloneNode, Cloned
  <1>1. PICK copy \in [C -> Node \ live] : Takes(C, copy)
    <2> HIDE DEF Takes, D
    <2> QED BY <1>0 DEF D
  <1>2. tree \in Tree /\ NULL \notin Node /\ live \in SUBSET Node
    BY Nodes DEF IInv, Shape
  <1>3. Clones(C, copy)
    <2>1. \A a, b \in C : copy[a] = copy[b] => a = b
      BY <1>1 DEF IsInjective
    <2>2. ASSUME NEW m \in C
          PROVE  \A type \in {Document, Element, Text} : m \in type <=> copy[m] \in type
      BY <1>1, IxmlAssumption DEF Node
    <2> QED BY <1>1, <2>1, <2>2 DEF Clones
  <1>4. /\ Range(copy) \in SUBSET Node
        /\ \A m \in C : copy[m] \in Range(copy) /\ Orig(C, copy, copy[m]) = m
        /\ \A k \in Range(copy) : \E m \in C : k = copy[m]
    BY <1>3, ClonesAre
  <1>5. \A m : To(C, copy, m) = CloneOf(copy, m)
    BY <1>1 DEF CloneOf
  <1>6. \A m \in C : copy[m] \in Node
    BY <1>1
  <1> HIDE DEF Orig, To
  <1>7. ASSUME NEW f \in [Node -> Pointer]
        PROVE  /\ Clo(C, copy, f) \in [Node -> Pointer]
               /\ \A k \in Node \ Range(copy) : Clo(C, copy, f)[k] = f[k]
               /\ \A m \in C : Clo(C, copy, f)[copy[m]] = IF m = n THEN NULL ELSE CloneOf(copy, f[m])
    <2>1. \A k \in Node \ Range(copy) : Clo(C, copy, f)[k] = f[k]
      OBVIOUS
    <2>2. \A m \in C : Clo(C, copy, f)[copy[m]] = IF m = n THEN NULL ELSE CloneOf(copy, f[m])
      BY <1>4, <1>5, <1>6
    <2>3. \A m : CloneOf(copy, m) \in Pointer
      BY <1>1 DEF CloneOf, Pointer
    <2>4. \A k \in Node : Clo(C, copy, f)[k] \in Pointer
      <3> SUFFICES ASSUME NEW k \in Node PROVE Clo(C, copy, f)[k] \in Pointer
        OBVIOUS
      <3>1. CASE k \in Range(copy)
        <4>1. PICK m \in C : k = copy[m]
          BY <1>4, <3>1
        <4>2. Clo(C, copy, f)[k] = IF m = n THEN NULL ELSE CloneOf(copy, f[m])
          BY <2>2, <4>1
        <4> HIDE DEF Clo
        <4> QED BY <2>3, <4>2 DEF Pointer
      <3>2. CASE k \notin Range(copy)
        BY <3>2
      <3> QED BY <3>1, <3>2
    <2>5. Clo(C, copy, f) = [k \in Node |-> Clo(C, copy, f)[k]]
      OBVIOUS
    <2> HIDE DEF Clo
    <2> QED BY <2>1, <2>2, <2>4, <2>5
  <1> HIDE DEF Clo
  <1>8. /\ tree.parentNode \in [Node -> Pointer] /\ tree.firstChild \in [Node -> Pointer]
        /\ tree.nextSibling \in [Node -> Pointer] /\ tree.prevSibling \in [Node -> Pointer]
    BY <1>2 DEF Tree
  <1>9. /\ tree'.parentNode = Clo(C, copy, tree.parentNode)
        /\ tree'.firstChild =
              [Clo(C, copy, tree.firstChild) EXCEPT ![copy[n]] = CloneOf(copy, tree.firstChild[n])]
        /\ tree'.nextSibling = Clo(C, copy, tree.nextSibling)
        /\ tree'.prevSibling = Clo(C, copy, tree.prevSibling)
    BY <1>1, <1>5
  <1>10. tree'.firstChild \in [Node -> Pointer]
    <2>1. CloneOf(copy, tree.firstChild[n]) \in Pointer
      BY <1>1 DEF CloneOf, Pointer
    <2> QED BY <1>7, <1>8, <1>9, <2>1
  <1>11. tree' \in Tree
    <2>1. tree' = [parentNode |-> tree'.parentNode, firstChild |-> tree'.firstChild,
                   nextSibling |-> tree'.nextSibling, prevSibling |-> tree'.prevSibling]
      BY <1>1
    <2>2. tree'.parentNode \in [Node -> Pointer] /\ tree'.nextSibling \in [Node -> Pointer]
          /\ tree'.prevSibling \in [Node -> Pointer]
      BY <1>7, <1>8, <1>9
    <2> QED BY <1>10, <2>1, <2>2 DEF Tree
  <1>12. ASSUME NEW k \in Node \ Range(copy)
         PROVE  /\ tree'.parentNode[k] = tree.parentNode[k] /\ tree'.firstChild[k] = tree.firstChild[k]
                /\ tree'.nextSibling[k] = tree.nextSibling[k]
                /\ tree'.prevSibling[k] = tree.prevSibling[k]
    <2>1. copy[n] \in Range(copy)
      BY <1>4
    <2> QED BY <1>7, <1>8, <1>9, <2>1
  <1>13. ASSUME NEW m \in C
         PROVE  /\ tree'.firstChild[copy[m]] = CloneOf(copy, tree.firstChild[m])
                /\ m = n => /\ tree'.parentNode[copy[m]] = NULL
                            /\ tree'.nextSibling[copy[m]] = NULL /\ tree'.prevSibling[copy[m]] = NULL
                /\ m # n => /\ tree'.parentNode[copy[m]] = CloneOf(copy, tree.parentNode[m])
                            /\ tree'.nextSibling[copy[m]] = CloneOf(copy, tree.nextSibling[m])
                            /\ tree'.prevSibling[copy[m]] = CloneOf(copy, tree.prevSibling[m])
    <2>1. tree'.firstChild[copy[m]] = CloneOf(copy, tree.firstChild[m])
      <3>1. CASE m = n
        BY <1>6, <1>7, <1>8, <1>9, <3>1
      <3>2. CASE m # n
        <4>1. copy[m] # copy[n]
          BY <1>3, <3>2 DEF Clones
        <4>2. Clo(C, copy, tree.firstChild)[copy[m]] = CloneOf(copy, tree.firstChild[m])
          BY <1>7, <1>8, <3>2
        <4> QED BY <1>9, <4>1, <4>2
      <3> QED BY <3>1, <3>2
    <2> QED BY <1>7, <1>8, <1>9, <2>1
  <1>14. ClonedTo(n, C, copy, tree')
    BY <1>11, <1>12, <1>13 DEF ClonedTo
  <1> QED BY <1>1, <1>3, <1>14

\* The lists of the abstract tree after the nodes of C have been cloned.
ListsAfter(C, copy, deep) ==
    [k \in Node |->
        IF k \notin Range(copy) THEN list[k]
        ELSE LET m == CHOOSE m \in C : copy[m] = k
             IN  IF deep THEN [i \in DOMAIN list[m] |-> copy[list[m][i]]] ELSE <<>>]

\* With deep, the children of a clone are the clones of the children.
LEMMA ListsCloned ==
    ASSUME IInv, NEW n \in live, NEW C, C = Sub(list, n), NEW copy, Clones(C, copy),
           NEW deep \in BOOLEAN, deep
    PROVE  ClonedLists(C, copy, ListsAfter(C, copy, deep))
  <1> DEFINE l == ListsAfter(C, copy, deep)
             R == Range(copy)
             s(m) == [i \in DOMAIN list[m] |-> copy[list[m][i]]]
  <1>1. list \in Kids /\ live \in SUBSET Node
    BY DEF IInv, Shape
  <1>2. C \subseteq Node /\ Closed(list, C)
    <2>1. n \in Node
      BY <1>1
    <2> QED BY <1>1, <2>1, SubLeast
  <1>3. /\ R \in SUBSET Node
        /\ \A m \in C : copy[m] \in R /\ (CHOOSE x \in C : copy[x] = copy[m]) = m
        /\ \A k \in R : \E m \in C : k = copy[m]
        /\ copy \in [C -> Node]
    BY ClonesAre DEF Clones
  <1> HIDE DEF R
  <1>4. \A k \in Node \ R : l[k] = list[k]
    BY DEF ListsAfter, R
  <1>5. ASSUME NEW m \in C PROVE l[copy[m]] = s(m)
    <2>1. copy[m] \in R /\ copy[m] \in Node
      BY <1>3
    <2>2. l[copy[m]] = LET x == CHOOSE x \in C : copy[x] = copy[m] IN s(x)
      BY <2>1 DEF ListsAfter, R
    <2> QED BY <1>3, <2>2
  <1>6. ASSUME NEW m \in C
        PROVE  /\ s(m) \in Seq(Node) /\ Len(s(m)) = Len(list[m])
               /\ \A i \in 1..Len(list[m]) : s(m)[i] = copy[list[m][i]]
    <2>1. DOMAIN list[m] = 1..Len(list[m]) /\ Len(list[m]) \in Nat
      BY <1>1, <1>2, KidsTypes
    <2>2. \A i \in 1..Len(list[m]) : copy[list[m][i]] \in Node
      BY <1>2, <1>3 DEF Closed
    <2>3. s(m) = [i \in 1..Len(list[m]) |-> copy[list[m][i]]]
      BY <2>1
    <2>4. s(m) \in [1..Len(list[m]) -> Node]
      BY <2>2, <2>3
    <2>5. \A i \in 1..Len(list[m]) : s(m)[i] = copy[list[m][i]]
      BY <2>3
    <2> HIDE DEF s
    <2>6. s(m) \in Seq(Node) /\ Len(s(m)) = Len(list[m])
      BY <2>1, <2>4
    <2> QED BY <2>5, <2>6
  <1> HIDE DEF s
  <1>7. \A k \in Node : l[k] \in Seq(Node)
    <2> SUFFICES ASSUME NEW k \in Node PROVE l[k] \in Seq(Node)
      OBVIOUS
    <2>1. CASE k \in R
      <3>1. PICK m \in C : k = copy[m]
        BY <1>3, <2>1
      <3> HIDE DEF l
      <3> QED BY <1>5, <1>6, <3>1
    <2>2. CASE k \notin R
      <3> HIDE DEF l
      <3> QED BY <1>1, <1>4, <2>2 DEF Kids
    <2> QED BY <2>1, <2>2
  <1>8. l = [k \in Node |-> l[k]]
    BY DEF ListsAfter
  <1> HIDE DEF l
  <1>9. l \in Kids
    BY <1>7, <1>8 DEF Kids
  <1>10. ClonedLists(C, copy, l)
    BY <1>4, <1>5, <1>6, <1>9 DEF ClonedLists, R
  <1> QED BY <1>10 DEF l

\* A clone without children: it has no pointers.
LEMMA CloneFlat ==
    ASSUME IInv, NEW n \in live, NEW copy, Clones({n}, copy), ClonedTo(n, {n}, copy, tree'),
           NEW deep \in BOOLEAN, ~deep
    PROVE  tree' = tree /\ ListsAfter({n}, copy, deep) = list
  <1>1. /\ Shape(tree, list) /\ Acyclic(list) /\ list \in Kids /\ tree \in Tree /\ NULL \notin Node
        /\ live \in SUBSET Node /\ tree' \in Tree
    BY Nodes DEF IInv, Shape, ClonedTo
  <1>2. /\ Range(copy) \in SUBSET Node /\ Range(copy) \intersect live = {}
        /\ \A k \in Range(copy) : \E m \in {n} : k = copy[m]
        /\ \A m : m \notin {n} => CloneOf(copy, m) = NULL
    BY ClonesAre
  <1>3. \A k \in Range(copy) : k \in Node /\ k \notin live /\ k = copy[n]
    BY <1>2
  <1>4. tree.firstChild[n] # n
    <2>1. tree.firstChild[n] # NULL => tree.parentNode[tree.firstChild[n]] = n
      BY <1>1, PointersAgree
    <2>2. tree.parentNode[n] # n
      BY <1>1, NotOwnParent
    <2> QED BY <1>1, <2>1, <2>2
  <1>5. ASSUME NEW k \in Node
        PROVE  /\ tree'.parentNode[k] = tree.parentNode[k] /\ tree'.firstChild[k] = tree.firstChild[k]
               /\ tree'.nextSibling[k] = tree.nextSibling[k]
               /\ tree'.prevSibling[k] = tree.prevSibling[k]
    <2>1. CASE k \in Range(copy)
      <3>1. /\ tree.parentNode[k] = NULL /\ tree.firstChild[k] = NULL
            /\ tree.nextSibling[k] = NULL /\ tree.prevSibling[k] = NULL
        BY <1>3, <2>1, NotLive
      <3>2. CloneOf(copy, tree.firstChild[n]) = NULL
        BY <1>2, <1>4
      <3> QED BY <1>3, <2>1, <3>1, <3>2 DEF ClonedTo
    <2>2. CASE k \notin Range(copy)
      BY <2>2 DEF ClonedTo
    <2> QED BY <2>1, <2>2
  <1>6. /\ tree'.parentNode = tree.parentNode /\ tree'.firstChild = tree.firstChild
        /\ tree'.nextSibling = tree.nextSibling /\ tree'.prevSibling = tree.prevSibling
    BY <1>1, <1>5 DEF Tree
  <1>7. tree' = tree
    BY <1>1, <1>6 DEF Tree
  <1>8. \A k \in Node : ListsAfter({n}, copy, deep)[k] = list[k]
    <2> SUFFICES ASSUME NEW k \in Node PROVE ListsAfter({n}, copy, deep)[k] = list[k]
      OBVIOUS
    <2>1. CASE k \in Range(copy)
      <3>1. list[k] = <<>>
        BY <1>3, <2>1, NotLive
      <3> QED BY <2>1, <3>1 DEF ListsAfter
    <2>2. CASE k \notin Range(copy)
      BY <2>2 DEF ListsAfter
    <2> QED BY <2>1, <2>2
  <1>9. list = [k \in Node |-> list[k]] /\
        ListsAfter({n}, copy, deep) = [k \in Node |-> ListsAfter({n}, copy, deep)[k]]
    BY <1>1 DEF Kids, ListsAfter
  <1> QED BY <1>7, <1>8, <1>9

\* ixmlNode_cloneNode() adds a tree like the one under n, or a node like n.
LEMMA CloneStep ==
    ASSUME IInv, list' = [m \in Node |-> ChildList(tree', m)], NEW n \in live,
           NEW deep \in BOOLEAN, deep => CarefulClone(n), ixmlNode_cloneNode(n, deep)
    PROVE  IInv' /\ Dom!CloneNode(n, deep)
  <1> DEFINE C == Cloned(n, deep)
  <1>1. /\ Shape(tree, list) /\ Acyclic(list) /\ Fit(list, live) /\ list \in Kids
        /\ live \in SUBSET Node /\ n \in Node /\ ownerDocument \in [Node -> Pointer]
    BY DEF IInv, Shape
  <1>2. C = IF deep THEN Sub(list, n) ELSE {n}
    <2>1. deep => Copied(n) = Sub(list, n)
      BY <1>1, CopiedIs
    <2> QED BY <2>1 DEF Cloned
  <1>3. C \in SUBSET Node /\ n \in C
    BY <1>1, <1>2, SubLeast
  <1>4. C = Cloned(n, deep)
    OBVIOUS
  <1> HIDE DEF C
  <1>5. PICK copy :
           /\ Clones(C, copy) /\ IsInjective(copy) /\ ClonedTo(n, C, copy, tree')
           /\ live' = live \union Range(copy) /\ ret' = IXML_SUCCESS
           /\ ownerDocument' = [k \in Node |-> IF k \in Range(copy) THEN NULL ELSE ownerDocument[k]]
    BY <1>3, <1>4, ClonePointers
  <1> DEFINE l == ListsAfter(C, copy, deep)
  <1>6. Range(copy) \in SUBSET Node
    BY <1>5, ClonesAre
  <1>7. Shape(tree', l) /\ Acyclic(l) /\ Fit(l, live')
    <2>1. CASE deep
      <3>1. C = Sub(list, n)
        BY <1>2, <2>1
      <3>2. ClonedLists(C, copy, l)
        BY <1>5, <2>1, <3>1, ListsCloned
      <3> HIDE DEF l
      <3>3. Shape(tree', l)
        BY <1>5, <3>1, <3>2, ClonedShape
      <3>4. Acyclic(l) /\ Fit(l, live \union Range(copy))
        BY <1>5, <3>1, <3>2, ClonedFit
      <3> QED BY <1>5, <3>3, <3>4
    <2>2. CASE ~deep
      <3>1. C = {n}
        BY <1>2, <2>2
      <3>2. tree' = tree /\ l = list
        BY <1>5, <2>2, <3>1, CloneFlat
      <3>3. Fit(list, live')
        BY <1>1, <1>5 DEF Fit
      <3> QED BY <1>1, <3>2, <3>3
    <2> QED BY <2>1, <2>2
  <1>8. list' = l
    <2> HIDE DEF l
    <2> QED BY <1>7, ListFollows
  <1>9. ownerDocument' \in [Node -> Pointer] /\ live' \in SUBSET Node
    BY <1>1, <1>5, <1>6 DEF Pointer
  <1>10. IInv'
    <2> HIDE DEF l
    <2> QED BY <1>7, <1>8, <1>9 DEF IInv
  <1>11. Dom!CloneNode(n, deep)
    <2>1. C = IF deep THEN Dom!Subtree(n) ELSE {n}
      BY <1>1, <1>2, SubtreeIsSub
    <2>2. Dom!Range(copy) = Range(copy) /\ Dom!IsInjective(copy)
      BY <1>5 DEF Dom!Range, Range, Dom!IsInjective, IsInjective
    <2>3. copy \in [C -> Dom!Node \ live]
      BY <1>5, DomNode DEF Clones
    <2>4. \A m \in C : \A type \in {Document, Element, Text} : m \in type <=> copy[m] \in type
      BY <1>5 DEF Clones
    <2>5. live' = live \union Dom!Range(copy)
      BY <1>5, <2>2
    <2>6. list' = [k \in Dom!Node |->
                     IF k \notin Dom!Range(copy) THEN list[k]
                     ELSE LET m == CHOOSE m \in C : copy[m] = k
                          IN  IF deep THEN [i \in DOMAIN list[m] |-> copy[list[m][i]]] ELSE <<>>]
      BY <1>8, <2>2, DomNode DEF ListsAfter
    <2>7. ownerDocument' =
             [k \in Dom!Node |-> IF k \in Dom!Range(copy) THEN NULL ELSE ownerDocument[k]]
      BY <1>5, <2>2, DomNode
    <2>8. ret' = Dom!SUCCESS
      BY <1>5 DEF Dom!SUCCESS, IXML_SUCCESS
    <2> DEFINE Takes(D) == \E f \in [D -> Dom!Node \ live] :
                  /\ Dom!IsInjective(f)
                  /\ \A m \in D : \A type \in {Document, Element, Text} : m \in type <=> f[m] \in type
                  /\ live' = live \union Dom!Range(f)
                  /\ list' = [k \in Dom!Node |->
                                IF k \notin Dom!Range(f) THEN list[k]
                                ELSE LET m == CHOOSE m \in D : f[m] = k
                                     IN  IF deep THEN [i \in DOMAIN list[m] |-> f[list[m][i]]]
                                         ELSE <<>>]
                  /\ ownerDocument' =
                        [k \in Dom!Node |-> IF k \in Dom!Range(f) THEN NULL ELSE ownerDocument[k]]
    <2>9. Takes(C)
      BY <2>2, <2>3, <2>4, <2>5, <2>6, <2>7, Zenon
    <2>10. Takes(IF deep THEN Dom!Subtree(n) ELSE {n})
      <3> HIDE DEF Takes
      <3> QED BY <2>1, <2>9
    <2> QED BY <2>8, <2>10 DEF Dom!CloneNode, Dom!Succeeds
  <1> QED BY <1>10, <1>11

-----------------------------------------------------------------------------
(* The theorems *)

\* There are no nodes in the beginning.
LEMMA InitHolds ==
    ASSUME Init
    PROVE  IInv /\ Dom!Init
  <1>1. /\ live = {} /\ tree = EmptyTree /\ ownerDocument = NoPointers /\ ret = IXML_SUCCESS
        /\ list = [n \in Node |-> <<>>] /\ NULL \notin Node
    BY Nodes DEF Init
  <1>2. NoPointers \in [Node -> Pointer] /\ \A m \in Node : NoPointers[m] = NULL
    BY DEF NoPointers, Pointer
  <1>3. list \in Kids /\ \A p \in Node : Len(list[p]) = 0
    BY <1>1 DEF Kids
  <1>4. tree \in Tree /\ \A m \in Node : /\ tree.parentNode[m] = NULL /\ tree.firstChild[m] = NULL
                                         /\ tree.nextSibling[m] = NULL /\ tree.prevSibling[m] = NULL
    BY <1>1, <1>2 DEF EmptyTree, Tree
  <1>5. Shape(tree, list)
    <2>1. ASSUME NEW p \in Node PROVE Row(tree, p, list[p])
      BY <1>1, <1>3, <1>4 DEF Row
    <2> QED BY <1>3, <1>4, <2>1 DEF Shape
  <1>6. Acyclic(list)
    <2> DEFINE h == [m \in Node |-> 0]
    <2>1. Under(list, h)
      BY <1>3 DEF Under
    <2> QED BY <2>1 DEF Acyclic
  <1>7. Fit(list, live)
    BY <1>3 DEF Fit
  <1>8. IInv
    BY <1>1, <1>2, <1>5, <1>6, <1>7 DEF IInv
  <1>9. Dom!Init
    BY <1>1, DomNode DEF Dom!Init, NoPointers, Dom!SUCCESS, IXML_SUCCESS
  <1> QED BY <1>8, <1>9

\* A call keeps the invariant and does what the abstract tree's does.
LEMMA NextHolds ==
    ASSUME IInv, Next
    PROVE  IInv' /\ Dom!Next
  <1>1. list' = [m \in Node |-> ChildList(tree', m)]
    BY DEF Next
  <1>2. live \in SUBSET Node /\ Document \subseteq Node /\ Dom!Node = Node
    BY DomNode DEF IInv, Node
  <1>3. CASE \E d \in Document : Create(d, d)
    <2>1. PICK d \in Document : Create(d, d)
      BY <1>3
    <2>2. d \in Node
      BY <1>2
    <2>3. IInv' /\ Dom!Create(d, d)
      BY <1>1, <2>1, <2>2, CreateStep
    <2> QED BY <2>3 DEF Dom!Next
  <1>4. CASE \E n \in Node \ Document, d \in Document \intersect live : Create(n, d)
    <2>1. PICK n \in Node \ Document, d \in Document \intersect live : Create(n, d)
      BY <1>4
    <2>2. n \in Node /\ d \in Node
      BY <1>2
    <2>3. IInv' /\ Dom!Create(n, d)
      BY <1>1, <2>1, <2>2, CreateStep
    <2> QED BY <1>2, <2>3 DEF Dom!Next
  <1>5. CASE \E n \in live, deep \in BOOLEAN :
                (deep => CarefulClone(n)) /\ ixmlNode_cloneNode(n, deep)
    <2>1. PICK n \in live, deep \in BOOLEAN :
             (deep => CarefulClone(n)) /\ ixmlNode_cloneNode(n, deep)
      BY <1>5
    <2>2. IInv' /\ Dom!CloneNode(n, deep)
      BY <1>1, <2>1, CloneStep
    <2> QED BY <2>2 DEF Dom!Next
  <1>6. CASE \E n \in live : ixmlNode_free(n)
    <2>1. PICK n \in live : ixmlNode_free(n)
      BY <1>6
    <2>2. IInv' /\ Dom!Free(n)
      BY <1>1, <2>1, FreeStep
    <2> QED BY <2>2 DEF Dom!Next
  <1>7. ASSUME NEW p \in live, NEW c \in live \ {p}, CarefulInsert(p, c),
               ixmlNode_appendChild(p, c)
        PROVE  IInv' /\ Dom!Next
    <2>1. c \in live /\ p # c
      OBVIOUS
    <2>2. IInv' /\ Dom!AppendChild(p, c)
      BY <1>1, <1>7, <2>1, AppendStep
    <2> QED BY <2>1, <2>2 DEF Dom!Next
  <1>8. ASSUME NEW p \in live, NEW c \in live \ {p}, CarefulInsert(p, c),
               NEW ref \in (live \union {NULL}) \ {c}, ixmlNode_insertBefore(p, c, ref)
        PROVE  IInv' /\ Dom!Next
    <2>1. c \in live /\ p # c /\ ref \in live \union {NULL} /\ c # ref
      OBVIOUS
    <2>2. IInv' /\ Dom!InsertBefore(p, c, ref)
      BY <1>1, <1>8, <2>1, InsertStep
    <2> QED BY <2>1, <2>2 DEF Dom!Next
  <1>9. ASSUME NEW p \in live, NEW c \in live \ {p}, CarefulInsert(p, c),
               NEW old \in live \ {c}, NEW keep \in BOOLEAN, ixmlNode_replaceChild(p, c, old, keep)
        PROVE  IInv' /\ Dom!Next
    <2>1. c \in live /\ p # c /\ old \in live /\ c # old
      OBVIOUS
    <2>2. IInv' /\ Dom!ReplaceChild(p, c, old, keep)
      BY <1>1, <1>9, <2>1, ReplaceStep
    <2> QED BY <2>1, <2>2 DEF Dom!Next
  <1>10. ASSUME NEW p \in live, NEW c \in live \ {p}, NEW keep \in BOOLEAN,
                ixmlNode_removeChild(p, c, keep)
         PROVE  IInv' /\ Dom!Next
    <2>1. c \in live
      OBVIOUS
    <2>2. IInv' /\ Dom!RemoveChild(p, c, keep)
      BY <1>1, <1>10, <2>1, RemoveStep
    <2> QED BY <2>1, <2>2 DEF Dom!Next
  <1> QED BY <1>3, <1>4, <1>5, <1>6, <1>7, <1>8, <1>9, <1>10 DEF Next, Call

\* Between two calls nothing moves.
LEMMA StutterHolds ==
    ASSUME IInv, UNCHANGED vars
    PROVE  IInv' /\ UNCHANGED Dom!domVars
  <1> QED BY DEF vars, IInv, Dom!domVars

\* The pointers are those of a forest, whatever the calls.
LEMMA InvAlways == Spec => []IInv
  <1>1. Init => IInv
    BY InitHolds
  <1>2. IInv /\ [Next]_vars => IInv'
    BY NextHolds, StutterHolds
  <1> QED BY <1>1, <1>2, PTL DEF Spec

\* However nodes are moved, cloned and freed: the pointers of nodes that exist are
\* to nodes that exist, and those to parents, to children and to siblings agree.
THEOREM LinksCorrect == Spec => []LinksAgree
  <1>1. IInv => LinksAgree
    BY InvLinks
  <1> QED BY <1>1, InvAlways, PTL

\* The calls of node.cpp and document.cpp, which only move pointers, do to the
\* lists of children what DomTree says: every step is a step of the forest, with
\* the result that it allows.  The callers are those of CarefulInsert and of
\* CarefulClone, and three of the effects are the code's and not those of ixml.hpp,
\* which DomTree names.
THEOREM TreeCorrect == Spec => ImplementsTree
  <1>1. Init => Dom!Init
    BY InitHolds
  <1>2. IInv /\ [Next]_vars => [Dom!Next]_(Dom!domVars)
    BY NextHolds, StutterHolds
  <1> QED BY <1>1, <1>2, InvAlways, PTL DEF Spec, ImplementsTree, Dom!Spec

=============================================================================
