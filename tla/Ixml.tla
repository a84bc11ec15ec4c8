--------------------------------- MODULE Ixml ---------------------------------
(***************************************************************************)
(* The nodes of ixml (pupnp/ixml/src/node.cpp, document.cpp): four         *)
(* pointers per node and the calls that move them.  A tree is used by one  *)
(* thread at a time, so a call is a step.  Names, values and attributes    *)
(* are left out: the calls only look at types, owners and pointers.  A     *)
(* node that is freed can be allocated again.                              *)
(***************************************************************************)
EXTENDS Naturals, SequencesExt

CONSTANTS
    Document, Element, Text,    \* the memory for nodes of each type
    NULL

ASSUME IxmlAssumption ==
    /\ NULL \notin Document \union Element \union Text
    /\ IsFiniteSet(Document \union Element \union Text)
    /\ Document \intersect Element = {} /\ Element \intersect Text = {}
    /\ Text \intersect Document = {}

Node == Document \union Element \union Text

VARIABLES
    live,           \* the nodes that exist
    tree,           \* their pointers
    ownerDocument,
    ret,            \* what the last call has returned
    list            \* observed: the children of each node, as a reader finds them

vars == <<live, tree, ownerDocument, ret, list>>

IXML_SUCCESS == "IXML_SUCCESS"
IXML_HIERARCHY_REQUEST_ERR == "IXML_HIERARCHY_REQUEST_ERR"
IXML_WRONG_DOCUMENT_ERR == "IXML_WRONG_DOCUMENT_ERR"
IXML_NOT_FOUND_ERR == "IXML_NOT_FOUND_ERR"

NoPointers == [n \in Node |-> NULL]
EmptyTree == [parentNode |-> NoPointers, firstChild |-> NoPointers,
              nextSibling |-> NoPointers, prevSibling |-> NoPointers]

\* An assignment to the pointer of n, unless n is NULL.
Set(f, n, to) == IF n = NULL THEN f ELSE [f EXCEPT ![n] = to]

-----------------------------------------------------------------------------
(* The checks *)

ixmlNode_allowChildren(p, c) ==
    ~ \/ p \in Text
      \/ p \in Element /\ c \in Document
      \/ p \in Document /\ c \notin Element

\* The recursion visits all that firstChild and nextSibling lead to.
Visited(g, n) ==
    LET v[i \in 0..Cardinality(Node)] ==
            IF i = 0 THEN {n} \ {NULL}
            ELSE v[i - 1] \union
                 UNION {{g.firstChild[m], g.nextSibling[m]} \ {NULL} : m \in v[i - 1]}
    IN  v[Cardinality(Node)]

ixmlNode_isAncestor(g, ancestorNode, toFind) ==
    g.parentNode[toFind] \in Visited(g, ancestorNode)

\* NULL has no parent; a build with assertions stops there.
ixmlNode_isParent(g, p, c) == c # NULL /\ g.parentNode[c] = p

-----------------------------------------------------------------------------
(* The moves of pointers *)

\* Mutant: the first child of the parent is left alone.
UnlinkSiblings(g, p, c) ==
    [g EXCEPT !.parentNode = Set(@, c, NULL),
              !.nextSibling = Set(Set(@, g.prevSibling[c], @[c]), c, NULL),
              !.prevSibling = Set(Set(@, g.nextSibling[c], @[c]), c, NULL)]

\* ixmlNode_removeChild() after its checks.
Unlink(g, p, c) ==
    [parentNode |-> Set(g.parentNode, c, NULL),
     firstChild |-> IF g.firstChild[p] = c THEN Set(g.firstChild, p, g.nextSibling[c])
                    ELSE g.firstChild,
     nextSibling |-> Set(Set(g.nextSibling, g.prevSibling[c], g.nextSibling[c]), c, NULL),
     prevSibling |-> Set(Set(g.prevSibling, g.nextSibling[c], g.prevSibling[c]), c, NULL)]

\* newChild is taken out of the children of nodeptr itself, and of no other.
Detached(g, p, c) == IF ixmlNode_isParent(g, p, c) THEN Unlink(g, p, c) ELSE g

\* Mutant: the previous sibling of ref is not told of c.
LinkOneWay(g, p, c, ref) ==
    LET prev == Set(IF g.prevSibling[ref] = NULL THEN g.prevSibling
                    ELSE Set(g.prevSibling, c, g.prevSibling[ref]), ref, c)
    IN  [parentNode |-> Set(g.parentNode, c, p),
         firstChild |-> IF prev[c] = NULL THEN Set(g.firstChild, p, c) ELSE g.firstChild,
         nextSibling |-> Set(g.nextSibling, c, ref),
         prevSibling |-> prev]

\* ixmlNode_insertBefore() after its checks, in the order of its assignments.
LinkBefore(g, p, c, ref) ==
    LET prev == Set(IF g.prevSibling[ref] = NULL THEN g.prevSibling
                    ELSE Set(g.prevSibling, c, g.prevSibling[ref]), ref, c)
    IN  [parentNode |-> Set(g.parentNode, c, p),
         firstChild |-> IF prev[c] = NULL THEN Set(g.firstChild, p, c) ELSE g.firstChild,
         nextSibling |-> Set(Set(g.nextSibling, c, ref), g.prevSibling[ref], c),
         prevSibling |-> prev]

LastSibling(g, n) ==
    LET last[m \in Node] == IF g.nextSibling[m] = NULL THEN m ELSE last[g.nextSibling[m]]
    IN  last[n]

\* ixmlNode_appendChild() after its checks.
LinkLast(g, p, c) ==
    LET prev == IF g.firstChild[p] = NULL THEN NULL ELSE LastSibling(g, g.firstChild[p])
    IN  [g EXCEPT !.parentNode = Set(@, c, p),
                  !.firstChild = IF prev = NULL THEN Set(@, p, c) ELSE @,
                  !.nextSibling = Set(@, prev, c),
                  !.prevSibling = IF prev = NULL THEN @ ELSE Set(@, c, prev)]

-----------------------------------------------------------------------------
(* ixmlNode_free() *)

\* Down the first children, along the siblings, and again: the last sibling
\* of a last child.
Deepest(g, n) ==
    LET leaf[m \in Node] == IF g.firstChild[m] = NULL THEN m ELSE leaf[g.firstChild[m]]
        deep[m \in Node] ==
            LET s == LastSibling(g, leaf[m])
            IN  IF g.firstChild[s] = NULL THEN s ELSE deep[g.firstChild[s]]
    IN  deep[n]

\* The pointer that leads to curr is cleared, that of its previous sibling or
\* else that of its parent.
CutOff(g, curr) ==
    IF g.prevSibling[curr] # NULL
    THEN [g EXCEPT !.nextSibling = Set(@, g.prevSibling[curr], NULL)]
    ELSE [g EXCEPT !.firstChild = Set(@, g.parentNode[curr], NULL)]

\* One turn of the loop frees one node, curr, until it has freed n.
FreeWalk(g, n) ==
    LET turn[i \in 0..Cardinality(Node)] ==
            IF i = 0
            THEN [g |-> g, from |-> IF g.firstChild[n] = NULL THEN n ELSE g.firstChild[n],
                  freed |-> {}]
            ELSE LET w == turn[i - 1]
                     curr == Deepest(w.g, w.from)
                 IN  IF n \in w.freed THEN w
                     ELSE [g |-> IF curr = n THEN w.g ELSE CutOff(w.g, curr),
                           from |-> IF w.g.prevSibling[curr] # NULL
                                    THEN w.g.prevSibling[curr] ELSE w.g.parentNode[curr],
                           freed |-> w.freed \union {curr}]
    IN  turn[Cardinality(Node)]

\* The call succeeds with the pointers g; n is freed unless it is NULL.
Returns(g, owner, n) ==
    LET walk == FreeWalk(g, n)
        left == IF n = NULL THEN g ELSE walk.g
        freed == IF n = NULL THEN {} ELSE walk.freed
        Clear(f) == [m \in Node |-> IF m \in freed THEN NULL ELSE f[m]]
    IN  /\ ret' = IXML_SUCCESS
        /\ live' = live \ freed
        /\ ownerDocument' = Clear(owner)
        /\ tree' = [parentNode |-> Clear(left.parentNode),
                    firstChild |-> Clear(left.firstChild),
                    nextSibling |-> Clear(left.nextSibling),
                    prevSibling |-> Clear(left.prevSibling)]

Refused(e) == ret' = e /\ UNCHANGED <<live, tree, ownerDocument>>

-----------------------------------------------------------------------------
(* The calls *)

\* ixmlDocument_createDocument(), createElement(), createTextNode().
Create(n, d) ==
    /\ n \notin live
    /\ live' = live \union {n}
    /\ ownerDocument' = [ownerDocument EXCEPT ![n] = d]
    /\ ret' = IXML_SUCCESS
    /\ UNCHANGED tree

ixmlNode_appendChild(p, c) ==
    IF ownerDocument[c] # NULL /\ ownerDocument[p] # ownerDocument[c]
    THEN Refused(IXML_WRONG_DOCUMENT_ERR)
    ELSE IF ixmlNode_isAncestor(tree, c, p) \/ ~ixmlNode_allowChildren(p, c)
    THEN Refused(IXML_HIERARCHY_REQUEST_ERR)
    ELSE Returns(LinkLast(Detached(tree, p, c), p, c),
                 [ownerDocument EXCEPT ![c] = ownerDocument[p]], NULL)

\* The checks of insertBefore() and, in another order, of replaceChild().
InsertError(p, c, ref) ==
    IF ~ixmlNode_allowChildren(p, c) \/ ixmlNode_isAncestor(tree, c, p)
    THEN IXML_HIERARCHY_REQUEST_ERR
    ELSE IF ownerDocument[p] # ownerDocument[c] THEN IXML_WRONG_DOCUMENT_ERR
    ELSE IF ~ixmlNode_isParent(tree, p, ref) THEN IXML_NOT_FOUND_ERR
    ELSE IXML_SUCCESS

ixmlNode_insertBefore(p, c, ref) ==
    LET error == InsertError(p, c, ref)
    IN  IF error # IXML_SUCCESS THEN Refused(error)
        ELSE Returns(LinkBefore(Detached(tree, p, c), p, c, ref), ownerDocument, NULL)

\* The old child is given back or, where no place is given for it, freed.
ixmlNode_replaceChild(p, c, old, keep) ==
    LET error == InsertError(p, c, old)
    IN  IF error # IXML_SUCCESS THEN Refused(error)
        ELSE Returns(Unlink(LinkBefore(Detached(tree, p, c), p, c, old), p, old),
                     ownerDocument, IF keep THEN NULL ELSE old)

ixmlNode_removeChild(p, c, keep) ==
    IF ~ixmlNode_isParent(tree, p, c) THEN Refused(IXML_NOT_FOUND_ERR)
    ELSE Returns(Unlink(tree, p, c), ownerDocument, IF keep THEN NULL ELSE c)

\* The application frees what no node refers to.
ixmlNode_free(n) ==
    /\ tree.parentNode[n] = NULL
    /\ Returns(tree, ownerDocument, n)

\* The nodes that cloneNodeTreeRecursive() copies: after a text it stops.
Copied(n) ==
    LET reach[i \in 0..Cardinality(Node)] ==
            IF i = 0 THEN {tree.firstChild[n]} \ {NULL}
            ELSE reach[i - 1] \union
                 UNION {{tree.firstChild[m], tree.nextSibling[m]} \ {NULL} :
                        m \in reach[i - 1] \intersect Element}
    IN  {n} \union reach[Cardinality(Node)]

\* copy takes each node to the memory of its clone.  A pointer that leads to a
\* node without a clone is NULL, and the clones have no owner.
ixmlNode_cloneNode(n, deep) ==
    LET cloned == IF deep THEN Copied(n) ELSE {n}
        Type(m) == CASE m \in Document -> Document [] m \in Element -> Element
                     [] m \in Text -> Text
    IN  \E copy \in [cloned -> Node \ live] :
          LET To(m) == IF m \in cloned THEN copy[m] ELSE NULL
              Clones(f) == [k \in Node |->
                 IF k \notin Range(copy) THEN f[k]
                 ELSE LET m == CHOOSE m \in cloned : copy[m] = k
                      IN  IF m = n THEN NULL ELSE To(f[m])]
          IN  /\ IsInjective(copy)
              /\ \A m \in cloned : copy[m] \in Type(m)
              /\ live' = live \union Range(copy)
              /\ tree' = [parentNode |-> Clones(tree.parentNode),
                          firstChild |->
                             [Clones(tree.firstChild) EXCEPT
                                 ![copy[n]] = To(tree.firstChild[n])],
                          nextSibling |-> Clones(tree.nextSibling),
                          prevSibling |-> Clones(tree.prevSibling)]
              /\ ownerDocument' =
                    [k \in Node |-> IF k \in Range(copy) THEN NULL ELSE ownerDocument[k]]
              /\ ret' = IXML_SUCCESS

-----------------------------------------------------------------------------

\* What firstChild and nextSibling lead to, cut where there would be more than
\* all nodes.
ChildList(g, n) ==
    LET at[i \in 1..Cardinality(Node)] ==
            IF i = 1 THEN g.firstChild[n]
            ELSE IF at[i - 1] = NULL THEN NULL ELSE g.nextSibling[at[i - 1]]
    IN  [i \in 1..Cardinality({i \in DOMAIN at : at[i] # NULL}) |-> at[i]]

Init ==
    /\ live = {} /\ tree = EmptyTree
    /\ ownerDocument = NoPointers /\ ret = IXML_SUCCESS
    /\ list = [n \in Node |-> <<>>]

-----------------------------------------------------------------------------
(* The callers.  ixml.hpp allows more than the code can take: what follows  *)
(* is asked of a caller, and the properties hold for callers that keep to it. *)

\* c is a new node, one that was removed, or among the children of p already.
\* ixml.hpp:414, 445 and 503 say that a newChild in the tree is first removed;
\* the code does that only below p itself (Detached), and would have the child of
\* another parent in two lists.  (All calls in the library give a new node.)
CarefulInsert(p, c) == tree.parentNode[c] \in {NULL, p}

\* No text has a sibling after it, and no document two roots: the clones that
\* follow a text are left out, although ixml.hpp:537 promises the subtree, and a
\* second root would get no parent.
CarefulClone(n) ==
    /\ \A m \in Visited(tree, tree.firstChild[n]) \intersect Text :
          tree.nextSibling[m] = NULL
    /\ n \in Document /\ tree.firstChild[n] # NULL
          => tree.nextSibling[tree.firstChild[n]] = NULL

\* A node is made neither its own child nor its own sibling: no check of the code
\* stops that.
Call ==
    \/ \E d \in Document : Create(d, d)
    \/ \E n \in Node \ Document, d \in Document \intersect live : Create(n, d)
    \/ \E n \in live, deep \in BOOLEAN :
          (deep => CarefulClone(n)) /\ ixmlNode_cloneNode(n, deep)
    \/ \E n \in live : ixmlNode_free(n)
    \/ \E p \in live : \E c \in live \ {p} :
          /\ CarefulInsert(p, c)
          /\ \/ ixmlNode_appendChild(p, c)
             \/ \E ref \in (live \union {NULL}) \ {c} : ixmlNode_insertBefore(p, c, ref)
             \/ \E old \in live \ {c}, keep \in BOOLEAN : ixmlNode_replaceChild(p, c, old, keep)
    \/ \E p \in live : \E c \in live \ {p}, keep \in BOOLEAN : ixmlNode_removeChild(p, c, keep)

Next == Call /\ list' = [n \in Node |-> ChildList(tree', n)]

Spec == Init /\ [][Next]_vars

-----------------------------------------------------------------------------
(* Properties *)

\* The pointers of nodes that exist are to nodes that exist, whatever was freed,
\* and the two directions agree: a node is in the list of its parentNode and in
\* no other, and the node before it there is its prevSibling.
LinksAgree ==
    /\ \A f \in DOMAIN tree : \A n \in live : tree[f][n] \in live \union {NULL}
    /\ \A p \in live :
          /\ \A c \in live : Contains(list[p], c) <=> tree.parentNode[c] = p
          /\ \A i \in DOMAIN list[p] :
                tree.prevSibling[list[p][i]] = IF i = 1 THEN NULL ELSE list[p][i - 1]

\* Moving pointers, walking them and freeing what they lead to, every call of
\* node.cpp does to the lists of children what DomTree says, its result included:
\* nothing is lost, doubled or put elsewhere, and no other list changes.  DomTree
\* names where it says what the code does and ixml.hpp says otherwise.
Dom == INSTANCE DomTree WITH children <- list
ImplementsTree == Dom!Spec

=============================================================================
