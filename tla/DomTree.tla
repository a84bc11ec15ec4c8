------------------------------- MODULE DomTree -------------------------------
(***************************************************************************)
(* What the calls of ixml do to the nodes of a document, without pointers: *)
(* a forest, in which every node has a sequence of children.  A call that  *)
(* fails changes nothing and returns an error that applies; one that       *)
(* succeeds returns IXML_SUCCESS.  Ixml implements this.                   *)
(*                                                                         *)
(* The errors and the effects are those of ixml.hpp, but for three where   *)
(* the code is otherwise, which are given here as the code has them:       *)
(*   - NULL for refChild is refused; ixml.hpp:409 lets it mean the end of  *)
(*     the list (InsertRefused);                                           *)
(*   - insertBefore and replaceChild refuse a newChild without an owner,   *)
(*     which ixml.hpp:411 and 423 accept (InsertRefused);                  *)
(*   - a node that is removed or replaced keeps its owner; ixml.hpp:480    *)
(*     and 447 say that it has none any more (RemoveChild, ReplaceChild).  *)
(***************************************************************************)
EXTENDS Naturals, SequencesExt

CONSTANTS Document, Element, Text, NULL

Node == Document \union Element \union Text

VARIABLES
    live,           \* the nodes that exist
    children,       \* per node, its children in order
    ownerDocument,
    ret             \* what the last call has returned

domVars == <<live, children, ownerDocument, ret>>

SUCCESS == "IXML_SUCCESS"
HIERARCHY == "IXML_HIERARCHY_REQUEST_ERR"
WRONG_DOCUMENT == "IXML_WRONG_DOCUMENT_ERR"
NOT_FOUND == "IXML_NOT_FOUND_ERR"

\* n and all nodes under it.
Subtree(n) ==
    LET down[i \in 0..Cardinality(Node)] ==
            IF i = 0 THEN {n}
            ELSE down[i - 1] \union UNION {ToSet(children[m]) : m \in down[i - 1]}
    IN  down[Cardinality(Node)]

\* A document has elements, an element has elements and texts.
MayHave(p, c) == \/ p \in Document /\ c \in Element
                 \/ p \in Element /\ c \notin Document

Unfit(p, c) == ~MayHave(p, c) \/ p \in Subtree(c)
Foreign(p, c) == ownerDocument[p] # ownerDocument[c]
Orphan(c) == ownerDocument[c] = NULL

\* The children without c, wherever it was.
Without(c) == [n \in Node |-> RemoveFirst(children[n], c)]
PutBefore(seq, c, ref) ==
    LET i == CHOOSE i \in DOMAIN seq : seq[i] = ref IN InsertAt(seq, i, c)

Succeeds == ret' = SUCCESS
Refused(e) == ret' = e /\ UNCHANGED <<live, children, ownerDocument>>

\* A node created by a document belongs to it.
Create(n, d) ==
    /\ n \notin live
    /\ live' = live \union {n}
    /\ ownerDocument' = [ownerDocument EXCEPT ![n] = d]
    /\ Succeeds
    /\ UNCHANGED children

Adopted(p, c) == [ownerDocument EXCEPT ![c] = ownerDocument[p]]

\* The nodes of gone are freed; rest and owner hold for the others.
Becomes(rest, owner, gone) ==
    /\ live' = live \ gone
    /\ children' = [n \in Node |-> IF n \in gone THEN <<>> ELSE rest[n]]
    /\ ownerDocument' = [n \in Node |-> IF n \in gone THEN NULL ELSE owner[n]]

AppendChild(p, c) ==
    \/ Refused(HIERARCHY) /\ Unfit(p, c)
    \/ Refused(WRONG_DOCUMENT) /\ Foreign(p, c) /\ ~Orphan(c)
    \/ /\ Succeeds
       /\ (Foreign(p, c) => Orphan(c)) /\ ~Unfit(p, c)
       /\ Becomes([Without(c) EXCEPT ![p] = Append(@, c)], Adopted(p, c), {})

\* The errors of insertBefore() and of replaceChild().  A newChild without an
\* owner is foreign here, and NULL is no child.
InsertRefused(p, c, ref) ==
    \/ Refused(HIERARCHY) /\ Unfit(p, c)
    \/ Refused(WRONG_DOCUMENT) /\ Foreign(p, c)
    \/ Refused(NOT_FOUND) /\ ~Contains(children[p], ref)

InsertTaken(p, c, ref) ==
    /\ Succeeds
    /\ Contains(children[p], ref) /\ c # ref
    /\ ~Foreign(p, c) /\ ~Unfit(p, c)

\* newChild is put before ref, and taken away where it was.
InsertBefore(p, c, ref) ==
    \/ InsertRefused(p, c, ref)
    \/ /\ InsertTaken(p, c, ref)
       /\ Becomes([Without(c) EXCEPT ![p] = PutBefore(@, c, ref)], ownerDocument, {})

\* The node replaced is freed or given back, and then keeps its owner.
ReplaceChild(p, c, old, keep) ==
    \/ InsertRefused(p, c, old)
    \/ /\ InsertTaken(p, c, old)
       /\ Becomes([Without(c) EXCEPT ![p] = ReplaceAll(@, old, c)], ownerDocument,
                  IF keep THEN {} ELSE Subtree(old))

\* The node removed is freed or given back, and then keeps its owner.
RemoveChild(p, c, keep) ==
    \/ Refused(NOT_FOUND) /\ ~Contains(children[p], c)
    \/ /\ Succeeds /\ Contains(children[p], c)
       /\ Becomes(Without(c), ownerDocument, IF keep THEN {} ELSE Subtree(c))

\* Frees a node that has no parent and all nodes in its subtree.
Free(n) ==
    /\ Succeeds /\ \A p \in live : ~Contains(children[p], n)
    /\ Becomes(children, ownerDocument, Subtree(n))

\* copy takes the nodes that are cloned to their clones, which have no owner.
CloneNode(n, deep) ==
    LET cloned == IF deep THEN Subtree(n) ELSE {n}
    IN  /\ Succeeds
        /\ \E copy \in [cloned -> Node \ live] :
          /\ IsInjective(copy)
          /\ \A m \in cloned : \A type \in {Document, Element, Text} :
                m \in type <=> copy[m] \in type
          /\ live' = live \union Range(copy)
          /\ children' =
                [k \in Node |->
                    IF k \notin Range(copy) THEN children[k]
                    ELSE LET m == CHOOSE m \in cloned : copy[m] = k
                         IN  IF deep THEN [i \in DOMAIN children[m] |-> copy[children[m][i]]]
                             ELSE <<>>]
          /\ ownerDocument' =
                [k \in Node |-> IF k \in Range(copy) THEN NULL ELSE ownerDocument[k]]

Init ==
    /\ live = {}
    /\ children = [n \in Node |-> <<>>]
    /\ ownerDocument = [n \in Node |-> NULL]
    /\ ret = SUCCESS

Next ==
    \/ \E d \in Document : Create(d, d)
    \/ \E n \in Node \ Document, d \in Document \intersect live : Create(n, d)
    \/ \E n \in live, deep \in BOOLEAN : CloneNode(n, deep)
    \/ \E n \in live : Free(n)
    \/ \E p, c \in live : AppendChild(p, c)
    \/ \E p, c \in live, ref \in live \union {NULL} : InsertBefore(p, c, ref)
    \/ \E p, c, old \in live, keep \in BOOLEAN : ReplaceChild(p, c, old, keep)
    \/ \E p, c \in live, keep \in BOOLEAN : RemoveChild(p, c, keep)

Spec == Init /\ [][Next]_domVars

=============================================================================
