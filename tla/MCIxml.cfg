SPECIFICATION Spec
CONSTANTS
    Document = {d1}
    Element = {e1, e2, e3}
    Text = {t1}
    NULL = NULL
INVARIANT LinksAgree
PROPERTY ImplementsTree
CHECK_DEADLOCK FALSE
