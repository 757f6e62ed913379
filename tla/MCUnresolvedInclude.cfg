\* Spec 7 against the scan's handling of includes missing from the tree.
CONSTANTS
    Tree <- MCTree
    Target = "Foo"
    Texts <- MCTexts
    OrderFiles <- MCOrderFiles
    SpdxOrder <- MCSpdxOrderLicense
    MaxDepth = 4
SPECIFICATION Spec
INVARIANT UnresolvedIncludeDropped
CHECK_DEADLOCK FALSE
