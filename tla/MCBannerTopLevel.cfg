\* Spec 4.2 step 2 against processFileRecursively's banner condition.
CONSTANTS
    Tree <- MCTree
    Target = "Foo"
    Texts <- MCTextsSmall
    OrderFiles <- MCOrderFiles
    SpdxOrder <- MCSpdxOrder
    MaxDepth = 4
SPECIFICATION Spec
INVARIANT BannerOnlyForNested
CHECK_DEADLOCK FALSE
