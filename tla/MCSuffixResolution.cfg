\* Entry names resolved by path suffix: "String.h" against SmallString.h.
CONSTANTS
    Tree <- MCStringsTree
    Target = "Strings"
    Texts <- MCStringsTexts
    OrderFiles <- MCStringsOrderFiles
    SpdxOrder <- MCStringsSpdxOrder
    MaxDepth = 2
SPECIFICATION Spec
INVARIANT ReachableInlined
CHECK_DEADLOCK FALSE
