\* The step-by-step build returns and implements the one-step AmalgamationSpec.
CONSTANTS
    Tree <- MCTree
    Target = "Foo"
    Texts <- MCTextsRefine
    OrderFiles <- MCOrderFiles
    SpdxOrder <- MCSpdxOrder
    MaxDepth = 4
SPECIFICATION Spec
PROPERTY Termination
PROPERTY AbstractSpec
\* A build returns: phase "done" has no successor.
CHECK_DEADLOCK FALSE
