\* Safety of one build over every text of the model repository.
CONSTANTS
    Tree <- MCTree
    Target = "Foo"
    Texts <- MCTexts
    OrderFiles <- MCOrderFiles
    SpdxOrder <- MCSpdxOrderLicense
    MaxDepth = 4
SPECIFICATION Spec
INVARIANT TypeOK
INVARIANT NoReentry
INVARIANT EmittedOnce
INVARIANT ReachableInlined
INVARIANT LicenseBlockMatchesBody
\* A build returns: phase "done" has no successor.
CHECK_DEADLOCK FALSE
