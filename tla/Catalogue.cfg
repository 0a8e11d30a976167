SPECIFICATION CatalogueSpec
CONSTANTS
    s1 = s1
    s2 = s2
    s3 = s3
    a = a
    b = b
    c = c
    Names = {"a"}
    Types = {"integer", "number", "string"}
    Kinds = {"whole", "fraction", "text"}
    TypesOf <- KindTypes
    Docs <- FewDocs
    Sessions = {s1, s2, s3}
    MaxRequests = 4
    MaxVersions = 4
    Graphs <- FewGraphs
    Editors = {s1, s2, s3}
    MaxEdits = 6
    MaxRevisions = 3
    Inputs <- FewInputs
CHECK_DEADLOCK FALSE
SYMMETRY SessionSymmetry
INVARIANTS
    ChainIsCompatible
    ClosedIsReadable
    FlagsAgree
    OnlyLatestIsDraft
    PublishedIsSound
    ValidatorIsRight
PROPERTIES
    AloneIsImmutable
