CONSTANTS
    MaxAttributes = 2
    MaxClauses = 3
    MaxAttributeBytes = 1
    MaxValueBytes = 2
    Agents = {"a1", "a2"}
    Attributes <- MCAttributes
    Types = {"t1", "t2"}
    AttributeEntries <- MCAttributeEntries
    ApprovalEntries <- MCApprovalEntries
    IsolationEntries <- MCIsolationEntries
    RequirementEntries <- MCRequirementEntries
    Universe <- MCUniverse
    Boundaries <- MCBoundaries
    PublishedValues <- MCPublishedValues
    Trailer = 0
    MaxEntries = 6
SPECIFICATION Spec
CHECK_DEADLOCK FALSE
INVARIANTS
    TypeOK
    DecisionFromApprovals
    StoredCanonical
    ApprovedCanDeclare
    DraftsSendable
    BoundaryEnforced
