SPECIFICATION Spec
CONSTANTS
    r1 = r1
    r2 = r2
    r3 = r3
    Requests = {r1, r2, r3}
    Capacity = 2
SYMMETRY Symmetry
INVARIANTS
    AdmissionAccounting
    AnsweredOnce
    NoDocumentAfterFailure
    FailureAnnounced
