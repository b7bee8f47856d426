SPECIFICATION Spec
CONSTANTS
    Replicas = {r1, r2}
    Drafts = {d1}
    Mails = {m1}
    Attached = {m1}
    None = None
    MaxResolutions = 3
INVARIANTS
    TriedAsDecided
    OutboxIsTrue
    RemovedIsArchived
PROPERTIES
    SentAtMostOnce
CHECK_DEADLOCK FALSE
