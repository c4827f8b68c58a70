SPECIFICATION Spec
CONSTANTS
    NULL = NULL
    Key = {k1, k2}
    Content = {a, b, huge}
    Oversized = {huge}
    Reporting = {k1}
    Request = {r1, r2}
    MaxAttachmentsPerClaim = 1
INVARIANTS
    AttachmentsTypeOK
    EvidenceIsFixed
    ReceiptsHaveObjects
\* A deleted claim with nothing in flight is the end of the story.
CHECK_DEADLOCK FALSE
