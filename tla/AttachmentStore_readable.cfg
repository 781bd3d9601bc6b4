SPECIFICATION Spec
CONSTANTS
    Runs = {r1, r2, r3}
    Attachments = {a1, a2}
SYMMETRY RunSymmetry
INVARIANTS EntriesReadable PointHoldsAttachments
