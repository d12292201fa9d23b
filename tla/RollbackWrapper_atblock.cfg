SPECIFICATION Spec
CONSTANTS
    k1 = k1 k2 = k2 v1 = v1 v2 = v2 ancestor = ancestor
    Key = {k1, k2}
    MetadataKey = {k2}
    Value = {v1, v2}
    Absent = Absent
    Open = Open
    Past <- AncestorData
    MaxDepth = 3
    MaxEdits = 3
INVARIANT AtBlockReadsThePast
