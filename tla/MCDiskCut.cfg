SPECIFICATION Spec
CONSTANTS
    MaxOid = 2
    MaxTag = 3
    Keys = {1}
    Vals = {0, 1, 2}
    Norm <- MCNorm
    Zero = 0
    Rels = {r}
    Contents = {c1, c2}
    NoContent = c0
    InitKnown = {1, 2}
    InitImpl <- MCImpl
    Mixes <- MCTagMixes
    Capacity = 4
    MaxLsn = 6
    MaxCopies = 2
INVARIANT TagsSurvive
