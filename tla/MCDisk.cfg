SPECIFICATION Spec
CONSTANTS
    MaxOid = 2
    MaxTag = 3
    Keys = {1}
    Vals = {0, 1, 2}
    Norm <- MCNorm
    Zero = 0
    Rels = {r}
    Contents = {c1, c2}
    NoContent = c0
    InitKnown = {1, 2}
    InitImpl <- MCImpl
    Mixes <- MCMixes
    Capacity = 3
    MaxLsn = 5
    MaxCopies = 2
INVARIANT TypeOK
INVARIANT ObjectsRecovered
INVARIANT OidNeverReused
INVARIANT TagsRecovered
INVARIANT AttrsNeverLost
INVARIANT RootIsNewest
 
SYMMETRY MCSymmetry
