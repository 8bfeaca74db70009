SPECIFICATION Spec
CONSTANTS
    MaxOid = 2
    MaxTag = 3
    Keys = {k}
    Vals = {1, 2, 3}
    Norm <- MCNorm
    Rels = {r}
    Contents = {c1, c2}
    NoContent = c0
    Mixes <- MCMixes
    MaxCopies = 2
    ModuleEdges <- MCEdges
INVARIANT TypeOK
INVARIANT TagIndexAgrees
INVARIANT MaterializedSupported
INVARIANT AttrIndexesSound
INVARIANT OidsDense
PROPERTY NoResurrection
