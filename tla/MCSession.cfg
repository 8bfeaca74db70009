SPECIFICATION SessionSpec
CONSTANTS
    Machines = {"queries", "ontology", "mimir", "host", "pool"}
    MaxOid = 2
    MaxTag = 2
    Keys = {3}
    Vals <- MCVals
    Norm <- MCNorm
    Rels <- MCRels
    Contents = {}
    NoContent = "zero"
    Byte = 4
    TextBytes = 2
    IntBytes = 2
    CtxBytes = 1
    Repl = 3
    Names <- MCNames
    Known <- MCKnown
    Impl <- MCImpl
    Asked <- MCAsked
    Written <- MCWritten
    Statements <- MCStatements
    Typed <- MCTyped
    Unsupported <- MCUnsupported
    NotInt = 8
 
 
INVARIANT RegistryCoherent
INVARIANT RecordsCover
PROPERTY LiveIdKeepsName
 
 
PROPERTY ScanTerminates
INVARIANT ExportFaithful
 
INVARIANT DrainStays
CHECK_DEADLOCK FALSE
