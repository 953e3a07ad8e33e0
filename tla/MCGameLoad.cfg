SPECIFICATION FairSpec
CONSTANTS
    g1 = g1
    g2 = g2
    h1 = h1
    h2 = h2
    Games = {g1, g2}
    Hashes = {h1, h2}
    MaxLoads = 2
    NoGame = NoGame
    Placeholder = Placeholder
    NoHash = NoHash
    Resolve <- Identifications
INVARIANTS
    TypeOK
    LoadsCounted
    ResumedAfterLoad
    OneGame
    HashesPaired
PROPERTIES
    LoadEnds
