SPECIFICATION FairSpec
CONSTANTS
    Nodes = {u, d, p, q}
    Uploader = u
    Downloader = d
    Gone <- MCGone
    File <- TwoChunks
    Contacts <- MCContacts
    DefaultReplicaCount = 3
    Alpha = 2
    Setups <- MCSetups
    u = u
    d = d
    p = p
    q = q
    g = g
    c1 = c1
    c2 = c2
CHECK_DEADLOCK FALSE

INVARIANTS
    
    ProvidersHaveTheFile
    DestIsTheFile
    StoredCanBeDownloaded
PROPERTIES
    CommandsEnd
