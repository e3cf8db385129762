SPECIFICATION Spec
CONSTANTS
    Nodes = {u, d, p, q}
    Uploader = u
    Downloader = d
    Gone <- MCGone
    File <- TwoChunks
    Contacts <- MCContacts
    DefaultReplicaCount = 3
    Alpha = 2
    Setups <- FaultFree
    u = u
    d = d
    p = p
    q = q
    g = g
    c1 = c1
    c2 = c2
CHECK_DEADLOCK FALSE

INVARIANT
    SurvivesTheUploader
