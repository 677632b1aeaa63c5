CONSTANTS
    g1 = g1 g2 = g2 g3 = g3 n1 = n1 n2 = n2 k1 = k1 s1 = s1 s2 = s2 s3 = s3
    Nil = Nil
    Server = {g1}
    Node = {n1}
    Kind = {k1}
    NodeOf <- OneServer
    KindOf <- OneNode
    Sign = {s1, s2, s3}
    MaxOnline = 0
    MaxMsg = 3
    MaxBuffer = 2
    Puller = {g1}
    MaxEvents = 3
SPECIFICATION FairSpec
INVARIANTS ProxyTracks ResponserOK MsgOrder
PROPERTIES RegistryHeals
