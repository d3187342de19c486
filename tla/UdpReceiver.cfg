SPECIFICATION FairSpec
CONSTANTS
    Messages = {"h1", "h2", "k", "d", "e"}
    Peers = {"p", "q"}
    From <- MCFrom
    Id <- MCId
    Length <- MCLength
    HandshakeId = 255
    HardTimeout = 3
    IdleTimeout = 2
    Nickname <- MCNickname
    MaxUnderway = 2
    MaxDisturbed = 1
CHECK_DEADLOCK FALSE
INVARIANTS TypeOK SessionsShareKey KeyIsThePeers InOrderDecoded
PROPERTIES SessionsEnd
