CONSTANTS
    real = real
    blockpage = blockpage
    v6 = v6
    Addr = {real, blockpage}
    BlockIP = {blockpage}
    Bogon = {}
    IPv6 = {v6}
    NumPublic = 1
    NumDoH = 1
    HasSystem = TRUE
    SystemIsUDP = FALSE
    Ports = {1}
    IDs = {1, 2}
    Messages <- MCMessages
    MaxDatagrams = 2
SPECIFICATION FairExSpec
INVARIANTS ExTypeOK OwnAnswers
PROPERTIES ImplementsDns LookupsEnd
