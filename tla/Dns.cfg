CONSTANTS
    Addr = {pub1, pub2, block, bogon}
    BlockIP = {block}
    Bogon = {block, bogon}
    NumPublic = 2
    NumDoH = 1
    HasSystem = TRUE
SPECIFICATION Spec
INVARIANTS DnsInv PlainReferenceIsClean BadAnswersAreNoticed HonestNetworkNotAccused DroppedMeansSilenced
