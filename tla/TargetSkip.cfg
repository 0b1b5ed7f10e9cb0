CONSTANTS
    Addr = {pub1, pub2, block, bogon}
    BlockIP = {block}
    Bogon = {block, bogon}
    NumPublic = 1
    NumDoH = 1
    Lookups <- MCLookups
    Locals <- MCLocals
    MaxAddrs = 2
    Throttling = TRUE
    Downloads <- MCDownloads
    Baselines <- MCBaselines
    MinBytes = 2
    MaxBytes = 4
    SlowRate = 2
    RateRatio = 2
    SlowHandshake = 2
    HandshakeRatio = 2
    Errors <- MCErrors
    Signatures <- MCSignatures
    Exchanges <- MCExchanges
    StatusPage = TRUE
SPECIFICATION Spec
INVARIANT SkippedWithoutReference
