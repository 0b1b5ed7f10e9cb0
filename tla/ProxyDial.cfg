CONSTANTS
    Dials <- MCDials
    Scripts <- MCScripts
SPECIFICATION FairSpec
INVARIANTS ProxyInv TunnelIntact
PROPERTY DialEnds
