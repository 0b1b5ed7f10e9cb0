CONSTANTS
    Messages <- MCMessages
    Replies <- MCReplies
    Noise = {0, 1, 12, 19, 64, 192, 255}
    MaxHops = 64
SPECIFICATION FairSpec
INVARIANTS WireInv CutIsRejected RoundTrip
PROPERTIES ParseAdvances ParseEnds
