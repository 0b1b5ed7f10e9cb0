CONSTANTS
    Addr = {pub1, pub2, block, bogon}
    BlockIP = {block}
    Bogon = {block, bogon}
    NumPublic = 1
    NumDoH = 1
    HasSystem = TRUE
SPECIFICATION Spec
INVARIANT BogonsOutsideReference
