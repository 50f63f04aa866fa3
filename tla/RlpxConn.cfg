SPECIFICATION ConnSpec
CONSTANTS
    k1 = k1  k2 = k2  k3 = k3
    Keys <- MCKeys
    Pads = {100}
    MsgTypes = {"TxRequest"}
    Lens = {0, 9}
    HeaderSize = 12
    SizeBytes = 8
    PacketSize = 8
    CodeSize = 2
    MaxFrame = 10
    Word = 32
    MaxMsgs = 2
    MaxFaults = 2
INVARIANTS
    NoWrap
    NoSpuriousFailure
    PeerIsDialled
    HeardIsDialled
    NoSpuriousRefusal
PROPERTIES
    IsChannel
    Ends
    Arrives
CHECK_DEADLOCK FALSE
