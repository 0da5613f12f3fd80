SPECIFICATION Spec
CONSTANTS
    BufferSize = 5
    Packets = {p1, p2}
    Sessions = {s1, s2}
    Contents = {g}
    Workers = {w1, w2}
    UdpThreads = {u}
    Acceptors = {a}
    Nobody = Nobody
    Messages <- MCMessages
    Payloads <- MCPayloads
    dfMAX_PACKET = 2
    MaxMessages = 2
SYMMETRY Symmetry
INVARIANTS TypeOK RefsExact WholeOnWire ReadsOwnMessage
