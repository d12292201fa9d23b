SPECIFICATION Spec
CONSTANTS
    w1 = w1
    t1 = t1
    r1 = r1
    k1 = k1
    p1 = p1
    q1 = q1
    Pong = Pong
    Walks <- OneWalk
    Threads <- OneThread
    Relays <- OneRelay
    Rekeys <- OneRekey
    Pings <- OnePing
    Queries <- OneQuery
    OutLen = 3
    InLen = 2
    ReadLen = 1
    SocketLen = 2
    InboxMaxlen = 0
    OutboxMaxlen = 1
    Timeout = 0
    Heartbeat = 0
    MaxReplies = 2
    MaxMessages = 2
PROPERTY RekeyHandshakeSent
