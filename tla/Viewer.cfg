SPECIFICATION MCFairSpec
CONSTANTS
    Command = {"attach", "exec", "message"}
    MaxOutput = 3
    MaxChat = 1
    MaxKeys = 1
INVARIANTS
    ScreenIsFaithful AttachFindsHost
PROPERTIES
    HandshakeEnds
