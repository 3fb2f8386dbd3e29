SPECIFICATION MCFairSpec
CONSTANTS
    Key <- MCKey
    Size = {1, 2}
    MaxKeys = 3
    MaxOutput = 1
    MaxChat = 2
    MaxResizes = 1
INVARIANTS
    InputIsRouted CutsDoNotMatter RenderedIsCurrent
PROPERTIES
    OutputIsShown KeysArrive
