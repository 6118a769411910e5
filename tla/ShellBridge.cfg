CONSTANTS
    first = first
    second = second
    input = input
    other = other
    Tokens <- MCTokens
    Mixed = mixed
    Short = short
    NoToken = notoken
    NoPref = nopref
    Renderers <- MCRenderers
    Strangers <- MCStrangers
    NoClient = noclient
SPECIFICATION LiveSpec
INVARIANTS
    SavedUnlessRaced
PROPERTIES
    DataNeedsToken
    NobodyIsOvertaken
    RenderEnds
