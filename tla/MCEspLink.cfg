SPECIFICATION FairSpec
CONSTANTS
    c1 = c1
    c2 = c2
    Commands = {c1, c2}
    SettingCommands = {c1}
    UnhandledCommands = {c2}
    BufferSize = 6
INVARIANT
    TypeOK
PROPERTIES
    ImplementsLink
    LoopGoesOn
    LinkRecovers
