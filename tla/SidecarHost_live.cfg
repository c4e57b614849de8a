SPECIFICATION FairSpec
CONSTANTS
    Modes = {Chat}
    Chat = Chat
    Inst = {i1, i2, i3}
    Cmds = {k1}
    Boot = Boot
    None = None
    MaxConsecutive = 1
INVARIANTS OneProcess ChatHasToken
PROPERTY Recovers
CHECK_DEADLOCK FALSE
