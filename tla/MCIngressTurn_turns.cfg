SPECIFICATION Spec
CONSTANTS
    m1 = m1
    m2 = m2
    m3 = m3
    s1 = s1
    s2 = s2
    g1 = g1
    c1 = c1
    c2 = c2
    x1 = x1
    Msgs = {m1, m2, m3}
    Sessions = {s1, s2}
    Guilds = {g1}
    Slots = {c1, c2}
    SessionOf <- MCSessionOf
    SlotOf <- MCSlotOf
    GuildOf <- MCGuildOf
    TextOf <- MCTextOf
    Answer = Answer
    Sorry = Sorry
    NoReply = NoReply
    NoMsg = NoMsg
    NoGuild = NoGuild
    MaxIds = 2
    MaxGen = 2
    MaxResets = 1
    MaxCrashes = 1
    MaxFaults = 1
INVARIANTS
    TypeOK
    OneReply
    NoTurnTwice
    ResetForgets
    CompletedIsRemembered
PROPERTIES
    KeepsLedger
    HandlersEnd
CHECK_DEADLOCK FALSE
