SPECIFICATION ServicesSpec
CONSTANTS
    ann = ann
    bob = bob
    bot = bot
    Owners = {ann, bob, bot}
    NoOne = NoOne
    HumanKeys = {ann, bob}
    Patterns <- ThePatterns
    NodeRefs <- TheRefs
    Matches <- TheMatches
    Length <- TheLength
    DecisionTypes = {"ops", "dev"}
    AnyType = "*"
    Levels = {1, 2}
    NoCap = NoCap
    Grants <- TheGrants
    FirstMaps <- Start
    MaxGeneration = 2
    Agents = {"agent"}
    Deciders = {"owner"}
    Options = {"A", "B"}
    MaxForks = 3
    MaxDeaths = 2
    w1 = w1
    w2 = w2
    Work = {w1, w2}
    ThisHost = ThisHost
    OtherHost = OtherHost
    Phone = Phone
    Unknown = Unknown
    MaxEvents = 2
    Auditor = "auditor"
    Executor = "executor"
    MaxCycles = 2
    MaxRefused = 1
    MaxWritten = 7
    AgentCli = "claude"
    CloudClis <- ClisListedTwice
    KnownClis = {"claude", "codex"}
    BudgetHard = 3
    ProgressTimeout = 1
    DevNames = {"first", "second"}
    RunNames = {"run"}
    OtherBranch = "other"
    MaxLines = 4
    Skills = {"bash", "web", "other"}
    Programs = {"git", "curl"}
    a = a
    b = b
    Letters = {a, b}
    Keys = {"k1", "k2"}
    Values <- ShortValues
    Mask = Mask
    MaxOutput = 4
    Plain = {"git", "MAX"}
    Typed = {"true"}
    Special = {"a: b"}
    Tiers = {"MAX"}
    MaxSkills = 2
    MaxNotes = 2
INVARIANTS
    Routable RequestStands NoWakeLost AlertedInSameWake AttemptBounded
    CheckReadAsBase PolicyWithinCeiling NothingLeft FlagReadBack
PROPERTIES
    GrowthSigned RootConsents DecisionStands CycleGrows KilledOnlyWhenIdle OnlyOwnRemoved
CHECK_DEADLOCK FALSE
