SPECIFICATION MCSpec
CONSTANTS
    URIs <- MCURIs
    Accts <- MCAccts
    Conf <- MCConf
    SignsETH = {"k1"}
    NoKeystore = NoKeystore
    First = 1
    InitialNow = 2
    MaxNow = 4
    Recent = 1
    MaxRange = 1
    MaxGen = 2
    MaxFaults = 1
    Prices = {1}
    NoPrice = NoPrice
    Values = {300, 2500}
    ScriptTypes = {"p2sh", "p2wpkh", "p2tr"}
    MaxCoins = 3
    Amounts = {0, 50, 2050}
    FeeRates = {0, 2, 3000}
    RecipientSizes = {22}
    Txs = {"t1", "t2"}
    Texts = {n1, n2}
    Blank = Blank
    LegacyFiles = {f1, f2}
    MaxCrashes = 2
    ChartAccounts <- MCChartAccounts
    Known <- MCKnown
    HeightTimes <- MCHeightTimes
    Day = 2
    Now = 7
    Forms <- MCForms
    MaxRequests = 2
    FirmwareMarksOurs = {TRUE, FALSE}
    NoProposal = NoProposal
    Keys = {"mainFiat"}
    Settings = {v1, v2}
    Default = Default
    Absent = Absent
    NoConfig = NoConfig
    Torn = Torn
    Callers = {c1, c2}
    MaxChanges = 2
    MaxStarts = 2
INVARIANTS
    AoppSound
    RatesSound
    ProposalSound
    
    
    SentAsConfirmed
    SignaturesFit
    SettingsKept
PROPERTIES
    
    HistoryComplete
    ProposalEnds
CHECK_DEADLOCK FALSE
