CONSTANT file = file
CONSTANT net = net
CONSTANT star = star
CONSTANT readFile = readFile
CONSTANT useNet = useNet
CONSTANT agent = agent
CONSTANT deputy = deputy
CONSTANT any = any
CONSTANT unsaid = unsaid
CONSTANT author = author
CONSTANT other = other
CONSTANT absent = absent
CONSTANT misshapen = misshapen
CONSTANT noFile = noFile
CONSTANT badJSON = badJSON
CONSTANT unreadable = unreadable
CONSTANT noPath = noPath
CONSTANT Resources <- TwoResources
CONSTANT Patterns <- ThreePatterns
CONSTANT Covers <- CoverTable
CONSTANT Agents <- TwoAgents
CONSTANT DefaultDeny <- Second
CONSTANT Cases <- AllCases
CONSTANT Keys <- TwoKeys
CONSTANT Phrase <- Phrase1
CONSTANT Markers <- MarkerWords
CONSTANT Script <- ScriptTable
CONSTANT Characters <- AllCharacters
CONSTANT Invisible <- InvisibleChars
CONSTANT Fold <- FoldTable
CONSTANT Base64 <- Letters
CONSTANT Payload <- PayloadTable
CONSTANT Class <- ClassTable
CONSTANT Star = star
CONSTANT AnyPrincipal = any
CONSTANT NumCategories = 2
CONSTANT Unsaid = unsaid
CONSTANT Absent = absent
CONSTANT Misshapen = misshapen
CONSTANT NoFile = noFile
CONSTANT BadJSON = badJSON
CONSTANT Unreadable = unreadable
CONSTANT NoPath = noPath
CONSTANT MinBlob = 3
CONSTANT DataURI = "data:"
CONSTANT Space = " "
SPECIFICATION Spec
CHECK_DEADLOCK FALSE
INVARIANT PolicyIsWhatWasSigned
INVARIANT ExitZeroMeansPassed
INVARIANT GatesAgree
INVARIANT PassMeansGranted
INVARIANT HintsAreHeeded
INVARIANT BlocksAreCorroborated
INVARIANT IsolatedSignalStaysUnder
INVARIANT EvidenceNeverHelps
INVARIANT DisguiseNeverHelps
INVARIANT CollapseIsNoticed
