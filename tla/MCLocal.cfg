SPECIFICATION Spec
CONSTANTS
    Ports = {p1, p2}
    DefaultPort = p1
    BadPort = bad_port
    NoPort = no_port
    MaxStarts = 2
    Dirs <- DemoDirs
    Files <- DemoFiles
    SessionKeys = {k1, k2}
    NoKey = no_key
    MaxAnswers = 3
    MaxAttributes = 3
SYMMETRY Symmetry
INVARIANTS
    TypeOK
    PortsAgree
    FieldFollowsPrecedence
    MarksAreTrue
    ArchiveOpens
PROPERTIES
    ProfileSurvivesRestart
    PayloadIsTheSelection
    ThreadImplementsSettings
    ThreadFindsWhatIsThere
CHECK_DEADLOCK FALSE
