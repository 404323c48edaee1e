SPECIFICATION FairSpec
CONSTANTS
    Peer = {p}
    MaxLog = 3
    MaxLeads = 2
CHECK_DEADLOCK FALSE
PROPERTIES CatchesUp LeaderCommits LoopsEnd
