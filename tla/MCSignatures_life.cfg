\* One static row, two server rows for a list of one, one scan, two requests
\* of agents, two changes and one fault.
CONSTANTS
    Static = {s1}
    Server = {v1, v2}
    Invalid = {}
    BuiltIn = BuiltIn
    ServerLimit = 1
    NoList = {nothing}
    Scans = {c1}
    Agents = {q1, q2}
    MaxChanges = 2
    MaxFaults = 1
SPECIFICATION FairSpec
INVARIANTS TypeOK OneLoader ScansNeverBlind
PROPERTIES CachesConverge AgentsServed
