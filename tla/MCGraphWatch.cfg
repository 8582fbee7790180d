SPECIFICATION Spec
CONSTANTS
    Servers = {p1, p2}
    Cli = cli
    NoOne = noone
    MaxCommits = 1
    MaxChanges = 2
    MaxMishaps = 2
    MaxEvents = 2
CHECK_DEADLOCK FALSE
 
PROPERTIES LeaderSettles
