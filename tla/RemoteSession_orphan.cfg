SPECIFICATION FairSpec
CONSTANTS
    Agents = {a1}
    Browsers = {b1}
    Protocols = {"bastion"}
    Jobs = {j1}
    Frames = 0
    MaxCrashes = 0
PROPERTIES NeitherEndHangs
CHECK_DEADLOCK FALSE
