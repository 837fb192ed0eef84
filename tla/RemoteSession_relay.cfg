SPECIFICATION BoundedSpec
CONSTANTS
    Agents = {a1, a2}
    Browsers = {b1, b2}
    Protocols = {"shell", "bastion", "oblireach", "vmconsole"}
    Jobs = {j1, j2}
    Frames = 2
    MaxCrashes = 1
INVARIANTS TypeOK OneAgentHears ActiveHasItsAgent FramesInOrder
PROPERTIES NeverReopened
SYMMETRY Symmetric
CHECK_DEADLOCK FALSE
