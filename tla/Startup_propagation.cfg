CONSTANTS
    Process = {p1}
    MaxFaults = 1
SPECIFICATION Spec
INVARIANT PropagationAsked
