\* Two programs, one relay, and nothing else going wrong.
SPECIFICATION Spec
CONSTANTS
    Writers = {w1, w2}
    MaxFaults = 0
INVARIANT SameValueIsIdempotent
