SPECIFICATION Spec
CONSTANT MaxId = 2
INVARIANT MovedIsSeen
