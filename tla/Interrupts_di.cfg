SPECIFICATION Spec
CONSTANTS
  Lines = {0, 1}
  MaxDepth = 3
INVARIANT DisabledAfterDI
