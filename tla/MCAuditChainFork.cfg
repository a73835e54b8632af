CONSTANTS
  Writers = {w1, w2}
  NoWriter = NoWriter
  MaxEntries = 3
SPECIFICATION Spec
INVARIANT UneditedChainVerifies
