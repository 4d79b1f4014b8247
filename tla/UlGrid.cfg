SPECIFICATION Spec
CONSTANT NofPrb = 12
INVARIANTS IntervalIsLeftmostBest UlPrbsUsable
