SPECIFICATION Spec
CONSTANTS
  f = f
  g = g
  x = x
  y = y
  Threads = {t1, t2}
  Writer = t1
  Pairs <- TwoPairs
  Max = 2
  Modes <- AllModes
  Nobody = Nobody
INVARIANTS TypeOK HookSettles SlotsAreWhole
PROPERTIES CalledIsRegistered ImplementsRegistry
