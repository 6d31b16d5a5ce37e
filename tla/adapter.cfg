\* Two ticks, two flits to the element and two from it, with and without
\* critical cycles.
CONSTANTS
  LastTime = 1
  Flits = 2
  Packets = 2
  MaxCredit = 2
SPECIFICATION FairSpec
INVARIANTS ToldAsRouted InterruptIsLast NeverAhead IInv
PROPERTIES EndReachesElement ElementRuns
\* the simulation model, the router and the element stop
CHECK_DEADLOCK FALSE
