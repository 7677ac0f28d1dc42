\* Messages of the tests, as the code resolves them.
SPECIFICATION Spec
CONSTANT MaxActions = 2
INVARIANT RoutesAsTested
CHECK_DEADLOCK FALSE
