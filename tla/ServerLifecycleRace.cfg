\* One start and one stop: stop() may come before the ports are bound.
SPECIFICATION FairSpec
CONSTANT MaxStarts = 1
PROPERTY StopEndsListeners
CHECK_DEADLOCK FALSE
