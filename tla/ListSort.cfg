CONSTANTS
    Nodes = {1, 2, 3}
    ValueOf <- MCValueOf
    Comparators = {"lt"}
SPECIFICATION ListSpec
INVARIANT SortEnds
CHECK_DEADLOCK FALSE
