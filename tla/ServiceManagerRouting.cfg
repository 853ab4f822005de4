SPECIFICATION Spec
CONSTANTS
    Services = {s1}
    Requests = {r1, r2}
    Internal = {}
    Fallible = {}
    None = None
CHECK_DEADLOCK FALSE
INVARIANT
    RoutedWhenLoaded
