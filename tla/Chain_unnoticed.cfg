\* A link drops while the welcome text of its last hop is drained.
CONSTANT Hops = 2
SPECIFICATION Spec
INVARIANT FailureMarkersRaise
