\* connect() fails after a channel is open.
SPECIFICATION Spec
INVARIANT ClosedOnReturn
