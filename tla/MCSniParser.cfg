CONSTANT Inputs <- AllInputs
CONSTANT Hosts <- HostNames
SPECIFICATION Spec
INVARIANTS InBounds NameInside FindsTheName DecoyIsWhole
PROPERTY ScanIsBounded
