\* Structures and arrays in each other, up to three levels.
CONSTANT Inputs <- Samples
SPECIFICATION Spec
INVARIANT RoundTrip
PROPERTY Converts
CHECK_DEADLOCK FALSE
