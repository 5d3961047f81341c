CONSTANT Setups <- DocumentedWalk
SPECIFICATION Spec
CHECK_DEADLOCK FALSE
INVARIANT StablePagination
