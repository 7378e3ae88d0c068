SPECIFICATION Spec
CONSTANT Families <- Sidebars
INVARIANT Lossless
CHECK_DEADLOCK FALSE
