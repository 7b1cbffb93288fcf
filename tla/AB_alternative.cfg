SPECIFICATION PlansSpec
INVARIANT AlternativeIsIgnored
CHECK_DEADLOCK FALSE
