SPECIFICATION Spec
INVARIANT
    ReportsSent
CHECK_DEADLOCK FALSE
