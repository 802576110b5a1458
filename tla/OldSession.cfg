SPECIFICATION SbKernelSpec
CONSTANTS
    Identities = {i1}
    KReqs = {r1}
    Trusts = {t1}
INVARIANT OldSessionsRefused
CHECK_DEADLOCK FALSE
