SPECIFICATION PartsSpec
CONSTANTS
    Elems = {1, 2, 3, 4, 5, 6}
    Keys = {1, 2}
    elem_size = 12
    lsbit = 4
    Nobody = Nobody
CHECK_DEADLOCK FALSE
INVARIANTS
    IntervalsExact
    ReportExact
    RequestLatency
    TreePrinted
    NamesKept
    OutputExact
    TimesExact
    RoundsExact
    RunsAsWritten
PROPERTY Implements
