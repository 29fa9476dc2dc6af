CONSTANTS
    Bools = {"MODULES", "d", "x", "c", "p", "q"}
    Tristates = {"t", "u", "k"}
    Modules = "MODULES"
    Numbers = {"num", "h", "c1", "c3", "c5"}
    Literals = {"c1", "c3", "c5"}
    LiteralValue <- MCLiteralValue
    Ranged = {"num"}
    ChoiceSyms = {"c", "k"}
    Tables <- MCTables
    NumberInputs = {0, 4}

SPECIFICATION Spec
INVARIANTS CyclesReported CacheIsFresh ChoiceHasOne SetSticks SetBackRestores
