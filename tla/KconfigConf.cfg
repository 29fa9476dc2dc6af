CONSTANTS
    Bools = {"MODULES", "d", "x", "z", "c", "p", "q"}
    Tristates = {"t", "ct", "u"}
    Modules = "MODULES"
    Numbers = {"num", "c1", "c3", "c5"}
    Literals = {"c1", "c3", "c5"}
    LiteralValue <- MCLiteralValue
    Ranged = {"num"}
    ChoiceSyms = {"c", "ct"}
    Tables <- MCTables
    NumberInputs = {0, 4}
    MenuOrder <- MCMenuOrder
    Nodes = {"root", "menu", "MODULES", "d", "x", "z", "c", "p", "q", "num", "t", "ct", "u"}
    RootMenu = "root"
    Menuconfigs = {"d"}
    Jobs = {"config", "oldconfig", "olddefconfig", "defconfig", "savedefconfig", "syncconfig", "allno", "allyes"}
    FirstFiles <- MCFirstFiles
    MaxRuns = 2
    MaxKills = 1
    MaxUpgrades = 1

SPECIFICATION ConfSpec
INVARIANTS RoundTrip DefconfigSuffices
PROPERTIES WritesAsPromised ConfigKept HeadersTouched RunsEnd
