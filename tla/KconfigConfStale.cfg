CONSTANTS
    Bools = {"MODULES", "d", "x", "z", "c", "p", "q"}
    Tristates = {"t", "ct", "u"}
    Modules = "MODULES"
    Numbers = {"num", "c1", "c3", "c5"}
    Literals = {"c1", "c3", "c5"}
    LiteralValue <- MCLiteralValue
    Ranged = {"num"}
    ChoiceSyms = {"c", "ct"}
    Tables <- Calculating
    NumberInputs = {0, 4}
    MenuOrder <- MCMenuOrder
    Nodes = {"root", "menu", "MODULES", "d", "x", "z", "c", "p", "q", "num", "t", "ct", "u"}
    RootMenu = "root"
    Menuconfigs = {"d"}
    Jobs = {"config", "oldconfig", "olddefconfig", "defconfig", "savedefconfig", "syncconfig", "allno", "allyes"}
    FirstFiles <- MCFirstFiles
    MaxRuns = 1
    MaxKills = 0
    MaxUpgrades = 0

SPECIFICATION ConfSpec
INVARIANT ValidIsUpToDate

