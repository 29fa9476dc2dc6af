CONSTANTS
    Bools = {"d", "c", "p", "q", "x", "z"}
    Tristates = {}
    Modules = "n"
    Numbers = {"num", "c1", "c3", "c5"}
    Literals = {"c1", "c3", "c5"}
    LiteralValue <- MCLiteralValue
    Ranged = {"num"}
    ChoiceSyms = {"c"}
    Tables <- MCTables
    NumberInputs = {5, 9}
    MenuOrder <- MCMenuOrder
    Nodes = {"root", "d", "num", "menu", "c", "p", "q", "x", "z"}
    RootMenu = "root"
    Menuconfigs = {"d"}
    Programs <- MCPrograms
    FileNames = {"alt", "none"}
    FirstFiles <- MCFirstFiles
    MaxEdits = 2
    MaxFiled = 1
    MaxTurns = 2
    MaxDepth = 3
    Searches = {"z"}

SPECIFICATION FrontendsSpec
INVARIANTS NothingUnsaved LoadIsFresh GtkRowsShow QtRowsFresh
CHECK_DEADLOCK FALSE
