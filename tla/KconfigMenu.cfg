SPECIFICATION Spec
CONSTANTS
    Bools = {"b", "q", "MODULES"}
    Tristates = {"a", "t"}
    Modules = "MODULES"
    Conditions <- MCConditions
    Prompts <- MCPrompts
    Selects <- MCSelects
    Enclosing <- MCEnclosing
    Visibles <- MCVisibles
    Defined = {"a", "b", "q"}
    ChoiceSym = "t"
    MaxDepth = 2
    MaxEntries <- MCMaxEntries
INVARIANTS DependencyKept VisibilityKept SelectKept SubmenuDepends
