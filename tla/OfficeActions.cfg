\* Two tool calls, and a meeting of up to two people.
CONSTANTS
    a1 = a1
    a2 = a2
    ann = ann
    ben = ben
    Actions = {a1, a2}
    People = {ann, ben}
    Tools <- MCTools
SPECIFICATION FairSpec
INVARIANTS
    TypeOK
    InOrderOnce
    ReportIsTrue
PROPERTIES
    AddingKeepsEveryone
    ActionEnds
CHECK_DEADLOCK FALSE
