\* The same instance, against the abstract specification.
CONSTANTS
    a1 = a1
    a2 = a2
    ann = ann
    ben = ben
    Actions = {a1, a2}
    People = {ann, ben}
    Tools <- MCTools
SPECIFICATION Spec
PROPERTIES ImplementsApprovedChanges
CHECK_DEADLOCK FALSE
