\* A runner alone; one task.
SPECIFICATION Spec
CONSTANTS
    Runner = runner
    Watcher = {}
    Controller = {}
    NTask = 1
    Interactive = {}
    MaxPolls = 2
    MaxReruns = 0
PROPERTY SpaceIsSafe
