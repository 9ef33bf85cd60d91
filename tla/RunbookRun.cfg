\* A runner, a second watcher and one controller; two tasks, the second waits
\* for an answer; one rerun.
SPECIFICATION Spec
CONSTANTS
    Runner = runner
    Watcher = {watcher}
    Controller = {controller}
    NTask = 2
    Interactive <- MCInteractive
    MaxPolls = 2
    MaxReruns = 1
INVARIANTS VerdictIsTrue RunbookIsCleanedUp DeletedMeansOver
PROPERTY WatchEnds
