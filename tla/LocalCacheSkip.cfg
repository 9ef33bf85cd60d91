SPECIFICATION Spec
CONSTANTS
    creator = creator
    creator2 = creator2
    deleter = deleter
    deleter2 = deleter2
    updater = updater
    updater2 = updater2
    replacer = replacer
    syncer = syncer
    syncer2 = syncer2
    clearer = clearer
    NoEnv = NoEnv
    OpOf <- MCOpOf
    Named <- MCNamed
    Command = {deleter, syncer}
    NInitial = 2
    NEnv = 2
    PageLen = 1
    Schemas = {"current"}
INVARIANT ListsEverything
