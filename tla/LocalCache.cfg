SPECIFICATION Spec
CONSTANTS
    creator = creator
    creator2 = creator2
    deleter = deleter
    deleter2 = deleter2
    updater = updater
    updater2 = updater2
    replacer = replacer
    syncer = syncer
    syncer2 = syncer2
    clearer = clearer
    NoEnv = NoEnv
    OpOf <- MCOpOf
    Named <- MCNamed
    Command = {creator, replacer, updater, syncer, clearer}
    NInitial = 2
    NEnv = 4
    PageLen = 2
    Schemas = {"current", "old"}
INVARIANTS TypeOK SilentMeansListed SilentMeansAssociated
CONSTRAINT NoErrorYet
