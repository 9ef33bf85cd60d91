SPECIFICATION CompilationSpec
CONSTANTS
    None = None
    Macro = Macro
    Program <- Programs
    World <- Worlds
    Machine <- Machines
\* What is compiled, decompiled and compiled again has come to its end.
CHECK_DEADLOCK FALSE
INVARIANTS EdgesKeepOrder PlainProgramsCompile DecompileKeepsProgram PlacedTogether DecompileKeepsPlacement
