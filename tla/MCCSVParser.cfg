CONSTANTS
    Chars <- MCChars
    Settings <- MCSettings
    Null = Null
    MaxLength = 6
SPECIFICATION Spec
INVARIANTS
    CutsDoNotMatter
