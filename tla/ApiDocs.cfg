SPECIFICATION Spec
CONSTANT Links <- MCLinks
INVARIANTS TypeOK NothingIsMissing BuiltFromWholeScripts
PROPERTIES DocumentIsShown
