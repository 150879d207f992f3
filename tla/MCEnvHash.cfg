SPECIFICATION Spec
CONSTANTS
  HASH_PRIME = 2
  HASH <- MCHash
  TEXTS <- MCTexts
  COMPILED <- MCCompiled
  FILES <- MCFiles
  COMMANDS <- MCCommands
  ENVIRONS <- MCEnvirons
  OUTPUT = "./output"
  FAILURES = 1
  NULL = NULL
INVARIANTS
  SettingsInOrder
PROPERTIES
  IsTable
