SPECIFICATION TFSpec
CONSTANTS
  Strings = {"alice1", "ALICE1", "bob1", "tf1"}
  Accounts = {"alice", "bob", "tokenfactory"}
  AccOf <- MCAccOf
  Subdenoms = {"sub"}
  Native <- MCNative
  Blocked = {"tokenfactory"}
  Sudoers = {"alice"}
  Module = "tokenfactory"
  MaxSupply = 1
  MaxRestarts = 1
INVARIANTS RegistryConsistent NothingLeftBehind
PROPERTIES OnlyAdminHandsOver OnlyAdminMints
CHECK_DEADLOCK FALSE
