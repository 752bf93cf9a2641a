SPECIFICATION SudoSpec
CONSTANTS
  Addrs = {a1, a2, a3}
  Replicas = {n1, n2}
  Spellings = {"lower"}
  MaxContracts = 2
  GenesisRoot = a1
INVARIANT SudoersAgree
