SPECIFICATION SmpFairSpec
CONSTANTS
  Machines <- NestedIds
  Self = 0
INVARIANTS
  HandshakeSound

  
