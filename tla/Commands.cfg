SPECIFICATION CSpec
CONSTANTS
  Modules <- MCCbcs
  Names <- MCNames
  Natives <- MCNatives
  MinArgs <- MCMinArgs
  MaxArgs <- MCMaxArgs
  max_insns = 9
  max_depth = 3
INVARIANTS VerdictExactOnShort AccessesInRange IInv CallsNest AgreesWithVerifier LinesTile
PROPERTY Terminates
