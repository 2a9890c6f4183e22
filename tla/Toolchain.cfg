SPECIFICATION TSpec
CONSTANTS
  CodeOf <- FoldedAndCompiled
  Meant <- MeaningOf
  Programs <- MCSources
  Modules = {}
  Names <- MCNames
  Natives <- MCNames
  MinArgs <- MCMinArgs
  MaxArgs <- MCMaxArgs
  NativeArity <- MCNativeArity
  IntBits = 8
  max_insns = 120
  max_depth = 5
  Fuel = 14
  kMaxReg = 10
  kMaxConst = 7
  kMaxCount = 10
  MaxJump = 80
INVARIANTS CompilesExactlyTheLegal CompiledVerifies Agrees
