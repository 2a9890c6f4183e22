SPECIFICATION TSpec
CONSTANTS
  CodeOf <- FoldedAndCompiled
  Meant <- MeaningOf
  Programs <- MCOverwriting
  Modules = {}
  Names <- MCNames
  Natives <- MCNames
  MinArgs <- MCMinArgs
  MaxArgs <- MCMaxArgs
  NativeArity <- MCNativeArity
  IntBits = 8
  max_insns = 200
  max_depth = 5
  Fuel = 14
  kMaxReg = 255
  kMaxConst = 65535
  kMaxCount = 255
  MaxJump = 32767
INVARIANT NeverClobbers
