SPECIFICATION Spec
CONSTANTS
  Inputs <- MCInputs
  Modules <- MCModules
INVARIANTS CursorInBounds IInv LoadedIsModule RoundTrip TruncationRejected Canonical
