SPECIFICATION Spec
CONSTANTS
  Jobs <- MCJobs
  MaxPointerHops = 2
  MaxLabel = 63
  MaxName = 255
INVARIANT WorkBounded
INVARIANT NameIsReference
INVARIANT MessageIsReference
INVARIANT BitmapIsReference
INVARIANT QueryIsReadBack
