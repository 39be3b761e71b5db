SPECIFICATION Spec
CONSTANTS
  Units = 4096
  Signed = 2048
  Page = 256
  Sizes = {512, 1024}
  MaxChunks = 2
  MaxAllocs = 8
INVARIANT KeepsContents
CHECK_DEADLOCK FALSE
