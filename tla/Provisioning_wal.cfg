SPECIFICATION Spec
CONSTANTS
  r1 = r1
  r2 = r2
  d1 = d1
  d2 = d2
  d3 = d3
  d4 = d4
  e1 = e1
  e2 = e2
  c1 = c1
  c2 = c2
  None = None
  Run <- OneRun
  Document <- Documents
  Epoch <- Epochs
  Capture <- Captures
  EpochOf <- EpochOfDocument
  CaptureOf <- CaptureOfDocument
  MaxSchema = 0
  MaxOperations = 2
PROPERTIES
  LostWalIsNotRecreated
