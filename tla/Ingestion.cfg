CONSTANTS
  MinWords = 20
  ImageArea = 35
  OcrArea = 55
  Pages <- SmallPages
  MaxPages = 2
  MaxChunks = 2
  BatchSize = 2
SPECIFICATION Spec
CHECK_DEADLOCK FALSE
INVARIANTS TypeOK PagesRead Aligned
