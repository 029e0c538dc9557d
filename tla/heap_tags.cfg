\* Chunks of four to eight words in one page, holes reused, nothing written.
CONSTANTS
  page_size = 32
  SIZEOF_PAGE_HEADER = 4
  Margin = 6
  THIS_ALLOCATED_BIT = 128
  MaxPage = 1
  MaxGiven = 4
  MaxFree = 6
  Size = {3, 7}
  Data = {}
  Disciplined = FALSE
SPECIFICATION Spec
INVARIANT TagAssertion
