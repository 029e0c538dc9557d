\* A page, a mapping of two pages and a large one; chunks of four and six words.
CONSTANTS
  page_size = 16
  SIZEOF_PAGE_HEADER = 4
  Margin = 6
  THIS_ALLOCATED_BIT = 128
  MaxPage = 3
  MaxGiven = 3
  MaxFree = 6
  Size = {3, 4, 13}
  Data = {1}
  Disciplined = TRUE
SPECIFICATION Spec
INVARIANTS TypeOK Tiled TagsRight Coalesced NoFault DataKept MappedIsOwned
PROPERTY RefinesExecMemory
