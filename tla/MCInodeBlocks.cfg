CONSTANTS
    o1 = o1
    o2 = o2
    None = None
    Open <- MCOpen
    Count <- MCCount
    RootEntries <- MCRootEntries
    ImageSize <- MCImageSize
    MaxEntries = 33
    MaxWrites = 2
SPECIFICATION Spec
INVARIANTS BitmapExact SizeIsEnd FewBlocksFit SizeIsMapped
CHECK_DEADLOCK FALSE
SYMMETRY MCSymmetry
