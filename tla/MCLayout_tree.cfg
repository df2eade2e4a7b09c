CONSTANTS
    top = top
    a = a
    b = b
    c = c
    Views    <- MCViews
    Root     = top
    Subviews <- MCSubviews
    Pixel    = 48
    None     = None
    Center   = Center
    Sizes    <- MCSizes
    InitialSize <- MCInitialSize
    Styles   <- MCStyles
    Insets   <- MCInsets
    MaxSets  = 1
SPECIFICATION Spec
CHECK_DEADLOCK FALSE
INVARIANTS FillsMainAxis RoomKeepsBasis InsideContent StaleNearChange
