CONSTANTS
    Texts <- MCTexts
    Seats = {"builder", "critic"}
    Catalogue = {"m1", "m2", "m3"}
    Levels = {"low", "high"}
    Themes = {"t1", "t2"}
    Frontmatter <- MCFrontmatter
    SeatRows <- MCSeatRows
    Groups <- MCGroups
    Name <- MCName
    Letters = {"b"}
    MaxQuery = 1
    Docs <- MCDocs
    Typed <- MCTyped
    MaxSaves = 1
    MaxWrites = 1
SPECIFICATION ConfigLiveSpec
CHECK_DEADLOCK FALSE
PROPERTIES SeatWriteIsExact ClearAndGateAreExact ThemeSettles
