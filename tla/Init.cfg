SPECIFICATION Spec
CONSTANTS
  None = None
  Rows <- CRows
  Inside <- CInside
  Benign <- CBenign
  Found <- CFound
  Widths = {"wide", "narrow"}
  Lines <- CLines
  Rooms = {1, 4}
  Window = 2
  MaxAnswers = 1
  Spare <- CSpare
  MaxRows = 2
  New = "New"
  Key <- CKey
  Profiles = {"core/go", "core/mise"}
  Shadows <- CShadows
  CoreMise = "core/mise"
  Commanded = {"core/go"}
  Commands <- CCommands
  Absent = Absent
  Blank = Blank
  Broken = Broken
  Earlier <- CEarlier
  MaxEdits = 1
INVARIANTS
  ScreenFits
  WholeFile
PROPERTIES
  KeepsContract
  NothingLost
