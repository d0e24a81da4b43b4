SPECIFICATION PresentationSpec
CONSTANTS
  Terminals = {t1, t2}
  Directories = {d1}
  NoDirectory = nowhere
  Mishaps = FALSE
PROPERTIES AttachedIsKept
CHECK_DEADLOCK FALSE
