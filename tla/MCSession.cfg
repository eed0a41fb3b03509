SPECIFICATION SessionSpec
CONSTANTS
  SystemFiles = {json, font, log, file1, file2}
  RepairedFiles = {json, font, log, file1}
  Vital = {json, font}
  SystemLog = log
INVARIANTS Unlocked Boots
