SPECIFICATION Spec
CONSTANTS
  Palette = {"red", "blue", "white"}
  Widths = {1, 2, 3, 10}
  Photos <- MCPhotos
  Pictures <- MCPictures
  Percents = {0, 70}
  Faults = {"preview", "stats", "disk"}
INVARIANTS TypeOK KitFitsBook FrameFits BookIsWhole OnePicture
CHECK_DEADLOCK FALSE
