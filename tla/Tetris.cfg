SPECIFICATION FairSpec
CONSTANTS
  FIELD_WIDTH = 4
  FIELD_HEIGHT = 5
  StartX = 0
  Types <- MCTypes
  Beyond <- MCBeyond
  BLOCK_SIZE = 2
  PreviewX = 5
INVARIANTS
  PieceFits
  ShowsGame
PROPERTIES
  LandingClearsRows
  PiecesLand
