SPECIFICATION FairConsole
CONSTANTS
  Width = 5
  Height = 3
  Glyphs <- MCGlyphs
  Messages <- MCMessages
  Prompt <- MCPrompt
  Banner <- MCBanner
  BufferSize = 5
  MaxArgs = 2
  Letters <- MCLetters
  MaxLine = 3
  Firmware <- MCFirmware
INVARIANTS
  OneCursor
  LineReadable
  SerialCarries
PROPERTIES
  ShowsTextScreen
  OutputEnds
