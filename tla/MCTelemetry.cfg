SPECIFICATION TelemetrySpec
CONSTANTS
  Frames <- MCFrames
  Writers <- MCWriters
  Caller <- MCCaller
  Role <- MCRole
  Turn <- MCTurn
  Tool <- MCTool
  Kind <- MCKind
  Instruments <- MCInstruments
  Views <- MCViews
  Class <- MCClass
  Bounds <- MCBounds
  Durations = {1, 3}
  MaxSeries = 1
  Agents = 1
  Crashes = 1
INVARIANTS CountsAreTrue ScrapesAreTrue TraceIsWhole
CHECK_DEADLOCK FALSE
