SPECIFICATION FairSpec
CONSTANTS
  MaxDrift = 2
  CriticalDrift = 3
  TelemetryDrift = 999
  GatewayConfigured = TRUE
  MaxHeight = 4
INVARIANTS DriftMeansSafetyMode CriticalReportWasInForce
           ClearingMeansCaughtUp AlarmsAreWorkedOff
PROPERTIES  LastingFaultIsRaisedAgain
