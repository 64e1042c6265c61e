SPECIFICATION FairSpec
CONSTANTS
  Mandatory <- Guarded
  Optional <- UnguardedNoFeature
  Wifi <- WifiFetch
  Base <- First
  WifiPlan <- ThenWifi
  Features <- NoFeature
  Upgrade = "upgrade_info"
  Sms = "sms_messages"
  CallsOf <- Rounds
  NeedsFirst <- StopEarly
  Modes <- AnyMode
  Day = 2
INVARIANTS SuccessMeansAllTried
PROPERTIES FirmwareCheckThrottled PollingContinues
