SPECIFICATION Spec
CONSTANTS
  Mandatory <- Guarded
  Optional <- Unguarded
  Wifi <- WifiFetch
  Base <- First
  WifiPlan <- ThenWifi
  Features <- Enabled
  Upgrade = "upgrade_info"
  Sms = "sms_messages"
  CallsOf <- Rounds
  NeedsFirst <- StopEarly
  Modes <- InTurn
  Day = 2
INVARIANTS FailedRenewalDoesNotStopCycle
