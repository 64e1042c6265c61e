SPECIFICATION FairSpec
CONSTANTS
  Fields = {f, id, lan}
  Id = id
  Enabled = f
  Values = {off, on}
  Off = off
  NoValue = NoValue
  Groups = {g, h}
  Macs = {a, b}
  NoGroup = NoGroup
  Commands = {x}
  MaxChanges = 2
INVARIANTS
  LastAskWins
  DevicesAreWhereTheyWerePut
PROPERTIES
  OnlyTheAskedFieldChanges
  SettingsAreMirrored
  LeftAloneIsShown
