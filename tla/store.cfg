SPECIFICATION ProfileSpec
CONSTANTS
  main = main
  web = web
  Writer = {main, web}
  Sections = 2
  Value = {x, y}
  Func <- MCFunc
INVARIANT ProfileTypeOK
INVARIANT NeverLost
INVARIANT SettingsAgree
PROPERTY Atomic
PROPERTY UpgradesOnce
