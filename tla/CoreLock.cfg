CONSTANTS
  Cpu <- Three
  Cookie = {x1}
  Hotplug <- FirstTwo
  None = None
  All = All
SPECIFICATION Spec
INVARIANTS
  RqLockHeld
  HoldersGoOn
  CookiesCounted
