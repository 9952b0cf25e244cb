SPECIFICATION StackFairSpec
CONSTANTS
  Forms <- AllForms
  MaxCrashes = 1
INVARIANTS StackIsAsDeclared  CrashesAreSeen
PROPERTIES AppsWaitForTheirData BootsComeToAnEnd
