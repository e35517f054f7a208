SPECIFICATION Spec
CONSTANTS
  Values <- MCValues
  Threshold = 99
  Profiles <- MCProfiles
  Unlimited = Unlimited
  Takes = {0, 1}
  Limits <- MCLimits
  NoLimit = NoLimit
  Steps <- MCSteps
  MaxCalls = 4
  MaxSteps = 3
INVARIANTS StableIsSteady EndsInTime PassIsAboutTheReading SequenceVerdict
CHECK_DEADLOCK FALSE
