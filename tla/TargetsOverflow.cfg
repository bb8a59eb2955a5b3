SPECIFICATION Spec
CONSTANTS
  a4 = a4
  b4 = b4
  a6 = a6
  Addresses <- AllAddresses
  FamilyOf <- Families
  Answers <- SomeAnswers
  NoAddress = NoAddress
  Minutes = 6
  DefaultMinutes = 1
  MinuteMs = 6
  TickMs = 3
  Late = 1
  Modulus = 32
PROPERTY
  RefreshOnTime
