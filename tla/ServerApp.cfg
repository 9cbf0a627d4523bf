SPECIFICATION Spec
CONSTANTS
  NULL = NULL
  ab = ab
  ba = ba
  cd = cd
  pw1 = pw1
  pw2 = pw2
  g12 = g12
  g21 = g21
  g33 = g33
  g44 = g44
  Users <- MCUsers
  Passwords <- MCPasswords
  Groups <- MCGroups
  Buckets <- MCBuckets
  UserBucket <- MCUserBucket
  GroupBucket <- MCGroupBucket
  Capacity <- MCCapacity
  SizeT <- MCSizeT
  MaxPartic <- MCMaxPartic
INVARIANTS
  TypeOK
  OneEntryPerBucket
  GroupAddressesDistinct
  PoolAccountsForGroups
  RegisteredIsKnown
  MembersShareAddress
  GroupsKeptApart
  ParticipantsAdmitted
PROPERTIES
  NoSecondRegistration
