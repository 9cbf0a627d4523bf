SPECIFICATION ChatSpec
CONSTANTS
  NULL = NULL
  c1 = c1
  c2 = c2
  ab = ab
  ba = ba
  pw1 = pw1
  pw2 = pw2
  g12 = g12
  g21 = g21
  g33 = g33
  Clients <- TwoClients
  Users <- MCUsers
  Passwords <- OnePassword
  Groups <- MCGroups
  Buckets <- MCBuckets
  UserBucket <- MCUserBucket
  GroupBucket <- MCGroupBucket
  Mangled <- MCMangled
  Capacity <- MCCapacity
  SizeT <- MCSizeT
  MaxPartic = 2
  CLIENTS_LIMIT = 2
  BackLog = 1
SYMMETRY Symmetry
VIEW View
INVARIANTS
  ChatTypeOK
  AnswerToTheQuestion
  WindowOnGroupAddress
  ParticipantsCoverWindows
  SuccessIsRecorded
  RefusalsHaveCause
CHECK_DEADLOCK FALSE
