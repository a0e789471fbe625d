SPECIFICATION FairSpec
CONSTANTS
  r1 = r1
  r2 = r2
  s1 = s1
  s2 = s2
  Requests = {r1, r2}
  Addresses = {s1, s2}
  Queries <- MCQueries
  Bodies_ <- MCBodies
  Uploads <- MCUploads
  Deployments <- MCDeployments
  MaxCount = 2
INVARIANTS
  TypeOK
  UploadAnsweredMeansStored
  HandlersGetTypedInput
  ThrottledWithItsSocket
PROPERTIES
  StatusIsSentOnce
  HealthIsAnswered
