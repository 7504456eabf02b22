SPECIFICATION Spec
CONSTANTS
  p1 = p1  p2 = p2  q1 = q1  q2 = q2  rt1 = rt1  rt2 = rt2
  None = None
  Processes <- MCProcesses
  Requests <- MCRequests1
  RTs <- MCRTs
  FileRTs <- MCFileRTs
  Limit = 1
  MaxCreds = 3
  MayCrash = TRUE
PROPERTIES ImportLeavesManagedAlone
