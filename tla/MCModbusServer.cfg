SPECIFICATION FairSpec
CONSTANTS
  Requests <- MCRequests
  Images <- MCImages
  Puts <- MCPuts
  MaxRequests = 2
  MaxJobs = 1
PROPERTIES
  RepliesAnswerTheirRequest
  CommitTakesItsImage
  ImagesKeepTheTables
  RequestsAreAnswered
CHECK_DEADLOCK FALSE
