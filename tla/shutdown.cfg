SPECIFICATION FairSpec
CONSTANTS
  HttpRequests = {r1, r2}
  GrpcCalls = {g1, g2}
INVARIANTS
  RequestsKeepTheirServer
  SpannerOutlivesCalls
PROPERTIES
  ShutdownEnds
  RequestsAreAnswered
