CONSTANTS
  Width = 4
  K = 2
  Nexthop = {1, 2}
  Family <- MCOneFamily
  MaxRoutes = 4
  RoutePrefix <- MCSomePrefixes
  Deletions = "present"
SPECIFICATION Spec
INVARIANT FibIsLongestPrefix
