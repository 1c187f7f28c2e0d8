SPECIFICATION SubscriptionSpec
CONSTANTS
  SubIndices = {1, 2}
  SubGenerations = {0, 1}
  DataValues = {1, 2}
  BundleOrders <- EitherOrder
  MaxSubscriptions = 2
INVARIANT BundlesSpawn
CHECK_DEADLOCK FALSE
