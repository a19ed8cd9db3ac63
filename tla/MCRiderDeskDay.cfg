\* Two workers, two riders in two places, one order.
SPECIFICATION MCSpec
CONSTANTS
  near = near  far = far
  Riders = {raj, sita}
  Orders = {o1}
  Workers = {w1, w2}
  NoOne = NoOne
  Places = {near, far}
  Nowhere = Nowhere
  Distance <- NearAndFar
  TTL = 2
  Throttle = 1
  Lifetime = 2
SYMMETRY Symmetry
INVARIANTS TypeOK TrailBounded
PROPERTIES TrackingStays AssignedWasAvailable AssignedIsNearest
