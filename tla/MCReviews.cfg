\* Two orders of one traveler and one requester, two reviews at a time.
SPECIFICATION Spec
SYMMETRY Symmetry
CONSTANTS
  o1 = o1
  o2 = o2
  u1 = u1
  u2 = u2
  Orders = {o1, o2}
  Users = {u1, u2}
  Traveler <- MCTraveler
  Requester <- MCRequester
  None = None
  Requests = {r1, r2}
  Ratings = {2, 5}
  Editors = {u1}
  MaxReviews = 3
  MaxFailures = 1
INVARIANTS
  OneReviewEach
  RatingAgrees
  RatingWasOnceRight
CHECK_DEADLOCK FALSE
