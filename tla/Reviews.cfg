SPECIFICATION FairSpec
CONSTANTS
  m1 = m1
  f1 = f1
  r1 = r1
  r2 = r2
  user = user
  reviewer = reviewer
  stranger = stranger
  acme = acme
  other = other
  NoReview = NoReview
  Messages = {m1}
  Feedbacks = {f1}
  Reviews = {r1, r2}
  Callers = {user, reviewer, stranger}
  CustomerOf <- MCCustomerOf
  Reviewers = {reviewer, stranger}
  AuthorOf <- MCAuthorOf
  MaxRefs = 2
  MaxAborts = 1
CHECK_DEADLOCK FALSE
INVARIANTS TypeOK ClosedByOne FeedbackTellsTheAnswer AnsweredIsHeard
PROPERTIES ImplementsDecisionLog LostToAnother EveryReviewSettles
