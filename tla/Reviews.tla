------------------------------ MODULE Reviews ------------------------------
(***************************************************************************)
(* Reviews of orders and the ratings that users carry: ReviewService.      *)
(* create checks for a duplicate, inserts the review, reads all reviews of *)
(* the reviewee in that role again and stores their average and number in  *)
(* the users table, each in an await of its own.                           *)
(*                                                                         *)
(* The ratings are columns of a row that UserService and AuthService load  *)
(* and save as a whole, for a profile, a password or a token: such a save  *)
(* writes back the ratings that were stored after the load.                *)
(***************************************************************************)
EXTENDS Integers, Sequences, FiniteSets, Functions, Persistence

CONSTANTS
  Orders,
  Users,
  Traveler,       \* who travels for an order
  Requester,      \* and who requested it
  None,           \* no order, no user
  Requests,       \* the slots in which HTTP requests are served
  Ratings,        \* the ratings given
  Editors,        \* bound: the users whose rows other services save
  MaxReviews,     \* bound: the number of reviews
  MaxFailures     \* bound: how often a handler may die half way

ASSUME PartiesAssumption ==
  /\ Traveler \in [Orders -> Users] /\ Requester \in [Orders -> Users]
  /\ \A o \in Orders : Traveler[o] # Requester[o]
ASSUME RatingsAssumption == Ratings \subseteq 1..5 /\ Editors \subseteq Users
ASSUME BoundsAssumption == MaxReviews \in Nat /\ MaxFailures \in Nat

VARIABLES
  window,         \* per order: whether it can be reviewed yet, still, or no more
  reviews,        \* the reviews table, in the order of insertion
  rating,         \* users.<role>_rating, in hundredths, and <role>_review_count
  handler,        \* what the requests are doing
  failures,       \* how many handlers died so far
  raced,          \* ghost: <<order, party>> of which two requests passed the check
  unsettled,      \* ghost: <<user, role>> whose last updates overlapped or died
  torn            \* ghost: <<user, role>> that a save of the user wrote back

vars == <<window, reviews, rating, handler, failures, raced, unsettled, torn>>

-----------------------------------------------------------------------------
Party == {"traveler", "requester"}

Other(party) == IF party = "traveler" THEN "requester" ELSE "traveler"

\* Who plays a part in an order.
Actor(o, party) == IF party = "traveler" THEN Traveler[o] ELSE Requester[o]

\* A review by one party is about the other, in the role of that other.
Subject(o, party) == <<Actor(o, Other(party)), Other(party)>>
Subjects == Users \X Party

Review == [order: Orders, by: Party, rating: Ratings]

\* The stars of the reviews about somebody that are among the first n of the table.
AboutFirst(subject, n) ==
  [i \in {i \in DOMAIN reviews :
            i <= n /\ Subject(reviews[i].order, reviews[i].by) = subject} |-> reviews[i].rating]

About(subject) == AboutFirst(subject, Len(reviews))

\* The average in hundredths: toFixed(2) rounds, and a tie up.  Of fewer than 40
\* reviews every tie is a binary fraction, and the division exact.
Average(stars) ==
  LET number == Cardinality(DOMAIN stars)
  IN  (200 * SumFunction(stars) + number) \div (2 * number)

\* What updateUserRating makes of the reviews it found.
Summary(stars) == [average |-> Average(stars), count |-> Cardinality(DOMAIN stars)]
NoRating == [average |-> 0, count |-> 0]

(***************************************************************************)
(* loaded    the order was found and may be reviewed                       *)
(* checked   no review of the order by this party was found                *)
(* inserted  the review is in the table                                    *)
(* collected the reviews of the reviewee were read, the user is not stored *)
(* entity    another service has loaded a user, whom it will save          *)
(* selected  save has compared that user with the stored row               *)
(***************************************************************************)
Phase == {"idle", "loaded", "checked", "inserted", "collected", "entity", "selected"}

\* With one to five stars each the average fits the column, a decimal(3,2).
Rating == [average: {0} \cup 100..500, count: Nat]
Columns == {"average", "count"}

HandlerState ==
  [phase: Phase, order: Orders \cup {None}, by: Party, summary: Rating,
   user: Users \cup {None}, entity: [Party -> Rating], dirty: [Party -> SUBSET Columns]]

Idle == [phase |-> "idle", order |-> None, by |-> "traveler",
         summary |-> NoRating, user |-> None,
         entity |-> [p \in Party |-> NoRating], dirty |-> [p \in Party |-> {}]]

Window == {"early", "open", "over"}

TypeOK ==
  /\ window \in [Orders -> Window]
  /\ reviews \in Seq(Review)
  /\ rating \in [Subjects -> Rating]
  /\ handler \in [Requests -> HandlerState]
  /\ failures \in Nat
  /\ raced \subseteq Orders \X Party
  /\ unsettled \subseteq Subjects
  /\ torn \subseteq Subjects

Init ==
  /\ window = [o \in Orders |-> "early"]
  /\ reviews = <<>>
  /\ rating = [s \in Subjects |-> NoRating]
  /\ handler = [r \in Requests |-> Idle]
  /\ failures = 0
  /\ raced = {}
  /\ unsettled = {}
  /\ torn = {}

Tables == <<window, reviews, rating, failures, raced, unsettled, torn>>

Waiting(r) == handler[r].phase = "idle"
Assign(r, state) == handler' = [handler EXCEPT ![r] = state]

\* Handlers whose review about the subject is inserted but not yet counted.
Counting(subject) ==
  {r \in Requests : /\ handler[r].phase \in {"inserted", "collected"}
                    /\ Subject(handler[r].order, handler[r].by) = subject}

-----------------------------------------------------------------------------
\* An order is delivered or completed; later it is disputed, or seven days pass.
WindowMoves(o) ==
  /\ \/ window[o] = "early" /\ window' = [window EXCEPT ![o] = "open"]
     \/ window[o] = "open" /\ window' = [window EXCEPT ![o] = "over"]
  /\ UNCHANGED <<reviews, rating, handler, failures, raced, unsettled, torn>>

\* POST orders/:id/reviews: the order is found and may be reviewed.
CreateReview(r) ==
  \E o \in Orders, party \in Party :
    /\ Waiting(r) /\ window[o] = "open" /\ Len(reviews) < MaxReviews
    /\ Assign(r, [Idle EXCEPT !.phase = "loaded", !.order = o, !.by = party])
    /\ UNCHANGED Tables

\* Defective variant: it is the other party's review that is looked for.
DuplicateOfOther(o, party) ==
  \E i \in DOMAIN reviews : reviews[i].order = o /\ reviews[i].by = Other(party)

Duplicate(o, party) == \E i \in DOMAIN reviews : reviews[i].order = o /\ reviews[i].by = party

\* The query for a review of the same order by the same user.
CheckDuplicate(r) ==
  LET x == handler[r] IN
  /\ x.phase = "loaded"
  /\ Assign(r, IF Duplicate(x.order, x.by) THEN Idle ELSE [x EXCEPT !.phase = "checked"])
  /\ UNCHANGED Tables

\* The insert.  Nothing in the table keeps a second review out.
InsertReview(r) ==
  \E stars \in Ratings :
    LET x == handler[r]
        subject == Subject(x.order, x.by)
    IN /\ x.phase = "checked" /\ Len(reviews) < MaxReviews
       /\ reviews' = Append(reviews, [order |-> x.order, by |-> x.by, rating |-> stars])
       /\ raced' = IF \E other \in Requests \ {r} :
                        /\ handler[other].phase = "checked"
                        /\ handler[other].order = x.order /\ handler[other].by = x.by
                   THEN raced \cup {<<x.order, x.by>>} ELSE raced
       /\ unsettled' = IF Counting(subject) = {} THEN unsettled \ {subject}
                       ELSE unsettled \cup {subject}
       /\ Assign(r, [x EXCEPT !.phase = "inserted"])
       /\ UNCHANGED <<window, rating, failures, torn>>

\* Defective variant: only the reviews of the same order are read.
CollectReviewsOfOrder(r) ==
  LET x == handler[r]
      found == {i \in DOMAIN reviews : reviews[i].order = x.order /\ reviews[i].by = x.by}
  IN /\ x.phase = "inserted"
     /\ Assign(r, [x EXCEPT !.phase = "collected", !.summary = Summary([i \in found |-> reviews[i].rating])])
     /\ UNCHANGED Tables

\* updateUserRating reads the reviews.
CollectReviews(r) ==
  LET x == handler[r] IN
  /\ x.phase = "inserted"
  /\ Assign(r, [x EXCEPT !.phase = "collected",
                         !.summary = Summary(About(Subject(x.order, x.by)))])
  /\ UNCHANGED Tables

\* Defective variant: the number is counted up instead of replaced.
StoreRatingCounted(r) ==
  LET x == handler[r] IN
  /\ x.phase = "collected"
  /\ rating' = [rating EXCEPT ![Subject(x.order, x.by)] =
                  [average |-> x.summary.average, count |-> @.count + 1]]
  /\ torn' = torn \ {Subject(x.order, x.by)}
  /\ Assign(r, Idle)
  /\ UNCHANGED <<window, reviews, failures, raced, unsettled>>

\* It stores what it made of them.
StoreRating(r) ==
  LET x == handler[r] IN
  /\ x.phase = "collected"
  /\ rating' = [rating EXCEPT ![Subject(x.order, x.by)] = x.summary]
  /\ torn' = torn \ {Subject(x.order, x.by)}
  /\ Assign(r, Idle)
  /\ UNCHANGED <<window, reviews, failures, raced, unsettled>>

\* updateMe, a change or reset of the password and the like load a user.
LoadUser(r) ==
  \E u \in Editors :
    /\ Waiting(r)
    /\ Assign(r, [Idle EXCEPT !.phase = "entity", !.user = u,
                              !.entity = [p \in Party |-> rating[<<u, p>>]]])
    /\ UNCHANGED Tables

\* First statement of their save.  With no rating to write they are done here.
SelectUser(r) ==
  LET x == handler[r]
      dirty == [p \in Party |-> DirtyColumns(x.entity[p], rating[<<x.user, p>>])]
  IN /\ x.phase = "entity"
     /\ Assign(r, IF dirty = Idle.dirty THEN Idle
                  ELSE [x EXCEPT !.phase = "selected", !.dirty = dirty])
     /\ UNCHANGED Tables

\* Second statement: the ratings that had changed since the load are written back.
SaveUser(r) ==
  LET x == handler[r]
      hit == {s \in Subjects : s[1] = x.user /\ x.dirty[s[2]] # {}}
  IN /\ x.phase = "selected"
     /\ rating' = [s \in Subjects |->
                     IF s \in hit THEN SavedColumns(rating[s], x.entity[s[2]], x.dirty[s[2]])
                     ELSE rating[s]]
     /\ unsettled' = unsettled \cup hit
     /\ torn' = torn \cup hit
     /\ Assign(r, Idle)
     /\ UNCHANGED <<window, reviews, failures, raced>>

\* An await throws, or the process stops.
Fail(r) ==
  LET x == handler[r] IN
  /\ ~Waiting(r) /\ failures < MaxFailures
  /\ failures' = failures + 1
  /\ unsettled' = IF x.phase \in {"inserted", "collected"}
                  THEN unsettled \cup {Subject(x.order, x.by)} ELSE unsettled
  /\ Assign(r, Idle)
  /\ UNCHANGED <<window, reviews, rating, raced, torn>>

HandlerStep(r) ==
  \/ CheckDuplicate(r)
  \/ InsertReview(r)
  \/ CollectReviews(r)
  \/ StoreRating(r)
  \/ SelectUser(r)
  \/ SaveUser(r)

Next ==
  \/ \E o \in Orders : WindowMoves(o)
  \/ \E r \in Requests : CreateReview(r) \/ LoadUser(r) \/ HandlerStep(r) \/ Fail(r)

Spec == Init /\ [][Next]_vars

-----------------------------------------------------------------------------
(***************************************************************************)
(* Properties.                                                             *)
(***************************************************************************)

\* A party has at most one review of an order, unless two of its requests had
\* both passed the check for a duplicate before either inserted its review.
OneReviewEach ==
  \A o \in Orders, party \in Party :
    <<o, party>> \notin raced =>
      Cardinality({i \in DOMAIN reviews : reviews[i].order = o /\ reviews[i].by = party}) <= 1

\* The rating that a user carries is the average of the reviews, and its number
\* theirs, whenever nobody is counting and the last review was counted without
\* overlap, and no save of the user wrote an old rating back since: a review that
\* is created alone repairs what overlaps, failures and such saves left behind.
RatingAgrees ==
  \A subject \in Subjects \ unsettled :
    Counting(subject) = {} =>
      rating[subject] = IF DOMAIN About(subject) = {} THEN NoRating ELSE Summary(About(subject))

\* The ratings that the reviews about somebody added up to before the first and
\* after each of them.
OnceRight(subject) ==
  {NoRating} \cup {Summary(AboutFirst(subject, n)) : n \in DOMAIN About(subject)}

\* Even a rating that lags behind is one that the first reviews add up to, so it
\* never counts a review that is not there, and one party's reviews never enter
\* the rating of the other role.  Only a save of the user that wrote a rating back
\* may leave the average of one moment beside the number of another.
RatingWasOnceRight ==
  \A subject \in Subjects :
    IF subject \in torn
    THEN \E x, y \in OnceRight(subject) :
           rating[subject] = [average |-> x.average, count |-> y.count]
    ELSE rating[subject] \in OnceRight(subject)

=============================================================================
