--------------------------- MODULE Reviews_proofs ---------------------------
(***************************************************************************)
(* Theorems about Reviews, for any orders and users and any number of      *)
(* concurrent requests, failures and saves of users by other services.     *)
(*                                                                         *)
(* OneReviewEach needs to know what a handler that passed the check for a  *)
(* duplicate may still rely on when it inserts: no other handler inserted  *)
(* a review of the same party and order meanwhile, or the two of them were *)
(* seen at the moment of the first insert.                                 *)
(*                                                                         *)
(* The two properties of ratings are about averages of a table that grows  *)
(* while handlers hold what they read of it.  Their proof never computes   *)
(* an average.  It carries with every handler, and with every stored       *)
(* rating, that it is the summary of some beginning of the table: an       *)
(* insert keeps that true, since the beginnings of a longer table include  *)
(* those of the shorter one.  Only for the types an average is computed,   *)
(* or rather bounded: a sum of stars lies between once and five times      *)
(* their number.                                                           *)
(***************************************************************************)
EXTENDS Reviews, Sums, SequenceTheorems

\* The local state of a handler.
IsHandler(x) ==
  /\ {"phase", "order", "by"} \subseteq DOMAIN x
  /\ x.phase \in {"loaded", "checked"} => x.order \in Orders /\ x.by \in Party

ReviewOf(i, o, party) == reviews[i].order = o /\ reviews[i].by = party

\* A party whose requests did not overlap has one review of an order, and none
\* while one of its requests is past the check.
AtMostOne ==
  \A o \in Orders, party \in Party : <<o, party>> \notin raced =>
    /\ \A i, j \in DOMAIN reviews : ReviewOf(i, o, party) /\ ReviewOf(j, o, party) => i = j
    /\ \A r \in Requests :
         (handler[r].phase = "checked" /\ handler[r].order = o /\ handler[r].by = party)
           => ~Duplicate(o, party)

ReviewInv ==
  /\ reviews \in Seq(Review)
  /\ handler = [r \in Requests |-> handler[r]]
  /\ \A r \in Requests : IsHandler(handler[r])
  /\ AtMostOne

-----------------------------------------------------------------------------
LEMMA IdleFacts == IsHandler(Idle) /\ Idle.phase = "idle"
BY DEF Idle, IsHandler

LEMMA ReviewInit == Init => ReviewInv
<1> SUFFICES ASSUME Init PROVE ReviewInv
  OBVIOUS
<1>1. reviews = <<>> /\ handler = [r \in Requests |-> Idle]
  BY DEF Init
<1>2. QED
  BY <1>1, IdleFacts DEF ReviewInv, AtMostOne

\* A handler goes on without inserting, and without passing the check.
LEMMA GoesOn ==
  ASSUME ReviewInv, NEW r \in Requests, NEW x, IsHandler(x), x.phase # "checked",
         Assign(r, x), UNCHANGED <<reviews, raced>>
  PROVE  ReviewInv'
<1>1. handler' = [q \in Requests |-> IF q = r THEN x ELSE handler[q]]
  BY DEF ReviewInv, Assign
<1>2. \A q \in Requests : IsHandler(handler'[q])
  BY <1>1 DEF ReviewInv
<1>3. AtMostOne'
  BY <1>1 DEF ReviewInv, AtMostOne, Duplicate, ReviewOf
<1>4. QED
  BY <1>1, <1>2, <1>3 DEF ReviewInv

LEMMA CheckKeeps ==
  ASSUME ReviewInv, NEW r \in Requests, CheckDuplicate(r)
  PROVE  ReviewInv'
<1> DEFINE x == handler[r]
           y == [x EXCEPT !.phase = "checked"]
<1>1. UNCHANGED <<reviews, raced>> /\ x.phase = "loaded" /\ IsHandler(x)
  BY DEF CheckDuplicate, Tables, ReviewInv
<1>2. CASE Duplicate(x.order, x.by)
  BY <1>1, <1>2, IdleFacts, GoesOn DEF CheckDuplicate
<1>3. CASE ~Duplicate(x.order, x.by)
  <2>1. IsHandler(y) /\ y.order = x.order /\ y.by = x.by
    BY <1>1 DEF IsHandler
  <2>2. handler' = [q \in Requests |-> IF q = r THEN y ELSE handler[q]]
    BY <1>3 DEF CheckDuplicate, Assign, ReviewInv
  <2>3. AtMostOne'
    <3> SUFFICES ASSUME NEW o \in Orders, NEW party \in Party, <<o, party>> \notin raced
                 PROVE  /\ \A i, j \in DOMAIN reviews :
                             ReviewOf(i, o, party) /\ ReviewOf(j, o, party) => i = j
                        /\ \A q \in Requests :
                             (/\ handler'[q].phase = "checked"
                              /\ handler'[q].order = o /\ handler'[q].by = party)
                               => ~Duplicate(o, party)
      BY <1>1 DEF AtMostOne, Duplicate, ReviewOf
    <3>1. \A q \in Requests \ {r} : handler'[q] = handler[q]
      BY <2>2
    <3>2. handler'[r] = y
      BY <2>2
    <3>3. QED
      BY <1>3, <2>1, <3>1, <3>2 DEF ReviewInv, AtMostOne
  <2>4. \A q \in Requests : IsHandler(handler'[q])
    BY <2>1, <2>2 DEF ReviewInv
  <2>5. QED
    BY <1>1, <2>2, <2>3, <2>4 DEF ReviewInv
<1>4. QED
  BY <1>2, <1>3

LEMMA InsertKeeps ==
  ASSUME ReviewInv, NEW r \in Requests, InsertReview(r)
  PROVE  ReviewInv'
<1> DEFINE x == handler[r]
           y == [x EXCEPT !.phase = "inserted"]
<1>1. IsHandler(x) /\ x.phase = "checked" /\ x.order \in Orders /\ x.by \in Party
  BY DEF InsertReview, ReviewInv, IsHandler
<1>2. PICK stars \in Ratings :
        reviews' = Append(reviews, [order |-> x.order, by |-> x.by, rating |-> stars])
  BY DEF InsertReview
<1>3. /\ reviews' \in Seq(Review)
      /\ DOMAIN reviews' = DOMAIN reviews \cup {Len(reviews) + 1}
      /\ Len(reviews) + 1 \notin DOMAIN reviews
      /\ \A i \in DOMAIN reviews : reviews'[i] = reviews[i]
      /\ reviews'[Len(reviews) + 1] = [order |-> x.order, by |-> x.by, rating |-> stars]
  <2>1. [order |-> x.order, by |-> x.by, rating |-> stars] \in Review
    BY <1>1 DEF Review
  <2>2. reviews \in Seq(Review)
    BY DEF ReviewInv
  <2>3. QED
    BY <1>2, <2>1, <2>2
<1>4. handler' = [q \in Requests |-> IF q = r THEN y ELSE handler[q]]
  BY DEF InsertReview, Assign, ReviewInv
<1>5. IsHandler(y) /\ y.phase = "inserted"
  BY <1>1 DEF IsHandler
<1>6. /\ raced \subseteq raced'
      /\ (\E q \in Requests \ {r} : /\ handler[q].phase = "checked"
                                   /\ handler[q].order = x.order /\ handler[q].by = x.by)
           => <<x.order, x.by>> \in raced'
  BY DEF InsertReview
<1>7. AtMostOne'
  <2> SUFFICES ASSUME NEW o \in Orders, NEW party \in Party, <<o, party>> \notin raced'
               PROVE  /\ \A i, j \in DOMAIN reviews' :
                           (/\ reviews'[i].order = o /\ reviews'[i].by = party
                            /\ reviews'[j].order = o /\ reviews'[j].by = party) => i = j
                      /\ \A q \in Requests :
                           (/\ handler'[q].phase = "checked"
                            /\ handler'[q].order = o /\ handler'[q].by = party)
                             => ~\E i \in DOMAIN reviews' :
                                   reviews'[i].order = o /\ reviews'[i].by = party
    BY DEF AtMostOne, ReviewOf, Duplicate
  <2>1. <<o, party>> \notin raced
    BY <1>6
  <2>2. CASE o = x.order /\ party = x.by
    <3>1. \A i \in DOMAIN reviews : ~(reviews[i].order = o /\ reviews[i].by = party)
      BY <1>1, <2>1, <2>2 DEF ReviewInv, AtMostOne, Duplicate
    <3>2. \A q \in Requests \ {r} : ~(/\ handler[q].phase = "checked"
                                      /\ handler[q].order = o /\ handler[q].by = party)
      BY <1>6, <2>2
    <3>3. QED
      BY <1>3, <1>4, <1>5, <3>1, <3>2
  <2>3. CASE ~(o = x.order /\ party = x.by)
    BY <1>3, <1>4, <1>5, <2>1, <2>3 DEF ReviewInv, AtMostOne, Duplicate, ReviewOf
  <2>4. QED
    BY <2>2, <2>3
<1>8. \A q \in Requests : IsHandler(handler'[q])
  BY <1>4, <1>5 DEF ReviewInv
<1>9. QED
  BY <1>3, <1>4, <1>7, <1>8 DEF ReviewInv

LEMMA ReviewStep == ReviewInv /\ [Next]_vars => ReviewInv'
<1> SUFFICES ASSUME ReviewInv, [Next]_vars PROVE ReviewInv'
  OBVIOUS
<1>1. ASSUME NEW o \in Orders, WindowMoves(o) PROVE ReviewInv'
  BY <1>1 DEF WindowMoves, ReviewInv, AtMostOne, Duplicate, ReviewOf, IsHandler
<1>2. ASSUME NEW r \in Requests, CreateReview(r) PROVE ReviewInv'
  <2>1. PICK o \in Orders, party \in Party :
          Assign(r, [Idle EXCEPT !.phase = "loaded", !.order = o, !.by = party])
    BY <1>2 DEF CreateReview
  <2>2. PICK x : x = [Idle EXCEPT !.phase = "loaded", !.order = o, !.by = party]
    OBVIOUS
  <2>3. IsHandler(x) /\ x.phase = "loaded"
    BY <2>2 DEF Idle, IsHandler
  <2>4. QED
    BY <1>2, <2>1, <2>2, <2>3, GoesOn DEF CreateReview, Tables
<1>3. ASSUME NEW r \in Requests, LoadUser(r) PROVE ReviewInv'
  <2>1. PICK u, e : Assign(r, [Idle EXCEPT !.phase = "entity", !.user = u, !.entity = e])
    BY <1>3 DEF LoadUser
  <2>2. PICK x : x = [Idle EXCEPT !.phase = "entity", !.user = u, !.entity = e]
    OBVIOUS
  <2>3. IsHandler(x) /\ x.phase = "entity"
    BY <2>2 DEF Idle, IsHandler
  <2>4. QED
    BY <1>3, <2>1, <2>2, <2>3, GoesOn DEF LoadUser, Tables
<1>4. ASSUME NEW r \in Requests, CollectReviews(r) PROVE ReviewInv'
  <2>1. PICK s : Assign(r, [handler[r] EXCEPT !.phase = "collected", !.summary = s])
    BY <1>4 DEF CollectReviews
  <2>2. PICK x : x = [handler[r] EXCEPT !.phase = "collected", !.summary = s]
    OBVIOUS
  <2>3. IsHandler(x) /\ x.phase = "collected"
    BY <2>2 DEF ReviewInv, IsHandler
  <2>4. QED
    BY <1>4, <2>1, <2>2, <2>3, GoesOn DEF CollectReviews, Tables
<1>5. ASSUME NEW r \in Requests, SelectUser(r) PROVE ReviewInv'
  <2>1. PICK d : \/ Assign(r, Idle)
                 \/ Assign(r, [handler[r] EXCEPT !.phase = "selected", !.dirty = d])
    BY <1>5 DEF SelectUser
  <2>2. PICK x : x = [handler[r] EXCEPT !.phase = "selected", !.dirty = d]
    OBVIOUS
  <2>3. IsHandler(x) /\ x.phase = "selected"
    BY <2>2 DEF ReviewInv, IsHandler
  <2>4. QED
    BY <1>5, <2>1, <2>2, <2>3, IdleFacts, GoesOn DEF SelectUser, Tables
<1>6. ASSUME NEW r \in Requests, StoreRating(r) \/ SaveUser(r) \/ Fail(r) PROVE ReviewInv'
  BY <1>6, IdleFacts, GoesOn DEF StoreRating, SaveUser, Fail
<1>7. CASE UNCHANGED vars
  BY <1>7 DEF vars, ReviewInv, AtMostOne, Duplicate, ReviewOf, IsHandler
<1>8. QED
  BY <1>1, <1>2, <1>3, <1>4, <1>5, <1>6, <1>7, CheckKeeps, InsertKeeps DEF Next, HandlerStep

-----------------------------------------------------------------------------
\* A party reviews an order once, unless two of its requests had both passed the
\* check (ReviewService.create; the table has no unique index).
THEOREM OneReviewEachHolds == Spec => []OneReviewEach
<1>1. ASSUME ReviewInv PROVE OneReviewEach
  <2> SUFFICES ASSUME NEW o \in Orders, NEW party \in Party, <<o, party>> \notin raced
               PROVE  Cardinality({i \in DOMAIN reviews : reviews[i].order = o
                                                          /\ reviews[i].by = party}) <= 1
    BY DEF OneReviewEach
  <2> DEFINE own == {i \in DOMAIN reviews : reviews[i].order = o /\ reviews[i].by = party}
  <2>1. \A i, j \in own : i = j
    BY <1>1 DEF ReviewInv, AtMostOne, ReviewOf
  <2>2. CASE own = {}
    BY <2>2, FS_EmptySet
  <2>3. CASE own # {}
    <3>1. PICK i \in own : own = {i}
      BY <2>1, <2>3
    <3>2. Cardinality({i}) = 1
      BY FS_Singleton
    <3>3. Cardinality(own) = 1
      BY <3>1, <3>2
    <3>4. QED
      BY <3>3
  <2>4. QED
    BY <2>2, <2>3
<1>2. QED
  BY <1>1, ReviewInit, ReviewStep, PTL DEF Spec

-----------------------------------------------------------------------------
\* The fields of the local state of a handler.
Fields == {"phase", "order", "by", "summary", "user", "entity", "dirty"}

\* A rating whose average and number were right at one moment each.
Mixed(subject) ==
  {[average |-> p[1].average, count |-> p[2].count] : p \in OnceRight(subject) \X OnceRight(subject)}

\* What a handler holds was read from the table of reviews, or from a rating, at
\* some earlier moment, and once its review is inserted there is one to count.
Sound(x) ==
  /\ DOMAIN x = Fields
  /\ x.phase \in {"loaded", "checked", "inserted", "collected"} => x.order \in Orders /\ x.by \in Party
  /\ x.phase \in {"inserted", "collected"} => DOMAIN About(Subject(x.order, x.by)) # {}
  /\ x.phase = "collected" => x.summary \in OnceRight(Subject(x.order, x.by))
  /\ x.phase \in {"entity", "selected"} =>
       x.user \in Users /\ \A p \in Party : x.entity[p] \in Mixed(<<x.user, p>>)

\* The ratings that users carry.
Carried ==
  /\ rating = [s \in Subjects |-> rating[s]]
  /\ \A s \in Subjects : rating[s] \in Mixed(s) /\ (s \notin torn => rating[s] \in OnceRight(s))

\* The last review about somebody makes the summary of all of them.
LastCounts ==
  \A s \in Subjects : DOMAIN About(s) # {} =>
    \E n \in DOMAIN About(s) : AboutFirst(s, n) = About(s)

\* Of somebody whose last review is counted alone, by a handler that read all
\* reviews, or was counted.
Settled(s) ==
  /\ \A q, r \in Counting(s) : q = r
  /\ \A r \in Counting(s) : handler[r].phase = "collected" => handler[r].summary = Summary(About(s))
  /\ Counting(s) = {} =>
       rating[s] = IF DOMAIN About(s) = {} THEN NoRating ELSE Summary(About(s))

\* The inductive invariant of the ratings.
RatingInv ==
  /\ Carried
  /\ LastCounts
  /\ \A r \in Requests : Sound(handler[r])
  /\ \A s \in Subjects \ unsettled : Settled(s)

-----------------------------------------------------------------------------
\* Reviews are about users in one of the two roles.
LEMMA SubjectType ==
  ASSUME NEW o \in Orders, NEW party \in Party
  PROVE  Subject(o, party) \in Subjects
BY PartiesAssumption DEF Subject, Subjects, Actor, Other, Party

LEMMA IdleSound == Sound(Idle) /\ Idle.phase = "idle"
BY DEF Sound, Idle, Fields

\* Any two moments make a mix.
LEMMA MixesTwo ==
  ASSUME NEW s, NEW x \in OnceRight(s), NEW y \in OnceRight(s)
  PROVE  [average |-> x.average, count |-> y.count] \in Mixed(s)
<1> DEFINE p == <<x, y>>
<1>1. p \in OnceRight(s) \X OnceRight(s) /\ p[1] = x /\ p[2] = y
  OBVIOUS
<1>. HIDE DEF p
<1>2. QED
  BY <1>1 DEF Mixed

\* The same moment, twice.
LEMMA OnceRightIsMixed ==
  ASSUME NEW s, NEW x \in OnceRight(s)
  PROVE  x \in Mixed(s)
<1>1. x = [average |-> x.average, count |-> x.count]
  BY DEF OnceRight, NoRating, Summary
<1>2. [average |-> x.average, count |-> x.count] \in Mixed(s)
  BY MixesTwo
<1>3. QED
  BY <1>1, <1>2

\* Before the first review nobody has a rating.
LEMMA RatingInit == Init => RatingInv
<1> SUFFICES ASSUME Init PROVE RatingInv
  OBVIOUS
<1>1. /\ reviews = <<>> /\ rating = [s \in Subjects |-> NoRating]
      /\ handler = [r \in Requests |-> Idle]
  BY DEF Init
<1>2. \A s : DOMAIN About(s) = {} /\ NoRating \in OnceRight(s) /\ NoRating \in Mixed(s)
  <2>1. \A s : DOMAIN About(s) = {} /\ NoRating \in OnceRight(s)
    BY <1>1 DEF About, AboutFirst, OnceRight
  <2>2. QED
    BY <2>1, OnceRightIsMixed
<1>3. \A s : Counting(s) = {}
  BY <1>1, IdleSound DEF Counting
<1>4. Carried
  BY <1>1, <1>2 DEF Carried
<1>5. \A r \in Requests : Sound(handler[r])
  BY <1>1, IdleSound
<1>6. LastCounts /\ \A s \in Subjects : Settled(s)
  BY <1>1, <1>2, <1>3 DEF LastCounts, Settled
<1>7. QED
  BY <1>4, <1>5, <1>6 DEF RatingInv

\* No review is inserted.
LEMMA AboutStays ==
  ASSUME UNCHANGED reviews
  PROVE  /\ \A s : About(s)' = About(s) /\ OnceRight(s)' = OnceRight(s) /\ Mixed(s)' = Mixed(s)
         /\ \A s, n : AboutFirst(s, n)' = AboutFirst(s, n)
<1>1. \A s, n : AboutFirst(s, n)' = AboutFirst(s, n)
  BY DEF AboutFirst
<1>2. \A s : About(s)' = About(s)
  BY DEF About, AboutFirst
<1>3. \A s : OnceRight(s)' = OnceRight(s)
  BY <1>1, <1>2 DEF OnceRight
<1>4. \A s : Mixed(s)' = Mixed(s)
  BY <1>3 DEF Mixed
<1>5. QED
  BY <1>1, <1>2, <1>3, <1>4

\* Nor does what a handler knows change then.
LEMMA SoundStays ==
  ASSUME UNCHANGED reviews, NEW x, Sound(x)
  PROVE  Sound(x)'
BY AboutStays DEF Sound

\* A handler goes on without inserting, counting or storing anything else.
LEMMA RatingStays ==
  ASSUME ReviewInv, RatingInv, UNCHANGED <<reviews, rating, unsettled, torn>>,
         NEW r \in Requests, NEW x, Assign(r, x), Sound(x),
         \/ {handler[r].phase, x.phase} \cap {"inserted", "collected"} = {}
         \/ /\ handler[r].phase = "inserted" /\ x.phase = "collected"
            /\ x.order = handler[r].order /\ x.by = handler[r].by
            /\ x.summary = Summary(About(Subject(x.order, x.by)))
  PROVE  RatingInv'
<1>1. handler' = [q \in Requests |-> IF q = r THEN x ELSE handler[q]]
  BY DEF Assign, ReviewInv
<1>2. Carried' /\ LastCounts'
  BY AboutStays DEF RatingInv, Carried, LastCounts
<1>3. ASSUME NEW q \in Requests PROVE Sound(handler[q])'
  <2>1. PICK y : y = handler'[q]
    OBVIOUS
  <2>2. Sound(y)
    BY <1>1, <2>1 DEF RatingInv
  <2>3. Sound(y)'
    BY <2>2, SoundStays
  <2>4. QED
    BY <2>1, <2>3 DEF Sound
<1>4. ASSUME NEW s \in Subjects, s \notin unsettled PROVE Settled(s)'
  <2>1. Counting(s)' = Counting(s)
    BY <1>1 DEF Counting
  <2>2. Settled(s)
    BY <1>4 DEF RatingInv
  <2>3. \A q \in Counting(s) : /\ q = r => x.summary = Summary(About(s))
                               /\ q # r => handler'[q] = handler[q]
    BY <1>1 DEF Counting
  <2>4. About(s)' = About(s) /\ Summary(About(s))' = Summary(About(s))
    BY AboutStays DEF Summary, Average
  <2>5. QED
    BY <1>1, <2>1, <2>2, <2>3, <2>4 DEF Settled
<1>5. QED
  BY <1>2, <1>3, <1>4 DEF RatingInv

\* A review is inserted, the last one about its subject.
LEMMA AboutAppends ==
  ASSUME ReviewInv, NEW o \in Orders, NEW party \in Party, NEW stars \in Ratings,
         reviews' = Append(reviews, [order |-> o, by |-> party, rating |-> stars]),
         NEW s
  PROVE  /\ DOMAIN About(s) \subseteq DOMAIN About(s)'
         /\ \A n \in DOMAIN About(s) : AboutFirst(s, n)' = AboutFirst(s, n)
         /\ s # Subject(o, party) => About(s)' = About(s)
         /\ s = Subject(o, party) => \E n \in DOMAIN About(s)' : AboutFirst(s, n)' = About(s)'
         /\ OnceRight(s) \subseteq OnceRight(s)'
         /\ Mixed(s) \subseteq Mixed(s)'
<1> DEFINE v == [order |-> o, by |-> party, rating |-> stars]
           Of(i) == Subject(reviews[i].order, reviews[i].by) = s
<1>0. PICK N : N = Len(reviews)
  OBVIOUS
<1>1. /\ DOMAIN reviews = 1 .. N /\ N \in Nat /\ DOMAIN reviews' = 1 .. N + 1 /\ Len(reviews') = N + 1
      /\ \A i \in 1 .. N : reviews'[i] = reviews[i]
      /\ reviews'[N + 1].order = o /\ reviews'[N + 1].by = party
  <2>1. v \in Review
    BY DEF Review
  <2>2. reviews \in Seq(Review)
    BY DEF ReviewInv
  <2>3. QED
    BY <1>0, <2>1, <2>2
<1>2. ASSUME NEW n \in 1 .. N PROVE AboutFirst(s, n)' = AboutFirst(s, n)
  <2> DEFINE D == {i \in DOMAIN reviews : i <= n /\ Of(i)}
             E == {i \in DOMAIN reviews' : i <= n /\ Subject(reviews'[i].order, reviews'[i].by) = s}
  <2>1. E = D
    BY <1>1, <1>2
  <2>2. \A i \in D : reviews'[i] = reviews[i]
    BY <1>1
  <2>3. AboutFirst(s, n) = [i \in D |-> reviews[i].rating]
    BY DEF AboutFirst
  <2>4. AboutFirst(s, n)' = [i \in E |-> reviews'[i].rating]
    BY DEF AboutFirst
  <2>. HIDE DEF D, E
  <2>5. QED
    BY <2>1, <2>2, <2>3, <2>4
<1>3. /\ About(s) = [i \in {i \in 1 .. N : Of(i)} |-> reviews[i].rating]
      /\ About(s)' = [i \in {i \in 1 .. N + 1 : Subject(reviews'[i].order, reviews'[i].by) = s}
                        |-> reviews'[i].rating]
  <2>1. {i \in DOMAIN reviews : i <= Len(reviews) /\ Of(i)} = {i \in 1 .. N : Of(i)}
    BY <1>0, <1>1
  <2>2. {i \in DOMAIN reviews' : i <= Len(reviews') /\ Subject(reviews'[i].order, reviews'[i].by) = s}
          = {i \in 1 .. N + 1 : Subject(reviews'[i].order, reviews'[i].by) = s}
    BY <1>1
  <2>3. QED
    BY <2>1, <2>2 DEF About, AboutFirst
<1>4. DOMAIN About(s) \subseteq DOMAIN About(s)' /\ DOMAIN About(s) \subseteq 1 .. N
  BY <1>1, <1>3
<1>5. s # Subject(o, party) => About(s)' = About(s)
  <2> SUFFICES ASSUME s # Subject(o, party) PROVE About(s)' = About(s)
    OBVIOUS
  <2>1. {i \in 1 .. N + 1 : Subject(reviews'[i].order, reviews'[i].by) = s} = {i \in 1 .. N : Of(i)}
    BY <1>1
  <2>2. QED
    BY <1>1, <1>3, <2>1
<1>6. s = Subject(o, party) => N + 1 \in DOMAIN About(s)' /\ AboutFirst(s, N + 1)' = About(s)'
  <2>1. s = Subject(o, party) => N + 1 \in DOMAIN About(s)'
    BY <1>1, <1>3
  <2>2. AboutFirst(s, N + 1)' = About(s)'
    <3>1. AboutFirst(s, N + 1)'
            = [i \in {i \in DOMAIN reviews' : i <= N + 1 /\ Subject(reviews'[i].order, reviews'[i].by) = s}
                 |-> reviews'[i].rating]
      BY <1>1 DEF AboutFirst
    <3>2. {i \in DOMAIN reviews' : i <= N + 1 /\ Subject(reviews'[i].order, reviews'[i].by) = s}
            = {i \in 1 .. N + 1 : Subject(reviews'[i].order, reviews'[i].by) = s}
      BY <1>1
    <3>3. QED
      BY <1>3, <3>1, <3>2
  <2>3. QED
    BY <2>1, <2>2
<1>7. OnceRight(s) \subseteq OnceRight(s)'
  <2>1. ASSUME NEW n \in DOMAIN About(s)
        PROVE  n \in DOMAIN About(s)' /\ Summary(AboutFirst(s, n))' = Summary(AboutFirst(s, n))
    BY <1>2, <1>4 DEF Summary, Average
  <2>2. QED
    BY <2>1 DEF OnceRight
<1>8. Mixed(s) \subseteq Mixed(s)'
  BY <1>7 DEF Mixed
<1>9. \A n \in DOMAIN About(s) : AboutFirst(s, n)' = AboutFirst(s, n)
  BY <1>2, <1>4
<1>10. s = Subject(o, party) => \E n \in DOMAIN About(s)' : AboutFirst(s, n)' = About(s)'
  <2> SUFFICES ASSUME s = Subject(o, party)
               PROVE  \E n \in DOMAIN About(s)' : AboutFirst(s, n)' = About(s)'
    OBVIOUS
  <2>1. PICK n : n = N + 1
    OBVIOUS
  <2>2. n \in DOMAIN About(s)' /\ AboutFirst(s, n)' = About(s)'
    BY <1>6, <2>1
  <2>3. QED
    BY <2>2
<1>11. QED
  BY <1>4, <1>5, <1>7, <1>8, <1>9, <1>10

\* The reviewee of the insert is settled afterwards when nobody else was counting,
\* and for all others nothing changes.
LEMMA InsertKeepsRating ==
  ASSUME ReviewInv, RatingInv, NEW r \in Requests, InsertReview(r)
  PROVE  RatingInv'
<1> DEFINE x == handler[r]
           s0 == Subject(x.order, x.by)
<1>1. PICK stars \in Ratings :
        reviews' = Append(reviews, [order |-> x.order, by |-> x.by, rating |-> stars])
  BY DEF InsertReview
<1>2. PICK y : y = [x EXCEPT !.phase = "inserted"]
  OBVIOUS
<1>3. /\ Sound(x) /\ x.phase = "checked" /\ x.order \in Orders /\ x.by \in Party
      /\ DOMAIN y = Fields /\ y.phase = "inserted" /\ y.order = x.order /\ y.by = x.by
  <2>1. Sound(x) /\ x.phase = "checked"
    BY DEF RatingInv, InsertReview
  <2>2. QED
    BY <1>2, <2>1 DEF Sound, Fields
<1>4. handler' = [q \in Requests |-> IF q = r THEN y ELSE handler[q]]
  BY <1>2 DEF InsertReview, Assign, ReviewInv
<1>5. \A s : /\ DOMAIN About(s) \subseteq DOMAIN About(s)'
             /\ \A n \in DOMAIN About(s) : AboutFirst(s, n)' = AboutFirst(s, n)
             /\ s # s0 => About(s)' = About(s)
             /\ s = s0 => \E n \in DOMAIN About(s)' : AboutFirst(s, n)' = About(s)'
             /\ OnceRight(s) \subseteq OnceRight(s)'
             /\ Mixed(s) \subseteq Mixed(s)'
  BY <1>1, <1>3, AboutAppends
<1>6. UNCHANGED <<rating, torn>>
  BY DEF InsertReview
<1>7. Carried'
  BY <1>5, <1>6 DEF RatingInv, Carried
<1>8. LastCounts'
  <2> SUFFICES ASSUME NEW s \in Subjects, DOMAIN About(s)' # {}
               PROVE  \E n \in DOMAIN About(s)' : AboutFirst(s, n)' = About(s)'
    BY DEF LastCounts
  <2>1. CASE s = s0
    BY <1>5, <2>1
  <2>2. CASE s # s0
    <3>1. About(s)' = About(s)
      BY <1>5, <2>2
    <3>2. PICK n \in DOMAIN About(s) : AboutFirst(s, n) = About(s)
      BY <3>1 DEF RatingInv, LastCounts
    <3>3. AboutFirst(s, n)' = AboutFirst(s, n)
      BY <1>5
    <3>4. QED
      BY <3>1, <3>2, <3>3
  <2>3. QED
    BY <2>1, <2>2
<1>9. ASSUME NEW q \in Requests PROVE Sound(handler[q])'
  <2>1. CASE q = r
    <3>1. handler'[q] = y
      BY <1>4, <2>1
    <3>2. PICK t : t = s0
      OBVIOUS
    <3>3. t = Subject(y.order, y.by)
      BY <1>3, <3>2
    <3>4. \E n \in DOMAIN About(t)' : AboutFirst(t, n)' = About(t)'
      BY <1>5, <3>2
    <3>5. DOMAIN About(t)' # {}
      BY <3>4
    <3>6. Sound(y)'
      BY <1>3, <3>3, <3>5 DEF Sound
    <3>7. QED
      BY <3>1, <3>6 DEF Sound
  <2>2. CASE q # r
    <3>1. PICK z : z = handler[q]
      OBVIOUS
    <3>2. Sound(z) /\ handler'[q] = z
      BY <1>4, <2>2, <3>1 DEF RatingInv
    <3>3. Sound(z)'
      BY <1>5, <3>2 DEF Sound
    <3>4. QED
      BY <3>2, <3>3 DEF Sound
  <2>3. QED
    BY <2>1, <2>2
<1>10. ASSUME NEW s \in Subjects, s \notin unsettled' PROVE Settled(s)'
  <2>1. CASE s = s0
    <3>1. Counting(s) = {}
      BY <1>10, <2>1 DEF InsertReview
    <3>2. \A q \in Counting(s)' : q = r /\ handler'[q].phase = "inserted"
      BY <1>3, <1>4, <3>1 DEF Counting
    <3>3. r \in Counting(s)'
      BY <1>3, <1>4, <2>1 DEF Counting
    <3>4. QED
      BY <3>2, <3>3 DEF Settled
  <2>2. CASE s # s0
    <3>1. s \notin unsettled
      BY <1>10, <2>2 DEF InsertReview
    <3>2. Settled(s)
      BY <3>1 DEF RatingInv
    <3>3. Counting(s)' = Counting(s) /\ r \notin Counting(s)
      BY <1>3, <1>4, <2>2 DEF Counting
    <3>4. About(s)' = About(s)
      BY <1>5, <2>2
    <3>5. Summary(About(s))' = Summary(About(s))
      BY <3>4 DEF Summary, Average
    <3>6. \A q \in Counting(s) : handler'[q] = handler[q]
      BY <1>4, <3>3 DEF Counting
    <3>7. QED
      BY <1>6, <3>2, <3>3, <3>4, <3>5, <3>6 DEF Settled
  <2>3. QED
    BY <2>1, <2>2
<1>11. QED
  BY <1>7, <1>8, <1>9, <1>10 DEF RatingInv

\* A handler ends, and reviews stay: what is left to show is about the ratings.
LEMMA EndsSound ==
  ASSUME ReviewInv, RatingInv, UNCHANGED reviews, NEW r \in Requests, Assign(r, Idle)
  PROVE  /\ handler' = [q \in Requests |-> IF q = r THEN Idle ELSE handler[q]]
         /\ LastCounts' /\ \A q \in Requests : Sound(handler[q])'
<1>1. handler' = [q \in Requests |-> IF q = r THEN Idle ELSE handler[q]]
  BY DEF Assign, ReviewInv
<1>2. LastCounts'
  BY AboutStays DEF RatingInv, LastCounts
<1>3. ASSUME NEW q \in Requests PROVE Sound(handler[q])'
  <2>1. PICK y : y = handler'[q]
    OBVIOUS
  <2>2. Sound(y)
    BY <1>1, <2>1, IdleSound DEF RatingInv
  <2>3. Sound(y)'
    BY <2>2, SoundStays
  <2>4. QED
    BY <2>1, <2>3 DEF Sound
<1>4. QED
  BY <1>1, <1>2, <1>3

\* Whoever is settled and has no part in the step stays so.
LEMMA OthersSettled ==
  ASSUME ReviewInv, RatingInv, UNCHANGED reviews, NEW r \in Requests, Assign(r, Idle),
         NEW s \in Subjects, s \notin unsettled, r \notin Counting(s), rating'[s] = rating[s]
  PROVE  Settled(s)'
<1>1. handler' = [q \in Requests |-> IF q = r THEN Idle ELSE handler[q]]
  BY DEF Assign, ReviewInv
<1>2. Counting(s)' = Counting(s) /\ \A q \in Counting(s) : handler'[q] = handler[q]
  BY <1>1, IdleSound DEF Counting
<1>3. Settled(s)
  BY DEF RatingInv
<1>4. About(s)' = About(s) /\ Summary(About(s))' = Summary(About(s))
  BY AboutStays DEF Summary, Average
<1>5. QED
  BY <1>2, <1>3, <1>4 DEF Settled

\* The handler that stores is the only one counting, or the reviewee is unsettled.
LEMMA StoreKeepsRating ==
  ASSUME ReviewInv, RatingInv, NEW r \in Requests, StoreRating(r)
  PROVE  RatingInv'
<1> DEFINE x == handler[r]
           s0 == Subject(x.order, x.by)
<1>1. /\ x.phase = "collected" /\ Assign(r, Idle) /\ UNCHANGED <<reviews, unsettled>>
      /\ torn' = torn \ {s0} /\ rating' = [rating EXCEPT ![s0] = x.summary]
  BY DEF StoreRating
<1>2. /\ x.summary \in OnceRight(s0) /\ DOMAIN About(s0) # {} /\ s0 \in Subjects
      /\ r \in Counting(s0)
  <2>1. Sound(x)
    BY DEF RatingInv
  <2>2. QED
    BY <1>1, <2>1, SubjectType DEF Sound, Counting
<1>3. rating' = [s \in Subjects |-> IF s = s0 THEN x.summary ELSE rating[s]]
  BY <1>1 DEF RatingInv, Carried
<1>4. Carried'
  <2>1. x.summary \in Mixed(s0)
    BY <1>2, OnceRightIsMixed
  <2>2. ASSUME NEW s \in Subjects
        PROVE  rating'[s] \in Mixed(s) /\ (s \notin torn' => rating'[s] \in OnceRight(s))
    BY <1>1, <1>2, <1>3, <2>1 DEF RatingInv, Carried
  <2>3. QED
    BY <1>1, <1>3, <2>2, AboutStays DEF Carried
<1>5. ASSUME NEW s \in Subjects, s \notin unsettled PROVE Settled(s)'
  <2>1. CASE s = s0
    <3>1. Settled(s)
      BY <1>5 DEF RatingInv
    <3>2. Counting(s)' = {}
      BY <1>1, <1>2, <2>1, <3>1, EndsSound, IdleSound DEF Settled, Counting
    <3>3. rating'[s] = Summary(About(s)) /\ DOMAIN About(s) # {}
      BY <1>1, <1>2, <1>3, <2>1, <3>1 DEF Settled
    <3>4. About(s)' = About(s) /\ Summary(About(s))' = Summary(About(s))
      BY <1>1, AboutStays DEF Summary, Average
    <3>5. QED
      BY <3>2, <3>3, <3>4 DEF Settled
  <2>2. CASE s # s0
    <3>1. r \notin Counting(s) /\ rating'[s] = rating[s]
      BY <1>3, <2>2 DEF Counting
    <3>2. QED
      BY <1>1, <1>5, <3>1, OthersSettled
  <2>3. QED
    BY <2>1, <2>2
<1>6. LastCounts' /\ \A q \in Requests : Sound(handler[q])'
  BY <1>1, EndsSound
<1>7. QED
  BY <1>1, <1>4, <1>5, <1>6 DEF RatingInv

\* A save that writes ratings back mixes the columns of two moments.
LEMMA SaveKeepsRating ==
  ASSUME ReviewInv, RatingInv, NEW r \in Requests, SaveUser(r)
  PROVE  RatingInv'
<1> DEFINE x == handler[r]
           hit == {s \in Subjects : s[1] = x.user /\ x.dirty[s[2]] # {}}
           written(s) == SavedColumns(rating[s], x.entity[s[2]], x.dirty[s[2]])
<1>1. /\ x.phase = "selected" /\ Assign(r, Idle) /\ UNCHANGED reviews
      /\ torn' = torn \cup hit /\ unsettled' = unsettled \cup hit
      /\ rating' = [s \in Subjects |-> IF s \in hit THEN written(s) ELSE rating[s]]
  BY DEF SaveUser
<1>2. ASSUME NEW s \in hit PROVE written(s) \in Mixed(s)
  <2>1. s \in Subjects /\ s = <<x.user, s[2]>> /\ s[2] \in Party
    BY DEF Subjects
  <2>2. Sound(x)
    BY DEF RatingInv
  <2>3. PICK R, E, D : R = rating[s] /\ E = x.entity[s[2]] /\ D = x.dirty[s[2]]
    OBVIOUS
  <2>4. R \in Mixed(s) /\ E \in Mixed(s)
    BY <1>1, <2>1, <2>2, <2>3 DEF Sound, RatingInv, Carried
  <2>5. PICK a, b : a \in OnceRight(s) /\ b \in OnceRight(s) /\ E = [average |-> a.average, count |-> b.count]
    BY <2>4 DEF Mixed
  <2>6. PICK c, e : c \in OnceRight(s) /\ e \in OnceRight(s) /\ R = [average |-> c.average, count |-> e.count]
    BY <2>4 DEF Mixed
  <2>7. PICK f, g : f = (IF "average" \in D THEN a ELSE c) /\ g = (IF "count" \in D THEN b ELSE e)
    OBVIOUS
  <2>8. f \in OnceRight(s) /\ g \in OnceRight(s)
    BY <2>5, <2>6, <2>7
  <2>9. SavedColumns(R, E, D) = [average |-> f.average, count |-> g.count]
    BY <2>5, <2>6, <2>7 DEF SavedColumns
  <2>10. written(s) = SavedColumns(R, E, D)
    BY <2>3
  <2>11. [average |-> f.average, count |-> g.count] \in Mixed(s)
    BY <2>8, MixesTwo
  <2>. HIDE DEF written
  <2>12. QED
    BY <2>9, <2>10, <2>11
<1>. HIDE DEF written
<1>3. Carried'
  <2>1. ASSUME NEW s \in Subjects
        PROVE  rating'[s] \in Mixed(s) /\ (s \notin torn' => rating'[s] \in OnceRight(s))
    BY <1>1, <1>2 DEF RatingInv, Carried
  <2>2. rating' = [s \in Subjects |-> rating'[s]]
    BY <1>1
  <2>3. QED
    BY <1>1, <2>1, <2>2, AboutStays DEF Carried
<1>4. ASSUME NEW s \in Subjects, s \notin unsettled' PROVE Settled(s)'
  <2>1. s \notin unsettled /\ r \notin Counting(s) /\ rating'[s] = rating[s]
    BY <1>1, <1>4 DEF Counting
  <2>2. QED
    BY <1>1, <2>1, OthersSettled
<1>5. LastCounts' /\ \A q \in Requests : Sound(handler[q])'
  BY <1>1, EndsSound
<1>6. QED
  BY <1>1, <1>3, <1>4, <1>5 DEF RatingInv

\* A handler that dies leaves its reviewee unsettled if it was counting.
LEMMA FailKeepsRating ==
  ASSUME ReviewInv, RatingInv, NEW r \in Requests, Fail(r)
  PROVE  RatingInv'
<1>1. Assign(r, Idle) /\ UNCHANGED <<reviews, rating, torn>> /\ unsettled \subseteq unsettled'
  BY DEF Fail
<1>2. Carried'
  BY <1>1, AboutStays DEF RatingInv, Carried
<1>3. ASSUME NEW s \in Subjects, s \notin unsettled' PROVE Settled(s)'
  <2>1. r \notin Counting(s) /\ s \notin unsettled
    BY <1>3 DEF Fail, Counting
  <2>2. QED
    BY <1>1, <2>1, OthersSettled
<1>4. LastCounts' /\ \A q \in Requests : Sound(handler[q])'
  BY <1>1, EndsSound
<1>5. QED
  BY <1>2, <1>3, <1>4 DEF RatingInv

\* Every step keeps the ratings as they should be.
LEMMA RatingStep == ReviewInv /\ RatingInv /\ [Next]_vars => RatingInv'
<1> SUFFICES ASSUME ReviewInv, RatingInv, [Next]_vars PROVE RatingInv'
  OBVIOUS
<1>0. \A r \in Requests : Sound(handler[r])
  BY DEF RatingInv
<1>1. ASSUME UNCHANGED <<reviews, rating, handler, torn, unsettled>> PROVE RatingInv'
  <2>1. Carried' /\ LastCounts'
    BY <1>1, AboutStays DEF RatingInv, Carried, LastCounts
  <2>2. \A r \in Requests : Sound(handler[r])'
    BY <1>0, <1>1, AboutStays DEF Sound
  <2>3. \A s \in Subjects \ unsettled : Settled(s)'
    BY <1>1, AboutStays DEF RatingInv, Settled, Counting, Summary, Average
  <2>4. QED
    BY <1>1, <2>1, <2>2, <2>3 DEF RatingInv
<1>2. ASSUME NEW r \in Requests, CreateReview(r) PROVE RatingInv'
  <2>1. PICK o \in Orders, party \in Party :
          Assign(r, [Idle EXCEPT !.phase = "loaded", !.order = o, !.by = party])
    BY <1>2 DEF CreateReview
  <2>2. PICK x : x = [Idle EXCEPT !.phase = "loaded", !.order = o, !.by = party]
    OBVIOUS
  <2>3. Sound(x) /\ x.phase = "loaded"
    BY <2>2 DEF Idle, Sound, Fields
  <2>4. QED
    BY <1>2, <2>1, <2>2, <2>3, RatingStays DEF CreateReview, Tables, Waiting
<1>3. ASSUME NEW r \in Requests, CheckDuplicate(r) PROVE RatingInv'
  <2>1. PICK x : x \in {Idle, [handler[r] EXCEPT !.phase = "checked"]} /\ Assign(r, x)
    BY <1>3 DEF CheckDuplicate
  <2>2. Sound(x) /\ x.phase \in {"idle", "checked"} /\ handler[r].phase = "loaded"
    BY <1>0, <1>3, <2>1, IdleSound DEF CheckDuplicate, Sound, Fields
  <2>3. QED
    BY <1>3, <2>1, <2>2, RatingStays DEF CheckDuplicate, Tables
<1>4. ASSUME NEW r \in Requests, CollectReviews(r) PROVE RatingInv'
  <2> DEFINE s0 == Subject(handler[r].order, handler[r].by)
  <2>1. PICK x : /\ x = [handler[r] EXCEPT !.phase = "collected", !.summary = Summary(About(s0))]
                 /\ Assign(r, x)
    BY <1>4 DEF CollectReviews
  <2>2. Sound(handler[r]) /\ handler[r].phase = "inserted"
    BY <1>0, <1>4 DEF CollectReviews
  <2>3. /\ DOMAIN x = Fields /\ x.phase = "collected" /\ x.order = handler[r].order
        /\ x.by = handler[r].by /\ x.summary = Summary(About(s0))
    BY <2>1, <2>2 DEF Sound, Fields
  <2>4. /\ x.order \in Orders /\ x.by \in Party /\ DOMAIN About(s0) # {}
        /\ s0 = Subject(x.order, x.by) /\ s0 \in Subjects
    BY <2>2, <2>3, SubjectType DEF Sound
  <2>5. Summary(About(s0)) \in OnceRight(s0)
    BY <2>4 DEF RatingInv, LastCounts, OnceRight
  <2>6. Sound(x)
    BY <2>3, <2>4, <2>5 DEF Sound
  <2>7. QED
    BY <1>4, <2>1, <2>2, <2>3, <2>4, <2>6, RatingStays DEF CollectReviews, Tables
<1>5. ASSUME NEW r \in Requests, LoadUser(r) PROVE RatingInv'
  <2>1. PICK u \in Editors :
          Assign(r, [Idle EXCEPT !.phase = "entity", !.user = u,
                                 !.entity = [p \in Party |-> rating[<<u, p>>]]])
    BY <1>5 DEF LoadUser
  <2>2. PICK x : x = [Idle EXCEPT !.phase = "entity", !.user = u,
                                  !.entity = [p \in Party |-> rating[<<u, p>>]]]
    OBVIOUS
  <2>3. /\ DOMAIN x = Fields /\ x.phase = "entity" /\ x.user = u
        /\ x.entity = [p \in Party |-> rating[<<u, p>>]]
    BY <2>2 DEF Idle, Fields
  <2>4. u \in Users /\ \A p \in Party : <<u, p>> \in Subjects
    BY RatingsAssumption DEF Subjects
  <2>5. Sound(x)
    BY <2>3, <2>4 DEF Sound, RatingInv, Carried
  <2>6. QED
    BY <1>5, <2>1, <2>2, <2>3, <2>5, RatingStays DEF LoadUser, Tables, Waiting
<1>6. ASSUME NEW r \in Requests, SelectUser(r) PROVE RatingInv'
  <2>1. PICK d, x : /\ x \in {Idle, [handler[r] EXCEPT !.phase = "selected", !.dirty = d]}
                    /\ Assign(r, x)
    BY <1>6 DEF SelectUser
  <2>2. Sound(x) /\ x.phase \in {"idle", "selected"} /\ handler[r].phase = "entity"
    BY <1>0, <1>6, <2>1, IdleSound DEF SelectUser, Sound, Fields
  <2>3. QED
    BY <1>6, <2>1, <2>2, RatingStays DEF SelectUser, Tables
<1>7. ASSUME NEW r \in Requests, InsertReview(r) \/ StoreRating(r) \/ SaveUser(r) \/ Fail(r)
      PROVE  RatingInv'
  BY <1>7, InsertKeepsRating, StoreKeepsRating, SaveKeepsRating, FailKeepsRating
<1>8. ASSUME NEW o \in Orders, WindowMoves(o) PROVE RatingInv'
  BY <1>1, <1>8 DEF WindowMoves
<1>9. CASE UNCHANGED vars
  BY <1>1, <1>9 DEF vars
<1>10. QED
  BY <1>2, <1>3, <1>4, <1>5, <1>6, <1>7, <1>8, <1>9 DEF Next, HandlerStep

-----------------------------------------------------------------------------
\* The rating that updateUserRating stored is the average and the number of all
\* reviews of the user in that role, unless two of its runs overlapped, one died, or
\* a save of the user by another service wrote an older rating back since.
THEOREM RatingAgreesHolds == Spec => []RatingAgrees
<1>1. RatingInv => RatingAgrees
  BY DEF RatingInv, Settled, RatingAgrees
<1>2. QED
  BY <1>1, ReviewInit, ReviewStep, RatingInit, RatingStep, PTL DEF Spec

\* Whatever overlaps or dies, the rating stored is one that the reviews of the user
\* in that role added up to at some moment; a save of the whole user may put the
\* average of one such moment beside the number of another (ReviewService.create,
\* UserService.updateMe and the saves of AuthService).
THEOREM RatingWasOnceRightHolds == Spec => []RatingWasOnceRight
<1>1. RatingInv => RatingWasOnceRight
  BY DEF RatingInv, Carried, Mixed, RatingWasOnceRight
<1>2. QED
  BY <1>1, ReviewInit, ReviewStep, RatingInit, RatingStep, PTL DEF Spec

-----------------------------------------------------------------------------
(***************************************************************************)
(* Types.                                                                  *)
(***************************************************************************)

\* Integer division, and products that grow with a factor.
LEMMA Quotient ==
  ASSUME NEW a \in Int, NEW b \in Nat \ {0}
  PROVE  /\ a \div b \in Int
         /\ b * (a \div b) <= a /\ a < b * (a \div b) + b
OBVIOUS

LEMMA ProductGrows ==
  ASSUME NEW b \in Nat, NEW x \in Int, NEW y \in Int, x <= y
  PROVE  b * x <= b * y
OBVIOUS

\* The average, in hundredths, of n numbers from one to five whose sum is s.
LEMMA Rounded ==
  ASSUME NEW n \in Nat \ {0}, NEW s \in Int, n <= s, s <= 5 * n
  PROVE  (200 * s + n) \div (2 * n) \in 100 .. 500
<1> DEFINE a == 200 * s + n
           b == 2 * n
           q == a \div b
<1>1. a \in Int /\ b \in Nat \ {0}
  OBVIOUS
<1>2. q \in Int /\ b * q <= a /\ a < b * q + b
  BY <1>1, Quotient
<1>3. b * 100 < a + 1 /\ a < b * 501
  OBVIOUS
<1>. HIDE DEF a, b, q
<1>4. q >= 100
  <2> SUFFICES ASSUME q + 1 <= 100 PROVE FALSE
    BY <1>2
  <2>1. b * (q + 1) <= b * 100
    BY <1>1, <1>2, ProductGrows
  <2>2. b * (q + 1) = b * q + b
    BY <1>1, <1>2
  <2>3. QED
    BY <1>1, <1>2, <1>3, <2>1, <2>2
<1>5. q <= 500
  <2> SUFFICES ASSUME 501 <= q PROVE FALSE
    BY <1>2
  <2>1. b * 501 <= b * q
    BY <1>1, <1>2, ProductGrows
  <2>3. QED
    BY <1>1, <1>2, <1>3, <2>1
<1>6. QED
  BY <1>2, <1>4, <1>5 DEF a, b, q

\* Of one to five stars each, at least one, the summary fits the columns.
LEMMA SummaryType ==
  ASSUME NEW S, IsFiniteSet(S), S # {}, NEW stars \in [S -> 1 .. 5]
  PROVE  Summary(stars) \in Rating
<1>1. PICK n, s : n = Cardinality(S) /\ s = SumFunction(stars)
  OBVIOUS
<1>2. s \in Int /\ n \in Nat /\ n <= s /\ s <= 5 * n
  <2>1. stars \in [S -> Int] /\ \A x \in S : 1 <= stars[x] /\ stars[x] <= 5
    OBVIOUS
  <2>2. s \in Int /\ n \in Nat /\ 1 * n <= s /\ s <= 5 * n
    BY <1>1, <2>1, SumBetween
  <2>3. QED
    BY <2>2
<1>3. n # 0
  BY <1>1, FS_EmptySet
<1>4. (200 * s + n) \div (2 * n) \in 100 .. 500
  BY <1>2, <1>3, Rounded
<1>5. Average(stars) = (200 * s + n) \div (2 * n) /\ Cardinality(DOMAIN stars) = n
  BY <1>1 DEF Average
<1>6. QED
  BY <1>2, <1>4, <1>5 DEF Summary, Rating

\* The columns start at zero.
LEMMA NoRatingType == NoRating \in Rating
BY DEF NoRating, Rating

\* Every rating that the reviews of the table add up to is one.
LEMMA OnceRightType ==
  ASSUME ReviewInv, NEW s
  PROVE  OnceRight(s) \subseteq Rating /\ Mixed(s) \subseteq Rating
<1>1. ASSUME NEW n \in DOMAIN About(s) PROVE Summary(AboutFirst(s, n)) \in Rating
  <2> DEFINE D == {i \in DOMAIN reviews :
                     i <= n /\ Subject(reviews[i].order, reviews[i].by) = s}
  <2>1. reviews \in Seq(Review)
    BY DEF ReviewInv
  <2>2. DOMAIN reviews = 1 .. Len(reviews) /\ Len(reviews) \in Nat
    BY <2>1
  <2>3. IsFiniteSet(D)
    <3>1. IsFiniteSet(1 .. Len(reviews))
      BY <2>2, FS_Interval
    <3>2. D \subseteq 1 .. Len(reviews)
      BY <2>2
    <3>3. QED
      BY <3>1, <3>2, FS_Subset
  <2>4. n \in D
    BY <2>2 DEF About, AboutFirst
  <2>5. AboutFirst(s, n) = [i \in D |-> reviews[i].rating]
    BY DEF AboutFirst
  <2>6. \A i \in D : reviews[i].rating \in 1 .. 5
    <3>1. \A i \in DOMAIN reviews : reviews[i] \in Review
      BY <2>1
    <3>2. QED
      BY <3>1, RatingsAssumption DEF Review
  <2>. HIDE DEF D
  <2>7. AboutFirst(s, n) \in [D -> 1 .. 5]
    BY <2>5, <2>6
  <2>8. QED
    BY <2>3, <2>4, <2>7, SummaryType
<1>2. OnceRight(s) \subseteq Rating
  BY <1>1, NoRatingType DEF OnceRight
<1>3. Mixed(s) \subseteq Rating
  BY <1>2 DEF Mixed, Rating
<1>4. QED
  BY <1>2, <1>3

\* The types that the invariants of the ratings leave open.
TypeRest ==
  /\ window \in [Orders -> Window]
  /\ handler \in [Requests -> HandlerState]
  /\ failures \in Nat
  /\ raced \subseteq Orders \X Party
  /\ unsettled \subseteq Subjects
  /\ torn \subseteq Subjects

\* The rest of the type invariant, step by step.
LEMMA IdleType == Idle \in HandlerState
BY NoRatingType DEF Idle, HandlerState, Phase, Party, Columns

LEMMA TypeInit == Init => TypeRest
BY IdleType DEF Init, TypeRest, Window

LEMMA AssignType ==
  ASSUME handler \in [Requests -> HandlerState], NEW r, NEW x \in HandlerState, Assign(r, x)
  PROVE  handler' \in [Requests -> HandlerState]
BY DEF Assign

LEMMA TypeStep == ReviewInv /\ RatingInv /\ TypeRest /\ [Next]_vars => TypeRest'
<1> SUFFICES ASSUME ReviewInv, RatingInv, TypeRest, [Next]_vars PROVE TypeRest'
  OBVIOUS
<1>0. /\ \A r \in Requests : handler[r] \in HandlerState /\ Sound(handler[r])
      /\ handler \in [Requests -> HandlerState]
      /\ \A s \in Subjects : rating[s] \in Rating
  <2>1. \A s \in Subjects : rating[s] \in Mixed(s)
    BY DEF RatingInv, Carried
  <2>2. \A s \in Subjects : rating[s] \in Rating
    BY <2>1, OnceRightType
  <2>3. QED
    BY <2>2 DEF TypeRest, RatingInv
<1>1. ASSUME NEW o \in Orders, WindowMoves(o) PROVE TypeRest'
  BY <1>1 DEF WindowMoves, TypeRest, Window
<1>2. ASSUME NEW r \in Requests, CreateReview(r) PROVE TypeRest'
  <2>1. PICK o \in Orders, party \in Party :
          Assign(r, [Idle EXCEPT !.phase = "loaded", !.order = o, !.by = party])
    BY <1>2 DEF CreateReview
  <2>2. [Idle EXCEPT !.phase = "loaded", !.order = o, !.by = party] \in HandlerState
    BY IdleType DEF HandlerState, Phase
  <2>3. QED
    BY <1>0, <1>2, <2>1, <2>2, AssignType DEF CreateReview, Tables, TypeRest
<1>3. ASSUME NEW r \in Requests, CheckDuplicate(r) PROVE TypeRest'
  <2>1. [handler[r] EXCEPT !.phase = "checked"] \in HandlerState
    BY <1>0 DEF HandlerState, Phase
  <2>2. QED
    BY <1>0, <1>3, <2>1, IdleType, AssignType DEF CheckDuplicate, Tables, TypeRest
<1>4. ASSUME NEW r \in Requests, InsertReview(r) PROVE TypeRest'
  <2> DEFINE x == handler[r]
  <2>1. x.order \in Orders /\ x.by \in Party /\ Subject(x.order, x.by) \in Subjects
    BY <1>0, <1>4, SubjectType DEF InsertReview, Sound
  <2>2. [x EXCEPT !.phase = "inserted"] \in HandlerState
    BY <1>0 DEF HandlerState, Phase
  <2>3. handler' \in [Requests -> HandlerState]
    BY <1>0, <1>4, <2>2, AssignType DEF InsertReview
  <2>4. raced' \subseteq Orders \X Party /\ unsettled' \subseteq Subjects
    BY <1>4, <2>1 DEF InsertReview, TypeRest
  <2>5. QED
    BY <1>4, <2>3, <2>4 DEF InsertReview, TypeRest
<1>5. ASSUME NEW r \in Requests, CollectReviews(r) PROVE TypeRest'
  <2> DEFINE x == handler[r]
  <2>1. PICK t, y : /\ t = Subject(x.order, x.by)
                    /\ y = [x EXCEPT !.phase = "collected", !.summary = Summary(About(t))]
    OBVIOUS
  <2>2. t \in Subjects /\ DOMAIN About(t) # {}
    BY <1>0, <1>5, <2>1, SubjectType DEF CollectReviews, Sound
  <2>3. Summary(About(t)) \in OnceRight(t)
    BY <2>2 DEF RatingInv, LastCounts, OnceRight
  <2>4. Summary(About(t)) \in Rating
    BY <2>3, OnceRightType
  <2>5. y \in HandlerState
    BY <1>0, <2>1, <2>4 DEF HandlerState, Phase
  <2>6. QED
    BY <1>0, <1>5, <2>1, <2>5, AssignType DEF CollectReviews, Tables, TypeRest
<1>6. ASSUME NEW r \in Requests, LoadUser(r) PROVE TypeRest'
  <2>1. PICK u \in Editors :
          Assign(r, [Idle EXCEPT !.phase = "entity", !.user = u,
                                 !.entity = [p \in Party |-> rating[<<u, p>>]]])
    BY <1>6 DEF LoadUser
  <2>2. PICK e : e = [p \in Party |-> rating[<<u, p>>]]
    OBVIOUS
  <2>3. u \in Users /\ \A p \in Party : <<u, p>> \in Subjects
    BY RatingsAssumption DEF Subjects
  <2>4. e \in [Party -> Rating]
    BY <1>0, <2>2, <2>3
  <2>5. [Idle EXCEPT !.phase = "entity", !.user = u, !.entity = e] \in HandlerState
    BY <2>3, <2>4, IdleType DEF HandlerState, Phase
  <2>6. QED
    BY <1>0, <1>6, <2>1, <2>2, <2>5, AssignType DEF LoadUser, Tables, TypeRest
<1>7. ASSUME NEW r \in Requests, SelectUser(r) PROVE TypeRest'
  <2> DEFINE x == handler[r]
  <2>1. PICK d : /\ d = [p \in Party |-> DirtyColumns(x.entity[p], rating[<<x.user, p>>])]
                 /\ Assign(r, IF d = Idle.dirty THEN Idle
                              ELSE [x EXCEPT !.phase = "selected", !.dirty = d])
    BY <1>7 DEF SelectUser
  <2>2. x.user \in Users
    BY <1>0, <1>7 DEF SelectUser, Sound
  <2>3. \A p \in Party : DOMAIN rating[<<x.user, p>>] = Columns
    BY <1>0, <2>2 DEF Subjects, Rating, Columns
  <2>4. d \in [Party -> SUBSET Columns]
    BY <2>1, <2>3 DEF DirtyColumns
  <2>5. [x EXCEPT !.phase = "selected", !.dirty = d] \in HandlerState
    BY <1>0, <2>4 DEF HandlerState, Phase
  <2>6. QED
    BY <1>0, <1>7, <2>1, <2>5, IdleType, AssignType DEF SelectUser, Tables, TypeRest
<1>8. ASSUME NEW r \in Requests, StoreRating(r) \/ SaveUser(r) \/ Fail(r) PROVE TypeRest'
  <2>1. Assign(r, Idle)
    BY <1>8 DEF StoreRating, SaveUser, Fail
  <2>2. handler' \in [Requests -> HandlerState]
    BY <1>0, <2>1, IdleType, AssignType
  <2>3. CASE StoreRating(r)
    BY <2>2, <2>3 DEF StoreRating, TypeRest
  <2>4. CASE SaveUser(r)
    BY <2>2, <2>4 DEF SaveUser, TypeRest
  <2>5. CASE Fail(r)
    <3>1. handler[r].phase \in {"inserted", "collected"}
            => Subject(handler[r].order, handler[r].by) \in Subjects
      BY <1>0, SubjectType DEF Sound
    <3>2. QED
      BY <2>2, <2>5, <3>1 DEF Fail, TypeRest
  <2>6. QED
    BY <1>8, <2>3, <2>4, <2>5
<1>9. CASE UNCHANGED vars
  BY <1>9 DEF vars, TypeRest
<1>10. QED
  BY <1>1, <1>2, <1>3, <1>4, <1>5, <1>6, <1>7, <1>8, <1>9 DEF Next, HandlerStep

\* Requests, tables and ratings keep their types; in particular what
\* updateUserRating computes of one to five stars each lies between 1.00 and 5.00
\* and fits the columns decimal(3,2) of users, however many reviews there are.
THEOREM TypeCorrect == Spec => []TypeOK
<1>1. ReviewInv /\ RatingInv /\ TypeRest => TypeOK
  <2> SUFFICES ASSUME ReviewInv, RatingInv, TypeRest PROVE TypeOK
    OBVIOUS
  <2>1. \A s \in Subjects : rating[s] \in Rating
    BY OnceRightType DEF RatingInv, Carried
  <2>2. rating \in [Subjects -> Rating]
    <3>1. rating = [s \in Subjects |-> rating[s]]
      BY DEF RatingInv, Carried
    <3>2. QED
      BY <2>1, <3>1
  <2>3. QED
    BY <2>2 DEF TypeOK, TypeRest, ReviewInv
<1>2. QED
  BY <1>1, ReviewInit, ReviewStep, RatingInit, RatingStep, TypeInit, TypeStep, PTL DEF Spec

=============================================================================
