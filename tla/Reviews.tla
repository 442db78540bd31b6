------------------------------ MODULE Reviews -------------------------------
(***************************************************************************)
(* Reviews of one expert and the rating they add up to.  A customer        *)
(* reviews a completed consultation once; the admin portal hides and       *)
(* publishes reviews.  Each of the three recalculates rating_count and     *)
(* rating_avg with one SQL statement that counts the published reviews     *)
(* and updates the expert's row.                                           *)
(*                                                                         *)
(* The statement counts what its snapshot shows.  If another transaction   *)
(* holds the expert's row, the update waits for it and then goes on with   *)
(* the count it has: PostgreSQL re-reads the locked row and not the rows   *)
(* that were counted.  The count and the update are therefore two steps.   *)
(* The rating is abstracted to the set of reviews it was computed from.    *)
(***************************************************************************)
EXTENDS Naturals, FiniteSets

CONSTANTS
    Reviewed,   \* completed consultations with the expert
    Writers,    \* requests that may be recalculating at a time
    NoReview

ASSUME ReviewsAssumption == NoReview \notin Reviewed

VARIABLES
    review,  \* reviews rows: none, published or hidden
    rating,  \* the published reviews the expert's rating was computed from
    writer   \* each writer's request

reviewVars == <<review, rating, writer>>

Resting == [op |-> "rest", id |-> NoReview, seen |-> {}]

ReviewsTypeOK ==
    /\ review \in [Reviewed -> {"none", "published", "hidden"}]
    /\ rating \subseteq Reviewed
    /\ writer \in [Writers -> [op : {"rest", "submit", "insert", "recount", "write"},
                               id : Reviewed \cup {NoReview}, seen : SUBSET Reviewed]]

ReviewsInit ==
    /\ review = [c \in Reviewed |-> "none"]
    /\ rating = {}
    /\ writer = [w \in Writers |-> Resting]

Published == {c \in Reviewed : review[c] = "published"}

(***************************************************************************)
(* submitReview: the handler reads that the consultation has no review;    *)
(* its transaction inserts one, counts it with those committed so far, and *)
(* commits review and rating together.  A second insert for the same       *)
(* consultation waits for the first to end and fails on the unique index.  *)
(***************************************************************************)
submitReview(w, c) ==
    /\ writer[w] = Resting
    /\ review[c] = "none"
    /\ writer' = [writer EXCEPT ![w] = [op |-> "submit", id |-> c, seen |-> {}]]
    /\ UNCHANGED <<review, rating>>

InsertPending(c) == \E w \in Writers : writer[w].op = "insert" /\ writer[w].id = c

\* Mutant: the recalculation runs outside the transaction that inserts.
insertReviewOutside(w) ==
    LET c == writer[w].id IN
    /\ writer[w].op = "submit"
    /\ ~InsertPending(c)
    /\ writer' = [writer EXCEPT ![w] =
                    IF review[c] = "none"
                    THEN [op |-> "insert", id |-> c, seen |-> Published]
                    ELSE Resting]
    /\ UNCHANGED <<review, rating>>

insertReview(w) ==
    LET c == writer[w].id IN
    /\ writer[w].op = "submit"
    /\ ~InsertPending(c)
    /\ writer' = [writer EXCEPT ![w] =
                    IF review[c] = "none"
                    THEN [op |-> "insert", id |-> c, seen |-> Published \cup {c}]
                    ELSE Resting]
    /\ UNCHANGED <<review, rating>>

commitReview(w) ==
    /\ writer[w].op = "insert"
    /\ review' = [review EXCEPT ![writer[w].id] = "published"]
    /\ rating' = writer[w].seen
    /\ writer' = [writer EXCEPT ![w] = Resting]

(***************************************************************************)
(* hide and publish: the status is committed first, then recalculated.     *)
(***************************************************************************)
moderate(w, c, status) ==
    /\ writer[w] = Resting
    /\ review[c] # "none"
    /\ review' = [review EXCEPT ![c] = status]
    /\ writer' = [writer EXCEPT ![w] = [op |-> "recount", id |-> c, seen |-> {}]]
    /\ UNCHANGED rating

hide(w, c)    == moderate(w, c, "hidden")
publish(w, c) == moderate(w, c, "published")

recalculateExpertRating(w) ==
    /\ writer[w].op = "recount"
    /\ writer' = [writer EXCEPT ![w].op = "write", ![w].seen = Published]
    /\ UNCHANGED <<review, rating>>

writeRating(w) ==
    /\ writer[w].op = "write"
    /\ rating' = writer[w].seen
    /\ writer' = [writer EXCEPT ![w] = Resting]
    /\ UNCHANGED review

ReviewsNext ==
    \E w \in Writers :
       \/ \E c \in Reviewed : submitReview(w, c) \/ hide(w, c) \/ publish(w, c)
       \/ insertReview(w) \/ commitReview(w)
       \/ recalculateExpertRating(w) \/ writeRating(w)
=============================================================================
