----------------------------- MODULE AroundCalls ----------------------------
(***************************************************************************)
(* What happens around the calls: the quote requests before them, the      *)
(* transcripts of them and the reviews after them (engagement-service),    *)
(* the conversation of the two parties and the files sent in it            *)
(* (messaging-service, media-service), and the sessions by which a party   *)
(* is signed in and online.  These share no row and call none of each      *)
(* other's handlers.                                                       *)
(***************************************************************************)
EXTENDS Quotes, Reviews, Transcripts, Chats, Files, Sessions

vars == <<quoteVars, reviewVars, transcriptVars, chatVars, fileVars, sessionVars>>

Init ==
    /\ QuotesInit /\ ReviewsInit /\ TranscriptsInit
    /\ ChatsInit /\ FilesInit /\ SessionsInit

QuotesMove ==
    QuotesNext /\ UNCHANGED <<reviewVars, transcriptVars, chatVars, fileVars, sessionVars>>
ReviewsMove ==
    ReviewsNext /\ UNCHANGED <<quoteVars, transcriptVars, chatVars, fileVars, sessionVars>>
TranscriptsMove ==
    TranscriptsNext /\ UNCHANGED <<quoteVars, reviewVars, chatVars, fileVars, sessionVars>>
ChatsMove ==
    ChatsNext /\ UNCHANGED <<quoteVars, reviewVars, transcriptVars, fileVars, sessionVars>>
FilesMove ==
    FilesNext /\ UNCHANGED <<quoteVars, reviewVars, transcriptVars, chatVars, sessionVars>>
SessionsMove ==
    SessionsNext /\ UNCHANGED <<quoteVars, reviewVars, transcriptVars, chatVars, fileVars>>

Next ==
    \/ QuotesMove \/ ReviewsMove \/ TranscriptsMove
    \/ ChatsMove \/ FilesMove \/ SessionsMove

Spec == Init /\ [][Next]_vars

FairSpec == Spec /\ TranscriptsFairness /\ SessionsFairness

(***************************************************************************)
(* Rows, sockets and requests in progress have the shape the schema and    *)
(* the handlers give them (schema.prisma).                                 *)
(***************************************************************************)
TypeOK ==
    /\ QuotesTypeOK /\ ReviewsTypeOK /\ TranscriptsTypeOK
    /\ ChatsTypeOK /\ FilesTypeOK /\ SessionsTypeOK

(***************************************************************************)
(* What the customer agrees to is what was on the screen: the price of an  *)
(* accepted quote is the one the customer saw when accepting, although the *)
(* request names no price and acceptQuote, the expert's answers and the    *)
(* expiry job overwrite each other's status.  Excepted are the quotes the  *)
(* expert answered from two devices at once: recordQuoteTransition takes   *)
(* no lock, so the later answer replaces the price that was accepted.      *)
(***************************************************************************)
AcceptedAtSeenPrice ==
    \A q \in Quotes \ crossed :
       quote[q].status = "accepted" => quote[q].agreed = quote[q].amount /\ quote[q].amount > 0

(***************************************************************************)
(* The expert's price is for the words it was given for: once a quotation  *)
(* is on the row, no edit of the customer's changes them (updateQuote's    *)
(* condition is part of its UPDATE), in whatever order the requests come,  *)
(* unless the expert had the request open twice: the slower getQuote then  *)
(* makes a quoted request editable again.                                  *)
(***************************************************************************)
PricedWordsStay ==
    [][\A q \in Quotes \ crossed :
          quote[q].amount > 0 => quote'[q].words = quote[q].words]_vars

(***************************************************************************)
(* When nobody is writing, the expert's rating is that of the published    *)
(* reviews: recalculateExpertRating leaves nothing behind.                 *)
(***************************************************************************)
RatingMatchesReviews ==
    (\A w \in Writers : writer[w] = Resting) => rating = Published
=============================================================================
