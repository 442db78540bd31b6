---------------------------- MODULE MCAroundCalls ---------------------------
(***************************************************************************)
(* Small instances of AroundCalls.  The parts do not touch each other, so  *)
(* each behaviour is about one of them, its scene, and the larger parts    *)
(* have a scene for each half of what they do.                             *)
(***************************************************************************)
EXTENDS AroundCalls, SequencesExt

CONSTANT SpareClient   \* a client that stays away from the open thread

ASSUME SpareClient \in Clients

VARIABLE scene

SceneInit == Init /\ scene \in
    {"quotes", "reviews", "recording", "words", "thread", "unread", "files", "tokens", "sockets"}

\* A call is recorded while its callbacks bring no words, or words come while
\* it is connected once and nobody leaves.
TranscriptScene ==
    \/ scene = "recording" /\ wordVars' = wordVars
    \/ scene = "words" /\ inRoom' = inRoom /\ call' # "over"

\* The thread is open on some clients and only grows or is deleted, or nobody has
\* it open for long and the two sides read, delete and block.
ChatScene ==
    \/ /\ scene = "thread" /\ blockedBy' = {}
       /\ request'[SpareClient] = Quiet /\ SpareClient \notin room'
       /\ \A c \in Clients : request'[c].op # "mark"
    \/ scene = "unread" /\ (exists => room' = {})

\* Tokens are alike: of those not issued yet, the first in an arbitrary order is.
Order == SetToSeq(Tokens)
IssuedInTurn ==
    \A i, j \in DOMAIN Order :
        i < j /\ token'[Order[i]] = "unissued" => token'[Order[j]] = "unissued"

\* The tokens of an account, or its sockets, meet the portal.
SessionScene ==
    /\ \/ scene = "tokens" /\ TokensMove /\ IssuedInTurn
       \/ scene = "sockets" /\ (SocketsMove \/ CachesMove)
       \/ scene \in {"tokens", "sockets"} /\ (PortalStep \/ AdminStep)
    /\ UNCHANGED <<quoteVars, reviewVars, transcriptVars, chatVars, fileVars>>

SceneNext ==
    /\ \/ scene = "quotes" /\ QuotesMove
       \/ scene = "reviews" /\ ReviewsMove
       \/ scene \in {"recording", "words"} /\ TranscriptsMove /\ TranscriptScene
       \/ scene \in {"thread", "unread"} /\ ChatsMove /\ ChatScene
       \/ scene = "files" /\ FilesMove
       \/ SessionScene
    /\ UNCHANGED scene

SceneSpec ==
    /\ SceneInit /\ [][SceneNext]_<<vars, scene>>
    /\ TranscriptsFairness /\ SessionsFairness

ReviewsSpec == Init /\ scene = "reviews" /\ [][SceneNext]_<<vars, scene>>
=============================================================================
