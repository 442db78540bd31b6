-------------------------------- MODULE Files --------------------------------
(***************************************************************************)
(* The files of one user (media-service, and messaging-service when a file *)
(* is sent): the row of media_assets that names where the object is, and   *)
(* the object in S3.  A file is uploaded under temp/ and moved to its      *)
(* permanent key when it is first sent in a message.                       *)
(*                                                                         *)
(* S3 is external.  The move is a copy and a delete, each of which may     *)
(* fail, or have its answer lost; the row is written after them.           *)
(***************************************************************************)
EXTENDS Naturals, FiniteSets

CONSTANTS
    Assets,    \* ids of rows of media_assets
    Senders,   \* requests of the owner that may be under way
    NoAsset

ASSUME FilesAssumption == NoAsset \notin Assets

VARIABLES
    asset,     \* rows of media_assets
    objects,   \* the objects in S3: whose file, and under which key
    sending,   \* the sendMessage each sender is in
    uploaded,  \* history: files whose bytes have reached S3
    stranded   \* history: files moved by a request that never wrote the row

fileVars == <<asset, objects, sending, uploaded, stranded>>

\* link: the client was given a link to put the file with.
NoUpload == [status |-> "none", at |-> "temp", link |-> FALSE]
NotSending == [step |-> "none", asset |-> NoAsset, staged |-> {}]

FilesTypeOK ==
    /\ asset \in [Assets -> [status : {"none", "pending_upload", "ready"},
                             at : {"temp", "kept"}, link : BOOLEAN]]
    /\ objects \subseteq Assets \X {"temp", "kept"}
    /\ sending \in [Senders -> [step : {"none", "copy", "delete", "write"},
                                asset : Assets \cup {NoAsset}, staged : SUBSET Assets]]
    /\ uploaded \subseteq Assets /\ stranded \subseteq Assets

FilesInit ==
    /\ asset = [a \in Assets |-> NoUpload]
    /\ objects = {} /\ uploaded = {} /\ stranded = {}
    /\ sending = [s \in Senders |-> NotSending]

\* toMediaAssetDto: the object a link to the file is built for.
Link(a) == <<a, asset[a].at>>

\* The bytes get to S3, under the temporary key.
UploadBuffer(a) ==
    /\ objects' = objects \cup {<<a, "temp">>}
    /\ uploaded' = uploaded \cup {a}

\* createUpload hands out a link to put the file under its temporary key.
createUpload(a) ==
    /\ asset[a].status = "none"
    /\ asset' = [asset EXCEPT ![a] = [@ EXCEPT !.status = "pending_upload", !.link = TRUE]]
    /\ UNCHANGED <<objects, sending, uploaded, stranded>>

\* The client puts the file; the link is good for 15 minutes, also after the
\* file was sent, and may be used again.
putObject(a) ==
    /\ asset[a].link
    /\ UploadBuffer(a)
    /\ UNCHANGED <<asset, sending, stranded>>

\* Whether the object is there is not looked at.
confirmUpload(a) ==
    /\ asset[a].status # "none"
    /\ asset' = [asset EXCEPT ![a].status = "ready"]
    /\ UNCHANGED <<objects, sending, uploaded, stranded>>

\* directUpload: the file comes with the request, or is left out.
directUpload(a, withData) ==
    /\ asset[a].status = "none"
    /\ asset' = [asset EXCEPT ![a].status = "ready"]
    /\ IF withData THEN UploadBuffer(a) ELSE UNCHANGED <<objects, uploaded>>
    /\ UNCHANGED <<sending, stranded>>

(***************************************************************************)
(* sendMessage with attachments.  The rows are read at once; each file     *)
(* whose key was a temporary one then is moved in turn, and a move that    *)
(* fails is logged and the message sent all the same (Chats).              *)
(***************************************************************************)
Staged(S) == {a \in S : asset[a].at = "temp"}

Goes(s, step, a, staged) ==
    sending' = [sending EXCEPT ![s] = [step |-> step, asset |-> a, staged |-> staged]]

\* The next file in line, or the end of the request.
Proceeds(s, staged) ==
    IF staged = {} THEN sending' = [sending EXCEPT ![s] = NotSending]
    ELSE \E a \in staged : Goes(s, "copy", a, staged \ {a})

attachFiles(s, S) ==
    /\ sending[s] = NotSending
    /\ S # {} /\ \A a \in S : asset[a].status # "none"
    /\ Proceeds(s, Staged(S))
    /\ UNCHANGED <<asset, objects, uploaded, stranded>>

\* Mutant: the key is written although the object was not moved
CopyOrWrite(s) ==
    LET a == sending[s].asset IN
    /\ sending[s].step = "copy"
    /\ \/ /\ <<a, "temp">> \in objects
          /\ objects' = objects \cup {<<a, "kept">>}
          /\ Goes(s, "delete", a, sending[s].staged)
       \/ Goes(s, "write", a, sending[s].staged) /\ UNCHANGED objects
    /\ UNCHANGED <<asset, uploaded, stranded>>

\* moveS3Object, the copy: it fails when there is nothing under the key any
\* more, or for any reason.
CopyObject(s) ==
    LET a == sending[s].asset IN
    /\ sending[s].step = "copy"
    /\ \/ /\ <<a, "temp">> \in objects
          /\ objects' = objects \cup {<<a, "kept">>}
          /\ Goes(s, "delete", a, sending[s].staged)
       \/ Proceeds(s, sending[s].staged) /\ UNCHANGED objects
    /\ UNCHANGED <<asset, uploaded, stranded>>

\* The delete: done, refused, or done with its answer lost.
DeleteObject(s) ==
    LET a == sending[s].asset IN
    /\ sending[s].step = "delete"
    /\ \/ /\ objects' = objects \ {<<a, "temp">>}
          /\ \/ Goes(s, "write", a, sending[s].staged) /\ UNCHANGED stranded
             \/ Proceeds(s, sending[s].staged) /\ stranded' = stranded \cup {a}
       \/ Proceeds(s, sending[s].staged) /\ UNCHANGED <<objects, stranded>>
    /\ UNCHANGED <<asset, uploaded>>

WriteKey(s) ==
    LET a == sending[s].asset IN
    /\ sending[s].step = "write"
    /\ \/ /\ asset' = [asset EXCEPT ![a] = [@ EXCEPT !.status = "ready", !.at = "kept"]]
          /\ UNCHANGED stranded
       \/ stranded' = stranded \cup {a} /\ UNCHANGED asset
    /\ Proceeds(s, sending[s].staged)
    /\ UNCHANGED <<objects, uploaded>>

\* messaging-service restarts: the requests under way die where they are.
MessagingRestarts ==
    /\ sending' = [s \in Senders |-> NotSending]
    /\ stranded' = stranded \cup {sending[s].asset : s \in {t \in Senders : sending[t].step = "write"}}
    /\ UNCHANGED <<asset, objects, uploaded>>

FilesNext ==
    \/ \E a \in Assets :
          \/ createUpload(a) \/ putObject(a) \/ confirmUpload(a)
          \/ \E withData \in BOOLEAN : directUpload(a, withData)
    \/ \E s \in Senders :
          \/ \E S \in SUBSET Assets : attachFiles(s, S)
          \/ CopyObject(s) \/ DeleteObject(s) \/ WriteKey(s)
    \/ MessagingRestarts

(***************************************************************************)
(* An uploaded file is not lost: its object is under the key the row       *)
(* names, or a request that moved it is about to write the row, whichever  *)
(* requests send it at once and however their steps fail.  Excepted are    *)
(* the files stranded by a request that died, or got an error, between     *)
(* S3's delete and the UPDATE: nothing ever looks for them again.          *)
(***************************************************************************)
FileAtItsKey ==
    \A a \in uploaded \ stranded :
       \/ Link(a) \in objects
       \/ \E s \in Senders : sending[s].step = "write" /\ sending[s].asset = a
=============================================================================
