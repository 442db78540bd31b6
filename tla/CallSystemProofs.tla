--------------------------- MODULE CallSystemProofs -------------------------
(***************************************************************************)
(* Safety of the call system, for any set of consultations, cards, handler *)
(* and job slots, any rate, any call lengths and any bound on faults.      *)
(*                                                                         *)
(* First the types, with the fact that everything in flight is addressed   *)
(* to a row (TypeInv).  Then what a step may do to a row (Grows): none of  *)
(* the columns the argument needs is ever taken back.  From the two, the   *)
(* inductive invariant IInv, and from it the properties.                   *)
(***************************************************************************)
EXTENDS CallSystem, FiniteSums

(* The price of a call is a natural number: integer rounding of naturals. *)
LEMMA RoundDivNat ==
    ASSUME NEW n \in Nat, NEW d \in Nat, d > 0
    PROVE  RoundDiv(n, d) \in Nat
BY DEF RoundDiv

(* The minutes billed for a call are a natural number. *)
LEMMA MinutesNat ==
    ASSUME NEW s \in Nat
    PROVE  consultationBillableMinutes(s) \in Nat
BY DEF consultationBillableMinutes

(* computeConsultationChargeCents never returns a negative price. *)
LEMMA ChargeCentsNat ==
    ASSUME NEW s \in Nat
    PROVE  ChargeCents(s) \in Nat
<1> DEFINE m == consultationBillableMinutes(s)
<1>1. m \in Nat
  BY MinutesNat
<1>2. m * RateCents \in Nat
  BY <1>1, RateAssumption
<1>3. RoundDiv(m * RateCents, CONSULTATION_RATE_MINUTES) \in Nat
  BY <1>2, RoundDivNat DEF CONSULTATION_RATE_MINUTES
<1> QED
  BY <1>3 DEF ChargeCents, computeConsultationChargeCents, MINIMUM_CONSULTATION_CHARGE_CENTS

(* The amount put on hold is a natural number. *)
LEMMA HoldCentsNat == HoldCents \in Nat
BY RateAssumption DEF HoldCents, consultationHoldMinimumCents, MINIMUM_HOLD_CENTS

-----------------------------------------------------------------------------
TypeInv == TypeOK /\ Addressed

\* The parts of TypeInv about the handlers and about the billing jobs
HandlersTyped ==
    /\ req \in [Requests -> Handler]
    /\ \A v \in Requests :
          req[v].op \notin {"idle", "create"} => req[v].c \in Consultations

JobsTyped ==
    /\ job \in [Jobs -> Job]
    /\ \A j \in Jobs :
          /\ job[j].op # "idle" => job[j].c \in Consultations
          /\ job[j].op \in {"hold", "charge"} => job[j].card \in Cards

(* A handler slot that is freed, or filled with a well-formed handler. *)
LEMMA HandlerStarts ==
    ASSUME TypeInv, NEW w \in Requests, NEW h \in Handler, Starts(w, h),
           h.op \notin {"idle", "create"} => h.c \in Consultations
    PROVE  HandlersTyped'
BY DEF TypeInv, TypeOK, CallsTypeOK, Addressed, Starts, HandlersTyped

(* A handler that returns leaves an idle slot. *)
LEMMA HandlerFinishes ==
    ASSUME TypeInv, NEW w \in Requests, Finishes(w)
    PROVE  HandlersTyped'
BY DEF TypeInv, TypeOK, CallsTypeOK, Addressed, Finishes, Idle, Handler, HandlersTyped

(* What a handler records of the row it loaded. *)
LEMMA LoadedType ==
    ASSUME NEW op \in {"accept", "end", "login", "logout", "close"},
           NEW c \in Consultations, NEW b \in BOOLEAN
    PROVE  /\ Loaded(op, c, b) \in Handler
           /\ Loaded(op, c, b).op = op
           /\ Loaded(op, c, b).c = c
           /\ Loaded(op, c, b).started = b
BY DEF Loaded, Idle, Handler

(* A handler that loads a row is well-formed. *)
LEMMA LoadedStarts ==
    ASSUME TypeInv, NEW w \in Requests,
           NEW op \in {"accept", "end", "login", "logout", "close"},
           NEW c \in Consultations, NEW b \in BOOLEAN, Starts(w, Loaded(op, c, b))
    PROVE  HandlersTyped'
BY LoadedType, HandlerStarts

(* An idle slot is a handler. *)
LEMMA IdleType == Idle \in Handler /\ Idle.op = "idle"
BY DEF Idle, Handler

(* One well-formed row is written. *)
LEMMA RowWritten ==
    ASSUME TypeInv, NEW c \in Consultations, NEW r \in Row, row' = [row EXCEPT ![c] = r]
    PROVE  row' \in [Consultations -> Row]
BY DEF TypeInv, TypeOK, TableTypeOK

(* Writing a column, or the columns a handler writes together, keeps a row  *)
(* well-formed.                                                             *)
LEMMA RowWrites ==
    ASSUME NEW r \in Row
    PROVE  /\ \A st \in ConsultationStatus : [r EXCEPT !.status = st] \in Row
           /\ [r EXCEPT !.status = "in_progress", !.started = TRUE] \in Row
           /\ \A k \in Cards : [r EXCEPT !.pi = k, !.released = FALSE] \in Row
           /\ [r EXCEPT !.released = TRUE] \in Row
           /\ \A b \in {"failed", "charged"} : [r EXCEPT !.billing = b] \in Row
           /\ \A S \in SUBSET Parties : [r EXCEPT !.joined = S] \in Row
<1> USE DEF Row
<1>1. \A st \in ConsultationStatus : [r EXCEPT !.status = st] \in Row
  OBVIOUS
<1>2. [r EXCEPT !.status = "in_progress", !.started = TRUE] \in Row
  BY DEF ConsultationStatus, ACTIVE_CONSULTATION_STATUSES
<1>3. \A k \in Cards : [r EXCEPT !.pi = k, !.released = FALSE] \in Row
  OBVIOUS
<1>4. [r EXCEPT !.released = TRUE] \in Row
  OBVIOUS
<1>5. \A b \in {"failed", "charged"} : [r EXCEPT !.billing = b] \in Row
  OBVIOUS
<1>6. \A S \in SUBSET Parties : [r EXCEPT !.joined = S] \in Row
  OBVIOUS
<1> QED
  BY <1>1, <1>2, <1>3, <1>4, <1>5, <1>6

(* Every row of the table is well-formed. *)
LEMMA RowRead ==
    ASSUME TypeInv, NEW c \in Consultations
    PROVE  row[c] \in Row
BY DEF TypeInv, TypeOK, TableTypeOK

(* The two ways a call ends write well-formed rows and POSTs. *)
LEMMA EndTypes ==
    ASSUME TypeInv, NEW c \in Consultations, NEW b \in BOOLEAN, NEW s \in CallSeconds
    PROVE  /\ WriteEnd(c, b, s) => row' \in [Consultations -> Row]
           /\ PostEnd(c, b, s) => posts' \subseteq Post
<1>1. WriteEnd(c, b, s) => row' \in [Consultations -> Row]
  <2> DEFINE r == [row[c] EXCEPT !.status = IF b THEN "completed" ELSE "failed",
                                 !.seconds = IF b THEN s ELSE 0]
  <2>1. r \in Row
    BY SecondsAssumption
    DEF TypeInv, TypeOK, TableTypeOK, Row, ConsultationStatus, HOLD_RELEASE_STATUSES
  <2>2. WriteEnd(c, b, s) => row' = [row EXCEPT ![c] = r]
    BY DEF WriteEnd
  <2> QED
    BY <2>1, <2>2, RowWritten
<1>2. PostEnd(c, b, s) => posts' \subseteq Post
  BY SecondsAssumption
  DEF PostEnd, TypeInv, TypeOK, TableTypeOK, Post, capturePost, releasePost
<1> QED
  BY <1>1, <1>2

(* The POST that asks billing to release a hold is well-formed. *)
LEMMA ReleasePostType ==
    ASSUME NEW c \in Consultations
    PROVE  releasePost(c) \in Post
BY SecondsAssumption DEF releasePost, Post

(* Types are kept by every step of engagement-service. *)
LEMMA HandlersKeepTypes ==
    ASSUME TypeInv, NEW w \in Requests, HandlerStep(w), UNCHANGED billingOnly
    PROVE  TypeInv'
<1>0. SUFFICES /\ HandlersTyped'
               /\ row' \in [Consultations -> Row]
               /\ posts' \subseteq Post
               /\ timer' \in [Consultations -> BOOLEAN]
               /\ zego' \subseteq Callback
               /\ UNCHANGED <<tokens, room>>
  BY DEF TypeInv, TypeOK, TableTypeOK, CallsTypeOK, BillingTypeOK, Addressed, billingOnly, HandlersTyped
<1> USE DEF TypeInv
<1>1. CASE createConsultation(w)
  <2> DEFINE h == [Idle EXCEPT
           !.op = "create",
           !.ghosts = {c \in Consultations : row[c].status \in HOLDABLE_STATUSES},
           !.live = {c \in Consultations : row[c].status \in {"accepted", "in_progress"}}]
  <2>1. h \in Handler /\ h.op = "create"
    BY DEF Idle, Handler
  <2>2. Starts(w, h)
    BY <1>1 DEF createConsultation
  <2>3. HandlersTyped'
    BY <2>1, <2>2, HandlerStarts
  <2> QED
    BY <1>1, <2>3 DEF createConsultation, TypeOK, TableTypeOK, CallsTypeOK
<1>2. CASE CreateFailsGhost(w)
  <2>1. PICK c \in req[w].ghosts :
            /\ row' = [row EXCEPT ![c].status = "failed"]
            /\ posts' = posts \cup {releasePost(c)}
            /\ req' = [req EXCEPT ![w].ghosts = @ \ {c}]
    BY <1>2 DEF CreateFailsGhost
  <2>2. c \in Consultations
    BY <2>1 DEF TypeOK, CallsTypeOK, Handler
  <2>3. row' \in [Consultations -> Row]
    <3>1. [row[c] EXCEPT !.status = "failed"] \in Row
      BY <2>2, RowRead, RowWrites DEF ConsultationStatus, HOLD_RELEASE_STATUSES
    <3> QED
      BY <2>1, <2>2, <3>1, RowWritten
  <2>4. posts' \subseteq Post
    BY <2>1, <2>2, ReleasePostType DEF TypeOK, TableTypeOK
  <2>5. HandlersTyped'
    BY <2>1 DEF TypeOK, CallsTypeOK, Handler, Addressed, HandlersTyped
  <2> QED
    BY <1>2, <2>3, <2>4, <2>5 DEF CreateFailsGhost, TypeOK, CallsTypeOK
<1>3. CASE CreateConflicts(w)
  BY <1>3, HandlerFinishes DEF CreateConflicts, TypeOK, TableTypeOK, CallsTypeOK
<1>4. CASE CreateInserts(w)
  <2>1. [NoRow EXCEPT !.status = "requested"] \in Row
    BY SecondsAssumption DEF Row, NoRow, ConsultationStatus, ACTIVE_CONSULTATION_STATUSES
  <2>2. row' \in [Consultations -> Row]
    BY <1>4, <2>1, RowWritten DEF CreateInserts
  <2> QED
    BY <1>4, <2>2, HandlerFinishes DEF CreateInserts, TypeOK, TableTypeOK, CallsTypeOK
<1>5. CASE AcceptUpdates(w)
  <2> DEFINE c == req[w].c
  <2>0. c \in Consultations
    BY <1>5 DEF AcceptUpdates, Addressed
  <2>1. row' \in [Consultations -> Row]
    <3>1. [row[c] EXCEPT !.status = "accepted"] \in Row
      BY <2>0, RowRead, RowWrites DEF ConsultationStatus, ACTIVE_CONSULTATION_STATUSES
    <3>2. CASE row[c].status \in HOLDABLE_STATUSES
      <4>1. row' = [row EXCEPT ![c] = [row[c] EXCEPT !.status = "accepted"]]
        BY <1>5, <3>2 DEF AcceptUpdates
      <4> QED
        BY <2>0, <3>1, <4>1, RowWritten
    <3>3. CASE row[c].status \notin HOLDABLE_STATUSES
      BY <1>5, <3>3 DEF AcceptUpdates, TypeOK, TableTypeOK
    <3> QED
      BY <3>2, <3>3
  <2> QED
    BY <1>5, <2>1, HandlerFinishes DEF AcceptUpdates, TypeOK, TableTypeOK, CallsTypeOK
<1>6. CASE EndUpdates(w)
  <2>1. req[w].c \in Consultations /\ req[w].started \in BOOLEAN
    BY <1>6 DEF EndUpdates, Addressed, TypeOK, CallsTypeOK, Handler
  <2>2. row' \in [Consultations -> Row] /\ posts' \subseteq Post
    <3>1. CASE row[req[w].c].status \in ACTIVE_CONSULTATION_STATUSES
      BY <1>6, <2>1, <3>1, EndTypes DEF EndUpdates
    <3>2. CASE row[req[w].c].status \notin ACTIVE_CONSULTATION_STATUSES
      BY <1>6, <3>2 DEF EndUpdates, TypeOK, TableTypeOK
    <3> QED
      BY <3>1, <3>2
  <2> QED
    BY <1>6, <2>2, HandlerFinishes DEF EndUpdates, TypeOK, CallsTypeOK
<1>7. CASE LoginUpdates(w)
  <2> DEFINE c == req[w].c
             r == [row[c] EXCEPT !.status = "in_progress", !.started = TRUE]
  <2>0. c \in Consultations
    BY <1>7 DEF LoginUpdates, Addressed
  <2>2. r \in Row
    BY <2>0, RowRead, RowWrites
  <2>3. row' = [row EXCEPT ![c] = r]
    BY <1>7 DEF LoginUpdates
  <2>1. row' \in [Consultations -> Row]
    BY <2>0, <2>2, <2>3, RowWritten
  <2> QED
    BY <1>7, <2>1, HandlerFinishes DEF LoginUpdates, TypeOK, TableTypeOK, CallsTypeOK
<1>8. CASE LogoutArmsTimer(w)
  BY <1>8, HandlerFinishes DEF LogoutArmsTimer, TypeOK, TableTypeOK, CallsTypeOK
<1>9. CASE RoomCloseUpdates(w)
  <2>1. req[w].c \in Consultations /\ req[w].started \in BOOLEAN
    BY <1>9 DEF RoomCloseUpdates, Addressed, TypeOK, CallsTypeOK, Handler
  <2>2. row' \in [Consultations -> Row] /\ posts' \subseteq Post
    <3>1. PICK s \in CallSeconds : WriteEnd(req[w].c, req[w].started, s)
                                   /\ PostEnd(req[w].c, req[w].started, s)
      BY <1>9 DEF RoomCloseUpdates
    <3> QED
      BY <2>1, <3>1, EndTypes
  <2> QED
    BY <1>9, <2>2, HandlerFinishes DEF RoomCloseUpdates, TypeOK, CallsTypeOK
<1>10. ASSUME NEW c \in Consultations, acceptConsultation(w, c)
       PROVE  HandlersTyped' /\ UNCHANGED <<row, posts, timer, tokens, room, zego>>
  BY <1>10, LoadedStarts DEF acceptConsultation
<1>11. ASSUME NEW c \in Consultations, endConsultation(w, c)
       PROVE  HandlersTyped' /\ UNCHANGED <<row, posts, timer, tokens, room, zego>>
  <2>1. row[c].started \in BOOLEAN
    BY DEF TypeOK, TableTypeOK, Row
  <2> QED
    BY <1>11, <2>1, LoadedStarts DEF endConsultation
<1>12. ASSUME NEW c \in Consultations, RoomCloseReads(w, c)
       PROVE  /\ HandlersTyped'
              /\ timer' \in [Consultations -> BOOLEAN]
              /\ UNCHANGED <<row, posts, tokens, room>>
  <2>1. row[c].started \in BOOLEAN
    BY DEF TypeOK, TableTypeOK, Row
  <2>2. HandlersTyped'
    BY <1>12, <2>1, LoadedType, IdleType, HandlerStarts DEF RoomCloseReads
  <2> QED
    BY <1>12, <2>2 DEF RoomCloseReads, TypeOK, CallsTypeOK
<1>13. ASSUME NEW c \in Consultations, NEW p \in Parties, handleUserLogin(w, c, p)
       PROVE  /\ HandlersTyped'
              /\ row' \in [Consultations -> Row]
              /\ timer' \in [Consultations -> BOOLEAN]
              /\ UNCHANGED <<posts, tokens, room>>
  <2>1. row[c].started \in BOOLEAN
    BY DEF TypeOK, TableTypeOK, Row
  <2>2. HandlersTyped'
    BY <1>13, <2>1, LoadedType, IdleType, HandlerStarts DEF handleUserLogin
  <2>3. row' \in [Consultations -> Row]
    <3>1. row[c] \in Row
      BY RowRead
    <3>2. row[c].joined \cup {p} \in SUBSET Parties
      BY <3>1 DEF Row
    <3>3. row' = [row EXCEPT ![c] = [row[c] EXCEPT !.joined = row[c].joined \cup {p}]]
      BY <1>13 DEF handleUserLogin
    <3> QED
      BY <3>1, <3>2, <3>3, RowWrites, RowWritten
  <2> QED
    BY <1>13, <2>2, <2>3 DEF handleUserLogin, TypeOK, CallsTypeOK
<1>14. ASSUME NEW c \in Consultations, NEW p \in Parties, handleUserLogout(w, c, p)
       PROVE  HandlersTyped' /\ UNCHANGED <<row, posts, timer, tokens, room>>
  <2>1. CASE MissingTimeout /\ row[c].status = "in_progress"
    <3>1. Starts(w, Loaded("logout", c, FALSE))
      BY <1>14, <2>1 DEF handleUserLogout
    <3>2. HandlersTyped'
      BY <3>1, LoadedStarts
    <3> QED
      BY <1>14, <3>2 DEF handleUserLogout
  <2>2. CASE ~(MissingTimeout /\ row[c].status = "in_progress")
    <3>1. Starts(w, Idle)
      BY <1>14, <2>2 DEF handleUserLogout
    <3>2. HandlersTyped'
      BY <3>1, IdleType, HandlerStarts
    <3> QED
      BY <1>14, <3>2 DEF handleUserLogout
  <2> QED
    BY <2>1, <2>2
<1>15. ASSUME NEW e, Delivered(e)
       PROVE  zego' \subseteq Callback
  BY <1>15 DEF Delivered, TypeOK, CallsTypeOK
<1> QED
  BY <1>1, <1>2, <1>3, <1>4, <1>5, <1>6, <1>7, <1>8, <1>9, <1>10, <1>11, <1>12, <1>13,
     <1>14, <1>15
  DEF HandlerStep, handleRoomClose, TimerFires, handleUserLogin, handleUserLogout,
      TypeOK, TableTypeOK, CallsTypeOK

(* Types are kept by every step of engagement-service and of the room. *)
LEMMA CallsKeepTypes ==
    ASSUME TypeInv, CallsNext, UNCHANGED billingOnly
    PROVE  TypeInv'
<1> USE DEF TypeInv
<1>1. ASSUME NEW w \in Requests, HandlerStep(w)
      PROVE  TypeInv'
  BY <1>1, HandlersKeepTypes
<1>2. ASSUME NEW c \in Consultations, declineConsultation(c)
      PROVE  TypeInv'
  <2>1. [row[c] EXCEPT !.status = "declined"] \in Row
    BY RowRead, RowWrites DEF ConsultationStatus, HOLD_RELEASE_STATUSES
  <2>2. row' \in [Consultations -> Row]
    BY <1>2, <2>1, RowWritten DEF declineConsultation
  <2>3. posts' \subseteq Post
    BY <1>2, ReleasePostType DEF declineConsultation, TypeOK, TableTypeOK
  <2> QED
    BY <1>2, <2>2, <2>3
    DEF declineConsultation, TypeOK, TableTypeOK, CallsTypeOK, BillingTypeOK, Addressed,
        callsOnly, billingOnly
<1>3. ASSUME NEW c \in Consultations, NEW p \in Parties,
             getVideoToken(c, p) \/ ZegoJoin(c, p) \/ ZegoLeave(c, p)
      PROVE  TypeInv'
  <2>1. UNCHANGED <<row, posts, req, timer>>
    BY <1>3 DEF getVideoToken, ZegoJoin, ZegoLeave
  <2>2. tokens' \in [Consultations -> SUBSET Parties]
    BY <1>3 DEF getVideoToken, ZegoJoin, ZegoLeave, TypeOK, CallsTypeOK
  <2>3. room' \in [Consultations -> SUBSET Parties]
    BY <1>3 DEF getVideoToken, ZegoJoin, ZegoLeave, TypeOK, CallsTypeOK
  <2>4. zego' \subseteq Callback
    BY <1>3 DEF getVideoToken, ZegoJoin, ZegoLeave, TypeOK, CallsTypeOK, Callback, callback
  <2> QED
    BY <2>1, <2>2, <2>3, <2>4
    DEF TypeOK, TableTypeOK, CallsTypeOK, BillingTypeOK, Addressed, billingOnly
<1>4. ASSUME NEW e \in zego, ZegoLoses(e)
      PROVE  TypeInv'
  BY <1>4 DEF ZegoLoses, TypeOK, TableTypeOK, CallsTypeOK, BillingTypeOK, Addressed, billingOnly
<1>5. CASE EngagementRestarts
  BY <1>5, IdleType
  DEF EngagementRestarts, TypeOK, TableTypeOK, CallsTypeOK, BillingTypeOK, Addressed, billingOnly
<1> QED
  BY <1>1, <1>2, <1>3, <1>4, <1>5 DEF CallsNext

-----------------------------------------------------------------------------
(* The same for billing-service.  A job moves on to another well-formed job. *)

(* One job is replaced by another well-formed job. *)
LEMMA JobMoves ==
    ASSUME TypeInv, NEW j \in Jobs, NEW r \in Job,
           r.op # "idle" => r.c \in Consultations,
           r.op \in {"hold", "charge"} => r.card \in Cards,
           job' = [job EXCEPT ![j] = r]
    PROVE  JobsTyped'
BY DEF TypeInv, TypeOK, BillingTypeOK, Addressed, JobsTyped

(* An idle slot is a job. *)
LEMMA IdleJobType == IdleJob \in Job /\ IdleJob.op = "idle"
BY DEF IdleJob, Job

(* A billing request that ends leaves an idle slot. *)
LEMMA JobCompletes ==
    ASSUME TypeInv, NEW j \in Jobs, Completes(j)
    PROVE  JobsTyped'
BY IdleJobType, JobMoves DEF Completes

(* Entering settleConsultation leaves well-formed jobs. *)
LEMMA SettlesType ==
    ASSUME TypeInv, NEW j \in Jobs, NEW c \in Consultations, NEW s \in Nat,
           NEW k \in Cards \cup {NoCard}, Settles(j, c, s, k)
    PROVE  JobsTyped'
<1> DEFINE r == IF AlreadyCharged(c) \/ ChargeCents(s) <= 0
                THEN IdleJob
                ELSE [IdleJob EXCEPT !.op = "capture", !.c = c, !.card = k,
                                     !.pi = row[c].pi, !.seconds = s]
<1>1. row[c].pi \in Cards \cup {NoCard}
  BY DEF TypeInv, TypeOK, TableTypeOK, Row
<1>2. r \in Job /\ (r.op # "idle" => r.c = c) /\ r.op \notin {"hold", "charge"}
  BY <1>1 DEF IdleJob, Job
<1> QED
  BY <1>2, JobMoves DEF Settles, Begins

(* One well-formed hold is written. *)
LEMMA HoldWritten ==
    ASSUME TypeInv, NEW c \in Consultations, NEW k \in Cards, NEW h \in Hold
    PROVE  [hold EXCEPT ![c] = [hold[c] EXCEPT ![k] = h]] \in [Consultations -> [Cards -> Hold]]
<1>1. [hold[c] EXCEPT ![k] = h] \in [Cards -> Hold]
  BY DEF TypeInv, TypeOK, BillingTypeOK
<1> QED
  BY <1>1 DEF TypeInv, TypeOK, BillingTypeOK

(* Authorising, and cancelling, a hold leaves a well-formed hold. *)
LEMMA AuthorizeType ==
    ASSUME TypeInv, NEW c \in Consultations, NEW k \in Cards, Authorize(c, k)
    PROVE  hold' \in [Consultations -> [Cards -> Hold]]
<1> DEFINE h == [hold[c][k] EXCEPT !.status = "requires_capture"]
<1>1. h \in Hold
  BY DEF TypeInv, TypeOK, BillingTypeOK, Hold
<1>2. [hold EXCEPT ![c] = [hold[c] EXCEPT ![k] = h]] \in [Consultations -> [Cards -> Hold]]
  BY <1>1, HoldWritten
<1>3. hold' = hold \/ hold' = [hold EXCEPT ![c] = [hold[c] EXCEPT ![k] = h]]
  BY DEF Authorize
<1> QED
  BY <1>2, <1>3 DEF TypeInv, TypeOK, BillingTypeOK

(* Cancelling a hold keeps the types of holds and webhooks. *)
LEMMA CancelType ==
    ASSUME TypeInv, NEW c \in Consultations, NEW k \in Cards, Cancel(c, k)
    PROVE  hold' \in [Consultations -> [Cards -> Hold]] /\ hooks' \subseteq Hook
<1> USE DEF TypeInv
<1>1. hold' \in [Consultations -> [Cards -> Hold]]
  <2> DEFINE h == [hold[c][k] EXCEPT !.status = "canceled"]
  <2>1. h \in Hold
    BY DEF TypeOK, BillingTypeOK, Hold
  <2>2. [hold[c] EXCEPT ![k] = h] \in [Cards -> Hold]
    BY <2>1 DEF TypeOK, BillingTypeOK
  <2>3. hold' = hold \/ hold' = [hold EXCEPT ![c] = [hold[c] EXCEPT ![k] = h]]
    BY DEF Cancel
  <2> QED
    BY <2>2, <2>3 DEF TypeOK, BillingTypeOK
<1>2. hooks' \subseteq Hook
  BY DEF Cancel, TypeOK, BillingTypeOK, Hook, canceledHook
<1> QED
  BY <1>1, <1>2

(* releaseConsultationHold leaves well-formed jobs, holds and webhooks. *)
LEMMA ReleasesType ==
    ASSUME TypeInv, NEW j \in Jobs, NEW c \in Consultations, Releases(j, c)
    PROVE  /\ JobsTyped'
           /\ hold' \in [Consultations -> [Cards -> Hold]]
           /\ hooks' \subseteq Hook
           /\ faults' \in Nat
<1> USE DEF TypeInv
<1> DEFINE r == [IdleJob EXCEPT !.op = "release", !.c = c]
<1>1. r \in Job /\ r.op = "release" /\ r.c = c
  BY DEF IdleJob, Job
<1>2. Begins(j, IdleJob) => JobsTyped'
  BY IdleJobType, JobMoves DEF Begins
<1>3. Begins(j, r) => JobsTyped'
  BY <1>1, JobMoves DEF Begins
<1>4. CASE ~Releasable(c)
  BY <1>2, <1>4 DEF Releases, TypeOK, BillingTypeOK
<1>5. CASE Releasable(c)
  <2>1. row[c].pi \in Cards
    BY <1>5 DEF Releasable, TypeOK, TableTypeOK, Row
  <2>2. JobsTyped'
    BY <1>2, <1>3, <1>5 DEF Releases
  <2>3. hold' \in [Consultations -> [Cards -> Hold]] /\ hooks' \subseteq Hook
    BY <1>5, <2>1, CancelType DEF Releases, TypeOK, BillingTypeOK
  <2>4. faults' \in Nat
    BY <1>5 DEF Releases, Fault, TypeOK, BillingTypeOK
  <2> QED
    BY <2>2, <2>3, <2>4
<1> QED
  BY <1>4, <1>5

(* Types are kept when a billing request begins. *)
LEMMA StartsKeepTypes ==
    ASSUME TypeInv, NEW j \in Jobs, NEW c \in Consultations, JobStart(j, c), UNCHANGED callsOnly
    PROVE  TypeInv'
<1> USE DEF TypeInv
<1>0. SUFFICES /\ JobsTyped'
               /\ hold' \in [Consultations -> [Cards -> Hold]]
               /\ hooks' \subseteq Hook
               /\ faults' \in Nat
               /\ posts' \subseteq Post
               /\ UNCHANGED <<row, direct, declined, voids, charge, credited>>
  BY DEF TypeOK, TableTypeOK, CallsTypeOK, BillingTypeOK, Addressed, callsOnly, JobsTyped
<1>1. NoCard \in Cards \cup {NoCard} /\ row[c].seconds \in Nat
  BY SecondsAssumption DEF TypeOK, TableTypeOK, Row
<1>2. CASE captureConsultation(j, c)
  <2>1. PICK p \in posts : /\ posts' = posts \ {p}
                           /\ Settles(j, c, p.seconds, NoCard)
    BY <1>2 DEF captureConsultation
  <2>2. p.seconds \in Nat
    BY SecondsAssumption DEF TypeOK, TableTypeOK, Post
  <2>3. JobsTyped'
    BY <1>1, <2>1, <2>2, SettlesType
  <2> QED
    BY <1>2, <2>1, <2>3 DEF captureConsultation, TypeOK, TableTypeOK, BillingTypeOK
<1>3. CASE retryFailedCaptures(j, c)
  BY <1>1, <1>3, SettlesType DEF retryFailedCaptures, TypeOK, TableTypeOK, BillingTypeOK
<1>4. CASE releaseConsultationHold(j, c)
  BY <1>4, ReleasesType DEF releaseConsultationHold, TypeOK, TableTypeOK
<1>5. CASE releaseStaleHolds(j, c)
  BY <1>5, ReleasesType DEF releaseStaleHolds, TypeOK, TableTypeOK
<1>6. ASSUME NEW k \in Cards, holdConsultationFunds(j, c, k)
      PROVE  /\ JobsTyped'
             /\ hold' \in [Consultations -> [Cards -> Hold]]
             /\ UNCHANGED <<row, posts, direct, declined, voids, hooks, charge, credited, faults>>
  <2> DEFINE r == [IdleJob EXCEPT !.op = "hold", !.c = c, !.card = k, !.pi = row[c].pi]
  <2>1. r \in Job /\ r.c = c /\ r.card = k
    BY DEF IdleJob, Job, TypeOK, TableTypeOK, Row
  <2>2. JobsTyped'
    BY <1>6, <2>1, JobMoves DEF holdConsultationFunds, Begins
  <2>3. hold' \in [Consultations -> [Cards -> Hold]]
    BY <1>6, AuthorizeType DEF holdConsultationFunds
  <2> QED
    BY <1>6, <2>2, <2>3 DEF holdConsultationFunds, TypeOK, BillingTypeOK
<1>7. ASSUME NEW k \in Cards, payConsultation(j, c, k)
      PROVE  /\ JobsTyped'
             /\ UNCHANGED <<row, posts, hold, direct, declined, voids, hooks, charge,
                            credited, faults>>
  BY <1>1, <1>7, SettlesType DEF payConsultation
<1> QED
  BY <1>2, <1>3, <1>4, <1>5, <1>6, <1>7 DEF JobStart, TypeOK, TableTypeOK, BillingTypeOK

(* Types are kept when a billing request goes on. *)
LEMMA StepsKeepTypes ==
    ASSUME TypeInv, NEW j \in Jobs, JobStep(j), UNCHANGED callsOnly
    PROVE  TypeInv'
<1> USE DEF TypeInv
<1> DEFINE c == job[j].c
<1>0. SUFFICES /\ JobsTyped'
               /\ row' \in [Consultations -> Row]
               /\ hold' \in [Consultations -> [Cards -> Hold]]
               /\ direct' \subseteq ChargeKey
               /\ declined' \subseteq ChargeKey
               /\ voids' \subseteq (Consultations \X Cards)
               /\ hooks' \subseteq Hook
               /\ charge' \in [Consultations -> Nat]
               /\ credited' \in [Consultations -> Nat]
               /\ faults' \in Nat
               /\ UNCHANGED posts
  BY DEF TypeOK, TableTypeOK, CallsTypeOK, BillingTypeOK, Addressed, callsOnly, JobsTyped
<1>1. job[j] \in Job /\ (job[j].op # "idle" => c \in Consultations)
  BY DEF TypeOK, BillingTypeOK, Addressed
<1>2. ChargeCents(job[j].seconds) \in Nat
  BY <1>1, ChargeCentsNat DEF Job
<1>3. CASE HoldPersists(j)
  <2> DEFINE r == [row[c] EXCEPT !.pi = job[j].card, !.released = FALSE]
  <2>1. c \in Consultations /\ job[j].card \in Cards
    BY <1>1, <1>3 DEF HoldPersists, Addressed
  <2>2. r \in Row
    BY <2>1, RowRead, RowWrites
  <2>3. row' \in [Consultations -> Row]
    BY <1>3, <2>1, <2>2, RowWritten DEF HoldPersists
  <2>4. voids' \subseteq (Consultations \X Cards)
    BY <1>3, <2>1 DEF HoldPersists, TypeOK, BillingTypeOK
  <2> QED
    BY <1>3, <2>3, <2>4, JobCompletes DEF HoldPersists, TypeOK, BillingTypeOK
<1>4. CASE SettleRecords(j)
  <2>1. c \in Consultations
    BY <1>1, <1>4 DEF SettleRecords
  <2>2. [row[c] EXCEPT !.billing = "charged"] \in Row
    BY <2>1, RowRead, RowWrites
  <2>3. row' \in [Consultations -> Row]
    <3>1. row' = row \/ row' = [row EXCEPT ![c] = [row[c] EXCEPT !.billing = "charged"]]
      BY <1>4 DEF SettleRecords
    <3> QED
      BY <2>1, <2>2, <3>1, RowWritten DEF TypeOK, TableTypeOK
  <2>4. charge' \in [Consultations -> Nat] /\ credited' \in [Consultations -> Nat]
    <3>1. job[j].collected \in Nat /\ credited[c] + job[j].collected \in Nat
      BY <1>1, <2>1 DEF TypeOK, BillingTypeOK, Job
    <3>2. CASE charge[c] > 0
      BY <1>4, <3>2 DEF SettleRecords, TypeOK, BillingTypeOK
    <3>3. CASE ~(charge[c] > 0)
      BY <1>4, <2>1, <3>1, <3>3 DEF SettleRecords, TypeOK, BillingTypeOK
    <3> QED
      BY <3>2, <3>3
  <2> QED
    BY <1>4, <2>3, <2>4, JobCompletes DEF SettleRecords, TypeOK, BillingTypeOK
<1>5. CASE SettleFails(j)
  <2>1. c \in Consultations
    BY <1>1, <1>5 DEF SettleFails
  <2>2. [row[c] EXCEPT !.billing = "failed"] \in Row
    BY <2>1, RowRead, RowWrites
  <2>3. row' \in [Consultations -> Row]
    <3>1. row' = row \/ row' = [row EXCEPT ![c] = [row[c] EXCEPT !.billing = "failed"]]
      BY <1>5 DEF SettleFails
    <3> QED
      BY <2>1, <2>2, <3>1, RowWritten DEF TypeOK, TableTypeOK
  <2> QED
    BY <1>5, <2>3, JobCompletes DEF SettleFails, TypeOK, BillingTypeOK
<1>6. CASE ReleaseStamps(j)
  <2>1. c \in Consultations
    BY <1>1, <1>6 DEF ReleaseStamps
  <2>2. [row[c] EXCEPT !.released = TRUE] \in Row
    BY <2>1, RowRead, RowWrites
  <2>3. row' \in [Consultations -> Row]
    BY <1>6, <2>1, <2>2, RowWritten DEF ReleaseStamps
  <2> QED
    BY <1>6, <2>3, JobCompletes DEF ReleaseStamps, TypeOK, BillingTypeOK
<1>7. CASE CaptureHold(j)
  <2> DEFINE due == ChargeCents(job[j].seconds)
             r(k, n) == [job[j] EXCEPT !.op = "charge", !.card = k, !.collected = n]
             cap == [status |-> "succeeded", received |-> SmallerOf(due, HoldCents)]
  <2>1. c \in Consultations
    BY <1>1, <1>7 DEF CaptureHold
  <2>2. SmallerOf(due, HoldCents) \in Nat
    BY <1>2, HoldCentsNat DEF SmallerOf
  <2>3. \A k \in Cards : Received(hold[c][k]) \in Nat
    BY <2>1 DEF TypeOK, BillingTypeOK, Hold, Received, Received
  <2>4. PICK known \in Cards \cup {NoCard}, n \in Nat : \E k \in Remainder(j, known) :
            job' = [job EXCEPT ![j] = r(k, n)]
    <3>1. job[j].pi \in Cards \cup {NoCard}
      BY <1>1 DEF Job
    <3>2. ASSUME NEW known \in Cards \cup {NoCard}, NEW n \in Nat,
                 \E k \in Remainder(j, known) : Goes(j, r(k, n))
          PROVE  \E x \in Cards \cup {NoCard}, m \in Nat : \E k \in Remainder(j, x) :
                    job' = [job EXCEPT ![j] = r(k, m)]
      BY <3>2 DEF Goes
    <3> QED
      BY <1>7, <2>2, <2>3, <3>1, <3>2 DEF CaptureHold
  <2>5. PICK k \in Remainder(j, known) : job' = [job EXCEPT ![j] = r(k, n)]
    BY <2>4
  <2>6. k \in Cards
    BY <1>1, CardsAssumption DEF Remainder, Job
  <2>7. JobsTyped'
    <3>1. r(k, n) \in Job /\ r(k, n).c = c /\ r(k, n).card = k
      BY <1>1, <2>6 DEF Job
    <3> QED
      BY <2>1, <2>5, <2>6, <3>1, JobMoves
  <2>8. hold' \in [Consultations -> [Cards -> Hold]]
    <3>1. cap \in Hold
      BY <2>2 DEF Hold
    <3>2. hold' = hold \/ \E x \in Cards : hold' = [hold EXCEPT ![c] = [hold[c] EXCEPT ![x] = cap]]
      BY <1>1, <1>7 DEF CaptureHold, Job
    <3>3. hold' = hold => hold' \in [Consultations -> [Cards -> Hold]]
      BY DEF TypeOK, BillingTypeOK
    <3>4. ASSUME hold' # hold
          PROVE  hold' \in [Consultations -> [Cards -> Hold]]
      <4>1. PICK x \in Cards : hold' = [hold EXCEPT ![c] = [hold[c] EXCEPT ![x] = cap]]
        BY <3>2, <3>4
      <4>2. [hold EXCEPT ![c] = [hold[c] EXCEPT ![x] = cap]] \in [Consultations -> [Cards -> Hold]]
        BY <2>1, <3>1, HoldWritten
      <4> QED
        BY <4>1, <4>2
    <3> QED
      BY <3>3, <3>4
  <2>9. faults' \in Nat
    <3>1. UNCHANGED faults \/ Fault("stripe")
      BY <1>7 DEF CaptureHold
    <3> QED
      BY <3>1 DEF Fault, TypeOK, BillingTypeOK
  <2> QED
    BY <1>7, <2>7, <2>8, <2>9 DEF CaptureHold, TypeOK, TableTypeOK, BillingTypeOK
<1>8. CASE ChargeRemainder(j)
  <2> DEFINE left == ChargeCents(job[j].seconds) - job[j].collected
             key  == [c |-> c, card |-> job[j].card,
                      collected |-> job[j].collected, cents |-> left]
             r(op, n) == [job[j] EXCEPT !.op = op, !.collected = n]
  <2>1. c \in Consultations /\ job[j].card \in Cards
    BY <1>1, <1>8 DEF ChargeRemainder, Addressed
  <2>2. left >= MINIMUM_OFF_SESSION_CENTS => key \in ChargeKey
    BY <1>1, <1>2, <2>1 DEF MINIMUM_OFF_SESSION_CENTS, ChargeKey, Job
  <2>3. \E op \in {"record", "fail"}, n \in Nat : job' = [job EXCEPT ![j] = r(op, n)]
    BY <1>1, <1>2, <1>8 DEF ChargeRemainder, Goes, Job
  <2>4. JobsTyped'
    <3>1. PICK op \in {"record", "fail"}, n \in Nat : job' = [job EXCEPT ![j] = r(op, n)]
      BY <2>3
    <3>2. r(op, n) \in Job /\ r(op, n).c = c /\ r(op, n).op = op
      BY <1>1 DEF Job
    <3> QED
      BY <2>1, <3>1, <3>2, JobMoves
  <2>5. direct' \subseteq ChargeKey /\ declined' \subseteq ChargeKey
    BY <1>8, <2>2 DEF ChargeRemainder, TypeOK, BillingTypeOK
  <2>6. hooks' \subseteq Hook
    BY <1>8, <2>1 DEF ChargeRemainder, TypeOK, BillingTypeOK, Hook, failedHook
  <2>7. faults' \in Nat
    BY <1>8 DEF ChargeRemainder, Fault, TypeOK, BillingTypeOK
  <2> QED
    BY <1>8, <2>4, <2>5, <2>6, <2>7 DEF ChargeRemainder, TypeOK, TableTypeOK, BillingTypeOK
<1> QED
  BY <1>3, <1>4, <1>5, <1>6, <1>7, <1>8 DEF JobStep

(* Types are kept by every step of billing-service and of Stripe. *)
LEMMA BillingKeepsTypes ==
    ASSUME TypeInv, BillingNext, UNCHANGED callsOnly
    PROVE  TypeInv'
<1> USE DEF TypeInv
<1>1. ASSUME NEW j \in Jobs, JobStep(j) \/ \E c \in Consultations : JobStart(j, c)
      PROVE  TypeInv'
  BY <1>1, StepsKeepTypes, StartsKeepTypes
<1>2. ASSUME NEW c \in Consultations, ExpireAbandoned(c)
      PROVE  TypeInv'
  <2> DEFINE r == [row[c] EXCEPT !.status = "failed", !.seconds = 0]
  <2>1. r \in Row
    BY SecondsAssumption
    DEF TypeOK, TableTypeOK, Row, ConsultationStatus, HOLD_RELEASE_STATUSES
  <2>2. row' \in [Consultations -> Row]
    BY <1>2, <2>1, RowWritten DEF ExpireAbandoned
  <2> QED
    BY <1>2, <2>2
    DEF ExpireAbandoned, TypeOK, TableTypeOK, CallsTypeOK, BillingTypeOK, Addressed,
        callsOnly, billingOnly
<1>3. ASSUME NEW c \in Consultations, NEW k \in Cards, HoldDeclined(c, k)
      PROVE  TypeInv'
  <2> DEFINE h == [hold[c][k] EXCEPT !.status = "declined"]
  <2>1. h \in Hold
    BY DEF TypeOK, BillingTypeOK, Hold
  <2>2. hold' = [hold EXCEPT ![c] = [hold[c] EXCEPT ![k] = h]]
    BY <1>3 DEF HoldDeclined
  <2>3. hold' \in [Consultations -> [Cards -> Hold]]
    BY <2>1, <2>2, HoldWritten
  <2>4. hooks' \subseteq Hook
    BY <1>3 DEF HoldDeclined, TypeOK, BillingTypeOK, Hook, failedHook
  <2> QED
    BY <1>3, <2>3, <2>4
    DEF HoldDeclined, TypeOK, TableTypeOK, CallsTypeOK, BillingTypeOK, Addressed, callsOnly
<1>4. ASSUME NEW c \in Consultations, NEW k \in Cards, VoidSuperseded(c, k)
      PROVE  TypeInv'
  <2>1. hold' \in [Consultations -> [Cards -> Hold]] /\ hooks' \subseteq Hook
    BY <1>4, CancelType DEF VoidSuperseded, TypeOK, BillingTypeOK
  <2>2. faults' \in Nat
    BY <1>4 DEF VoidSuperseded, Fault, TypeOK, BillingTypeOK
  <2> QED
    BY <1>4, <2>1, <2>2
    DEF VoidSuperseded, TypeOK, TableTypeOK, CallsTypeOK, BillingTypeOK, Addressed, callsOnly
<1>8. ASSUME NEW c \in Consultations, NEW k \in Cards, HoldLost(c, k)
      PROVE  TypeInv'
  <2>1. hold' \in [Consultations -> [Cards -> Hold]]
    BY <1>8, AuthorizeType DEF HoldLost
  <2>2. faults' \in Nat
    BY <1>8 DEF HoldLost, Fault, TypeOK, BillingTypeOK
  <2> QED
    BY <1>8, <2>1, <2>2
    DEF HoldLost, TypeOK, TableTypeOK, CallsTypeOK, BillingTypeOK, Addressed, callsOnly
<1>9. ASSUME NEW c \in Consultations, NEW k \in Cards, HoldExpires(c, k)
      PROVE  TypeInv'
  <2>1. hold' \in [Consultations -> [Cards -> Hold]] /\ hooks' \subseteq Hook
    BY <1>9, CancelType DEF HoldExpires
  <2>2. faults' \in Nat
    BY <1>9 DEF HoldExpires, Fault, TypeOK, BillingTypeOK
  <2> QED
    BY <1>9, <2>1, <2>2
    DEF HoldExpires, TypeOK, TableTypeOK, CallsTypeOK, BillingTypeOK, Addressed, callsOnly
<1>5. ASSUME NEW c \in Consultations, NEW k \in Cards,
             PaymentIntentCanceled(c, k) \/ PaymentIntentFailed(c, k)
      PROVE  TypeInv'
  <2>1. /\ [row[c] EXCEPT !.released = TRUE] \in Row
        /\ [row[c] EXCEPT !.billing = "failed"] \in Row
    BY RowRead, RowWrites
  <2>2. \/ row' = row
        \/ row' = [row EXCEPT ![c] = [row[c] EXCEPT !.released = TRUE]]
        \/ row' = [row EXCEPT ![c] = [row[c] EXCEPT !.billing = "failed"]]
    BY <1>5 DEF PaymentIntentCanceled, PaymentIntentFailed
  <2>3. row' \in [Consultations -> Row]
    BY <2>1, <2>2, RowWritten DEF TypeOK, TableTypeOK
  <2> QED
    BY <1>5, <2>3
    DEF PaymentIntentCanceled, PaymentIntentFailed, TypeOK, TableTypeOK, CallsTypeOK,
        BillingTypeOK, Addressed, callsOnly
<1>6. ASSUME NEW p \in posts, PostLost(p)
      PROVE  TypeInv'
  BY <1>6
  DEF PostLost, TypeOK, TableTypeOK, CallsTypeOK, BillingTypeOK, Addressed, callsOnly, billingOnly
<1>7. CASE BillingRestarts
  <2>1. faults' \in Nat
    BY <1>7 DEF BillingRestarts, Fault, TypeOK, BillingTypeOK
  <2> QED
    BY <1>7, <2>1, IdleJobType
    DEF BillingRestarts, TypeOK, TableTypeOK, CallsTypeOK, BillingTypeOK, Addressed, callsOnly
<1> QED
  BY <1>1, <1>2, <1>3, <1>4, <1>5, <1>6, <1>7, <1>8, <1>9 DEF BillingNext

(* Every reachable state is well typed: only the statuses, amounts,         *)
(* messages and requests the tables and services know ever appear.          *)
THEOREM TypeCorrect == Spec => []TypeOK
<1>1. Init => TypeInv
  BY SecondsAssumption, IdleType, IdleJobType
  DEF Init, TableInit, CallsInit, BillingInit, TypeInv, TypeOK, TableTypeOK, CallsTypeOK,
      BillingTypeOK, Addressed, NoRow, Row, ConsultationStatus, Hold
<1>2. TypeInv /\ [Next]_vars => TypeInv'
  <2> SUFFICES ASSUME TypeInv, [Next]_vars PROVE TypeInv'
    OBVIOUS
  <2>1. CASE Engagement
    BY <2>1, CallsKeepTypes DEF Engagement
  <2>2. CASE Billing
    BY <2>2, BillingKeepsTypes DEF Billing
  <2>3. CASE UNCHANGED vars
    BY <2>3
    DEF vars, TypeInv, TypeOK, TableTypeOK, CallsTypeOK, BillingTypeOK, Addressed,
        callsOnly, billingOnly
  <2> QED
    BY <2>1, <2>2, <2>3 DEF Next
<1>3. TypeInv => TypeOK
  BY DEF TypeInv
<1> QED
  BY <1>1, <1>2, <1>3, PTL DEF Spec

-----------------------------------------------------------------------------
(* What a step may do to a row.  RowOK is EmptyRows and HoldBeforeCall for  *)
(* one row and its tokens; RowGrows says that nothing the argument needs is *)
(* taken back.                                                              *)

RowOK(r, t) ==
    /\ r.status = "none" => r.pi = NoCard /\ ~r.started /\ r.joined = {}
    /\ r.status = "accepted" => r.pi # NoCard
    /\ t # {} => r.pi # NoCard
    /\ r.joined \subseteq t
    /\ r.started => r.joined = Parties
    /\ r.status \in {"in_progress", "completed"} => r.started

RowGrows(r, s) ==
    /\ r.started => s.started
    /\ r.pi # NoCard => s.pi # NoCard
    /\ r.joined \subseteq s.joined
    /\ r.status # "none" => s.status # "none"

RowsOK == \A c \in Consultations : RowOK(row[c], tokens[c])

Grows == \A c \in Consultations : RowGrows(row[c], row'[c]) /\ tokens[c] \subseteq tokens'[c]

(* The row-by-row form of the two conjuncts about rows. *)
LEMMA RowsOKMeans == RowsOK <=> EmptyRows /\ HoldBeforeCall
BY DEF RowsOK, RowOK, EmptyRows, HoldBeforeCall

(* One row is written, the tokens stay. *)
LEMMA OneRow ==
    ASSUME TypeInv, RowsOK, NEW c \in Consultations, NEW r,
           row' = [row EXCEPT ![c] = r], tokens' = tokens,
           RowGrows(row[c], r), RowOK(r, tokens[c])
    PROVE  RowsOK' /\ Grows
<1>1. \A d \in Consultations : row'[d] = IF d = c THEN r ELSE row[d]
  BY DEF TypeInv, TypeOK, TableTypeOK
<1>2. RowsOK'
  BY <1>1 DEF RowsOK
<1>3. \A d \in Consultations : RowGrows(row[d], row[d])
  BY DEF RowGrows
<1>4. Grows
  BY <1>1, <1>3 DEF Grows
<1> QED
  BY <1>2, <1>4

(* A step that leaves rows and tokens alone keeps the row conjuncts. *)
LEMMA SameRows ==
    ASSUME RowsOK, row' = row, tokens' = tokens
    PROVE  RowsOK' /\ Grows
BY DEF RowsOK, Grows, RowGrows

(* Ending a call keeps the chain: "completed" is written only for a call    *)
(* that is remembered to have started.                                      *)
LEMMA EndKeepsRows ==
    ASSUME TypeInv, RowsOK, NEW c \in Consultations, NEW b \in BOOLEAN, NEW s \in CallSeconds,
           WriteEnd(c, b, s), b => row[c].started, tokens' = tokens
    PROVE  RowsOK' /\ Grows
<1> DEFINE r == [row[c] EXCEPT !.status = IF b THEN "completed" ELSE "failed",
                               !.seconds = IF b THEN s ELSE 0]
<1>1. row' = [row EXCEPT ![c] = r]
  BY DEF WriteEnd
<1>2. row[c] \in Row /\ RowOK(row[c], tokens[c])
  BY DEF TypeInv, TypeOK, TableTypeOK, RowsOK
<1>3. r.started = row[c].started /\ r.pi = row[c].pi /\ r.joined = row[c].joined
      /\ r.status = IF b THEN "completed" ELSE "failed"
  BY <1>2 DEF Row
<1>4. RowGrows(row[c], r)
  BY <1>3 DEF RowGrows
<1>5. RowOK(r, tokens[c])
  BY <1>2, <1>3 DEF RowOK
<1> QED
  BY <1>1, <1>4, <1>5, OneRow

(* A handler of engagement-service keeps the row conjuncts and takes nothing back. *)
LEMMA HandlerRows ==
    ASSUME TypeInv, RowsOK, HandlersRemember, LoginsHaveTokens,
           NEW w \in Requests, HandlerStep(w)
    PROVE  RowsOK' /\ Grows
<1>0. \A c \in Consultations : row[c] \in Row /\ RowOK(row[c], tokens[c])
  BY DEF TypeInv, TypeOK, TableTypeOK, RowsOK
<1>1. ASSUME row' = row, tokens' = tokens
      PROVE  RowsOK' /\ Grows
  BY <1>1, SameRows
<1>2. CASE CreateFailsGhost(w)
  <2>1. PICK c \in req[w].ghosts : row' = [row EXCEPT ![c].status = "failed"]
    BY <1>2 DEF CreateFailsGhost
  <2>2. c \in Consultations
    BY <2>1 DEF TypeInv, TypeOK, CallsTypeOK, Handler
  <2> DEFINE r == [row[c] EXCEPT !.status = "failed"]
  <2>3. r.started = row[c].started /\ r.pi = row[c].pi /\ r.joined = row[c].joined
        /\ r.status = "failed"
    BY <1>0, <2>2 DEF Row
  <2>4. RowGrows(row[c], r) /\ RowOK(r, tokens[c])
    BY <1>0, <2>2, <2>3 DEF RowGrows, RowOK
  <2>5. row' = [row EXCEPT ![c] = r] /\ tokens' = tokens
    BY <1>2, <2>1 DEF CreateFailsGhost
  <2> QED
    BY <2>2, <2>4, <2>5, OneRow
<1>3. CASE CreateInserts(w)
  <2> DEFINE r == [NoRow EXCEPT !.status = "requested"]
  <2>1. PICK c \in Consultations : ~Exists(c) /\ row' = [row EXCEPT ![c] = r]
    BY <1>3 DEF CreateInserts
  <2>2. r.status = "requested" /\ ~r.started /\ r.joined = {}
    BY DEF NoRow
  <2>3. RowGrows(row[c], r) /\ RowOK(r, tokens[c])
    BY <1>0, <2>1, <2>2 DEF RowGrows, RowOK, Exists
  <2>4. tokens' = tokens
    BY <1>3 DEF CreateInserts
  <2> QED
    BY <2>1, <2>3, <2>4, OneRow
<1>4. CASE AcceptUpdates(w)
  <2> DEFINE c == req[w].c
             r == [row[c] EXCEPT !.status = "accepted"]
  <2>1. c \in Consultations /\ row[c].pi # NoCard /\ tokens' = tokens
    BY <1>4 DEF AcceptUpdates, TypeInv, Addressed, HandlersRemember
  <2>2. r.started = row[c].started /\ r.pi = row[c].pi /\ r.joined = row[c].joined
        /\ r.status = "accepted"
    BY <1>0, <2>1 DEF Row
  <2>3. RowGrows(row[c], r) /\ RowOK(r, tokens[c])
    BY <1>0, <2>1, <2>2 DEF RowGrows, RowOK
  <2>4. row' = row \/ row' = [row EXCEPT ![c] = r]
    BY <1>4 DEF AcceptUpdates
  <2> HIDE DEF c, r
  <2> QED
    BY <1>1, <2>1, <2>3, <2>4, OneRow
<1>5. CASE EndUpdates(w)
  <2>1. /\ req[w].c \in Consultations
        /\ req[w].started \in BOOLEAN
        /\ req[w].started => row[req[w].c].started
        /\ tokens' = tokens
    BY <1>5 DEF EndUpdates, TypeInv, TypeOK, CallsTypeOK, Addressed, Handler, HandlersRemember
  <2>2. CASE UNCHANGED row
    BY <1>1, <2>1, <2>2
  <2>3. CASE \E s \in CallSeconds : WriteEnd(req[w].c, req[w].started, s)
    BY <2>1, <2>3, EndKeepsRows
  <2> QED
    BY <1>5, <2>2, <2>3 DEF EndUpdates
<1>6. CASE RoomCloseUpdates(w)
  <2>1. /\ req[w].c \in Consultations
        /\ req[w].started \in BOOLEAN
        /\ req[w].started => row[req[w].c].started
        /\ tokens' = tokens
    BY <1>6 DEF RoomCloseUpdates, TypeInv, TypeOK, CallsTypeOK, Addressed, Handler,
                HandlersRemember
  <2>2. \E s \in CallSeconds : WriteEnd(req[w].c, req[w].started, s)
    BY <1>6 DEF RoomCloseUpdates
  <2> QED
    BY <2>1, <2>2, EndKeepsRows
<1>7. CASE LoginUpdates(w)
  <2> DEFINE c == req[w].c
             r == [row[c] EXCEPT !.status = "in_progress", !.started = TRUE]
  <2>1. c \in Consultations /\ row[c].joined = Parties /\ tokens' = tokens
    BY <1>7 DEF LoginUpdates, TypeInv, Addressed, HandlersRemember
  <2>2. r.started /\ r.pi = row[c].pi /\ r.joined = row[c].joined
        /\ r.status = "in_progress"
    BY <1>0, <2>1 DEF Row
  <2>3. RowGrows(row[c], r) /\ RowOK(r, tokens[c])
    BY <1>0, <2>1, <2>2 DEF RowGrows, RowOK
  <2>4. row' = [row EXCEPT ![c] = r]
    BY <1>7 DEF LoginUpdates
  <2> HIDE DEF c, r
  <2> QED
    BY <2>1, <2>3, <2>4, OneRow
<1>8. ASSUME NEW c \in Consultations, NEW p \in Parties, handleUserLogin(w, c, p)
      PROVE  RowsOK' /\ Grows
  <2> DEFINE r == [row[c] EXCEPT !.joined = row[c].joined \cup {p}]
  <2>1. p \in tokens[c]
    BY <1>8 DEF handleUserLogin, Delivered, callback, LoginsHaveTokens
  <2>2. r.started = row[c].started /\ r.pi = row[c].pi /\ r.status = row[c].status
        /\ r.joined = row[c].joined \cup {p}
    BY <1>0 DEF Row
  <2>3. row[c].status # "none"
    BY <1>0, <2>1 DEF RowOK
  <2>4. row[c].started => row[c].joined = r.joined
    BY <1>0, <2>2 DEF RowOK
  <2>5. RowGrows(row[c], r) /\ RowOK(r, tokens[c])
    BY <1>0, <2>1, <2>2, <2>3, <2>4 DEF RowGrows, RowOK
  <2>6. row' = [row EXCEPT ![c] = r] /\ tokens' = tokens
    BY <1>8 DEF handleUserLogin
  <2> HIDE DEF r
  <2> QED
    BY <2>5, <2>6, OneRow
<1> QED
  BY <1>1, <1>2, <1>3, <1>4, <1>5, <1>6, <1>7, <1>8
  DEF HandlerStep, createConsultation, CreateConflicts, LogoutArmsTimer, acceptConsultation,
      endConsultation, handleRoomClose, TimerFires, RoomCloseReads, handleUserLogout

(* So does every step of engagement-service and of the room. *)
LEMMA CallsRows ==
    ASSUME TypeInv, RowsOK, HandlersRemember, LoginsHaveTokens, CallsNext
    PROVE  RowsOK' /\ Grows
<1>0. \A c \in Consultations : row[c] \in Row /\ RowOK(row[c], tokens[c])
  BY DEF TypeInv, TypeOK, TableTypeOK, RowsOK
<1>1. ASSUME NEW w \in Requests, HandlerStep(w)
      PROVE  RowsOK' /\ Grows
  BY <1>1, HandlerRows
<1>2. ASSUME NEW c \in Consultations, declineConsultation(c)
      PROVE  RowsOK' /\ Grows
  <2> DEFINE r == [row[c] EXCEPT !.status = "declined"]
  <2>1. r.started = row[c].started /\ r.pi = row[c].pi /\ r.joined = row[c].joined
        /\ r.status = "declined"
    BY <1>0 DEF Row
  <2>2. RowGrows(row[c], r) /\ RowOK(r, tokens[c])
    BY <1>0, <2>1 DEF RowGrows, RowOK
  <2>3. row' = [row EXCEPT ![c] = r] /\ tokens' = tokens
    BY <1>2 DEF declineConsultation, callsOnly
  <2> QED
    BY <2>2, <2>3, OneRow
<1>3. ASSUME NEW c \in Consultations, NEW p \in Parties, getVideoToken(c, p)
      PROVE  RowsOK' /\ Grows
  <2>1. row' = row /\ tokens' = [tokens EXCEPT ![c] = @ \cup {p}] /\ row[c].pi # NoCard
    BY <1>0, <1>3 DEF getVideoToken, RowOK
  <2>2. \A d \in Consultations : tokens[d] \subseteq tokens'[d] /\ (d # c => tokens'[d] = tokens[d])
    BY <2>1 DEF TypeInv, TypeOK, CallsTypeOK
  <2>3. \A d \in Consultations : RowOK(row'[d], tokens'[d])
    BY <1>0, <2>1, <2>2 DEF RowOK
  <2>4. \A d \in Consultations : RowGrows(row[d], row'[d])
    BY <2>1 DEF RowGrows
  <2> QED
    BY <2>2, <2>3, <2>4 DEF RowsOK, Grows
<1>4. ASSUME row' = row, tokens' = tokens
      PROVE  RowsOK' /\ Grows
  BY <1>4, SameRows
<1> QED
  BY <1>1, <1>2, <1>3, <1>4 DEF CallsNext, ZegoJoin, ZegoLeave, ZegoLoses, EngagementRestarts

(* Billing's writes: most leave the four columns of the argument alone.     *)
LEMMA OneRowKept ==
    ASSUME TypeInv, RowsOK, NEW c \in Consultations, NEW r,
           row' = [row EXCEPT ![c] = r], tokens' = tokens,
           r.status = row[c].status, r.started = row[c].started,
           r.joined = row[c].joined, r.pi = row[c].pi
    PROVE  RowsOK' /\ Grows
<1>1. RowOK(r, tokens[c]) /\ RowGrows(row[c], r)
  BY DEF RowsOK, RowOK, RowGrows
<1> QED
  BY <1>1, OneRow

(* So does every step of billing-service and of Stripe. *)
LEMMA BillingRows ==
    ASSUME TypeInv, RowsOK, CapturesAreOfCalls, BillingNext, UNCHANGED callsOnly
    PROVE  RowsOK' /\ Grows
<1>0. /\ \A c \in Consultations : row[c] \in Row /\ RowOK(row[c], tokens[c])
      /\ tokens' = tokens
  BY DEF TypeInv, TypeOK, TableTypeOK, RowsOK, callsOnly
<1>1. ASSUME row' = row
      PROVE  RowsOK' /\ Grows
  BY <1>0, <1>1, SameRows
<1>2. ASSUME NEW j \in Jobs, HoldPersists(j)
      PROVE  RowsOK' /\ Grows
  <2> DEFINE c == job[j].c
             r == [row[c] EXCEPT !.pi = job[j].card, !.released = FALSE]
  <2>1. c \in Consultations /\ job[j].card # NoCard /\ row[c].status # "none"
    BY <1>2, CardsAssumption DEF HoldPersists, TypeInv, Addressed, CapturesAreOfCalls
  <2>2. r.started = row[c].started /\ r.pi = job[j].card /\ r.joined = row[c].joined
        /\ r.status = row[c].status
    BY <1>0, <2>1 DEF Row
  <2>3. RowGrows(row[c], r) /\ RowOK(r, tokens[c])
    BY <1>0, <2>1, <2>2 DEF RowGrows, RowOK
  <2>4. row' = [row EXCEPT ![c] = r]
    BY <1>2 DEF HoldPersists
  <2> HIDE DEF c, r
  <2> QED
    BY <1>0, <2>1, <2>3, <2>4, OneRow
<1>3. ASSUME NEW c \in Consultations, NEW b \in {"charged", "failed"},
             row' = [row EXCEPT ![c].billing = b]
      PROVE  RowsOK' /\ Grows
  <2> DEFINE r == [row[c] EXCEPT !.billing = b]
  <2>1. r.status = row[c].status /\ r.started = row[c].started
        /\ r.joined = row[c].joined /\ r.pi = row[c].pi
    BY <1>0 DEF Row
  <2>2. row' = [row EXCEPT ![c] = r]
    BY <1>3
  <2> HIDE DEF r
  <2> QED
    BY <1>0, <2>1, <2>2, OneRowKept
<1>4. ASSUME NEW c \in Consultations, row' = [row EXCEPT ![c].released = TRUE]
      PROVE  RowsOK' /\ Grows
  <2> DEFINE r == [row[c] EXCEPT !.released = TRUE]
  <2>1. r.status = row[c].status /\ r.started = row[c].started
        /\ r.joined = row[c].joined /\ r.pi = row[c].pi
    BY <1>0 DEF Row
  <2>2. row' = [row EXCEPT ![c] = r]
    BY <1>4
  <2> HIDE DEF r
  <2> QED
    BY <1>0, <2>1, <2>2, OneRowKept
<1>5. ASSUME NEW j \in Jobs, JobStep(j)
      PROVE  RowsOK' /\ Grows
  <2>1. job[j].op # "idle" => job[j].c \in Consultations
    BY DEF TypeInv, Addressed
  <2>2. CASE CaptureHold(j) \/ ChargeRemainder(j)
    BY <1>1, <2>2 DEF CaptureHold, ChargeRemainder
  <2>3. CASE SettleRecords(j)
    BY <1>1, <1>3, <2>1, <2>3 DEF SettleRecords
  <2>4. CASE SettleFails(j)
    BY <1>1, <1>3, <2>1, <2>4 DEF SettleFails
  <2>5. CASE ReleaseStamps(j)
    BY <1>4, <2>1, <2>5 DEF ReleaseStamps
  <2> QED
    BY <1>2, <1>5, <2>2, <2>3, <2>4, <2>5 DEF JobStep
<1>6. ASSUME NEW j \in Jobs, NEW c \in Consultations, JobStart(j, c)
      PROVE  row' = row
  BY <1>6 DEF JobStart, captureConsultation, retryFailedCaptures, releaseConsultationHold,
              releaseStaleHolds, holdConsultationFunds, payConsultation
<1>7. ASSUME NEW c \in Consultations, ExpireAbandoned(c)
      PROVE  RowsOK' /\ Grows
  <2> DEFINE r == [row[c] EXCEPT !.status = "failed", !.seconds = 0]
  <2>1. r.started = row[c].started /\ r.pi = row[c].pi /\ r.joined = row[c].joined
        /\ r.status = "failed"
    BY <1>0 DEF Row
  <2>2. RowGrows(row[c], r) /\ RowOK(r, tokens[c])
    BY <1>0, <2>1 DEF RowGrows, RowOK
  <2>3. row' = [row EXCEPT ![c] = r]
    BY <1>7 DEF ExpireAbandoned
  <2> HIDE DEF r
  <2> QED
    BY <1>0, <2>2, <2>3, OneRow
<1>8. ASSUME NEW c \in Consultations, NEW k \in Cards,
             \/ HoldDeclined(c, k) \/ HoldLost(c, k) \/ HoldExpires(c, k)
             \/ VoidSuperseded(c, k)
             \/ PaymentIntentCanceled(c, k) \/ PaymentIntentFailed(c, k)
      PROVE  RowsOK' /\ Grows
  BY <1>1, <1>3, <1>4, <1>8
  DEF HoldDeclined, HoldLost, HoldExpires, VoidSuperseded, PaymentIntentCanceled,
      PaymentIntentFailed
<1> QED
  BY <1>1, <1>5, <1>6, <1>7, <1>8 DEF BillingNext, PostLost, BillingRestarts

-----------------------------------------------------------------------------
(* What the handlers, callbacks and POSTs in flight remember stays true,    *)
(* because rows only grow.                                                  *)

Remembers(h, rows) ==
    /\ h.op = "accept" => rows[h.c].pi # NoCard
    /\ h.op = "login" => rows[h.c].joined = Parties
    /\ h.op \in {"end", "close"} /\ h.started => rows[h.c].started

(* What a handler remembers of a row survives a step that takes nothing back. *)
LEMMA MemoryHolds ==
    ASSUME TypeInv, TypeInv', HandlersRemember, Grows, NEW v \in Requests
    PROVE  Remembers(req[v], row')
<1>1. CASE req[v].op \in {"accept", "login", "end", "close"}
  <2>1. req[v].c \in Consultations
    BY <1>1 DEF TypeInv, Addressed
  <2>2. RowGrows(row[req[v].c], row'[req[v].c]) /\ row'[req[v].c].joined \subseteq Parties
    BY <2>1 DEF Grows, TypeInv, TypeOK, TableTypeOK, Row
  <2>3. Remembers(req[v], row)
    BY DEF HandlersRemember, Remembers
  <2> QED
    BY <2>2, <2>3 DEF RowGrows, Remembers
<1>2. CASE req[v].op \notin {"accept", "login", "end", "close"}
  BY <1>2 DEF Remembers
<1> QED
  BY <1>1, <1>2

(* A slot is filled with a handler whose memory is right at that moment.    *)
LEMMA SlotRemembers ==
    ASSUME TypeInv, TypeInv', HandlersRemember, Grows, NEW w \in Requests, NEW h,
           req' = [req EXCEPT ![w] = h], Remembers(h, row')
    PROVE  HandlersRemember'
<1>1. \A v \in Requests : req'[v] = IF v = w THEN h ELSE req[v]
  BY DEF TypeInv, TypeOK, CallsTypeOK
<1>2. \A v \in Requests : Remembers(req'[v], row')
  BY <1>1, MemoryHolds
<1> QED
  BY <1>2 DEF HandlersRemember, Remembers

(* When no handler moves, all memories stay true. *)
LEMMA SameSlotsRemember ==
    ASSUME TypeInv, TypeInv', HandlersRemember, Grows, req' = req
    PROVE  HandlersRemember'
<1>1. \A v \in Requests : Remembers(req[v], row')
  BY MemoryHolds
<1> QED
  BY <1>1 DEF HandlersRemember, Remembers

(* When one handler moves, what it now remembers is true of its row. *)
LEMMA HandlersStillRemember ==
    ASSUME TypeInv, TypeInv', HandlersRemember, Grows,
           NEW w \in Requests, HandlerStep(w)
    PROVE  HandlersRemember'
<1>1. ASSUME Finishes(w) \/ Starts(w, Idle)
      PROVE  HandlersRemember'
  <2>1. req' = [req EXCEPT ![w] = Idle] /\ Idle.op = "idle"
    BY <1>1, IdleType DEF Finishes, Starts
  <2> QED
    BY <2>1, SlotRemembers DEF Remembers
<1>2. CASE createConsultation(w)
  <2> DEFINE h == [Idle EXCEPT
           !.op = "create",
           !.ghosts = {c \in Consultations : row[c].status \in HOLDABLE_STATUSES},
           !.live = {c \in Consultations : row[c].status \in {"accepted", "in_progress"}}]
  <2>1. h.op = "create" /\ req' = [req EXCEPT ![w] = h]
    BY <1>2 DEF createConsultation, Starts, Idle
  <2> HIDE DEF h
  <2> QED
    BY <2>1, SlotRemembers DEF Remembers
<1>3. CASE CreateFailsGhost(w)
  <2> DEFINE h(S) == [req[w] EXCEPT !.ghosts = S]
  <2>1. PICK S : req' = [req EXCEPT ![w] = h(S)]
    <3>1. PICK c \in req[w].ghosts : req' = [req EXCEPT ![w].ghosts = @ \ {c}]
      BY <1>3 DEF CreateFailsGhost
    <3>2. req' = [req EXCEPT ![w] = h(req[w].ghosts \ {c})]
      BY <3>1
    <3> QED
      BY <3>2
  <2>2. h(S).op = "create"
    BY <1>3 DEF CreateFailsGhost, TypeInv, TypeOK, CallsTypeOK, Handler
  <2> HIDE DEF h
  <2> QED
    BY <2>1, <2>2, SlotRemembers DEF Remembers
<1>4. ASSUME NEW c \in Consultations, acceptConsultation(w, c)
      PROVE  HandlersRemember'
  <2> DEFINE h == Loaded("accept", c, FALSE)
  <2>1. h.op = "accept" /\ h.c = c
    BY DEF Loaded, Idle
  <2>2. req' = [req EXCEPT ![w] = h] /\ row'[c].pi # NoCard
    BY <1>4 DEF acceptConsultation, Starts, HoldSecured
  <2> HIDE DEF h
  <2> QED
    BY <2>1, <2>2, SlotRemembers DEF Remembers
<1>5. ASSUME NEW c \in Consultations, NEW op \in {"end", "close"},
             Starts(w, Loaded(op, c, row[c].started)), row' = row
      PROVE  HandlersRemember'
  <2> DEFINE h == Loaded(op, c, row[c].started)
  <2>0. row[c].started \in BOOLEAN
    BY DEF TypeInv, TypeOK, TableTypeOK, Row
  <2>1. h.op = op /\ h.c = c /\ h.started = row[c].started
    BY <2>0, LoadedType
  <2>2. req' = [req EXCEPT ![w] = h]
    BY <1>5 DEF Starts
  <2> HIDE DEF h
  <2> QED
    BY <1>5, <2>1, <2>2, SlotRemembers DEF Remembers
<1>6. ASSUME NEW c \in Consultations, RoomCloseReads(w, c)
      PROVE  HandlersRemember'
  BY <1>1, <1>5, <1>6 DEF RoomCloseReads
<1>7. ASSUME NEW c \in Consultations, NEW p \in Parties, handleUserLogin(w, c, p)
      PROVE  HandlersRemember'
  <2>1. CASE row[c].status \in {"requested", "accepted"} /\ row[c].joined \cup {p} = Parties
    <3> DEFINE h == Loaded("login", c, row[c].started)
    <3>0. row[c].started \in BOOLEAN
      BY DEF TypeInv, TypeOK, TableTypeOK, Row
    <3>1. h.op = "login" /\ h.c = c
      BY <3>0, LoadedType
    <3>2. req' = [req EXCEPT ![w] = h]
      BY <1>7, <2>1 DEF handleUserLogin, Starts
    <3>3. row'[c].joined = Parties
      BY <1>7, <2>1 DEF handleUserLogin, TypeInv, TypeOK, TableTypeOK, Row
    <3> HIDE DEF h
    <3> QED
      BY <3>1, <3>2, <3>3, SlotRemembers DEF Remembers
  <2>2. CASE ~(row[c].status \in {"requested", "accepted"} /\ row[c].joined \cup {p} = Parties)
    BY <1>1, <1>7, <2>2 DEF handleUserLogin
  <2> QED
    BY <2>1, <2>2
<1>8. ASSUME NEW c \in Consultations, NEW p \in Parties, handleUserLogout(w, c, p)
      PROVE  HandlersRemember'
  <2> DEFINE h == Loaded("logout", c, FALSE)
  <2>1. h.op = "logout"
    BY DEF Loaded, Idle
  <2>2. req' = [req EXCEPT ![w] = h] \/ Starts(w, Idle)
    BY <1>8 DEF handleUserLogout, Starts
  <2> HIDE DEF h
  <2> QED
    BY <1>1, <2>1, <2>2, SlotRemembers DEF Remembers
<1> QED
  BY <1>1, <1>2, <1>3, <1>4, <1>5, <1>6, <1>7, <1>8
  DEF HandlerStep, CreateConflicts, CreateInserts, AcceptUpdates, EndUpdates, LoginUpdates,
      LogoutArmsTimer, RoomCloseUpdates, endConsultation, handleRoomClose, TimerFires

(* Callbacks of the room: a room_login is only ever sent for a token holder. *)
LEMMA LoginsKeepTokens ==
    ASSUME TypeInv, LoginsHaveTokens, Grows, CallsNext
    PROVE  LoginsHaveTokens'
<1>0. \A e \in Callback : e.c \in Consultations
  BY DEF Callback
<1>1. ASSUME zego' \subseteq zego
      PROVE  LoginsHaveTokens'
  BY <1>0, <1>1 DEF LoginsHaveTokens, Grows, TypeInv, TypeOK, CallsTypeOK
<1>2. ASSUME NEW e, Delivered(e)
      PROVE  zego' \subseteq zego
  BY <1>2 DEF Delivered
<1>3. ASSUME NEW w \in Requests, HandlerStep(w)
      PROVE  zego' \subseteq zego
  BY <1>2, <1>3
  DEF HandlerStep, createConsultation, CreateFailsGhost, CreateConflicts, CreateInserts,
      AcceptUpdates, EndUpdates, LoginUpdates, LogoutArmsTimer, RoomCloseUpdates,
      acceptConsultation, endConsultation, handleRoomClose, TimerFires, RoomCloseReads,
      handleUserLogin, handleUserLogout
<1>4. ASSUME NEW c \in Consultations, NEW p \in Parties, ZegoJoin(c, p)
      PROVE  LoginsHaveTokens'
  <2>1. /\ p \in tokens[c] /\ tokens' = tokens
        /\ zego' = zego \cup {callback("room_login", c, p)}
    BY <1>4 DEF ZegoJoin
  <2> QED
    BY <2>1 DEF LoginsHaveTokens, callback
<1>5. ASSUME NEW c \in Consultations, NEW p \in Parties, ZegoLeave(c, p)
      PROVE  LoginsHaveTokens'
  <2>1. /\ tokens' = tokens
        /\ zego' \subseteq zego \cup {callback("room_logout", c, p), callback("room_close", c, "room")}
    BY <1>5 DEF ZegoLeave
  <2> QED
    BY <2>1 DEF LoginsHaveTokens, callback
<1>6. ASSUME NEW c \in Consultations, NEW p \in Parties, getVideoToken(c, p)
      PROVE  LoginsHaveTokens'
  BY <1>1, <1>6 DEF getVideoToken
<1>7. ASSUME NEW c \in Consultations, declineConsultation(c)
      PROVE  LoginsHaveTokens'
  BY <1>1, <1>7 DEF declineConsultation, callsOnly
<1>8. ASSUME NEW e \in zego, ZegoLoses(e)
      PROVE  LoginsHaveTokens'
  BY <1>1, <1>8 DEF ZegoLoses
<1> QED
  BY <1>1, <1>3, <1>4, <1>5, <1>6, <1>7, <1>8 DEF CallsNext, EngagementRestarts

(* A capture is only ever posted, and only ever worked on, for a call that  *)
(* started.                                                                 *)
LEMMA CapturesStay ==
    ASSUME TypeInv, CapturesAreOfCalls, Grows,
           \A p \in posts' : p \in posts \/ (p.kind = "capture" => row'[p.c].started),
           job' = job
    PROVE  CapturesAreOfCalls'
<1>1. \A p \in posts : p.c \in Consultations
  BY DEF TypeInv, TypeOK, TableTypeOK, Post
<1>2. \A p \in posts' : p.kind = "capture" => row'[p.c].started
  BY <1>1 DEF CapturesAreOfCalls, Grows, RowGrows
<1>3. \A j \in Jobs : job[j].op # "idle" => job[j].c \in Consultations
  BY DEF TypeInv, Addressed
<1>4. ASSUME NEW j \in Jobs
      PROVE  /\ job[j].op = "hold" => row'[job[j].c].status # "none"
             /\ job[j].op \in {"capture", "charge", "record", "fail"} => row'[job[j].c].started
  BY <1>3 DEF CapturesAreOfCalls, Grows, RowGrows
<1> QED
  BY <1>2, <1>4 DEF CapturesAreOfCalls

(* The end of a call posts a capture only for a call that started. *)
LEMMA EndPostsCaptures ==
    ASSUME TypeInv, Grows, NEW c \in Consultations, NEW b, NEW s,
           PostEnd(c, b, s), b => row[c].started
    PROVE  \A p \in posts' : p \in posts \/ (p.kind = "capture" => row'[p.c].started)
<1>1. posts' \subseteq posts \cup {IF b THEN capturePost(c, s) ELSE releasePost(c), releasePost(c)}
  BY DEF PostEnd
<1>2. b => row'[c].started
  BY DEF Grows, RowGrows
<1> QED
  BY <1>1, <1>2 DEF capturePost, releasePost

(* Every capture engagement posts is of a call that started. *)
LEMMA CallsPostCaptures ==
    ASSUME TypeInv, HandlersRemember, CapturesAreOfCalls, Grows, CallsNext, UNCHANGED billingOnly
    PROVE  CapturesAreOfCalls'
<1>0. job' = job
  BY DEF billingOnly
<1>1. ASSUME posts' \subseteq posts
      PROVE  CapturesAreOfCalls'
  BY <1>0, <1>1, CapturesStay
<1>2. ASSUME NEW c, posts' = posts \cup {releasePost(c)}
      PROVE  CapturesAreOfCalls'
  BY <1>0, <1>2, CapturesStay DEF releasePost
<1>3. ASSUME NEW w \in Requests, EndUpdates(w) \/ RoomCloseUpdates(w)
      PROVE  CapturesAreOfCalls'
  <2>1. /\ req[w].c \in Consultations
        /\ req[w].started => row[req[w].c].started
    BY <1>3 DEF EndUpdates, RoomCloseUpdates, TypeInv, Addressed, HandlersRemember
  <2>2. posts' = posts \/ \E s \in CallSeconds : PostEnd(req[w].c, req[w].started, s)
    BY <1>3 DEF EndUpdates, RoomCloseUpdates
  <2> QED
    BY <1>0, <1>1, <2>1, <2>2, EndPostsCaptures, CapturesStay
<1>4. ASSUME NEW w \in Requests, HandlerStep(w)
      PROVE  CapturesAreOfCalls'
  BY <1>1, <1>2, <1>3, <1>4
  DEF HandlerStep, createConsultation, CreateFailsGhost, CreateConflicts, CreateInserts,
      AcceptUpdates, LoginUpdates, LogoutArmsTimer, acceptConsultation, endConsultation,
      handleRoomClose, TimerFires, RoomCloseReads, handleUserLogin, handleUserLogout
<1> QED
  BY <1>1, <1>2, <1>4
  DEF CallsNext, declineConsultation, getVideoToken, ZegoJoin, ZegoLeave, ZegoLoses,
      EngagementRestarts

-----------------------------------------------------------------------------
(* The jobs of billing-service.                                             *)

JobOK(r, rows) ==
    /\ r.op = "hold" => rows[r.c].status # "none"
    /\ r.op \in {"capture", "charge", "record", "fail"} => rows[r.c].started

(* A job that is about a started call stays about one. *)
LEMMA JobStaysOK ==
    ASSUME TypeInv, CapturesAreOfCalls, Grows, NEW j \in Jobs
    PROVE  JobOK(job[j], row')
<1>1. job[j].op # "idle" => job[j].c \in Consultations
  BY DEF TypeInv, Addressed
<1> QED
  BY <1>1 DEF JobOK, CapturesAreOfCalls, Grows, RowGrows

(* One job moves on and no capture is posted.                               *)
LEMMA OneJob ==
    ASSUME TypeInv, CapturesAreOfCalls, Grows, posts' \subseteq posts,
           NEW j \in Jobs, NEW r, job' = [job EXCEPT ![j] = r], JobOK(r, row')
    PROVE  CapturesAreOfCalls'
<1>1. \A p \in posts : p.c \in Consultations
  BY DEF TypeInv, TypeOK, TableTypeOK, Post
<1>2. \A p \in posts' : p.kind = "capture" => row'[p.c].started
  BY <1>1 DEF CapturesAreOfCalls, Grows, RowGrows
<1>3. \A i \in Jobs : job'[i] = IF i = j THEN r ELSE job[i]
  BY DEF TypeInv, TypeOK, BillingTypeOK
<1>4. \A i \in Jobs : JobOK(job'[i], row')
  BY <1>3, JobStaysOK
<1> QED
  BY <1>2, <1>4 DEF CapturesAreOfCalls, JobOK

(* A job that ends, or does not begin, keeps CapturesAreOfCalls. *)
LEMMA OneJobIdle ==
    ASSUME TypeInv, CapturesAreOfCalls, Grows, posts' \subseteq posts,
           NEW j \in Jobs, Completes(j) \/ Begins(j, IdleJob)
    PROVE  CapturesAreOfCalls'
BY OneJob, IdleJobType DEF Completes, Begins, JobOK

(* Settling a call that started keeps CapturesAreOfCalls. *)
LEMMA SettlesOK ==
    ASSUME TypeInv, CapturesAreOfCalls, Grows, posts' \subseteq posts,
           NEW j \in Jobs, NEW c \in Consultations, NEW s, NEW k, Settles(j, c, s, k),
           row[c].started
    PROVE  CapturesAreOfCalls'
<1> DEFINE r == [IdleJob EXCEPT !.op = "capture", !.c = c, !.card = k,
                                !.pi = row[c].pi, !.seconds = s]
<1>1. r.op = "capture" /\ r.c = c
  BY DEF IdleJob
<1>2. row'[c].started
  BY DEF Grows, RowGrows
<1>3. Begins(j, IdleJob) \/ job' = [job EXCEPT ![j] = r]
  BY DEF Settles, Begins
<1> HIDE DEF r
<1> QED
  BY <1>1, <1>2, <1>3, OneJob, OneJobIdle DEF JobOK

(* Every way into billing keeps CapturesAreOfCalls. *)
LEMMA StartsAreOfCalls ==
    ASSUME TypeInv, RowsOK, CapturesAreOfCalls, Grows,
           NEW j \in Jobs, NEW c \in Consultations, JobStart(j, c)
    PROVE  CapturesAreOfCalls'
<1>0. RowOK(row[c], tokens[c])
  BY DEF RowsOK
<1>1. CASE captureConsultation(j, c)
  <2>1. PICK p \in posts : /\ p.kind = "capture" /\ p.c = c
                           /\ posts' = posts \ {p}
                           /\ Settles(j, c, p.seconds, NoCard)
    BY <1>1 DEF captureConsultation
  <2>2. row[c].started
    BY <2>1 DEF CapturesAreOfCalls
  <2> QED
    BY <2>1, <2>2, SettlesOK
<1>2. CASE retryFailedCaptures(j, c)
  <2>1. row[c].started /\ posts' = posts /\ Settles(j, c, row[c].seconds, NoCard)
    BY <1>0, <1>2 DEF retryFailedCaptures, Uncaptured, RowOK
  <2> QED
    BY <2>1, SettlesOK
<1>3. ASSUME NEW k \in Cards, payConsultation(j, c, k)
      PROVE  CapturesAreOfCalls'
  <2>1. row[c].started /\ posts' = posts /\ Settles(j, c, row[c].seconds, k)
    BY <1>0, <1>3 DEF payConsultation, RowOK
  <2> QED
    BY <2>1, SettlesOK
<1>4. ASSUME NEW k \in Cards, holdConsultationFunds(j, c, k)
      PROVE  CapturesAreOfCalls'
  <2> DEFINE r == [IdleJob EXCEPT !.op = "hold", !.c = c, !.card = k, !.pi = row[c].pi]
  <2>1. r.op = "hold" /\ r.c = c
    BY DEF IdleJob
  <2>2. row'[c].status # "none"
    BY <1>4 DEF holdConsultationFunds, Holdable, HOLDABLE_STATUSES, Grows, RowGrows
  <2>3. job' = [job EXCEPT ![j] = r] /\ posts' = posts
    BY <1>4 DEF holdConsultationFunds, Begins
  <2> HIDE DEF r
  <2> QED
    BY <2>1, <2>2, <2>3, OneJob DEF JobOK
<1>5. ASSUME Releases(j, c), posts' \subseteq posts
      PROVE  CapturesAreOfCalls'
  <2> DEFINE r == [IdleJob EXCEPT !.op = "release", !.c = c]
  <2>1. r.op = "release"
    BY DEF IdleJob
  <2>2. Begins(j, IdleJob) \/ job' = [job EXCEPT ![j] = r]
    BY <1>5 DEF Releases, Begins
  <2> HIDE DEF r
  <2> QED
    BY <1>5, <2>1, <2>2, OneJob, OneJobIdle DEF JobOK
<1> QED
  BY <1>1, <1>2, <1>3, <1>4, <1>5 DEF JobStart, releaseConsultationHold, releaseStaleHolds

(* Every step of a billing request keeps CapturesAreOfCalls. *)
LEMMA StepsAreOfCalls ==
    ASSUME TypeInv, CapturesAreOfCalls, Grows, NEW j \in Jobs, JobStep(j)
    PROVE  CapturesAreOfCalls'
<1>0. JobOK(job[j], row') /\ job[j] \in Job
  BY JobStaysOK DEF TypeInv, TypeOK, BillingTypeOK
<1>1. CASE CaptureHold(j)
  <2> DEFINE r(k, n) == [job[j] EXCEPT !.op = "charge", !.card = k, !.collected = n]
  <2>1. \E k, n : job' = [job EXCEPT ![j] = r(k, n)]
    BY <1>1 DEF CaptureHold, Goes
  <2>2. PICK k, n : job' = [job EXCEPT ![j] = r(k, n)]
    BY <2>1
  <2>3. r(k, n).op = "charge" /\ r(k, n).c = job[j].c /\ job[j].op = "capture" /\ posts' = posts
    BY <1>0, <1>1 DEF Job, CaptureHold
  <2> HIDE DEF r
  <2> QED
    BY <1>0, <2>2, <2>3, OneJob DEF JobOK
<1>2. CASE ChargeRemainder(j)
  <2> DEFINE r(op, n) == [job[j] EXCEPT !.op = op, !.collected = n]
  <2>1. PICK op \in {"record", "fail"} : \E n : job' = [job EXCEPT ![j] = r(op, n)]
    BY <1>2 DEF ChargeRemainder, Goes
  <2>2. PICK n : job' = [job EXCEPT ![j] = r(op, n)]
    BY <2>1
  <2>3. r(op, n).op = op /\ r(op, n).c = job[j].c /\ job[j].op = "charge" /\ posts' = posts
    BY <1>0, <1>2 DEF Job, ChargeRemainder
  <2> HIDE DEF r
  <2> QED
    BY <1>0, <2>2, <2>3, OneJob DEF JobOK
<1>3. CASE HoldPersists(j) \/ SettleRecords(j) \/ SettleFails(j) \/ ReleaseStamps(j)
  BY <1>3, OneJobIdle DEF HoldPersists, SettleRecords, SettleFails, ReleaseStamps
<1> QED
  BY <1>1, <1>2, <1>3 DEF JobStep

(* Every step of billing-service and of Stripe keeps CapturesAreOfCalls. *)
LEMMA BillingAboutCalls ==
    ASSUME TypeInv, RowsOK, CapturesAreOfCalls, Grows, BillingNext
    PROVE  CapturesAreOfCalls'
<1>1. ASSUME NEW j \in Jobs, JobStep(j) \/ \E c \in Consultations : JobStart(j, c)
      PROVE  CapturesAreOfCalls'
  BY <1>1, StepsAreOfCalls, StartsAreOfCalls
<1>2. ASSUME job' = job, posts' \subseteq posts
      PROVE  CapturesAreOfCalls'
  BY <1>2, CapturesStay
<1>3. CASE BillingRestarts
  <2>1. \A j \in Jobs : job'[j].op = "idle"
    BY <1>3, IdleJobType DEF BillingRestarts
  <2>2. \A p \in posts : p.c \in Consultations
    BY DEF TypeInv, TypeOK, TableTypeOK, Post
  <2>3. \A p \in posts' : p.kind = "capture" => row'[p.c].started
    BY <1>3, <2>2 DEF BillingRestarts, CapturesAreOfCalls
  <2> QED
    BY <2>1, <2>3 DEF CapturesAreOfCalls
<1> QED
  BY <1>1, <1>2, <1>3
  DEF BillingNext, ExpireAbandoned, HoldDeclined, HoldLost, HoldExpires, VoidSuperseded,
      PaymentIntentCanceled, PaymentIntentFailed, PostLost, billingOnly

-----------------------------------------------------------------------------
(* Money is taken, and written down, only for a call that started.          *)

Paid(c) ==
    \/ charge[c] > 0
    \/ \E k \in Cards : hold[c][k].status = "succeeded"
    \/ \E d \in direct : d.c = c

(* A step under which nothing is newly paid, or only for a started call.    *)
LEMMA MoneyStays ==
    ASSUME MoneyIsOfCalls, Grows,
           \A c \in Consultations : Paid(c)' => Paid(c) \/ row[c].started
    PROVE  MoneyIsOfCalls'
BY DEF MoneyIsOfCalls, Paid, Grows, RowGrows

(* A hold that changes to anything but "succeeded" is nobody's payment.     *)
LEMMA HoldUnpaid ==
    ASSUME TypeInv, NEW c \in Consultations, NEW k \in Cards,
           NEW st \in {"none", "declined", "requires_capture", "canceled"},
           hold' = [hold EXCEPT ![c][k].status = st], UNCHANGED <<charge, direct>>
    PROVE  \A d \in Consultations : Paid(d)' => Paid(d)
<1> DEFINE h == [hold[c][k] EXCEPT !.status = st]
<1>1. hold' = [hold EXCEPT ![c] = [hold[c] EXCEPT ![k] = h]]
  OBVIOUS
<1>2. h.status = st /\ st # "succeeded"
  BY DEF TypeInv, TypeOK, BillingTypeOK, Hold
<1> HIDE DEF h
<1>3. \A d \in Consultations, x \in Cards :
         hold'[d][x] = IF d = c /\ x = k THEN h ELSE hold[d][x]
  BY <1>1 DEF TypeInv, TypeOK, BillingTypeOK
<1> QED
  BY <1>2, <1>3 DEF Paid

(* Cancelling a hold pays nothing. *)
LEMMA CancelUnpaid ==
    ASSUME TypeInv, NEW c \in Consultations, NEW k \in Cards, Cancel(c, k),
           UNCHANGED <<charge, direct>>
    PROVE  \A d \in Consultations : Paid(d)' => Paid(d)
<1>1. hold' = hold \/ hold' = [hold EXCEPT ![c][k].status = "canceled"]
  BY DEF Cancel
<1>2. CASE hold' = hold
  BY <1>2 DEF Paid
<1> QED
  BY <1>1, <1>2, HoldUnpaid

(* A step of a billing request takes money only for a call that started. *)
LEMMA StepPays ==
    ASSUME TypeInv, CapturesAreOfCalls, NEW j \in Jobs, JobStep(j)
    PROVE  \A c \in Consultations : Paid(c)' => Paid(c) \/ row[c].started
<1> DEFINE b == job[j].c
<1>1. ASSUME UNCHANGED <<charge, hold, direct>>
      PROVE  \A c \in Consultations : Paid(c)' => Paid(c)
  BY <1>1 DEF Paid
<1>2. CASE HoldPersists(j) \/ SettleFails(j) \/ ReleaseStamps(j)
  BY <1>1, <1>2 DEF HoldPersists, SettleFails, ReleaseStamps
<1>3. CASE CaptureHold(j)
  <2>1. b \in Consultations /\ row[b].started /\ UNCHANGED <<charge, direct>>
    BY <1>3 DEF CaptureHold, CapturesAreOfCalls, TypeInv, Addressed
  <2>2. hold' = hold \/ \E k, h : hold' = [hold EXCEPT ![b][k] = h]
    BY <1>3 DEF CaptureHold
  <2>3. \A c \in Consultations : c # b => hold'[c] = hold[c]
    BY <2>1, <2>2 DEF TypeInv, TypeOK, BillingTypeOK
  <2> QED
    BY <2>1, <2>3 DEF Paid
<1>4. CASE ChargeRemainder(j)
  <2>1. row[b].started /\ UNCHANGED <<charge, hold>>
    BY <1>4 DEF ChargeRemainder, CapturesAreOfCalls
  <2>2. \A d \in direct' : d \in direct \/ d.c = b
    BY <1>4 DEF ChargeRemainder
  <2> QED
    BY <2>1, <2>2 DEF Paid
<1>5. CASE SettleRecords(j)
  <2>1. b \in Consultations /\ row[b].started /\ UNCHANGED <<hold, direct>>
    BY <1>5 DEF SettleRecords, CapturesAreOfCalls, TypeInv, Addressed
  <2>2. \A c \in Consultations : c # b => charge'[c] = charge[c]
    BY <1>5 DEF SettleRecords, TypeInv, TypeOK, BillingTypeOK
  <2> QED
    BY <2>1, <2>2 DEF Paid
<1> QED
  BY <1>2, <1>3, <1>4, <1>5 DEF JobStep

(* No step of billing-service or Stripe takes money for a call that did not start. *)
LEMMA BillingMoney ==
    ASSUME TypeInv, MoneyIsOfCalls, CapturesAreOfCalls, Grows, BillingNext
    PROVE  MoneyIsOfCalls'
<1>1. ASSUME UNCHANGED <<charge, hold, direct>>
      PROVE  MoneyIsOfCalls'
  BY <1>1, MoneyStays DEF Paid
<1>2. ASSUME \A c \in Consultations : Paid(c)' => Paid(c)
      PROVE  MoneyIsOfCalls'
  BY <1>2, MoneyStays
<1>3. ASSUME NEW j \in Jobs, JobStep(j)
      PROVE  MoneyIsOfCalls'
  BY <1>3, StepPays, MoneyStays
<1>4. ASSUME NEW c \in Consultations, NEW k \in Cards,
             HoldDeclined(c, k) \/ HoldExpires(c, k) \/ VoidSuperseded(c, k)
      PROVE  MoneyIsOfCalls'
  BY <1>1, <1>2, <1>4, HoldUnpaid, CancelUnpaid
  DEF HoldDeclined, HoldExpires, VoidSuperseded
<1>5. ASSUME NEW j \in Jobs, NEW c \in Consultations, Releases(j, c), UNCHANGED <<charge, direct>>
      PROVE  MoneyIsOfCalls'
  <2>1. Releasable(c) => row[c].pi \in Cards
    BY DEF Releasable, TypeInv, TypeOK, TableTypeOK, Row
  <2>2. hold' = hold \/ (Releasable(c) /\ Cancel(c, row[c].pi))
    BY <1>5 DEF Releases
  <2> QED
    BY <1>1, <1>2, <1>5, <2>1, <2>2, CancelUnpaid
<1>6. ASSUME NEW c \in Consultations, NEW k \in Cards,
             HoldLost(c, k) \/ \E j \in Jobs : holdConsultationFunds(j, c, k)
      PROVE  MoneyIsOfCalls'
  <2>1. hold' = hold \/ hold' = [hold EXCEPT ![c][k].status = "requires_capture"]
    BY <1>6 DEF holdConsultationFunds, HoldLost, Authorize
  <2>2. UNCHANGED <<charge, direct>>
    BY <1>6 DEF holdConsultationFunds, HoldLost
  <2> QED
    BY <1>1, <1>2, <2>1, <2>2, HoldUnpaid
<1>7. ASSUME NEW j \in Jobs, NEW c \in Consultations, JobStart(j, c)
      PROVE  MoneyIsOfCalls'
  BY <1>1, <1>5, <1>6, <1>7
  DEF JobStart, captureConsultation, retryFailedCaptures, releaseConsultationHold,
      releaseStaleHolds, payConsultation
<1> QED
  BY <1>1, <1>3, <1>4, <1>6, <1>7
  DEF BillingNext, ExpireAbandoned, PaymentIntentCanceled, PaymentIntentFailed, PostLost,
      BillingRestarts, billingOnly

(* The credit is written with the charge, and only when there is none.      *)
LEMMA BillingCredits ==
    ASSUME TypeInv, CreditedOnce, BillingNext
    PROVE  CreditedOnce'
<1>1. ASSUME UNCHANGED <<charge, credited>>
      PROVE  CreditedOnce'
  BY <1>1 DEF CreditedOnce
<1>2. ASSUME NEW j \in Jobs, SettleRecords(j)
      PROVE  CreditedOnce'
  <2> DEFINE b == job[j].c
             n == job[j].collected
  <2>1. b \in Consultations /\ n \in Nat
    BY <1>2 DEF SettleRecords, TypeInv, TypeOK, BillingTypeOK, Addressed, Job
  <2>2. CASE charge[b] > 0
    BY <1>1, <1>2, <2>2 DEF SettleRecords
  <2>3. CASE ~(charge[b] > 0)
    <3>1. /\ charge' = [charge EXCEPT ![b] = n]
          /\ credited' = [credited EXCEPT ![b] = @ + n]
      BY <1>2, <2>3 DEF SettleRecords
    <3>2. credited[b] = 0
      BY <2>1, <2>3 DEF CreditedOnce, TypeInv, TypeOK, BillingTypeOK
    <3> HIDE DEF b, n
    <3> QED
      BY <2>1, <3>1, <3>2 DEF CreditedOnce, TypeInv, TypeOK, BillingTypeOK
  <2> QED
    BY <2>2, <2>3
<1>3. ASSUME NEW j \in Jobs, JobStep(j)
      PROVE  CreditedOnce'
  BY <1>1, <1>2, <1>3
  DEF JobStep, HoldPersists, CaptureHold, ChargeRemainder, SettleFails, ReleaseStamps
<1>4. ASSUME NEW j \in Jobs, NEW c \in Consultations, JobStart(j, c)
      PROVE  CreditedOnce'
  BY <1>1, <1>4
  DEF JobStart, captureConsultation, retryFailedCaptures, releaseConsultationHold,
      releaseStaleHolds, holdConsultationFunds, payConsultation
<1> QED
  BY <1>1, <1>3, <1>4
  DEF BillingNext, ExpireAbandoned, HoldDeclined, HoldLost, HoldExpires, VoidSuperseded,
      PaymentIntentCanceled, PaymentIntentFailed, PostLost, BillingRestarts, billingOnly

-----------------------------------------------------------------------------
(* IInv is inductive. *)
LEMMA InvariantInit == Init => TypeInv /\ IInv
<1> SUFFICES ASSUME Init PROVE TypeInv /\ IInv
  OBVIOUS
<1>1. TypeInv
  BY SecondsAssumption, IdleType, IdleJobType
  DEF Init, TableInit, CallsInit, BillingInit, TypeInv, TypeOK, TableTypeOK, CallsTypeOK,
      BillingTypeOK, Addressed, NoRow, Row, ConsultationStatus, Hold
<1>2. EmptyRows /\ HoldBeforeCall
  BY DEF Init, TableInit, CallsInit, NoRow, EmptyRows, HoldBeforeCall
<1>3. LoginsHaveTokens /\ HandlersRemember /\ CapturesAreOfCalls
  BY IdleType, IdleJobType
  DEF Init, TableInit, CallsInit, BillingInit, LoginsHaveTokens, HandlersRemember,
      CapturesAreOfCalls
<1>4. MoneyIsOfCalls /\ CreditedOnce
  BY DEF Init, TableInit, BillingInit, MoneyIsOfCalls, CreditedOnce
<1> QED
  BY <1>1, <1>2, <1>3, <1>4 DEF IInv, TypeInv

(* Every step keeps IInv. *)
LEMMA InvariantStep == IInv /\ [Next]_vars => IInv'
<1> SUFFICES ASSUME IInv, [Next]_vars PROVE IInv'
  OBVIOUS
<1>0. TypeInv /\ RowsOK
  BY RowsOKMeans DEF IInv, TypeInv
<1> USE DEF IInv
<1>1. CASE Engagement
  <2>1. CallsNext /\ UNCHANGED billingOnly
    BY <1>1 DEF Engagement
  <2>2. TypeInv'
    BY <1>0, <2>1, CallsKeepTypes
  <2>3. RowsOK' /\ Grows
    BY <1>0, <2>1, CallsRows
  <2>4. EmptyRows' /\ HoldBeforeCall'
    BY <2>3, RowsOKMeans, PTL
  <2>5. LoginsHaveTokens' /\ CapturesAreOfCalls'
    BY <1>0, <2>1, <2>3, LoginsKeepTokens, CallsPostCaptures
  <2>6. HandlersRemember'
    <3>1. ASSUME NEW w \in Requests, HandlerStep(w)
          PROVE  HandlersRemember'
      BY <1>0, <2>2, <2>3, <3>1, HandlersStillRemember
    <3>2. ASSUME req' = req
          PROVE  HandlersRemember'
      BY <1>0, <2>2, <2>3, <3>2, SameSlotsRemember
    <3>3. CASE EngagementRestarts
      BY <3>3, IdleType DEF EngagementRestarts, HandlersRemember
    <3> QED
      BY <2>1, <3>1, <3>2, <3>3
      DEF CallsNext, declineConsultation, callsOnly, getVideoToken, ZegoJoin, ZegoLeave,
          ZegoLoses
  <2>7. MoneyIsOfCalls' /\ CreditedOnce'
    BY <2>1, <2>3, MoneyStays DEF Paid, billingOnly, CreditedOnce
  <2> QED
    BY <2>2, <2>4, <2>5, <2>6, <2>7 DEF TypeInv
<1>2. CASE Billing
  <2>1. BillingNext /\ UNCHANGED callsOnly
    BY <1>2 DEF Billing
  <2>2. TypeInv'
    BY <1>0, <2>1, BillingKeepsTypes
  <2>3. RowsOK' /\ Grows
    BY <1>0, <2>1, BillingRows
  <2>4. EmptyRows' /\ HoldBeforeCall'
    BY <2>3, RowsOKMeans, PTL
  <2>5. LoginsHaveTokens'
    BY <2>1 DEF callsOnly, LoginsHaveTokens
  <2>6. HandlersRemember'
    BY <1>0, <2>1, <2>2, <2>3, SameSlotsRemember DEF callsOnly
  <2>7. CapturesAreOfCalls' /\ MoneyIsOfCalls' /\ CreditedOnce'
    BY <1>0, <2>1, <2>3, BillingAboutCalls, BillingMoney, BillingCredits
  <2> QED
    BY <2>2, <2>4, <2>5, <2>6, <2>7 DEF TypeInv
<1>3. CASE UNCHANGED vars
  BY <1>3
  DEF vars, callsOnly, billingOnly, TypeOK, TableTypeOK, CallsTypeOK, BillingTypeOK,
      Addressed, EmptyRows, HoldBeforeCall, LoginsHaveTokens, HandlersRemember,
      CapturesAreOfCalls, MoneyIsOfCalls, CreditedOnce
<1> QED
  BY <1>1, <1>2, <1>3 DEF Next

(* The chain from the hold to the charge holds in every reachable state.    *)
THEOREM Chain == Spec => []IInv
<1>1. Init => IInv
  BY InvariantInit
<1> QED
  BY <1>1, InvariantStep, PTL DEF Spec

(* No call connects without a hold on record: whatever requests, callbacks, *)
(* stale handlers and restarts interleave.                                  *)
THEOREM ConnectedSecured == Spec => []ConnectedCallHasHold
<1>1. IInv => ConnectedCallHasHold
  BY DEF IInv, HoldBeforeCall, ConnectedCallHasHold, Parties
<1> QED
  BY <1>1, Chain, PTL

(* No money is taken or recorded for a call that never connected.           *)
THEOREM ChargedConnected == Spec => []ChargedOnlyIfConnected
<1>1. IInv => ChargedOnlyIfConnected
  BY DEF IInv, HoldBeforeCall, MoneyIsOfCalls, ChargedOnlyIfConnected
<1> QED
  BY <1>1, Chain, PTL

(* The expert is credited exactly the one recorded charge, however many     *)
(* settlements of a call race.                                              *)
THEOREM Credited == Spec => []CreditedOnce
<1>1. IInv => CreditedOnce
  BY DEF IInv
<1> QED
  BY <1>1, Chain, PTL

-----------------------------------------------------------------------------
(* The hold on record.  Stripe never takes an authorisation back: a hold    *)
(* may be captured or cancelled, but a placed hold does not become none or  *)
(* declined.                                                                *)

Authorised(c, k) == hold[c][k].status \notin {"none", "declined"}

HoldsStay ==
    \A c \in Consultations, k \in Cards : Authorised(c, k) => Authorised(c, k)'

\* A job about to name a hold in the row has had it authorised
HoldJobsAuthorised ==
    \A j \in Jobs : job[j].op = "hold" => Authorised(job[j].c, job[j].card)

AuthInv == HoldOnRecordIsAuthorised /\ HoldJobsAuthorised

(* Writing the status of one hold leaves the others as they are. *)
LEMMA HoldStatusWritten ==
    ASSUME TypeInv, NEW c \in Consultations, NEW k \in Cards, NEW st,
           hold' = [hold EXCEPT ![c][k].status = st]
    PROVE  \A d \in Consultations, x \in Cards :
              hold'[d][x].status = IF d = c /\ x = k THEN st ELSE hold[d][x].status
<1> DEFINE h == [hold[c][k] EXCEPT !.status = st]
<1>1. hold' = [hold EXCEPT ![c] = [hold[c] EXCEPT ![k] = h]]
  OBVIOUS
<1>2. h.status = st
  BY DEF TypeInv, TypeOK, BillingTypeOK, Hold
<1> HIDE DEF h
<1>3. \A d \in Consultations, x \in Cards :
         hold'[d][x] = IF d = c /\ x = k THEN h ELSE hold[d][x]
  BY <1>1 DEF TypeInv, TypeOK, BillingTypeOK
<1> QED
  BY <1>2, <1>3

(* An authorisation request that succeeds yields an authorised hold. *)
LEMMA AuthorizeStays ==
    ASSUME TypeInv, NEW c \in Consultations, NEW k \in Cards, Authorize(c, k)
    PROVE  HoldsStay /\ Authorised(c, k)'
<1>1. CASE hold[c][k].status = "none"
  <2> DEFINE h == [hold[c][k] EXCEPT !.status = "requires_capture"]
  <2>1. h.status = "requires_capture" /\ hold' = [hold EXCEPT ![c] = [hold[c] EXCEPT ![k] = h]]
    BY <1>1 DEF Authorize, TypeInv, TypeOK, BillingTypeOK, Hold
  <2> HIDE DEF h
  <2>2. \A d \in Consultations, x \in Cards :
           hold'[d][x] = IF d = c /\ x = k THEN h ELSE hold[d][x]
    BY <2>1 DEF TypeInv, TypeOK, BillingTypeOK
  <2>3. Authorised(c, k)'
    BY <2>1, <2>2 DEF Authorised
  <2>4. HoldsStay
    BY <2>1, <2>2 DEF HoldsStay, Authorised
  <2> QED
    BY <2>3, <2>4
<1>2. CASE hold[c][k].status # "none"
  <2>1. hold[c][k].status # "declined" /\ hold' = hold
    BY <1>2 DEF Authorize
  <2>2. Authorised(c, k)'
    BY <1>2, <2>1 DEF Authorised
  <2>3. HoldsStay
    BY <2>1 DEF HoldsStay, Authorised
  <2> QED
    BY <2>2, <2>3
<1> QED
  BY <1>1, <1>2

(* Cancelling a hold does not make it unauthorised. *)
LEMMA CancelStays ==
    ASSUME TypeInv, NEW c \in Consultations, NEW k \in Cards, Cancel(c, k)
    PROVE  HoldsStay
<1>1. hold' = hold \/ hold' = [hold EXCEPT ![c][k].status = "canceled"]
  BY DEF Cancel
<1>2. CASE hold' = hold
  BY <1>2 DEF HoldsStay, Authorised
<1>3. CASE hold' = [hold EXCEPT ![c][k].status = "canceled"]
  BY <1>3, HoldStatusWritten DEF HoldsStay, Authorised
<1> QED
  BY <1>1, <1>2, <1>3

(* No step of billing-service or Stripe takes an authorisation back. *)
LEMMA BillingHoldsStay ==
    ASSUME TypeInv, BillingNext
    PROVE  HoldsStay
<1>1. ASSUME hold' = hold
      PROVE  HoldsStay
  BY <1>1 DEF HoldsStay, Authorised
<1>2. ASSUME NEW j \in Jobs, JobStep(j)
      PROVE  HoldsStay
  <2>1. CASE CaptureHold(j)
    <3> DEFINE c == job[j].c
               k == job[j].pi
    <3>0. c \in Consultations
      BY <2>1 DEF CaptureHold, TypeInv, Addressed
    <3>1. \/ hold' = hold
          \/ \E n : hold' = [hold EXCEPT ![c][k] = [status |-> "succeeded", received |-> n]]
      BY <2>1 DEF CaptureHold
    <3>2. ASSUME NEW n, hold' = [hold EXCEPT ![c][k] = [status |-> "succeeded", received |-> n]]
          PROVE  HoldsStay
      <4> DEFINE h == [status |-> "succeeded", received |-> n]
      <4>1. h.status = "succeeded" /\ hold' = [hold EXCEPT ![c] = [hold[c] EXCEPT ![k] = h]]
        BY <3>2
      <4> HIDE DEF h, c, k
      <4>2. \A d \in Consultations, x \in Cards :
               hold'[d][x] = IF d = c /\ x = k THEN h ELSE hold[d][x]
        BY <3>0, <4>1 DEF TypeInv, TypeOK, BillingTypeOK
      <4> QED
        BY <4>1, <4>2 DEF HoldsStay, Authorised
    <3> QED
      BY <1>1, <3>1, <3>2
  <2>2. CASE ~CaptureHold(j)
    BY <1>1, <1>2, <2>2
    DEF JobStep, HoldPersists, ChargeRemainder, SettleRecords, SettleFails, ReleaseStamps
  <2> QED
    BY <2>1, <2>2
<1>3. ASSUME NEW j \in Jobs, NEW c \in Consultations, Releases(j, c)
      PROVE  HoldsStay
  <2>1. Releasable(c) => row[c].pi \in Cards
    BY DEF Releasable, TypeInv, TypeOK, TableTypeOK, Row
  <2>2. hold' = hold \/ (Releasable(c) /\ Cancel(c, row[c].pi))
    BY <1>3 DEF Releases
  <2> QED
    BY <1>1, <2>1, <2>2, CancelStays
<1>4. ASSUME NEW j \in Jobs, NEW c \in Consultations, JobStart(j, c)
      PROVE  HoldsStay
  BY <1>1, <1>3, <1>4, AuthorizeStays
  DEF JobStart, captureConsultation, retryFailedCaptures, releaseConsultationHold,
      releaseStaleHolds, holdConsultationFunds, payConsultation
<1>5. ASSUME NEW c \in Consultations, NEW k \in Cards, HoldDeclined(c, k)
      PROVE  HoldsStay
  BY <1>5, HoldStatusWritten DEF HoldDeclined, HoldsStay, Authorised
<1>6. ASSUME NEW c \in Consultations, NEW k \in Cards,
             HoldLost(c, k) \/ HoldExpires(c, k) \/ VoidSuperseded(c, k)
      PROVE  HoldsStay
  BY <1>1, <1>6, AuthorizeStays, CancelStays DEF HoldLost, HoldExpires, VoidSuperseded
<1> QED
  BY <1>1, <1>2, <1>4, <1>5, <1>6
  DEF BillingNext, ExpireAbandoned, PaymentIntentCanceled, PaymentIntentFailed, PostLost,
      BillingRestarts, billingOnly

(* Engagement never names a hold: it leaves the column alone, or inserts a  *)
(* row without one.                                                         *)
KeepsPi == \A c \in Consultations : row'[c].pi \in {row[c].pi, NoCard}

(* One row is written and names the hold it named, or none. *)
LEMMA PiKept ==
    ASSUME TypeInv, NEW c \in Consultations, NEW r,
           row' = [row EXCEPT ![c] = r], r.pi \in {row[c].pi, NoCard}
    PROVE  KeepsPi
BY DEF KeepsPi, TypeInv, TypeOK, TableTypeOK

(* No step of engagement-service names a hold. *)
LEMMA CallsKeepPi ==
    ASSUME TypeInv, CallsNext
    PROVE  KeepsPi
<1>0. \A c \in Consultations : row[c] \in Row
  BY DEF TypeInv, TypeOK, TableTypeOK
<1>1. ASSUME row' = row
      PROVE  KeepsPi
  BY <1>1 DEF KeepsPi
<1>2. ASSUME NEW c \in Consultations, NEW st, row' = [row EXCEPT ![c].status = st]
      PROVE  KeepsPi
  <2> DEFINE r == [row[c] EXCEPT !.status = st]
  <2>1. r.pi = row[c].pi /\ row' = [row EXCEPT ![c] = r]
    BY <1>0, <1>2 DEF Row
  <2> HIDE DEF r
  <2> QED
    BY <2>1, PiKept
<1>3. ASSUME NEW c \in Consultations, NEW b, NEW n, WriteEnd(c, b, n)
      PROVE  KeepsPi
  <2> DEFINE r == [row[c] EXCEPT !.status = IF b THEN "completed" ELSE "failed",
                                 !.seconds = IF b THEN n ELSE 0]
  <2>1. r.pi = row[c].pi /\ row' = [row EXCEPT ![c] = r]
    BY <1>0, <1>3 DEF Row, WriteEnd
  <2> HIDE DEF r
  <2> QED
    BY <2>1, PiKept
<1>4. ASSUME NEW w \in Requests, HandlerStep(w)
      PROVE  KeepsPi
  <2>0. req[w].op \notin {"idle", "create"} => req[w].c \in Consultations
    BY DEF TypeInv, Addressed
  <2>1. CASE CreateFailsGhost(w)
    <3>1. PICK c \in req[w].ghosts : row' = [row EXCEPT ![c].status = "failed"]
      BY <2>1 DEF CreateFailsGhost
    <3>2. c \in Consultations
      BY <3>1 DEF TypeInv, TypeOK, CallsTypeOK, Handler
    <3> QED
      BY <1>2, <3>1, <3>2
  <2>2. CASE CreateInserts(w)
    <3> DEFINE r == [NoRow EXCEPT !.status = "requested"]
    <3>1. PICK c \in Consultations : row' = [row EXCEPT ![c] = r]
      BY <2>2 DEF CreateInserts
    <3>2. r.pi = NoCard
      BY DEF NoRow
    <3> HIDE DEF r
    <3> QED
      BY <3>1, <3>2, PiKept
  <2>3. CASE AcceptUpdates(w)
    BY <1>1, <1>2, <2>0, <2>3 DEF AcceptUpdates
  <2>4. CASE EndUpdates(w) \/ RoomCloseUpdates(w)
    BY <1>1, <1>3, <2>0, <2>4 DEF EndUpdates, RoomCloseUpdates
  <2>5. CASE LoginUpdates(w)
    <3> DEFINE c == req[w].c
               r == [row[c] EXCEPT !.status = "in_progress", !.started = TRUE]
    <3>1. c \in Consultations
      BY <2>0, <2>5 DEF LoginUpdates
    <3>2. r.pi = row[c].pi /\ row' = [row EXCEPT ![c] = r]
      BY <1>0, <2>5, <3>1 DEF Row, LoginUpdates
    <3> HIDE DEF c, r
    <3> QED
      BY <3>1, <3>2, PiKept
  <2>6. ASSUME NEW c \in Consultations, NEW p \in Parties, handleUserLogin(w, c, p)
        PROVE  KeepsPi
    <3> DEFINE r == [row[c] EXCEPT !.joined = row[c].joined \cup {p}]
    <3>1. r.pi = row[c].pi /\ row' = [row EXCEPT ![c] = r]
      BY <1>0, <2>6 DEF Row, handleUserLogin
    <3> HIDE DEF r
    <3> QED
      BY <3>1, PiKept
  <2> QED
    BY <1>1, <1>4, <2>1, <2>2, <2>3, <2>4, <2>5, <2>6
    DEF HandlerStep, createConsultation, CreateConflicts, LogoutArmsTimer, acceptConsultation,
        endConsultation, handleRoomClose, TimerFires, RoomCloseReads, handleUserLogout
<1> QED
  BY <1>1, <1>2, <1>4
  DEF CallsNext, declineConsultation, getVideoToken, ZegoJoin, ZegoLeave, ZegoLoses,
      EngagementRestarts

(* Billing changes the column only to name what a hold job brings back.     *)
NamesJobsHold ==
    \A c \in Consultations :
       \/ row'[c].pi = row[c].pi
       \/ \E j \in Jobs : job[j].op = "hold" /\ job[j].c = c /\ job[j].card = row'[c].pi

(* One row is written and names the hold it named. *)
LEMMA PiSame ==
    ASSUME TypeInv, NEW c \in Consultations, NEW r,
           row' = [row EXCEPT ![c] = r], r.pi = row[c].pi
    PROVE  NamesJobsHold
BY DEF NamesJobsHold, TypeInv, TypeOK, TableTypeOK

(* Every step of billing-service and Stripe keeps to NamesJobsHold. *)
LEMMA BillingNamesJobsHold ==
    ASSUME TypeInv, BillingNext
    PROVE  NamesJobsHold
<1>0. \A c \in Consultations : row[c] \in Row
  BY DEF TypeInv, TypeOK, TableTypeOK
<1>1. ASSUME row' = row
      PROVE  NamesJobsHold
  BY <1>1 DEF NamesJobsHold
<1>2. ASSUME NEW c \in Consultations, NEW b, row' = [row EXCEPT ![c].billing = b]
      PROVE  NamesJobsHold
  <2> DEFINE r == [row[c] EXCEPT !.billing = b]
  <2>1. r.pi = row[c].pi /\ row' = [row EXCEPT ![c] = r]
    BY <1>0, <1>2 DEF Row
  <2> HIDE DEF r
  <2> QED
    BY <2>1, PiSame
<1>3. ASSUME NEW c \in Consultations, row' = [row EXCEPT ![c].released = TRUE]
      PROVE  NamesJobsHold
  <2> DEFINE r == [row[c] EXCEPT !.released = TRUE]
  <2>1. r.pi = row[c].pi /\ row' = [row EXCEPT ![c] = r]
    BY <1>0, <1>3 DEF Row
  <2> HIDE DEF r
  <2> QED
    BY <2>1, PiSame
<1>4. ASSUME NEW c \in Consultations, ExpireAbandoned(c)
      PROVE  NamesJobsHold
  <2> DEFINE r == [row[c] EXCEPT !.status = "failed", !.seconds = 0]
  <2>1. r.pi = row[c].pi /\ row' = [row EXCEPT ![c] = r]
    BY <1>0, <1>4 DEF Row, ExpireAbandoned
  <2> HIDE DEF r
  <2> QED
    BY <2>1, PiSame
<1>5. ASSUME NEW j \in Jobs, JobStep(j)
      PROVE  NamesJobsHold
  <2>0. job[j].op # "idle" => job[j].c \in Consultations
    BY DEF TypeInv, Addressed
  <2>1. CASE HoldPersists(j)
    <3> DEFINE c == job[j].c
               r == [row[c] EXCEPT !.pi = job[j].card, !.released = FALSE]
    <3>1. c \in Consultations /\ job[j].op = "hold"
      BY <2>0, <2>1 DEF HoldPersists
    <3>2. r.pi = job[j].card /\ row' = [row EXCEPT ![c] = r]
      BY <1>0, <2>1, <3>1 DEF Row, HoldPersists
    <3> HIDE DEF r
    <3> QED
      BY <3>1, <3>2 DEF NamesJobsHold, TypeInv, TypeOK, TableTypeOK
  <2>2. CASE SettleRecords(j) \/ SettleFails(j)
    BY <1>1, <1>2, <2>0, <2>2 DEF SettleRecords, SettleFails
  <2>3. CASE ReleaseStamps(j)
    BY <1>3, <2>0, <2>3 DEF ReleaseStamps
  <2>4. CASE CaptureHold(j) \/ ChargeRemainder(j)
    BY <1>1, <2>4 DEF CaptureHold, ChargeRemainder
  <2> QED
    BY <1>5, <2>1, <2>2, <2>3, <2>4 DEF JobStep
<1>6. ASSUME NEW j \in Jobs, NEW c \in Consultations, JobStart(j, c)
      PROVE  NamesJobsHold
  BY <1>1, <1>6
  DEF JobStart, captureConsultation, retryFailedCaptures, releaseConsultationHold,
      releaseStaleHolds, holdConsultationFunds, payConsultation
<1>7. ASSUME NEW c \in Consultations, NEW k \in Cards,
             PaymentIntentCanceled(c, k) \/ PaymentIntentFailed(c, k)
      PROVE  NamesJobsHold
  BY <1>1, <1>2, <1>3, <1>7 DEF PaymentIntentCanceled, PaymentIntentFailed
<1> QED
  BY <1>1, <1>4, <1>5, <1>6, <1>7
  DEF BillingNext, HoldDeclined, HoldLost, HoldExpires, VoidSuperseded, PostLost,
      BillingRestarts

(* One job moves on, and if it now carries a hold the hold is authorised.   *)
LEMMA OneHoldJob ==
    ASSUME TypeInv, HoldJobsAuthorised, HoldsStay,
           NEW j \in Jobs, NEW r, job' = [job EXCEPT ![j] = r],
           r.op = "hold" => hold'[r.c][r.card].status \notin {"none", "declined"}
    PROVE  HoldJobsAuthorised'
<1>1. \A i \in Jobs : job'[i] = IF i = j THEN r ELSE job[i]
  BY DEF TypeInv, TypeOK, BillingTypeOK
<1>2. \A i \in Jobs :
         job[i].op = "hold" => job[i].c \in Consultations /\ job[i].card \in Cards
  BY DEF TypeInv, Addressed
<1>3. \A i \in Jobs :
         job[i].op = "hold" => hold'[job[i].c][job[i].card].status \notin {"none", "declined"}
  BY <1>2 DEF HoldJobsAuthorised, HoldsStay, Authorised
<1> QED
  BY <1>1, <1>3 DEF HoldJobsAuthorised, Authorised

(* Every hold a billing request is about to name has been authorised. *)
LEMMA BillingJobsAuthorised ==
    ASSUME TypeInv, HoldJobsAuthorised, HoldsStay, BillingNext
    PROVE  HoldJobsAuthorised'
<1>1. ASSUME NEW j \in Jobs, Completes(j) \/ Begins(j, IdleJob)
      PROVE  HoldJobsAuthorised'
  BY <1>1, IdleJobType, OneHoldJob DEF Completes, Begins
<1>2. ASSUME NEW j \in Jobs, JobStep(j)
      PROVE  HoldJobsAuthorised'
  <2>0. job[j] \in Job
    BY DEF TypeInv, TypeOK, BillingTypeOK
  <2>1. CASE CaptureHold(j)
    <3> DEFINE r(k, n) == [job[j] EXCEPT !.op = "charge", !.card = k, !.collected = n]
    <3>1. \E k, n : job' = [job EXCEPT ![j] = r(k, n)]
      BY <2>1 DEF CaptureHold, Goes
    <3>2. PICK k, n : job' = [job EXCEPT ![j] = r(k, n)]
      BY <3>1
    <3>3. r(k, n).op = "charge"
      BY <2>0 DEF Job
    <3> HIDE DEF r
    <3> QED
      BY <3>2, <3>3, OneHoldJob
  <2>2. CASE ChargeRemainder(j)
    <3> DEFINE r(op, n) == [job[j] EXCEPT !.op = op, !.collected = n]
    <3>1. PICK op \in {"record", "fail"} : \E n : job' = [job EXCEPT ![j] = r(op, n)]
      BY <2>2 DEF ChargeRemainder, Goes
    <3>2. PICK n : job' = [job EXCEPT ![j] = r(op, n)]
      BY <3>1
    <3>3. r(op, n).op # "hold"
      BY <2>0 DEF Job
    <3> HIDE DEF r
    <3> QED
      BY <3>2, <3>3, OneHoldJob
  <2> QED
    BY <1>1, <1>2, <2>1, <2>2 DEF JobStep, HoldPersists, SettleRecords, SettleFails, ReleaseStamps
<1>3. ASSUME NEW j \in Jobs, NEW c \in Consultations, JobStart(j, c)
      PROVE  HoldJobsAuthorised'
  <2>1. ASSUME NEW s, NEW k, Settles(j, c, s, k)
        PROVE  HoldJobsAuthorised'
    <3> DEFINE r == [IdleJob EXCEPT !.op = "capture", !.c = c, !.card = k,
                                    !.pi = row[c].pi, !.seconds = s]
    <3>1. r.op = "capture"
      BY DEF IdleJob
    <3>2. Begins(j, IdleJob) \/ job' = [job EXCEPT ![j] = r]
      BY <2>1 DEF Settles, Begins
    <3> HIDE DEF r
    <3> QED
      BY <1>1, <3>1, <3>2, OneHoldJob
  <2>2. ASSUME NEW k \in Cards, holdConsultationFunds(j, c, k)
        PROVE  HoldJobsAuthorised'
    <3> DEFINE r == [IdleJob EXCEPT !.op = "hold", !.c = c, !.card = k, !.pi = row[c].pi]
    <3>1. r.op = "hold" /\ r.c = c /\ r.card = k
      BY DEF IdleJob
    <3>2. job' = [job EXCEPT ![j] = r] /\ Authorize(c, k)
      BY <2>2 DEF holdConsultationFunds, Begins
    <3>3. hold'[c][k].status \notin {"none", "declined"}
      BY <3>2, AuthorizeStays DEF Authorised
    <3> HIDE DEF r
    <3> QED
      BY <3>1, <3>2, <3>3, OneHoldJob
  <2>3. ASSUME Releases(j, c)
        PROVE  HoldJobsAuthorised'
    <3> DEFINE r == [IdleJob EXCEPT !.op = "release", !.c = c]
    <3>1. r.op = "release"
      BY DEF IdleJob
    <3>2. Begins(j, IdleJob) \/ job' = [job EXCEPT ![j] = r]
      BY <2>3 DEF Releases, Begins
    <3> HIDE DEF r
    <3> QED
      BY <1>1, <3>1, <3>2, OneHoldJob
  <2> QED
    BY <1>3, <2>1, <2>2, <2>3
    DEF JobStart, captureConsultation, retryFailedCaptures, releaseConsultationHold,
        releaseStaleHolds, payConsultation
<1>4. ASSUME job' = job
      PROVE  HoldJobsAuthorised'
  <2>1. \A i \in Jobs :
           job[i].op = "hold" => job[i].c \in Consultations /\ job[i].card \in Cards
    BY DEF TypeInv, Addressed
  <2> QED
    BY <1>4, <2>1 DEF HoldJobsAuthorised, HoldsStay, Authorised
<1>5. CASE BillingRestarts
  BY <1>5, IdleJobType DEF BillingRestarts, HoldJobsAuthorised
<1> QED
  BY <1>2, <1>3, <1>4, <1>5
  DEF BillingNext, ExpireAbandoned, HoldDeclined, HoldLost, HoldExpires, VoidSuperseded,
      PaymentIntentCanceled, PaymentIntentFailed, PostLost, billingOnly

(* Every step keeps the two facts about authorised holds. *)
LEMMA AuthStep == TypeInv /\ TypeInv' /\ AuthInv /\ [Next]_vars => AuthInv'
<1> SUFFICES ASSUME TypeInv, TypeInv', AuthInv, [Next]_vars PROVE AuthInv'
  OBVIOUS
<1> USE DEF AuthInv
<1>0. \A c \in Consultations :
         row[c].pi \in Cards \cup {NoCard} /\ row'[c].pi \in Cards \cup {NoCard}
  BY DEF TypeInv, TypeOK, TableTypeOK, Row
<1>1. CASE Engagement
  <2>1. CallsNext /\ hold' = hold /\ job' = job
    BY <1>1 DEF Engagement, billingOnly
  <2>2. KeepsPi
    BY <2>1, CallsKeepPi
  <2> QED
    BY <2>1, <2>2 DEF KeepsPi, HoldOnRecordIsAuthorised, HoldJobsAuthorised, Authorised
<1>2. CASE Billing
  <2>1. HoldsStay /\ NamesJobsHold
    BY <1>2, BillingHoldsStay, BillingNamesJobsHold DEF Billing
  <2>2. HoldJobsAuthorised'
    BY <1>2, <2>1, BillingJobsAuthorised DEF Billing
  <2>3. ASSUME NEW c \in Consultations, row'[c].pi # NoCard
        PROVE  hold'[c][row'[c].pi].status \notin {"none", "declined"}
    <3>1. Authorised(c, row'[c].pi)
      BY <2>1, <2>3 DEF NamesJobsHold, HoldOnRecordIsAuthorised, HoldJobsAuthorised, Authorised
    <3> QED
      BY <1>0, <2>1, <2>3, <3>1 DEF HoldsStay, Authorised
  <2> QED
    BY <2>2, <2>3 DEF HoldOnRecordIsAuthorised
<1>3. CASE UNCHANGED vars
  BY <1>3
  DEF vars, billingOnly, HoldOnRecordIsAuthorised, HoldJobsAuthorised, Authorised
<1> QED
  BY <1>1, <1>2, <1>3 DEF Next

(* The hold a row names, which acceptance relies on, was authorised: no     *)
(* declined card, lost answer or racing replacement makes a row name a hold *)
(* Stripe never placed.                                                     *)
THEOREM HoldAuthorised == Spec => []HoldOnRecordIsAuthorised
<1>1. Init => AuthInv
  BY IdleJobType
  DEF Init, TableInit, BillingInit, NoRow, AuthInv, HoldOnRecordIsAuthorised, HoldJobsAuthorised
<1>2. IInv => TypeInv
  BY DEF IInv, TypeInv
<1>3. AuthInv => HoldOnRecordIsAuthorised
  BY DEF AuthInv
<1> QED
  BY <1>1, <1>2, <1>3, AuthStep, Chain, PTL DEF Spec

-----------------------------------------------------------------------------
(* A recorded charge is final.  Engagement never writes the column, billing *)
(* never takes "charged" back, and a charge is recorded with it, once.      *)

ChargedIsOnRow == \A c \in Consultations : charge[c] > 0 => row[c].billing = "charged"

KeepsBilling == \A c \in Consultations : row[c].status # "none" => row'[c].billing = row[c].billing

KeepsCharged ==
    \A c \in Consultations : row[c].billing = "charged" => row'[c].billing = "charged"

ChargesOnce ==
    \A c \in Consultations :
       /\ charge[c] > 0 => charge'[c] = charge[c]
       /\ charge'[c] > 0 => charge[c] > 0 \/ row'[c].billing = "charged"

(* One row is written and keeps its column, or was not there. *)
LEMMA BillingKept ==
    ASSUME TypeInv, NEW c \in Consultations, NEW r, row' = [row EXCEPT ![c] = r],
           row[c].status # "none" => r.billing = row[c].billing
    PROVE  KeepsBilling
BY DEF KeepsBilling, TypeInv, TypeOK, TableTypeOK

(* No step of engagement-service writes the billing status of a call. *)
LEMMA CallsKeepBilling ==
    ASSUME TypeInv, CallsNext
    PROVE  KeepsBilling
<1>0. \A c \in Consultations : row[c] \in Row
  BY DEF TypeInv, TypeOK, TableTypeOK
<1>1. ASSUME row' = row
      PROVE  KeepsBilling
  BY <1>1 DEF KeepsBilling
<1>2. ASSUME NEW c \in Consultations, NEW st, row' = [row EXCEPT ![c].status = st]
      PROVE  KeepsBilling
  <2> DEFINE r == [row[c] EXCEPT !.status = st]
  <2>1. r.billing = row[c].billing /\ row' = [row EXCEPT ![c] = r]
    BY <1>0, <1>2 DEF Row
  <2> HIDE DEF r
  <2> QED
    BY <2>1, BillingKept
<1>3. ASSUME NEW c \in Consultations, NEW b, NEW n, WriteEnd(c, b, n)
      PROVE  KeepsBilling
  <2> DEFINE r == [row[c] EXCEPT !.status = IF b THEN "completed" ELSE "failed",
                                 !.seconds = IF b THEN n ELSE 0]
  <2>1. r.billing = row[c].billing /\ row' = [row EXCEPT ![c] = r]
    BY <1>0, <1>3 DEF Row, WriteEnd
  <2> HIDE DEF r
  <2> QED
    BY <2>1, BillingKept
<1>4. ASSUME NEW w \in Requests, HandlerStep(w)
      PROVE  KeepsBilling
  <2>0. req[w].op \notin {"idle", "create"} => req[w].c \in Consultations
    BY DEF TypeInv, Addressed
  <2>1. CASE CreateFailsGhost(w)
    <3>1. PICK c \in req[w].ghosts : row' = [row EXCEPT ![c].status = "failed"]
      BY <2>1 DEF CreateFailsGhost
    <3>2. c \in Consultations
      BY <3>1 DEF TypeInv, TypeOK, CallsTypeOK, Handler
    <3> QED
      BY <1>2, <3>1, <3>2
  <2>2. CASE CreateInserts(w)
    <3> DEFINE r == [NoRow EXCEPT !.status = "requested"]
    <3>1. PICK c \in Consultations : ~Exists(c) /\ row' = [row EXCEPT ![c] = r]
      BY <2>2 DEF CreateInserts
    <3> HIDE DEF r
    <3> QED
      BY <3>1, BillingKept DEF Exists
  <2>3. CASE AcceptUpdates(w)
    BY <1>1, <1>2, <2>0, <2>3 DEF AcceptUpdates
  <2>4. CASE EndUpdates(w) \/ RoomCloseUpdates(w)
    BY <1>1, <1>3, <2>0, <2>4 DEF EndUpdates, RoomCloseUpdates
  <2>5. CASE LoginUpdates(w)
    <3> DEFINE c == req[w].c
               r == [row[c] EXCEPT !.status = "in_progress", !.started = TRUE]
    <3>1. c \in Consultations
      BY <2>0, <2>5 DEF LoginUpdates
    <3>2. r.billing = row[c].billing /\ row' = [row EXCEPT ![c] = r]
      BY <1>0, <2>5, <3>1 DEF Row, LoginUpdates
    <3> HIDE DEF c, r
    <3> QED
      BY <3>1, <3>2, BillingKept
  <2>6. ASSUME NEW c \in Consultations, NEW p \in Parties, handleUserLogin(w, c, p)
        PROVE  KeepsBilling
    <3> DEFINE r == [row[c] EXCEPT !.joined = row[c].joined \cup {p}]
    <3>1. r.billing = row[c].billing /\ row' = [row EXCEPT ![c] = r]
      BY <1>0, <2>6 DEF Row, handleUserLogin
    <3> HIDE DEF r
    <3> QED
      BY <3>1, BillingKept
  <2> QED
    BY <1>1, <1>4, <2>1, <2>2, <2>3, <2>4, <2>5, <2>6
    DEF HandlerStep, createConsultation, CreateConflicts, LogoutArmsTimer, acceptConsultation,
        endConsultation, handleRoomClose, TimerFires, RoomCloseReads, handleUserLogout
<1> QED
  BY <1>1, <1>2, <1>4
  DEF CallsNext, declineConsultation, getVideoToken, ZegoJoin, ZegoLeave, ZegoLoses,
      EngagementRestarts

(* One row is written and stays charged if it was, and no charge is recorded. *)
LEMMA ChargedKept ==
    ASSUME TypeInv, NEW c \in Consultations, NEW r, row' = [row EXCEPT ![c] = r],
           row[c].billing = "charged" => r.billing = "charged", charge' = charge
    PROVE  KeepsCharged /\ ChargesOnce
BY DEF KeepsCharged, ChargesOnce, TypeInv, TypeOK, TableTypeOK

(* No step of billing-service takes a charge back or records another. *)
LEMMA BillingIsFinal ==
    ASSUME TypeInv, BillingNext
    PROVE  KeepsCharged /\ ChargesOnce
<1>0. \A c \in Consultations : row[c] \in Row
  BY DEF TypeInv, TypeOK, TableTypeOK
<1>1. ASSUME row' = row, charge' = charge
      PROVE  KeepsCharged /\ ChargesOnce
  BY <1>1 DEF KeepsCharged, ChargesOnce
<1>2. ASSUME NEW c \in Consultations, row[c].billing # "charged",
             row' = [row EXCEPT ![c].billing = "failed"], charge' = charge
      PROVE  KeepsCharged /\ ChargesOnce
  <2> DEFINE r == [row[c] EXCEPT !.billing = "failed"]
  <2>1. row' = [row EXCEPT ![c] = r]
    BY <1>2
  <2> HIDE DEF r
  <2> QED
    BY <1>2, <2>1, ChargedKept
<1>3. ASSUME NEW c \in Consultations, row' = [row EXCEPT ![c].released = TRUE], charge' = charge
      PROVE  KeepsCharged /\ ChargesOnce
  <2> DEFINE r == [row[c] EXCEPT !.released = TRUE]
  <2>1. r.billing = row[c].billing /\ row' = [row EXCEPT ![c] = r]
    BY <1>0, <1>3 DEF Row
  <2> HIDE DEF r
  <2> QED
    BY <1>3, <2>1, ChargedKept
<1>4. ASSUME NEW c \in Consultations, ExpireAbandoned(c)
      PROVE  KeepsCharged /\ ChargesOnce
  <2> DEFINE r == [row[c] EXCEPT !.status = "failed", !.seconds = 0]
  <2>1. r.billing = row[c].billing /\ row' = [row EXCEPT ![c] = r] /\ charge' = charge
    BY <1>0, <1>4 DEF Row, ExpireAbandoned, billingOnly
  <2> HIDE DEF r
  <2> QED
    BY <2>1, ChargedKept
<1>5. ASSUME NEW j \in Jobs, JobStep(j)
      PROVE  KeepsCharged /\ ChargesOnce
  <2>0. job[j].op # "idle" => job[j].c \in Consultations
    BY DEF TypeInv, Addressed
  <2>1. CASE HoldPersists(j)
    <3> DEFINE c == job[j].c
               r == [row[c] EXCEPT !.pi = job[j].card, !.released = FALSE]
    <3>1. c \in Consultations /\ charge' = charge
      BY <2>0, <2>1 DEF HoldPersists
    <3>2. r.billing = row[c].billing /\ row' = [row EXCEPT ![c] = r]
      BY <1>0, <2>1, <3>1 DEF Row, HoldPersists
    <3> HIDE DEF c, r
    <3> QED
      BY <3>1, <3>2, ChargedKept
  <2>2. CASE SettleRecords(j)
    <3>1. PICK c \in Consultations, n \in Nat : c = job[j].c /\ n = job[j].collected
      BY <2>0, <2>2 DEF SettleRecords, TypeInv, TypeOK, BillingTypeOK, Job
    <3>2. CASE charge[c] > 0
      BY <1>1, <2>2, <3>1, <3>2 DEF SettleRecords
    <3>3. CASE ~(charge[c] > 0)
      <4>1. charge' = [charge EXCEPT ![c] = n] /\ row' = [row EXCEPT ![c].billing = "charged"]
        BY <2>2, <3>1, <3>3 DEF SettleRecords
      <4>2. \A d \in Consultations :
               /\ charge'[d] = IF d = c THEN n ELSE charge[d]
               /\ row'[d].billing = IF d = c THEN "charged" ELSE row[d].billing
        BY <1>0, <4>1 DEF TypeInv, TypeOK, TableTypeOK, BillingTypeOK, Row
      <4> QED
        BY <3>3, <4>2 DEF KeepsCharged, ChargesOnce
    <3> QED
      BY <3>2, <3>3
  <2>3. CASE SettleFails(j)
    BY <1>1, <1>2, <2>0, <2>3 DEF SettleFails
  <2>4. CASE ReleaseStamps(j)
    BY <1>3, <2>0, <2>4 DEF ReleaseStamps
  <2>5. CASE CaptureHold(j) \/ ChargeRemainder(j)
    BY <1>1, <2>5 DEF CaptureHold, ChargeRemainder
  <2> QED
    BY <1>5, <2>1, <2>2, <2>3, <2>4, <2>5 DEF JobStep
<1>6. ASSUME NEW j \in Jobs, NEW c \in Consultations, JobStart(j, c)
      PROVE  KeepsCharged /\ ChargesOnce
  BY <1>1, <1>6
  DEF JobStart, captureConsultation, retryFailedCaptures, releaseConsultationHold,
      releaseStaleHolds, holdConsultationFunds, payConsultation
<1>7. ASSUME NEW c \in Consultations, NEW k \in Cards,
             PaymentIntentCanceled(c, k) \/ PaymentIntentFailed(c, k)
      PROVE  KeepsCharged /\ ChargesOnce
  BY <1>1, <1>2, <1>3, <1>7 DEF PaymentIntentCanceled, PaymentIntentFailed
<1> QED
  BY <1>1, <1>4, <1>5, <1>6, <1>7
  DEF BillingNext, HoldDeclined, HoldLost, HoldExpires, VoidSuperseded, PostLost,
      BillingRestarts, billingOnly

\* What RecordedChargeIsFinal asks of a step
ChargeStays ==
    \A c \in Consultations :
       charge[c] > 0 => charge'[c] = charge[c] /\ row'[c].billing = "charged"

(* Every step of the system keeps the recorded charges. *)
LEMMA FinalStep == IInv /\ ChargedIsOnRow /\ [Next]_vars => ChargeStays /\ ChargedIsOnRow'
<1> SUFFICES ASSUME IInv, ChargedIsOnRow, [Next]_vars PROVE ChargeStays /\ ChargedIsOnRow'
  OBVIOUS
<1>0. TypeInv
  BY DEF IInv, TypeInv
<1>1. CASE Engagement
  <2>1. KeepsBilling /\ charge' = charge
    BY <1>0, <1>1, CallsKeepBilling DEF Engagement, billingOnly
  <2>2. \A c \in Consultations : charge[c] > 0 => row[c].status # "none"
    BY DEF IInv, MoneyIsOfCalls, EmptyRows
  <2> QED
    BY <2>1, <2>2 DEF ChargeStays, ChargedIsOnRow, KeepsBilling
<1>2. CASE Billing
  <2>1. KeepsCharged /\ ChargesOnce
    BY <1>0, <1>2, BillingIsFinal DEF Billing
  <2> QED
    BY <2>1 DEF ChargeStays, ChargedIsOnRow, KeepsCharged, ChargesOnce
<1>3. CASE UNCHANGED vars
  BY <1>3 DEF vars, billingOnly, ChargeStays, ChargedIsOnRow
<1> QED
  BY <1>1, <1>2, <1>3 DEF Next

(* A recorded charge is final: no racing settlement, repeated callback, late *)
(* webhook, failed retry or restart changes it or marks the call as unpaid.  *)
THEOREM ChargeFinal == Spec => RecordedChargeIsFinal
<1>1. Init => ChargedIsOnRow
  BY DEF Init, BillingInit, ChargedIsOnRow
<1>2. IInv /\ ChargedIsOnRow /\ [Next]_vars => [ChargeStays]_vars
  BY FinalStep
<1>3. IInv /\ ChargedIsOnRow /\ [Next]_vars => ChargedIsOnRow'
  BY FinalStep
<1> QED
  BY <1>1, <1>2, <1>3, Chain, PTL DEF Spec, RecordedChargeIsFinal, ChargeStays

-----------------------------------------------------------------------------
(* The price.                                                               *)

(* Products and integer quotients grow with their operands. *)
LEMMA ProductGrows ==
    ASSUME NEW a \in Nat, NEW b \in Nat, NEW r \in Nat, a <= b
    PROVE  a * r <= b * r
<1>1. PICK d \in Nat : b = a + d
  <2>1. b - a \in Nat /\ b = a + (b - a)
    OBVIOUS
  <2> QED
    BY <2>1
<1>2. b * r = a * r + d * r /\ d * r \in Nat /\ a * r \in Nat
  BY <1>1
<1> QED
  BY <1>2

(* Rounding keeps the order of two amounts. *)
LEMMA RoundingGrows ==
    ASSUME NEW m \in Nat, NEW n \in Nat, m <= n
    PROVE  RoundDiv(m, CONSULTATION_RATE_MINUTES) <= RoundDiv(n, CONSULTATION_RATE_MINUTES)
BY DEF RoundDiv, CONSULTATION_RATE_MINUTES

(* The minutes billed grow with the length of the call. *)
LEMMA MinutesGrow ==
    ASSUME NEW s \in Nat, NEW t \in Nat, s <= t
    PROVE  consultationBillableMinutes(s) <= consultationBillableMinutes(t)
BY DEF consultationBillableMinutes

\* The price of m minutes before the minimum is applied
Raw(m) == RoundDiv(m * RateCents, CONSULTATION_RATE_MINUTES)

(* What more minutes cost. *)
LEMMA RawGrows ==
    ASSUME NEW m \in Nat, NEW n \in Nat, m <= n
    PROVE  Raw(m) \in Nat /\ Raw(n) \in Nat /\ Raw(m) <= Raw(n)
<1>1. PICK a \in Nat, b \in Nat : a = m * RateCents /\ b = n * RateCents
  BY RateAssumption
<1>2. a <= b
  BY <1>1, ProductGrows, RateAssumption
<1>3. CONSULTATION_RATE_MINUTES \in Nat /\ CONSULTATION_RATE_MINUTES > 0
  BY DEF CONSULTATION_RATE_MINUTES
<1> QED
  BY <1>1, <1>2, <1>3, RoundingGrows, RoundDivNat DEF Raw

(* A longer call never costs less. *)
THEOREM LongerCostsNoLess ==
    ASSUME NEW s \in Nat, NEW t \in Nat, s <= t
    PROVE  ChargeCents(s) <= ChargeCents(t)
<1>1. PICK m \in Nat, n \in Nat :
        m = consultationBillableMinutes(s) /\ n = consultationBillableMinutes(t)
  BY MinutesNat
<1>2. Raw(m) \in Nat /\ Raw(n) \in Nat /\ Raw(m) <= Raw(n)
  BY <1>1, MinutesGrow, RawGrows
<1>3. \A x \in Nat, k \in Nat : k = consultationBillableMinutes(x) =>
         ChargeCents(x) = IF x <= 0 \/ RateCents <= 0 THEN 0
                          ELSE IF Raw(k) < 50 THEN 50 ELSE Raw(k)
  BY DEF ChargeCents, computeConsultationChargeCents, Raw, MINIMUM_CONSULTATION_CHARGE_CENTS
<1> QED
  BY <1>1, <1>2, <1>3

(* The hold covers the first half hour at any rate: a call within it is       *)
(* settled by the capture alone.                                              *)
THEOREM HoldCoversBlock ==
    ASSUME NEW s \in Nat, s <= 60 * CONSULTATION_RATE_MINUTES
    PROVE  ChargeCents(s) <= HoldCents
<1>1. PICK m \in Nat : m = consultationBillableMinutes(s)
  BY MinutesNat
<1>2. m <= 30
  BY <1>1 DEF consultationBillableMinutes, CONSULTATION_RATE_MINUTES
<1>3. Raw(m) \in Nat /\ Raw(m) <= Raw(30)
  BY <1>2, RawGrows
<1>4. Raw(30) = RateCents
  BY RateAssumption DEF Raw, RoundDiv, CONSULTATION_RATE_MINUTES
<1>5. ChargeCents(s) \in {0, 50, Raw(m)}
  BY <1>1
  DEF ChargeCents, computeConsultationChargeCents, Raw, MINIMUM_CONSULTATION_CHARGE_CENTS
<1>6. HoldCents \in Nat /\ HoldCents >= 3000 /\ HoldCents >= RateCents
  BY RateAssumption DEF HoldCents, consultationHoldMinimumCents, MINIMUM_HOLD_CENTS
<1> QED
  BY <1>3, <1>4, <1>5, <1>6, RateAssumption

-----------------------------------------------------------------------------
(* The money behind a charge: the payments Stripe confirmed that make it up *)
(* can be named.                                                            *)

HoldPaid(c, n) == \E k \in Cards : hold[c][k].status = "succeeded" /\ hold[c][k].received = n

\* A captured hold received n, or an off-session charge brought what was
\* collected before, nothing or a captured hold, to n.
Backed(c, n) ==
    \/ HoldPaid(c, n)
    \/ \E d \in direct : /\ d.c = c /\ d.collected + d.cents = n
                         /\ d.collected = 0 \/ HoldPaid(c, d.collected)

\* What is recorded as charged was paid by payments Stripe confirmed for the call.
EveryChargeIsPaid == \A c \in Consultations : charge[c] > 0 => Backed(c, charge[c])

\* A settlement in progress counts only what Stripe has confirmed.
SettlementsCount ==
    \A j \in Jobs, c \in Consultations, n \in Nat : job[j].c = c /\ job[j].collected = n =>
       /\ job[j].op = "charge" => n = 0 \/ HoldPaid(c, n)
       /\ job[j].op = "record" => Backed(c, n)

PaidInv == EveryChargeIsPaid /\ SettlementsCount

\* Money Stripe took stays taken
PaymentsStay ==
    /\ \A c \in Consultations, k \in Cards :
          hold[c][k].status = "succeeded" => hold'[c][k] = hold[c][k]
    /\ direct \subseteq direct'

(* What is paid stays paid. *)
LEMMA PaidStaysPaid ==
    ASSUME PaymentsStay, NEW c \in Consultations, NEW n \in Nat
    PROVE  /\ HoldPaid(c, n) => HoldPaid(c, n)'
           /\ Backed(c, n) => Backed(c, n)'
<1>1. \A m : HoldPaid(c, m) => HoldPaid(c, m)'
  BY DEF PaymentsStay, HoldPaid
<1>2. ASSUME NEW d \in direct, d.c = c, d.collected + d.cents = n,
             d.collected = 0 \/ HoldPaid(c, d.collected)
      PROVE  Backed(c, n)'
  <2>1. d \in direct' /\ (d.collected = 0 \/ HoldPaid(c, d.collected)')
    BY <1>1, <1>2 DEF PaymentsStay
  <2> QED
    BY <1>2, <2>1 DEF Backed
<1> QED
  BY <1>1, <1>2 DEF Backed

(* One hold that was not captured is written. *)
LEMMA OneHoldWritten ==
    ASSUME TypeInv, NEW c \in Consultations, NEW k, NEW h,
           hold' = [hold EXCEPT ![c] = [hold[c] EXCEPT ![k] = h]],
           k \in Cards => hold[c][k].status # "succeeded", UNCHANGED direct
    PROVE  PaymentsStay
<1>1. \A d \in Consultations, x \in Cards :
         hold'[d][x] = IF d = c /\ x = k THEN h ELSE hold[d][x]
  BY DEF TypeInv, TypeOK, BillingTypeOK
<1> QED
  BY <1>1 DEF PaymentsStay

(* Authorising a hold takes nothing back. *)
LEMMA AuthorizePays ==
    ASSUME TypeInv, NEW c \in Consultations, NEW k \in Cards, Authorize(c, k), UNCHANGED direct
    PROVE  PaymentsStay
<1>1. PICK h : h = [hold[c][k] EXCEPT !.status = "requires_capture"]
  OBVIOUS
<1>2. \/ hold' = hold
      \/ hold[c][k].status = "none" /\ hold' = [hold EXCEPT ![c] = [hold[c] EXCEPT ![k] = h]]
  BY <1>1 DEF Authorize
<1> QED
  BY <1>2, OneHoldWritten DEF PaymentsStay

(* Nor does cancelling one. *)
LEMMA CancelPays ==
    ASSUME TypeInv, NEW c \in Consultations, NEW k \in Cards, Cancel(c, k), UNCHANGED direct
    PROVE  PaymentsStay
<1>1. PICK h : h = [hold[c][k] EXCEPT !.status = "canceled"]
  OBVIOUS
<1>2. \/ hold' = hold
      \/ /\ hold[c][k].status = "requires_capture"
         /\ hold' = [hold EXCEPT ![c] = [hold[c] EXCEPT ![k] = h]]
  BY <1>1 DEF Cancel
<1> QED
  BY <1>2, OneHoldWritten DEF PaymentsStay

(* No step of billing-service or Stripe takes a payment back. *)
LEMMA BillingPaymentsStay ==
    ASSUME TypeInv, BillingNext
    PROVE  PaymentsStay
<1>1. ASSUME hold' = hold, direct \subseteq direct'
      PROVE  PaymentsStay
  BY <1>1 DEF PaymentsStay
<1>2. ASSUME NEW j \in Jobs, JobStep(j)
      PROVE  PaymentsStay
  <2>1. CASE CaptureHold(j)
    <3>1. PICK c \in Consultations : c = job[j].c
      BY <2>1 DEF CaptureHold, TypeInv, Addressed
    <3>2. PICK k : k = job[j].pi
      OBVIOUS
    <3>3. \/ hold' = hold
          \/ \E n : /\ hold[c][k].status = "requires_capture"
                    /\ hold' = [hold EXCEPT ![c][k] = [status |-> "succeeded", received |-> n]]
      BY <2>1, <3>1, <3>2 DEF CaptureHold
    <3>4. ASSUME NEW n, hold[c][k].status = "requires_capture",
                 hold' = [hold EXCEPT ![c][k] = [status |-> "succeeded", received |-> n]]
          PROVE  PaymentsStay
      <4>1. PICK h : h = [status |-> "succeeded", received |-> n]
        OBVIOUS
      <4>2. hold' = [hold EXCEPT ![c] = [hold[c] EXCEPT ![k] = h]]
        BY <3>4, <4>1
      <4>3. UNCHANGED direct
        BY <2>1 DEF CaptureHold
      <4>4. hold[c][k].status # "succeeded"
        BY <3>4
      <4> QED
        BY <4>2, <4>3, <4>4, OneHoldWritten
    <3> QED
      BY <1>1, <2>1, <3>3, <3>4 DEF CaptureHold
  <2>2. CASE ChargeRemainder(j)
    BY <1>1, <2>2 DEF ChargeRemainder
  <2> QED
    BY <1>1, <1>2, <2>1, <2>2
    DEF JobStep, HoldPersists, SettleRecords, SettleFails, ReleaseStamps
<1>3. ASSUME NEW j \in Jobs, NEW c \in Consultations, Releases(j, c), UNCHANGED direct
      PROVE  PaymentsStay
  <2>1. Releasable(c) => row[c].pi \in Cards
    BY DEF Releasable, TypeInv, TypeOK, TableTypeOK, Row
  <2>2. hold' = hold \/ (Releasable(c) /\ Cancel(c, row[c].pi))
    BY <1>3 DEF Releases
  <2> QED
    BY <1>1, <1>3, <2>1, <2>2, CancelPays
<1>4. ASSUME NEW j \in Jobs, NEW c \in Consultations, JobStart(j, c)
      PROVE  PaymentsStay
  BY <1>1, <1>3, <1>4, AuthorizePays
  DEF JobStart, captureConsultation, retryFailedCaptures, releaseConsultationHold,
      releaseStaleHolds, holdConsultationFunds, payConsultation
<1>5. ASSUME NEW c \in Consultations, NEW k \in Cards, HoldDeclined(c, k)
      PROVE  PaymentsStay
  <2>1. PICK h : h = [hold[c][k] EXCEPT !.status = "declined"]
    OBVIOUS
  <2>2. hold' = [hold EXCEPT ![c] = [hold[c] EXCEPT ![k] = h]]
    BY <1>5, <2>1 DEF HoldDeclined
  <2>3. hold[c][k].status # "succeeded" /\ UNCHANGED direct
    BY <1>5 DEF HoldDeclined
  <2> QED
    BY <2>2, <2>3, OneHoldWritten
<1>6. ASSUME NEW c \in Consultations, NEW k \in Cards,
             HoldLost(c, k) \/ HoldExpires(c, k) \/ VoidSuperseded(c, k)
      PROVE  PaymentsStay
  BY <1>1, <1>6, AuthorizePays, CancelPays DEF HoldLost, HoldExpires, VoidSuperseded
<1> QED
  BY <1>1, <1>2, <1>4, <1>5, <1>6
  DEF BillingNext, ExpireAbandoned, PaymentIntentCanceled, PaymentIntentFailed, PostLost,
      BillingRestarts, billingOnly

(* One settlement goes on with what is paid, no charge is recorded. *)
LEMMA OneSettlement ==
    ASSUME TypeInv, PaidInv, PaymentsStay, UNCHANGED charge,
           NEW j \in Jobs, NEW r, job' = [job EXCEPT ![j] = r],
           \A c \in Consultations, n \in Nat : r.c = c /\ r.collected = n =>
              /\ r.op = "charge" => n = 0 \/ HoldPaid(c, n)'
              /\ r.op = "record" => Backed(c, n)'
    PROVE  PaidInv'
<1>1. \A i \in Jobs : job'[i] = IF i = j THEN r ELSE job[i]
  BY DEF TypeInv, TypeOK, BillingTypeOK
<1>2. EveryChargeIsPaid'
  <2> SUFFICES ASSUME NEW c \in Consultations, charge[c] > 0 PROVE Backed(c, charge[c])'
    BY DEF EveryChargeIsPaid
  <2>1. PICK n \in Nat : n = charge[c]
    BY DEF TypeInv, TypeOK, BillingTypeOK
  <2>2. Backed(c, n)'
    BY <2>1, PaidStaysPaid DEF PaidInv, EveryChargeIsPaid
  <2> QED
    BY <2>1, <2>2
<1>3. SettlementsCount'
  <2> SUFFICES ASSUME NEW i \in Jobs, NEW c \in Consultations, NEW n \in Nat,
                      job'[i].c = c, job'[i].collected = n
               PROVE  /\ job'[i].op = "charge" => n = 0 \/ HoldPaid(c, n)'
                      /\ job'[i].op = "record" => Backed(c, n)'
    BY DEF SettlementsCount
  <2>1. CASE i = j
    BY <1>1, <2>1
  <2>2. CASE i # j
    BY <1>1, <2>2, PaidStaysPaid DEF PaidInv, SettlementsCount
  <2> QED
    BY <2>1, <2>2
<1> QED
  BY <1>2, <1>3 DEF PaidInv

(* A job that goes to a step that counts no money. *)
LEMMA OneOtherJob ==
    ASSUME TypeInv, PaidInv, PaymentsStay, UNCHANGED charge,
           NEW j \in Jobs, NEW r, job' = [job EXCEPT ![j] = r], r.op \notin {"charge", "record"}
    PROVE  PaidInv'
BY OneSettlement

(* The hold is captured, or what it paid before is counted. *)
LEMMA CaptureCounts ==
    ASSUME TypeInv, PaidInv, PaymentsStay, NEW j \in Jobs, CaptureHold(j)
    PROVE  PaidInv'
<1>1. PICK c \in Consultations, pi \in Cards \cup {NoCard}, s \in Nat :
        c = job[j].c /\ pi = job[j].pi /\ s = job[j].seconds
  BY DEF CaptureHold, TypeInv, TypeOK, BillingTypeOK, Addressed, Job
<1>2. PICK m : m = SmallerOf(ChargeCents(s), HoldCents)
  OBVIOUS
<1>3. PICK k, n : /\ Goes(j, [job[j] EXCEPT !.op = "charge", !.card = k, !.collected = n])
                  /\ \/ n = 0
                     \/ /\ n = m /\ pi \in Cards
                        /\ hold' = [hold EXCEPT ![c][pi] = [status |-> "succeeded", received |-> m]]
                     \/ pi \in Cards /\ n = Received(hold[c][pi]) /\ UNCHANGED hold
  BY <1>1, <1>2 DEF CaptureHold
<1>4. PICK r : r = [job[j] EXCEPT !.op = "charge", !.card = k, !.collected = n]
  OBVIOUS
<1>5. r.op = "charge" /\ r.c = c /\ r.collected = n /\ job' = [job EXCEPT ![j] = r]
  BY <1>1, <1>3, <1>4 DEF TypeInv, TypeOK, BillingTypeOK, Job, Goes
<1>6. n = 0 \/ HoldPaid(c, n)'
  <2>1. CASE pi \in Cards /\ hold' = [hold EXCEPT ![c][pi] = [status |-> "succeeded", received |-> m]]
    <3>1. hold'[c][pi] = [status |-> "succeeded", received |-> m]
      BY <2>1 DEF TypeInv, TypeOK, BillingTypeOK
    <3>2. HoldPaid(c, m)'
      BY <2>1, <3>1 DEF HoldPaid
    <3>3. n = 0 \/ n = m \/ (pi \in Cards /\ n = Received(hold[c][pi]) /\ UNCHANGED hold)
      BY <1>3
    <3> QED
      BY <3>1, <3>2, <3>3 DEF Received, HoldPaid
  <2>2. CASE pi \in Cards /\ n = Received(hold[c][pi]) /\ UNCHANGED hold
    BY <2>2 DEF Received, HoldPaid
  <2> QED
    BY <1>3, <2>1, <2>2
<1>7. UNCHANGED charge
  BY DEF CaptureHold
<1> QED
  BY <1>5, <1>6, <1>7, OneSettlement

(* The remainder is charged, or what was collected has to do. *)
LEMMA RemainderCounts ==
    ASSUME TypeInv, PaidInv, PaymentsStay, NEW j \in Jobs, ChargeRemainder(j)
    PROVE  PaidInv'
<1>1. PICK c \in Consultations, s \in Nat, before \in Nat :
        c = job[j].c /\ s = job[j].seconds /\ before = job[j].collected
  BY DEF ChargeRemainder, TypeInv, TypeOK, BillingTypeOK, Addressed, Job
<1>2. PICK due \in Nat : due = ChargeCents(s)
  BY ChargeCentsNat
<1>3. PICK key : key = [c |-> c, card |-> job[j].card, collected |-> before, cents |-> due - before]
  OBVIOUS
<1>4. PICK n : /\ Goes(j, [job[j] EXCEPT !.op = IF n > 0 THEN "record" ELSE "fail", !.collected = n])
               /\ n = before \/ (n = due /\ key \in direct')
  BY <1>1, <1>2, <1>3 DEF ChargeRemainder
<1>5. PICK r : r = [job[j] EXCEPT !.op = IF n > 0 THEN "record" ELSE "fail", !.collected = n]
  OBVIOUS
<1>6. /\ r.op = (IF n > 0 THEN "record" ELSE "fail") /\ r.c = c /\ r.collected = n
      /\ job' = [job EXCEPT ![j] = r]
  BY <1>1, <1>4, <1>5 DEF TypeInv, TypeOK, BillingTypeOK, Job, Goes
<1>7. before = 0 \/ HoldPaid(c, before)'
  <2>1. before = 0 \/ HoldPaid(c, before)
    BY <1>1 DEF PaidInv, SettlementsCount, ChargeRemainder
  <2> QED
    BY <2>1, PaidStaysPaid
<1>8. n > 0 => Backed(c, n)'
  <2>1. CASE n = before
    BY <1>7, <2>1 DEF Backed
  <2>2. CASE n = due /\ key \in direct'
    <3>1. key.c = c /\ key.collected = before /\ key.collected + key.cents = due
      BY <1>1, <1>2, <1>3
    <3> QED
      BY <1>7, <2>2, <3>1 DEF Backed
  <2> QED
    BY <1>4, <2>1, <2>2
<1>9. UNCHANGED charge
  BY DEF ChargeRemainder
<1> QED
  BY <1>6, <1>8, <1>9, OneSettlement

(* The charge that is recorded is what was counted. *)
LEMMA RecordingCounts ==
    ASSUME TypeInv, PaidInv, PaymentsStay, NEW j \in Jobs, SettleRecords(j)
    PROVE  PaidInv'
<1>1. PICK c \in Consultations, n \in Nat : c = job[j].c /\ n = job[j].collected
  BY DEF SettleRecords, TypeInv, TypeOK, BillingTypeOK, Addressed, Job
<1>2. Backed(c, n)'
  BY <1>1, PaidStaysPaid DEF PaidInv, SettlementsCount, SettleRecords
<1>3. job' = [job EXCEPT ![j] = IdleJob]
  BY DEF SettleRecords, Completes
<1>4. CASE UNCHANGED charge
  BY <1>3, <1>4, IdleJobType, OneOtherJob
<1>5. CASE charge' = [charge EXCEPT ![c] = n]
  <2>1. \A d \in Consultations : charge'[d] = IF d = c THEN n ELSE charge[d]
    BY <1>5 DEF TypeInv, TypeOK, BillingTypeOK
  <2>2. EveryChargeIsPaid'
    <3>1. \A d \in Consultations : charge'[d] \in Nat
      BY <2>1 DEF TypeInv, TypeOK, BillingTypeOK
    <3>2. ASSUME NEW d \in Consultations, NEW m \in Nat, m = charge'[d], m > 0
          PROVE  Backed(d, m)'
      <4>1. CASE d = c
        BY <1>2, <2>1, <3>2, <4>1
      <4>2. CASE d # c
        <5>1. m = charge[d]
          BY <2>1, <3>2, <4>2
        <5>2. Backed(d, m)
          BY <3>2, <5>1 DEF PaidInv, EveryChargeIsPaid
        <5> QED
          BY <5>2, PaidStaysPaid
      <4> QED
        BY <4>1, <4>2
    <3> QED
      BY <3>1, <3>2 DEF EveryChargeIsPaid, Backed, HoldPaid
  <2>3. SettlementsCount'
    <3>1. \A i \in Jobs : job'[i] = IF i = j THEN IdleJob ELSE job[i]
      BY <1>3 DEF TypeInv, TypeOK, BillingTypeOK
    <3> SUFFICES ASSUME NEW i \in Jobs, NEW d \in Consultations, NEW m \in Nat,
                        job'[i].c = d, job'[i].collected = m
                 PROVE  /\ job'[i].op = "charge" => m = 0 \/ HoldPaid(d, m)'
                        /\ job'[i].op = "record" => Backed(d, m)'
      BY DEF SettlementsCount
    <3> QED
      BY <3>1, IdleJobType, PaidStaysPaid DEF PaidInv, SettlementsCount
  <2> QED
    BY <2>2, <2>3 DEF PaidInv
<1> QED
  BY <1>1, <1>4, <1>5 DEF SettleRecords

(* Every step of billing-service and Stripe. *)
LEMMA BillingCounts ==
    ASSUME TypeInv, PaidInv, BillingNext
    PROVE  PaidInv'
<1>0. PaymentsStay
  BY BillingPaymentsStay
<1>1. ASSUME NEW j \in Jobs, Completes(j) \/ Begins(j, IdleJob), UNCHANGED charge
      PROVE  PaidInv'
  BY <1>0, <1>1, IdleJobType, OneOtherJob DEF Completes, Begins
<1>2. ASSUME NEW j \in Jobs, JobStep(j)
      PROVE  PaidInv'
  BY <1>0, <1>1, <1>2, CaptureCounts, RemainderCounts, RecordingCounts
  DEF JobStep, HoldPersists, SettleFails, ReleaseStamps
<1>3. ASSUME NEW j \in Jobs, NEW c \in Consultations, JobStart(j, c)
      PROVE  PaidInv'
  <2>0. UNCHANGED charge
    BY <1>3
    DEF JobStart, captureConsultation, retryFailedCaptures, releaseConsultationHold,
        releaseStaleHolds, holdConsultationFunds, payConsultation
  <2>1. ASSUME NEW s, NEW k, Settles(j, c, s, k)
        PROVE  PaidInv'
    <3>1. PICK r : r = [IdleJob EXCEPT !.op = "capture", !.c = c, !.card = k,
                                       !.pi = row[c].pi, !.seconds = s]
      OBVIOUS
    <3>2. r.op = "capture"
      BY <3>1 DEF IdleJob
    <3>3. Begins(j, IdleJob) \/ job' = [job EXCEPT ![j] = r]
      BY <2>1, <3>1 DEF Settles, Begins
    <3> QED
      BY <1>0, <1>1, <2>0, <3>2, <3>3, OneOtherJob
  <2>2. ASSUME NEW k \in Cards, holdConsultationFunds(j, c, k)
        PROVE  PaidInv'
    <3>1. PICK r : r = [IdleJob EXCEPT !.op = "hold", !.c = c, !.card = k, !.pi = row[c].pi]
      OBVIOUS
    <3>2. r.op = "hold" /\ job' = [job EXCEPT ![j] = r]
      BY <2>2, <3>1 DEF IdleJob, holdConsultationFunds, Begins
    <3> QED
      BY <1>0, <2>0, <3>2, OneOtherJob
  <2>3. ASSUME Releases(j, c)
        PROVE  PaidInv'
    <3>1. PICK r : r = [IdleJob EXCEPT !.op = "release", !.c = c]
      OBVIOUS
    <3>2. r.op = "release"
      BY <3>1 DEF IdleJob
    <3>3. Begins(j, IdleJob) \/ job' = [job EXCEPT ![j] = r]
      BY <2>3, <3>1 DEF Releases, Begins
    <3> QED
      BY <1>0, <1>1, <2>0, <3>2, <3>3, OneOtherJob
  <2> QED
    BY <1>3, <2>1, <2>2, <2>3
    DEF JobStart, captureConsultation, retryFailedCaptures, releaseConsultationHold,
        releaseStaleHolds, payConsultation
<1>4. ASSUME UNCHANGED charge, \A j \in Jobs : job'[j] = job[j] \/ job'[j] = IdleJob
      PROVE  PaidInv'
  <2>1. EveryChargeIsPaid'
    <3> SUFFICES ASSUME NEW c \in Consultations, charge[c] > 0 PROVE Backed(c, charge[c])'
      BY <1>4 DEF EveryChargeIsPaid
    <3>1. PICK n \in Nat : n = charge[c]
      BY DEF TypeInv, TypeOK, BillingTypeOK
    <3>2. Backed(c, n)'
      BY <1>0, <3>1, PaidStaysPaid DEF PaidInv, EveryChargeIsPaid
    <3> QED
      BY <1>4, <3>1, <3>2
  <2>2. SettlementsCount'
    <3> SUFFICES ASSUME NEW i \in Jobs, NEW c \in Consultations, NEW n \in Nat,
                        job'[i].c = c, job'[i].collected = n
                 PROVE  /\ job'[i].op = "charge" => n = 0 \/ HoldPaid(c, n)'
                        /\ job'[i].op = "record" => Backed(c, n)'
      BY DEF SettlementsCount
    <3> QED
      BY <1>0, <1>4, IdleJobType, PaidStaysPaid DEF PaidInv, SettlementsCount
  <2> QED
    BY <2>1, <2>2 DEF PaidInv
<1> QED
  BY <1>2, <1>3, <1>4
  DEF BillingNext, ExpireAbandoned, HoldDeclined, HoldLost, HoldExpires, VoidSuperseded,
      PaymentIntentCanceled, PaymentIntentFailed, PostLost, BillingRestarts, billingOnly

(* Every recorded charge was paid: by a captured hold, by an off-session      *)
(* charge, or by the two together, for exactly the amount that is recorded,   *)
(* whatever settlements race, fail and lose their answers.                    *)
THEOREM ChargePaid == Spec => []EveryChargeIsPaid
<1>1. Init => PaidInv
  BY IdleJobType DEF Init, BillingInit, PaidInv, EveryChargeIsPaid, SettlementsCount
<1>2. TypeInv /\ PaidInv /\ [Next]_vars => PaidInv'
  <2> SUFFICES ASSUME TypeInv, PaidInv, [Next]_vars PROVE PaidInv'
    OBVIOUS
  <2>1. CASE Billing
    BY <2>1, BillingCounts DEF Billing
  <2>2. CASE UNCHANGED billingOnly
    BY <2>2
    DEF billingOnly, PaidInv, EveryChargeIsPaid, SettlementsCount, Backed, HoldPaid
  <2> QED
    BY <2>1, <2>2 DEF Next, Engagement, vars
<1>3. IInv => TypeInv
  BY DEF IInv, TypeInv
<1>4. PaidInv => EveryChargeIsPaid
  BY DEF PaidInv
<1> QED
  BY <1>1, <1>2, <1>3, <1>4, Chain, PTL DEF Spec

-----------------------------------------------------------------------------
(* What Stripe took adds up to the charge.                                  *)

(* No step makes more than one off-session charge. *)
LEMMA OneMoreCharge == ASSUME [Next]_vars PROVE direct' = direct \/ \E key : direct' = direct \cup {key}
<1>1. ASSUME NEW j \in Jobs, JobStep(j)
      PROVE  direct' = direct \/ \E key : direct' = direct \cup {key}
  <2>1. CASE ChargeRemainder(j)
    BY <2>1, Zenon DEF ChargeRemainder
  <2>2. CASE HoldPersists(j) \/ CaptureHold(j) \/ SettleRecords(j) \/ SettleFails(j) \/ ReleaseStamps(j)
    BY <2>2 DEF HoldPersists, CaptureHold, SettleRecords, SettleFails, ReleaseStamps
  <2> QED
    BY <1>1, <2>1, <2>2 DEF JobStep
<1>2. ASSUME NEW j \in Jobs, NEW c \in Consultations, JobStart(j, c) PROVE direct' = direct
  BY <1>2
  DEF JobStart, captureConsultation, retryFailedCaptures, releaseConsultationHold,
      releaseStaleHolds, holdConsultationFunds, payConsultation, Settles, Releases
<1>3. ASSUME NEW c \in Consultations, NEW k \in Cards,
             \/ HoldDeclined(c, k) \/ HoldLost(c, k) \/ HoldExpires(c, k) \/ VoidSuperseded(c, k)
             \/ PaymentIntentCanceled(c, k) \/ PaymentIntentFailed(c, k)
      PROVE  direct' = direct
  BY <1>3 DEF HoldDeclined, HoldLost, HoldExpires, VoidSuperseded, PaymentIntentCanceled,
              PaymentIntentFailed
<1>4. ASSUME NEW c \in Consultations, ExpireAbandoned(c) PROVE direct' = direct
  BY <1>4 DEF ExpireAbandoned, billingOnly
<1>5. ASSUME NEW p \in posts, PostLost(p) PROVE direct' = direct
  BY <1>5 DEF PostLost, billingOnly
<1>6. BillingRestarts => direct' = direct
  BY DEF BillingRestarts
<1>7. Engagement \/ UNCHANGED vars => direct' = direct
  BY DEF Engagement, vars, billingOnly
<1> QED
  BY <1>1, <1>2, <1>3, <1>4, <1>5, <1>6, <1>7 DEF Next, Billing, BillingNext

(* A payment is part of what was collected. *)
LEMMA PaymentsAreCollected ==
    ASSUME TypeInv, IsFiniteSet(direct), NEW c \in Consultations
    PROVE  /\ ReceivedFromHolds(c) \in Nat /\ ChargedOffSession(c) \in Nat
           /\ \A k \in Cards : hold[c][k].received <= ReceivedFromHolds(c)
           /\ \A d \in OffSessionOf(c) : d.cents <= ChargedOffSession(c)
<1>1. PICK f : f = [k \in Cards |-> hold[c][k].received]
  OBVIOUS
<1>2. \A k \in Cards : f[k] \in Nat /\ f[k] = hold[c][k].received
  BY <1>1 DEF TypeInv, TypeOK, BillingTypeOK, Hold
<1>3. ReceivedFromHolds(c) \in Nat /\ \A k \in Cards : f[k] <= ReceivedFromHolds(c)
  BY <1>1, <1>2, CardsAreFinite, SumType, SumCovers DEF ReceivedFromHolds
<1>4. PICK S : S = OffSessionOf(c)
  OBVIOUS
<1>5. PICK g : g = [d \in S |-> d.cents]
  OBVIOUS
<1>6. IsFiniteSet(S)
  BY <1>4, FS_Subset DEF OffSessionOf
<1>7. \A d \in S : g[d] \in Nat /\ g[d] = d.cents
  BY <1>4, <1>5 DEF TypeInv, TypeOK, BillingTypeOK, ChargeKey, OffSessionOf
<1>8. ChargedOffSession(c) = SumFunctionOnSet(g, S)
  BY <1>4, <1>5 DEF ChargedOffSession
<1>9. ChargedOffSession(c) \in Nat /\ \A d \in S : g[d] <= ChargedOffSession(c)
  BY <1>6, <1>7, <1>8, SumType, SumCovers
<1> QED
  BY <1>2, <1>3, <1>4, <1>7, <1>9

(* Stripe has taken what is recorded as charged, and it adds up: by the       *)
(* composition of a charge, EveryChargeIsPaid, and because no payment is more *)
(* than all of them.                                                          *)
THEOREM ChargeBacked == Spec => []ChargeBackedByStripe
<1>1. Init => IsFiniteSet(direct)
  BY FS_EmptySet DEF Init, BillingInit
<1>2. IsFiniteSet(direct) /\ [Next]_vars => IsFiniteSet(direct)'
  BY OneMoreCharge, FS_AddElement
<1>3. TypeInv /\ IsFiniteSet(direct) /\ EveryChargeIsPaid => ChargeBackedByStripe
  <2> SUFFICES ASSUME TypeInv, IsFiniteSet(direct), EveryChargeIsPaid, NEW c \in Consultations
               PROVE  charge[c] <= CollectedFromCustomer(c)
    BY DEF ChargeBackedByStripe
  <2>1. PICK n \in Nat, held \in Nat, apart \in Nat :
          n = charge[c] /\ held = ReceivedFromHolds(c) /\ apart = ChargedOffSession(c)
    BY PaymentsAreCollected DEF TypeInv, TypeOK, BillingTypeOK
  <2>2. \A m : HoldPaid(c, m) => m <= held
    BY <2>1, PaymentsAreCollected DEF HoldPaid
  <2>3. CASE n > 0
    <3>1. Backed(c, n)
      BY <2>1, <2>3 DEF EveryChargeIsPaid
    <3>2. CASE HoldPaid(c, n)
      BY <2>1, <2>2, <3>2 DEF CollectedFromCustomer
    <3>3. ASSUME NEW d \in direct, d.c = c, d.collected + d.cents = n,
                 d.collected = 0 \/ HoldPaid(c, d.collected)
          PROVE  n <= held + apart
      <4>1. d.collected \in Nat /\ d.cents \in Nat
        BY DEF TypeInv, TypeOK, BillingTypeOK, ChargeKey
      <4>2. d.cents <= apart
        BY <2>1, <3>3, PaymentsAreCollected DEF OffSessionOf
      <4>3. d.collected <= held
        BY <2>1, <2>2, <3>3
      <4> QED
        BY <2>1, <3>3, <4>1, <4>2, <4>3
    <3> QED
      BY <2>1, <3>1, <3>2, <3>3 DEF Backed, CollectedFromCustomer
  <2> QED
    BY <2>1, <2>3 DEF CollectedFromCustomer
<1>4. IInv => TypeInv
  BY DEF IInv, TypeInv
<1> QED
  BY <1>1, <1>2, <1>3, <1>4, Chain, ChargePaid, PTL DEF Spec

-----------------------------------------------------------------------------
(* One charge per call.  With one card, no request that fails before Stripe *)
(* acts on it and a length that nothing overwrites, every settlement of a   *)
(* call charges the remainder under the same key.                           *)

OneCardOnly == \E k : Cards = {k}

\* No second end of a call writes another length over the recorded one
LengthStays ==
    \A c \in Consultations : row[c].seconds > 0 => row'[c].seconds = row[c].seconds

Due(c) == ChargeCents(row[c].seconds)

\* Nothing more will be taken from a hold: it was captured, or cancelled
Spent(c, k) == hold[c][k].status \in {"succeeded", "canceled"}

CapturedOnce ==
    \A c \in Consultations, k \in Cards :
       IF hold[c][k].status = "succeeded"
       THEN row[c].seconds > 0 /\ hold[c][k].received = SmallerOf(Due(c), HoldCents)
       ELSE hold[c][k].received = 0

\* The remainder of a call on card k, after so much was collected
IsRemainder(c, k, collected) ==
    row[c].seconds > 0 /\ Spent(c, k) /\ collected = hold[c][k].received

OneRemainder ==
    \A d \in direct : IsRemainder(d.c, d.card, d.collected) /\ d.cents = Due(d.c) - d.collected

SettlementOK(r) ==
    /\ r.op = "capture" => r.pi \in Cards /\ Authorised(r.c, r.pi) /\ row[r.c].seconds > 0
    /\ r.op = "charge" => r.card \in Cards /\ IsRemainder(r.c, r.card, r.collected)
    /\ r.op \in {"capture", "charge"} => r.c \in Consultations /\ r.seconds = row[r.c].seconds

SettlementsAgree == \A j \in Jobs : SettlementOK(job[j])

\* A capture was asked for with the length on the row
PostSays(p) == p.kind = "capture" => p.seconds > 0 /\ row[p.c].seconds = p.seconds

PostsAgree == \A p \in posts : PostSays(p)

OnceInv == CapturedOnce /\ OneRemainder /\ SettlementsAgree /\ PostsAgree

\* What a step may do to a hold: take nothing from one that is not spent, or
\* capture it
NotTaken(c, k) ==
    /\ ~Spent(c, k) /\ hold'[c][k].status # "succeeded"
    /\ hold'[c][k].received = hold[c][k].received
    /\ Authorised(c, k) => hold'[c][k].status \notin {"none", "declined"}

Taken(c, k) ==
    /\ hold[c][k].status = "requires_capture" /\ row[c].seconds > 0
    /\ hold'[c][k] = [status |-> "succeeded", received |-> SmallerOf(Due(c), HoldCents)]

HoldsMove ==
    \A c \in Consultations, k \in Cards :
       hold'[c][k] = hold[c][k] \/ NotTaken(c, k) \/ Taken(c, k)

(* A remainder stays the remainder, and due. *)
LEMMA RemainderStays ==
    ASSUME LengthStays, HoldsMove, NEW c \in Consultations, NEW k \in Cards, NEW n,
           IsRemainder(c, k, n)
    PROVE  IsRemainder(c, k, n)' /\ Due(c)' = Due(c)
<1>1. row'[c].seconds = row[c].seconds /\ row[c].seconds > 0
  BY DEF LengthStays, IsRemainder
<1>2. hold'[c][k] = hold[c][k]
  BY DEF HoldsMove, IsRemainder, Spent, NotTaken, Taken
<1> QED
  BY <1>1, <1>2 DEF IsRemainder, Spent, Due

(* A settlement stays right. *)
LEMMA SettlementStays ==
    ASSUME LengthStays, HoldsMove, NEW r, SettlementOK(r)
    PROVE  SettlementOK(r)'
<1>1. CASE r.op = "capture"
  <2>1. r.c \in Consultations /\ r.pi \in Cards /\ row'[r.c].seconds = row[r.c].seconds
    BY <1>1 DEF SettlementOK, LengthStays
  <2>2. PICK c \in Consultations : c = r.c
    BY <2>1
  <2>3. PICK k \in Cards : k = r.pi
    BY <2>1
  <2>4. Authorised(c, k)
    BY <1>1, <2>2, <2>3 DEF SettlementOK, Authorised
  <2>5. hold'[c][k] = hold[c][k] \/ NotTaken(c, k) \/ Taken(c, k)
    BY DEF HoldsMove
  <2>6. Taken(c, k) => hold'[c][k].status = "succeeded"
    BY DEF Taken
  <2>7. Authorised(c, k)'
    BY <2>4, <2>5, <2>6 DEF Authorised, NotTaken
  <2> QED
    BY <1>1, <2>1, <2>2, <2>3, <2>7 DEF SettlementOK, Authorised
<1>2. CASE r.op = "charge"
  <2>1. r.c \in Consultations /\ r.card \in Cards /\ IsRemainder(r.c, r.card, r.collected)
    BY <1>2 DEF SettlementOK
  <2>2. IsRemainder(r.c, r.card, r.collected)'
    BY <2>1, RemainderStays
  <2>3. row'[r.c].seconds = row[r.c].seconds
    BY <2>1 DEF IsRemainder, LengthStays
  <2> QED
    BY <1>2, <2>1, <2>2, <2>3 DEF SettlementOK
<1>3. CASE r.op \notin {"capture", "charge"}
  BY <1>3 DEF SettlementOK
<1> QED
  BY <1>1, <1>2, <1>3

\* The payments, jobs and POSTs a step brings are right
NewOnes ==
    /\ \A d \in direct' : d \in direct \/ (/\ IsRemainder(d.c, d.card, d.collected)
                                           /\ d.cents = Due(d.c) - d.collected)
    /\ \A j \in Jobs : \A r : r = job'[j] => r = job[j] \/ SettlementOK(r)'
    /\ \A p \in posts' : p \in posts \/ PostSays(p)'

(* A step that moves holds and brings right ones keeps the invariant. *)
LEMMA OnceKept ==
    ASSUME TypeInv, TypeInv', OnceInv, LengthStays, HoldsMove, NewOnes
    PROVE  OnceInv'
<1>1. CapturedOnce'
  <2> SUFFICES ASSUME NEW c \in Consultations, NEW k \in Cards
               PROVE  (IF hold[c][k].status = "succeeded"
                       THEN row[c].seconds > 0 /\ hold[c][k].received = SmallerOf(Due(c), HoldCents)
                       ELSE hold[c][k].received = 0)'
    BY DEF CapturedOnce
  <2>1. row[c].seconds > 0 => row'[c].seconds = row[c].seconds /\ Due(c)' = Due(c)
    BY DEF LengthStays, Due
  <2>2. CASE hold'[c][k] = hold[c][k]
    BY <2>1, <2>2 DEF OnceInv, CapturedOnce
  <2>3. CASE NotTaken(c, k)
    BY <2>3 DEF OnceInv, CapturedOnce, NotTaken, Spent
  <2>4. CASE Taken(c, k)
    BY <2>1, <2>4 DEF Taken
  <2> QED
    BY <2>2, <2>3, <2>4 DEF HoldsMove
<1>2. OneRemainder'
  <2> SUFFICES ASSUME NEW d \in direct'
               PROVE  IsRemainder(d.c, d.card, d.collected)' /\ d.cents = Due(d.c)' - d.collected
    BY DEF OneRemainder
  <2>1. d.c \in Consultations /\ d.card \in Cards
    BY DEF TypeInv, TypeOK, BillingTypeOK, ChargeKey
  <2>2. IsRemainder(d.c, d.card, d.collected) /\ d.cents = Due(d.c) - d.collected
    BY DEF NewOnes, OnceInv, OneRemainder
  <2> QED
    BY <2>1, <2>2, RemainderStays
<1>3. SettlementsAgree'
  <2> SUFFICES ASSUME NEW j \in Jobs PROVE SettlementOK(job[j])'
    BY DEF SettlementsAgree
  <2>1. PICK r : r = job'[j]
    OBVIOUS
  <2>2. r = job[j] => SettlementOK(r)
    BY DEF OnceInv, SettlementsAgree
  <2>3. SettlementOK(r)'
    BY <2>1, <2>2, SettlementStays DEF NewOnes
  <2> QED
    BY <2>1, <2>3
<1>4. PostsAgree'
  <2> SUFFICES ASSUME NEW p \in posts' PROVE PostSays(p)'
    BY DEF PostsAgree
  <2>1. p \in posts => PostSays(p) /\ p.c \in Consultations
    BY DEF OnceInv, PostsAgree, TypeInv, TypeOK, TableTypeOK, Post
  <2>2. p \in posts => PostSays(p)'
    BY <2>1 DEF PostSays, LengthStays
  <2> QED
    BY <2>2 DEF NewOnes
<1> QED
  BY <1>1, <1>2, <1>3, <1>4 DEF OnceInv

(* A step that leaves the holds alone moves none. *)
LEMMA HoldsAlone == UNCHANGED hold => HoldsMove
BY DEF HoldsMove

(* One hold that is not spent is written. *)
LEMMA OneHoldMoves ==
    ASSUME TypeInv, NEW c \in Consultations, NEW k \in Cards, NEW h,
           hold' = [hold EXCEPT ![c] = [hold[c] EXCEPT ![k] = h]], ~Spent(c, k),
           h.status \in {"requires_capture", "canceled"} \/ ~Authorised(c, k),
           h.status # "succeeded", h.received = hold[c][k].received
    PROVE  HoldsMove
<1>1. \A d \in Consultations, x \in Cards :
         hold'[d][x] = IF d = c /\ x = k THEN h ELSE hold[d][x]
  BY DEF TypeInv, TypeOK, BillingTypeOK
<1>2. NotTaken(c, k)
  BY <1>1 DEF NotTaken
<1> QED
  BY <1>1, <1>2 DEF HoldsMove

(* Authorising a hold takes nothing. *)
LEMMA AuthorizeMoves ==
    ASSUME TypeInv, NEW c \in Consultations, NEW k \in Cards, Authorize(c, k)
    PROVE  HoldsMove
<1>1. PICK h : h = [hold[c][k] EXCEPT !.status = "requires_capture"]
  OBVIOUS
<1>2. h.status = "requires_capture" /\ h.received = hold[c][k].received
  BY <1>1 DEF TypeInv, TypeOK, BillingTypeOK, Hold
<1>3. \/ hold' = hold
      \/ hold[c][k].status = "none" /\ hold' = [hold EXCEPT ![c] = [hold[c] EXCEPT ![k] = h]]
  BY <1>1 DEF Authorize
<1> QED
  BY <1>2, <1>3, OneHoldMoves, HoldsAlone DEF Spent

(* Nor does cancelling one. *)
LEMMA CancelMoves ==
    ASSUME TypeInv, NEW c \in Consultations, NEW k \in Cards, Cancel(c, k)
    PROVE  HoldsMove
<1>1. PICK h : h = [hold[c][k] EXCEPT !.status = "canceled"]
  OBVIOUS
<1>2. h.status = "canceled" /\ h.received = hold[c][k].received
  BY <1>1 DEF TypeInv, TypeOK, BillingTypeOK, Hold
<1>3. \/ hold' = hold
      \/ /\ hold[c][k].status = "requires_capture"
         /\ hold' = [hold EXCEPT ![c] = [hold[c] EXCEPT ![k] = h]]
  BY <1>1 DEF Cancel
<1> QED
  BY <1>2, <1>3, OneHoldMoves, HoldsAlone DEF Spent

(* One job goes on rightly, and no POST is added.                           *)
LEMMA OneJobOnce ==
    ASSUME TypeInv, TypeInv', OnceInv, LengthStays, HoldsMove, posts' \subseteq posts,
           \A d \in direct' : d \in direct \/ (/\ IsRemainder(d.c, d.card, d.collected)
                                               /\ d.cents = Due(d.c) - d.collected),
           NEW j \in Jobs, NEW r, job' = [job EXCEPT ![j] = r], SettlementOK(r)'
    PROVE  OnceInv'
<1>1. \A i \in Jobs : job'[i] = IF i = j THEN r ELSE job[i]
  BY DEF TypeInv, TypeOK, BillingTypeOK
<1>2. \A i \in Jobs : \A x : x = job'[i] => x = job[i] \/ SettlementOK(x)'
  <2> SUFFICES ASSUME NEW i \in Jobs, NEW x, x = job'[i] PROVE x = job[i] \/ SettlementOK(x)'
    OBVIOUS
  <2>1. x = job[i] \/ x = r
    BY <1>1
  <2> QED
    BY <2>1
<1>3. NewOnes
  BY <1>2 DEF NewOnes
<1> QED
  BY <1>3, OnceKept

(* Jobs end or stay, and nothing is paid off-session or posted.             *)
LEMMA NoJobOnce ==
    ASSUME TypeInv, TypeInv', OnceInv, LengthStays, HoldsMove, posts' \subseteq posts,
           UNCHANGED direct, \A j \in Jobs : job'[j] = job[j] \/ job'[j] = IdleJob
    PROVE  OnceInv'
<1>1. \A r : r = IdleJob => SettlementOK(r)'
  BY IdleJobType DEF SettlementOK
<1>2. \A i \in Jobs : \A x : x = job'[i] => x = job[i] \/ SettlementOK(x)'
  BY <1>1
<1>3. NewOnes
  BY <1>2 DEF NewOnes
<1> QED
  BY <1>3, OnceKept

(* A capture takes what is due, once, and counts what was taken before.     *)
LEMMA CaptureOnce ==
    ASSUME TypeInv, TypeInv', OnceInv, LengthStays, OneCardOnly, "stripe" \notin FaultKinds,
           NEW j \in Jobs, CaptureHold(j)
    PROVE  OnceInv'
<1>1. PICK c \in Consultations, pi \in Cards, s \in Nat :
        /\ c = job[j].c /\ pi = job[j].pi /\ s = job[j].seconds
        /\ s = row[c].seconds /\ s > 0 /\ Authorised(c, pi)
  <2>1. SettlementOK(job[j]) /\ job[j].op = "capture" /\ job[j].seconds \in Nat
    BY DEF OnceInv, SettlementsAgree, CaptureHold, TypeInv, TypeOK, BillingTypeOK, Job
  <2> QED
    BY <2>1 DEF SettlementOK
<1>2. PICK m : m = SmallerOf(ChargeCents(s), HoldCents)
  OBVIOUS
<1>3. pi # NoCard
  BY CardsAssumption
<1>4. PICK k, n : /\ Goes(j, [job[j] EXCEPT !.op = "charge", !.card = k, !.collected = n])
                  /\ \/ /\ hold[c][pi].status = "requires_capture" /\ n = m
                        /\ hold' = [hold EXCEPT ![c][pi] = [status |-> "succeeded", received |-> m]]
                     \/ /\ hold[c][pi].status # "requires_capture"
                        /\ n = Received(hold[c][pi]) /\ UNCHANGED hold
  BY <1>1, <1>2, <1>3 DEF CaptureHold, Fault
<1>5. PICK r : r = [job[j] EXCEPT !.op = "charge", !.card = k, !.collected = n]
  OBVIOUS
<1>6. /\ r.op = "charge" /\ r.c = c /\ r.card = k /\ r.collected = n /\ r.seconds = s
      /\ job' = [job EXCEPT ![j] = r]
  <2>1. PICK o : o = job[j] /\ o \in Job
    BY DEF TypeInv, TypeOK, BillingTypeOK
  <2>2. r = [o EXCEPT !.op = "charge", !.card = k, !.collected = n] /\ o.c = c /\ o.seconds = s
    BY <1>1, <1>5, <2>1
  <2>3. r.op = "charge" /\ r.c = c /\ r.card = k /\ r.collected = n /\ r.seconds = s
    BY <2>1, <2>2 DEF Job
  <2> QED
    BY <1>4, <1>5, <2>3 DEF Goes
<1>7. k = pi
  <2>1. job'[j] = r
    BY <1>6 DEF TypeInv, TypeOK, BillingTypeOK
  <2>2. k \in Cards
    BY <1>6, <2>1 DEF TypeInv, Addressed
  <2> QED
    BY <2>2 DEF OneCardOnly
<1>8. /\ hold \in [Consultations -> [Cards -> Hold]]
      /\ UNCHANGED <<row, posts, direct>> /\ row'[c].seconds = s
  BY <1>1 DEF TypeInv, TypeOK, BillingTypeOK, CaptureHold
<1>9. HoldsMove /\ IsRemainder(c, pi, n)'
  <2>1. CASE hold[c][pi].status = "requires_capture"
    <3>1. \A d \in Consultations, x \in Cards :
             hold'[d][x] = IF d = c /\ x = pi THEN [status |-> "succeeded", received |-> m]
                                              ELSE hold[d][x]
      BY <1>4, <1>8, <2>1
    <3>2. Due(c) = ChargeCents(s)
      BY <1>1 DEF Due
    <3>3. Taken(c, pi)
      BY <1>1, <1>2, <2>1, <3>1, <3>2 DEF Taken
    <3>4. IsRemainder(c, pi, n)'
      BY <1>1, <1>4, <1>8, <2>1, <3>1 DEF IsRemainder, Spent
    <3> QED
      BY <3>1, <3>3, <3>4 DEF HoldsMove
  <2>2. CASE hold[c][pi].status # "requires_capture"
    <3>1. n = Received(hold[c][pi]) /\ UNCHANGED hold
      BY <1>4, <2>2
    <3>2. Spent(c, pi)
      BY <1>1, <1>8, <2>2 DEF Authorised, Spent, Hold
    <3>3. n = hold[c][pi].received
      BY <1>1, <3>1, <3>2 DEF Received, Spent, OnceInv, CapturedOnce
    <3> QED
      BY <1>1, <1>8, <3>1, <3>2, <3>3, HoldsAlone DEF IsRemainder, Spent
  <2> QED
    BY <2>1, <2>2
<1>10. SettlementOK(r)'
  BY <1>1, <1>6, <1>7, <1>8, <1>9 DEF SettlementOK
<1> QED
  BY <1>6, <1>8, <1>9, <1>10, OneJobOnce

(* The remainder is charged under the one key there is for it.              *)
LEMMA ChargeOnce ==
    ASSUME TypeInv, TypeInv', OnceInv, LengthStays, NEW j \in Jobs, ChargeRemainder(j)
    PROVE  OnceInv'
<1>1. PICK o : o = job[j]
  OBVIOUS
<1>2. /\ o.c \in Consultations /\ IsRemainder(o.c, o.card, o.collected)
      /\ o.seconds = row[o.c].seconds /\ o \in Job
  BY <1>1
  DEF OnceInv, SettlementsAgree, SettlementOK, ChargeRemainder, TypeInv, TypeOK, BillingTypeOK
<1>3. PICK key : key = [c |-> o.c, card |-> o.card, collected |-> o.collected,
                        cents |-> Due(o.c) - o.collected]
  OBVIOUS
<1>4. IsRemainder(key.c, key.card, key.collected) /\ key.cents = Due(key.c) - key.collected
  BY <1>2, <1>3
<1>5. direct' \subseteq direct \cup {key}
  BY <1>1, <1>2, <1>3 DEF ChargeRemainder, Due
<1>6. PICK op \in {"record", "fail"} : \E n : job' = [job EXCEPT ![j] = [o EXCEPT !.op = op, !.collected = n]]
  BY <1>1 DEF ChargeRemainder, Goes
<1>7. PICK n : job' = [job EXCEPT ![j] = [o EXCEPT !.op = op, !.collected = n]]
  BY <1>6
<1>8. PICK r : r = [o EXCEPT !.op = op, !.collected = n]
  OBVIOUS
<1>9. job' = [job EXCEPT ![j] = r] /\ SettlementOK(r)'
  BY <1>2, <1>7, <1>8 DEF SettlementOK, Job
<1>10. HoldsMove /\ UNCHANGED posts
  BY HoldsAlone DEF ChargeRemainder
<1> QED
  BY <1>4, <1>5, <1>9, <1>10, OneJobOnce

(* A settlement that begins knows the length and an authorised hold.        *)
LEMMA SettlesOnce ==
    ASSUME IInv, AuthInv, TypeInv', OnceInv, LengthStays, NEW j \in Jobs, NEW c \in Consultations,
           NEW k, Settles(j, c, row[c].seconds, k), row[c].started,
           UNCHANGED <<row, hold, direct>>, posts' \subseteq posts
    PROVE  OnceInv'
<1>0. TypeInv /\ row[c] \in Row
  BY DEF IInv, TypeInv, TypeOK, TableTypeOK
<1>1. CASE Begins(j, IdleJob)
  <2>1. \A i \in Jobs : job'[i] = job[i] \/ job'[i] = IdleJob
    BY <1>0, <1>1 DEF Begins, TypeInv, TypeOK, BillingTypeOK
  <2> QED
    BY <1>0, <2>1, HoldsAlone, NoJobOnce
<1>2. CASE ~Begins(j, IdleJob)
  <2>1. PICK r : r = [IdleJob EXCEPT !.op = "capture", !.c = c, !.card = k,
                                     !.pi = row[c].pi, !.seconds = row[c].seconds]
    OBVIOUS
  <2>2. job' = [job EXCEPT ![j] = r] /\ ~(ChargeCents(row[c].seconds) <= 0)
    <3>1. PICK due : due = (AlreadyCharged(c) \/ ChargeCents(row[c].seconds) <= 0)
      OBVIOUS
    <3>2. Begins(j, IF due THEN IdleJob ELSE r)
      BY <2>1, <3>1 DEF Settles
    <3>3. ~due
      BY <1>2, <3>2
    <3> QED
      BY <3>1, <3>2, <3>3 DEF Begins
  <2>3. r.op = "capture" /\ r.c = c /\ r.pi = row[c].pi /\ r.seconds = row[c].seconds
    BY <2>1 DEF IdleJob
  <2>4. row[c].seconds > 0
    <3>1. row[c].seconds \in Nat
      BY <1>0, SecondsAssumption DEF Row
    <3> QED
      BY <2>2, <3>1 DEF ChargeCents, computeConsultationChargeCents
  <2>5. row[c].pi \in Cards /\ Authorised(c, row[c].pi)
    <3>1. row[c].joined = Parties /\ row[c].joined \subseteq tokens[c] /\ (tokens[c] # {} => row[c].pi # NoCard)
      BY DEF IInv, HoldBeforeCall
    <3>2. row[c].pi # NoCard
      BY <3>1 DEF Parties
    <3> QED
      BY <1>0, <3>2 DEF Row, AuthInv, HoldOnRecordIsAuthorised, Authorised
  <2>6. SettlementOK(r)
    BY <2>3, <2>4, <2>5 DEF SettlementOK
  <2>7. SettlementOK(r)'
    BY <2>6, SettlementStays, HoldsAlone
  <2> QED
    BY <1>0, <2>2, <2>7, HoldsAlone, OneJobOnce
<1> QED
  BY <1>1, <1>2

(* Every way into billing.                                                  *)
LEMMA StartsOnce ==
    ASSUME IInv, AuthInv, TypeInv', OnceInv, LengthStays,
           NEW j \in Jobs, NEW c \in Consultations, JobStart(j, c)
    PROVE  OnceInv'
<1>0. TypeInv /\ row[c] \in Row
  BY DEF IInv, TypeInv, TypeOK, TableTypeOK
<1>1. CASE captureConsultation(j, c)
  <2>1. PICK p \in posts : /\ p.kind = "capture" /\ p.c = c
                           /\ posts' = posts \ {p}
                           /\ Settles(j, c, p.seconds, NoCard)
    BY <1>1 DEF captureConsultation
  <2>2. p.seconds = row[c].seconds /\ row[c].started
    BY <2>1 DEF OnceInv, PostsAgree, PostSays, IInv, CapturesAreOfCalls
  <2>3. UNCHANGED <<row, hold, direct>>
    BY <1>1 DEF captureConsultation
  <2> QED
    BY <2>1, <2>2, <2>3, SettlesOnce
<1>2. CASE retryFailedCaptures(j, c)
  <2>1. row[c].started
    BY <1>2 DEF retryFailedCaptures, Uncaptured, IInv, HoldBeforeCall
  <2> QED
    BY <1>2, <2>1, SettlesOnce DEF retryFailedCaptures
<1>3. ASSUME NEW k \in Cards, payConsultation(j, c, k)
      PROVE  OnceInv'
  <2>1. row[c].started
    BY <1>3 DEF payConsultation, IInv, HoldBeforeCall
  <2> QED
    BY <1>3, <2>1, SettlesOnce DEF payConsultation
<1>4. ASSUME NEW r, job' = [job EXCEPT ![j] = r], r.op \in {"hold", "release", "idle"},
             HoldsMove, UNCHANGED direct, posts' \subseteq posts
      PROVE  OnceInv'
  <2>1. SettlementOK(r)'
    BY <1>4 DEF SettlementOK
  <2> QED
    BY <1>0, <1>4, <2>1, OneJobOnce
<1>5. ASSUME NEW k \in Cards, holdConsultationFunds(j, c, k)
      PROVE  OnceInv'
  <2>1. PICK r : r = [IdleJob EXCEPT !.op = "hold", !.c = c, !.card = k, !.pi = row[c].pi]
    OBVIOUS
  <2>2. r.op = "hold" /\ job' = [job EXCEPT ![j] = r]
    BY <1>5, <2>1 DEF IdleJob, holdConsultationFunds, Begins
  <2>3. HoldsMove
    BY <1>0, <1>5, AuthorizeMoves DEF holdConsultationFunds
  <2> QED
    BY <1>4, <1>5, <2>2, <2>3 DEF holdConsultationFunds
<1>6. ASSUME Releases(j, c), UNCHANGED direct, posts' \subseteq posts
      PROVE  OnceInv'
  <2>1. Releasable(c) => row[c].pi \in Cards
    BY <1>0 DEF Releasable, Row
  <2>2. HoldsMove
    <3>1. hold' = hold \/ (Releasable(c) /\ Cancel(c, row[c].pi))
      BY <1>6 DEF Releases
    <3> QED
      BY <1>0, <2>1, <3>1, CancelMoves, HoldsAlone
  <2>3. PICK r : r = [IdleJob EXCEPT !.op = "release", !.c = c]
    OBVIOUS
  <2>4. r.op = "release" /\ (Begins(j, IdleJob) \/ job' = [job EXCEPT ![j] = r])
    BY <1>6, <2>3 DEF Releases, Begins, IdleJob
  <2> QED
    BY <1>4, <1>6, <2>2, <2>4, IdleJobType DEF Begins
<1> QED
  BY <1>1, <1>2, <1>3, <1>5, <1>6 DEF JobStart, releaseConsultationHold, releaseStaleHolds

(* Every step of billing-service and of Stripe.                             *)
LEMMA BillingOnce ==
    ASSUME IInv, AuthInv, TypeInv', OnceInv, LengthStays, OneCardOnly, "stripe" \notin FaultKinds,
           BillingNext
    PROVE  OnceInv'
<1>0. TypeInv
  BY DEF IInv, TypeInv
<1>1. ASSUME NEW j \in Jobs, JobStep(j)
      PROVE  OnceInv'
  <2>1. CASE CaptureHold(j) \/ ChargeRemainder(j)
    BY <1>0, <2>1, CaptureOnce, ChargeOnce
  <2>2. CASE HoldPersists(j) \/ SettleRecords(j) \/ SettleFails(j) \/ ReleaseStamps(j)
    <3>1. Completes(j) /\ UNCHANGED <<posts, hold, direct>>
      BY <2>2 DEF HoldPersists, SettleRecords, SettleFails, ReleaseStamps
    <3>2. \A i \in Jobs : job'[i] = job[i] \/ job'[i] = IdleJob
      BY <1>0, <3>1 DEF Completes, TypeInv, TypeOK, BillingTypeOK
    <3> QED
      BY <1>0, <3>1, <3>2, HoldsAlone, NoJobOnce
  <2> QED
    BY <1>1, <2>1, <2>2 DEF JobStep
<1>2. ASSUME HoldsMove, UNCHANGED <<job, direct>>, posts' \subseteq posts
      PROVE  OnceInv'
  BY <1>0, <1>2, NoJobOnce
<1>3. ASSUME NEW c \in Consultations, NEW k \in Cards, HoldDeclined(c, k)
      PROVE  OnceInv'
  <2>1. PICK h : h = [hold[c][k] EXCEPT !.status = "declined"]
    OBVIOUS
  <2>2. h.status = "declined" /\ h.received = hold[c][k].received
    BY <1>0, <2>1 DEF TypeInv, TypeOK, BillingTypeOK, Hold
  <2>3. hold' = [hold EXCEPT ![c] = [hold[c] EXCEPT ![k] = h]] /\ hold[c][k].status = "none"
    BY <1>3, <2>1 DEF HoldDeclined
  <2>4. HoldsMove
    BY <1>0, <2>2, <2>3, OneHoldMoves DEF Spent, Authorised
  <2> QED
    BY <1>2, <1>3, <2>4 DEF HoldDeclined
<1>4. ASSUME NEW c \in Consultations, NEW k \in Cards,
             HoldLost(c, k) \/ HoldExpires(c, k) \/ VoidSuperseded(c, k)
      PROVE  OnceInv'
  <2>1. HoldsMove
    BY <1>0, <1>4, AuthorizeMoves, CancelMoves, HoldsAlone
    DEF HoldLost, HoldExpires, VoidSuperseded
  <2> QED
    BY <1>2, <1>4, <2>1 DEF HoldLost, HoldExpires, VoidSuperseded
<1>5. ASSUME NEW c \in Consultations, NEW k \in Cards,
             PaymentIntentCanceled(c, k) \/ PaymentIntentFailed(c, k)
      PROVE  OnceInv'
  BY <1>2, <1>5, HoldsAlone DEF PaymentIntentCanceled, PaymentIntentFailed
<1>6. CASE BillingRestarts
  <2>1. \A j \in Jobs : job'[j] = IdleJob
    BY <1>6 DEF BillingRestarts
  <2> QED
    BY <1>0, <1>6, <2>1, HoldsAlone, NoJobOnce DEF BillingRestarts
<1>7. ASSUME NEW p \in posts, PostLost(p) PROVE OnceInv'
  BY <1>2, <1>7, HoldsAlone DEF PostLost, billingOnly
<1>8. ASSUME NEW c \in Consultations, ExpireAbandoned(c) PROVE OnceInv'
  BY <1>2, <1>8, HoldsAlone DEF ExpireAbandoned, billingOnly
<1>9. ASSUME NEW j \in Jobs, NEW c \in Consultations, JobStart(j, c) PROVE OnceInv'
  BY <1>9, StartsOnce
<1> QED
  BY <1>1, <1>3, <1>4, <1>5, <1>6, <1>7, <1>8, <1>9 DEF BillingNext

(* A capture is asked for with the length that is written in the same step. *)
LEMMA CallsPostLengths ==
    ASSUME TypeInv, CallsNext
    PROVE  \A p \in posts' : p \in posts \/ PostSays(p)'
<1>1. ASSUME NEW c \in Consultations, NEW b, NEW s \in CallSeconds, WriteEnd(c, b, s), PostEnd(c, b, s)
      PROVE  \A p \in posts' : p \in posts \/ PostSays(p)'
  <2>1. row[c] \in Row /\ row \in [Consultations -> Row]
    BY DEF TypeInv, TypeOK, TableTypeOK
  <2>2. row'[c].seconds = IF b THEN s ELSE 0
    BY <1>1, <2>1 DEF WriteEnd, Row
  <2>3. PostSays(releasePost(c))'
    BY DEF PostSays, releasePost
  <2>4. b /\ s > 0 => PostSays(capturePost(c, s))'
    BY <2>2 DEF PostSays, capturePost
  <2>5. \A p \in posts' : p \in posts \/ p = IF b /\ s > 0 THEN capturePost(c, s) ELSE releasePost(c)
    BY <1>1 DEF PostEnd
  <2> SUFFICES ASSUME NEW p \in posts', p \notin posts PROVE PostSays(p)'
    OBVIOUS
  <2>6. CASE b /\ s > 0
    <3>1. p = [kind |-> "capture", c |-> c, seconds |-> s]
      BY <2>5, <2>6 DEF capturePost
    <3> QED
      BY <2>2, <2>6, <3>1 DEF PostSays
  <2>7. CASE ~(b /\ s > 0)
    <3>1. p = [kind |-> "release", c |-> c, seconds |-> 0]
      BY <2>5, <2>7 DEF releasePost
    <3> QED
      BY <3>1 DEF PostSays
  <2> QED
    BY <2>6, <2>7
<1>2. ASSUME NEW c, posts' = posts \cup {releasePost(c)}
      PROVE  \A p \in posts' : p \in posts \/ PostSays(p)'
  BY <1>2 DEF PostSays, releasePost
<1>3. ASSUME NEW w \in Requests, HandlerStep(w)
      PROVE  \A p \in posts' : p \in posts \/ PostSays(p)'
  <2>1. CASE CreateFailsGhost(w)
    BY <1>2, <2>1 DEF CreateFailsGhost
  <2>2. CASE EndUpdates(w) \/ RoomCloseUpdates(w)
    <3>1. req[w].c \in Consultations
      BY <2>2 DEF EndUpdates, RoomCloseUpdates, TypeInv, Addressed
    <3>2. posts' = posts \/ \E s \in CallSeconds : /\ WriteEnd(req[w].c, req[w].started, s)
                                                   /\ PostEnd(req[w].c, req[w].started, s)
      BY <2>2 DEF EndUpdates, RoomCloseUpdates
    <3>3. PICK b : b = req[w].started
      OBVIOUS
    <3> QED
      BY <1>1, <3>1, <3>2, <3>3
  <2>3. CASE posts' = posts
    BY <2>3
  <2> QED
    BY <1>3, <2>1, <2>2, <2>3
    DEF HandlerStep, createConsultation, CreateConflicts, CreateInserts, AcceptUpdates,
        LoginUpdates, LogoutArmsTimer, acceptConsultation, endConsultation, handleRoomClose,
        TimerFires, RoomCloseReads, handleUserLogin, handleUserLogout
<1>4. ASSUME NEW c \in Consultations, declineConsultation(c)
      PROVE  \A p \in posts' : p \in posts \/ PostSays(p)'
  BY <1>2, <1>4 DEF declineConsultation
<1>5. CASE posts' \subseteq posts
  BY <1>5
<1> QED
  BY <1>3, <1>4, <1>5
  DEF CallsNext, getVideoToken, ZegoJoin, ZegoLeave, ZegoLoses, EngagementRestarts

(* Every step keeps the invariant.                                          *)
LEMMA OnceStep ==
    ASSUME OneCardOnly, "stripe" \notin FaultKinds, IInv, IInv', AuthInv, OnceInv, [Next]_vars,
           LengthStays
    PROVE  OnceInv'
<1>0. TypeInv /\ TypeInv'
  BY DEF IInv, TypeInv
<1>1. CASE Engagement
  <2>1. CallsNext /\ UNCHANGED <<hold, direct, job>>
    BY <1>1 DEF Engagement, billingOnly
  <2>2. NewOnes
    BY <1>0, <2>1, CallsPostLengths DEF NewOnes
  <2> QED
    BY <1>0, <2>1, <2>2, HoldsAlone, OnceKept
<1>2. CASE Billing
  BY <1>0, <1>2, BillingOnce DEF Billing
<1>3. CASE UNCHANGED vars
  <2>1. UNCHANGED <<hold, direct, job, posts>>
    BY <1>3 DEF vars, billingOnly
  <2> QED
    BY <1>0, <2>1, HoldsAlone, NoJobOnce
<1> QED
  BY <1>1, <1>2, <1>3 DEF Next

(* What a hold received and the one remainder are together what is due.     *)
LEMMA OnceIsDue ==
    ASSUME OneCardOnly, TypeInv, OnceInv, NEW c \in Consultations
    PROVE  CollectedFromCustomer(c) <= ChargeCents(row[c].seconds)
<1>1. PICK k : Cards = {k}
  BY DEF OneCardOnly
<1>2. PICK due \in Nat, got \in Nat, h \in Nat :
        due = ChargeCents(row[c].seconds) /\ got = hold[c][k].received /\ h = HoldCents
  <2>1. row[c].seconds \in Nat
    BY SecondsAssumption DEF TypeInv, TypeOK, TableTypeOK, Row
  <2> QED
    BY <1>1, <2>1, ChargeCentsNat, HoldCentsNat DEF TypeInv, TypeOK, BillingTypeOK, Hold
<1>3. got <= due
  BY <1>1, <1>2 DEF OnceInv, CapturedOnce, SmallerOf, Due
<1>4. ReceivedFromHolds(c) = got
  <2>1. PICK f : f = [x \in Cards |-> hold[c][x].received]
    OBVIOUS
  <2>2. f[k] = got /\ \A x \in {k} : f[x] \in Int
    BY <1>1, <1>2, <2>1
  <2>3. SumFunctionOnSet(f, {k}) = got
    BY <1>2, <2>2, SumOfOne
  <2> QED
    BY <1>1, <2>1, <2>3 DEF ReceivedFromHolds
<1>5. PICK key : key = [c |-> c, card |-> k, collected |-> got, cents |-> due - got]
  OBVIOUS
<1>6. OffSessionOf(c) \subseteq {key}
  <2> SUFFICES ASSUME NEW d \in direct, d.c = c PROVE d = key
    BY DEF OffSessionOf
  <2>1. d \in ChargeKey /\ d.card = k
    BY <1>1 DEF TypeInv, TypeOK, BillingTypeOK, ChargeKey
  <2>2. d.collected = got /\ d.cents = due - d.collected
    BY <1>2, <2>1 DEF OnceInv, OneRemainder, IsRemainder, Due
  <2> QED
    BY <1>5, <2>1, <2>2 DEF ChargeKey
<1>7. ChargedOffSession(c) \in {0, due - got}
  <2>1. PICK S : S = OffSessionOf(c)
    OBVIOUS
  <2>2. PICK g : g = [d \in S |-> d.cents]
    OBVIOUS
  <2>3. ChargedOffSession(c) = SumFunctionOnSet(g, S)
    BY <2>1, <2>2 DEF ChargedOffSession
  <2>4. CASE S = {}
    BY <2>3, <2>4, FS_EmptySet, SumStep
  <2>5. CASE S = {key}
    <3>1. g[key] = due - got /\ g[key] \in Int
      BY <1>2, <1>5, <2>2, <2>5
    <3> QED
      BY <2>3, <2>5, <3>1, SumOfOne
  <2> QED
    BY <1>6, <2>1, <2>4, <2>5
<1> QED
  BY <1>2, <1>3, <1>4, <1>7 DEF CollectedFromCustomer

(* A call is charged once: with one card, no request that fails before Stripe *)
(* acts on it and a length nothing overwrites, Stripe takes no more than the  *)
(* price of the call, for any number of calls, lengths, settlements, lost     *)
(* answers, restarts and expired holds.                                       *)
THEOREM ChargedOnce ==
    ASSUME OneCardOnly, "stripe" \notin FaultKinds
    PROVE  Spec /\ [][LengthStays]_vars => []NeverDoubleCharged
<1>1. Init => OnceInv
  <2> SUFFICES ASSUME Init PROVE OnceInv
    OBVIOUS
  <2>1. CapturedOnce /\ OneRemainder
    BY DEF Init, BillingInit, CapturedOnce, OneRemainder
  <2>2. SettlementsAgree /\ PostsAgree
    BY IdleJobType DEF Init, BillingInit, TableInit, SettlementsAgree, SettlementOK, PostsAgree
  <2> QED
    BY <2>1, <2>2 DEF OnceInv
<1>2. Init => AuthInv
  BY IdleJobType
  DEF Init, TableInit, BillingInit, NoRow, AuthInv, HoldOnRecordIsAuthorised, HoldJobsAuthorised
<1>3. IInv /\ IInv' /\ AuthInv /\ [Next]_vars => AuthInv'
  BY AuthStep DEF IInv, TypeInv
<1>4. IInv /\ IInv' /\ AuthInv /\ OnceInv /\ [Next]_vars /\ [LengthStays]_vars => OnceInv'
  <2>1. UNCHANGED vars => LengthStays
    BY DEF vars, LengthStays
  <2> QED
    BY <2>1, OnceStep
<1>5. IInv /\ OnceInv => NeverDoubleCharged
  <2> SUFFICES ASSUME IInv, OnceInv, NEW c \in Consultations
               PROVE  \E s \in CallSeconds : CollectedFromCustomer(c) <= ChargeCents(s)
    BY DEF NeverDoubleCharged
  <2>1. TypeInv
    BY DEF IInv, TypeInv
  <2>2. row[c].seconds \in CallSeconds
    BY <2>1 DEF TypeInv, TypeOK, TableTypeOK, Row
  <2> QED
    BY <2>1, <2>2, OnceIsDue
<1> QED
  BY <1>1, <1>2, <1>3, <1>4, <1>5, Chain, PTL DEF Spec
=============================================================================
