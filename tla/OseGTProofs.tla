----------------------------- MODULE OseGTProofs -----------------------------
(***************************************************************************)
(* The sessions of the handler, for every number of workers, every request *)
(* and every disturbance: an open API session under each login, the exact  *)
(* number of API sessions that leak, and no order offered to a worker the  *)
(* exchange has not accepted.                                              *)
(***************************************************************************)
EXTENDS OseGT, TLAPS

\* The sessions by themselves.
SessInv ==
  /\ loggedIn \in [Sessions -> BOOLEAN]
  /\ handle \in [Sessions -> BOOLEAN]
  /\ leaked \in [Sessions -> Nat]
  /\ deaths \in [Sessions -> Nat]
  /\ LoggedInHasHandle
  /\ LeakPerDeath

\* A thread that is about to log in is logged out, so that no open session
\* that counts is overwritten; and a worker is ready only from the UI1 of its
\* present login to the next reconnect.
LoggedOutAt(pc) == pc \in {"none", "login", "backoff"}
UnreadyAt(pc) == pc \in {"none", "login", "setup", "logout", "backoff", "requery"}

WorkerPlace(w) ==
  /\ LoggedOutAt(wpc[w]) => ~loggedIn[w]
  /\ UnreadyAt(wpc[w]) => ~ready[w]
  /\ ready[w] => ui1[w] = "accepted"

ThreadPlaces ==
  /\ wpc \in [Workers -> PCs]
  /\ ready \in [Workers -> BOOLEAN]
  /\ ui1 \in [Workers -> {"none", "accepted", "refused"}]
  /\ \A w \in Workers : WorkerPlace(w)
  /\ bpc \in {"none", "backoff"} => ~loggedIn[BdxSession]

\* The inductive invariant.
IInv == SessInv /\ ThreadPlaces

-----------------------------------------------------------------------------
(* What the operations of a session do to it. *)

LEMMA LoginSucceedsKeeps ==
  ASSUME SessInv, NEW s \in Sessions, ~loggedIn[s], LoginSucceeds(s)
  PROVE  SessInv' /\ loggedIn' = [loggedIn EXCEPT ![s] = TRUE]
BY DEF SessInv, LoginSucceeds, Overwrite, LoggedInHasHandle, LeakPerDeath

LEMMA LoginFailsKeeps ==
  ASSUME SessInv, NEW s \in Sessions, ~loggedIn[s], LoginFails(s)
  PROVE  SessInv' /\ loggedIn' = loggedIn
BY DEF SessInv, LoginFails, Overwrite, LoggedInHasHandle, LeakPerDeath

LEMMA LogoutKeeps ==
  ASSUME SessInv, NEW s, Logout(s)
  PROVE  /\ SessInv'
         /\ \A t \in Sessions : loggedIn'[t] => loggedIn[t] /\ t # s
<1>1. CASE loggedIn[s] /\ handle[s]
  BY <1>1 DEF SessInv, Logout, LoggedInHasHandle, LeakPerDeath
<1>2. CASE ~(loggedIn[s] /\ handle[s])
  BY <1>2 DEF SessInv, Logout, sessVars, LoggedInHasHandle, LeakPerDeath
<1>3. QED BY <1>1, <1>2

LEMMA MarkDeadKeeps ==
  ASSUME SessInv, NEW s \in Sessions, MarkDead(s)
  PROVE  SessInv' /\ \A t \in Sessions : loggedIn'[t] => loggedIn[t]
BY DEF SessInv, MarkDead, LoggedInHasHandle, LeakPerDeath

LEMMA UnchangedKeeps ==
  ASSUME SessInv, UNCHANGED <<loggedIn, handle, leaked, deaths>>
  PROVE  SessInv'
BY DEF SessInv, LoggedInHasHandle, LeakPerDeath

LEMMA TxFailedKeeps ==
  ASSUME SessInv, NEW s \in Sessions, NEW status, TxFailed(s, status)
  PROVE  SessInv' /\ \A t \in Sessions : loggedIn'[t] => loggedIn[t]
<1>1. CASE status = "INTFAILURE"
  BY <1>1, MarkDeadKeeps DEF TxFailed
<1>2. CASE status # "INTFAILURE"
  BY <1>2, UnchangedKeeps DEF TxFailed, sessVars
<1>3. QED BY <1>1, <1>2

-----------------------------------------------------------------------------
(* Steps that leave all this alone, and steps that only lose sessions. *)

LEMMA FrameStep ==
  ASSUME IInv, UNCHANGED <<wpc, ready, ui1, bpc, sessVars>>
  PROVE  IInv'
BY UnchangedKeeps DEF IInv, ThreadPlaces, WorkerPlace, sessVars

\* A worker that moves without a login, and without touching ready and ui1.
LEMMA QuietMove ==
  ASSUME IInv, SessInv', NEW w, NEW pc \in PCs,
         \A t \in Sessions : loggedIn'[t] => loggedIn[t],
         wpc' = [wpc EXCEPT ![w] = pc],
         w \in Workers => (LoggedOutAt(pc) => ~loggedIn'[w]) /\ (UnreadyAt(pc) => ~ready[w]),
         UNCHANGED <<ready, ui1, bpc>>
  PROVE  IInv'
BY WorkersAssumption, BdxAssumption DEF IInv, ThreadPlaces, WorkerPlace, LoggedOutAt

\* A worker's step in general.
LEMMA WorkerMove ==
  ASSUME IInv, SessInv', NEW w \in Workers, NEW pc \in PCs,
         \A t \in Sessions : t # w /\ loggedIn'[t] => loggedIn[t],
         wpc' = [wpc EXCEPT ![w] = pc],
         ready' \in [Workers -> BOOLEAN],
         ui1' \in [Workers -> {"none", "accepted", "refused"}],
         \A v \in Workers : v # w => ready'[v] = ready[v] /\ ui1'[v] = ui1[v],
         LoggedOutAt(pc) => ~loggedIn'[w],
         UnreadyAt(pc) => ~ready'[w],
         ready'[w] => ui1'[w] = "accepted",
         bpc' = bpc
  PROVE  IInv'
BY WorkersAssumption, BdxAssumption, HandlerAssumption DEF IInv, ThreadPlaces, WorkerPlace, LoggedOutAt

-----------------------------------------------------------------------------
(* The workers. *)

LEMMA ReconnectFailsGoes ==
  ASSUME NEW w, ReconnectFails(w)
  PROVE  wpc' = [wpc EXCEPT ![w] = "loop"]
BY DEF ReconnectFails, Respond, Goto

LEMMA SessionDeadGoes ==
  ASSUME NEW w, SessionDead(w)
  PROVE  \/ wpc' = [wpc EXCEPT ![w] = "loop"] /\ ready' = ready
         \/ wpc' = [wpc EXCEPT ![w] = "logout"] /\ ready' = [ready EXCEPT ![w] = FALSE]
BY DEF SessionDead, BeginReconnect, Respond, Goto

\* A call that finds the session dead, of a new order or of its repetition.
LEMMA CallFails ==
  ASSUME IInv, NEW w \in Workers, wpc[w] \in {"transmit", "wait"},
         TxFailed(w, DeadStatus(w)), SessionDead(w), UNCHANGED <<ui1, bpc>>
  PROVE  IInv'
<1>1. SessInv' /\ \A t \in Sessions : loggedIn'[t] => loggedIn[t]
  BY TxFailedKeeps, WorkersAssumption DEF IInv
<1>2. CASE wpc' = [wpc EXCEPT ![w] = "loop"] /\ ready' = ready
  BY <1>1, <1>2, QuietMove DEF PCs, LoggedOutAt, UnreadyAt
<1>3. CASE wpc' = [wpc EXCEPT ![w] = "logout"] /\ ready' = [ready EXCEPT ![w] = FALSE]
  <2>1. /\ ready' \in [Workers -> BOOLEAN]
        /\ ui1' \in [Workers -> {"none", "accepted", "refused"}]
        /\ \A v \in Workers : v # w => ready'[v] = ready[v] /\ ui1'[v] = ui1[v]
        /\ ~ready'[w]
    BY <1>3 DEF IInv, ThreadPlaces
  <2>2. QED BY <1>1, <1>3, <2>1, WorkerMove DEF PCs, LoggedOutAt
<1>4. QED BY <1>2, <1>3, SessionDeadGoes

LEMMA ReadyToTradeFailsKeeps ==
  ASSUME IInv, NEW w \in Workers, UnreadyAt(wpc[w]), ReadyToTradeFails(w),
         wpc' = [wpc EXCEPT ![w] = "loop"], bpc' = bpc
  PROVE  IInv'
<1>1. ready' = ready /\ ~ready[w]
  BY DEF ReadyToTradeFails, IInv, ThreadPlaces, WorkerPlace
<1>2. /\ ui1' \in [Workers -> {"none", "accepted", "refused"}]
      /\ \A v \in Workers : v # w => ui1'[v] = ui1[v]
  BY DEF ReadyToTradeFails, IInv, ThreadPlaces
<1>3. SessInv' /\ \A t \in Sessions : loggedIn'[t] => loggedIn[t]
  <2>1. CASE UNCHANGED sessVars
    BY <2>1, UnchangedKeeps DEF sessVars, IInv
  <2>2. CASE TxFailed(w, DeadStatus(w))
    BY <2>2, TxFailedKeeps, WorkersAssumption DEF IInv
  <2>3. QED BY <2>1, <2>2 DEF ReadyToTradeFails
<1>4. ready' \in [Workers -> BOOLEAN]
  BY <1>1 DEF IInv, ThreadPlaces
<1>5. QED BY <1>1, <1>2, <1>3, <1>4, WorkerMove DEF PCs, LoggedOutAt, UnreadyAt

LEMMA ReadyToTradeAcceptedKeeps ==
  ASSUME IInv, NEW w \in Workers, ReadyToTradeAccepted(w), NEW pc \in {"loop", "transmit"},
         wpc' = [wpc EXCEPT ![w] = pc], bpc' = bpc
  PROVE  IInv'
<1>1. SessInv' /\ \A t \in Sessions : loggedIn'[t] => loggedIn[t]
  BY UnchangedKeeps DEF ReadyToTradeAccepted, sessVars, IInv
<1>2. /\ ready' \in [Workers -> BOOLEAN]
      /\ ui1' \in [Workers -> {"none", "accepted", "refused"}]
      /\ \A v \in Workers : v # w => ready'[v] = ready[v] /\ ui1'[v] = ui1[v]
      /\ ui1'[w] = "accepted"
  BY DEF ReadyToTradeAccepted, IInv, ThreadPlaces
<1>3. pc \in PCs /\ ~LoggedOutAt(pc) /\ ~UnreadyAt(pc)
  BY DEF PCs, LoggedOutAt, UnreadyAt
<1>4. QED BY <1>1, <1>2, <1>3, WorkerMove

\* A worker that logs in, with its UI1 yet to come.
LEMMA WorkerLogsIn ==
  ASSUME IInv, NEW w \in Workers, wpc[w] \in {"login", "backoff"}, LoginSucceeds(w),
         NEW pc \in {"setup", "requery"}, wpc' = [wpc EXCEPT ![w] = pc],
         ui1' = [ui1 EXCEPT ![w] = "none"], UNCHANGED <<ready, bpc>>
  PROVE  IInv'
<1>1. ~loggedIn[w] /\ ~ready[w]
  BY DEF IInv, ThreadPlaces, WorkerPlace, LoggedOutAt, UnreadyAt
<1>2. SessInv' /\ loggedIn' = [loggedIn EXCEPT ![w] = TRUE]
  BY <1>1, LoginSucceedsKeeps, WorkersAssumption DEF IInv
<1>3. \A t \in Sessions : t # w /\ loggedIn'[t] => loggedIn[t]
  BY <1>2 DEF IInv, SessInv
<1>4. /\ ready' \in [Workers -> BOOLEAN]
      /\ ui1' \in [Workers -> {"none", "accepted", "refused"}]
      /\ \A v \in Workers : v # w => ready'[v] = ready[v] /\ ui1'[v] = ui1[v]
      /\ ~ready'[w]
  BY <1>1 DEF IInv, ThreadPlaces
<1>5. pc \in PCs /\ ~LoggedOutAt(pc)
  BY DEF PCs, LoggedOutAt
<1>6. QED BY <1>2, <1>3, <1>4, <1>5, WorkerMove

LEMMA WorkerLoginFails ==
  ASSUME IInv, NEW w \in Workers, wpc[w] \in {"login", "backoff"}, LoginFails(w),
         NEW pc \in {"ended", "loop"}, wpc' = [wpc EXCEPT ![w] = pc],
         UNCHANGED <<ready, ui1, bpc>>
  PROVE  IInv'
<1>1. ~loggedIn[w]
  BY DEF IInv, ThreadPlaces, WorkerPlace, LoggedOutAt
<1>2. SessInv' /\ \A t \in Sessions : loggedIn'[t] => loggedIn[t]
  BY <1>1, LoginFailsKeeps, WorkersAssumption DEF IInv
<1>3. pc \in PCs /\ ~LoggedOutAt(pc) /\ ~UnreadyAt(pc)
  BY DEF PCs, LoggedOutAt, UnreadyAt
<1>4. QED BY <1>2, <1>3, QuietMove

\* A move that leaves the sessions and the readiness alone.
LEMMA PlainMove ==
  ASSUME IInv, NEW w, NEW pc \in PCs, ~LoggedOutAt(pc), ~UnreadyAt(pc),
         wpc' = [wpc EXCEPT ![w] = pc], UNCHANGED <<ready, ui1, bpc, sessVars>>
  PROVE  IInv'
<1>1. SessInv' /\ \A t \in Sessions : loggedIn'[t] => loggedIn[t]
  BY UnchangedKeeps DEF sessVars, IInv
<1>2. QED BY <1>1, QuietMove

LEMMA WorkerKeeps ==
  ASSUME IInv, NEW w \in Workers, WorkerStep(w), bpc' = bpc
  PROVE  IInv'
<1> DEFINE quiet == UNCHANGED <<ready, ui1, sessVars>>
<1>1. CASE SetupLogin(w)
  <2>1. CASE LoginSucceeds(w) /\ Goto(w, "setup") /\ ui1' = [ui1 EXCEPT ![w] = "none"]
    BY <1>1, <2>1, WorkerLogsIn DEF SetupLogin, Goto
  <2>2. CASE LoginFails(w) /\ Goto(w, "ended") /\ UNCHANGED ui1
    BY <1>1, <2>2, WorkerLoginFails DEF SetupLogin, Goto
  <2>3. QED BY <1>1, <2>1, <2>2 DEF SetupLogin
<1>2. CASE SetupFinish(w)
  <2>1. UnreadyAt(wpc[w]) /\ wpc' = [wpc EXCEPT ![w] = "loop"]
    BY <1>2 DEF SetupFinish, Goto, UnreadyAt
  <2>2. QED BY <1>2, <2>1, ReadyToTradeFailsKeeps, ReadyToTradeAcceptedKeeps DEF SetupFinish
<1>3. CASE LeaveLoop(w)
  BY <1>3, PlainMove DEF LeaveLoop, Goto, ghostVars, PCs, LoggedOutAt, UnreadyAt
<1>4. CASE TakeOrder(w)
  <2>1. /\ \/ wpc' = [wpc EXCEPT ![w] = "transmit"]
           \/ wpc' = [wpc EXCEPT ![w] = "loop"]
        /\ quiet
    BY <1>4 DEF TakeOrder, Respond, Goto
  <2>2. QED BY <2>1, PlainMove DEF PCs, LoggedOutAt, UnreadyAt
<1>5. CASE NoticeLoss(w)
  <2>1. SessInv' /\ \A t \in Sessions : loggedIn'[t] => loggedIn[t]
    BY <1>5, UnchangedKeeps DEF NoticeLoss, sessVars, IInv
  <2>2. wpc' = [wpc EXCEPT ![w] = "logout"] /\ ready' = [ready EXCEPT ![w] = FALSE] /\ ui1' = ui1
    BY <1>5 DEF NoticeLoss, BeginReconnect, Goto, ghostVars
  <2>3. /\ ready' \in [Workers -> BOOLEAN]
        /\ ui1' \in [Workers -> {"none", "accepted", "refused"}]
        /\ \A v \in Workers : v # w => ready'[v] = ready[v] /\ ui1'[v] = ui1[v]
        /\ ~ready'[w]
    BY <2>2 DEF IInv, ThreadPlaces
  <2>4. QED BY <2>1, <2>2, <2>3, WorkerMove DEF PCs, LoggedOutAt
<1>6. CASE Keepalive(w)
  <2>1. SessInv' /\ \A t \in Sessions : loggedIn'[t] => loggedIn[t]
    BY <1>6, MarkDeadKeeps, WorkersAssumption DEF Keepalive, IInv
  <2>2. UNCHANGED <<wpc, ready, ui1>>
    BY <1>6 DEF Keepalive, workerVars, threadVars, ghostVars
  <2>3. QED BY <2>1, <2>2, WorkersAssumption, BdxAssumption DEF IInv, ThreadPlaces, WorkerPlace
<1>7. CASE Transmit(w)
  BY <1>7, PlainMove DEF Transmit, Goto, PCs, LoggedOutAt, UnreadyAt
<1>8. CASE TransmitFails(w)
  BY <1>8, CallFails DEF TransmitFails
<1>9. CASE Complete(w)
  <2>1. wpc' = [wpc EXCEPT ![w] = "loop"] /\ quiet
    BY <1>9 DEF Complete, Respond, Goto
  <2>2. QED BY <2>1, PlainMove DEF PCs, LoggedOutAt, UnreadyAt
<1>10. CASE LoseAnswer(w)
  BY <1>10, CallFails DEF LoseAnswer
<1>16. CASE AnswerTimesOut(w)
  <2>1. wpc' = [wpc EXCEPT ![w] = "loop"] /\ quiet
    BY <1>16 DEF AnswerTimesOut, Respond, Goto
  <2>2. QED BY <2>1, PlainMove DEF PCs, LoggedOutAt, UnreadyAt
<1>11. CASE ReconnectLogout(w)
  <2>1. SessInv' /\ \A t \in Sessions : loggedIn'[t] => loggedIn[t] /\ t # w
    BY <1>11, LogoutKeeps DEF ReconnectLogout, IInv
  <2>2. wpc' = [wpc EXCEPT ![w] = "backoff"] /\ ready' = ready /\ ui1' = ui1
    BY <1>11 DEF ReconnectLogout, Goto, ghostVars
  <2>3. ~ready[w] /\ ~loggedIn'[w]
    BY <1>11, <2>1, WorkersAssumption
       DEF ReconnectLogout, IInv, SessInv, ThreadPlaces, WorkerPlace, UnreadyAt
  <2>4. QED BY <2>1, <2>2, <2>3, QuietMove DEF PCs
<1>12. CASE BackoffStopped(w)
  <2>1. wpc' = [wpc EXCEPT ![w] = "loop"] /\ quiet
    BY <1>12, ReconnectFailsGoes DEF BackoffStopped
  <2>2. QED BY <2>1, PlainMove DEF PCs, LoggedOutAt, UnreadyAt
<1>13. CASE Relogin(w)
  <2>1. CASE LoginSucceeds(w) /\ Goto(w, "requery") /\ ui1' = [ui1 EXCEPT ![w] = "none"]
    BY <1>13, <2>1, WorkerLogsIn DEF Relogin, Goto
  <2>2. CASE LoginFails(w) /\ ReconnectFails(w) /\ UNCHANGED ui1
    BY <1>13, <2>2, WorkerLoginFails, ReconnectFailsGoes DEF Relogin
  <2>3. QED BY <1>13, <2>1, <2>2 DEF Relogin
<1>14. CASE ReconnectFinish(w)
  <2>1. UnreadyAt(wpc[w])
    BY <1>14 DEF ReconnectFinish, UnreadyAt
  <2>2. CASE ReadyToTradeAccepted(w) /\ Goto(w, IF cur[w] = NoOrder THEN "loop" ELSE "transmit")
    BY <2>2, ReadyToTradeAcceptedKeeps DEF Goto
  <2>3. CASE ReadyToTradeFails(w) /\ ReconnectFails(w)
    BY <2>1, <2>3, ReadyToTradeFailsKeeps, ReconnectFailsGoes
  <2>4. QED BY <1>14, <2>2, <2>3 DEF ReconnectFinish
<1>15. QED
  BY <1>1, <1>2, <1>3, <1>4, <1>5, <1>6, <1>7, <1>8, <1>9, <1>10, <1>11, <1>12, <1>13, <1>14,
     <1>16 DEF WorkerStep

-----------------------------------------------------------------------------
(* The BDX thread. *)

\* A step of the BDX thread in general.
LEMMA BdxMove ==
  ASSUME IInv, SessInv', UNCHANGED <<wpc, ready, ui1>>,
         \A t \in Sessions : t # BdxSession /\ loggedIn'[t] => loggedIn[t],
         bpc' \in {"none", "backoff"} => ~loggedIn'[BdxSession]
  PROVE  IInv'
BY WorkersAssumption, HandlerAssumption DEF IInv, ThreadPlaces, WorkerPlace

\* A login of the BDX thread, from a place where it is logged out.
LEMMA BdxLogsIn ==
  ASSUME IInv, bpc \in {"none", "backoff"}, UNCHANGED <<wpc, ready, ui1>>,
         \/ LoginSucceeds(BdxSession) /\ bpc' = "run"
         \/ LoginFails(BdxSession)
  PROVE  IInv'
<1>1. SessInv /\ ~loggedIn[BdxSession] /\ BdxSession \in Sessions
  BY BdxAssumption DEF IInv, ThreadPlaces
<1>2. CASE LoginSucceeds(BdxSession) /\ bpc' = "run"
  <2>1. SessInv' /\ loggedIn' = [loggedIn EXCEPT ![BdxSession] = TRUE]
    BY <1>1, <1>2, LoginSucceedsKeeps
  <2>2. \A t \in Sessions : t # BdxSession /\ loggedIn'[t] => loggedIn[t]
    BY <1>1, <2>1 DEF SessInv
  <2>3. QED BY <1>2, <2>1, <2>2, BdxMove
<1>3. CASE LoginFails(BdxSession)
  <2>1. SessInv' /\ loggedIn' = loggedIn
    BY <1>1, <1>3, LoginFailsKeeps
  <2>2. QED BY <1>1, <2>1, BdxMove
<1>4. QED BY <1>2, <1>3

LEMMA BdxKeeps ==
  ASSUME IInv, BdxStep, UNCHANGED workerVars
  PROVE  IInv'
<1>0. UNCHANGED <<wpc, ready, ui1>> /\ SessInv /\ BdxSession \in Sessions
  BY BdxAssumption DEF workerVars, threadVars, ghostVars, IInv
<1>1. CASE BdxRead \/ BdxOverflow \/ BdxParse \/ BdxParseAgain
  BY <1>0, <1>1, FrameStep DEF BdxRead, BdxOverflow, BdxParse, BdxParseAgain
<1>2. CASE BdxForcedLogout
  <2>1. UNCHANGED <<bpc, loggedIn, handle, leaked, deaths>>
    BY <1>2 DEF BdxForcedLogout, LinkLost
  <2>2. QED BY <1>0, <2>1, UnchangedKeeps, BdxMove DEF IInv, ThreadPlaces
<1>3. CASE BdxSessionLost
  <2>1. SessInv' /\ \A t \in Sessions : loggedIn'[t] => loggedIn[t]
    BY <1>0, <1>3, MarkDeadKeeps DEF BdxSessionLost
  <2>2. bpc' = "logout"
    BY <1>3 DEF BdxSessionLost
  <2>3. QED BY <1>0, <2>1, <2>2, BdxMove
<1>4. CASE BdxReconnectLogout
  <2>1. SessInv' /\ \A t \in Sessions : loggedIn'[t] => loggedIn[t] /\ t # BdxSession
    BY <1>0, <1>4, LogoutKeeps DEF BdxReconnectLogout
  <2>2. QED BY <1>0, <2>1, BdxMove
<1>5. CASE BdxRelogin
  <2>1. CASE UNCHANGED sessVars
    <3>1. SessInv' /\ loggedIn' = loggedIn
      BY <1>0, <2>1, UnchangedKeeps DEF sessVars
    <3>2. bpc' = "run"
      BY <1>5 DEF BdxRelogin
    <3>3. QED BY <1>0, <3>1, <3>2, BdxMove
  <2>2. CASE ~UNCHANGED sessVars
    BY <1>0, <1>5, <2>2, BdxLogsIn DEF BdxRelogin
  <2>3. QED BY <2>1, <2>2
<1>6. CASE BdxLeave
  <2>1. SessInv' /\ loggedIn' = loggedIn /\ bpc' = "ended"
    BY <1>0, <1>6, UnchangedKeeps DEF BdxLeave, sessVars
  <2>2. QED BY <1>0, <2>1, BdxMove
<1>7. QED
  BY <1>1, <1>2, <1>3, <1>4, <1>5, <1>6 DEF BdxStep

-----------------------------------------------------------------------------
(* The handler's thread. *)

LEMMA HandlerKeeps ==
  ASSUME IInv, Handler
  PROVE  IInv'
<1>1. CASE CopySeries
  BY <1>1, FrameStep DEF CopySeries, bdxVars, ghostVars
<1>2. CASE StartWorker
  <2>1. /\ wpc[at] = "none" /\ wpc' = [wpc EXCEPT ![at] = "login"]
        /\ UNCHANGED <<ready, ui1, bpc, sessVars>>
    BY <1>2 DEF StartWorker, Start, Goto, ghostVars, bdxVars
  <2>2. SessInv' /\ loggedIn' = loggedIn
    BY <2>1, UnchangedKeeps DEF sessVars, IInv
  <2>3. at \in Workers => ~loggedIn'[at] /\ ~ready[at]
    BY <2>1, <2>2 DEF IInv, ThreadPlaces, WorkerPlace, LoggedOutAt, UnreadyAt
  <2>4. "login" \in PCs
    BY DEF PCs
  <2>5. QED BY <2>1, <2>2, <2>3, <2>4, QuietMove
<1>3. CASE StartWaited
  BY <1>3, FrameStep DEF StartWaited, workerVars, threadVars, ghostVars, bdxVars
<1>4. CASE StartBdx
  <2>1. UNCHANGED <<wpc, ready, ui1>>
    BY <1>4 DEF StartBdx, workerVars, threadVars, ghostVars
  <2>2. QED BY <1>4, <2>1, BdxLogsIn DEF StartBdx, BdxStart
<1>5. CASE SendCheck \/ SendTry \/ SendEnqueue
  BY <1>5, FrameStep
     DEF SendCheck, SendTry, SendEnqueue, SendUnchanged, threadVars, ghostVars, bdxVars
<1>6. CASE PollBegin \/ PollWorker \/ PollBdx
  BY <1>6, FrameStep
     DEF PollBegin, PollWorker, PollBdx, PollUnchanged, threadVars, ghostVars, bdxVars
<1>7. CASE StopWorker
  BY <1>7, FrameStep DEF StopWorker, RequestStop, ghostVars, bdxVars
<1>8. CASE JoinWorker
  <2>1. SessInv' /\ \A t \in Sessions : loggedIn'[t] => loggedIn[t]
    BY <1>8, LogoutKeeps DEF JoinWorker, Join, IInv
  <2>2. /\ wpc' = [wpc EXCEPT ![at] = "joined"]
        /\ UNCHANGED <<ready, ui1, bpc>>
    BY <1>8 DEF JoinWorker, Join, Goto, ghostVars, bdxVars
  <2>3. "joined" \in PCs /\ ~LoggedOutAt("joined") /\ ~UnreadyAt("joined")
    BY DEF PCs, LoggedOutAt, UnreadyAt
  <2>4. QED BY <2>1, <2>2, <2>3, QuietMove
<1>9. CASE StopBdx
  BY <1>9, FrameStep DEF StopBdx, BdxRequestStop, workerVars, threadVars, ghostVars
<1>10. CASE JoinBdx
  <2>1. SessInv' /\ \A t \in Sessions : loggedIn'[t] => loggedIn[t]
    BY <1>10, LogoutKeeps DEF JoinBdx, BdxJoin, IInv
  <2>2. bpc' = "joined" /\ UNCHANGED <<wpc, ready, ui1>>
    BY <1>10 DEF JoinBdx, BdxJoin, workerVars, threadVars, ghostVars
  <2>3. QED BY <2>1, <2>2, BdxMove
<1>11. QED
  BY <1>1, <1>2, <1>3, <1>4, <1>5, <1>6, <1>7, <1>8, <1>9, <1>10 DEF Handler

-----------------------------------------------------------------------------
(* The invariant, and what follows from it. *)

LEMMA InitHolds == Init => IInv
<1> SUFFICES ASSUME Init PROVE IInv
  OBVIOUS
<1>1. SessInv
  BY DEF Init, SessInit, SessInv, LoggedInHasHandle, LeakPerDeath
<1>2. /\ wpc \in [Workers -> PCs]
      /\ ready \in [Workers -> BOOLEAN]
      /\ ui1 \in [Workers -> {"none", "accepted", "refused"}]
  BY DEF Init, WorkerInit, PCs
<1>3. \A w \in Workers : ~loggedIn[w] /\ ~ready[w]
  BY WorkersAssumption DEF Init, SessInit, WorkerInit
<1>4. ~loggedIn[BdxSession]
  BY BdxAssumption DEF Init, SessInit
<1>5. QED BY <1>1, <1>2, <1>3, <1>4 DEF IInv, ThreadPlaces, WorkerPlace

LEMMA NextKeeps == IInv /\ [Next]_vars => IInv'
<1> SUFFICES ASSUME IInv, [Next]_vars PROVE IInv'
  OBVIOUS
<1>1. CASE Handler
  BY <1>1, HandlerKeeps
<1>2. CASE Client
  BY <1>2, FrameStep DEF Client, SendBegin, SendUnchanged, threadVars, ghostVars, bdxVars
<1>3. CASE StopBegin
  BY <1>3, FrameStep DEF StopBegin, workerVars, threadVars, ghostVars, bdxVars
<1>4. CASE \E w \in Workers : Worker(w)
  BY <1>4, WorkerKeeps DEF Worker, bdxVars
<1>5. CASE Bdx
  BY <1>5, BdxKeeps DEF Bdx
<1>6. CASE Trading
  BY <1>6, FrameStep DEF Trading, workerVars, threadVars, ghostVars, bdxVars
<1>7. CASE \E s \in Disturbed : Disturb(s)
  <2>1. UNCHANGED <<wpc, ready, ui1, bpc, loggedIn, handle, leaked, deaths>>
    BY <1>7 DEF Disturb, LinkLost, PasswordExpires, workerVars, threadVars, ghostVars, bdxVars
  <2>2. QED BY <2>1, UnchangedKeeps, BdxMove DEF IInv, ThreadPlaces
<1>8. CASE UNCHANGED vars
  BY <1>8, FrameStep DEF vars, workerVars, threadVars, ghostVars, bdxVars
<1>9. QED
  BY <1>1, <1>2, <1>3, <1>4, <1>5, <1>6, <1>7, <1>8 DEF Next

LEMMA Invariance == Spec => []IInv
BY InitHolds, NextKeeps, PTL DEF Spec

\* Whatever the gateway, the exchange and the client do, and however many
\* workers there are: no thread counts a session as logged in whose API
\* session it has closed or never had.
THEOREM SessionsHaveHandles == Spec => []LoggedInHasHandle
<1>1. IInv => LoggedInHasHandle
  BY DEF IInv, SessInv
<1>2. QED BY <1>1, Invariance, PTL

\* The API sessions that Login() overwrites are those of the sessions that
\* were found dead, one for each death and no other: a reconnect whose session
\* is still alive, a failed login and a stop leak none.
THEOREM DeathsLeakSessions == Spec => []LeakPerDeath
<1>1. IInv => LeakPerDeath
  BY DEF IInv, SessInv
<1>2. QED BY <1>1, Invariance, PTL

\* What Send() reads of a worker, _loggedIn and _readyToTrade, is true
\* together only when the exchange accepted the UI1 of the present login:
\* a flag left over from the login before is never combined with the new one.
THEOREM ReadyIsAccepted == Spec => []ReadyMeansAccepted
<1>1. IInv => ReadyMeansAccepted
  BY DEF IInv, ThreadPlaces, WorkerPlace, ReadyMeansAccepted, IsReady
<1>2. QED BY <1>1, Invariance, PTL

-----------------------------------------------------------------------------
(* The links of the sessions: what a worker that is back in its loop has   *)
(* to do before it takes orders again.                                     *)

TakesOrdersAt(pc) == pc \in {"loop", "transmit", "wait"}

\* A worker that carries out orders with a working session is ready, or the
\* exchange refused its UI1.
OpenPlace(w) ==
  TakesOrdersAt(wpc[w]) /\ loggedIn[w] /\ link[w] = "up" => ready[w] \/ ui1[w] = "refused"

LinkInv ==
  /\ link \in [Sessions -> {"up", "down", "out"}]
  /\ \A w \in Workers : OpenPlace(w)

\* What an operation of one session leaves of the others.
Only(s) ==
  \A t \in Sessions : t # s => loggedIn'[t] = loggedIn[t] /\ link'[t] = link[t]

LEMMA LoginSucceedsOnly ==
  ASSUME NEW s \in Sessions, SessInv, LinkInv, LoginSucceeds(s)
  PROVE  Only(s) /\ link' \in [Sessions -> {"up", "down", "out"}]
BY DEF SessInv, LinkInv, LoginSucceeds, Only

LEMMA LoginFailsOnly ==
  ASSUME NEW s \in Sessions, SessInv, LinkInv, LoginFails(s)
  PROVE  Only(s) /\ UNCHANGED <<loggedIn, link>>
BY DEF LoginFails, Only

LEMMA LogoutOnly ==
  ASSUME NEW s \in Sessions, SessInv, LinkInv, Logout(s)
  PROVE  /\ Only(s) /\ ~loggedIn'[s]
         /\ link' \in [Sessions -> {"up", "down", "out"}]
<1>1. CASE loggedIn[s] /\ handle[s]
  BY <1>1 DEF SessInv, LinkInv, Logout, Only
<1>2. CASE ~(loggedIn[s] /\ handle[s])
  BY <1>2 DEF SessInv, LinkInv, Logout, Only, sessVars, LoggedInHasHandle
<1>3. QED BY <1>1, <1>2

LEMMA TxFailedOnly ==
  ASSUME NEW s \in Sessions, SessInv, LinkInv, NEW status, TxFailed(s, status)
  PROVE  Only(s) /\ link' = link /\ (loggedIn'[s] => loggedIn[s])
<1>1. CASE status = "INTFAILURE"
  BY <1>1 DEF SessInv, TxFailed, MarkDead, Only
<1>2. CASE status # "INTFAILURE"
  BY <1>2 DEF TxFailed, Only, sessVars
<1>3. QED BY <1>1, <1>2

\* A step of one worker, from what it does to its own session.
LEMMA WorkerOpens ==
  ASSUME IInv, LinkInv, NEW w \in Workers, NEW pc \in PCs, Only(w),
         link' \in [Sessions -> {"up", "down", "out"}],
         wpc' = [wpc EXCEPT ![w] = pc],
         \A v \in Workers : v # w => ready'[v] = ready[v] /\ ui1'[v] = ui1[v],
         TakesOrdersAt(pc) /\ loggedIn'[w] /\ link'[w] = "up" => ready'[w] \/ ui1'[w] = "refused"
  PROVE  LinkInv'
<1>1. ASSUME NEW v \in Workers, v # w PROVE OpenPlace(v)'
  <2>1. loggedIn'[v] = loggedIn[v] /\ link'[v] = link[v] /\ ready'[v] = ready[v] /\ ui1'[v] = ui1[v]
    BY <1>1, WorkersAssumption DEF Only
  <2>2. wpc'[v] = wpc[v]
    BY <1>1 DEF IInv, ThreadPlaces
  <2>3. OpenPlace(v)
    BY DEF LinkInv
  <2>4. QED BY <2>1, <2>2, <2>3 DEF OpenPlace
<1>2. OpenPlace(w)'
  <2>1. wpc'[w] = pc
    BY DEF IInv, ThreadPlaces
  <2>2. QED BY <2>1 DEF OpenPlace
<1>3. QED BY <1>1, <1>2 DEF LinkInv

\* A step that leaves the sessions, or loses some, and moves nobody.
LEMMA NobodyOpens ==
  ASSUME LinkInv, UNCHANGED <<wpc, ready, ui1>>,
         link' \in [Sessions -> {"up", "down", "out"}],
         \A v \in Workers : loggedIn'[v] /\ link'[v] = "up" => loggedIn[v] /\ link[v] = "up"
  PROVE  LinkInv'
BY DEF LinkInv, OpenPlace

LEMMA SameOthers ==
  ASSUME IInv, NEW w \in Workers, ReadyToTradeFails(w) \/ ReadyToTradeAccepted(w)
  PROVE  \A v \in Workers : v # w => ready'[v] = ready[v] /\ ui1'[v] = ui1[v]
BY DEF ReadyToTradeFails, ReadyToTradeAccepted, IInv, ThreadPlaces

\* The end of a login, whatever the exchange says to UI1.
LEMMA ReadyToTradeOpens ==
  ASSUME IInv, LinkInv, NEW w \in Workers, NEW pc \in {"loop", "transmit"},
         ReadyToTradeFails(w) \/ ReadyToTradeAccepted(w),
         wpc' = [wpc EXCEPT ![w] = pc]
  PROVE  LinkInv'
<1>1. pc \in PCs
  BY DEF PCs
<1>2. CASE ReadyToTradeAccepted(w)
  <2>1. ready'[w] /\ Only(w) /\ link' = link
    BY <1>2 DEF ReadyToTradeAccepted, sessVars, Only, IInv, ThreadPlaces
  <2>2. QED BY <1>1, <1>2, <2>1, SameOthers, WorkerOpens DEF LinkInv
<1>3. CASE ReadyToTradeFails(w) /\ Connected(w)
  <2>1. ui1'[w] = "refused" /\ Only(w) /\ link' = link
    BY <1>3 DEF ReadyToTradeFails, sessVars, Only, IInv, ThreadPlaces
  <2>2. QED BY <1>1, <1>3, <2>1, SameOthers, WorkerOpens DEF LinkInv
<1>4. CASE ReadyToTradeFails(w) /\ ~Connected(w)
  <2>1. TxFailed(w, DeadStatus(w))
    BY <1>4 DEF ReadyToTradeFails
  <2>2. Only(w) /\ link' = link /\ (loggedIn'[w] => loggedIn[w])
    BY <2>1, TxFailedOnly, WorkersAssumption DEF IInv
  <2>3. ~(loggedIn'[w] /\ link'[w] = "up")
    BY <1>4, <2>2 DEF Connected
  <2>4. QED BY <1>1, <1>4, <2>2, <2>3, SameOthers, WorkerOpens DEF LinkInv
<1>5. QED BY <1>2, <1>3, <1>4

\* A call that finds the session dead.
LEMMA CallFailsOpens ==
  ASSUME IInv, LinkInv, NEW w \in Workers, ~Connected(w),
         TxFailed(w, DeadStatus(w)), SessionDead(w), ui1' = ui1
  PROVE  LinkInv'
<1>1. Only(w) /\ link' = link /\ (loggedIn'[w] => loggedIn[w])
  BY TxFailedOnly, WorkersAssumption DEF IInv
<1>2. ~(loggedIn'[w] /\ link'[w] = "up")
  BY <1>1 DEF Connected
<1>3. /\ \E pc \in PCs : wpc' = [wpc EXCEPT ![w] = pc]
      /\ \A v \in Workers : v # w => ready'[v] = ready[v] /\ ui1'[v] = ui1[v]
  BY SessionDeadGoes DEF PCs, IInv, ThreadPlaces
<1>4. QED BY <1>1, <1>2, <1>3, WorkerOpens DEF LinkInv

\* A move to a place where no order is carried out, or between such places.
LEMMA PlainOpens ==
  ASSUME IInv, LinkInv, NEW w \in Workers, NEW pc \in PCs,
         wpc' = [wpc EXCEPT ![w] = pc], TakesOrdersAt(pc) => TakesOrdersAt(wpc[w]),
         UNCHANGED <<ready, ui1, sessVars>>
  PROVE  LinkInv'
<1>1. Only(w) /\ link' = link /\ loggedIn' = loggedIn
  BY DEF Only, sessVars
<1>2. OpenPlace(w)
  BY DEF LinkInv
<1>3. TakesOrdersAt(pc) /\ loggedIn'[w] /\ link'[w] = "up" => ready'[w] \/ ui1'[w] = "refused"
  BY <1>1, <1>2 DEF OpenPlace
<1>4. QED BY <1>1, <1>3, WorkerOpens DEF LinkInv

\* A move of a worker whose session is, or ends, logged out.
LEMMA LoggedOutOpens ==
  ASSUME IInv, LinkInv, NEW w \in Workers, NEW pc \in PCs,
         wpc' = [wpc EXCEPT ![w] = pc], Only(w), ~loggedIn'[w],
         link' \in [Sessions -> {"up", "down", "out"}],
         \A v \in Workers : v # w => ready'[v] = ready[v] /\ ui1'[v] = ui1[v]
  PROVE  LinkInv'
BY WorkerOpens

LEMMA WorkerKeepsLinks ==
  ASSUME IInv, LinkInv, NEW w \in Workers, WorkerStep(w)
  PROVE  LinkInv'
<1>0. w \in Sessions /\ SessInv
  BY WorkersAssumption DEF IInv
<1>1. CASE SetupLogin(w)
  <2>1. CASE LoginSucceeds(w) /\ Goto(w, "setup") /\ ui1' = [ui1 EXCEPT ![w] = "none"]
    <3>1. /\ wpc' = [wpc EXCEPT ![w] = "setup"]
          /\ \A v \in Workers : v # w => ready'[v] = ready[v] /\ ui1'[v] = ui1[v]
      BY <1>1, <2>1 DEF SetupLogin, Goto, IInv, ThreadPlaces
    <3>2. Only(w) /\ link' \in [Sessions -> {"up", "down", "out"}]
      BY <1>0, <2>1, LoginSucceedsOnly
    <3>3. QED BY <3>1, <3>2, WorkerOpens DEF PCs, TakesOrdersAt
  <2>2. CASE LoginFails(w) /\ Goto(w, "ended") /\ UNCHANGED ui1
    <3>1. wpc' = [wpc EXCEPT ![w] = "ended"] /\ UNCHANGED <<ready, ui1>>
      BY <1>1, <2>2 DEF SetupLogin, Goto
    <3>2. Only(w) /\ link' = link
      BY <1>0, <2>2, LoginFailsOnly
    <3>3. QED BY <3>1, <3>2, WorkerOpens DEF PCs, TakesOrdersAt, LinkInv
  <2>3. QED BY <1>1, <2>1, <2>2 DEF SetupLogin
<1>2. CASE SetupFinish(w)
  BY <1>2, ReadyToTradeOpens DEF SetupFinish, Goto
<1>3. CASE LeaveLoop(w)
  BY <1>3, PlainOpens DEF LeaveLoop, Goto, ghostVars, PCs, TakesOrdersAt
<1>4. CASE TakeOrder(w)
  <2>1. \E pc \in {"transmit", "loop"} : wpc' = [wpc EXCEPT ![w] = pc]
    BY <1>4 DEF TakeOrder, Respond, Goto
  <2>2. wpc[w] = "loop" /\ UNCHANGED <<ready, ui1, sessVars>>
    BY <1>4 DEF TakeOrder
  <2>3. QED BY <2>1, <2>2, PlainOpens DEF PCs, TakesOrdersAt
<1>5. CASE NoticeLoss(w)
  <2>1. /\ wpc' = [wpc EXCEPT ![w] = "logout"]
        /\ \A v \in Workers : v # w => ready'[v] = ready[v] /\ ui1'[v] = ui1[v]
    BY <1>5 DEF NoticeLoss, BeginReconnect, Goto, ghostVars, IInv, ThreadPlaces
  <2>2. UNCHANGED sessVars /\ ~loggedIn[w]
    BY <1>5 DEF NoticeLoss
  <2>3. QED BY <2>1, <2>2, LoggedOutOpens DEF sessVars, Only, PCs, LinkInv
<1>6. CASE Keepalive(w)
  <2>1. UNCHANGED <<wpc, ready, ui1>>
    BY <1>6 DEF Keepalive, workerVars, threadVars, ghostVars
  <2>2. link' = link /\ \A v \in Workers : loggedIn'[v] => loggedIn[v]
    BY <1>0, <1>6, MarkDeadKeeps, WorkersAssumption DEF Keepalive, MarkDead
  <2>3. QED BY <2>1, <2>2, NobodyOpens DEF LinkInv
<1>7. CASE Transmit(w)
  BY <1>7, PlainOpens DEF Transmit, Goto, PCs, TakesOrdersAt
<1>8. CASE TransmitFails(w)
  BY <1>8, CallFailsOpens DEF TransmitFails
<1>9. CASE Complete(w)
  <2>1. wpc' = [wpc EXCEPT ![w] = "loop"] /\ wpc[w] = "wait" /\ UNCHANGED <<ready, ui1, sessVars>>
    BY <1>9 DEF Complete, Respond, Goto
  <2>2. QED BY <2>1, PlainOpens DEF PCs, TakesOrdersAt
<1>10. CASE LoseAnswer(w)
  BY <1>10, CallFailsOpens DEF LoseAnswer
<1>11. CASE ReconnectLogout(w)
  <2>1. /\ wpc' = [wpc EXCEPT ![w] = "backoff"] /\ UNCHANGED <<ready, ui1>>
    BY <1>11 DEF ReconnectLogout, Goto, ghostVars
  <2>2. Only(w) /\ ~loggedIn'[w] /\ link' \in [Sessions -> {"up", "down", "out"}]
    BY <1>0, <1>11, LogoutOnly DEF ReconnectLogout
  <2>3. QED BY <2>1, <2>2, LoggedOutOpens DEF PCs
<1>12. CASE BackoffStopped(w)
  <2>1. /\ wpc' = [wpc EXCEPT ![w] = "loop"] /\ wpc[w] = "backoff"
        /\ UNCHANGED <<ready, ui1, sessVars>>
    BY <1>12, ReconnectFailsGoes DEF BackoffStopped
  <2>2. ~loggedIn[w]
    BY <2>1 DEF IInv, ThreadPlaces, WorkerPlace, LoggedOutAt
  <2>3. QED BY <2>1, <2>2, LoggedOutOpens DEF PCs, sessVars, Only, LinkInv
<1>13. CASE Relogin(w)
  <2>1. CASE LoginSucceeds(w) /\ Goto(w, "requery") /\ ui1' = [ui1 EXCEPT ![w] = "none"]
    <3>1. /\ wpc' = [wpc EXCEPT ![w] = "requery"]
          /\ \A v \in Workers : v # w => ready'[v] = ready[v] /\ ui1'[v] = ui1[v]
      BY <1>13, <2>1 DEF Relogin, Goto, IInv, ThreadPlaces
    <3>2. Only(w) /\ link' \in [Sessions -> {"up", "down", "out"}]
      BY <1>0, <2>1, LoginSucceedsOnly
    <3>3. QED BY <3>1, <3>2, WorkerOpens DEF PCs, TakesOrdersAt
  <2>2. CASE LoginFails(w) /\ ReconnectFails(w) /\ UNCHANGED ui1
    <3>1. /\ wpc' = [wpc EXCEPT ![w] = "loop"] /\ UNCHANGED <<ready, ui1>>
          /\ wpc[w] = "backoff"
      BY <1>13, <2>2, ReconnectFailsGoes DEF Relogin
    <3>2. Only(w) /\ UNCHANGED <<loggedIn, link>>
      BY <1>0, <2>2, LoginFailsOnly
    <3>3. ~loggedIn[w]
      BY <3>1 DEF IInv, ThreadPlaces, WorkerPlace, LoggedOutAt
    <3>4. QED BY <3>1, <3>2, <3>3, LoggedOutOpens DEF PCs, LinkInv
  <2>3. QED BY <1>13, <2>1, <2>2 DEF Relogin
<1>14. CASE ReconnectFinish(w)
  <2>1. CASE ReadyToTradeAccepted(w) /\ Goto(w, IF cur[w] = NoOrder THEN "loop" ELSE "transmit")
    BY <2>1, ReadyToTradeOpens DEF Goto
  <2>2. CASE ReadyToTradeFails(w) /\ ReconnectFails(w)
    BY <2>2, ReadyToTradeOpens, ReconnectFailsGoes
  <2>3. QED BY <1>14, <2>1, <2>2 DEF ReconnectFinish
<1>15. CASE AnswerTimesOut(w)
  <2>1. wpc' = [wpc EXCEPT ![w] = "loop"] /\ wpc[w] = "wait" /\ UNCHANGED <<ready, ui1, sessVars>>
    BY <1>15 DEF AnswerTimesOut, Respond, Goto
  <2>2. QED BY <2>1, PlainOpens DEF PCs, TakesOrdersAt
<1>16. QED
  BY <1>1, <1>2, <1>3, <1>4, <1>5, <1>6, <1>7, <1>8, <1>9, <1>10, <1>11, <1>12, <1>13, <1>14, <1>15
     DEF WorkerStep

\* The BDX thread has a session of its own.
LEMMA BdxKeepsLinks ==
  ASSUME IInv, LinkInv, Only(BdxSession), UNCHANGED workerVars,
         link' \in [Sessions -> {"up", "down", "out"}]
  PROVE  LinkInv'
<1>1. UNCHANGED <<wpc, ready, ui1>>
  BY DEF workerVars, threadVars, ghostVars
<1>2. \A v \in Workers : loggedIn'[v] = loggedIn[v] /\ link'[v] = link[v]
  BY WorkersAssumption, HandlerAssumption DEF Only
<1>3. QED BY <1>1, <1>2, NobodyOpens

LEMMA BdxOnly ==
  ASSUME IInv, LinkInv, BdxStep \/ BdxStart \/ BdxJoin \/ BdxRequestStop
  PROVE  Only(BdxSession) /\ link' \in [Sessions -> {"up", "down", "out"}]
<1> DEFINE goal == Only(BdxSession) /\ link' \in [Sessions -> {"up", "down", "out"}]
<1>0. BdxSession \in Sessions /\ SessInv
  BY BdxAssumption DEF IInv
<1>1. CASE UNCHANGED sessVars
  BY <1>1 DEF sessVars, Only, LinkInv
<1>2. CASE LoginSucceeds(BdxSession)
  BY <1>0, <1>2, LoginSucceedsOnly
<1>3. CASE LoginFails(BdxSession)
  BY <1>0, <1>3, LoginFailsOnly DEF LinkInv
<1>4. CASE Logout(BdxSession)
  BY <1>0, <1>4, LogoutOnly
<1>5. CASE MarkDead(BdxSession)
  BY <1>0, <1>5 DEF MarkDead, Only, SessInv, LinkInv
<1>6. CASE LinkLost(BdxSession, "out")
  BY <1>0, <1>6 DEF LinkLost, Only, LinkInv
<1>7. QED
  BY <1>1, <1>2, <1>3, <1>4, <1>5, <1>6
     DEF BdxStep, BdxRead, BdxOverflow, BdxForcedLogout, BdxParse, BdxParseAgain,
         BdxSessionLost,
         BdxReconnectLogout, BdxRelogin, BdxLeave, BdxStart, BdxJoin, BdxRequestStop

\* A step that leaves the sessions and the workers' places alone.
LEMMA FrameLinks ==
  ASSUME LinkInv, UNCHANGED <<wpc, ready, ui1, loggedIn, link>>
  PROVE  LinkInv'
BY DEF LinkInv, OpenPlace

LEMMA HandlerKeepsLinks ==
  ASSUME IInv, LinkInv, Handler
  PROVE  LinkInv'
<1>1. CASE CopySeries \/ StartWaited
  BY <1>1, FrameLinks DEF CopySeries, StartWaited, workerVars, threadVars, ghostVars, sessVars
<1>2. CASE StartWorker
  <2>1. /\ wpc' = [wpc EXCEPT ![at] = "login"]
        /\ UNCHANGED <<ready, ui1, sessVars>>
    BY <1>2 DEF StartWorker, Start, Goto, ghostVars
  <2>2. CASE at \in Workers
    BY <2>1, <2>2, PlainOpens DEF PCs, TakesOrdersAt
  <2>3. CASE at \notin Workers
    <3>1. wpc' = wpc
      BY <2>1, <2>3 DEF IInv, ThreadPlaces
    <3>2. QED BY <2>1, <3>1, FrameLinks DEF sessVars
  <2>4. QED BY <2>2, <2>3
<1>3. CASE StartBdx
  BY <1>3, BdxOnly, BdxKeepsLinks DEF StartBdx
<1>4. CASE SendCheck \/ SendTry \/ SendEnqueue
  BY <1>4, FrameLinks
     DEF SendCheck, SendTry, SendEnqueue, SendUnchanged, threadVars, ghostVars, sessVars
<1>5. CASE PollBegin \/ PollWorker \/ PollBdx
  BY <1>5, FrameLinks
     DEF PollBegin, PollWorker, PollBdx, PollUnchanged, threadVars, ghostVars, sessVars
<1>6. CASE StopWorker
  BY <1>6, FrameLinks DEF StopWorker, RequestStop, ghostVars, sessVars
<1>7. CASE JoinWorker
  <2>1. /\ wpc' = [wpc EXCEPT ![at] = "joined"] /\ wpc[at] = "ended"
        /\ UNCHANGED <<ready, ui1>> /\ Logout(at)
    BY <1>7 DEF JoinWorker, Join, Goto, ghostVars
  <2>2. CASE at \in Workers
    BY <2>1, <2>2, LogoutOnly, LoggedOutOpens, WorkersAssumption DEF PCs, IInv
  <2>3. CASE at \notin Workers
    <3>1. wpc' = wpc
      BY <2>1, <2>3 DEF IInv, ThreadPlaces
    <3>2. /\ link' \in [Sessions -> {"up", "down", "out"}]
          /\ \A v \in Workers : loggedIn'[v] /\ link'[v] = "up" => loggedIn[v] /\ link[v] = "up"
      BY <2>1, <2>3, WorkersAssumption DEF Logout, sessVars, LinkInv, IInv, SessInv
    <3>3. QED BY <2>1, <3>1, <3>2, NobodyOpens
  <2>4. QED BY <2>2, <2>3
<1>8. CASE StopBdx
  BY <1>8, BdxOnly, BdxKeepsLinks DEF StopBdx
<1>9. CASE JoinBdx
  BY <1>9, BdxOnly, BdxKeepsLinks DEF JoinBdx
<1>10. QED
  BY <1>1, <1>2, <1>3, <1>4, <1>5, <1>6, <1>7, <1>8, <1>9 DEF Handler

LEMMA NextKeepsLinks == IInv /\ LinkInv /\ [Next]_vars => LinkInv'
<1> SUFFICES ASSUME IInv, LinkInv, [Next]_vars PROVE LinkInv'
  OBVIOUS
<1>1. CASE Handler
  BY <1>1, HandlerKeepsLinks
<1>2. CASE Client
  BY <1>2, FrameLinks DEF Client, SendBegin, SendUnchanged, threadVars, ghostVars, sessVars
<1>3. CASE StopBegin
  BY <1>3, FrameLinks DEF StopBegin, workerVars, threadVars, ghostVars, sessVars
<1>4. CASE \E w \in Workers : Worker(w)
  BY <1>4, WorkerKeepsLinks DEF Worker
<1>5. CASE Bdx
  BY <1>5, BdxOnly, BdxKeepsLinks DEF Bdx
<1>6. CASE Trading
  BY <1>6, FrameLinks DEF Trading, workerVars, threadVars, ghostVars, sessVars
<1>7. CASE \E s \in Disturbed : Disturb(s)
  <2>1. PICK s \in Sessions : Disturb(s)
    BY <1>7, HandlerAssumption
  <2>2. UNCHANGED <<wpc, ready, ui1, loggedIn>>
    BY <2>1 DEF Disturb, LinkLost, PasswordExpires, workerVars, threadVars, ghostVars
  <2>3. \/ link' = [link EXCEPT ![s] = "down"]
        \/ link' = [link EXCEPT ![s] = "out"]
        \/ link' = link
    BY <2>1 DEF Disturb, LinkLost, PasswordExpires
  <2>4. /\ link' \in [Sessions -> {"up", "down", "out"}]
        /\ \A v \in Workers : link'[v] = "up" => link[v] = "up"
    BY <2>3, WorkersAssumption DEF LinkInv
  <2>5. QED BY <2>2, <2>4, NobodyOpens
<1>8. CASE UNCHANGED vars
  BY <1>8, FrameLinks DEF vars, workerVars, threadVars, ghostVars, sessVars
<1>9. QED
  BY <1>1, <1>2, <1>3, <1>4, <1>5, <1>6, <1>7, <1>8 DEF Next

\* What the sessions' links allow holds in every state.
LEMMA LinkInvariance == Spec => []LinkInv
<1>1. Init => LinkInv
  BY DEF Init, SessInit, WorkerInit, LinkInv, OpenPlace, TakesOrdersAt
<1>2. QED BY <1>1, NextKeepsLinks, Invariance, PTL DEF Spec

\* A worker whose session works and that is back in its loop takes orders,
\* unless the exchange itself refused its last UI1: no reconnect, retry or
\* failed call leaves _readyToTrade cleared behind a session that is up.
THEOREM ConnectedIsReady == Spec => []ConnectedMeansReady
<1>1. LinkInv => ConnectedMeansReady
  BY DEF LinkInv, OpenPlace, TakesOrdersAt, ConnectedMeansReady, Connected
<1>2. QED BY <1>1, LinkInvariance, PTL

-----------------------------------------------------------------------------
(* Start and Stop: what the handler's thread has started and not yet       *)
(* waited for.                                                             *)

Starting == gpc \in {"start", "copy", "startWait", "startBdx"}
Running == gpc \in {"run", "check", "try", "enqueue", "poll"}
Quiet(w) == wpc[w] = "joined"

\* Nothing is logged in but through a thread that is there.
NobodyElse ==
  /\ \A w \in Workers : Quiet(w) => ~loggedIn[w]
  /\ bpc = "joined" => ~loggedIn[BdxSession]
  /\ \A s \in Sessions : s \notin Workers \cup {BdxSession} => ~loggedIn[s]

StopInv ==
  /\ bpc = "none" => ~bactive
  /\ Starting => bpc = "none" /\ ~started
  /\ Running => (started <=> bpc # "none")
  /\ gpc \in {"stop", "join"} =>
       /\ bpc # "none"
       /\ at \in 0..WorkerCount
       /\ \A w \in Workers : w < at => Quiet(w)
  /\ gpc = "stopped" /\ bpc # "none" => bpc = "joined" /\ \A w \in Workers : Quiet(w)
  /\ gpc \in {"start", "copy", "startWait", "startBdx", "run", "check", "try", "enqueue",
               "poll", "stop", "join", "stopped"}
  /\ started \in BOOLEAN /\ bactive \in BOOLEAN
  /\ NobodyElse

LEMMA WorkerStepsOn ==
  ASSUME IInv, NEW w \in Workers, WorkerStep(w)
  PROVE  /\ wpc[w] # "joined" /\ wpc'[w] # "joined"
         /\ \A v \in Workers : v # w => wpc'[v] = wpc[v]
<1>1. wpc[w] \notin {"none", "ended", "joined"}
  BY DEF WorkerStep, SetupLogin, SetupFinish, LeaveLoop, TakeOrder, NoticeLoss, Keepalive,
         Transmit, TransmitFails, Complete, LoseAnswer, AnswerTimesOut, ReconnectLogout,
         BackoffStopped, Relogin, ReconnectFinish
<1>2. wpc' = wpc \/ \E pc \in PCs \ {"joined"} : wpc' = [wpc EXCEPT ![w] = pc]
  <2>1. CASE Keepalive(w)
    BY <2>1 DEF Keepalive, workerVars, threadVars
  <2>2. CASE SetupLogin(w) \/ SetupFinish(w) \/ LeaveLoop(w) \/ NoticeLoss(w) \/ Transmit(w)
             \/ ReconnectLogout(w)
    BY <2>2 DEF SetupLogin, SetupFinish, LeaveLoop, NoticeLoss, BeginReconnect, Transmit,
                ReconnectLogout, Goto, PCs
  <2>3. CASE TakeOrder(w) \/ Complete(w) \/ AnswerTimesOut(w)
    BY <2>3 DEF TakeOrder, Complete, AnswerTimesOut, Respond, Goto, PCs
  <2>4. CASE TransmitFails(w) \/ LoseAnswer(w)
    BY <2>4, SessionDeadGoes DEF TransmitFails, LoseAnswer, PCs
  <2>5. CASE BackoffStopped(w) \/ Relogin(w) \/ ReconnectFinish(w)
    BY <2>5, ReconnectFailsGoes DEF BackoffStopped, Relogin, ReconnectFinish, Goto, PCs
  <2>6. QED BY <2>1, <2>2, <2>3, <2>4, <2>5 DEF WorkerStep
<1>3. QED BY <1>1, <1>2 DEF IInv, ThreadPlaces

\* What a step of one worker leaves of the other sessions.
LEMMA WorkerOnly ==
  ASSUME IInv, LinkInv, NEW w \in Workers, WorkerStep(w)
  PROVE  Only(w)
<1>0. w \in Sessions /\ SessInv
  BY WorkersAssumption DEF IInv
<1>1. CASE UNCHANGED sessVars
  BY <1>1 DEF sessVars, Only
<1>2. CASE LoginSucceeds(w) \/ LoginFails(w)
  BY <1>0, <1>2, LoginSucceedsOnly, LoginFailsOnly
<1>3. CASE Logout(w)
  BY <1>0, <1>3, LogoutOnly
<1>4. CASE MarkDead(w) \/ TxFailed(w, DeadStatus(w))
  BY <1>0, <1>4, TxFailedOnly DEF MarkDead, Only, SessInv
<1>5. QED
  BY <1>1, <1>2, <1>3, <1>4
     DEF WorkerStep, SetupLogin, SetupFinish, LeaveLoop, TakeOrder, NoticeLoss, Keepalive,
         Transmit, TransmitFails, Complete, LoseAnswer, AnswerTimesOut, ReconnectLogout,
         BackoffStopped, Relogin, ReconnectFinish, ReadyToTradeAccepted, ReadyToTradeFails

\* A step that leaves the handler's thread where it is.
LEMMA OthersKeepStop ==
  ASSUME StopInv, UNCHANGED <<gpc, at, started>>, NobodyElse',
         bpc' = "none" => ~bactive', bactive' \in BOOLEAN,
         bpc' = "none" <=> bpc = "none",
         bpc = "joined" => bpc' = "joined",
         \A w \in Workers : Quiet(w) => Quiet(w)'
  PROVE  StopInv'
BY DEF StopInv, Starting, Running

LEMMA WorkerKeepsStop ==
  ASSUME IInv, LinkInv, StopInv, NEW w \in Workers, WorkerStep(w),
         UNCHANGED <<bdxVars, handlerVars>>
  PROVE  StopInv'
<1>1. /\ wpc[w] # "joined" /\ wpc'[w] # "joined"
      /\ \A v \in Workers : v # w => wpc'[v] = wpc[v]
  BY WorkerStepsOn
<1>2. \A s \in Sessions : s # w => loggedIn'[s] = loggedIn[s]
  BY WorkerOnly DEF Only
<1>3. UNCHANGED <<gpc, at, started, bpc, bactive>>
  BY DEF bdxVars, handlerVars
<1>4. NobodyElse'
  BY <1>1, <1>2, <1>3, WorkersAssumption, BdxAssumption, HandlerAssumption
     DEF StopInv, NobodyElse, Quiet
<1>5. \A v \in Workers : Quiet(v) => Quiet(v)'
  BY <1>1 DEF Quiet
<1>6. QED BY <1>3, <1>4, <1>5, OthersKeepStop DEF StopInv

\* The BDX thread runs only once it has been started, and ends only once.
LEMMA BdxKeepsStop ==
  ASSUME IInv, LinkInv, StopInv, BdxStep, UNCHANGED <<workerVars, handlerVars>>
  PROVE  StopInv'
<1>1. \A s \in Sessions : s # BdxSession => loggedIn'[s] = loggedIn[s]
  BY BdxOnly DEF Only
<1>2. UNCHANGED <<gpc, at, started, wpc>>
  BY DEF workerVars, threadVars, handlerVars
<1>3. /\ bpc \notin {"none", "joined"} /\ bpc' \notin {"none", "joined"}
      /\ bactive' \in BOOLEAN
  BY DEF StopInv, BdxStep, BdxRead, BdxOverflow, BdxForcedLogout, BdxParse, BdxParseAgain,
         BdxSessionLost,
         BdxReconnectLogout, BdxRelogin, BdxLeave, Polls
<1>4. NobodyElse'
  BY <1>1, <1>2, <1>3, WorkersAssumption, HandlerAssumption DEF StopInv, NobodyElse, Quiet
<1>5. \A v \in Workers : Quiet(v) => Quiet(v)'
  BY <1>2 DEF Quiet
<1>6. QED BY <1>2, <1>3, <1>4, <1>5, OthersKeepStop

\* A step of the handler's thread that touches no session and no thread.
LEMMA SameThreads ==
  ASSUME StopInv, UNCHANGED <<loggedIn, wpc, bpc>>
  PROVE  NobodyElse' /\ \A w \in Workers : Quiet(w)' <=> Quiet(w)
BY DEF StopInv, NobodyElse, Quiet

LEMMA HandlerKeepsStop ==
  ASSUME IInv, LinkInv, StopInv, Handler
  PROVE  StopInv'
<1>1. CASE CopySeries
  <2>1. /\ gpc = "copy" /\ gpc' = "start"
        /\ UNCHANGED <<loggedIn, wpc, bpc, bactive, started>>
    BY <1>1 DEF CopySeries, HandlerGoto, sessVars, bdxVars
  <2>2. QED BY <2>1, SameThreads DEF StopInv, Starting, Running
<1>2. CASE StartWorker
  <2>1. /\ gpc = "start" /\ gpc' = "startWait" /\ wpc[at] = "none"
        /\ wpc' = [wpc EXCEPT ![at] = "login"]
        /\ UNCHANGED <<loggedIn, bpc, bactive, started>>
    BY <1>2 DEF StartWorker, Start, Goto, HandlerGoto, sessVars, bdxVars
  <2>2. \A w \in Workers : Quiet(w)' <=> Quiet(w)
    BY <2>1 DEF Quiet, IInv, ThreadPlaces
  <2>3. NobodyElse'
    BY <2>1, <2>2 DEF StopInv, NobodyElse
  <2>4. QED BY <2>1, <2>2, <2>3 DEF StopInv, Starting, Running
<1>3. CASE StartWaited
  <2>1. /\ gpc = "startWait" /\ gpc' \in {"copy", "startBdx", "run"}
        /\ UNCHANGED <<loggedIn, wpc, bpc, bactive, started>>
    BY <1>3 DEF StartWaited, HandlerGoto, sessVars, bdxVars, workerVars, threadVars
  <2>2. QED BY <2>1, SameThreads DEF StopInv, Starting, Running
<1>4. CASE StartBdx
  <2>1. /\ gpc = "startBdx" /\ gpc' = "run" /\ wpc' = wpc /\ bpc = "none" /\ ~bactive
        /\ started' = bactive'
        /\ \/ bpc' = "run" /\ bactive' = TRUE
           \/ bpc' = "none" /\ bactive' = FALSE /\ loggedIn' = loggedIn
    BY <1>4 DEF StartBdx, BdxStart, HandlerGoto, workerVars, threadVars, LoginFails, StopInv
  <2>2. Only(BdxSession)
    BY <1>4, BdxOnly DEF StartBdx
  <2>3. NobodyElse'
    BY <2>1, <2>2, WorkersAssumption, HandlerAssumption DEF StopInv, NobodyElse, Quiet, Only
  <2>4. QED BY <2>1, <2>3 DEF StopInv, Starting, Running
<1>5. CASE SendCheck \/ SendTry \/ SendEnqueue \/ PollBegin \/ PollWorker \/ PollBdx
  <2>1. gpc \in {"run", "check", "try", "enqueue", "poll"}
    BY <1>5 DEF SendCheck, SendTry, SendEnqueue, PollBegin, PollWorker, PollBdx
  <2>2. gpc' \in {"run", "check", "try", "enqueue", "poll"}
    BY <1>5 DEF SendCheck, SendTry, SendEnqueue, PollBegin, PollWorker, PollBdx, HandlerGoto,
                Refuse
  <2>3. UNCHANGED <<loggedIn, wpc, bpc, bactive, started>>
    BY <1>5 DEF SendCheck, SendTry, SendEnqueue, SendUnchanged, PollBegin, PollWorker, PollBdx,
                PollUnchanged, sessVars, threadVars, bdxVars
  <2>4. QED BY <2>1, <2>2, <2>3, SameThreads DEF StopInv, Starting, Running
<1>6. CASE StopWorker
  <2>1. /\ gpc = "stop" /\ gpc' = "join" /\ at' = at
        /\ UNCHANGED <<loggedIn, wpc, bpc, bactive, started>>
    BY <1>6 DEF StopWorker, RequestStop, HandlerGoto, sessVars, bdxVars
  <2>2. QED BY <2>1, SameThreads DEF StopInv, Starting, Running
<1>7. CASE JoinWorker
  <2>1. /\ gpc = "join" /\ gpc' = "stop" /\ at' = at + 1 /\ at < WorkerCount
        /\ wpc' = [wpc EXCEPT ![at] = "joined"] /\ Logout(at)
        /\ UNCHANGED <<bpc, bactive, started>>
    BY <1>7 DEF JoinWorker, Join, Goto, HandlerGoto, bdxVars
  <2>2. at \in Workers /\ at \in Sessions /\ at # BdxSession /\ SessInv
    BY <2>1, HandlerAssumption, WorkersAssumption DEF StopInv, IInv
  <2>3. ~loggedIn'[at] /\ \A s \in Sessions : s # at => loggedIn'[s] = loggedIn[s]
    BY <2>1, <2>2, LogoutOnly DEF Only
  <2>4. wpc'[at] = "joined" /\ \A w \in Workers : w # at => (Quiet(w)' <=> Quiet(w))
    BY <2>1, <2>2 DEF Quiet, IInv, ThreadPlaces
  <2>5. NobodyElse'
    BY <2>1, <2>2, <2>3, <2>4, WorkersAssumption, BdxAssumption DEF StopInv, NobodyElse
  <2>6. \A w \in Workers : w < at' => Quiet(w)'
    <3>1. ASSUME NEW w \in Workers, w < at + 1 PROVE w = at \/ w < at
      BY <3>1, <2>2, HandlerAssumption
    <3>2. ASSUME NEW w \in Workers, w = at \/ w < at PROVE Quiet(w)'
      BY <2>1, <2>4, <3>2 DEF StopInv, Quiet
    <3>3. QED BY <2>1, <3>1, <3>2
  <2>7. at' \in 0..WorkerCount
    BY <2>1, HandlerAssumption DEF StopInv
  <2>8. QED BY <2>1, <2>5, <2>6, <2>7 DEF StopInv, Starting, Running
<1>8. CASE StopBdx
  <2>1. /\ gpc = "stop" /\ gpc' = "join" /\ at' = at /\ bactive' = FALSE
        /\ UNCHANGED <<loggedIn, wpc, bpc, started>>
    BY <1>8 DEF StopBdx, BdxRequestStop, HandlerGoto, sessVars, workerVars, threadVars
  <2>2. QED BY <2>1, SameThreads DEF StopInv, Starting, Running
<1>9. CASE JoinBdx
  <2>1. /\ gpc = "join" /\ gpc' = "stopped" /\ at = WorkerCount /\ bpc' = "joined"
        /\ started' = FALSE /\ bactive' = bactive /\ wpc' = wpc /\ Logout(BdxSession)
    BY <1>9 DEF JoinBdx, BdxJoin, HandlerGoto, workerVars, threadVars
  <2>2. \A w \in Workers : Quiet(w)
    BY <2>1, HandlerAssumption DEF StopInv
  <2>3. ~loggedIn'[BdxSession] /\ \A s \in Sessions : s # BdxSession => loggedIn'[s] = loggedIn[s]
    BY <2>1, LogoutOnly, BdxAssumption DEF Only, IInv
  <2>4. NobodyElse'
    BY <2>1, <2>3, WorkersAssumption, HandlerAssumption DEF StopInv, NobodyElse, Quiet
  <2>5. \A w \in Workers : Quiet(w)'
    BY <2>1, <2>2 DEF Quiet
  <2>6. QED BY <2>1, <2>4, <2>5 DEF StopInv, Starting, Running
<1>10. QED
  BY <1>1, <1>2, <1>3, <1>4, <1>5, <1>6, <1>7, <1>8, <1>9 DEF Handler

LEMMA NextKeepsStop == IInv /\ LinkInv /\ StopInv /\ [Next]_vars => StopInv'
<1> SUFFICES ASSUME IInv, LinkInv, StopInv, [Next]_vars PROVE StopInv'
  OBVIOUS
<1>1. CASE Handler
  BY <1>1, HandlerKeepsStop
<1>2. CASE Client
  <2>1. /\ gpc = "run" /\ gpc' = "check" /\ UNCHANGED <<loggedIn, wpc, bpc, bactive, started>>
    BY <1>2 DEF Client, SendBegin, SendUnchanged, HandlerGoto, threadVars, sessVars, bdxVars
  <2>2. QED BY <2>1, SameThreads DEF StopInv, Starting, Running
<1>3. CASE StopBegin
  <2>1. /\ gpc = "run" /\ gpc' = (IF started THEN "stop" ELSE "stopped") /\ at' = 0
        /\ UNCHANGED <<loggedIn, wpc, bpc, bactive, started>>
    BY <1>3 DEF StopBegin, HandlerGoto, workerVars, threadVars, sessVars, bdxVars
  <2>2. 0 \in 0..WorkerCount /\ \A w \in Workers : ~(w < 0)
    BY HandlerAssumption
  <2>3. QED BY <2>1, <2>2, SameThreads DEF StopInv, Starting, Running
<1>4. CASE \E w \in Workers : Worker(w)
  BY <1>4, WorkerKeepsStop DEF Worker
<1>5. CASE Bdx
  BY <1>5, BdxKeepsStop DEF Bdx
<1>6. CASE Trading \/ UNCHANGED vars \/ \E s \in Disturbed : Disturb(s)
  <2>1. UNCHANGED <<gpc, at, started, loggedIn, wpc, bpc, bactive>>
    BY <1>6 DEF Trading, Disturb, LinkLost, PasswordExpires, vars, workerVars, threadVars,
                sessVars, bdxVars, handlerVars
  <2>2. QED BY <2>1, SameThreads, OthersKeepStop DEF StopInv
<1>7. QED
  BY <1>1, <1>2, <1>3, <1>4, <1>5, <1>6 DEF Next

\* When Stop() of a handler that started has returned, no thread of it is
\* left and no session is logged in, wherever the stop found the threads: in a
\* transaction, in a backoff, between the two ends of a login.
THEOREM StopLeavesNothing == Spec => []StoppedIsQuiet
<1>1. Init => LinkInv
  BY DEF Init, SessInit, WorkerInit, LinkInv, OpenPlace, TakesOrdersAt
<1>2. Init => StopInv
  BY WorkersAssumption, BdxAssumption, ZenonT(40)
     DEF Init, SessInit, WorkerInit, BdxInit, StopInv, Starting, Running, NobodyElse, Quiet
<1>3. StopInv => StoppedIsQuiet
  BY DEF StopInv, NobodyElse, Quiet, StoppedIsQuiet
<1>4. QED BY <1>1, <1>2, <1>3, NextKeepsLinks, NextKeepsStop, Invariance, PTL DEF Spec
=============================================================================
