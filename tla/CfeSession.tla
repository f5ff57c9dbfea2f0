----------------------------- MODULE CfeSession -----------------------------
(***************************************************************************)
(* The session of the CFE handler: login, replay, sequence numbers, the    *)
(* reset when the exchange's numbers start again, automatic and commanded  *)
(* reconnection, and the state file (CfeGT4, StandardTcpV1,                *)
(* SessionStateManager, SessSvc, CfeResetSession).                         *)
(*                                                                         *)
(* Two threads change one session with no lock: "poll" runs Poll, the      *)
(* receive callbacks and Dispatch; "cmd" runs CheckEvents.  SessSvc writes *)
(* the state file behind both.  A sequence number is a record of the       *)
(* number and the trading day it was given on: the program keeps the       *)
(* number alone, the day is there for the properties to tell apart what    *)
(* the program cannot.                                                     *)
(*                                                                         *)
(* The pauses of the code are abstracted to their order: SessSvc, which    *)
(* wakes every 10 ms, has written what was queued before a pause of a      *)
(* second or more is over.                                                 *)
(***************************************************************************)
EXTENDS Integers, Sequences, FiniteSets

CONSTANTS
    MaxMsgs,     \* bound: messages the exchange publishes on one day
    MaxDays,     \* bound: trading days
    Limits,      \* bound: how often each mishap or command happens
    MaxMishaps   \* bound: how many of them happen in one behaviour

Mishaps == {"cut", "crash", "refuse", "initFails", "resetFails", "reconnect",
            "terminate"}
Threads == {"poll", "cmd"}
\* Where a thread is: in its loop, in a restart of the handler, in a logout.
Places == {"idle", "stop", "session", "tcp", "stopping", "logout", "sent"}

ASSUME CfeConstants ==
    /\ MaxMsgs \in Nat \ {0}
    /\ MaxDays \in Nat \ {0}
    /\ Limits \in [Mishaps -> Nat]
    /\ MaxMishaps \in Nat

VARIABLES
    state,           \* sessmgr.CurrentState
    seqIn,           \* _SEQ_INa
    replayComplete,  \* _REPLAY_COMPLETE
    needsReset,      \* needs_reset_reconnect
    reconnecting,    \* is_reconnecting
    lastFd,          \* Dispatch's static last_fd > 0
    tcp,             \* the handler: its socket is open, _should_reconnect
    step,            \* where each thread is in a restart or a logout
    msg,             \* message past CheckIncomingSeq and not yet handled
    saves,           \* SessSvc's queue: the SEQ_IN of each entry
    file,            \* SEQ_IN in the state file
    wire,            \* messages from the exchange on this connection
    ex,              \* the exchange's side of the session
    handled,         \* how often each message of this day was handled, up to 2
    excused,         \* messages of this day the code gives up on by design
    gaveUp,          \* StartTcpConnection ended without a connection
    used             \* mishaps so far

flags == <<needsReset, reconnecting, lastFd, step, gaveUp>>
store == <<saves, file>>
seen == <<handled, excused>>
vars == <<state, seqIn, replayComplete, flags, tcp, msg, store, wire, ex, seen, used>>

States == {"Disconnected", "StartingLoginProcess", "AwaitEstablishmentAck",
           "Established", "Terminating"}
Numbers == [n : 0 .. MaxMsgs, day : 1 .. MaxDays]
\* The client cannot tell "app" and "replay" apart.
Types == {"login", "ahead", "rejected", "complete", "app", "replay", "logout", "closed"}
None == [type |-> "none", n |-> 0, day |-> 1]

Message(type, n) == [type |-> type, n |-> n, day |-> ex.day]

-----------------------------------------------------------------------------
(* Helpers.                                                                *)

Spend(kind) ==
    /\ used[kind] < Limits[kind]
    /\ used' = [used EXCEPT ![kind] = @ + 1]
    /\ Cardinality({k \in Mishaps : used'[k] > 0}) <= MaxMishaps

\* Update(): an entry that repeats the last one changes nothing and is left out.
Queue(q) ==
    saves' = IF saves # <<>> /\ saves[Len(saves)] = q THEN saves ELSE Append(saves, q)

SetSeqIn(q) == seqIn' = q /\ Queue(q)

\* Mutant of ResetSessionSeqNumsToZero: the manager's values stay, and what is
\* queued for the file with them.
MutResetSessionSeqNumsToZero == UNCHANGED <<seqIn, saves>>

ResetSessionSeqNumsToZero == SetSeqIn([seqIn EXCEPT !.n = 0])

\* Mutant of ReplayStarts: the flag keeps the value of the connection before.
MutReplayStarts == UNCHANGED replayComplete

ReplayStarts == replayComplete' = FALSE

\* Messages of a lost part of the wire that are never asked for again: the
\* login response already moved SEQ_IN past the replay that follows it.
Unreplayed(lost) ==
    IF \E i \in DOMAIN lost : lost[i].type = "login" THEN {}
    ELSE {lost[i].n : i \in {j \in DOMAIN lost :
             lost[j].type = "replay" /\ lost[j].day = ex.day}}

Prefix(s, k) == SubSeq(s, 1, k)
Suffix(s, k) == SubSeq(s, k + 1, Len(s))

-----------------------------------------------------------------------------
(* The exchange (external).                                                *)

\* A message of the day, sent at once to a client that is logged in.
Publish ==
    /\ ex.seq < MaxMsgs
    /\ ex' = [ex EXCEPT !.seq = @ + 1]
    /\ wire' = IF ex.conn = "in" THEN Append(wire, Message("app", ex.seq + 1)) ELSE wire
    /\ UNCHANGED <<state, seqIn, replayComplete, flags, tcp, msg, store, seen, used>>

\* The login is accepted: the response names the last message of the day, and
\* those after the client's number follow.
AcceptLogin ==
    /\ ex.conn = "asked"
    /\ ex' = [ex EXCEPT !.conn = "in"]
    /\ LET missed == ex.seq - ex.asked.n IN
       wire' = wire \o <<Message("login", ex.seq)>>
                    \o [i \in 1 .. (IF missed > 0 THEN missed ELSE 0) |->
                           Message("replay", ex.asked.n + i)]
                    \o <<Message("complete", 0)>>
    /\ excused' = IF ex.asked.day < ex.day /\ ex.asked.n <= ex.seq
                  THEN excused \cup (1 .. ex.asked.n) ELSE excused
    /\ UNCHANGED <<state, seqIn, replayComplete, flags, tcp, msg, store, handled, used>>

\* The client's number is beyond the exchange's.
RejectAhead ==
    /\ ex.conn = "asked" /\ ex.asked.n > ex.seq
    /\ ex' = [ex EXCEPT !.conn = "open"]
    /\ wire' = Append(wire, Message("ahead", 0))
    /\ UNCHANGED <<state, seqIn, replayComplete, flags, tcp, msg, store, seen, used>>

\* Any other refusal; the exchange hangs up.
RefuseLogin ==
    /\ ex.conn = "asked" /\ Spend("refuse")
    /\ ex' = [ex EXCEPT !.conn = "none"]
    /\ wire' = wire \o <<Message("rejected", 0), Message("closed", 0)>>
    /\ UNCHANGED <<state, seqIn, replayComplete, flags, tcp, msg, store, seen>>

\* The connection breaks and the end of what was sent is lost.
Cut ==
    /\ ex.conn # "none" /\ Spend("cut")
    /\ ex' = [ex EXCEPT !.conn = "none"]
    /\ \E k \in 0 .. Len(wire) :
          /\ wire' = Append(Prefix(wire, k), Message("closed", 0))
          /\ excused' = excused \cup Unreplayed(Suffix(wire, k))
    /\ UNCHANGED <<state, seqIn, replayComplete, flags, tcp, msg, store, handled>>

\* Between two days the exchange closes every session and counts from 1 again.
NewDay ==
    /\ ex.day < MaxDays
    /\ ex' = [ex EXCEPT !.day = @ + 1, !.seq = 0, !.conn = "none"]
    /\ IF ex.conn = "none" THEN UNCHANGED wire
       ELSE \E k \in 0 .. Len(wire) : wire' = Append(Prefix(wire, k), Message("closed", 0))
    /\ handled' = [n \in 1 .. MaxMsgs |-> 0] /\ excused' = {}
    /\ UNCHANGED <<state, seqIn, replayComplete, flags, tcp, msg, store, used>>

\* The client is connected, sends nothing, and is not about to.
Silent ==
    /\ ~needsReset /\ \A t \in Threads : step[t] = "idle"
    /\ state = "Terminating" \/ (state = "Disconnected" /\ lastFd)

\* A logout is answered; a client that sends no heartbeats is hung up on.
HangUp ==
    /\ ex.conn = "out" \/ (ex.conn \in {"open", "in"} /\ Silent)
    /\ ex' = [ex EXCEPT !.conn = "none"]
    /\ wire' = wire \o (IF ex.conn = "out" THEN <<Message("logout", 0)>> ELSE <<>>)
                    \o <<Message("closed", 0)>>
    /\ UNCHANGED <<state, seqIn, replayComplete, flags, tcp, msg, store, seen, used>>

-----------------------------------------------------------------------------
(* The poll thread: StandardTcpV1::Poll and the callbacks it makes.         *)

\* The next message of this type, taken while the poll thread is in Poll.
Receive(type) ==
    /\ step["poll"] = "idle" /\ msg = None
    /\ wire # <<>> /\ Head(wire).type = type
    /\ wire' = Tail(wire)

\* Mutant of Mismatch: a number ahead of the exchange's is taken as it is.
MutMismatch(unitSequence) == FALSE

\* file_seqin > server_seqin
Mismatch(unitSequence) == seqIn.n > unitSequence

\* onLoginReponseMsg, accepted with numbers that do not fit: only the flag is set.
LoginMismatch ==
    /\ Receive("login") /\ Mismatch(Head(wire).n)
    /\ needsReset' = TRUE
    /\ UNCHANGED <<state, seqIn, replayComplete, reconnecting, lastFd, step, gaveUp,
                   tcp, msg, store, ex, seen, used>>

\* onLoginReponseMsg, accepted: SEQ_IN becomes the exchange's number before
\* any of the messages it missed has come.
LoginAccepted ==
    /\ Receive("login") /\ ~Mismatch(Head(wire).n)
    /\ SetSeqIn([n |-> Head(wire).n, day |-> Head(wire).day])
    /\ state' = "Established"
    /\ UNCHANGED <<replayComplete, flags, tcp, msg, file, ex, seen, used>>

\* onLoginReponseMsg, Sequence_Ahead
LoginAhead ==
    /\ Receive("ahead")
    /\ needsReset' = TRUE /\ state' = "Disconnected"
    /\ UNCHANGED <<seqIn, replayComplete, reconnecting, lastFd, step, gaveUp,
                   tcp, msg, store, ex, seen, used>>

\* onLoginReponseMsg, any other status; onLogoutResponseMsg.
LoggedOut ==
    /\ Receive("rejected") \/ Receive("logout")
    /\ state' = "Disconnected"
    /\ UNCHANGED <<seqIn, replayComplete, flags, tcp, msg, store, ex, seen, used>>

\* onReplayCompleteMsg
OnReplayComplete ==
    /\ Receive("complete")
    /\ replayComplete' = TRUE /\ state' = "Established"
    /\ UNCHANGED <<seqIn, flags, tcp, msg, store, ex, seen, used>>

\* Mutant of CheckIncomingSeq: the number expected next is stored.
MutCheckIncomingSeq(m) ==
    IF state = "Established" /\ m.n = seqIn.n + 1
    THEN SetSeqIn([n |-> m.n + 1, day |-> m.day])
    ELSE UNCHANGED <<seqIn, saves>>

\* CheckIncomingSeq: a message in order moves SEQ_IN, every message passes.
CheckIncomingSeq(m) ==
    IF state = "Established" /\ m.n = seqIn.n + 1
    THEN SetSeqIn([n |-> m.n, day |-> m.day])
    ELSE UNCHANGED <<seqIn, saves>>

Sequenced ==
    /\ Receive("app") \/ Receive("replay")
    /\ CheckIncomingSeq(Head(wire)) /\ msg' = Head(wire)
    /\ UNCHANGED <<state, replayComplete, flags, tcp, file, ex, seen, used>>

\* The onExecRpt callbacks: what they report is flagged possRetransmit while
\* the replay is not complete.
ProcessApplicationMessage ==
    /\ msg # None
    /\ msg' = None
    /\ handled' = IF msg.day # ex.day THEN handled
                  ELSE [handled EXCEPT ![msg.n] = IF @ = 2 THEN 2 ELSE @ + 1]
    /\ UNCHANGED <<state, seqIn, replayComplete, flags, tcp, store, wire, ex, excused, used>>

\* Mutant of Closed: the handler is not told to connect again.
MutClosed ==
    /\ Receive("closed")
    /\ tcp' = [fd |-> FALSE, retry |-> tcp.retry]
    /\ UNCHANGED <<state, seqIn, replayComplete, flags, msg, store, ex, seen, used>>

\* tcp_poll finds the connection closed: the state is left to Dispatch.
Closed ==
    /\ Receive("closed")
    /\ tcp' = [fd |-> FALSE, retry |-> TRUE]
    /\ UNCHANGED <<state, seqIn, replayComplete, flags, msg, store, ex, seen, used>>

\* onRecv works through what it had received when TCP_RECONNECT stopped the
\* handler.
Draining == step["poll"] = "idle" /\ ~tcp.fd /\ wire # <<>>

\* A socket connects, or cannot be opened.
Connects == ex' = [ex EXCEPT !.conn = "open"] /\ UNCHANGED used
Fails == ex' = [ex EXCEPT !.conn = "none"] /\ Spend("initFails")

\* Reconnect, after a wait of 15 s and more in which Dispatch has seen that the
\* socket is gone; a failure leaves _should_reconnect set.
Reconnect ==
    /\ step["poll"] = "idle" /\ msg = None /\ ~Draining
    /\ tcp.retry /\ ~tcp.fd /\ ~lastFd
    /\ Connects /\ tcp' = [fd |-> TRUE, retry |-> FALSE]
    /\ UNCHANGED <<state, seqIn, replayComplete, flags, msg, store, wire, seen>>

-----------------------------------------------------------------------------
(* The rest of Dispatch.                                                   *)

InDispatch == step["poll"] = "idle" /\ msg = None /\ ~Draining

\* The numbers are set to 0, in memory, in SessSvc's queue and in the file, and
\* the connection is about to be made anew; the file's lines are rewritten by
\* update_negotiated_in_file.
BeginReset ==
    /\ InDispatch /\ needsReset
    /\ ResetSessionSeqNumsToZero
    /\ file' = [file EXCEPT !.n = 0]
    /\ step' = [step EXCEPT !["poll"] = "stop"]
    /\ UNCHANGED <<state, replayComplete, needsReset, reconnecting, lastFd, gaveUp,
                   tcp, msg, wire, ex, seen, used>>

\* reset_session does not find its configuration or the file: the flag stays, and
\* Dispatch tries again.
ResetFails ==
    /\ InDispatch /\ needsReset /\ Spend("resetFails")
    /\ ResetSessionSeqNumsToZero
    /\ UNCHANGED <<state, replayComplete, flags, tcp, msg, file, wire, ex, seen>>

\* SessionLogin with the number q; on a dead connection the login is lost.
SessionLogin(q) ==
    /\ state' = "AwaitEstablishmentAck"
    /\ ReplayStarts
    /\ ex' = IF ex.conn = "open" THEN [ex EXCEPT !.conn = "asked", !.asked = q] ELSE ex

Dispatching == InDispatch /\ ~needsReset /\ ~reconnecting

\* No socket: the session is down, whatever its state was.
SeesNoSocket ==
    /\ Dispatching /\ ~tcp.fd
    /\ state # "Disconnected" \/ lastFd
    /\ state' = "Disconnected" /\ lastFd' = FALSE
    /\ UNCHANGED <<seqIn, replayComplete, needsReset, reconnecting, step, gaveUp,
                   tcp, msg, store, wire, ex, seen, used>>

\* reconnect_just_happened: StartSessionManager reads the file, then the login.
LoginAgain ==
    /\ Dispatching /\ tcp.fd /\ ~lastFd /\ state = "Disconnected" /\ saves = <<>>
    /\ lastFd' = TRUE
    /\ seqIn' = file /\ Queue(file)
    /\ SessionLogin(file)
    /\ UNCHANGED <<needsReset, reconnecting, step, gaveUp, tcp, msg, file, wire, seen, used>>

LoginFirst ==
    /\ Dispatching /\ tcp.fd /\ state = "StartingLoginProcess"
    /\ lastFd' = TRUE
    /\ SessionLogin(seqIn)
    /\ UNCHANGED <<seqIn, needsReset, reconnecting, step, gaveUp, tcp, msg, store,
                   wire, seen, used>>

\* Nothing to do but to note the socket.
SeesSocket ==
    /\ Dispatching /\ tcp.fd /\ ~lastFd
    /\ state \notin {"Disconnected", "StartingLoginProcess"}
    /\ lastFd' = TRUE
    /\ UNCHANGED <<state, seqIn, replayComplete, needsReset, reconnecting, step, gaveUp,
                   tcp, msg, store, wire, ex, seen, used>>

-----------------------------------------------------------------------------
(* Stopping the handler and starting another: the reset of Dispatch on the *)
(* poll thread, TCP_RECONNECT on the command thread.                       *)

\* tcpHandler->Stop().  Messages already received are lost with the handler,
\* but for those of the buffer that onRecv is working through.
StopHandler(t) ==
    /\ step[t] = "stop"
    /\ step' = [step EXCEPT ![t] = "session"]
    /\ tcp' = [tcp EXCEPT !.fd = FALSE]
    /\ ex' = [ex EXCEPT !.conn = "none"]
    /\ \E k \in 0 .. Len(wire) :
          /\ k = 0 \/ step["poll"] = "idle"
          /\ \A i \in 1 .. k : wire[i].type # "closed"
          /\ wire' = Prefix(wire, k)
          /\ excused' = excused \cup Unreplayed(Suffix(wire, k))
    /\ UNCHANGED <<state, seqIn, replayComplete, needsReset, reconnecting, lastFd, gaveUp,
                   msg, store, handled, used>>

\* StartSessionManager, a second later: the numbers come from the file.
StartSessionManager(t) ==
    /\ step[t] = "session" /\ saves = <<>>
    /\ msg = None /\ ~Draining
    /\ step' = [step EXCEPT ![t] = "tcp"]
    /\ reconnecting' = TRUE
    /\ state' = "StartingLoginProcess"
    /\ seqIn' = file /\ Queue(file)
    /\ UNCHANGED <<replayComplete, needsReset, lastFd, gaveUp, tcp, msg, file, wire, ex,
                   seen, used>>

\* StartTcpConnection: the new handler connects only if the state is still the
\* one StartSessionManager left (if not, the session is stopped, which queues a
\* save); only a handler that connected tries again.
StartTcpConnection(t) ==
    /\ step[t] = "tcp"
    /\ step' = [step EXCEPT ![t] = "idle"]
    /\ reconnecting' = FALSE
    /\ needsReset' = (needsReset /\ t # "poll")
    /\ wire' = <<>>
    /\ excused' = excused \cup Unreplayed(wire)
    /\ \/ state = "StartingLoginProcess" /\ Connects
          /\ tcp' = [fd |-> TRUE, retry |-> FALSE] /\ UNCHANGED <<state, saves>>
       \/ state = "StartingLoginProcess" /\ Fails
          /\ tcp' = [fd |-> FALSE, retry |-> FALSE] /\ UNCHANGED <<state, saves>>
       \/ state # "StartingLoginProcess"
          /\ ex' = [ex EXCEPT !.conn = "none"] /\ UNCHANGED used
          /\ tcp' = [fd |-> FALSE, retry |-> FALSE] /\ state' = "Disconnected"
          /\ Queue(seqIn)
    /\ gaveUp' = ~tcp'.fd
    /\ UNCHANGED <<seqIn, replayComplete, lastFd, msg, file, handled>>

-----------------------------------------------------------------------------
(* Commands, the state file, the process.                                  *)

\* CheckEvents, TCP_RECONNECT
TcpReconnect ==
    /\ step["cmd"] = "idle" /\ Spend("reconnect")
    /\ step' = [step EXCEPT !["cmd"] = "stop"]
    /\ reconnecting' = TRUE
    /\ UNCHANGED <<state, seqIn, replayComplete, needsReset, lastFd, gaveUp, tcp, msg, store,
                   wire, ex, seen>>

\* CheckEvents, TERMINATE: SendLogoutMsg when the session is up, whose first
\* step is the Update of sessmgr.Stop().
Terminate ==
    /\ step["cmd"] = "idle" /\ tcp.fd /\ Spend("terminate")
    /\ IF state = "Established"
       THEN /\ step' = [step EXCEPT !["cmd"] = "stopping"]
            /\ Queue(seqIn) /\ UNCHANGED state
       ELSE state' = "Terminating" /\ UNCHANGED <<step, saves>>
    /\ UNCHANGED <<seqIn, replayComplete, needsReset, reconnecting, lastFd, gaveUp, tcp, msg,
                   file, wire, ex, seen>>

\* The rest of SendLogoutMsg: Stop() marks the session down after a wait, the
\* state is set before the message is sent, and by CheckEvents again after it.
Logout ==
    /\ \/ step["cmd"] = "stopping" /\ state' = "Disconnected"
          /\ step' = [step EXCEPT !["cmd"] = "logout"] /\ UNCHANGED ex
       \/ step["cmd"] = "logout" /\ state' = "Terminating"
          /\ step' = [step EXCEPT !["cmd"] = "sent"]
          /\ ex' = IF ex.conn = "in" THEN [ex EXCEPT !.conn = "out"] ELSE ex
       \/ step["cmd"] = "sent" /\ state' = "Terminating"
          /\ step' = [step EXCEPT !["cmd"] = "idle"] /\ UNCHANGED ex
    /\ UNCHANGED <<seqIn, replayComplete, needsReset, reconnecting, lastFd, gaveUp, tcp, msg,
                   store, wire, seen, used>>

\* SessSvc::Run
Save ==
    /\ saves # <<>>
    /\ file' = Head(saves) /\ saves' = Tail(saves)
    /\ UNCHANGED <<state, seqIn, replayComplete, flags, tcp, msg, wire, ex, seen, used>>

\* The process dies and is started: the constructor, Start, StartTcpConnection.
\* A reset that was due is forgotten; if messages of the day already followed
\* the stale number, the file holds the number of the last one.
CrashAndStart ==
    /\ Spend("crash")
    /\ state' = "StartingLoginProcess" /\ seqIn' = file /\ saves' = <<file>>
    /\ replayComplete' = FALSE /\ needsReset' = FALSE /\ reconnecting' = FALSE
    /\ lastFd' = FALSE /\ step' = [t \in Threads |-> "idle"] /\ gaveUp' = FALSE
    /\ tcp' = [fd |-> TRUE, retry |-> FALSE]
    /\ ex' = [ex EXCEPT !.conn = "open"] /\ wire' = <<>>
    /\ msg' = None
    /\ excused' = excused \cup Unreplayed(wire)
                  \cup {n \in 1 .. MaxMsgs : msg # None /\ msg.n = n /\ msg.day = ex.day}
                  \cup {n \in 1 .. MaxMsgs : needsReset /\ file.day = ex.day /\ n <= file.n}
    /\ UNCHANGED <<file, handled>>

Init ==
    /\ state = "StartingLoginProcess"
    /\ file = [n |-> 0, day |-> 1] /\ seqIn = file /\ saves = <<file>>
    /\ replayComplete = FALSE /\ needsReset = FALSE /\ reconnecting = FALSE
    /\ lastFd = FALSE /\ step = [t \in Threads |-> "idle"] /\ msg = None
    /\ tcp = [fd |-> TRUE, retry |-> FALSE]
    /\ wire = <<>>
    /\ ex = [seq |-> 0, day |-> 1, conn |-> "open", asked |-> file]
    /\ handled = [n \in 1 .. MaxMsgs |-> 0] /\ excused = {} /\ gaveUp = FALSE
    /\ used = [k \in Mishaps |-> 0]

Poll ==
    \/ LoginMismatch \/ LoginAccepted \/ LoginAhead \/ LoggedOut \/ OnReplayComplete
    \/ Sequenced \/ ProcessApplicationMessage \/ Closed \/ Reconnect

Dispatch ==
    \/ BeginReset \/ ResetFails \/ SeesNoSocket \/ LoginAgain \/ LoginFirst \/ SeesSocket

Restart(t) == StopHandler(t) \/ StartSessionManager(t) \/ StartTcpConnection(t)

Exchange ==
    \/ Publish \/ AcceptLogin \/ RejectAhead \/ RefuseLogin \/ Cut \/ NewDay \/ HangUp

Next ==
    \/ Poll \/ Dispatch \/ \E t \in Threads : Restart(t)
    \/ TcpReconnect \/ Terminate \/ Logout \/ Save \/ CrashAndStart \/ Exchange

\* The threads run on; the exchange answers a login and hangs up on a client
\* that is silent.  Nothing else of the exchange, and no command, must happen.
Fairness ==
    /\ WF_vars(Poll) /\ WF_vars(Dispatch) /\ WF_vars(Save) /\ WF_vars(Logout)
    /\ \A t \in Threads : WF_vars(Restart(t))
    /\ WF_vars(AcceptLogin \/ RejectAhead \/ RefuseLogin) /\ WF_vars(HangUp)

Spec == Init /\ [][Next]_vars /\ Fairness

-----------------------------------------------------------------------------
(* Properties.                                                             *)

TypeOK ==
    /\ state \in States /\ replayComplete \in BOOLEAN
    /\ seqIn \in Numbers /\ file \in Numbers /\ saves \in Seq(Numbers)
    /\ needsReset \in BOOLEAN /\ reconnecting \in BOOLEAN /\ lastFd \in BOOLEAN
    /\ gaveUp \in BOOLEAN
    /\ tcp \in [fd : BOOLEAN, retry : BOOLEAN]
    /\ step \in [Threads -> Places]
    /\ wire \in Seq([type : Types, n : 0 .. MaxMsgs, day : 1 .. MaxDays])
    /\ msg \in [type : {"app", "replay"}, n : 1 .. MaxMsgs, day : 1 .. MaxDays] \cup {None}
    /\ ex \in [seq : 0 .. MaxMsgs, day : 1 .. MaxDays, asked : Numbers,
               conn : {"none", "open", "asked", "in", "out"}]
    /\ handled \in [1 .. MaxMsgs -> 0 .. 2] /\ excused \subseteq 1 .. MaxMsgs
    /\ used \in [Mishaps -> Nat] /\ \A k \in Mishaps : used[k] <= Limits[k]

\* When the session is up and has taken everything sent, no message of the day
\* was passed over: each was handled, but for those the code gives up on (a
\* replay cut short, a number of an older day, the one in hand at a crash, what
\* came on numbers that did not fit when the process dies before their reset).
NothingSkipped ==
    state = "Established" /\ replayComplete /\ ex.conn = "in" /\ tcp.fd
    /\ wire = <<>> /\ msg = None /\ ~needsReset =>
        \A n \in 1 .. ex.seq : handled[n] > 0 \/ n \in excused

\* A message handled for the second time is reported as a possible
\* retransmission: the order handlers count fills on that flag.
TwiceIsFlagged ==
    [][\A n \in 1 .. MaxMsgs :
          handled[n] = 1 /\ handled'[n] = 2 => ~replayComplete]_vars

\* After a reset the session starts from 0, whatever save was still queued for
\* the state file when the exchange rejected the login: the race that the
\* comment of Dispatch describes does not come back.
ResetReadsZero == step["poll"] = "tcp" => seqIn.n = 0

\* A session that goes down comes up again, through refusals, cuts, days that
\* begin and numbers that do not fit, unless a new handler could not connect,
\* which the code never tries again.
SessionComesUp == state # "Established" ~> (state = "Established" \/ gaveUp)

=============================================================================
