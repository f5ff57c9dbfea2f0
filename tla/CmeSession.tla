----------------------------- MODULE CmeSession -----------------------------
(***************************************************************************)
(* One market segment of the CME iLink 3 handler: the login, the incoming  *)
(* sequence numbers, gap detection and retransmission, the state file, and *)
(* what a crash or a restart does to them (CmeGT5, SessionStateManager,    *)
(* SessSvc, EFVITcpV5).                                                    *)
(*                                                                         *)
(* Two threads of the program act here.  The poll thread (Dispatch) logs   *)
(* in and notices a refused connection.  The processing thread takes the   *)
(* received messages one by one, and the operator's commands.  SessSvc is  *)
(* a third thread that writes the state file behind them.  The exchange is *)
(* external: it is modelled from the messages the handlers expect of it    *)
(* and the reject and terminate codes of IL3ErrorCodes.                    *)
(*                                                                         *)
(* An application message is its sequence number.  The bytes between       *)
(* exchange and processing thread, on the wire or in _qRecvBufs, are one   *)
(* FIFO, `inbox'; a connection that closes loses a suffix of it.           *)
(***************************************************************************)
EXTENDS Integers, Sequences, FiniteSets

CONSTANTS
    MaxSeq,      \* bound: messages the exchange publishes under one UUID
    MaxBatch,    \* MAX_BATCH_SIZE, and the exchange's limit of one retransmission
    MaxUuid,     \* bound: sessions negotiated
    Faults,      \* bound: how often each fault or command may happen
    MaxFaults,   \* bound: how many kinds of them happen in one behaviour
    Paced        \* the handler is fewer than MaxBatch live messages behind

FaultKinds == {"exit", "earlyExit", "close", "refuse", "skip", "retransReject",
               "negReject", "estReject", "exTerminate", "wipe", "uninit",
               "retransCmd", "stopCmd"}

ASSUME SessionConstants ==
    /\ MaxSeq \in Nat \ {0}
    /\ MaxBatch \in Nat \ {0}
    /\ MaxUuid \in Nat \ {0}
    /\ Faults \in [FaultKinds -> Nat]
    /\ MaxFaults \in Nat
    /\ Paced \in BOOLEAN

\* A batch, 2500 messages in the code, can be counted in gapInfo.count.
ASSUME BatchAssumption == MaxBatch < 65536

VARIABLES
    link,     \* the process and its TCP connection
    st,       \* SessionStateManager::CurrentState
    sess,     \* UUID, sequence numbers and negotiated flag of the manager
    gap,      \* gapInfo
    recov,    \* _qRecovIn: sequence numbers queued while waiting
    batch,    \* messages CheckIncomingSeq is replaying, and what follows them
    inHand,   \* message past the sequence check and not yet handled, or 0
    saved,    \* the snapshot last given to SessSvc
    disk,     \* the state file
    inbox,    \* messages from the exchange
    outbox,   \* messages to the exchange
    ex,       \* the exchange's side of the session
    left,     \* faults and commands that may still happen
    times,    \* how often each message was handled since the process started
    ever,     \* the messages of this UUID ever handled
    base,     \* SEQ_IN as the process took it over, before it handled any
    floor,    \* SEQ_IN as it was last forced, by a negotiation or a reject
    fileFloor \* floor when the state file was written

client == <<link, st, sess, gap, recov, batch, inHand, saved>>
ghosts == <<times, ever, base, floor, fileFloor>>
vars == <<client, disk, inbox, outbox, ex, left, ghosts>>

SessionStates == {"Disconnected", "StartingLoginProcess", "AwaitNegotiationResponse",
                  "Negotiated", "AwaitEstablishmentAck", "Established",
                  "WaitingForRetransmission", "Terminating"}

FreshFile == [uuid |-> 0, prevUuid |-> 0, seqIn |-> 0, neg |-> FALSE]
NoGap == [start |-> 0, end |-> 0, count |-> 0]
NoBatch == [to |-> 0, then |-> "none"]

\* ConnState::OkToSend
OkToSend(s) == s \in {"Established", "WaitingForRetransmission"}

\* gapInfo.count is a uint16_t.
Uint16(n) == n % 65536

Uint16s == {n \in Nat : n < 65536}

Seqs == 1 .. MaxSeq

-----------------------------------------------------------------------------
(* Helpers of the processing thread.                                       *)

\* Mutant of GapBetween: the message expected is not asked for.
MutGapBetween(expected, incoming) ==
    [start |-> expected + 1, end |-> incoming - 1, count |-> Uint16(incoming - expected)]

\* Gap handed to GapDetected(expected, incoming).
GapBetween(expected, incoming) ==
    [start |-> expected, end |-> incoming - 1, count |-> Uint16(incoming - expected)]

\* What a send puts on the wire; on a closed connection it is lost.
Wire(msgs) == outbox' = IF link = "open" THEN outbox \o msgs ELSE outbox

\* Mutant of RetransmitRequest: the count is not limited.
MutRetransmitRequest(from, count) ==
    <<[type |-> "RetransmitRequest", from |-> from, count |-> count]>>

\* SendRetransmitRequestMsg: a count above the batch size becomes 0, "all".
RetransmitRequest(from, count) ==
    <<[type |-> "RetransmitRequest", from |-> from,
       count |-> IF count > MaxBatch THEN 0 ELSE count]>>

TerminateRequest == <<[type |-> "Terminate"]>>

\* Update(): the manager's values are queued for SessSvc.
Update(s) == sess' = s /\ saved' = s

\* The processing thread is between two messages.
Idle == inHand = 0 /\ batch = NoBatch

\* h is where the run of queued messages that starts after SEQ_IN ends.
EndOfRun(queued, h) ==
    /\ h >= sess.seqIn
    /\ \A x \in (sess.seqIn + 1) .. h : x \in queued
    /\ h + 1 \notin queued

Smallest(S) == CHOOSE x \in S : \A y \in S : x <= y

\* The next message from the exchange has this type and is consumed.
Receive(type) ==
    /\ link # "down" /\ Idle
    /\ inbox # <<>> /\ Head(inbox).type = type
    /\ inbox' = Tail(inbox)

Spend(kind) ==
    /\ left[kind] > 0
    /\ left' = [left EXCEPT ![kind] = @ - 1]
    /\ Cardinality({k \in FaultKinds : left'[k] < Faults[k]}) <= MaxFaults

-----------------------------------------------------------------------------
(* The exchange (external).                                                *)

\* The exchange has something to tell: it numbers it, and delivers it when
\* the session is up.  A live message may be lost on the exchange's side.
\* Paced keeps it less than a batch ahead of SEQ_IN, and of 0 until the client
\* has taken the acknowledgement of its login, which may set SEQ_IN back to 0.
Publish(lost) ==
    /\ ex.known /\ ex.sent < MaxSeq
    /\ Paced /\ ex.on =>
          ex.sent + 1 < MaxBatch + (IF OkToSend(st) THEN sess.seqIn ELSE 0)
    /\ IF lost THEN ex.on /\ Spend("skip") ELSE UNCHANGED left
    /\ ex' = [ex EXCEPT !.sent = @ + 1]
    /\ inbox' = IF ex.on /\ ~lost
                THEN Append(inbox, [type |-> "App", seq |-> ex.sent + 1])
                ELSE inbox
    /\ UNCHANGED <<client, disk, outbox, ghosts>>

ExReceive(type) ==
    /\ outbox # <<>> /\ Head(outbox).type = type
    /\ outbox' = Tail(outbox)

ExNegotiate ==
    /\ ExReceive("Negotiate")
    /\ \/ /\ ex.uuid < MaxUuid
          /\ ex' = [uuid |-> ex.uuid + 1, sent |-> 0, known |-> FALSE, on |-> FALSE]
          /\ inbox' = Append(inbox, [type |-> "NegotiationResponse",
                                     uuid |-> ex.uuid + 1, prevUuid |-> ex.uuid])
          /\ ever' = {}
          /\ UNCHANGED left
       \/ /\ Spend("negReject")
          /\ inbox' = Append(inbox, [type |-> "NegotiationReject"])
          /\ UNCHANGED <<ex, ever>>
    /\ UNCHANGED <<client, disk, times, base, floor, fileFloor>>

\* A UUID that was established before is acknowledged as its own previous one;
\* one the exchange does not know is rejected.
ExEstablish ==
    /\ ExReceive("Establish")
    /\ \/ /\ Head(outbox).uuid = ex.uuid /\ ex.uuid # 0
          /\ inbox' = Append(inbox, [type |-> "EstablishmentAck", uuid |-> ex.uuid,
                                     prevUuid |-> IF ex.known THEN ex.uuid ELSE ex.uuid - 1,
                                     next |-> ex.sent + 1, prev |-> ex.sent])
          /\ ex' = [ex EXCEPT !.known = TRUE, !.on = TRUE]
          /\ UNCHANGED left
       \/ /\ IF Head(outbox).uuid = ex.uuid /\ ex.uuid # 0
             THEN Spend("estReject") ELSE UNCHANGED left
          /\ \E n \in Seqs : inbox' = Append(inbox, [type |-> "EstablishmentReject", next |-> n])
          /\ UNCHANGED ex
    /\ UNCHANGED <<client, disk, ghosts>>

\* A request for other messages than those sent is out of range; one request is answered
\* with at most MaxBatch messages.
ExRetransmit ==
    /\ ExReceive("RetransmitRequest") /\ ex.on
    /\ LET req == Head(outbox)
           last == ex.sent
           upTo == IF req.count = 0 THEN last ELSE req.from + req.count - 1
           known == req.from \in 1 .. last /\ upTo <= last
           end == IF upTo > req.from + MaxBatch - 1 THEN req.from + MaxBatch - 1 ELSE upTo
           refusal == <<[type |-> "RetransmitReject"]>>
       IN  \/ /\ known
              /\ inbox' = inbox \o [i \in 1 .. (end - req.from + 1) |->
                                       [type |-> "App", seq |-> req.from + i - 1]]
              /\ UNCHANGED left
           \/ /\ ~known
              /\ inbox' = inbox \o refusal
              /\ UNCHANGED left
           \/ /\ Spend("retransReject")
              /\ inbox' = inbox \o refusal
    /\ UNCHANGED <<client, disk, ex, ghosts>>

\* What is asked of a session that has ended is not answered.
ExIgnore ==
    /\ ExReceive("RetransmitRequest") /\ ~ex.on
    /\ UNCHANGED <<client, disk, inbox, ex, left, ghosts>>

\* The exchange ends the session because it was asked to, or on its own.
ExTerminateReply ==
    /\ ExReceive("Terminate")
    /\ inbox' = Append(inbox, [type |-> "Terminate"])
    /\ ex' = [ex EXCEPT !.on = FALSE]
    /\ UNCHANGED <<client, disk, left, ghosts>>

ExTerminate ==
    /\ ex.on /\ Spend("exTerminate")
    /\ inbox' = Append(inbox, [type |-> "Terminate"])
    /\ ex' = [ex EXCEPT !.on = FALSE]
    /\ UNCHANGED <<client, disk, outbox, ghosts>>

-----------------------------------------------------------------------------
(* Launch, TCP connection, and the end of the process.                     *)

Fresh == [s \in Seqs |-> 0]

\* Mutant of Launch: SEQ_IN is taken for the next message expected.
MutLaunch ==
    /\ link = "down"
    /\ link' = "connecting" /\ st' = "StartingLoginProcess"
    /\ Update([disk EXCEPT !.seqIn = IF disk.neg /\ @ < MaxSeq THEN @ + 1 ELSE @])
    /\ times' = Fresh /\ base' = sess'.seqIn /\ floor' = fileFloor
    /\ UNCHANGED <<gap, recov, batch, inHand, disk, inbox, outbox, ex, left, ever, fileFloor>>

\* Start and Init: the manager's values come from the state file.  Without one
\* the negotiated flag is never initialised.
Launch ==
    /\ link = "down"
    /\ link' = "connecting" /\ st' = "StartingLoginProcess"
    /\ \/ UNCHANGED left /\ Update(disk)
       \/ disk = FreshFile /\ Spend("uninit") /\ Update([disk EXCEPT !.neg = TRUE])
    /\ times' = Fresh /\ base' = disk.seqIn /\ floor' = fileFloor
    /\ UNCHANGED <<gap, recov, batch, inHand, disk, inbox, outbox, ex, ever, fileFloor>>

Connect ==
    /\ link = "connecting"
    /\ \/ link' = "open" /\ UNCHANGED left
       \/ link' = "refused" /\ Spend("refuse")
    /\ UNCHANGED <<st, sess, gap, recov, batch, inHand, saved, disk, inbox, outbox, ex, ghosts>>

\* A closed or reset connection is only logged: the session state stays.
Close ==
    /\ link = "open" /\ Spend("close")
    /\ link' = "closed"
    /\ \E n \in 0 .. Len(inbox) : inbox' = SubSeq(inbox, 1, n)
    /\ outbox' = <<>>
    /\ ex' = [ex EXCEPT !.on = FALSE]
    /\ UNCHANGED <<st, sess, gap, recov, batch, inHand, saved, disk, ghosts>>

\* The process is gone; what SessSvc had not written is lost with it.
Gone ==
    /\ link' = "down" /\ st' = "Disconnected"
    /\ sess' = FreshFile /\ saved' = FreshFile
    /\ gap' = NoGap /\ recov' = {} /\ batch' = NoBatch /\ inHand' = 0
    /\ inbox' = <<>> /\ outbox' = <<>>
    /\ ex' = [ex EXCEPT !.on = FALSE]
    /\ UNCHANGED <<disk, ghosts>>

\* The state file is the one a negotiation leaves: SEQ_IN is already 1.
JustNegotiated == disk.neg /\ disk.seqIn = 1 /\ 1 \notin ever

Exit ==
    /\ link # "down"
    /\ Spend(IF JustNegotiated THEN "earlyExit" ELSE "exit")
    /\ Gone

\* SessSvc rewrites the file with the snapshot it took from its queue.
Persist ==
    /\ link # "down" /\ disk # saved
    /\ disk' = saved /\ fileFloor' = floor
    /\ UNCHANGED <<client, inbox, outbox, ex, left, times, ever, base, floor>>

\* The operator removes the state file of a stopped process.
Wipe ==
    /\ link = "down" /\ disk # FreshFile /\ Spend("wipe")
    /\ disk' = FreshFile /\ fileFloor' = 0
    /\ UNCHANGED <<client, inbox, outbox, ex, times, ever, base, floor>>

-----------------------------------------------------------------------------
(* The poll thread.                                                        *)

EstablishSession ==
    /\ st' = "AwaitEstablishmentAck"
    /\ Wire(<<[type |-> "Establish", uuid |-> sess.uuid]>>)
    /\ UNCHANGED <<sess, saved, base, floor>>

NegotiateSession ==
    /\ st' = "AwaitNegotiationResponse"
    /\ Update([sess EXCEPT !.seqIn = 1])
    /\ base' = 1 /\ floor' = 1
    /\ Wire(<<[type |-> "Negotiate"]>>)

Dispatch ==
    /\ \/ /\ link = "refused" /\ st # "Disconnected"
          /\ st' = "Disconnected"
          /\ UNCHANGED <<sess, saved, outbox, base, floor>>
       \/ /\ link = "open" /\ st = "StartingLoginProcess"
          /\ IF sess.neg THEN EstablishSession ELSE NegotiateSession
       \/ /\ link \in {"open", "closed"} /\ st = "Negotiated"
          /\ EstablishSession
    /\ UNCHANGED <<link, gap, recov, batch, inHand, disk, inbox, ex, left, times, ever,
                   fileFloor>>

-----------------------------------------------------------------------------
(* The processing thread: session messages.                                *)

OnNegotiationResponse ==
    /\ Receive("NegotiationResponse")
    /\ Update([sess EXCEPT !.neg = TRUE, !.uuid = Head(inbox).uuid,
                           !.prevUuid = Head(inbox).prevUuid])
    /\ st' = "Negotiated"
    /\ UNCHANGED <<link, gap, recov, batch, inHand, disk, outbox, ex, left, ghosts>>

OnNegotiationReject ==
    /\ Receive("NegotiationReject")
    /\ st' = "Disconnected" /\ Update(sess)
    /\ UNCHANGED <<link, gap, recov, batch, inHand, disk, outbox, ex, left, ghosts>>

\* Mutant of OnEstablishmentAck: what was missed is counted as received.
MutOnEstablishmentAck ==
    /\ Receive("EstablishmentAck")
    /\ LET new == Head(inbox).uuid # Head(inbox).prevUuid
       IN  /\ Update([sess EXCEPT !.uuid = Head(inbox).uuid, !.prevUuid = Head(inbox).prevUuid,
                                  !.seqIn = IF new THEN 0 ELSE Head(inbox).prev])
           /\ IF new THEN base' = 0 /\ floor' = 0 ELSE UNCHANGED <<base, floor>>
    /\ st' = "Established"
    /\ UNCHANGED <<link, gap, recov, batch, inHand, disk, outbox, ex, left, times, ever,
                   fileFloor>>

\* The acknowledgement tells which session this is and what the exchange sent
\* of it.  What cannot be reconciled ends the process.
OnEstablishmentAck ==
    /\ Receive("EstablishmentAck")
    /\ LET ack == Head(inbox)
           s == [sess EXCEPT !.uuid = ack.uuid, !.prevUuid = ack.prevUuid]
           sameUuid == ack.uuid = ack.prevUuid
           behind == sameUuid /\ ack.prev > s.seqIn
       IN  \/ /\ ~sameUuid /\ ack.next = 1
              /\ st' = "Established" /\ Update([s EXCEPT !.seqIn = 0])
              /\ base' = 0 /\ floor' = 0
              /\ UNCHANGED <<gap, outbox>>
           \/ /\ \/ sameUuid /\ ack.prev = s.seqIn
                 \/ behind /\ s.seqIn = 0
              /\ st' = "Established" /\ Update(s)
              /\ UNCHANGED <<gap, outbox, base, floor>>
           \/ /\ behind /\ s.seqIn > 0
              /\ st' = "WaitingForRetransmission" /\ Update(s)
              /\ gap' = GapBetween(s.seqIn + 1, ack.next)
              /\ Wire(RetransmitRequest(s.seqIn + 1, ack.prev - s.seqIn))
              /\ UNCHANGED <<base, floor>>
    /\ UNCHANGED <<link, recov, batch, inHand, disk, ex, left, times, ever, fileFloor>>

ExitOnAck ==
    /\ link # "down" /\ Idle
    /\ inbox # <<>> /\ Head(inbox).type = "EstablishmentAck"
    /\ IF Head(inbox).uuid = Head(inbox).prevUuid
       THEN Head(inbox).prev < sess.seqIn
       ELSE Head(inbox).next # 1
    /\ Gone /\ UNCHANGED left

OnEstablishmentReject ==
    /\ Receive("EstablishmentReject")
    /\ st' = "Disconnected"
    /\ Update([sess EXCEPT !.seqIn = Head(inbox).next])
    /\ base' = Head(inbox).next /\ floor' = Head(inbox).next
    /\ UNCHANGED <<link, gap, recov, batch, inHand, disk, outbox, ex, left, times, ever,
                   fileFloor>>

OnTerminate ==
    /\ Receive("Terminate")
    /\ st' = "Disconnected" /\ Update(sess)
    /\ UNCHANGED <<link, gap, recov, batch, inHand, disk, outbox, ex, left, ghosts>>

\* "For now, we put the handler back into a state where it can process messages."
OnRetransmitReject ==
    /\ Receive("RetransmitReject")
    /\ st' = IF st = "WaitingForRetransmission" THEN "Established" ELSE st
    /\ UNCHANGED <<link, sess, gap, recov, batch, inHand, saved, disk, outbox, ex, left, ghosts>>

-----------------------------------------------------------------------------
(* The processing thread: application messages.                            *)

\* An expected message of an established session: counted, then handled.
InSequence ==
    /\ Receive("App")
    /\ st = "Established" /\ Head(inbox).seq = sess.seqIn + 1
    /\ Update([sess EXCEPT !.seqIn = @ + 1])
    /\ inHand' = Head(inbox).seq
    /\ UNCHANGED <<link, st, gap, recov, batch, disk, outbox, ex, left, ghosts>>

Gap ==
    /\ Receive("App")
    /\ st = "Established" /\ Head(inbox).seq > sess.seqIn + 1
    /\ gap' = GapBetween(sess.seqIn + 1, Head(inbox).seq)
    /\ recov' = recov \cup {Head(inbox).seq}
    /\ st' = "WaitingForRetransmission"
    /\ Wire(RetransmitRequest(gap'.start, gap'.count))
    /\ UNCHANGED <<link, sess, batch, inHand, saved, disk, ex, left, ghosts>>

TooLow ==
    /\ Receive("App")
    /\ st = "Established" /\ Head(inbox).seq <= sess.seqIn
    /\ st' = "Terminating" /\ Update(sess)
    /\ Wire(TerminateRequest)
    /\ UNCHANGED <<link, gap, recov, batch, inHand, disk, ex, left, ghosts>>

\* The last message of the gap lets the queue drain: the run that follows SEQ_IN
\* is replayed, and what is left over opens the next gap.
Drain ==
    /\ Receive("App")
    /\ st # "Established" /\ Head(inbox).seq = gap.end
    /\ st' = "Established"
    /\ LET queued == recov \cup {gap.end}
       IN  \E h \in sess.seqIn .. MaxSeq :
              /\ EndOfRun(queued, h)
              /\ LET rest == {x \in queued : x > h}
                 IN  /\ recov' = rest
                     /\ IF rest = {}
                        THEN /\ batch' = IF h > sess.seqIn THEN [to |-> h, then |-> "status"]
                                         ELSE NoBatch
                             /\ inHand' = IF h > sess.seqIn THEN 0 ELSE gap.end
                             /\ UNCHANGED gap
                        ELSE /\ gap' = GapBetween(h + 1, Smallest(rest))
                             /\ batch' = [to |-> h, then |-> "retrans"]
                             /\ UNCHANGED inHand
    /\ UNCHANGED <<link, sess, saved, disk, outbox, ex, left, ghosts>>

\* Mutant of NextBatch: the next batch is noted but not asked for.
MutNextBatch ==
    /\ Receive("App")
    /\ st # "Established" /\ Head(inbox).seq # gap.end
    /\ Head(inbox).seq = gap.start + MaxBatch - 1
    /\ recov' = recov \cup {Head(inbox).seq}
    /\ gap' = [gap EXCEPT !.start = Head(inbox).seq + 1, !.count = Uint16(@ - MaxBatch)]
    /\ UNCHANGED <<link, st, sess, batch, inHand, saved, disk, outbox, ex, left, ghosts>>

\* A full batch came and the gap is not closed: the next batch is asked for.
NextBatch ==
    /\ Receive("App")
    /\ st # "Established" /\ Head(inbox).seq # gap.end
    /\ Head(inbox).seq = gap.start + MaxBatch - 1
    /\ recov' = recov \cup {Head(inbox).seq}
    /\ gap' = [gap EXCEPT !.start = Head(inbox).seq + 1, !.count = Uint16(@ - MaxBatch)]
    /\ IF OkToSend(st) THEN Wire(RetransmitRequest(gap'.start, gap'.count))
                       ELSE UNCHANGED outbox
    /\ UNCHANGED <<link, st, sess, batch, inHand, saved, disk, ex, left, ghosts>>

Queued ==
    /\ Receive("App")
    /\ st # "Established"
    /\ Head(inbox).seq \notin {gap.end, gap.start + MaxBatch - 1}
    /\ recov' = recov \cup {Head(inbox).seq}
    /\ UNCHANGED <<link, st, sess, gap, batch, inHand, saved, disk, outbox, ex, left, ghosts>>

\* Mutant of ReplayNext: the drained messages are counted together.
MutReplayNext ==
    /\ inHand = 0 /\ batch # NoBatch /\ sess.seqIn < batch.to
    /\ Update([sess EXCEPT !.seqIn = batch.to])
    /\ inHand' = batch.to
    /\ UNCHANGED <<link, st, gap, recov, batch, disk, inbox, outbox, ex, left, ghosts>>

\* The drained messages go through the sequence check one by one.
ReplayNext ==
    /\ inHand = 0 /\ batch # NoBatch /\ sess.seqIn < batch.to
    /\ Update([sess EXCEPT !.seqIn = @ + 1])
    /\ inHand' = sess.seqIn + 1
    /\ UNCHANGED <<link, st, gap, recov, batch, disk, inbox, outbox, ex, left, ghosts>>

ReplayDone ==
    /\ inHand = 0 /\ batch # NoBatch /\ sess.seqIn = batch.to
    /\ batch' = NoBatch
    /\ IF batch.then = "retrans"
       THEN st' = "WaitingForRetransmission" /\ Wire(RetransmitRequest(gap.start, gap.count))
       ELSE UNCHANGED <<st, outbox>>
    /\ UNCHANGED <<link, sess, gap, recov, inHand, saved, disk, inbox, ex, left, ghosts>>

HandleMessage ==
    /\ inHand # 0
    /\ times' = [times EXCEPT ![inHand] = IF @ < 2 THEN @ + 1 ELSE @]
    /\ ever' = ever \cup {inHand}
    /\ inHand' = 0
    /\ UNCHANGED <<link, st, sess, gap, recov, batch, saved, disk, inbox, outbox, ex,
                   left, base, floor, fileFloor>>

-----------------------------------------------------------------------------
(* The processing thread: commands.                                        *)

RetransCommand ==
    /\ link # "down" /\ Idle /\ OkToSend(st) /\ Spend("retransCmd")
    /\ st' = "WaitingForRetransmission"
    /\ Wire(RetransmitRequest(sess.seqIn, 0))
    /\ UNCHANGED <<link, sess, gap, recov, batch, inHand, saved, disk, inbox, ex, ghosts>>

\* CheckEvents, TERMINATE, and onSequenceMsg when the fault-tolerance indicator
\* changed: the state becomes Terminating whether the message could be sent or not.
TerminateCommand ==
    /\ link \in {"connecting", "open", "closed"} /\ Idle /\ Spend("stopCmd")
    /\ st' = "Terminating"
    /\ IF OkToSend(st) THEN Update(sess) /\ Wire(TerminateRequest)
                       ELSE UNCHANGED <<sess, saved, outbox>>
    /\ UNCHANGED <<link, gap, recov, batch, inHand, disk, inbox, ex, ghosts>>

-----------------------------------------------------------------------------
Init ==
    /\ link = "down" /\ st = "Disconnected"
    /\ sess = FreshFile /\ saved = FreshFile /\ disk = FreshFile
    /\ gap = NoGap /\ recov = {} /\ batch = NoBatch /\ inHand = 0
    /\ inbox = <<>> /\ outbox = <<>>
    /\ ex = [uuid |-> 0, sent |-> 0, known |-> FALSE, on |-> FALSE]
    /\ left = Faults
    /\ times = Fresh /\ ever = {} /\ base = 0 /\ floor = 0 /\ fileFloor = 0

Application == InSequence \/ Gap \/ TooLow \/ Drain \/ NextBatch \/ Queued
                  \/ ReplayNext \/ ReplayDone \/ HandleMessage

Session == OnNegotiationResponse \/ OnNegotiationReject \/ OnEstablishmentAck \/ ExitOnAck
              \/ OnEstablishmentReject \/ OnTerminate \/ OnRetransmitReject

ExAnswer == ExNegotiate \/ ExEstablish \/ ExRetransmit \/ ExIgnore \/ ExTerminateReply

Exchange == (\E lost \in BOOLEAN : Publish(lost)) \/ ExAnswer \/ ExTerminate

Next ==
    \/ Launch \/ Connect \/ Close \/ Exit \/ Persist \/ Wipe
    \/ Dispatch
    \/ Session \/ Application
    \/ RetransCommand \/ TerminateCommand
    \/ Exchange

\* The processing thread never blocks, and the exchange answers its requests.
Fairness ==
    /\ WF_vars(Session \/ Application)
    /\ WF_vars(ExAnswer)

Spec == Init /\ [][Next]_vars /\ Fairness

-----------------------------------------------------------------------------
(* Properties.                                                             *)

Messages ==
    [type : {"App"}, seq : Seqs]
        \cup [type : {"NegotiationResponse"}, uuid : 0 .. MaxUuid, prevUuid : 0 .. MaxUuid]
        \cup [type : {"EstablishmentAck"}, uuid : 0 .. MaxUuid, prevUuid : 0 .. MaxUuid,
              next : 1 .. MaxSeq + 1, prev : 0 .. MaxSeq]
        \cup [type : {"EstablishmentReject"}, next : Seqs]
        \cup [type : {"NegotiationReject", "RetransmitReject", "Terminate"}]

Requests ==
    [type : {"Negotiate", "Terminate"}]
        \cup [type : {"Establish"}, uuid : 0 .. MaxUuid]
        \cup [type : {"RetransmitRequest"}, from : Nat, count : 0 .. MaxBatch]

Files == [uuid : 0 .. MaxUuid, prevUuid : 0 .. MaxUuid, seqIn : 0 .. MaxSeq, neg : BOOLEAN]

\* Every variable has its type.
TypeOK ==
    /\ link \in {"down", "connecting", "refused", "open", "closed"}
    /\ st \in SessionStates
    /\ sess \in Files /\ saved \in Files /\ disk \in Files
    /\ gap \in [start : Nat, end : 0 .. MaxSeq, count : Uint16s]
    /\ recov \subseteq Seqs
    /\ batch \in [to : 0 .. MaxSeq, then : {"none", "status", "retrans"}]
    /\ inHand \in 0 .. MaxSeq
    /\ inbox \in Seq(Messages) /\ outbox \in Seq(Requests)
    /\ ex \in [uuid : 0 .. MaxUuid, sent : 0 .. MaxSeq, known : BOOLEAN, on : BOOLEAN]
    /\ left \in [FaultKinds -> Nat]
    /\ times \in [Seqs -> 0 .. 2] /\ ever \subseteq Seqs
    /\ base \in 0 .. MaxSeq /\ floor \in 0 .. MaxSeq /\ fileFloor \in 0 .. MaxSeq

\* The operator has asked for a retransmission that no gap called for.
Commanded == left["retransCmd"] < Faults["retransCmd"]

\* SEQ_IN says what was done: since the process took the session over, exactly
\* the messages after its first SEQ_IN and up to the present one were handled,
\* each once, through gaps, replays, rejects and terminations, as long as the
\* operator commands no retransmission
\* (CheckIncomingSeq, CheckIncomingSequenceOK, drain).
HandledExactlyOnce ==
    link # "down" /\ ~Commanded =>
        \A x \in Seqs : times[x] = IF base < x /\ x <= sess.seqIn /\ x # inHand THEN 1 ELSE 0

\* A process whose operator has commanded no retransmission.
Running == link # "down" /\ ~Commanded

Delivery == INSTANCE OrderedDelivery WITH
    Numbers <- Seqs, on <- Running,
    base <- IF Running THEN base ELSE 0, last <- IF Running THEN sess.seqIn ELSE 0,
    hand <- IF Running THEN inHand ELSE 0, times <- IF Running THEN times ELSE Fresh

\* The session behaves as ordered delivery: whatever is lost, asked for again,
\* queued, drained or rejected, and however the process ends, the handlers get the
\* messages in the order of their numbers, each once, one at a time, and SEQ_IN is
\* only forced while the process has handled nothing
\* (CheckIncomingSeq, drain, NegotiateSession, onEstablishAckMsg).
DeliversInOrder == Delivery!Spec

Crashes == Faults["exit"] - left["exit"] + Faults["earlyExit"] - left["earlyExit"]

\* Restarts lose little: of the messages a process counts as received, after the
\* value SEQ_IN was last forced to in the session that it or the state file it took
\* over belongs to, at most one for each crash was never handled, the one that was
\* counted and saved but not yet handled (SetSeqIn before the handlers of
\* ProcessApplicationMessage; SessSvc).
RestartLosesOne ==
    link # "down" =>
        Cardinality(((floor + 1) .. sess.seqIn) \ (ever \cup {inHand})) <= Crashes

\* While it waits, what it waits for is missing and what it does not wait for is
\* there: everything before the range it asked for is queued, so that the drain
\* at the end of the gap finds no hole (GapDetected, the batch edge case).
WaitsForMissing ==
    st = "WaitingForRetransmission" /\ Idle /\ ~Commanded =>
        /\ gap.end > sess.seqIn
        /\ ((sess.seqIn + 1) .. (gap.start - 1)) \subseteq recov

\* A session that waits for a retransmission does not wait for ever: the gap is
\* closed, or the exchange refuses, or the connection or the session ends
\* (GapDetected, CheckIncomingSequenceOK, drain, onRetransmitRejectMsg).
GapCloses ==
    LET open == st = "WaitingForRetransmission" /\ link = "open" /\ ~Commanded
    IN  open ~> ~open

=============================================================================
